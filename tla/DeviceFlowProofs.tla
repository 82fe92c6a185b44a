-------------------------- MODULE DeviceFlowProofs --------------------------
(***************************************************************************)
(* For any number of device codes, polls, browsers and people, over either *)
(* store: a device code pays out once, to the person whose approval was    *)
(* its first decision, and that person approved as the account shown.      *)
(***************************************************************************)
EXTENDS DeviceFlow, TLAPS

\* Most leaves are first-order and Zenon's; the others do arithmetic.
USE ZenonT(30), SMTT(30)

\* Empty tables satisfy the invariant.
LEMMA InitEstablishes == Init => IInv
<1> SUFFICES ASSUME Init PROVE IInv
  OBVIOUS
<1>0. AnyCode \in Codes
  BY CodesAssumption DEF AnyCode
<1>1. TypeOK
  BY SMTT(30), <1>0 DEF Init, TypeOK, CodeRow, CodeStatus, NoPage, IdleUI, UIRequest, IdlePoll,
     PollRequest, Outcome, CliState, Decision
<1>2. TokensFollowTheDecision
  <2>1. ASSUME NEW d \in Codes
        PROVE  Len(tokens[d]) <= 1 /\ \A i \in 1..Len(tokens[d]) :
                 decided[d].verdict = "approved" /\ tokens[d][i] = decided[d].who
    <3>1. tokens[d] = << >>
      BY DEF Init
    <3>2. QED
      BY SMTT(30), <3>1
  <2>2. QED
    BY <2>1 DEF TokensFollowTheDecision
<1>3. QED
  BY <1>1, <1>2 DEF Init, IInv, RowSound, PollSound, OneIssuer, PageSound, Informed, IdleUI,
     IdlePoll

\* What a poll may become short of issuing: it has read no approval that was
\* not given, and consumes for tokens only what it read as approved.
Quiet(r) ==
    /\ r \in PollRequest /\ r.pc # "issue"
    /\ r.pc \in {"poll", "claim", "slow", "consume"} /\ r.seen = "approved" =>
         decided[r.code].verdict = "approved"
    /\ r.pc = "consume" /\ r.out = "token" => r.seen = "approved"

\* The table keeps every status and approver, but for rows that go.
OnlyGoes ==
    /\ codes' \in [Codes -> CodeRow]
    /\ \A d \in Codes : codes'[d].st \in {codes[d].st, "gone"} /\ codes'[d].who = codes[d].who

\* A step of one poll that issues nothing keeps the invariant.
LEMMA QuietStep ==
    ASSUME IInv, NEW h \in Handlers, NEW r, Quiet(r), poll' = [poll EXCEPT ![h] = r], OnlyGoes,
           cli' \in CliState, failures' \in Nat, paced' \in [Codes -> Nat], rushed' \subseteq Codes,
           UNCHANGED <<backend, now, browserVars, decided, tokens>>
    PROVE  IInv'
<1>1. TypeOK'
  BY DEF IInv, TypeOK, Quiet, OnlyGoes, browserVars
<1>2. \A g \in Handlers : poll'[g] = IF g = h THEN r ELSE poll[g]
  BY DEF IInv, TypeOK
<1>3. ASSUME NEW d \in Codes PROVE (RowSound(d) /\ Informed(decided[d]))'
  BY DEF IInv, RowSound, Informed, OnlyGoes
<1>4. ASSUME NEW g \in Handlers PROVE PollSound(g)'
  <2>1. CASE g = h
    BY <1>2, <2>1 DEF PollSound, Quiet
  <2>2. CASE g # h
    <3>1. poll'[g] = poll[g] /\ PollSound(g) /\ poll[g].code \in Codes
      BY <1>2, <2>2 DEF IInv, TypeOK, PollRequest
    <3>2. QED
      BY <3>1 DEF PollSound, OnlyGoes
  <2>3. QED
    BY <2>1, <2>2
<1>5. OneIssuer'
  BY SMTT(30), <1>2 DEF IInv, OneIssuer, Quiet
<1>6. (\A b \in Browsers : PageSound(b))' /\ (\A q \in Requests : Informed(ui[q]))'
  BY DEF IInv, PageSound, Informed, browserVars
<1>7. TokensFollowTheDecision'
  BY DEF IInv, TokensFollowTheDecision
<1>8. QED
  BY <1>1, <1>3, <1>4, <1>5, <1>6, <1>7 DEF IInv

\* A step that leaves codes, polls and decisions alone keeps what is said of them.
LEMMA TablesFrame ==
    ASSUME IInv, UNCHANGED <<codes, poll, decided, tokens>>
    PROVE  /\ (\A d \in Codes : RowSound(d) /\ Informed(decided[d]))'
           /\ (\A h \in Handlers : PollSound(h))' /\ OneIssuer' /\ TokensFollowTheDecision'
  BY DEF IInv, RowSound, Informed, PollSound, OneIssuer, TokensFollowTheDecision

\* The command line's next state is well formed, whatever it hears.
LEMMA CliTyped ==
    ASSUME IInv, NEW out \in Outcome
    PROVE  (CliHears(out) => cli' \in CliState) /\ (CliTransient => cli' \in CliState)
<1>1. cli \in CliState /\ now \in Nat
  BY DEF IInv, TypeOK
<1>2. ASSUME NEW i \in Nat, NEW s \in Nat, NEW b \in Nat, CliSleeps(i, s, b) PROVE cli' \in CliState
  <2>1. now + s \in Nat
    BY SMTT(30), <1>1
  <2>2. QED
    BY <1>1, <1>2, <2>1 DEF CliSleeps, CliState
<1>3. CliTransient => cli' \in CliState
  <2>1. cli.interval \in Nat /\ cli.backoff \in Nat
    BY <1>1 DEF CliState
  <2>2. Least(2 * cli.backoff, BackoffCap * cli.interval) \in Nat
    BY SMTT(30), <2>1 DEF Least, BackoffCap
  <2>3. QED
    BY <1>2, <2>1, <2>2 DEF CliTransient
<1>4. CliEnds(out) => cli' \in CliState
  BY <1>1 DEF CliEnds, CliState
<1>5. QED
  <2>1. cli.interval \in Nat /\ cli.interval + Bump \in Nat
    BY SMTT(30), <1>1 DEF CliState, Bump
  <2>2. QED
    BY <1>2, <1>3, <1>4, <2>1 DEF CliHears

\* The steps of a poll that issues nothing.
LEMMA PollPreserves ==
    ASSUME IInv, NEW h \in Handlers,
           \/ CliTurn(h) \/ Lookup(h) \/ PollNotFound(h) \/ PgPollDeviceCode(h)
           \/ SqlitePollDeviceCode(h) \/ ClaimPoll(h) \/ SlowDown(h) \/ PollFails(h) \/ Answer(h)
    PROVE  IInv'
<1>0. /\ TypeOK /\ poll[h] \in PollRequest /\ PollSound(h) /\ AnyCode \in Codes
      /\ poll[h].code \in Codes /\ codes[poll[h].code] \in CodeRow /\ RowSound(poll[h].code)
  BY CodesAssumption DEF IInv, TypeOK, PollRequest, AnyCode
<1>1. UNCHANGED codes => OnlyGoes
  BY <1>0 DEF OnlyGoes, TypeOK
<1>2. ASSUME NEW out \in Outcome PROVE Quiet([poll[h] EXCEPT !.pc = "answer", !.out = out])
  BY <1>0 DEF Quiet, PollRequest
<1>3. ASSUME NEW out, Reply(h, out)
      PROVE  poll' = [poll EXCEPT ![h] = [poll[h] EXCEPT !.pc = "answer", !.out = out]]
  BY <1>0, <1>3 DEF Reply, TypeOK
<1>4. ASSUME poll[h].pc \in {"poll", "claim"}, Row(poll[h].code), Accepted(h, poll[h].code),
             UNCHANGED <<backend, now, browserVars, cli, failures, decided, tokens>>
      PROVE  IInv'
  <2>1. Quiet(Onward(poll[h]))
    <3> DEFINE r == poll[h]
    <3>0. r \in PollRequest /\ r.at \in Nat /\ r.expires \in Nat
          /\ (r.seen = "approved" => decided[r.code].verdict = "approved")
      BY <1>0, <1>4 DEF PollSound, PollRequest
    <3>1. ASSUME NEW p \in {"consume", "answer"}, NEW o \in Outcome,
                 o = "token" => r.seen = "approved"
          PROVE  Quiet([r EXCEPT !.pc = p, !.out = o])
      BY <3>0, <3>1 DEF Quiet, PollRequest
    <3>2. {"expired", "denied", "token", "pending"} \subseteq Outcome
      BY DEF Outcome
    <3>3. CASE r.at > r.expires
      BY <3>1, <3>2, <3>3, <3>0 DEF Onward
    <3>4. CASE ~(r.at > r.expires)
      <4>0. r.at <= r.expires
        BY SMTT(30), <3>0, <3>4
      <4>1. CASE r.seen = "denied"
        BY <3>1, <3>2, <3>4, <4>0, <4>1 DEF Onward
      <4>2. CASE r.seen = "approved"
        BY <3>1, <3>2, <3>4, <4>0, <4>2 DEF Onward
      <4>3. CASE r.seen \notin {"denied", "approved"}
        BY <3>1, <3>2, <3>4, <4>0, <4>3 DEF Onward
      <4>4. QED
        BY <4>1, <4>2, <4>3
    <3>5. QED
      BY <3>3, <3>4
  <2>2. poll' = [poll EXCEPT ![h] = Onward(poll[h])]
    BY <1>4, <1>0 DEF Accepted, TypeOK
  <2>3. OnlyGoes
    BY <1>4, <1>0 DEF Accepted, OnlyGoes, TypeOK, CodeRow, PollRequest
  <2>4. paced' \in [Codes -> Nat] /\ rushed' \subseteq Codes
    BY <1>4, <1>0 DEF Accepted, TypeOK, PollRequest
  <2>5. QED
    BY <1>0, <1>4, <2>1, <2>2, <2>3, <2>4, QuietStep DEF TypeOK
<1>5. ASSUME SlowedDown(h, poll[h].code),
             UNCHANGED <<backend, now, browserVars, cli, failures, decided, tokens>>
      PROVE  IInv'
  <2>1. OnlyGoes
    <3> DEFINE d == poll[h].code
               i == codes[d].interval + Bump
               row == [codes[d] EXCEPT !.last = poll[h].at, !.interval = i]
    <3>1. poll[h].at \in Nat /\ i \in Nat
      BY SMTT(30), <1>0 DEF PollRequest, CodeRow, Bump
    <3>2. row \in CodeRow /\ row.st = codes[d].st /\ row.who = codes[d].who
      BY <1>0, <3>1 DEF CodeRow
    <3>3. CASE Row(d)
      <4>1. codes' = [codes EXCEPT ![d].last = poll[h].at, ![d].interval = i]
        BY <1>5, <1>0, <3>3 DEF SlowedDown, TypeOK, CodeRow
      <4>2. codes' = [codes EXCEPT ![d] = row]
        BY <1>0, <4>1 DEF TypeOK, CodeRow
      <4>3. QED
        BY <1>0, <3>2, <4>2 DEF OnlyGoes, TypeOK
    <3>4. QED
      BY <1>1, <1>5, <3>3 DEF SlowedDown
  <2>2. "slow_down" \in Outcome
    BY DEF Outcome
  <2>3. QED
    BY <1>0, <1>2, <1>3, <1>5, <2>1, <2>2, QuietStep DEF SlowedDown, TypeOK
<1>6. CASE CliTurn(h)
  <2>1. CASE now - cli.start >= CodeTTL
    <3>1. cli' \in CliState
      BY <1>0, <1>6, <2>1, ZenonT(30) DEF CliTurn, CliEnds, TypeOK, CliState, Outcome
    <3>2. TypeOK'
      BY <1>0, <1>6, <2>1, <3>1 DEF CliTurn, TypeOK, browserVars
    <3>3. UNCHANGED <<codes, poll, decided, tokens, page, sessions, ui>>
      BY <1>6, <2>1 DEF CliTurn, browserVars
    <3>4. QED
      BY <3>2, <3>3, TablesFrame DEF IInv, PageSound, Informed
  <2>2. CASE ~(now - cli.start >= CodeTTL)
    <3> DEFINE r == [IdlePoll EXCEPT !.pc = "lookup", !.code = cli.code, !.since = now]
    <3>1. Quiet(r)
      BY <1>0 DEF Quiet, IdlePoll, PollRequest, TypeOK, CliState, CodeStatus, Outcome
    <3>2. cli' \in CliState
      <4>1. cli' = [cli EXCEPT !.pc = "await", !.on = {h}] /\ {h} \subseteq Handlers
        BY <1>6, <2>2 DEF CliTurn
      <4>2. QED
        BY <1>0, <4>1 DEF TypeOK, CliState
    <3>3. poll' = [poll EXCEPT ![h] = r]
      BY <1>6, <2>2 DEF CliTurn
    <3>4. QED
      BY <1>0, <1>1, <1>6, <3>1, <3>2, <3>3, QuietStep DEF CliTurn, TypeOK
  <2>3. QED
    BY <2>1, <2>2
<1>7. CASE Lookup(h)
  <2>1. CASE Row(poll[h].code)
    <3> DEFINE r == [poll[h] EXCEPT !.pc = "poll", !.at = now, !.seen = codes[poll[h].code].st,
                                    !.expires = codes[poll[h].code].expires]
    <3>1. Quiet(r)
      BY <1>0 DEF Quiet, PollRequest, TypeOK, CodeRow, RowSound
    <3>2. poll' = [poll EXCEPT ![h] = r]
      BY <1>0, <1>7, <2>1 DEF Lookup, TypeOK
    <3>3. QED
      BY <1>0, <1>1, <1>7, <3>1, <3>2, QuietStep DEF Lookup, TypeOK
  <2>2. CASE ~Row(poll[h].code)
    <3>1. "invalid" \in Outcome
      BY DEF Outcome
    <3>2. QED
      BY <1>0, <1>1, <1>2, <1>3, <1>7, <2>2, <3>1, QuietStep DEF Lookup, TypeOK
  <2>3. QED
    BY <2>1, <2>2
<1>8. CASE PollNotFound(h)
  <2>1. "invalid" \in Outcome
    BY DEF Outcome
  <2>2. QED
    BY <1>0, <1>1, <1>2, <1>3, <1>8, <2>1, QuietStep DEF PollNotFound, TypeOK
<1>9. CASE PgPollDeviceCode(h)
  BY <1>4, <1>5, <1>9 DEF PgPollDeviceCode, Stored
<1>10. CASE SqlitePollDeviceCode(h)
  <2> DEFINE r == [poll[h] EXCEPT !.pc = IF PacedNow(h) THEN "claim" ELSE "slow",
                                  !.last = codes[poll[h].code].last]
  <2>1. Quiet(r)
    BY <1>0, <1>10 DEF SqlitePollDeviceCode, Stored, Quiet, PollRequest, CodeRow, PollSound
  <2>2. poll' = [poll EXCEPT ![h] = r]
    BY <1>0, <1>10 DEF SqlitePollDeviceCode, TypeOK
  <2>3. QED
    BY <1>0, <1>1, <1>10, <2>1, <2>2, QuietStep DEF SqlitePollDeviceCode, TypeOK
<1>11. CASE ClaimPoll(h)
  <2>1. CASE Row(poll[h].code) /\ codes[poll[h].code].last = poll[h].last
    BY <1>4, <1>11, <2>1 DEF ClaimPoll
  <2>2. CASE ~(Row(poll[h].code) /\ codes[poll[h].code].last = poll[h].last)
    <3> DEFINE r == [poll[h] EXCEPT !.pc = "slow"]
    <3>1. Quiet(r)
      BY <1>0, <1>11 DEF ClaimPoll, Quiet, PollRequest, PollSound
    <3>2. poll' = [poll EXCEPT ![h] = r]
      BY <1>0, <1>11, <2>2 DEF ClaimPoll, TypeOK
    <3>3. QED
      BY <1>0, <1>1, <1>11, <2>2, <3>1, <3>2, QuietStep DEF ClaimPoll, TypeOK
  <2>3. QED
    BY <2>1, <2>2
<1>12. CASE SlowDown(h)
  BY <1>5, <1>12 DEF SlowDown
<1>13. CASE PollFails(h)
  <2> DEFINE out == IF poll[h].pc = "consume" /\ poll[h].out # "token" THEN poll[h].out ELSE "error"
  <2>1. out \in Outcome
    BY <1>0 DEF PollRequest, Outcome
  <2>2. Reply(h, out) /\ failures' \in Nat
    BY SMTT(30), <1>0, <1>13 DEF PollFails, TypeOK
  <2>3. QED
    BY <1>0, <1>1, <1>2, <1>3, <1>13, <2>1, <2>2, QuietStep DEF PollFails, TypeOK
<1>14. CASE Answer(h)
  <2>1. Quiet(IdlePoll)
    BY <1>0 DEF Quiet, IdlePoll, PollRequest, CodeStatus, Outcome
  <2>2. cli' \in CliState
    BY <1>0, <1>14, CliTyped DEF Answer, TypeOK, PollRequest
  <2>3. QED
    BY <1>0, <1>1, <1>14, <2>1, <2>2, QuietStep DEF Answer, TypeOK
<1>15. QED
  BY <1>6, <1>7, <1>8, <1>9, <1>10, <1>11, <1>12, <1>13, <1>14

\* Consuming a row: the one poll that finds an approved row is its issuer.
LEMMA ConsumePreserves ==
    ASSUME IInv, NEW h \in Handlers, ConsumeDeviceCode(h)
    PROVE  IInv'
<1> DEFINE d == poll[h].code
<1>0. /\ TypeOK /\ poll[h] \in PollRequest /\ PollSound(h) /\ d \in Codes
      /\ codes[d] \in CodeRow /\ RowSound(d) /\ poll[h].pc = "consume"
  BY DEF IInv, TypeOK, PollRequest, ConsumeDeviceCode
<1>1. OnlyGoes
  <2>1. [codes[d] EXCEPT !.st = "gone"] \in CodeRow
    BY <1>0 DEF CodeRow, CodeStatus
  <2>2. codes' = IF Row(d) THEN [codes EXCEPT ![d] = [codes[d] EXCEPT !.st = "gone"]] ELSE codes
    BY <1>0 DEF ConsumeDeviceCode, ConsumedRow
  <2>3. QED
    BY <1>0, <2>1, <2>2 DEF OnlyGoes, TypeOK, CodeRow
<1>2. CASE poll[h].out # "token" \/ ~Row(d)
  <2> DEFINE out == IF poll[h].out # "token" THEN poll[h].out ELSE "invalid"
             r == [poll[h] EXCEPT !.pc = "answer", !.out = out]
  <2>1. Quiet(r)
    BY <1>0 DEF Quiet, PollRequest, Outcome
  <2>2. poll' = [poll EXCEPT ![h] = r]
    <3>1. CASE poll[h].out # "token"
      <4>1. r = [poll[h] EXCEPT !.pc = "answer"]
        BY <1>0, <3>1 DEF PollRequest
      <4>2. QED
        BY <1>0, <3>1, <4>1 DEF ConsumeDeviceCode, TypeOK
    <3>2. CASE poll[h].out = "token" /\ ~Row(d)
      BY <1>0, <3>2 DEF ConsumeDeviceCode, Reply, TypeOK
    <3>3. QED
      BY <1>2, <3>1, <3>2
  <2>3. QED
    BY <1>0, <1>1, <2>1, <2>2, QuietStep DEF ConsumeDeviceCode, TypeOK
<1>3. CASE poll[h].out = "token" /\ Row(d)
  <2> DEFINE r == [poll[h] EXCEPT !.pc = "issue", !.who = codes[d].who]
  <2>1. poll' = [poll EXCEPT ![h] = r]
    BY <1>0, <1>3 DEF ConsumeDeviceCode, TypeOK
  <2>2. r \in PollRequest /\ r.code = d /\ r.pc = "issue" /\ r.who = codes[d].who
    BY <1>0 DEF PollRequest, CodeRow
  <2>3. \A g \in Handlers : poll'[g] = IF g = h THEN r ELSE poll[g]
    BY <1>0, <2>1 DEF TypeOK
  <2>4. /\ codes[d].st # "gone" /\ codes'[d].st = "gone" /\ tokens[d] = <<>>
        /\ decided[d].verdict = "approved" /\ decided[d].who = codes[d].who
    <3>1. decided[d].verdict = "approved"
      BY <1>0, <1>3 DEF PollSound
    <3>2. codes[d].st = "approved"
      BY <1>0, <1>3, <3>1 DEF Row, RowSound
    <3>3. codes'[d].st = "gone"
      BY <1>0, <1>3 DEF ConsumeDeviceCode, ConsumedRow, TypeOK, CodeRow
    <3>4. QED
      BY <1>0, <3>1, <3>2, <3>3 DEF RowSound
  <2>5. UNCHANGED <<backend, now, sessions, page, ui, decided, tokens, cookie, bounce, cli,
                    failures, paced, rushed>>
    BY DEF ConsumeDeviceCode, browserVars
  <2>6. TypeOK'
    BY <1>0, <1>1, <2>1, <2>2, <2>5 DEF OnlyGoes, TypeOK
  <2>7. ASSUME NEW c \in Codes PROVE (RowSound(c) /\ Informed(decided[c]))'
    BY <1>1, <2>5 DEF IInv, RowSound, Informed, OnlyGoes
  <2>8. ASSUME NEW g \in Handlers PROVE PollSound(g)'
    <3>1. CASE g = h
      BY <2>2, <2>3, <2>4, <2>5, <3>1 DEF PollSound
    <3>2. CASE g # h
      <4>1. poll'[g] = poll[g] /\ PollSound(g) /\ poll[g].code \in Codes
        BY <2>3, <3>2 DEF IInv, TypeOK, PollRequest
      <4>2. QED
        BY <1>1, <2>5, <4>1 DEF PollSound, OnlyGoes
    <3>3. QED
      BY <3>1, <3>2
  <2>9. OneIssuer'
    <3>1. \A g \in Handlers : poll[g].pc = "issue" => poll[g].code # d
      BY <2>4 DEF IInv, PollSound
    <3>2. QED
      <4>1. SUFFICES ASSUME NEW f \in Handlers, NEW g \in Handlers, poll'[f].pc = "issue",
                            poll'[g].pc = "issue", f # g
                     PROVE  poll'[f].code # poll'[g].code
        BY DEF OneIssuer
      <4>2. CASE f = h
        BY <2>2, <2>3, <3>1, <4>1, <4>2, ZenonT(30)
      <4>3. CASE g = h
        BY <2>2, <2>3, <3>1, <4>1, <4>3
      <4>4. CASE f # h /\ g # h
        BY <2>3, <4>1, <4>4 DEF IInv, OneIssuer
      <4>5. QED
        BY <4>2, <4>3, <4>4
  <2>10. /\ (\A b \in Browsers : PageSound(b))' /\ (\A q \in Requests : Informed(ui[q]))'
         /\ TokensFollowTheDecision'
    BY <2>5 DEF IInv, PageSound, Informed, TokensFollowTheDecision
  <2>11. QED
    BY <2>6, <2>7, <2>8, <2>9, <2>10 DEF IInv
<1>4. QED
  BY <1>2, <1>3

\* Issuing: the issuer adds the only tokens of its code, for the approver.
LEMMA IssuePreserves ==
    ASSUME IInv, NEW h \in Handlers, Issue(h)
    PROVE  IInv'
<1> DEFINE d == poll[h].code
           w == poll[h].who
<1>0. /\ TypeOK /\ poll[h] \in PollRequest /\ d \in Codes /\ codes[d].st = "gone"
      /\ tokens[d] = <<>> /\ decided[d].verdict = "approved" /\ decided[d].who = w
      /\ w \in People
  BY DEF IInv, TypeOK, PollRequest, PollSound, Issue, Informed
<1>1. UNCHANGED <<backend, now, codes, browserVars, cli, failures, decided, paced, rushed>>
  BY DEF Issue
<1>2. ASSUME NEW out \in Outcome PROVE Quiet([poll[h] EXCEPT !.pc = "answer", !.out = out])
  BY <1>0 DEF Quiet, PollRequest
<1>3. CASE UNCHANGED tokens /\ Reply(h, "denied")
  <2>1. "denied" \in Outcome
    BY DEF Outcome
  <2>2. poll' = [poll EXCEPT ![h] = [poll[h] EXCEPT !.pc = "answer", !.out = "denied"]]
    BY <1>0, <1>3 DEF Reply, TypeOK
  <2>3. OnlyGoes
    BY <1>0, <1>1 DEF OnlyGoes, TypeOK
  <2>4. QED
    BY <1>0, <1>1, <1>2, <1>3, <2>1, <2>2, <2>3, QuietStep DEF TypeOK
<1>4. CASE tokens' = [tokens EXCEPT ![d] = Append(@, w)] /\ Reply(h, "token")
  <2> DEFINE r == [poll[h] EXCEPT !.pc = "answer", !.out = "token"]
  <2>1. poll' = [poll EXCEPT ![h] = r] /\ r \in PollRequest /\ r.pc = "answer"
    BY <1>0, <1>4 DEF Reply, TypeOK, PollRequest, Outcome
  <2>2. Append(<<>>, w) = <<w>> /\ <<w>> \in Seq(People)
    BY SMTT(30), <1>0
  <2>3. tokens' = [tokens EXCEPT ![d] = <<w>>]
    BY <1>0, <1>4, <2>2 DEF TypeOK
  <2>4. TypeOK'
    BY <1>0, <1>1, <2>1, <2>2, <2>3 DEF TypeOK, browserVars
  <2>5. \A g \in Handlers : poll'[g] = IF g = h THEN r ELSE poll[g]
    BY <1>0, <2>1 DEF TypeOK
  <2>6. \A c \in Codes : tokens'[c] = IF c = d THEN <<w>> ELSE tokens[c]
    BY <1>0, <2>3 DEF TypeOK
  <2>7. ASSUME NEW c \in Codes PROVE (RowSound(c) /\ Informed(decided[c]))'
    BY <1>0, <1>1, <2>6 DEF IInv, RowSound, Informed
  <2>8. ASSUME NEW g \in Handlers PROVE PollSound(g)'
    <3>1. CASE g = h
      BY <2>1, <2>5, <3>1 DEF PollSound
    <3>2. CASE g # h
      <4>1. poll'[g] = poll[g] /\ PollSound(g) /\ poll[g].code \in Codes
        BY <2>5, <3>2 DEF IInv, TypeOK, PollRequest
      <4>2. poll[g].pc = "issue" => poll[g].code # d
        BY <3>2 DEF IInv, OneIssuer, Issue
      <4>3. QED
        BY <1>1, <2>6, <4>1, <4>2 DEF PollSound
    <3>3. QED
      BY <3>1, <3>2
  <2>9. OneIssuer'
    BY SMTT(30), <2>1, <2>5 DEF IInv, OneIssuer
  <2>10. (\A b \in Browsers : PageSound(b))' /\ (\A q \in Requests : Informed(ui[q]))'
    BY <1>1 DEF IInv, PageSound, Informed, browserVars
  <2>11. TokensFollowTheDecision'
    <3>1. Len(<<w>>) = 1 /\ <<w>>[1] = w
      OBVIOUS
    <3>2. ASSUME NEW c \in Codes
          PROVE  Len(tokens'[c]) <= 1 /\ \A i \in 1..Len(tokens'[c]) :
                   decided'[c].verdict = "approved" /\ tokens'[c][i] = decided'[c].who
      <4>1. CASE c = d
        <5>1. tokens'[c] = <<w>> /\ Len(tokens'[c]) = 1 /\ tokens'[c][1] = w
          BY <2>6, <3>1, <4>1
        <5>2. decided'[c].verdict = "approved" /\ decided'[c].who = w
          BY <1>0, <1>1, <4>1
        <5>3. \A i \in 1..Len(tokens'[c]) : i = 1
          BY SMTT(30), <5>1
        <5>4. QED
          BY SMTT(30), <5>1, <5>2, <5>3
      <4>2. CASE c # d
        BY <1>1, <2>6, <4>2 DEF IInv, TokensFollowTheDecision
      <4>3. QED
        BY <4>1, <4>2
    <3>3. QED
      BY <3>2 DEF TokensFollowTheDecision
  <2>12. QED
    BY <2>4, <2>7, <2>8, <2>9, <2>10, <2>11 DEF IInv
<1>5. QED
  BY <1>3, <1>4 DEF Issue

\* A code that is asked for is new, and one that is reaped has gone.
LEMMA RowsPreserve ==
    ASSUME IInv, NEW d \in Codes, DeviceAuthorization(d) \/ Reap(d)
    PROVE  IInv'
<1> DEFINE row == codes'[d]
<1>0. TypeOK /\ codes[d] \in CodeRow /\ RowSound(d) /\ now \in Nat
  BY DEF IInv, TypeOK
<1>1. UNCHANGED <<backend, now, browserVars, poll, decided, tokens, paced, rushed>>
  BY DEF DeviceAuthorization, Reap
<1>2. cli' \in CliState /\ failures' \in Nat
  <2>1. CASE Reap(d)
    BY <1>0, <2>1 DEF Reap, TypeOK
  <2>2. CASE DeviceAuthorization(d)
    <3>1. cli' = CliStarts(d) => cli' \in CliState
      BY SMTT(30), <1>0 DEF CliStarts, CliState, DefaultInterval, Outcome
    <3>2. cli' = [cli EXCEPT !.pc = "end", !.out = "error"] => cli' \in CliState
      BY <1>0 DEF TypeOK, CliState, Outcome
    <3>3. failures' \in Nat
      BY SMTT(30), <1>0, <2>2 DEF DeviceAuthorization, TypeOK
    <3>4. QED
      BY <2>2, <3>1, <3>2, <3>3 DEF DeviceAuthorization
  <2>3. QED
    BY <2>1, <2>2
<1>3. /\ codes' \in [Codes -> CodeRow] /\ \A c \in Codes \ {d} : codes'[c] = codes[c]
      /\ codes[d].st \notin {"gone"}
      /\ \/ row.st = "gone"
         \/ row.st = "pending" /\ codes[d].st = "unborn"
  <2>1. CASE Reap(d)
    BY <1>0, <2>1 DEF Reap, Row, TypeOK, CodeRow, CodeStatus
  <2>2. CASE DeviceAuthorization(d)
    <3>1. NewCode \in CodeRow /\ NewCode.st = "pending"
      BY SMTT(30), <1>0, TTLAssumption DEF NewCode, CodeRow, CodeStatus, DefaultInterval
    <3>2. QED
      BY <1>0, <2>2, <3>1 DEF DeviceAuthorization, SaveDeviceCode, TypeOK
  <2>3. QED
    BY <2>1, <2>2
<1>4. TypeOK'
  BY <1>0, <1>1, <1>2, <1>3 DEF TypeOK, browserVars
<1>5. ASSUME NEW c \in Codes PROVE (RowSound(c) /\ Informed(decided[c]))'
  <2>1. RowSound(c) /\ Informed(decided[c])
    BY DEF IInv
  <2>2. CASE c = d
    BY <1>0, <1>1, <1>3, <2>1, <2>2 DEF RowSound, Informed
  <2>3. CASE c # d
    BY <1>1, <1>3, <2>1, <2>3 DEF RowSound, Informed
  <2>4. QED
    BY <2>2, <2>3
<1>6. ASSUME NEW h \in Handlers PROVE PollSound(h)'
  <2>1. PollSound(h) /\ poll[h].code \in Codes
    BY DEF IInv, TypeOK, PollRequest
  <2>2. QED
    BY <1>1, <1>3, <2>1 DEF PollSound
<1>7. /\ OneIssuer' /\ (\A b \in Browsers : PageSound(b))'
      /\ (\A q \in Requests : Informed(ui[q]))' /\ TokensFollowTheDecision'
  BY <1>1 DEF IInv, OneIssuer, PageSound, Informed, TokensFollowTheDecision, browserVars
<1>8. QED
  BY <1>4, <1>5, <1>6, <1>7 DEF IInv

\* The verification pages: a decision carries the person its page named.
LEMMA PagesPreserve ==
    ASSUME IInv, NEW b \in Browsers, Pages(b)
    PROVE  IInv'
<1>0. /\ TypeOK /\ AnyCode \in Codes /\ NoSid \notin Sids /\ Nobody \notin People
      /\ \A c \in Browsers : PageSound(c) /\ page[c].code \in Codes
      /\ \A q \in Requests : Informed(ui[q])
  BY CodesAssumption, NullAssumption DEF IInv, TypeOK, AnyCode
<1>1. UNCHANGED <<backend, now, poll, cli, failures, tokens, paced, rushed, codes, decided>>
  BY DEF Pages, EnterPost, SSOCallback, SSODenied, Confirm, Decide, uiRest
<1>2. SessionOf(b) # NoSid => SessionOf(b) \in Sids /\ sessions[SessionOf(b)].who \in People
  BY <1>0 DEF SessionOf, LiveSession, TypeOK
<1>3. ASSUME NEW q \in Requests, NEW d \in Codes, DenyNext(q, d)
      PROVE  ui' \in [Requests -> UIRequest] /\ \A p \in Requests : Informed(ui'[p])
  <2> DEFINE r == [IdleUI EXCEPT !.pc = "flip", !.code = d, !.verdict = "denied"]
  <2>1. r \in UIRequest /\ Informed(r)
    BY <1>0 DEF IdleUI, UIRequest, Informed
  <2>2. ui' = [ui EXCEPT ![q] = r]
    BY <1>3 DEF DenyNext
  <2>3. QED
    BY <1>0, <2>1, <2>2 DEF TypeOK
<1>4. ASSUME ui' \in [Requests -> UIRequest], \A p \in Requests : Informed(ui'[p]),
             UNCHANGED <<sessions, cookie, bounce, page>>
      PROVE  IInv'
  <2>1. TypeOK'
    BY <1>0, <1>1, <1>4 DEF TypeOK
  <2>2. (\A c \in Browsers : PageSound(c))'
    BY <1>0, <1>4 DEF PageSound
  <2>3. (\A p \in Requests : Informed(ui[p]))'
    BY <1>4 DEF Informed
  <2>4. QED
    BY <1>1, <2>1, <2>2, <2>3, TablesFrame DEF IInv
<1>5. ASSUME NEW d \in Codes, EnterPost(b, d) PROVE IInv'
  <2>1. bounce' \in [Browsers -> [code : Codes, expires : Nat]]
    BY SMTT(30), <1>0, <1>5, TTLAssumption DEF EnterPost, TypeOK
  <2>2. TypeOK'
    BY <1>0, <1>1, <1>5, <2>1 DEF TypeOK, EnterPost
  <2>3. (\A c \in Browsers : PageSound(c))' /\ (\A p \in Requests : Informed(ui[p]))'
    BY <1>0, <1>5 DEF EnterPost, PageSound, Informed
  <2>4. QED
    BY <1>1, <2>2, <2>3, TablesFrame DEF IInv
<1>6. ASSUME NEW p \in People, NEW s \in Sids, SSOCallback(b, p, s) PROVE IInv'
  <2>1. sessions[s].who = Nobody /\ NewSession(p) \in [who : People \cup {Nobody}, expires : Nat]
    BY SMTT(30), <1>0, <1>6, TTLAssumption DEF SSOCallback, IsFirst, FreshSids, NewSession, TypeOK
  <2>2. TypeOK'
    BY <1>0, <1>1, <1>6, <2>1 DEF TypeOK, SSOCallback
  <2>3. ASSUME NEW c \in Browsers PROVE PageSound(c)'
    BY <1>0, <1>6, <2>1 DEF SSOCallback, PageSound, TypeOK
  <2>4. (\A q \in Requests : Informed(ui[q]))'
    BY <1>0, <1>6 DEF SSOCallback, Informed
  <2>5. QED
    BY <1>1, <2>2, <2>3, <2>4, TablesFrame DEF IInv
<1>7. ASSUME NEW q \in Requests, SSODenied(b, q) PROVE IInv'
  <2>1. bounce[b].code \in Codes
    BY <1>0 DEF TypeOK
  <2>2. QED
    BY <1>3, <1>4, <1>7, <2>1 DEF SSODenied
<1>8. ASSUME NEW q \in Requests, NEW d \in Codes, Confirm(b, d, q) PROVE IInv'
  <2>1. CASE DenyNext(q, d) /\ UNCHANGED page
    BY <1>3, <1>4, <1>8, <2>1 DEF Confirm
  <2>2. CASE UNCHANGED ui /\ page' = [page EXCEPT ![b] =
               [code |-> d, sid |-> SessionOf(b), who |-> sessions[SessionOf(b)].who]]
    <3>1. SessionOf(b) \in Sids /\ sessions[SessionOf(b)].who \in People
      BY <1>2, <1>8 DEF Confirm
    <3>2. TypeOK'
      BY <1>0, <1>1, <1>8, <2>2, <3>1 DEF TypeOK, Confirm
    <3>3. ASSUME NEW c \in Browsers PROVE PageSound(c)'
      <4>1. CASE c = b
        BY <1>0, <1>8, <2>2, <3>1, <4>1 DEF Confirm, PageSound, TypeOK
      <4>2. CASE c # b
        BY <1>0, <1>8, <2>2, <4>2 DEF Confirm, PageSound, TypeOK
      <4>3. QED
        BY <4>1, <4>2
    <3>4. (\A p \in Requests : Informed(ui[p]))'
      BY <1>0, <2>2 DEF Informed
    <3>5. QED
      BY <1>1, <3>2, <3>3, <3>4, TablesFrame DEF IInv
  <2>3. QED
    BY <1>8, <2>1, <2>2 DEF Confirm
<1>9. ASSUME NEW q \in Requests, NEW v \in {"approved", "denied"}, Decide(b, v, q) PROVE IInv'
  <2>1. CASE DenyNext(q, page[b].code)
    BY <1>0, <1>3, <1>4, <1>9, <2>1 DEF Decide
  <2>2. CASE ~DenyNext(q, page[b].code)
    <3> DEFINE r == [IdleUI EXCEPT !.pc = "flip", !.code = page[b].code, !.verdict = v,
                                   !.who = sessions[SessionOf(b)].who, !.shown = page[b].who]
    <3>1. /\ sessions[SessionOf(b)].who \in People
          /\ page[b].who = sessions[SessionOf(b)].who
      BY <1>0, <1>2, <1>9 DEF Decide, CSRFChecked, PageSound
    <3>2. r \in UIRequest /\ Informed(r)
      BY <1>0, <3>1 DEF IdleUI, UIRequest, Informed
    <3>3. ui' = [ui EXCEPT ![q] = r]
      BY <1>9, <2>2 DEF Decide
    <3>4. ui' \in [Requests -> UIRequest] /\ \A p \in Requests : Informed(ui'[p])
      BY <1>0, <3>2, <3>3 DEF TypeOK
    <3>5. QED
      BY <1>4, <1>9, <3>4 DEF Decide
  <2>3. QED
    BY <2>1, <2>2
<1>10. QED
  BY <1>5, <1>6, <1>7, <1>8, <1>9 DEF Pages

\* Deciding: only a pending row takes a verdict, so the first one stays.
LEMMA UIPreserves ==
    ASSUME IInv, NEW q \in Requests, UIStep(q)
    PROVE  IInv'
<1> DEFINE r == ui[q]
           d == ui[q].code
           w == IF r.verdict = "approved" THEN r.who ELSE Nobody
<1>0. /\ TypeOK /\ r \in UIRequest /\ d \in Codes /\ Informed(r) /\ AnyCode \in Codes
      /\ codes[d] \in CodeRow /\ RowSound(d) /\ w \in People \cup {Nobody} /\ now \in Nat
  BY CodesAssumption DEF IInv, TypeOK, UIRequest, AnyCode
<1>1. UNCHANGED <<backend, now, poll, cli, failures, tokens, paced, rushed, sessions, cookie,
                  bounce, page>>
  BY DEF UIStep, FlipRefused, PgFlip, SqliteFlip, SqliteUpdate, uiRest
<1>2. ui' \in [Requests -> UIRequest] /\ \A p \in Requests : Informed(ui'[p])
  <2>1. IdleUI \in UIRequest /\ Informed(IdleUI)
    BY <1>0 DEF IdleUI, UIRequest, Informed
  <2>2. CASE ui' = [ui EXCEPT ![q] = IdleUI]
    BY <2>1, <2>2 DEF IInv, TypeOK
  <2>3. CASE ui' = [ui EXCEPT ![q].pc = "update"]
    <3>1. [r EXCEPT !.pc = "update"] \in UIRequest /\ Informed([r EXCEPT !.pc = "update"])
      BY <1>0 DEF UIRequest, Informed
    <3>2. QED
      BY <2>3, <3>1 DEF IInv, TypeOK
  <2>4. QED
    BY <2>2, <2>3 DEF UIStep, FlipRefused, PgFlip, SqliteFlip, SqliteUpdate, Flipped
<1>3. (\A b \in Browsers : PageSound(b))' /\ (\A p \in Requests : Informed(ui[p]))'
  BY <1>1, <1>2 DEF IInv, PageSound, Informed
<1>4. CASE UNCHANGED <<codes, decided>>
  <2>1. TypeOK'
    BY <1>0, <1>1, <1>2, <1>4 DEF TypeOK
  <2>2. QED
    BY <1>1, <1>3, <1>4, <2>1, TablesFrame DEF IInv
<1>5. CASE Flipped(q) /\ Flippable(d)
  <2> DEFINE row == [codes[d] EXCEPT !.st = r.verdict, !.who = w]
             dec == [verdict |-> r.verdict, who |-> w, shown |-> r.shown, at |-> now]
  <2>1. codes[d].st = "pending" /\ decided[d].verdict = "none" /\ tokens[d] = <<>>
    BY <1>0, <1>5 DEF Flippable, RowSound
  <2>2. codes' = [codes EXCEPT ![d] = row] /\ decided' = [decided EXCEPT ![d] = dec]
    BY <1>0, <1>5, <2>1 DEF Flipped, TypeOK
  <2>3. row \in CodeRow /\ row.st = r.verdict /\ row.who = w /\ dec \in Decision /\ Informed(dec)
        /\ r.verdict \in {"approved", "denied"}
    BY <1>0 DEF CodeRow, CodeStatus, UIRequest, Decision, Informed
  <2>4. TypeOK'
    BY <1>0, <1>1, <1>2, <2>2, <2>3 DEF TypeOK
  <2>5. \A c \in Codes : /\ codes'[c] = IF c = d THEN row ELSE codes[c]
                         /\ decided'[c] = IF c = d THEN dec ELSE decided[c]
    BY <1>0, <2>2 DEF TypeOK
  <2>6. ASSUME NEW c \in Codes PROVE (RowSound(c) /\ Informed(decided[c]))'
    <3>1. CASE c = d
      <4>1. dec.verdict = r.verdict /\ dec.who = w
        OBVIOUS
      <4>2. codes'[c] = row /\ decided'[c] = dec /\ tokens'[c] = <<>>
        BY <1>0, <1>1, <2>1, <2>5, <3>1
      <4> HIDE DEF row, dec, w, r
      <4>3. RowSound(c)'
        BY <2>3, <4>1, <4>2 DEF RowSound
      <4>4. Informed(decided[c])'
        BY <2>3, <4>2 DEF Informed
      <4>5. QED
        BY <4>3, <4>4
    <3>2. CASE c # d
      BY ZenonT(60), <1>1, <2>5, <3>2 DEF IInv, RowSound, Informed
    <3>3. QED
      BY <3>1, <3>2
  <2>7. ASSUME NEW h \in Handlers PROVE PollSound(h)'
    <3>1. PollSound(h) /\ poll[h].code \in Codes /\ poll'[h] = poll[h]
      BY <1>1 DEF IInv, TypeOK, PollRequest
    <3>2. CASE poll[h].code = d
      BY <1>1, <2>1, <3>1, <3>2 DEF PollSound
    <3>3. CASE poll[h].code # d
      BY <1>1, <2>5, <3>1, <3>3 DEF PollSound
    <3>4. QED
      BY <3>2, <3>3
  <2>8. OneIssuer'
    BY <1>1 DEF IInv, OneIssuer
  <2>9. TokensFollowTheDecision'
    <3>1. ASSUME NEW c \in Codes
          PROVE  Len(tokens'[c]) <= 1 /\ \A i \in 1..Len(tokens'[c]) :
                   decided'[c].verdict = "approved" /\ tokens'[c][i] = decided'[c].who
      <4>1. CASE c = d
        <5>1. tokens'[c] = << >>
          BY <1>1, <2>1, <4>1
        <5>2. QED
          BY SMTT(30), <5>1
      <4>2. CASE c # d
        BY SMTT(30), <1>1, <2>5, <4>2 DEF IInv, TokensFollowTheDecision
      <4>3. QED
        BY <4>1, <4>2
    <3>2. QED
      BY <3>1 DEF TokensFollowTheDecision
  <2>10. QED
    BY <1>3, <2>4, <2>6, <2>7, <2>8, <2>9 DEF IInv
<1>6. QED
  BY <1>4, <1>5 DEF UIStep, FlipRefused, PgFlip, SqliteFlip, SqliteUpdate, Flipped

\* Every step keeps the invariant.
LEMMA StepPreserves == IInv /\ [Next]_vars => IInv'
<1> SUFFICES ASSUME IInv, [Next]_vars PROVE IInv'
  OBVIOUS
<1>1. CASE CliLosesAnswer \/ Tick \/ UNCHANGED vars
  <2>1. UNCHANGED <<codes, poll, decided, tokens, backend, browserVars, paced, rushed>>
    BY <1>1 DEF CliLosesAnswer, Tick, vars, browserVars
  <2>2. now' \in Nat \ {0} /\ failures' \in Nat
    BY SMTT(30), <1>1 DEF CliLosesAnswer, Tick, vars, IInv, TypeOK
  <2>3. cli' \in CliState
    <3>1. "error" \in Outcome
      BY DEF Outcome
    <3>2. QED
      BY <1>1, <3>1, CliTyped DEF CliLosesAnswer, Tick, vars, IInv, TypeOK
  <2>4. TypeOK'
    BY <2>1, <2>2, <2>3 DEF IInv, TypeOK, browserVars
  <2>5. (\A b \in Browsers : PageSound(b))' /\ (\A q \in Requests : Informed(ui[q]))'
    BY <2>1 DEF IInv, PageSound, Informed, browserVars
  <2>6. QED
    BY <2>1, <2>4, <2>5, TablesFrame DEF IInv
<1>2. CASE \E d \in Codes : DeviceAuthorization(d) \/ Reap(d)
  BY <1>2, RowsPreserve
<1>3. CASE \E h \in Handlers : CliTurn(h) \/ PollStep(h) \/ PollFails(h)
  BY <1>3, PollPreserves, ConsumePreserves, IssuePreserves DEF PollStep
<1>4. CASE \E b \in Browsers : Pages(b)
  BY <1>4, PagesPreserve
<1>5. CASE \E q \in Requests : UIStep(q)
  BY <1>5, UIPreserves
<1>6. QED
  BY <1>1, <1>2, <1>3, <1>4, <1>5 DEF Next

\* Rows, polls in flight, pages and decisions stay sound, over either store
\* and for any number of each.
THEOREM FlowSound == Spec => []IInv
  BY InitEstablishes, StepPreserves, PTL DEF Spec

\* A device code is worth one set of tokens, those of the person whose
\* approval was the first decision on it (deviceCodeGrant).
THEOREM OnePayoutToTheApprover == Spec => []TokensFollowTheDecision
<1>1. IInv => TokensFollowTheDecision
  BY DEF IInv
<1>2. QED
  BY <1>1, FlowSound, PTL

\* A code is approved only by the account its confirm page named
\* (handleDecision).
THEOREM ApproversAreShown == Spec => []ApprovedAsShown
<1>1. IInv => ApprovedAsShown
  BY DEF IInv, Informed, ApprovedAsShown
<1>2. QED
  BY <1>1, FlowSound, PTL

-----------------------------------------------------------------------------
(* The pace of the polls.                                                  *)

LEMMA PollTyped ==
    ASSUME NEW r \in PollRequest
    PROVE  r.since \in Nat /\ r.at \in Nat /\ r.last \in Nat /\ r.code \in Codes
           /\ r.expires \in Nat
  BY DEF PollRequest

LEMMA CodeTyped ==
    ASSUME NEW c \in CodeRow
    PROVE  c.last \in Nat /\ c.interval \in Nat /\ c.expires \in Nat
  BY DEF CodeRow

LEMMA CliNumbers ==
    ASSUME NEW c \in CliState
    PROVE  c.wake \in Nat /\ c.interval \in Nat /\ c.backoff \in Nat /\ c.start \in Nat
           /\ c.code \in Codes
  BY DEF CliState

\* The table keeps every stamp and interval, and no row comes into being.
StampsKept ==
    \A d \in Codes :
      /\ codes'[d].last = codes[d].last /\ codes'[d].interval = codes[d].interval
      /\ codes'[d].st \in {"pending", "approved", "denied"} => Row(d)
      /\ codes'[d].st = "unborn" => codes[d].st = "unborn"

LEMMA StampsFrame ==
    ASSUME StampsAhead, StampsKept, paced' = paced, now' = now
    PROVE  StampsAhead'
  BY DEF StampsAhead, StampsKept, Row

LEMMA ClaimsFrame ==
    ASSUME TypeOK, ClaimsSound, StampsKept, paced' = paced,
           NEW h \in Handlers, poll'[h] = poll[h], poll[h].pc = "claim"
    PROVE  /\ poll'[h].last < poll'[h].at
           /\ Row(poll[h].code)' /\ codes'[poll'[h].code].last = poll'[h].last =>
                paced'[poll'[h].code] < poll'[h].at
<1>1. poll[h].code \in Codes
  BY PollTyped DEF TypeOK
<1> QED
  BY <1>1 DEF ClaimsSound, StampsKept, Row

\* A step that starts, moves and ends no poll keeps the pace.
LEMMA PaceFrame ==
    ASSUME TypeOK, PaceInv, StampsKept, UNCHANGED <<now, poll, cli, paced, rushed>>
    PROVE  PaceInv'
<1>1. PollsTimely' /\ CliPaces' /\ NotOvertaken' /\ LaterIsAhead' /\ PollsPaced'
  BY DEF PaceInv, PollsTimely, CliPaces, NotOvertaken, LaterIsAhead, PollsPaced, Unstamped
<1>2. StampsAhead'
  BY StampsFrame DEF PaceInv
<1>3. ClaimsSound'
  BY ClaimsFrame DEF PaceInv, ClaimsSound
<1> QED
  BY <1>1, <1>2, <1>3 DEF PaceInv

LEMMA PaceAuthorization ==
    ASSUME TypeOK, TypeOK', PaceInv, NEW d \in Codes, DeviceAuthorization(d)
    PROVE  PaceInv'
<1>1. /\ \A h \in Handlers : poll[h].pc = "idle"
      /\ UNCHANGED <<now, poll, paced, rushed>>
      /\ codes[d].st = "unborn" /\ codes' = [codes EXCEPT ![d] = NewCode]
  BY DEF DeviceAuthorization, SaveDeviceCode, PaceInv, CliPaces
<1>2. cli'.on = {}
      /\ (cli'.pc = "end" \/ (cli'.pc = "sleep" /\ cli'.interval = 1 /\ cli'.backoff = 1))
  <2>1. cli \in CliState /\ cli.on = {}
    BY DEF TypeOK, DeviceAuthorization, PaceInv, CliPaces
  <2>2. CASE cli' = CliStarts(d)
    BY <2>2 DEF CliStarts, DefaultInterval
  <2>3. CASE cli' = [cli EXCEPT !.pc = "end", !.out = "error"]
    BY <2>1, <2>3 DEF CliState
  <2> QED
    BY <2>2, <2>3 DEF DeviceAuthorization
<1>3. \A h \in Handlers : poll'[h].pc = "idle"
  BY <1>1
<1>30. PollsTimely' /\ ClaimsSound' /\ NotOvertaken' /\ LaterIsAhead'
  BY <1>3 DEF PollsTimely, ClaimsSound, NotOvertaken, LaterIsAhead, Unstamped
<1>31. CliPaces' /\ PollsPaced'
  BY SMTT(30), <1>1, <1>2, <1>3 DEF PaceInv, CliPaces, PollsPaced
<1>4. StampsAhead'
  <2> SUFFICES ASSUME NEW c \in Codes
               PROVE  /\ paced'[c] <= now'
                      /\ codes'[c].st = "unborn" => paced'[c] = 0
                      /\ codes'[c].st \in {"pending", "approved", "denied"} =>
                           /\ codes'[c].interval > 0
                           /\ paced'[c] # 0 => /\ codes'[c].last # 0
                                               /\ paced'[c] < codes'[c].last + codes'[c].interval
    BY DEF StampsAhead, Row
  <2>1. CASE c = d
    BY SMTT(30), <1>1, <2>1 DEF PaceInv, StampsAhead, NewCode, DefaultInterval, TypeOK
  <2>2. CASE c # d
    <3>1. codes'[c] = codes[c] /\ paced'[c] = paced[c] /\ now' = now
      BY <1>1, <2>2 DEF TypeOK
    <3> QED
      BY <3>1 DEF PaceInv, StampsAhead, Row
  <2> QED
    BY <2>1, <2>2
<1> QED
  BY <1>30, <1>31, <1>4 DEF PaceInv

\* A poll begins: whatever is in flight began before it.
LEMMA PaceTurn ==
    ASSUME TypeOK, TypeOK', PaceInv, NEW h \in Handlers, CliTurn(h)
    PROVE  PaceInv'
<1>0. /\ UNCHANGED <<now, codes, paced, rushed>> /\ cli.pc = "sleep" /\ cli.wake <= now
      /\ now \in Nat /\ 0 < now /\ cli.wake \in Nat /\ StampsKept
      /\ cli'.pc \in {"await", "end"} /\ cli'.interval = cli.interval /\ cli'.backoff = cli.backoff
      /\ cli'.pc = "end" => cli'.on = {}
  <2>1. cli \in CliState /\ now \in Nat /\ now # 0
    BY DEF TypeOK
  <2>2. UNCHANGED <<now, codes, paced, rushed>> /\ cli.pc = "sleep" /\ cli.wake <= now
    BY DEF CliTurn
  <2>3. StampsKept
    BY <2>2 DEF StampsKept, Row
  <2>4. cli' = [cli EXCEPT !.pc = "end", !.out = "expired", !.on = {}]
        \/ cli' = [cli EXCEPT !.pc = "await", !.on = {h}]
    BY DEF CliTurn, CliEnds
  <2>5. cli'.pc \in {"await", "end"} /\ cli'.interval = cli.interval /\ cli'.backoff = cli.backoff
        /\ (cli'.pc = "end" => cli'.on = {})
    BY <2>1, <2>4 DEF CliState
  <2> QED
    BY SMTT(30), <2>1, <2>2, <2>3, <2>5, CliNumbers
<1>1. CASE poll' = poll
  <2>1. PollsTimely' /\ CliPaces' /\ LaterIsAhead' /\ PollsPaced' /\ NotOvertaken'
    BY <1>0, <1>1 DEF PaceInv, PollsTimely, CliPaces, LaterIsAhead, PollsPaced, NotOvertaken,
       Unstamped
  <2>2. StampsAhead'
    BY <1>0, StampsFrame DEF PaceInv
  <2>3. ClaimsSound'
    BY <1>0, <1>1, ClaimsFrame DEF PaceInv, ClaimsSound
  <2> QED
    BY <2>1, <2>2, <2>3 DEF PaceInv
<1>2. CASE IsFirst(h, FreeHandlers)
           /\ poll' = [poll EXCEPT ![h] = [IdlePoll EXCEPT !.pc = "lookup", !.code = cli.code,
                                                           !.since = now]]
  <2>1. /\ \A g \in Handlers : g # h => poll'[g] = poll[g]
        /\ poll'[h].pc = "lookup" /\ poll'[h].since = now /\ poll'[h].code = cli.code
    BY <1>2 DEF TypeOK, IdlePoll
  <2>2. ASSUME NEW g \in Handlers, poll[g].pc # "idle" PROVE poll[g].since < now
    <3>1. poll[g].since < cli.wake /\ poll[g].since \in Nat
      BY <1>0, <2>2, PollTyped DEF PaceInv, CliPaces, TypeOK
    <3> QED
      BY SMTT(30), <1>0, <3>1
  <2>3. PollsTimely'
    <3>1. ASSUME NEW g \in Handlers, poll'[g].pc # "idle"
          PROVE  0 < poll'[g].since /\ poll'[g].since <= now /\ now <= poll'[g].since + 1
      BY SMTT(30), <1>0, <2>1, <3>1 DEF PaceInv, PollsTimely
    <3>2. ASSUME NEW g \in Handlers, poll'[g].pc \in {"poll", "claim", "slow"}
          PROVE  poll'[g].since <= poll'[g].at /\ poll'[g].at <= now
      BY <2>1, <3>2 DEF PaceInv, PollsTimely
    <3>3. ASSUME NEW f \in Handlers, NEW g \in Handlers, poll'[f].pc # "idle",
                 poll'[g].pc # "idle", f # g
          PROVE  poll'[f].since # poll'[g].since
      <4>1. poll[f].since \in Nat /\ poll[g].since \in Nat
        BY PollTyped DEF TypeOK
      <4>2. CASE f # h /\ g # h
        BY <2>1, <3>3, <4>2 DEF PaceInv, PollsTimely
      <4>3. CASE f = h \/ g = h
        BY SMTT(30), <1>0, <2>1, <2>2, <3>3, <4>1, <4>3
      <4> QED
        BY <4>2, <4>3
    <3> QED
      BY <1>0, <3>1, <3>2, <3>3 DEF PollsTimely
  <2>4. CliPaces' /\ PollsPaced'
    BY <1>0 DEF PaceInv, CliPaces, PollsPaced
  <2>5. StampsAhead'
    BY <1>0, StampsFrame DEF PaceInv
  <2>6. ClaimsSound'
    BY <1>0, <2>1, ClaimsFrame DEF PaceInv, ClaimsSound
  <2>7. NotOvertaken'
    BY <1>0 DEF NotOvertaken
  <2>8. LaterIsAhead'
    <3> SUFFICES ASSUME NEW f \in Handlers, NEW g \in Handlers, Unstamped(poll'[f]),
                        Unstamped(poll'[g]), poll'[f].code = poll'[g].code,
                        poll'[f].since < poll'[g].since
                 PROVE  paced[poll'[g].code] < poll'[g].since
      BY <1>0 DEF LaterIsAhead, Unstamped
    <3>0. /\ poll[f].since \in Nat /\ poll[g].since \in Nat /\ poll[f].code \in Codes
          /\ \A c \in Codes : paced[c] \in Nat
      BY PollTyped DEF TypeOK
    <3>1. f # h
      BY SMTT(30), <1>0, <2>1, <2>2, <3>0 DEF Unstamped
    <3>2. CASE g # h
      BY <2>1, <3>1, <3>2 DEF PaceInv, LaterIsAhead
    <3>3. CASE g = h
      <4>1. Unstamped(poll[f]) /\ poll[f].since < now /\ now <= poll[f].since + 1
        BY <2>1, <2>2, <3>1 DEF Unstamped, PaceInv, PollsTimely
      <4>2. paced[poll[f].code] <= poll[f].since
        <5>1. ~(poll[f].since + 1 < cli.wake)
          BY SMTT(30), <1>0, <3>0, <4>1
        <5> QED
          BY <1>0, <4>1, <5>1 DEF PaceInv, NotOvertaken
      <4> QED
        BY SMTT(30), <1>0, <2>1, <3>0, <3>1, <3>3, <4>1, <4>2
    <3> QED
      BY <3>2, <3>3
  <2> QED
    BY <2>3, <2>4, <2>5, <2>6, <2>7, <2>8 DEF PaceInv
<1> QED
  BY <1>1, <1>2 DEF CliTurn

\* Polls may end; what is said of the others stays.
LEMMA FewerPolls ==
    ASSUME TypeOK, PaceInv, UNCHANGED <<now, codes, paced, rushed>>,
           \A h \in Handlers : poll'[h] = poll[h] \/ poll'[h].pc = "idle"
    PROVE  PollsTimely' /\ StampsAhead' /\ ClaimsSound' /\ LaterIsAhead' /\ PollsPaced'
<1>1. StampsKept
  BY DEF StampsKept, Row
<1>2. StampsAhead'
  BY <1>1, StampsFrame DEF PaceInv
<1>3. ClaimsSound'
  BY <1>1, ClaimsFrame DEF PaceInv, ClaimsSound
<1>4. PollsTimely' /\ LaterIsAhead' /\ PollsPaced'
  BY DEF PaceInv, PollsTimely, LaterIsAhead, PollsPaced, Unstamped
<1> QED
  BY <1>2, <1>3, <1>4

\* The command line goes to sleep: it will wake after every poll in flight began.
LEMMA SleepPaces ==
    ASSUME TypeOK, PaceInv, UNCHANGED <<now, codes, paced, rushed>>,
           \A h \in Handlers : poll'[h] = poll[h] \/ poll'[h].pc = "idle",
           NEW i \in Nat, NEW s \in Nat, NEW b \in Nat, i > 0, s > 0, b > 0, CliSleeps(i, s, b)
    PROVE  PaceInv'
<1>1. /\ cli'.pc = "sleep" /\ cli'.interval = i /\ cli'.backoff = b /\ cli'.wake = now + s
      /\ cli'.on = {} /\ now \in Nat
  <2>1. cli \in CliState /\ now \in Nat
    BY DEF TypeOK
  <2> QED
    BY <2>1 DEF CliSleeps, CliState
<1>2. ASSUME NEW h \in Handlers, poll'[h].pc # "idle"
      PROVE  /\ poll'[h] = poll[h] /\ poll[h].since \in Nat /\ poll[h].since <= now
             /\ now <= poll[h].since + 1 /\ poll[h].code \in Codes /\ paced[poll[h].code] \in Nat
             /\ paced[poll[h].code] <= now
  BY <1>2, PollTyped DEF TypeOK, PaceInv, PollsTimely, StampsAhead
<1>3. CliPaces'
  <2>1. ASSUME NEW h \in Handlers, poll'[h].pc # "idle" PROVE poll'[h].since < cli'.wake
    BY SMTT(30), <1>1, <1>2, <2>1
  <2> QED
    BY <1>1, <2>1 DEF CliPaces
<1>4. NotOvertaken'
  <2> SUFFICES ASSUME NEW g \in Handlers, Unstamped(poll'[g]),
                      ~(paced[poll'[g].code] <= poll'[g].since)
               PROVE  poll'[g].since + 1 < cli'.wake
    BY DEF NotOvertaken, Unstamped
  <2> QED
    BY SMTT(30), <1>1, <1>2 DEF Unstamped
<1> QED
  BY <1>3, <1>4, FewerPolls DEF PaceInv

LEMMA EndPaces ==
    ASSUME TypeOK, PaceInv, UNCHANGED <<now, codes, paced, rushed>>,
           \A h \in Handlers : poll'[h] = poll[h] \/ poll'[h].pc = "idle",
           NEW out, CliEnds(out)
    PROVE  PaceInv'
<1>1. cli'.pc = "end" /\ cli'.on = {}
  <2>1. cli \in CliState
    BY DEF TypeOK
  <2> QED
    BY <2>1 DEF CliEnds, CliState
<1>2. CliPaces' /\ NotOvertaken'
  BY <1>1 DEF CliPaces, NotOvertaken
<1> QED
  BY <1>2, FewerPolls DEF PaceInv

LEMMA TransientPaces ==
    ASSUME TypeOK, PaceInv, UNCHANGED <<now, codes, paced, rushed>>,
           \A h \in Handlers : poll'[h] = poll[h] \/ poll'[h].pc = "idle",
           cli.pc = "await", CliTransient
    PROVE  PaceInv'
<1>1. cli.interval \in Nat /\ cli.backoff \in Nat /\ cli.interval > 0 /\ cli.backoff > 0
  BY CliNumbers DEF TypeOK, PaceInv, CliPaces
<1> DEFINE b == Least(2 * cli.backoff, BackoffCap * cli.interval)
<1>2. b \in Nat /\ b > 0
  BY SMTT(30), <1>1 DEF Least, BackoffCap
<1>3. CliSleeps(cli.interval, cli.backoff, b)
  BY DEF CliTransient
<1> HIDE DEF b
<1> QED
  BY <1>1, <1>2, <1>3, SleepPaces

\* The command line loses an answer, or hears it.
LEMMA PaceAnswer ==
    ASSUME TypeOK, PaceInv, CliLosesAnswer \/ \E h \in Handlers : Answer(h)
    PROVE  PaceInv'
<1>1. CASE CliLosesAnswer
  BY <1>1, TransientPaces DEF CliLosesAnswer
<1>2. ASSUME NEW h \in Handlers, Answer(h) PROVE PaceInv'
  <2>1. /\ \A g \in Handlers : poll'[g] = poll[g] \/ poll'[g].pc = "idle"
        /\ UNCHANGED <<now, codes, paced, rushed>>
    BY <1>2 DEF Answer, TypeOK, IdlePoll
  <2>2. CASE cli.on = {h} /\ CliHears(poll[h].out)
    <3>1. cli.pc = "await"
      BY <2>2 DEF PaceInv, CliPaces
    <3>2. cli.interval \in Nat /\ cli.interval > 0
      BY <3>1, CliNumbers DEF TypeOK, PaceInv, CliPaces
    <3>3. cli.interval + Bump \in Nat /\ cli.interval + Bump > 0
      BY SMTT(30), <3>2 DEF Bump
    <3>4. \/ CliSleeps(cli.interval, cli.interval, cli.interval)
          \/ CliSleeps(cli.interval + Bump, cli.interval + Bump, cli.interval + Bump)
          \/ CliTransient
          \/ CliEnds(poll[h].out)
      BY <2>2 DEF CliHears
    <3> QED
      BY <2>1, <3>1, <3>2, <3>3, <3>4, SleepPaces, TransientPaces, EndPaces
  <2>3. CASE UNCHANGED cli
    <3>1. CliPaces' /\ NotOvertaken'
      BY <2>1, <2>3 DEF PaceInv, CliPaces, NotOvertaken, Unstamped
    <3> QED
      BY <2>1, <3>1, FewerPolls DEF PaceInv
  <2> QED
    BY <1>2, <2>2, <2>3 DEF Answer
<1> QED
  BY <1>1, <1>2

LEMMA PaceTick ==
    ASSUME TypeOK, PaceInv, Tick
    PROVE  PaceInv'
<1>0. /\ now \in Nat /\ now' = now + 1 /\ UNCHANGED <<codes, poll, cli, paced, rushed>>
      /\ \A h \in Handlers : poll[h].pc # "idle" => now <= poll[h].since
  BY DEF Tick, Prompt, TypeOK
<1>1. PollsTimely'
  <2>1. ASSUME NEW h \in Handlers, poll[h].pc # "idle"
        PROVE  0 < poll[h].since /\ poll[h].since <= now' /\ now' <= poll[h].since + 1
    <3>1. poll[h].since \in Nat
      BY PollTyped DEF TypeOK
    <3> QED
      BY SMTT(30), <1>0, <2>1, <3>1 DEF PaceInv, PollsTimely
  <2>2. ASSUME NEW h \in Handlers, poll[h].pc \in {"poll", "claim", "slow"}
        PROVE  poll[h].since <= poll[h].at /\ poll[h].at <= now'
    <3>1. poll[h].at \in Nat
      BY PollTyped DEF TypeOK
    <3> QED
      BY SMTT(30), <1>0, <2>2, <3>1 DEF PaceInv, PollsTimely
  <2> QED
    BY <1>0, <2>1, <2>2 DEF PaceInv, PollsTimely
<1>2. StampsAhead'
  <2>1. \A d \in Codes : paced[d] <= now => paced[d] <= now'
    BY SMTT(30), <1>0 DEF TypeOK
  <2> QED
    BY <1>0, <2>1 DEF PaceInv, StampsAhead, Row
<1>3. CliPaces' /\ ClaimsSound' /\ NotOvertaken' /\ LaterIsAhead' /\ PollsPaced'
  BY <1>0 DEF PaceInv, CliPaces, ClaimsSound, NotOvertaken, LaterIsAhead, PollsPaced, Unstamped,
     Row
<1> QED
  BY <1>1, <1>2, <1>3 DEF PaceInv

\* What becomes of poll h when it makes a step that does not end it.
Moved(h, r) ==
    /\ r \in PollRequest /\ poll[h].pc # "idle" /\ r.pc # "idle"
    /\ poll' = [poll EXCEPT ![h] = r] /\ r.since = poll[h].since /\ r.code = poll[h].code
    /\ r.pc \in {"poll", "claim", "slow"} => r.since <= r.at /\ r.at <= now

LEMMA MovedOnTime ==
    ASSUME TypeOK, PaceInv, NEW h \in Handlers, NEW r, Moved(h, r), UNCHANGED <<now, cli>>
    PROVE  /\ PollsTimely' /\ CliPaces'
           /\ \A g \in Handlers : poll'[g] = IF g = h THEN r ELSE poll[g]
<1>1. \A g \in Handlers : poll'[g] = IF g = h THEN r ELSE poll[g]
  BY DEF TypeOK, Moved
<1>2. PollsTimely'
  BY SMTT(30), <1>1 DEF PaceInv, PollsTimely, Moved
<1>3. CliPaces'
  BY <1>1 DEF PaceInv, CliPaces, Moved
<1> QED
  BY <1>1, <1>2, <1>3

\* A step that stamps nothing.
LEMMA QuietMove ==
    ASSUME TypeOK, PaceInv, NEW h \in Handlers, NEW r, Moved(h, r), StampsKept,
           UNCHANGED <<now, cli, paced, rushed>>, Unstamped(r) => Unstamped(poll[h]),
           r.pc = "claim" =>
             r.last < r.at /\ (Row(r.code)' /\ codes'[r.code].last = r.last => paced[r.code] < r.at)
    PROVE  PaceInv'
<1>1. /\ PollsTimely' /\ CliPaces'
      /\ \A g \in Handlers : poll'[g] = IF g = h THEN r ELSE poll[g]
  BY MovedOnTime
<1>2. r.since = poll[h].since /\ r.code = poll[h].code
  BY DEF Moved
<1>3. StampsAhead' /\ PollsPaced'
  BY StampsFrame DEF PaceInv, PollsPaced
<1>4. ClaimsSound'
  <2> SUFFICES ASSUME NEW g \in Handlers, poll'[g].pc = "claim"
               PROVE  /\ poll'[g].last < poll'[g].at
                      /\ Row(poll[g].code)' /\ codes'[poll'[g].code].last = poll'[g].last =>
                           paced'[poll'[g].code] < poll'[g].at
    BY DEF ClaimsSound
  <2>1. CASE g = h
    BY <1>1, <1>2, <2>1 DEF Row
  <2>2. CASE g # h
    BY <1>1, <2>2, ClaimsFrame DEF PaceInv
  <2> QED
    BY <2>1, <2>2
<1>5. NotOvertaken'
  <2> SUFFICES ASSUME NEW g \in Handlers, Unstamped(poll'[g])
               PROVE  \/ paced[poll'[g].code] <= poll'[g].since
                      \/ cli.pc = "sleep" => poll'[g].since + 1 < cli.wake
    BY DEF NotOvertaken, Unstamped
  <2>1. Unstamped(poll[g]) /\ poll'[g].since = poll[g].since /\ poll'[g].code = poll[g].code
    BY <1>1, <1>2
  <2> QED
    BY <2>1 DEF PaceInv, NotOvertaken
<1>6. LaterIsAhead'
  <2> SUFFICES ASSUME NEW f \in Handlers, NEW g \in Handlers, Unstamped(poll'[f]),
                      Unstamped(poll'[g]), poll'[f].code = poll'[g].code,
                      poll'[f].since < poll'[g].since
               PROVE  paced[poll'[g].code] < poll'[g].since
    BY DEF LaterIsAhead, Unstamped
  <2>1. /\ Unstamped(poll[g]) /\ poll'[g].since = poll[g].since /\ poll'[g].code = poll[g].code
        /\ Unstamped(poll[f]) /\ poll'[f].since = poll[f].since /\ poll'[f].code = poll[f].code
    BY <1>1, <1>2
  <2> QED
    BY <2>1 DEF PaceInv, LaterIsAhead
<1> QED
  BY <1>1, <1>3, <1>4, <1>5, <1>6 DEF PaceInv

LEMMA OnwardTyped ==
    ASSUME NEW r \in PollRequest
    PROVE  /\ Onward(r) \in PollRequest /\ Onward(r).pc \in {"consume", "answer"}
           /\ Onward(r).since = r.since /\ Onward(r).code = r.code
<1> DEFINE w(x, o) == [r EXCEPT !.pc = x, !.out = o]
<1>1. ASSUME NEW x \in {"consume", "answer"}, NEW o \in {"expired", "denied", "token", "pending"}
      PROVE  w(x, o) \in PollRequest /\ w(x, o).pc = x /\ w(x, o).since = r.since /\ w(x, o).code = r.code
  BY DEF PollRequest, Outcome
<1>2. \/ Onward(r) = w("consume", "expired") \/ Onward(r) = w("consume", "denied")
      \/ Onward(r) = w("consume", "token") \/ Onward(r) = w("answer", "pending")
  BY SMTT(30) DEF Onward
<1> HIDE DEF w
<1> QED
  BY <1>1, <1>2

\* A poll is accepted, past the last one accepted before it.
LEMMA PaceAccepted ==
    ASSUME TypeOK, TypeOK', PaceInv, NEW h \in Handlers, poll[h].pc \in {"poll", "claim"},
           Row(poll[h].code), paced[poll[h].code] < poll[h].at, Accepted(h, poll[h].code),
           UNCHANGED <<now, cli>>
    PROVE  PaceInv'
<1> DEFINE d == poll[h].code
           r == Onward(poll[h])
<1>0. /\ poll[h] \in PollRequest /\ d \in Codes /\ poll[h].at \in Nat /\ poll[h].since \in Nat
      /\ now \in Nat /\ 0 < poll[h].since /\ poll[h].since <= poll[h].at /\ poll[h].at <= now
      /\ now <= poll[h].since + 1
  BY PollTyped DEF TypeOK, PaceInv, PollsTimely
<1>1. r \in PollRequest /\ r.pc \in {"consume", "answer"} /\ r.since = poll[h].since /\ r.code = d
  BY <1>0, OnwardTyped
<1>2. poll' = [poll EXCEPT ![h] = r]
  BY DEF Accepted
<1> HIDE DEF r
<1>3. Moved(h, r)
  BY <1>1, <1>2 DEF Moved
<1>4. /\ PollsTimely' /\ CliPaces'
      /\ \A g \in Handlers : poll'[g] = IF g = h THEN r ELSE poll[g]
  BY <1>3, MovedOnTime
<1>5. \A c \in Codes :
        /\ paced'[c] = IF c = d THEN poll[h].at ELSE paced[c]
        /\ codes'[c].st = codes[c].st /\ codes'[c].interval = codes[c].interval
        /\ codes'[c].last = IF c = d THEN poll[h].at ELSE codes[c].last
  <2>1. codes \in [Codes -> CodeRow] /\ paced \in [Codes -> Nat]
    BY DEF TypeOK
  <2> QED
    BY <1>0, <2>1 DEF Accepted, CodeRow
<1>6. PollsPaced'
  <2>1. ~(poll[h].at < paced[d] + DefaultInterval)
    BY SMTT(30), <1>0 DEF TypeOK, DefaultInterval
  <2> QED
    BY <2>1 DEF PaceInv, PollsPaced, Accepted
<1>7. StampsAhead'
  <2> SUFFICES ASSUME NEW c \in Codes
               PROVE  /\ paced'[c] <= now
                      /\ codes'[c].st = "unborn" => paced'[c] = 0
                      /\ codes'[c].st \in {"pending", "approved", "denied"} =>
                           /\ codes'[c].interval > 0
                           /\ paced'[c] # 0 => /\ codes'[c].last # 0
                                               /\ paced'[c] < codes'[c].last + codes'[c].interval
    BY DEF StampsAhead, Row
  <2>1. CASE c # d
    BY <1>5, <2>1 DEF PaceInv, StampsAhead, Row
  <2>2. CASE c = d
    <3>1. codes[d].interval \in Nat /\ codes[d].interval > 0 /\ codes[d].st # "unborn"
      BY <1>0, CodeTyped DEF TypeOK, PaceInv, StampsAhead, Row
    <3>2. poll[h].at < poll[h].at + codes[d].interval /\ poll[h].at # 0
      BY SMTT(30), <1>0, <3>1
    <3> QED
      BY <1>0, <1>5, <2>2, <3>1, <3>2
  <2> QED
    BY <2>1, <2>2
<1>8. ClaimsSound'
  <2> SUFFICES ASSUME NEW g \in Handlers, poll'[g].pc = "claim"
               PROVE  /\ poll'[g].last < poll'[g].at
                      /\ Row(poll[g].code)' /\ codes'[poll'[g].code].last = poll'[g].last =>
                           paced'[poll'[g].code] < poll'[g].at
    BY DEF ClaimsSound
  <2>1. g # h /\ poll'[g] = poll[g] /\ poll[g].code \in Codes /\ poll[g].last < poll[g].at
    BY <1>1, <1>4, PollTyped DEF PaceInv, ClaimsSound, TypeOK
  <2>2. CASE poll[g].code = d
    BY SMTT(30), <1>5, <2>1, <2>2
  <2>3. CASE poll[g].code # d
    BY SMTT(30), <1>5, <2>1, <2>3 DEF PaceInv, ClaimsSound, Row
  <2> QED
    BY <2>2, <2>3
<1>9. NotOvertaken'
  <2> SUFFICES ASSUME NEW g \in Handlers, Unstamped(poll'[g])
               PROVE  \/ paced'[poll'[g].code] <= poll'[g].since
                      \/ cli.pc = "sleep" => poll'[g].since + 1 < cli.wake
    BY DEF NotOvertaken, Unstamped
  <2>1. /\ g # h /\ poll'[g] = poll[g] /\ Unstamped(poll[g]) /\ poll[g].code \in Codes
        /\ poll[g].since \in Nat /\ poll[g].since # poll[h].since
    <3>1. g # h /\ poll'[g] = poll[g] /\ Unstamped(poll[g])
      BY <1>1, <1>4 DEF Unstamped
    <3> QED
      BY <3>1, PollTyped DEF TypeOK, PaceInv, PollsTimely, Unstamped
  <2>2. CASE poll[g].code # d
    BY <1>5, <2>1, <2>2 DEF PaceInv, NotOvertaken
  <2>3. CASE poll[g].code = d /\ poll[g].since > poll[h].since
    BY SMTT(30), <1>0, <1>5, <2>1, <2>3
  <2>4. CASE poll[g].since < poll[h].since
    <3>1. cli.wake \in Nat /\ (cli.pc = "sleep" => poll[h].since < cli.wake)
      BY CliNumbers DEF TypeOK, PaceInv, CliPaces
    <3> QED
      BY SMTT(30), <1>0, <2>1, <2>4, <3>1
  <2> QED
    BY SMTT(30), <1>0, <2>1, <2>2, <2>3, <2>4
<1>10. LaterIsAhead'
  <2> SUFFICES ASSUME NEW f \in Handlers, NEW g \in Handlers, Unstamped(poll'[f]),
                      Unstamped(poll'[g]), poll'[f].code = poll'[g].code,
                      poll'[f].since < poll'[g].since
               PROVE  paced'[poll'[g].code] < poll'[g].since
    BY DEF LaterIsAhead, Unstamped
  <2>1. /\ f # h /\ poll'[f] = poll[f] /\ Unstamped(poll[f])
        /\ g # h /\ poll'[g] = poll[g] /\ Unstamped(poll[g])
    BY <1>1, <1>4 DEF Unstamped
  <2>2. /\ poll[f].since \in Nat /\ poll[g].since \in Nat /\ poll[f].since # poll[h].since
        /\ poll[g].since # poll[h].since /\ poll[f].since <= now /\ poll[g].since <= now
        /\ now <= poll[f].since + 1 /\ now <= poll[g].since + 1
    BY ZenonT(60), <2>1, PollTyped DEF TypeOK, PaceInv, PollsTimely, Unstamped
  <2> QED
    BY SMTT(30), <1>0, <2>1, <2>2
<1> QED
  BY <1>4, <1>6, <1>7, <1>8, <1>9, <1>10 DEF PaceInv

\* A poll is slowed down: what it stamps may be older than the stamp before,
\* and the longer interval makes up for it.
LEMMA PaceSlowed ==
    ASSUME TypeOK, TypeOK', PaceInv, NEW h \in Handlers, poll[h].pc \in {"poll", "slow"},
           SlowedDown(h, poll[h].code), UNCHANGED <<now, cli>>
    PROVE  PaceInv'
<1> DEFINE d == poll[h].code
           r == [poll[h] EXCEPT !.pc = "answer", !.out = "slow_down"]
<1>0. /\ poll[h] \in PollRequest /\ d \in Codes /\ poll[h].at \in Nat /\ poll[h].since \in Nat
      /\ now \in Nat /\ 0 < poll[h].since /\ poll[h].since <= poll[h].at /\ poll[h].at <= now
      /\ now <= poll[h].since + 1
  BY PollTyped DEF TypeOK, PaceInv, PollsTimely
<1>1. r \in PollRequest /\ r.pc = "answer" /\ r.since = poll[h].since /\ r.code = d
  BY <1>0 DEF PollRequest, Outcome
<1>2. poll' = [poll EXCEPT ![h] = r] /\ UNCHANGED <<paced, rushed>>
  BY <1>0 DEF SlowedDown, Reply, TypeOK
<1> HIDE DEF r
<1>3. Moved(h, r)
  BY <1>1, <1>2 DEF Moved
<1>4. CASE ~Row(d)
  <2>1. StampsKept
    BY <1>4 DEF SlowedDown, StampsKept, Row
  <2> QED
    BY <1>1, <1>2, <1>3, <2>1, QuietMove DEF Unstamped
<1>5. CASE Row(d)
  <2>1. /\ PollsTimely' /\ CliPaces'
        /\ \A g \in Handlers : poll'[g] = IF g = h THEN r ELSE poll[g]
    BY <1>3, MovedOnTime
  <2>2. \A c \in Codes :
          /\ codes'[c].st = codes[c].st
          /\ codes'[c].interval = IF c = d THEN codes[c].interval + 1 ELSE codes[c].interval
          /\ codes'[c].last = IF c = d THEN poll[h].at ELSE codes[c].last
    <3>1. codes \in [Codes -> CodeRow]
      BY DEF TypeOK
    <3> QED
      BY <1>0, <1>5, <3>1 DEF SlowedDown, CodeRow, Bump
  <2>3. StampsAhead'
    <3> SUFFICES ASSUME NEW c \in Codes
                 PROVE  /\ paced[c] <= now
                        /\ codes'[c].st = "unborn" => paced[c] = 0
                        /\ codes'[c].st \in {"pending", "approved", "denied"} =>
                             /\ codes'[c].interval > 0
                             /\ paced[c] # 0 => /\ codes'[c].last # 0
                                                /\ paced[c] < codes'[c].last + codes'[c].interval
      BY <1>2 DEF StampsAhead, Row
    <3>1. CASE c # d
      BY <2>2, <3>1 DEF PaceInv, StampsAhead, Row
    <3>2. CASE c = d
      <4>1. /\ codes[d].interval \in Nat /\ codes[d].interval > 0 /\ codes[d].st # "unborn"
            /\ paced[d] \in Nat /\ paced[d] <= now
        BY <1>0, <1>5, CodeTyped DEF TypeOK, PaceInv, StampsAhead, Row
      <4>2. /\ poll[h].at # 0 /\ codes[d].interval + 1 > 0
            /\ paced[d] < poll[h].at + (codes[d].interval + 1)
        BY SMTT(30), <1>0, <4>1
      <4> QED
        BY <2>2, <3>2, <4>1, <4>2
    <3> QED
      BY <3>1, <3>2
  <2>4. ClaimsSound'
    <3> SUFFICES ASSUME NEW g \in Handlers, poll'[g].pc = "claim"
                 PROVE  /\ poll'[g].last < poll'[g].at
                        /\ Row(poll[g].code)' /\ codes'[poll'[g].code].last = poll'[g].last =>
                             paced'[poll'[g].code] < poll'[g].at
      BY DEF ClaimsSound
    <3>1. g # h /\ poll'[g] = poll[g] /\ poll[g].pc = "claim"
      BY <1>1, <2>1
    <3>2. /\ poll[g].code \in Codes /\ poll[g].since \in Nat /\ poll[g].at \in Nat
          /\ poll[g].last \in Nat /\ poll[g].last < poll[g].at
          /\ poll[g].since <= poll[g].at /\ poll[g].at <= now /\ now <= poll[g].since + 1
          /\ poll[g].since # poll[h].since
      BY <3>1, PollTyped DEF TypeOK, PaceInv, ClaimsSound, PollsTimely
    <3>3. CASE poll[g].code # d
      BY SMTT(30), <1>2, <2>2, <3>1, <3>2, <3>3 DEF PaceInv, ClaimsSound, Row
    <3>4. CASE poll[g].code = d
      <4> SUFFICES ASSUME poll[g].last = poll[h].at PROVE paced[d] < poll[g].at
        BY <1>2, <2>2, <3>1, <3>2, <3>4
      <4>1. poll[h].since < poll[g].since
        BY SMTT(30), <1>0, <3>2
      <4>2. paced[d] < poll[g].since /\ paced[d] \in Nat
        BY <1>0, <3>1, <3>4, <4>1 DEF TypeOK, PaceInv, LaterIsAhead, Unstamped
      <4> QED
        BY SMTT(30), <3>2, <4>2
    <3> QED
      BY <3>3, <3>4
  <2>5. NotOvertaken' /\ LaterIsAhead' /\ PollsPaced'
    <3>1. \A g \in Handlers : Unstamped(poll'[g]) => poll'[g] = poll[g]
      BY <1>1, <2>1 DEF Unstamped
    <3> QED
      BY <1>2, <3>1 DEF PaceInv, NotOvertaken, LaterIsAhead, PollsPaced, Unstamped
  <2> QED
    BY <2>1, <2>3, <2>4, <2>5 DEF PaceInv
<1> QED
  BY <1>4, <1>5

\* A poll the row takes for well-paced is past the last one accepted.
LEMMA PacedIsPast ==
    ASSUME TypeOK, PaceInv, NEW h \in Handlers, Stored(h, "poll"), PacedNow(h)
    PROVE  /\ paced[poll[h].code] < poll[h].at
           /\ codes[poll[h].code].last < poll[h].at
<1> DEFINE d == poll[h].code
<1>1. /\ d \in Codes /\ poll[h].at \in Nat /\ poll[h].since \in Nat /\ paced[d] \in Nat
      /\ 0 < poll[h].since /\ poll[h].since <= poll[h].at
      /\ codes[d].last \in Nat /\ codes[d].interval \in Nat
  BY PollTyped, CodeTyped DEF TypeOK, PaceInv, PollsTimely, Stored
<1>2. /\ codes[d].interval > 0
      /\ paced[d] # 0 => codes[d].last # 0 /\ paced[d] < codes[d].last + codes[d].interval
  BY <1>1 DEF PaceInv, StampsAhead, Stored
<1>3. codes[d].last = 0 \/ poll[h].at >= codes[d].last + codes[d].interval
  BY DEF PacedNow, WellPaced
<1> QED
  BY SMTT(30), <1>1, <1>2, <1>3

\* The steps of a poll that stamp no row: an answer, or the way to one.
LEMMA PaceQuiet ==
    ASSUME TypeOK, TypeOK', PaceInv, NEW h \in Handlers,
           \/ Lookup(h) \/ PollNotFound(h) \/ SqlitePollDeviceCode(h) \/ ConsumeDeviceCode(h)
           \/ Issue(h) \/ PollFails(h)
           \/ ClaimPoll(h) /\ poll' = [poll EXCEPT ![h].pc = "slow"] /\ UNCHANGED <<codes, paced, rushed>>
    PROVE  PaceInv'
<1> DEFINE p == poll[h]
           r == poll'[h]
<1>0. /\ p \in PollRequest /\ r \in PollRequest /\ p.code \in Codes /\ now \in Nat
      /\ UNCHANGED <<now, cli, paced, rushed>> /\ p.pc # "idle"
  BY PollTyped
     DEF TypeOK, Lookup, PollNotFound, SqlitePollDeviceCode, ConsumeDeviceCode, Issue, PollFails,
         ClaimPoll, Stored
<1>1. StampsKept
  <2>1. CASE codes' = codes
    BY <2>1 DEF StampsKept, Row
  <2>2. CASE codes' = [codes EXCEPT ![p.code] = ConsumedRow(@)]
    <3>1. codes \in [Codes -> CodeRow]
      BY DEF TypeOK
    <3>2. ASSUME NEW c \in Codes
          PROVE  /\ codes'[c].last = codes[c].last /\ codes'[c].interval = codes[c].interval
                 /\ codes'[c].st \in {codes[c].st, "gone"}
      <4>1. CASE c = p.code
        BY <1>0, <2>2, <3>1, <4>1 DEF ConsumedRow, CodeRow
      <4>2. CASE c # p.code
        BY <1>0, <2>2, <3>1, <4>2
      <4> QED
        BY <4>1, <4>2
    <3> QED
      BY <3>2 DEF StampsKept, Row
  <2> QED
    BY <2>1, <2>2 DEF Lookup, PollNotFound, SqlitePollDeviceCode, ConsumeDeviceCode, Issue, PollFails
<1>2. ASSUME NEW x, NEW o, poll' = [poll EXCEPT ![h].pc = x, ![h].out = o]
      PROVE  poll' = [poll EXCEPT ![h] = r] /\ r.since = p.since /\ r.code = p.code /\ r.pc = x
  BY <1>0, <1>2 DEF TypeOK, PollRequest
<1>3. ASSUME NEW o, Reply(h, o) PROVE PaceInv'
  <2>1. poll' = [poll EXCEPT ![h] = r] /\ r.since = p.since /\ r.code = p.code /\ r.pc = "answer"
    BY <1>2, <1>3 DEF Reply
  <2>2. Moved(h, r)
    BY <1>0, <2>1 DEF Moved
  <2> QED
    BY <1>0, <1>1, <2>1, <2>2, QuietMove DEF Unstamped
<1>4. CASE Lookup(h) /\ Row(p.code)
  <2>1. /\ poll' = [poll EXCEPT ![h] = r] /\ r.since = p.since /\ r.code = p.code /\ r.pc = "poll"
        /\ r.at = now /\ p.pc = "lookup"
    BY SMTT(30), <1>0, <1>4 DEF Lookup, TypeOK, PollRequest
  <2>2. p.since <= now
    BY <2>1 DEF PaceInv, PollsTimely
  <2>3. Moved(h, r)
    BY SMTT(30), <1>0, <2>1, <2>2 DEF Moved
  <2> QED
    BY <1>0, <1>1, <2>1, <2>3, QuietMove DEF Unstamped
<1>5. CASE SqlitePollDeviceCode(h)
  <2>1. /\ poll' = [poll EXCEPT ![h] = r] /\ r.since = p.since /\ r.code = p.code
        /\ r.pc = (IF PacedNow(h) THEN "claim" ELSE "slow")
        /\ r.at = p.at /\ r.last = codes[p.code].last /\ p.pc = "poll" /\ codes' = codes
    BY ZenonT(60), <1>0, <1>5 DEF SqlitePollDeviceCode, Stored, TypeOK, PollRequest
  <2>2. p.since <= p.at /\ p.at <= now
    BY <2>1 DEF PaceInv, PollsTimely
  <2>3. Moved(h, r)
    BY <1>0, <2>1, <2>2 DEF Moved
  <2>4. r.pc = "claim" => r.last < r.at /\ paced[r.code] < r.at
    BY SMTT(30), <1>5, <2>1, PacedIsPast DEF SqlitePollDeviceCode
  <2> QED
    BY <1>0, <1>1, <2>1, <2>3, <2>4, QuietMove DEF Unstamped
<1>6. CASE ClaimPoll(h) /\ poll' = [poll EXCEPT ![h].pc = "slow"]
  <2>1. /\ poll' = [poll EXCEPT ![h] = r] /\ r.since = p.since /\ r.code = p.code
        /\ r.pc = "slow" /\ r.at = p.at /\ p.pc = "claim"
    BY ZenonT(60), <1>0, <1>6 DEF ClaimPoll, TypeOK, PollRequest
  <2>2. p.since <= p.at /\ p.at <= now
    BY <2>1 DEF PaceInv, PollsTimely
  <2>3. Moved(h, r)
    BY <1>0, <2>1, <2>2 DEF Moved
  <2> QED
    BY <1>0, <1>1, <2>1, <2>3, QuietMove DEF Unstamped
<1>7. CASE ConsumeDeviceCode(h)
  <2>1. ASSUME NEW x \in {"answer", "issue"}, NEW w,
               \/ poll' = [poll EXCEPT ![h].pc = x]
               \/ poll' = [poll EXCEPT ![h].pc = x, ![h].who = w]
        PROVE  poll' = [poll EXCEPT ![h] = r] /\ r.since = p.since /\ r.code = p.code /\ r.pc = x
    <3>1. CASE poll' = [poll EXCEPT ![h].pc = x]
      BY <1>0, <3>1 DEF TypeOK, PollRequest
    <3>2. CASE poll' = [poll EXCEPT ![h].pc = x, ![h].who = w]
      BY <1>0, <3>2 DEF TypeOK, PollRequest
    <3> QED
      BY <2>1, <3>1, <3>2
  <2>2. \/ \E o : Reply(h, o)
        \/ \E w : poll' = [poll EXCEPT ![h].pc = "answer"]
        \/ \E w : poll' = [poll EXCEPT ![h].pc = "issue", ![h].who = w]
    BY <1>7 DEF ConsumeDeviceCode
  <2>3. CASE \E x \in {"answer", "issue"} :
               poll' = [poll EXCEPT ![h] = r] /\ r.since = p.since /\ r.code = p.code /\ r.pc = x
    <3>1. Moved(h, r)
      BY <1>0, <2>3 DEF Moved
    <3> QED
      BY <1>0, <1>1, <2>3, <3>1, QuietMove DEF Unstamped
  <2> QED
    BY <1>3, <2>1, <2>2, <2>3
<1> QED
  BY <1>3, <1>4, <1>5, <1>6, <1>7 DEF Lookup, PollNotFound, Issue, PollFails

\* Every step keeps the pace.
LEMMA PaceStep ==
    ASSUME IInv, IInv', PaceInv, [Next]_vars
    PROVE  PaceInv'
<1>0. TypeOK /\ TypeOK'
  BY DEF IInv
<1>1. ASSUME NEW d \in Codes, DeviceAuthorization(d) PROVE PaceInv'
  BY <1>0, <1>1, PaceAuthorization
<1>2. ASSUME NEW d \in Codes, Reap(d) PROVE PaceInv'
  <2>1. StampsKept
    BY <1>0, <1>2 DEF Reap, StampsKept, Row, TypeOK, CodeRow
  <2> QED
    BY <1>0, <1>2, <2>1, PaceFrame DEF Reap
<1>3. ASSUME NEW h \in Handlers, PgPollDeviceCode(h) PROVE PaceInv'
  <2>1. Stored(h, "poll") /\ UNCHANGED <<now, cli>> /\ poll[h].pc = "poll" /\ Row(poll[h].code)
    BY <1>3 DEF PgPollDeviceCode, Stored
  <2>2. CASE PacedNow(h) /\ Accepted(h, poll[h].code)
    BY <1>0, <2>1, <2>2, PacedIsPast, PaceAccepted
  <2>3. CASE SlowedDown(h, poll[h].code)
    BY <1>0, <2>1, <2>3, PaceSlowed
  <2> QED
    BY <1>3, <2>2, <2>3 DEF PgPollDeviceCode
<1>4. ASSUME NEW h \in Handlers, ClaimPoll(h) PROVE PaceInv'
  <2>1. CASE Row(poll[h].code) /\ codes[poll[h].code].last = poll[h].last /\ Accepted(h, poll[h].code)
    <3>1. poll[h].pc = "claim" /\ paced[poll[h].code] < poll[h].at /\ UNCHANGED <<now, cli>>
      BY <1>4, <2>1 DEF ClaimPoll, PaceInv, ClaimsSound
    <3> QED
      BY <1>0, <2>1, <3>1, PaceAccepted
  <2>2. CASE poll' = [poll EXCEPT ![h].pc = "slow"] /\ UNCHANGED <<codes, paced, rushed>>
    BY <1>0, <1>4, <2>2, PaceQuiet
  <2> QED
    BY <1>4, <2>1, <2>2 DEF ClaimPoll
<1>5. ASSUME NEW h \in Handlers, SlowDown(h) PROVE PaceInv'
  BY <1>0, <1>5, PaceSlowed DEF SlowDown
<1>6. ASSUME NEW h \in Handlers,
             Lookup(h) \/ PollNotFound(h) \/ SqlitePollDeviceCode(h) \/ ConsumeDeviceCode(h)
               \/ Issue(h) \/ PollFails(h)
      PROVE  PaceInv'
  BY <1>0, <1>6, PaceQuiet
<1>7. ASSUME NEW b \in Browsers, Pages(b) PROVE PaceInv'
  <2>1. UNCHANGED <<now, codes, poll, cli, paced, rushed>>
    BY <1>7, ZenonT(30) DEF Pages, EnterPost, SSOCallback, SSODenied, Confirm, Decide, uiRest
  <2>2. StampsKept
    BY <2>1 DEF StampsKept, Row
  <2> QED
    BY <1>0, <2>1, <2>2, PaceFrame
<1>8. ASSUME NEW q \in Requests, UIStep(q) PROVE PaceInv'
  <2>1. UNCHANGED <<now, poll, cli, paced, rushed>>
    BY <1>8, ZenonT(30) DEF UIStep, FlipRefused, PgFlip, SqliteFlip, SqliteUpdate, uiRest
  <2>2. StampsKept
    <3>1. ui[q].code \in Codes /\ codes \in [Codes -> CodeRow]
      BY <1>0 DEF TypeOK, UIRequest
    <3>2. CASE codes' = codes
      BY <3>2 DEF StampsKept, Row
    <3>3. CASE Flipped(q) /\ Flippable(ui[q].code)
      <4>1. PICK w : codes' = [codes EXCEPT ![ui[q].code].st = ui[q].verdict, ![ui[q].code].who = w]
        BY <3>3 DEF Flipped
      <4>2. ui[q].verdict # "unborn"
        BY <1>0 DEF TypeOK, UIRequest
      <4> QED
        BY SMTT(30), <3>1, <3>3, <4>1, <4>2 DEF StampsKept, Row, Flippable, CodeRow
    <3> QED
      BY <1>8, <3>2, <3>3 DEF UIStep, FlipRefused, PgFlip, SqliteFlip, SqliteUpdate, Flipped
  <2> QED
    BY <1>0, <2>1, <2>2, PaceFrame
<1>9. CASE UNCHANGED vars
  <2>1. StampsKept /\ UNCHANGED <<now, poll, cli, paced, rushed>>
    BY <1>9 DEF vars, StampsKept, Row
  <2> QED
    BY <1>0, <2>1, PaceFrame
<1>10. ASSUME NEW h \in Handlers, CliTurn(h) PROVE PaceInv'
  BY <1>0, <1>10, PaceTurn
<1>11. CASE CliLosesAnswer \/ \E h \in Handlers : Answer(h)
  BY <1>0, <1>11, PaceAnswer
<1>12. CASE Tick
  BY <1>0, <1>12, PaceTick
<1> QED
  BY <1>1, <1>2, <1>3, <1>4, <1>5, <1>6, <1>7, <1>8, <1>9, <1>10, <1>11, <1>12, ZenonT(30)
     DEF Next, PollStep

LEMMA PaceInit == Init => PaceInv
<1> SUFFICES ASSUME Init PROVE PaceInv
  OBVIOUS
<1>1. /\ \A h \in Handlers : poll[h].pc = "idle"
      /\ cli.pc = "start" /\ cli.on = {} /\ rushed = {} /\ now = 1
      /\ \A d \in Codes : codes[d].st = "unborn" /\ paced[d] = 0
  BY DEF Init, IdlePoll
<1>2. PollsTimely /\ CliPaces /\ ClaimsSound /\ NotOvertaken /\ LaterIsAhead /\ PollsPaced
  BY <1>1 DEF PollsTimely, CliPaces, ClaimsSound, NotOvertaken, LaterIsAhead, PollsPaced, Unstamped
<1>3. StampsAhead
  <2>1. ASSUME NEW d \in Codes PROVE paced[d] <= now /\ paced[d] = 0 /\ ~Row(d)
    BY SMTT(30), <1>1 DEF Row
  <2> QED
    BY <2>1 DEF StampsAhead
<1> QED
  BY <1>2, <1>3 DEF PaceInv

\* The polls of a code that are not slowed down read clocks an interval apart,
\* over either store, although a stamp may go back in time, answers are lost
\* and handlers of polls given up on go on (PollDeviceCode, pollLoop).
THEOREM AcceptedPollsApart == Spec => []PollsPaced
<1>1. IInv /\ IInv' /\ PaceInv /\ [Next]_vars => PaceInv'
  BY PaceStep
<1>2. PaceInv => PollsPaced
  BY DEF PaceInv
<1> QED
  BY <1>1, <1>2, PaceInit, FlowSound, PTL DEF Spec

-----------------------------------------------------------------------------
(* The decision reaches the command line.                                  *)

LEMMA LateKept ==
    ASSUME NEW row \in CodeRow, NEW row2 \in CodeRow, NEW dec \in Decision, NEW dec2 \in Decision,
           NEW n \in Nat, NEW n2 \in Nat, n <= n2, row2.expires = row.expires,
           dec2 = dec \/ (~Decided(dec) /\ dec2.at = n), Late(row, dec, n)
    PROVE  Late(row2, dec2, n2)
<1>1. row.expires \in Nat /\ row2.expires \in Nat /\ dec.at \in Nat /\ dec2.at \in Nat
  BY CodeTyped DEF Decision
<1> QED
  BY SMTT(30), <1>1 DEF Late

\* A decision taken now, at n, is in time for the loop.
LEMMA PaceKept ==
    ASSUME NEW k \in CliState, NEW p \in [Handlers -> PollRequest], NEW n \in Nat,
           NEW row \in CodeRow, NEW row2 \in CodeRow, NEW dec \in Decision, NEW dec2 \in Decision,
           row2.expires = row.expires, row2.last = row.last, row2.interval = row.interval,
           Live(row) => Live(row2), dec2 = dec \/ (~Decided(dec) /\ dec2.at = n),
           \A h \in Handlers : p[h].pc # "idle" => p[h].since <= n,
           \A h \in Handlers : p[h].pc \in {"poll", "claim"} => p[h].at <= n,
           KeepsPace(k, row, dec, n, p)
    PROVE  KeepsPace(k, row2, dec2, n, p)
<1>0. /\ k.wake \in Nat /\ dec.at \in Nat /\ dec2.at \in Nat
      /\ \A h \in Handlers : p[h].since \in Nat /\ p[h].at \in Nat
  BY CliNumbers, PollTyped DEF Decision
<1>1. ASSUME k.pc = "sleep"
      PROVE  /\ \A h \in Handlers : p[h].pc = "idle"
             /\ Live(row2) /\ row2.last < k.wake
             /\ n <= k.wake /\ k.wake <= n + 1
             /\ Decided(dec2) => k.wake <= dec2.at + 2
  <2>1. /\ \A h \in Handlers : p[h].pc = "idle"
        /\ Live(row) /\ row.last < k.wake /\ n <= k.wake /\ k.wake <= n + 1
        /\ Decided(dec) => k.wake <= dec.at + 2
    BY <1>1 DEF KeepsPace
  <2> QED
    BY SMTT(30), <1>0, <2>1
<1>2. ASSUME k.pc = "await"
      PROVE  \E h \in Handlers :
               /\ k.on = {h} /\ p[h].code = k.code /\ TurnOfPoll(p[h], row2, dec2, n)
               /\ \A g \in Handlers \ {h} : p[g].pc = "idle"
  <2>1. PICK h \in Handlers :
               /\ k.on = {h} /\ p[h].code = k.code /\ TurnOfPoll(p[h], row, dec, n)
               /\ \A g \in Handlers \ {h} : p[g].pc = "idle"
    BY <1>2 DEF KeepsPace
  <2>2. /\ p[h].since <= n /\ p[h].since \in Nat /\ p[h].at \in Nat
        /\ p[h].pc \in {"poll", "claim"} => p[h].at <= n
    BY <1>0, <2>1 DEF TurnOfPoll
  <2>3. TurnOfPoll(p[h], row2, dec2, n)
    <3>1. CASE dec2 = dec
      BY <2>1, <3>1 DEF TurnOfPoll
    <3>2. CASE dec2.at = n
      <4>1. p[h].since <= dec2.at + 2
        BY SMTT(30), <2>2, <3>2
      <4> QED
        BY <2>1, <2>2, <3>2, <4>1 DEF TurnOfPoll
    <3> QED
      BY <3>1, <3>2
  <2> QED
    BY <2>1, <2>3
<1>3. k.interval = DefaultInterval /\ k.out = "none" /\ row2.interval = DefaultInterval
      /\ row2.expires = k.start + CodeTTL
  BY DEF KeepsPace
<1> QED
  BY <1>1, <1>2, <1>3 DEF KeepsPace

\* The facts about a state that every step needs.
LEMMA TurnTyped ==
    ASSUME IInv, PaceInv
    PROVE  /\ cli \in CliState /\ cli.code \in Codes /\ poll \in [Handlers -> PollRequest]
           /\ codes[cli.code] \in CodeRow /\ decided[cli.code] \in Decision
           /\ now \in Nat /\ failures \in Nat
           /\ \A h \in Handlers : poll[h].pc # "idle" => poll[h].since <= now
           /\ \A h \in Handlers : poll[h].pc \in {"poll", "claim"} => poll[h].at <= now
<1>1. cli \in CliState /\ cli.code \in Codes
  BY CliNumbers DEF IInv, TypeOK
<1>2. /\ poll \in [Handlers -> PollRequest] /\ codes \in [Codes -> CodeRow]
      /\ decided \in [Codes -> Decision] /\ now \in Nat /\ failures \in Nat
  BY DEF IInv, TypeOK
<1> QED
  BY <1>1, <1>2 DEF PaceInv, PollsTimely

\* The pages decide, and nothing else changes.
LEMMA DecisionTurn ==
    ASSUME IInv, IInv', PaceInv, TurnInv, UNCHANGED <<now, poll, cli, failures>>,
           \A c \in Codes :
             /\ codes'[c].expires = codes[c].expires /\ codes'[c].last = codes[c].last
             /\ codes'[c].interval = codes[c].interval /\ (Live(codes[c]) => Live(codes'[c]))
             /\ codes'[c].st = "unborn" <=> codes[c].st = "unborn"
             /\ decided'[c] = decided[c] \/ (~Decided(decided[c]) /\ decided'[c].at = now)
    PROVE  TurnInv'
<1>0. codes'[cli.code] \in CodeRow /\ decided'[cli.code] \in Decision
  BY TurnTyped DEF IInv, TypeOK
<1>1. cli'.pc = "start" => cli'.out = "none" /\ \A d \in Codes : codes'[d].st = "unborn"
  BY DEF TurnInv
<1>2. ASSUME failures = 0, cli.pc # "start"
      PROVE  /\ codes'[cli.code].st # "unborn"
             /\ cli.out = "expired" => Late(codes'[cli.code], decided'[cli.code], now)
             /\ cli.pc \in {"sleep", "await"} =>
                  \/ Late(codes'[cli.code], decided'[cli.code], now)
                  \/ KeepsPace(cli, codes'[cli.code], decided'[cli.code], now, poll)
  <2>1. /\ codes[cli.code].st # "unborn"
        /\ cli.out = "expired" => Late(codes[cli.code], decided[cli.code], now)
        /\ cli.pc \in {"sleep", "await"} =>
             \/ Late(codes[cli.code], decided[cli.code], now)
             \/ KeepsPace(cli, codes[cli.code], decided[cli.code], now, poll)
    BY <1>2 DEF TurnInv
  <2>2. now <= now
    BY SMTT(30), TurnTyped
  <2>3. Late(codes[cli.code], decided[cli.code], now) =>
          Late(codes'[cli.code], decided'[cli.code], now)
    BY SMTT(30), <1>0, <2>2, TurnTyped, LateKept
  <2>4. KeepsPace(cli, codes[cli.code], decided[cli.code], now, poll) =>
          KeepsPace(cli, codes'[cli.code], decided'[cli.code], now, poll)
    BY ZenonT(60), <1>0, TurnTyped, PaceKept
  <2> QED
    BY <2>1, <2>3, <2>4, TurnTyped
<1> QED
  BY <1>1, <1>2 DEF TurnInv

\* The clock moves, no further than the command line and its poll let it.
LEMMA TickTurn ==
    ASSUME IInv, IInv', PaceInv, TurnInv, Tick
    PROVE  TurnInv'
<1> DEFINE row == codes[cli.code]
           dec == decided[cli.code]
<1>0. /\ UNCHANGED <<codes, poll, cli, failures, decided>> /\ now' = now + 1 /\ now \in Nat
      /\ cli.pc = "sleep" => now < cli.wake
      /\ row \in CodeRow /\ dec \in Decision /\ cli.wake \in Nat
  BY TurnTyped, CliNumbers DEF Tick, Prompt
<1>1. Late(row, dec, now) => Late(row, dec, now + 1)
  BY SMTT(30), <1>0, LateKept
<1>2. ASSUME KeepsPace(cli, row, dec, now, poll) PROVE KeepsPace(cli, row, dec, now + 1, poll)
  <2>1. cli.pc = "sleep" => now + 1 <= cli.wake /\ cli.wake <= (now + 1) + 1
    BY SMTT(30), <1>0, <1>2 DEF KeepsPace
  <2>2. \A h \in Handlers : TurnOfPoll(poll[h], row, dec, now) => TurnOfPoll(poll[h], row, dec, now + 1)
    <3>1. row.last \in Nat
      BY <1>0, CodeTyped
    <3>2. row.last <= now => row.last <= now + 1
      BY SMTT(30), <1>0, <3>1
    <3> QED
      BY <3>2 DEF TurnOfPoll
  <2> QED
    BY <1>2, <2>1, <2>2 DEF KeepsPace
<1> HIDE DEF row, dec
<1> QED
  BY <1>0, <1>1, <1>2 DEF TurnInv, row, dec

\* The command line gets a code, and begins.
LEMMA AuthorizationTurn ==
    ASSUME IInv, IInv', PaceInv, TurnInv, NEW d \in Codes, DeviceAuthorization(d)
    PROVE  TurnInv'
<1>0. /\ now \in Nat /\ 0 < now /\ failures \in Nat /\ cli \in CliState /\ codes \in [Codes -> CodeRow]
      /\ UNCHANGED <<now, poll, decided>> /\ cli.pc = "start"
      /\ codes[d].st = "unborn" /\ codes' = [codes EXCEPT ![d] = NewCode]
  BY SMTT(30) DEF IInv, TypeOK, DeviceAuthorization, SaveDeviceCode
<1>1. CASE failures' = failures + 1 /\ cli' = [cli EXCEPT !.pc = "end", !.out = "error"]
  <2>1. cli'.pc = "end" /\ failures' # 0
    BY SMTT(30), <1>0, <1>1 DEF CliState
  <2> QED
    BY <2>1 DEF TurnInv
<1>2. CASE cli' = CliStarts(d)
  <2>1. /\ cli'.pc = "sleep" /\ cli'.code = d /\ cli'.interval = DefaultInterval
        /\ cli'.out = "none" /\ cli'.start = now /\ cli'.wake = now
    BY <1>2 DEF CliStarts
  <2>2. codes'[d].st = "pending" /\ codes'[d].interval = DefaultInterval /\ codes'[d].last = 0
        /\ codes'[d].expires = now + CodeTTL
    BY <1>0 DEF NewCode
  <2>3. \A h \in Handlers : poll[h].pc = "idle"
    BY <1>0 DEF PaceInv, CliPaces
  <2>4. ~Decided(decided[d])
    BY <1>0 DEF IInv, RowSound, Decided
  <2>5. KeepsPace(cli', codes'[d], decided[d], now, poll)
    <3>1. now <= now /\ now <= now + 1 /\ 0 < now
      BY SMTT(30), <1>0
    <3> QED
      BY <2>1, <2>2, <2>3, <2>4, <3>1 DEF KeepsPace, Live
  <2> QED
    BY <1>0, <2>1, <2>2, <2>5 DEF TurnInv
<1> QED
  BY <1>1, <1>2 DEF DeviceAuthorization

\* Once the code is late it stays late, whatever the command line goes on to do.
LEMMA SettledTurn ==
    ASSUME IInv, IInv', PaceInv, TurnInv, UNCHANGED <<now, failures, decided>>,
           cli'.code = cli.code, cli.pc # "start", cli'.pc # "start",
           codes'[cli.code].expires = codes[cli.code].expires,
           codes'[cli.code].st = "unborn" => codes[cli.code].st = "unborn",
           failures = 0 => Late(codes[cli.code], decided[cli.code], now)
    PROVE  TurnInv'
<1>0. codes'[cli.code] \in CodeRow /\ now \in Nat /\ now <= now
  BY SMTT(30), TurnTyped DEF IInv, TypeOK
<1>1. failures = 0 => Late(codes'[cli.code], decided[cli.code], now)
  BY SMTT(30), <1>0, TurnTyped, LateKept
<1>2. failures = 0 => codes'[cli.code].st # "unborn"
  BY DEF TurnInv
<1> QED
  BY <1>1, <1>2 DEF TurnInv

\* The reaper takes the row: by then the code is late.
LEMMA ReapTurn ==
    ASSUME IInv, IInv', PaceInv, TurnInv, NEW c \in Codes, Reap(c)
    PROVE  TurnInv'
<1> DEFINE d == cli.code
           row == codes[cli.code]
           dec == decided[cli.code]
<1>0. /\ UNCHANGED <<now, poll, cli, failures, decided>> /\ Row(c) /\ codes[c].expires < now
      /\ codes' = [codes EXCEPT ![c].st = "gone"] /\ codes \in [Codes -> CodeRow]
      /\ now \in Nat /\ d \in Codes /\ row \in CodeRow /\ dec \in Decision /\ cli \in CliState
  BY TurnTyped DEF Reap, IInv, TypeOK
<1>1. cli.pc # "start"
  BY <1>0 DEF TurnInv, Row
<1>2. CASE c # d
  <2>1. codes'[d] = codes[d]
    BY <1>0, <1>2
  <2> QED
    BY <1>0, <1>1, <2>1 DEF TurnInv
<1>3. CASE c = d
  <2>1. codes'[d].expires = row.expires /\ codes'[d].st = "gone"
    BY <1>0, <1>3 DEF CodeRow
  <2>2. row.expires \in Nat /\ dec.at \in Nat /\ cli.wake \in Nat
    BY <1>0, CodeTyped, CliNumbers DEF Decision
  <2>3. ASSUME KeepsPace(cli, row, dec, now, poll), cli.pc \in {"sleep", "await"}
        PROVE  Late(row, dec, now)
    <3>1. row.expires <= now
      BY SMTT(30), <1>0, <1>3, <2>2
    <3>2. ASSUME Decided(dec), cli.pc = "sleep" PROVE row.expires < dec.at + 3
      <4>1. now <= cli.wake /\ cli.wake <= dec.at + 2
        BY <2>3, <3>2 DEF KeepsPace
      <4> QED
        BY SMTT(30), <1>0, <1>3, <2>2, <4>1
    <3>3. ASSUME Decided(dec), cli.pc = "await" PROVE row.expires < dec.at + 3
      <4>1. PICK h \in Handlers : TurnOfPoll(poll[h], row, dec, now)
        BY <2>3, <3>3 DEF KeepsPace
      <4>2. /\ poll[h].since \in Nat /\ now <= poll[h].since + 1
            /\ poll[h].since <= dec.at + 2
        BY <3>3, <4>1, PollTyped DEF TurnOfPoll, PaceInv, PollsTimely, IInv, TypeOK
      <4> QED
        BY SMTT(30), <1>0, <1>3, <2>2, <4>2
    <3> QED
      BY <2>3, <3>1, <3>2, <3>3 DEF Late
  <2>4. CASE cli.pc = "end"
    <3>1. failures = 0 /\ cli.out = "expired" => Late(row, dec, now)
      BY <1>1 DEF TurnInv
    <3>3. failures = 0 /\ cli.out = "expired" => Late(codes'[d], dec, now)
      BY <2>1, <3>1 DEF Late
    <3> HIDE DEF d, row, dec
    <3> QED
      BY <1>0, <2>1, <2>4, <3>3 DEF TurnInv, d, dec
  <2>5. CASE cli.pc \in {"sleep", "await"}
    <3>1. failures = 0 => Late(row, dec, now)
      BY <1>1, <2>3, <2>5 DEF TurnInv
    <3> QED
      BY <1>0, <1>1, <2>1, <3>1, SettledTurn
  <2> QED
    BY <1>0, <1>1, <2>4, <2>5 DEF CliState
<1> QED
  BY <1>2, <1>3

\* The command line polls, or gives up past its deadline.
LEMMA BeginTurn ==
    ASSUME IInv, IInv', PaceInv, TurnInv, NEW h \in Handlers, CliTurn(h)
    PROVE  TurnInv'
<1> DEFINE row == codes[cli.code]
           dec == decided[cli.code]
<1>0. /\ UNCHANGED <<now, codes, failures, decided>> /\ cli.pc = "sleep" /\ cli.wake <= now
      /\ now \in Nat /\ cli.code \in Codes /\ row \in CodeRow /\ dec \in Decision
      /\ cli \in CliState /\ cli.wake \in Nat /\ cli.start \in Nat /\ poll \in [Handlers -> PollRequest]
  BY TurnTyped, CliNumbers DEF CliTurn
<1>1. \/ /\ now - cli.start >= CodeTTL /\ cli' = [cli EXCEPT !.pc = "end", !.out = "expired", !.on = {}]
      \/ /\ cli' = [cli EXCEPT !.pc = "await", !.on = {h}] /\ IsFirst(h, FreeHandlers)
         /\ poll' = [poll EXCEPT ![h] = [IdlePoll EXCEPT !.pc = "lookup", !.code = cli.code,
                                                         !.since = now]]
  BY DEF CliTurn, CliEnds
<1>2. cli'.code = cli.code /\ cli'.pc \in {"end", "await"}
  BY <1>0, <1>1 DEF CliState
<1>3. CASE failures = 0 => Late(row, dec, now)
  BY <1>0, <1>2, <1>3, SettledTurn
<1>4. CASE failures = 0 /\ KeepsPace(cli, row, dec, now, poll)
  <2>1. /\ cli.interval = DefaultInterval /\ cli.out = "none" /\ row.interval = DefaultInterval
        /\ row.expires = cli.start + CodeTTL /\ Live(row) /\ row.last < cli.wake /\ now <= cli.wake
        /\ Decided(dec) => cli.wake <= dec.at + 2
        /\ \A g \in Handlers : poll[g].pc = "idle"
    BY <1>0, <1>4 DEF KeepsPace
  <2>2. row.expires \in Nat /\ dec.at \in Nat /\ cli.wake = now /\ CodeTTL \in Nat
    BY SMTT(30), <1>0, <2>1, CodeTyped, TTLAssumption DEF Decision
  <2>3. CASE now - cli.start >= CodeTTL
    <3>1. Late(row, dec, now)
      BY SMTT(30), <1>0, <2>1, <2>2, <2>3 DEF Late
    <3> QED
      BY <1>0, <1>2, <3>1, SettledTurn
  <2>4. CASE /\ cli' = [cli EXCEPT !.pc = "await", !.on = {h}]
             /\ poll' = [poll EXCEPT ![h] = [IdlePoll EXCEPT !.pc = "lookup", !.code = cli.code,
                                                             !.since = now]]
    <3>1. /\ cli'.pc = "await" /\ cli'.on = {h} /\ cli'.code = cli.code /\ cli'.out = cli.out
          /\ cli'.interval = cli.interval /\ cli'.start = cli.start
      BY <1>0, <2>4 DEF CliState
    <3>2. /\ poll'[h].pc = "lookup" /\ poll'[h].code = cli.code /\ poll'[h].since = now
          /\ poll'[h].out = "none" /\ \A g \in Handlers \ {h} : poll'[g].pc = "idle"
      BY <1>0, <2>1, <2>4 DEF IdlePoll
    <3>3. TurnOfPoll(poll'[h], row, dec, now)
      BY <2>1, <2>2, <3>2 DEF TurnOfPoll
    <3>4. KeepsPace(cli', row, dec, now, poll')
      BY <2>1, <3>1, <3>2, <3>3 DEF KeepsPace
    <3>5. row.st # "unborn" /\ cli'.out # "expired"
      BY <2>1, <3>1 DEF Live
    <3> HIDE DEF row, dec
    <3> QED
      BY <1>0, <3>1, <3>4, <3>5 DEF TurnInv, row, dec
  <2> QED
    BY <1>1, <2>3, <2>4
<1> QED
  BY <1>0, <1>3, <1>4 DEF TurnInv

\* The command line hears the answer of its poll.
LEMMA AnswerTurn ==
    ASSUME IInv, IInv', PaceInv, TurnInv, NEW h \in Handlers, Answer(h)
    PROVE  TurnInv'
<1> DEFINE row == codes[cli.code]
           dec == decided[cli.code]
<1>0. /\ UNCHANGED <<now, codes, failures, decided>> /\ poll[h].pc = "answer"
      /\ poll' = [poll EXCEPT ![h] = IdlePoll]
      /\ now \in Nat /\ cli.code \in Codes /\ row \in CodeRow /\ dec \in Decision
      /\ cli \in CliState /\ poll \in [Handlers -> PollRequest]
  BY TurnTyped DEF Answer
<1>1. CASE cli.on # {h}
  <2>1. cli' = cli
    BY <1>1 DEF Answer
  <2>2. KeepsPace(cli, row, dec, now, poll) => cli.pc \notin {"sleep", "await"}
    BY <1>0, <1>1 DEF KeepsPace, TurnOfPoll
  <2> HIDE DEF row, dec
  <2> QED
    BY <1>0, <2>1, <2>2 DEF TurnInv, row, dec
<1>2. CASE cli.on = {h}
  <2>1. cli.pc = "await" /\ CliHears(poll[h].out)
    BY <1>2 DEF Answer, PaceInv, CliPaces
  <2>2. cli'.code = cli.code /\ cli'.pc \in {"sleep", "end"}
    <3>1. \/ \E i, s, b : CliSleeps(i, s, b)
          \/ CliEnds(poll[h].out)
      BY <2>1 DEF CliHears, CliTransient
    <3> QED
      BY <1>0, <3>1 DEF CliSleeps, CliEnds, CliState
  <2>3. CASE failures = 0 => Late(row, dec, now)
    BY <1>0, <2>1, <2>2, <2>3, SettledTurn
  <2>4. CASE failures = 0 /\ KeepsPace(cli, row, dec, now, poll)
    <3>1. /\ TurnOfPoll(poll[h], row, dec, now)
          /\ \A g \in Handlers \ {h} : poll[g].pc = "idle"
      <4>1. PICK g \in Handlers :
              /\ cli.on = {g} /\ TurnOfPoll(poll[g], row, dec, now)
              /\ \A f \in Handlers \ {g} : poll[f].pc = "idle"
        BY <2>1, <2>4 DEF KeepsPace
      <4>2. g = h
        BY <1>2, <4>1
      <4> QED
        BY <4>1, <4>2
    <3>2. /\ cli.interval = DefaultInterval /\ cli.out = "none" /\ row.interval = DefaultInterval
          /\ row.expires = cli.start + CodeTTL /\ row.st # "unborn"
      BY <2>1, <2>4 DEF KeepsPace, TurnInv
    <3>3. poll[h].out \notin {"slow_down", "error", "expired"}
      BY <3>1 DEF TurnOfPoll
    <3>4. CASE poll[h].out = "pending"
      <4>1. CliSleeps(1, 1, 1)
        BY <2>1, <3>2, <3>4 DEF CliHears, DefaultInterval
      <4>2. /\ cli'.pc = "sleep" /\ cli'.interval = 1 /\ cli'.wake = now + 1 /\ cli'.out = "none"
            /\ cli'.start = cli.start
        BY <1>0, <3>2, <4>1 DEF CliSleeps, CliState
      <4>3. \A g \in Handlers : poll'[g].pc = "idle"
        BY <1>0, <3>1 DEF IdlePoll
      <4>4. Live(row) /\ row.last <= now /\ (Decided(dec) => poll[h].since <= dec.at)
        BY <1>0, <3>1, <3>4 DEF TurnOfPoll
      <4>5. /\ poll[h].since \in Nat /\ dec.at \in Nat /\ row.last \in Nat
            /\ now <= poll[h].since + 1
        BY <1>0, CodeTyped, PollTyped DEF Decision, PaceInv, PollsTimely
      <4>6. /\ row.last < now + 1 /\ now <= now + 1 /\ now + 1 <= now + 1
            /\ Decided(dec) => now + 1 <= dec.at + 2
        BY SMTT(30), <1>0, <4>4, <4>5
      <4>7. KeepsPace(cli', row, dec, now, poll')
        BY <3>2, <4>2, <4>3, <4>4, <4>6 DEF KeepsPace, DefaultInterval
      <4> HIDE DEF row, dec
      <4> QED
        BY <1>0, <2>2, <3>2, <4>2, <4>7 DEF TurnInv, row, dec
    <3>5. CASE poll[h].out # "pending"
      <4>1. CliEnds(poll[h].out)
        BY <2>1, <3>3, <3>5 DEF CliHears
      <4>2. cli'.pc = "end" /\ cli'.out # "expired"
        BY <1>0, <3>3, <4>1 DEF CliEnds, CliState
      <4> HIDE DEF row, dec
      <4> QED
        BY <1>0, <2>2, <3>2, <4>2 DEF TurnInv, row, dec
    <3> QED
      BY <3>4, <3>5
  <2> QED
    BY <2>1, <2>3, <2>4 DEF TurnInv
<1> QED
  BY <1>1, <1>2

\* A poll in flight, while no call has failed, is the one the command line awaits.
LEMMA OwnPoll ==
    ASSUME NEW h \in Handlers, NEW row, NEW dec, poll[h].pc # "idle", cli.pc \in {"sleep", "await"},
           KeepsPace(cli, row, dec, now, poll)
    PROVE  /\ cli.pc = "await" /\ cli.on = {h} /\ poll[h].code = cli.code
           /\ TurnOfPoll(poll[h], row, dec, now)
           /\ \A g \in Handlers \ {h} : poll[g].pc = "idle"
<1>1. cli.pc = "await"
  BY DEF KeepsPace
<1>2. PICK g \in Handlers :
        /\ cli.on = {g} /\ poll[g].code = cli.code /\ TurnOfPoll(poll[g], row, dec, now)
        /\ \A f \in Handlers \ {g} : poll[f].pc = "idle"
  BY <1>1 DEF KeepsPace
<1>3. g = h
  BY <1>2
<1> QED
  BY <1>1, <1>2, <1>3

\* What is left to show of a step of the awaited poll.
LEMMA PollTurned ==
    ASSUME IInv, PaceInv, TurnInv, UNCHANGED <<now, cli, failures, decided>>, NEW h \in Handlers,
           poll[h].pc # "idle", cli.pc \in {"sleep", "await"},
           KeepsPace(cli, codes[cli.code], decided[cli.code], now, poll),
           NEW r, poll' = [poll EXCEPT ![h] = r], r.code = poll[h].code,
           codes'[cli.code].expires = codes[cli.code].expires,
           codes'[cli.code].interval = codes[cli.code].interval,
           codes'[cli.code].st # "unborn",
           TurnOfPoll(r, codes'[cli.code], decided[cli.code], now)
    PROVE  TurnInv'
<1>1. /\ cli.pc = "await" /\ cli.on = {h} /\ poll[h].code = cli.code
      /\ \A g \in Handlers \ {h} : poll[g].pc = "idle"
  BY OwnPoll
<1>2. poll'[h] = r /\ \A g \in Handlers \ {h} : poll'[g].pc = "idle"
  BY <1>1, TurnTyped
<1>3. KeepsPace(cli, codes'[cli.code], decided[cli.code], now, poll')
  BY <1>1, <1>2 DEF KeepsPace
<1>4. cli.out # "expired"
  BY DEF KeepsPace
<1> QED
  BY <1>1, <1>3, <1>4 DEF TurnInv

\* A well-paced poll goes on to the answer its row calls for; if that is that
\* the code has expired, the code is late.
LEMMA OnwardTurn ==
    ASSUME NEW r \in PollRequest, NEW row \in CodeRow, NEW row2 \in CodeRow, NEW dec \in Decision,
           NEW n \in Nat, r.pc \in {"poll", "claim"}, TurnOfPoll(r, row, dec, n),
           r.since <= r.at, r.at <= n, n <= r.since + 1,
           row2.expires = row.expires, row2.last = r.at, row2.st = row.st
    PROVE  Late(row, dec, n) \/ TurnOfPoll(Onward(r), row2, dec, n)
<1>0. /\ r.since \in Nat /\ r.at \in Nat /\ r.expires \in Nat /\ dec.at \in Nat
      /\ row.expires \in Nat /\ r.expires = row.expires /\ Live(row) /\ Live(row2)
      /\ Decided(dec) => r.since <= dec.at + 2
      /\ Decided(dec) => r.seen \in {"approved", "denied"} \/ r.at <= dec.at
  BY PollTyped, CodeTyped DEF TurnOfPoll, Decision, Live
<1>1. CASE r.at > r.expires
  BY SMTT(30), <1>0, <1>1 DEF Late
<1>2. CASE r.at <= r.expires
  <2>1. ASSUME NEW o \in {"denied", "token"}, Onward(r) = [r EXCEPT !.pc = "consume", !.out = o]
        PROVE  TurnOfPoll(Onward(r), row2, dec, n)
    <3>1. Onward(r).pc = "consume" /\ Onward(r).out = o /\ Onward(r).since = r.since
      BY <2>1 DEF PollRequest
    <3> QED
      BY <1>0, <3>1 DEF TurnOfPoll
  <2>2. ASSUME r.seen \notin {"approved", "denied"},
               Onward(r) = [r EXCEPT !.pc = "answer", !.out = "pending"]
        PROVE  TurnOfPoll(Onward(r), row2, dec, n)
    <3>1. Onward(r).pc = "answer" /\ Onward(r).out = "pending" /\ Onward(r).since = r.since
      BY <2>2 DEF PollRequest
    <3>2. Decided(dec) => r.since <= dec.at
      BY SMTT(30), <1>0, <2>2
    <3> QED
      BY <1>0, <3>1, <3>2 DEF TurnOfPoll
  <2>3. ~(r.at > r.expires)
    BY SMTT(30), <1>0, <1>2
  <2>4. \/ Onward(r) = [r EXCEPT !.pc = "consume", !.out = "denied"]
        \/ Onward(r) = [r EXCEPT !.pc = "consume", !.out = "token"]
        \/ /\ r.seen \notin {"approved", "denied"}
           /\ Onward(r) = [r EXCEPT !.pc = "answer", !.out = "pending"]
    BY <1>2, <2>3 DEF Onward
  <2> QED
    BY <2>1, <2>2, <2>4
<1> QED
  BY SMTT(30), <1>0, <1>1, <1>2

\* The steps of a poll up to its answer.
PollWorks(h) ==
    \/ Lookup(h) \/ PollNotFound(h) \/ PgPollDeviceCode(h) \/ SqlitePollDeviceCode(h)
    \/ ClaimPoll(h) \/ SlowDown(h) \/ ConsumeDeviceCode(h) \/ Issue(h)

LEMMA PollFrame ==
    ASSUME IInv, NEW h \in Handlers, PollWorks(h)
    PROVE  /\ UNCHANGED <<now, cli, failures, decided>> /\ poll[h].pc # "idle"
           /\ \A c \in Codes : /\ codes'[c].expires = codes[c].expires
                               /\ codes'[c].st = "unborn" => codes[c].st = "unborn"
<1>0. poll[h].code \in Codes /\ codes \in [Codes -> CodeRow]
  BY PollTyped DEF IInv, TypeOK
<1>1. UNCHANGED <<now, cli, failures, decided>> /\ poll[h].pc # "idle"
  BY DEF PollWorks, Lookup, PollNotFound, PgPollDeviceCode, SqlitePollDeviceCode, ClaimPoll,
         SlowDown, ConsumeDeviceCode, Issue, Stored
<1> DEFINE d == poll[h].code
<1>2. CASE codes' = codes
  BY <1>1, <1>2
<1>3. CASE codes' = [codes EXCEPT ![d].last = poll[h].at]
  BY <1>0, <1>1, <1>3 DEF CodeRow
<1>4. CASE codes' = [codes EXCEPT ![d].last = poll[h].at, ![d].interval = @ + Bump]
  BY <1>0, <1>1, <1>4 DEF CodeRow
<1>5. CASE codes' = [codes EXCEPT ![d] = ConsumedRow(@)]
  BY <1>0, <1>1, <1>5 DEF ConsumedRow, CodeRow
<1>6. \/ codes' = codes \/ codes' = [codes EXCEPT ![d].last = poll[h].at]
      \/ codes' = [codes EXCEPT ![d].last = poll[h].at, ![d].interval = @ + Bump]
      \/ codes' = [codes EXCEPT ![d] = ConsumedRow(@)]
  BY DEF PollWorks, Lookup, PollNotFound, PgPollDeviceCode, SqlitePollDeviceCode, ClaimPoll,
         SlowDown, ConsumeDeviceCode, Issue, Accepted, SlowedDown
<1> QED
  BY <1>1, <1>2, <1>3, <1>4, <1>5, <1>6

\* The awaited poll is accepted.
LEMMA AcceptedTurn ==
    ASSUME IInv, IInv', PaceInv, TurnInv, NEW h \in Handlers, PollWorks(h),
           poll[h].pc \in {"poll", "claim"}, Accepted(h, poll[h].code),
           cli.pc \in {"sleep", "await"},
           KeepsPace(cli, codes[cli.code], decided[cli.code], now, poll)
    PROVE  TurnInv'
<1> DEFINE d == cli.code
           row == codes[d]
           row2 == codes'[d]
           dec == decided[d]
           p == poll[h]
<1>0. /\ cli \in CliState /\ d \in Codes /\ poll \in [Handlers -> PollRequest]
      /\ row \in CodeRow /\ dec \in Decision /\ now \in Nat /\ row2 \in CodeRow
      /\ codes \in [Codes -> CodeRow] /\ p \in PollRequest
  BY TurnTyped DEF IInv, TypeOK
<1>1. p.code = d /\ TurnOfPoll(p, row, dec, now)
  BY <1>0, OwnPoll
<1>2. /\ UNCHANGED <<now, cli, failures, decided>> /\ row2.expires = row.expires
      /\ row2.st = "unborn" => row.st = "unborn"
  BY <1>0, PollFrame
<1>3. codes' = [codes EXCEPT ![d].last = p.at] /\ poll' = [poll EXCEPT ![h] = Onward(p)]
  BY <1>1 DEF Accepted
<1>4. row2.st = row.st /\ row2.interval = row.interval /\ row2.last = p.at
  BY <1>0, <1>3 DEF CodeRow
<1>5. p.since <= p.at /\ p.at <= now /\ now <= p.since + 1
  BY DEF PaceInv, PollsTimely
<1>6. Late(row, dec, now) \/ TurnOfPoll(Onward(p), row2, dec, now)
  BY <1>0, <1>1, <1>2, <1>4, <1>5, OnwardTurn
<1>7. CASE Late(row, dec, now)
  BY <1>0, <1>2, <1>7, SettledTurn
<1>8. CASE TurnOfPoll(Onward(p), row2, dec, now)
  <2>1. row2.st # "unborn" /\ Onward(p).code = p.code
    BY <1>0, <1>1, <1>4, OnwardTyped DEF TurnOfPoll, Live
  <2> QED
    BY <1>2, <1>3, <1>4, <1>8, <2>1, PollTurned
<1> QED
  BY <1>6, <1>7, <1>8

LEMMA PollTurn ==
    ASSUME IInv, IInv', PaceInv, TurnInv, NEW h \in Handlers, PollWorks(h)
    PROVE  TurnInv'
<1> DEFINE d == cli.code
           row == codes[d]
           row2 == codes'[d]
           dec == decided[d]
           p == poll[h]
           r == poll'[h]
<1>0. /\ cli \in CliState /\ d \in Codes /\ poll \in [Handlers -> PollRequest]
      /\ row \in CodeRow /\ dec \in Decision /\ now \in Nat /\ row2 \in CodeRow
      /\ codes \in [Codes -> CodeRow] /\ p \in PollRequest
  BY TurnTyped DEF IInv, TypeOK
<1>1. /\ UNCHANGED <<now, cli, failures, decided>> /\ row2.expires = row.expires
      /\ row2.st = "unborn" => row.st = "unborn"
      /\ p.pc # "idle"
  BY <1>0, PollFrame
<1>2. cli.pc # "start"
  BY <1>1 DEF PaceInv, CliPaces
<1>3. CASE failures = 0 => Late(row, dec, now)
  BY <1>1, <1>2, <1>3, SettledTurn
<1>4. CASE cli.pc = "end"
  <2>1. failures = 0 /\ cli.out = "expired" => Late(row2, dec, now)
    BY <1>1, <1>2 DEF TurnInv, Late
  <2>2. failures = 0 => row2.st # "unborn"
    BY <1>1, <1>2 DEF TurnInv
  <2> HIDE DEF d, row, row2, dec
  <2> QED
    BY <1>1, <1>4, <2>1, <2>2 DEF TurnInv, d, row2, dec
<1>5. ASSUME KeepsPace(cli, row, dec, now, poll), cli.pc \in {"sleep", "await"}, failures = 0
      PROVE  TurnInv'
  <2>0. p.code = d /\ TurnOfPoll(p, row, dec, now) /\ row.st # "unborn"
    BY <1>1, <1>2, <1>5, OwnPoll DEF TurnInv
  <2>1. ASSUME r.code = p.code, poll' = [poll EXCEPT ![h] = r], row2.interval = row.interval,
               TurnOfPoll(r, row2, dec, now)
        PROVE  TurnInv'
    BY <1>1, <1>5, <2>0, <2>1, PollTurned
  <2>2. p.pc \in {"lookup", "poll", "claim"} => Row(d) /\ row.last < p.since
    BY <2>0 DEF TurnOfPoll, Live, Row
  <2>3. ASSUME p.pc = "poll" PROVE PacedNow(h)
    <3>1. /\ row.interval = 1 /\ row.last < p.since /\ p.since <= p.at
          /\ row.last \in Nat /\ p.since \in Nat /\ p.at \in Nat
      BY <1>0, <1>5, <2>2, <2>3, CodeTyped, PollTyped
         DEF KeepsPace, PaceInv, PollsTimely, DefaultInterval
    <3>2. p.at >= row.last + row.interval
      BY SMTT(30), <3>1
    <3> QED
      BY <2>0, <3>2 DEF PacedNow, WellPaced
  <2>4. CASE Lookup(h)
    <3>1. /\ p.pc = "lookup" /\ codes' = codes
          /\ poll' = [poll EXCEPT ![h].pc = "poll", ![h].at = now, ![h].seen = row.st,
                                  ![h].expires = row.expires]
      BY <2>0, <2>2, <2>4 DEF Lookup
    <3>2. /\ poll' = [poll EXCEPT ![h] = r] /\ r.code = p.code /\ r.pc = "poll" /\ r.seen = row.st
          /\ r.expires = row.expires /\ r.since = p.since /\ r.out = p.out
      BY <1>0, <3>1 DEF PollRequest
    <3>3. Decided(dec) => row.st \in {"approved", "denied"}
      BY <1>0, <2>2, <3>1 DEF IInv, RowSound, Row, Decided
    <3>4. TurnOfPoll(r, row, dec, now)
      BY <2>0, <3>1, <3>2, <3>3 DEF TurnOfPoll
    <3> QED
      BY <2>1, <3>1, <3>2, <3>4
  <2>5. CASE PollNotFound(h) \/ SlowDown(h)
    BY <2>0, <2>2, <2>5 DEF PollNotFound, SlowDown, TurnOfPoll
  <2>6. CASE PgPollDeviceCode(h)
    BY <1>5, <2>3, <2>6, AcceptedTurn DEF PgPollDeviceCode, Stored
  <2>7. CASE SqlitePollDeviceCode(h)
    <3>1. /\ p.pc = "poll" /\ codes' = codes
          /\ poll' = [poll EXCEPT ![h].pc = "claim", ![h].last = row.last]
      BY <2>0, <2>3, <2>7 DEF SqlitePollDeviceCode, Stored
    <3>2. /\ poll' = [poll EXCEPT ![h] = r] /\ r.code = p.code /\ r.pc = "claim" /\ r.seen = p.seen
          /\ r.expires = p.expires /\ r.since = p.since /\ r.out = p.out /\ r.last = row.last
          /\ r.at = p.at
      BY <1>0, <3>1 DEF PollRequest
    <3>3. TurnOfPoll(r, row, dec, now)
      BY <2>0, <3>1, <3>2 DEF TurnOfPoll
    <3> QED
      BY <2>1, <3>1, <3>2, <3>3
  <2>8. CASE ClaimPoll(h)
    <3>1. p.pc = "claim" /\ p.last = row.last /\ Row(d)
      BY <2>0, <2>2, <2>8 DEF ClaimPoll, TurnOfPoll
    <3>2. Accepted(h, p.code)
      BY <2>0, <2>8, <3>1 DEF ClaimPoll
    <3> QED
      BY <1>5, <3>1, <3>2, AcceptedTurn
  <2>9. CASE ConsumeDeviceCode(h)
    <3>1. p.pc = "consume" /\ p.out \notin {"pending", "slow_down", "error", "expired"}
          /\ row.last <= now /\ (Decided(dec) => p.since <= dec.at + 2)
      BY <2>0, <2>9 DEF ConsumeDeviceCode, TurnOfPoll
    <3>2. row2.interval = row.interval /\ row2.last = row.last
      <4>1. codes' = codes \/ codes' = [codes EXCEPT ![d] = ConsumedRow(@)]
        BY <2>0, <2>9 DEF ConsumeDeviceCode
      <4> QED
        BY ZenonT(60), <1>0, <4>1 DEF ConsumedRow, CodeRow
    <3>3. \/ poll' = [poll EXCEPT ![h].pc = "answer"]
          \/ poll' = [poll EXCEPT ![h].pc = "answer", ![h].out = "invalid"]
          \/ poll' = [poll EXCEPT ![h].pc = "issue", ![h].who = row.who]
      BY <2>0, <2>9 DEF ConsumeDeviceCode, Reply
    <3>4. /\ poll' = [poll EXCEPT ![h] = r] /\ r.code = p.code /\ r.pc \in {"answer", "issue"}
          /\ r.out \in {p.out, "invalid"} /\ r.since = p.since
      BY SMTT(30), <1>0, <3>3 DEF PollRequest
    <3>5. TurnOfPoll(r, row2, dec, now)
      BY <3>1, <3>2, <3>4 DEF TurnOfPoll
    <3> QED
      BY <2>1, <3>2, <3>4, <3>5
  <2>10. CASE Issue(h)
    <3>1. /\ p.pc = "issue" /\ codes' = codes /\ row.last <= now
          /\ Decided(dec) => p.since <= dec.at + 2
      BY <2>0, <2>10 DEF Issue, TurnOfPoll
    <3>2. \/ poll' = [poll EXCEPT ![h].pc = "answer", ![h].out = "token"]
          \/ poll' = [poll EXCEPT ![h].pc = "answer", ![h].out = "denied"]
      BY <2>10 DEF Issue, Reply
    <3>3. /\ poll' = [poll EXCEPT ![h] = r] /\ r.code = p.code /\ r.pc = "answer"
          /\ r.out \in {"token", "denied"} /\ r.since = p.since
      BY SMTT(30), <1>0, <3>2 DEF PollRequest
    <3>4. TurnOfPoll(r, row2, dec, now)
      BY <3>1, <3>3 DEF TurnOfPoll
    <3> QED
      BY <2>1, <3>1, <3>3, <3>4
  <2> QED
    BY <2>4, <2>5, <2>6, <2>7, <2>8, <2>9, <2>10 DEF PollWorks
<1>6. cli.pc \in {"sleep", "await", "end"}
  BY <1>0, <1>2 DEF CliState
<1>7. failures = 0 /\ cli.pc \in {"sleep", "await"} =>
        Late(row, dec, now) \/ KeepsPace(cli, row, dec, now, poll)
  BY <1>2 DEF TurnInv
<1> HIDE DEF row, dec
<1> QED
  BY <1>3, <1>4, <1>5, <1>6, <1>7

\* Every step keeps the loop's pace, or a call has failed.
LEMMA TurnStep ==
    ASSUME IInv, IInv', PaceInv, TurnInv, [Next]_vars
    PROVE  TurnInv'
<1>1. ASSUME NEW d \in Codes, DeviceAuthorization(d) \/ Reap(d) PROVE TurnInv'
  BY <1>1, AuthorizationTurn, ReapTurn
<1>2. ASSUME NEW h \in Handlers, CliTurn(h) \/ PollWorks(h) \/ Answer(h) PROVE TurnInv'
  BY <1>2, BeginTurn, PollTurn, AnswerTurn
<1>3. ASSUME CliLosesAnswer \/ \E h \in Handlers : PollFails(h) PROVE TurnInv'
  <2>1. failures' = failures + 1 /\ failures \in Nat
    BY <1>3 DEF CliLosesAnswer, PollFails, IInv, TypeOK
  <2>2. cli'.pc # "start"
    <3>1. CASE CliLosesAnswer
      <4>1. cli \in CliState
        BY DEF IInv, TypeOK
      <4> QED
        BY <3>1, <4>1 DEF CliLosesAnswer, CliTransient, CliSleeps, CliState
    <3>2. ASSUME NEW h \in Handlers, PollFails(h) PROVE cli'.pc # "start"
      BY <3>2 DEF PollFails, PaceInv, CliPaces
    <3> QED
      BY <1>3, <3>1, <3>2
  <2>3. failures' # 0
    BY SMTT(30), <2>1
  <2> QED
    BY <2>2, <2>3 DEF TurnInv
<1>4. ASSUME NEW b \in Browsers, Pages(b) PROVE TurnInv'
  <2>1. UNCHANGED <<now, codes, poll, cli, failures, decided>>
    BY <1>4, ZenonT(30) DEF Pages, EnterPost, SSOCallback, SSODenied, Confirm, Decide, uiRest
  <2> QED
    BY <2>1, DecisionTurn
<1>5. ASSUME NEW q \in Requests, UIStep(q) PROVE TurnInv'
  <2>1. UNCHANGED <<now, poll, cli, failures>>
    BY <1>5, ZenonT(30) DEF UIStep, FlipRefused, PgFlip, SqliteFlip, SqliteUpdate, uiRest
  <2>2. CASE UNCHANGED <<codes, decided>>
    BY <2>1, <2>2, DecisionTurn
  <2>3. CASE Flipped(q) /\ Flippable(ui[q].code)
    <3>1. /\ ui[q].code \in Codes /\ codes \in [Codes -> CodeRow] /\ decided \in [Codes -> Decision]
          /\ ui[q].verdict \in {"approved", "denied"} /\ codes[ui[q].code].st = "pending"
      BY <2>3 DEF IInv, TypeOK, UIRequest, Flippable
    <3>2. PICK w : codes' = [codes EXCEPT ![ui[q].code].st = ui[q].verdict, ![ui[q].code].who = w]
      BY <2>3 DEF Flipped
    <3>3. ASSUME NEW c \in Codes
          PROVE  /\ codes'[c].expires = codes[c].expires /\ codes'[c].last = codes[c].last
                 /\ codes'[c].interval = codes[c].interval
                 /\ codes'[c].st = (IF c = ui[q].code THEN ui[q].verdict ELSE codes[c].st)
      BY <3>1, <3>2 DEF CodeRow
    <3>4. ASSUME NEW c \in Codes
          PROVE  decided'[c] = decided[c] \/ (~Decided(decided[c]) /\ decided'[c].at = now)
      <4>1. \/ decided' = decided
            \/ /\ decided[ui[q].code].verdict = "none"
               /\ \E w2 : decided' = [decided EXCEPT ![ui[q].code] =
                                       [verdict |-> ui[q].verdict, who |-> w2, shown |-> ui[q].shown,
                                        at |-> now]]
        BY <2>3 DEF Flipped
      <4>2. CASE decided' = decided
        BY <4>2
      <4>3. ASSUME NEW w2, decided[ui[q].code].verdict = "none",
                   decided' = [decided EXCEPT ![ui[q].code] =
                                 [verdict |-> ui[q].verdict, who |-> w2, shown |-> ui[q].shown,
                                  at |-> now]]
            PROVE  decided'[c] = decided[c] \/ (~Decided(decided[c]) /\ decided'[c].at = now)
        <5>1. CASE c = ui[q].code
          <6>1. decided'[c].at = now
            BY <3>1, <4>3, <5>1
          <6> QED
            BY <4>3, <5>1, <6>1 DEF Decided
        <5>2. CASE c # ui[q].code
          BY <3>1, <4>3, <5>2
        <5> QED
          BY <5>1, <5>2
      <4> QED
        BY <4>1, <4>2, <4>3
    <3>5. \A c \in Codes : (Live(codes[c]) => Live(codes'[c]))
                           /\ (codes'[c].st = "unborn" <=> codes[c].st = "unborn")
      BY <3>1, <3>3 DEF Live
    <3> QED
      BY <2>1, <3>3, <3>4, <3>5, DecisionTurn
  <2> QED
    BY <1>5, <2>2, <2>3 DEF UIStep, FlipRefused, PgFlip, SqliteFlip, SqliteUpdate, Flipped
<1>6. CASE Tick
  BY <1>6, TickTurn
<1>7. CASE UNCHANGED vars
  <2>1. UNCHANGED <<now, codes, poll, cli, failures, decided>>
    BY <1>7 DEF vars
  <2> QED
    BY <2>1, DecisionTurn
<1> QED
  BY <1>1, <1>2, <1>3, <1>4, <1>5, <1>6, <1>7, ZenonT(30) DEF Next, PollStep, PollWorks

\* While no call fails, a decision taken three intervals before the code
\* expires reaches the command line, whatever the handlers' stalls and the
\* store: its loop does not end with the code expired (pollLoop,
\* deviceCodeGrant).
THEOREM DecisionsArrive == Spec => []DecisionReachesDevice
<1>1. Init => TurnInv
  BY SMTT(30) DEF Init, TurnInv
<1>2. Init => PaceInv
  BY PaceInit
<1>3. IInv /\ IInv' /\ PaceInv /\ TurnInv /\ [Next]_vars => PaceInv' /\ TurnInv'
  BY PaceStep, TurnStep
<1>4. TurnInv => DecisionReachesDevice
  BY DEF TurnInv, DecisionReachesDevice, Late, Decided
<1> QED
  BY <1>1, <1>2, <1>3, <1>4, FlowSound, PTL DEF Spec
=============================================================================
