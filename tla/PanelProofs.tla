----------------------------- MODULE PanelProofs -----------------------------
(***************************************************************************)
(* Proofs about the omni-panel's sign-in (PanelAuth) and its device limit  *)
(* (Devices), for any number of requests, sessions, addresses, devices and *)
(* outages.                                                                *)
(***************************************************************************)
EXTENDS PanelAuth, Devices, FiniteSetTheorems, TLAPS

-----------------------------------------------------------------------------
(* PanelAuth: what the requests in flight and the sessions know.            *)

Reading == {"setupSession", "loginGuard", "loginVerify", "loginReset", "loginSession"}

(* A request that read or set a password carries the stored one unless it   *)
(* was overtaken; NoPw is never carried, so no session is opened without a  *)
(* password; and an accepted session that is not overtaken has the stored   *)
(* password unless a request is about to delete every session.              *)
SessionInv ==
  /\ \A r \in Req : proc[r].pc \in Reading /\ ~proc[r].raced => proc[r].pw = hash
  /\ \A r \in Req : proc[r].pc \in Reading \union {"setupWrite"} => proc[r].pw # NoPw
  /\ \A s \in Sess : Live(s) => sess[s].pw # NoPw
  /\ OnlyOvertakenSurvive

(* The requests of an address whose password is being verified.             *)
Verifying(ip) == {r \in Req : proc[r].pc = "loginVerify" /\ proc[r].ip = ip}
Others == Cardinality(Req) - 1
LeastOf(m, n) == IF m <= n THEN m ELSE n

(* The wrong passwords of a counter and the attempts still being verified   *)
(* are covered by its count, up to the limit, and the requests that were    *)
(* already past the Guard when it started.                                  *)
GuardInv ==
  \A ip \in Ip :
    /\ guard[UnbanCell(ip)].wrong = 0
    /\ guard[LoginCell(ip)].wrong + Cardinality(Verifying(ip))
         <= Others + LeastOf(guard[LoginCell(ip)].count, MaxAttempts)


ProcRec == [pc : PC, pw : Pw \union {NoPw}, ip : Ip, raced : BOOLEAN]
GuardRec == [count : Nat, over : BOOLEAN, strikes : 0 .. (MaxStrikes - 1), banned : BOOLEAN, wrong : Nat]

\* The values the slots are emptied to.
LEMMA IdleValues == IdleProc \in ProcRec /\ IdleProc.pc = "idle" /\ IdleProc.raced = FALSE /\ AnySubject \in Subject
<1>1. AnyIp \in Ip /\ AnySubject \in Subject
  BY ConstantsAssumption DEF AnyIp, AnySubject
<1> QED BY <1>1 DEF IdleProc, ProcRec, PC

\* The types, with the rows named.
LEMMA PanelTypes ==
  TypeOK <=> /\ hash \in Pw \union {NoPw} /\ sess \in [Sess -> SessRow] /\ guard \in [Cell -> GuardRec]
             /\ proc \in [Req -> ProcRec] /\ issued \in [Kind -> Nat]
BY DEF TypeOK, GuardRec, ProcRec

\* What a request does to its own slot.
LEMMA ProcTypes ==
  ASSUME TypeOK, NEW r \in Req
  PROVE  /\ \A l \in PC : Go(r, l) \/ Done(r) => proc' \in [Req -> ProcRec]
         /\ \A l \in PC : Overtake(r, l) => proc' \in [Req -> ProcRec]
         /\ \A l \in PC, p \in Pw \union {NoPw}, ip \in Ip :
              /\ [proc[r] EXCEPT !.pc = l, !.pw = p] \in ProcRec
              /\ [proc[r] EXCEPT !.pc = l, !.pw = p, !.ip = ip] \in ProcRec
         /\ \A v \in ProcRec : [proc EXCEPT ![r] = v] \in [Req -> ProcRec]
<1>1. proc \in [Req -> ProcRec] /\ proc[r] \in ProcRec
  BY PanelTypes
<1>2. \A l \in PC, v \in ProcRec : [v EXCEPT !.pc = l] \in ProcRec
  BY DEF ProcRec
<1>3. \A v \in ProcRec : [v EXCEPT !.raced = TRUE] \in ProcRec
  BY DEF ProcRec
<1>4. ASSUME NEW l \in PC, Go(r, l) \/ Done(r) PROVE proc' \in [Req -> ProcRec]
  BY <1>1, <1>2, <1>4, IdleValues DEF Go, Done
<1>5. ASSUME NEW l \in PC, Overtake(r, l) PROVE proc' \in [Req -> ProcRec]
  BY <1>1, <1>2, <1>3, <1>5 DEF Overtake
<1>6. ASSUME NEW l \in PC, NEW p \in Pw \union {NoPw}, NEW ip \in Ip
      PROVE  /\ [proc[r] EXCEPT !.pc = l, !.pw = p] \in ProcRec
             /\ [proc[r] EXCEPT !.pc = l, !.pw = p, !.ip = ip] \in ProcRec
  BY <1>1 DEF ProcRec
<1> QED BY <1>1, <1>4, <1>5, <1>6

\* Updates of a cell.
LEMMA CellUpdates ==
  ASSUME NEW v \in GuardRec
  PROVE  /\ \A n, w \in Nat, b \in BOOLEAN : [v EXCEPT !.count = n, !.over = b, !.wrong = w] \in GuardRec
         /\ \A w \in Nat : [v EXCEPT !.wrong = w] \in GuardRec
         /\ \A t \in 0 .. (MaxStrikes - 1) : [v EXCEPT !.strikes = t] \in GuardRec
         /\ \A t \in 0 .. (MaxStrikes - 1), b \in BOOLEAN : [v EXCEPT !.strikes = t, !.banned = b] \in GuardRec
<1>1. \A n, w \in Nat, b \in BOOLEAN : [v EXCEPT !.count = n, !.over = b, !.wrong = w] \in GuardRec
  BY DEF GuardRec
<1>2. \A w \in Nat : [v EXCEPT !.wrong = w] \in GuardRec
  BY DEF GuardRec
<1>3. \A t \in 0 .. (MaxStrikes - 1) : [v EXCEPT !.strikes = t] \in GuardRec
  BY DEF GuardRec
<1>4. \A t \in 0 .. (MaxStrikes - 1), b \in BOOLEAN : [v EXCEPT !.strikes = t, !.banned = b] \in GuardRec
  BY DEF GuardRec
<1> QED BY <1>1, <1>2, <1>3, <1>4

\* What a call of the Guard does to a cell.
LEMMA GuardTypes ==
  ASSUME TypeOK, NEW c \in Cell
  PROVE  /\ guard[c] \in GuardRec
         /\ Hit(c) => guard' \in [Cell -> GuardRec]
         /\ \A v \in GuardRec : [guard EXCEPT ![c] = v] \in [Cell -> GuardRec]
<1>1. guard \in [Cell -> GuardRec] /\ guard[c] \in GuardRec
  BY PanelTypes
<1>2. ASSUME Hit(c) PROVE guard' \in [Cell -> GuardRec]
  <2> DEFINE old == guard[c]
             strikes == old.strikes + 1
             nxt == [old EXCEPT !.count = Counted(c), !.over = FALSE, !.wrong = IF Counted(c) = 1 THEN 0 ELSE @]
             hit == [nxt EXCEPT !.strikes = 0]
             miss == [nxt EXCEPT !.strikes = IF strikes >= MaxStrikes THEN 0 ELSE strikes,
                                 !.banned = strikes >= MaxStrikes]
  <2>1. Counted(c) \in Nat
    BY <1>1 DEF Counted, GuardRec
  <2>2. nxt \in GuardRec /\ strikes \in 1 .. MaxStrikes
    <3>1. guard[c].wrong \in Nat /\ strikes \in 1 .. MaxStrikes
      BY <1>1 DEF GuardRec, MaxStrikes
    <3>2. (IF Counted(c) = 1 THEN 0 ELSE guard[c].wrong) \in Nat
      BY <3>1
    <3> QED BY <1>1, <2>1, <3>1, <3>2, CellUpdates
  <2>3. (strikes >= MaxStrikes) \in BOOLEAN /\ (IF strikes >= MaxStrikes THEN 0 ELSE strikes) \in 0 .. (MaxStrikes - 1)
    BY <2>2 DEF MaxStrikes
  <2>4. hit \in GuardRec /\ miss \in GuardRec
    <3> HIDE DEF nxt, strikes
    <3>1. 0 \in 0 .. (MaxStrikes - 1)
      BY DEF MaxStrikes
    <3> QED BY <2>2, <2>3, <3>1, CellUpdates
  <2>5. guard' = [guard EXCEPT ![c] = IF old.banned THEN old ELSE IF Allowed(c) THEN hit ELSE miss]
    BY <1>2 DEF Hit
  <2> HIDE DEF old, hit, miss
  <2>6. old \in GuardRec
    BY <1>1 DEF old
  <2> QED BY <1>1, <2>4, <2>5, <2>6
<1> QED BY <1>1, <1>2

\* Every request, expiry and purge keeps the types of PanelAuth.
LEMMA PanelTypeStep == TypeOK /\ [Next]_vars => TypeOK'
<1> SUFFICES ASSUME TypeOK, [Next]_vars PROVE TypeOK'
  OBVIOUS
<1>a. /\ hash \in Pw \union {NoPw} /\ sess \in [Sess -> SessRow] /\ guard \in [Cell -> GuardRec]
      /\ proc \in [Req -> ProcRec] /\ issued \in [Kind -> Nat]
  BY PanelTypes
<1>b. ASSUME hash' \in Pw \union {NoPw}, sess' \in [Sess -> SessRow], guard' \in [Cell -> GuardRec],
             proc' \in [Req -> ProcRec], issued' \in [Kind -> Nat]
      PROVE  TypeOK'
  BY <1>b DEF TypeOK, GuardRec, ProcRec
<1>c. \A r \in Req, k \in Kind : Begin(r, k) => issued' \in [Kind -> Nat]
  BY <1>a DEF Begin
<1>d. \A S \in SUBSET Sess : Delete(S) => sess' \in [Sess -> SessRow]
  BY <1>a DEF Delete, SessRow
<1>e. \A ip \in Ip : LoginCell(ip) \in Cell /\ UnbanCell(ip) \in Cell
  BY DEF LoginCell, UnbanCell, Cell
<1>f. \A r \in Req : proc[r].ip \in Ip /\ proc[r].pw \in Pw \union {NoPw} /\ proc[r].raced \in BOOLEAN
  BY <1>a DEF ProcRec
<1>1. ASSUME NEW r \in Req, SetupRead(r) \/ ChangeCheck(r) \/ (\E k \in Kind : ForceCheck(r, k)) PROVE TypeOK'
  <2>1. UNCHANGED <<hash, sess, guard>> /\ \E k \in Kind : Begin(r, k)
    BY <1>1 DEF SetupRead, ChangeCheck, ForceCheck, Kind
  <2>2. PICK l \in PC, p \in Pw \union {NoPw} : proc' = [proc EXCEPT ![r] = [proc[r] EXCEPT !.pc = l, !.pw = p]]
    BY <1>1 DEF SetupRead, ChangeCheck, ForceCheck, PC
  <2>3. proc' \in [Req -> ProcRec]
    BY <1>f, <2>2, ProcTypes
  <2> QED BY <1>a, <1>b, <1>c, <2>1, <2>3
<1>2. ASSUME NEW r \in Req, SetupWrite(r) PROVE TypeOK'
  <2>1. proc' \in [Req -> ProcRec]
    BY <1>2, ProcTypes DEF SetupWrite, PC
  <2>2. sess' \in [Sess -> SessRow]
    BY <1>a, <1>2 DEF SetupWrite, SessRow
  <2> QED BY <1>a, <1>b, <1>f, <1>2, <2>1, <2>2 DEF SetupWrite
<1>3. ASSUME NEW r \in Req, SetupSession(r) \/ LoginSession(r) PROVE TypeOK'
  <2>1. PICK sub \in Subject : CreateSession(r, sub)
    BY <1>3 DEF SetupSession, LoginSession
  <2>2. proc' \in [Req -> ProcRec]
    BY <2>1, ProcTypes DEF CreateSession, PC
  <2>3. [st |-> "live", sub |-> sub, pw |-> proc[r].pw, raced |-> proc[r].raced] \in SessRow
    BY <1>f DEF SessRow
  <2>4. sess' \in [Sess -> SessRow] /\ UNCHANGED <<hash, guard, issued>>
    BY <1>a, <2>1, <2>3 DEF CreateSession
  <2> QED BY <1>a, <1>b, <2>2, <2>4
<1>4. ASSUME NEW r \in Req, LoginRead(r) PROVE TypeOK'
  <2>1. UNCHANGED <<hash, sess, guard>> /\ Begin(r, "login") /\ "login" \in Kind
    BY <1>4 DEF LoginRead, Kind
  <2>2. PICK ip \in Ip : proc' = [proc EXCEPT ![r] = [proc[r] EXCEPT !.pc = "loginGuard", !.pw = hash, !.ip = ip]]
    BY <1>4 DEF LoginRead
  <2>3. proc' \in [Req -> ProcRec]
    BY <1>a, <2>2, ProcTypes DEF PC
  <2> QED BY <1>a, <1>b, <1>c, <2>1, <2>3
<1>5. ASSUME NEW r \in Req, LoginGuard(r) PROVE TypeOK'
  <2>1. guard' \in [Cell -> GuardRec]
    BY <1>e, <1>f, <1>5, GuardTypes DEF LoginGuard
  <2>2. proc' \in [Req -> ProcRec]
    BY <1>5, ProcTypes DEF LoginGuard, PC
  <2> QED BY <1>a, <1>b, <1>5, <2>1, <2>2 DEF LoginGuard
<1>6. ASSUME NEW r \in Req, LoginVerify(r) \/ LoginReset(r) PROVE TypeOK'
  <2> DEFINE c == LoginCell(proc[r].ip)
  <2>1. c \in Cell
    BY <1>e, <1>f
  <2>2. proc' \in [Req -> ProcRec]
    BY <1>6, ProcTypes DEF LoginVerify, LoginReset, PC
  <2>3. /\ [guard[c] EXCEPT !.wrong = @ + 1] \in GuardRec
        /\ [guard[c] EXCEPT !.count = 0, !.over = FALSE, !.wrong = 0] \in GuardRec
    <3>1. guard[c] \in GuardRec
      BY <2>1, GuardTypes
    <3>2. guard[c].wrong + 1 \in Nat
      BY <3>1 DEF GuardRec
    <3> QED BY <3>1, <3>2, CellUpdates
  <2>4. guard' \in [Cell -> GuardRec]
    BY <1>a, <1>6, <2>1, <2>3 DEF LoginVerify, LoginReset
  <2> QED BY <1>a, <1>b, <1>6, <2>2, <2>4 DEF LoginVerify, LoginReset
<1>7. ASSUME NEW r \in Req, SetHash(r) PROVE TypeOK'
  <2>1. proc' \in [Req -> ProcRec]
    BY <1>7, ProcTypes DEF SetHash, PC
  <2> QED BY <1>a, <1>b, <1>f, <1>7, <2>1 DEF SetHash
<1>8. ASSUME NEW r \in Req, Wipe(r) PROVE TypeOK'
  <2>1. proc' \in [Req -> ProcRec]
    BY <1>8, ProcTypes DEF Wipe, PC
  <2> QED BY <1>a, <1>b, <1>d, <1>8, <2>1 DEF Wipe
<1>9. ASSUME NEW r \in Req, Logout(r) \/ RevokeSession(r) PROVE TypeOK'
  <2>1. issued' \in [Kind -> Nat] /\ UNCHANGED <<hash, guard, proc>>
    BY <1>9, <1>c DEF Logout, RevokeSession, Kind
  <2>2. \E S \in SUBSET Sess : Delete(S)
    BY <1>9 DEF Logout, RevokeSession, Expired
  <2> QED BY <1>a, <1>b, <1>d, <2>1, <2>2
<1>10. ASSUME NEW r \in Req, NEW ip \in Ip, Unban(r, ip) PROVE TypeOK'
  <2> DEFINE c == UnbanCell(ip)
  <2>1. c \in Cell /\ "unban" \in Kind
    BY <1>e DEF Kind
  <2>2. [guard[c] EXCEPT !.count = 0, !.over = FALSE, !.banned = FALSE] \in GuardRec
    BY <2>1, GuardTypes DEF GuardRec
  <2>3. guard' \in [Cell -> GuardRec]
    BY <1>a, <1>10, <2>1, <2>2 DEF Unban
  <2> QED BY <1>a, <1>b, <1>c, <1>10, <2>1, <2>3 DEF Unban
<1>11. ASSUME NEW c \in Cell, WindowEnds(c) \/ BanEnds(c) PROVE TypeOK'
  <2>1. [guard[c] EXCEPT !.over = TRUE] \in GuardRec /\ [guard[c] EXCEPT !.banned = FALSE] \in GuardRec
    BY GuardTypes DEF GuardRec
  <2>2. guard' \in [Cell -> GuardRec]
    BY <1>a, <1>11, <2>1 DEF WindowEnds, BanEnds
  <2> QED BY <1>a, <1>b, <1>11, <2>2 DEF WindowEnds, BanEnds
<1>12. ASSUME NEW t \in Sess, Expire(t) PROVE TypeOK'
  <2>1. sess' \in [Sess -> SessRow]
    BY <1>a, <1>12 DEF Expire, SessRow
  <2> QED BY <1>a, <1>b, <1>12, <2>1 DEF Expire
<1>13. CASE Purge
  <2>1. Expired \in SUBSET Sess
    BY DEF Expired
  <2> QED BY <1>a, <1>b, <1>d, <1>13, <2>1 DEF Purge
<1>14. CASE UNCHANGED vars
  BY <1>a, <1>b, <1>14 DEF vars
<1> QED BY <1>1, <1>2, <1>3, <1>4, <1>5, <1>6, <1>7, <1>8, <1>9, <1>10, <1>11, <1>12, <1>13, <1>14
        DEF Next, Step

\* Every variable of PanelAuth keeps its type; strikes never reach the ban's number.
THEOREM PanelTypeCorrect == Spec => []TypeOK
<1>1. Init => TypeOK
  <2> SUFFICES ASSUME Init PROVE TypeOK
    OBVIOUS
  <2>1. FreshCell \in GuardRec
    BY DEF FreshCell, GuardRec, MaxStrikes
  <2>2. [st |-> "none", sub |-> AnySubject, pw |-> NoPw, raced |-> FALSE] \in SessRow
    BY IdleValues DEF SessRow
  <2> QED BY <2>1, <2>2, IdleValues, PanelTypes DEF Init
<1> QED BY <1>1, PanelTypeStep, PTL DEF Spec

\* A request that moves to a step where it knows no password, or goes on with
\* the one it has, and leaves password and sessions alone, keeps the invariant.
LEMMA SessionQuiet ==
  ASSUME TypeOK, SessionInv, NEW r \in Req, NEW v \in ProcRec, proc' = [proc EXCEPT ![r] = v],
         hash' = hash, sess' = sess, v.pc # "wipe", proc[r].pc # "wipe",
         v.pc \in Reading /\ ~v.raced => v.pw = hash,
         v.pc \in Reading \union {"setupWrite"} => v.pw # NoPw
  PROVE  SessionInv'
<1>1. \A q \in Req : proc'[q] = IF q = r THEN v ELSE proc[q]
  BY PanelTypes
<1>2. (\A q \in Req : ~At(q, "wipe"))' => (\A q \in Req : ~At(q, "wipe"))
  BY <1>1 DEF At
<1> QED BY <1>1, <1>2 DEF SessionInv, OnlyOvertakenSurvive, Live

\* Deleting sessions, letting them expire, keeps the invariant.
LEMMA SessionFewer ==
  ASSUME TypeOK, SessionInv, proc' = proc, hash' = hash,
         \A s \in Sess : sess'[s].st = "live" => sess'[s] = sess[s]
  PROVE  SessionInv'
BY DEF SessionInv, OnlyOvertakenSurvive, Live, At

\* Every step of a request keeps the invariant.
LEMMA SessionStep == TypeOK /\ SessionInv /\ [Next]_vars => SessionInv'
<1> SUFFICES ASSUME TypeOK, SessionInv, [Next]_vars PROVE SessionInv'
  OBVIOUS
<1>a. /\ hash \in Pw \union {NoPw} /\ sess \in [Sess -> SessRow] /\ proc \in [Req -> ProcRec]
      /\ \A q \in Req : proc[q] \in ProcRec
  BY PanelTypes
<1>b. NoPw \notin Pw
  BY ConstantsAssumption
<1>c. ASSUME NEW S, Delete(S) PROVE \A s \in Sess : sess'[s].st = "live" => sess'[s] = sess[s]
  BY <1>a, <1>c DEF Delete, SessRow
<1>1. ASSUME NEW r \in Req, SetupRead(r) PROVE SessionInv'
  <2>1. PICK p \in Pw : proc' = [proc EXCEPT ![r] = [proc[r] EXCEPT !.pc = "setupWrite", !.pw = p]]
    BY <1>1 DEF SetupRead
  <2> DEFINE v == [proc[r] EXCEPT !.pc = "setupWrite", !.pw = p]
  <2>2. v \in ProcRec /\ v.pc = "setupWrite" /\ v.pw = p
    BY <1>a DEF ProcRec, PC
  <2>3. proc' = [proc EXCEPT ![r] = v] /\ hash' = hash /\ sess' = sess /\ proc[r].pc # "wipe"
    BY <1>1, <2>1 DEF SetupRead, Begin, At
  <2> HIDE DEF v
  <2> QED BY <1>b, <2>2, <2>3, SessionQuiet DEF Reading
<1>2. ASSUME NEW r \in Req, ChangeCheck(r) \/ (\E k \in Kind : ForceCheck(r, k)) PROVE SessionInv'
  <2>1. PICK p \in Pw \union {NoPw} : proc' = [proc EXCEPT ![r] = [proc[r] EXCEPT !.pc = "setHash", !.pw = p]]
    BY <1>2 DEF ChangeCheck, ForceCheck
  <2> DEFINE v == [proc[r] EXCEPT !.pc = "setHash", !.pw = p]
  <2>2. v \in ProcRec /\ v.pc = "setHash"
    BY <1>a DEF ProcRec, PC
  <2>3. proc' = [proc EXCEPT ![r] = v] /\ hash' = hash /\ sess' = sess /\ proc[r].pc # "wipe"
    BY <1>2, <2>1 DEF ChangeCheck, ForceCheck, Begin, At
  <2> HIDE DEF v
  <2> QED BY <2>2, <2>3, SessionQuiet DEF Reading
<1>3. ASSUME NEW r \in Req, LoginRead(r) PROVE SessionInv'
  <2>1. PICK ip \in Ip : proc' = [proc EXCEPT ![r] = [proc[r] EXCEPT !.pc = "loginGuard", !.pw = hash, !.ip = ip]]
    BY <1>3 DEF LoginRead
  <2> DEFINE v == [proc[r] EXCEPT !.pc = "loginGuard", !.pw = hash, !.ip = ip]
  <2>2. v \in ProcRec /\ v.pc = "loginGuard" /\ v.pw = hash
    BY <1>a DEF ProcRec, PC
  <2>3. /\ proc' = [proc EXCEPT ![r] = v] /\ hash' = hash /\ sess' = sess /\ proc[r].pc # "wipe"
        /\ hash # NoPw
    BY <1>3, <2>1 DEF LoginRead, Begin, At
  <2> HIDE DEF v
  <2> QED BY <2>2, <2>3, SessionQuiet DEF Reading
<1>4. ASSUME NEW r \in Req, LoginGuard(r) \/ LoginVerify(r) \/ LoginReset(r) PROVE SessionInv'
  <2>1. proc[r].pc \in Reading /\ proc[r].pc # "wipe" /\ hash' = hash /\ sess' = sess
    BY <1>4 DEF LoginGuard, LoginVerify, LoginReset, At, Reading
  <2>2. CASE Done(r)
    BY <2>1, <2>2, IdleValues, SessionQuiet DEF Done, Reading
  <2>3. ASSUME NEW l \in Reading, Go(r, l) PROVE SessionInv'
    <3> DEFINE v == [proc[r] EXCEPT !.pc = l]
    <3>1. v \in ProcRec /\ v.pc = l /\ v.pw = proc[r].pw /\ v.raced = proc[r].raced /\ l # "wipe"
      BY <1>a DEF ProcRec, PC, Reading
    <3>2. proc' = [proc EXCEPT ![r] = v]
      BY <2>3 DEF Go
    <3> HIDE DEF v
    <3> QED BY <2>1, <3>1, <3>2, SessionQuiet DEF SessionInv
  <2> QED BY <1>4, <2>2, <2>3 DEF LoginGuard, LoginVerify, LoginReset, Reading
<1>5. ASSUME NEW r \in Req, SetupSession(r) \/ LoginSession(r) PROVE SessionInv'
  <2>1. PICK sub \in Subject : CreateSession(r, sub)
    BY <1>5 DEF SetupSession, LoginSession
  <2>2. proc[r].pc \in Reading /\ proc[r].pc # "wipe"
    BY <1>5 DEF SetupSession, LoginSession, At, Reading
  <2>3. PICK s \in Sess : sess' = [sess EXCEPT ![s] = [st |-> "live", sub |-> sub, pw |-> proc[r].pw,
                                                       raced |-> proc[r].raced]]
    BY <2>1 DEF CreateSession
  <2>4. \A t \in Sess : \/ sess'[t] = sess[t]
                        \/ sess'[t].pw = proc[r].pw /\ sess'[t].raced = proc[r].raced
    BY <1>a, <2>3
  <2>5. /\ \A q \in Req : proc'[q] = IF q = r THEN IdleProc ELSE proc[q]
        /\ hash' = hash
    BY <1>a, <2>1 DEF CreateSession, Done
  <2>6. (\A q \in Req : ~At(q, "wipe"))' => (\A q \in Req : ~At(q, "wipe"))
    BY <2>2, <2>5 DEF At
  <2> QED BY <2>2, <2>4, <2>5, <2>6, IdleValues DEF SessionInv, OnlyOvertakenSurvive, Live, Reading
<1>6. ASSUME NEW r \in Req, SetupWrite(r) PROVE SessionInv'
  <2>1. proc[r].pc = "setupWrite" /\ hash' = proc[r].pw /\ proc[r].pw # NoPw
    BY <1>6 DEF SetupWrite, At, SessionInv
  <2>2. /\ proc'[r].pc = "setupSession" /\ proc'[r].pw = proc[r].pw
        /\ \A q \in Req \ {r} : /\ proc'[q].pc = proc[q].pc /\ proc'[q].pw = proc[q].pw
                                /\ proc[q].pc \in Reading => proc'[q].raced
    BY <1>a, <1>6 DEF SetupWrite, Overtake, Overtaken, Reading, ProcRec
  <2>3. \A s \in Sess : /\ sess'[s].st = sess[s].st /\ sess'[s].pw = sess[s].pw
                        /\ sess[s].raced => sess'[s].raced
                        /\ Live(s) /\ hash # NoPw => sess'[s].raced
    BY <1>a, <1>6 DEF SetupWrite, SessRow, Live
  <2>4. (\A q \in Req : ~At(q, "wipe"))' => (\A q \in Req : ~At(q, "wipe"))
    BY <2>1, <2>2 DEF At
  <2>5. OnlyOvertakenSurvive'
    BY <2>3, <2>4 DEF SessionInv, OnlyOvertakenSurvive, Live
  <2> QED BY <2>1, <2>2, <2>3, <2>5 DEF SessionInv, Live, Reading
<1>7. ASSUME NEW r \in Req, SetHash(r) PROVE SessionInv'
  <2>1. proc'[r].pc = "wipe" /\ \A q \in Req \ {r} : /\ proc'[q].pc = proc[q].pc /\ proc'[q].pw = proc[q].pw
                                                     /\ proc[q].pc \in Reading => proc'[q].raced
    BY <1>a, <1>7 DEF SetHash, Overtake, Overtaken, Reading, ProcRec
  <2>2. sess' = sess
    BY <1>7 DEF SetHash
  <2> QED BY <2>1, <2>2 DEF SessionInv, OnlyOvertakenSurvive, Live, At, Reading
<1>8. ASSUME NEW r \in Req, Wipe(r) PROVE SessionInv'
  <2>1. \A s \in Sess : sess'[s].st # "live"
    BY <1>a, <1>8 DEF Wipe, Delete, SessRow
  <2>2. hash' = hash /\ \A q \in Req : proc'[q] = IF q = r THEN IdleProc ELSE proc[q]
    BY <1>a, <1>8 DEF Wipe, Done
  <2> QED BY <2>1, <2>2, IdleValues DEF SessionInv, OnlyOvertakenSurvive, Live, Reading
<1>9. ASSUME NEW r \in Req, Logout(r) \/ RevokeSession(r) PROVE SessionInv'
  <2>1. proc' = proc /\ hash' = hash /\ \E S : Delete(S)
    BY <1>9 DEF Logout, RevokeSession
  <2> QED BY <1>c, <2>1, SessionFewer
<1>10. ASSUME NEW t \in Sess, Expire(t) PROVE SessionInv'
  <2>1. \A s \in Sess : sess'[s].st = "live" => sess'[s] = sess[s]
    BY <1>a, <1>10 DEF Expire, SessRow
  <2> QED BY <1>10, <2>1, SessionFewer DEF Expire
<1>11. CASE Purge
  BY <1>c, <1>11, SessionFewer DEF Purge
<1>12. CASE (\E r \in Req, ip \in Ip : Unban(r, ip)) \/ (\E c \in Cell : WindowEnds(c) \/ BanEnds(c)) \/ UNCHANGED vars
  <2>1. proc' = proc /\ hash' = hash /\ sess' = sess
    BY <1>12 DEF Unban, WindowEnds, BanEnds, vars
  <2> QED BY <2>1, SessionFewer
<1> QED BY <1>1, <1>2, <1>3, <1>4, <1>5, <1>6, <1>7, <1>8, <1>9, <1>10, <1>11, <1>12 DEF Next, Step

\* A change of the password by whatever way leaves no session of an older one
\* behind but those whose login it overtook: for any number of requests.
THEOREM SessionsFollowPassword == Spec => []OnlyOvertakenSurvive
<1>1. Init => SessionInv
  <2> SUFFICES ASSUME Init PROVE SessionInv
    OBVIOUS
  <2>1. (\A r \in Req : proc[r].pc = "idle") /\ (\A s \in Sess : sess[s].st = "none")
    BY IdleValues DEF Init
  <2> QED BY <2>1 DEF SessionInv, OnlyOvertakenSurvive, Live, Reading
<1>2. SessionInv => OnlyOvertakenSurvive
  BY DEF SessionInv
<1> QED BY <1>1, <1>2, SessionStep, PanelTypeCorrect, PTL DEF Spec

-----------------------------------------------------------------------------
(* PanelAuth: the attempts of an address.                                   *)

\* The cells are told apart by object and address.
LEMMA Cells ==
  \A i, j \in Ip : /\ LoginCell(i) \in Cell /\ UnbanCell(i) \in Cell /\ LoginCell(i) # UnbanCell(j)
                   /\ LoginCell(i) = LoginCell(j) => i = j
BY DEF LoginCell, UnbanCell, Cell

\* The requests being verified are finitely many, and not all requests when
\* one of them is elsewhere.
LEMMA VerifyingFinite ==
  ASSUME NEW ip \in Ip
  PROVE  /\ IsFiniteSet(Verifying(ip)) /\ Cardinality(Verifying(ip)) \in Nat
         /\ Others \in Nat
         /\ \A r \in Req : r \notin Verifying(ip) => Cardinality(Verifying(ip)) <= Others
<1>1. IsFiniteSet(Req) /\ Req # {} /\ Verifying(ip) \subseteq Req
  BY ConstantsAssumption DEF Verifying
<1>2. IsFiniteSet(Verifying(ip)) /\ Cardinality(Verifying(ip)) \in Nat /\ Cardinality(Req) \in Nat
  BY <1>1, FS_Subset, FS_CardinalityType
<1>3. ASSUME NEW r \in Req PROVE IsFiniteSet(Req \ {r}) /\ Cardinality(Req \ {r}) = Others
  BY <1>1, FS_RemoveElement DEF Others
<1>4. Others \in Nat
  BY <1>1, <1>3, FS_CardinalityType
<1>5. ASSUME NEW r \in Req, r \notin Verifying(ip) PROVE Cardinality(Verifying(ip)) <= Others
  <2>1. Verifying(ip) \subseteq Req \ {r}
    BY <1>1, <1>5
  <2>2. IsFiniteSet(Req \ {r}) /\ Cardinality(Req \ {r}) = Others
    BY <1>3
  <2> QED BY <2>1, <2>2, FS_Subset
<1> QED BY <1>2, <1>4, <1>5

\* A request that goes anywhere but to the verification leaves the set.
LEMMA VerifyingLess ==
  ASSUME NEW r \in Req, NEW ip \in Ip, \A q \in Req \ {r} : proc'[q].pc = proc[q].pc /\ proc'[q].ip = proc[q].ip,
         proc'[r].pc # "loginVerify"
  PROVE  /\ Verifying(ip)' = Verifying(ip) \ {r} /\ r \notin Verifying(ip)'
         /\ Cardinality(Verifying(ip)') \in Nat
         /\ Cardinality(Verifying(ip)') = IF r \in Verifying(ip) THEN Cardinality(Verifying(ip)) - 1
                                          ELSE Cardinality(Verifying(ip))
<1>1. Verifying(ip)' = Verifying(ip) \ {r} /\ r \notin Verifying(ip)'
  BY DEF Verifying
<1>2. IsFiniteSet(Verifying(ip)) /\ IsFiniteSet(Verifying(ip) \ {r})
  BY VerifyingFinite, FS_RemoveElement
<1> QED BY <1>1, <1>2, FS_RemoveElement, FS_CardinalityType

\* Such a request keeps the invariant when the Guard is not called.
LEMMA GuardQuiet ==
  ASSUME TypeOK, GuardInv, NEW r \in Req, guard' = guard, proc'[r].pc # "loginVerify",
         \A q \in Req \ {r} : proc'[q].pc = proc[q].pc /\ proc'[q].ip = proc[q].ip
  PROVE  GuardInv'
<1> SUFFICES ASSUME NEW ip \in Ip
             PROVE  /\ guard[UnbanCell(ip)].wrong = 0
                    /\ guard[LoginCell(ip)].wrong + Cardinality(Verifying(ip)')
                         <= Others + LeastOf(guard[LoginCell(ip)].count, MaxAttempts)
  BY DEF GuardInv, Others
<1>1. Cardinality(Verifying(ip)') <= Cardinality(Verifying(ip)) /\ Cardinality(Verifying(ip)') \in Nat
      /\ Cardinality(Verifying(ip)) \in Nat
  BY VerifyingLess, VerifyingFinite
<1>2. guard[LoginCell(ip)].wrong \in Nat /\ Others + LeastOf(guard[LoginCell(ip)].count, MaxAttempts) \in Int
  BY PanelTypes, Cells, VerifyingFinite, ConstantsAssumption DEF GuardRec, LeastOf
<1> QED BY <1>1, <1>2 DEF GuardInv

\* The hit of a login attempt.
LEMMA GuardHit == ASSUME TypeOK, GuardInv, NEW r \in Req, LoginGuard(r) PROVE GuardInv'
<1>0. PICK ip \in Ip : ip = proc[r].ip
  BY PanelTypes DEF ProcRec
<1> DEFINE c == LoginCell(ip)
<1>1. /\ c \in Cell /\ guard[c] \in GuardRec /\ proc[r].pc = "loginGuard" /\ Hit(c)
      /\ IF Allowed(c) THEN Go(r, "loginVerify") ELSE Done(r)
  BY <1>0, Cells, GuardTypes DEF LoginGuard, At
<1>2. \A d \in Cell : d # c => guard'[d] = guard[d]
  BY <1>1, PanelTypes DEF Hit
<1>3. \A q \in Req \ {r} : proc'[q] = proc[q]
  BY <1>1, PanelTypes DEF Go, Done
<1>4. Counted(c) \in Nat \ {0} /\ guard[c].wrong \in Nat /\ guard[c].count \in Nat /\ MaxAttempts \in Nat \ {0}
  BY <1>1, ConstantsAssumption DEF Counted, GuardRec
<1>5. CASE Allowed(c)
  <2>1. proc'[r].pc = "loginVerify" /\ proc'[r].ip = ip
    BY <1>0, <1>1, <1>5, PanelTypes DEF Go, ProcRec
  <2>2. ~guard[c].banned /\ Counted(c) <= MaxAttempts
    BY <1>5 DEF Allowed
  <2>3. guard'[c].count = Counted(c) /\ guard'[c].wrong = IF Counted(c) = 1 THEN 0 ELSE guard[c].wrong
    BY <1>1, <1>5, <2>2, PanelTypes DEF Hit, GuardRec
  <2>4. Verifying(ip)' = Verifying(ip) \union {r} /\ r \notin Verifying(ip)
    BY <1>1, <1>3, <2>1 DEF Verifying
  <2>5. Cardinality(Verifying(ip)') = Cardinality(Verifying(ip)) + 1
    BY <2>4, VerifyingFinite, FS_AddElement
  <2>6. Cardinality(Verifying(ip)) \in Nat /\ Cardinality(Verifying(ip)) <= Others /\ Others \in Nat
    BY <2>4, VerifyingFinite
  <2>7. guard'[c].wrong + Cardinality(Verifying(ip)') <= Others + LeastOf(guard'[c].count, MaxAttempts)
    <3>1. CASE Counted(c) = 1
      BY <1>4, <2>2, <2>3, <2>5, <2>6, <3>1 DEF LeastOf
    <3>2. CASE Counted(c) # 1
      <4>1. Counted(c) = guard[c].count + 1
        BY <3>2 DEF Counted
      <4>2. guard[c].wrong + Cardinality(Verifying(ip)) <= Others + LeastOf(guard[c].count, MaxAttempts)
        BY DEF GuardInv
      <4> QED BY <1>4, <2>2, <2>3, <2>5, <2>6, <3>2, <4>1, <4>2 DEF LeastOf
    <3> QED BY <3>1, <3>2
  <2>8. ASSUME NEW j \in Ip, j # ip PROVE Verifying(j)' = Verifying(j) /\ guard'[LoginCell(j)] = guard[LoginCell(j)]
    BY <1>1, <1>2, <1>3, <2>1, <2>8, Cells DEF Verifying
  <2>9. \A j \in Ip : guard'[UnbanCell(j)] = guard[UnbanCell(j)]
    BY <1>2, Cells
  <2> QED BY <2>7, <2>8, <2>9 DEF GuardInv, Others
<1>6. CASE ~Allowed(c)
  <2>1. proc'[r].pc = "idle"
    BY <1>1, <1>6, PanelTypes, IdleValues DEF Done
  <2>2. \/ guard'[c] = guard[c]
        \/ /\ ~guard[c].banned /\ guard'[c].count = Counted(c)
           /\ guard'[c].wrong = IF Counted(c) = 1 THEN 0 ELSE guard[c].wrong
    BY <1>1, <1>6, PanelTypes DEF Hit, GuardRec
  <2>3. Cardinality(Verifying(ip)') <= Cardinality(Verifying(ip)) /\ Cardinality(Verifying(ip)') \in Nat
        /\ Cardinality(Verifying(ip)) \in Nat /\ Others \in Nat
    BY <1>3, <2>1, VerifyingLess, VerifyingFinite
  <2>4. guard'[c].wrong + Cardinality(Verifying(ip)') <= Others + LeastOf(guard'[c].count, MaxAttempts)
    <3>1. guard[c].wrong + Cardinality(Verifying(ip)) <= Others + LeastOf(guard[c].count, MaxAttempts)
      BY DEF GuardInv
    <3>2. CASE guard'[c] = guard[c]
      BY <1>4, <2>3, <3>1, <3>2 DEF LeastOf
    <3>3. CASE guard'[c] # guard[c]
      <4>1. Counted(c) > MaxAttempts /\ guard'[c].count = Counted(c) /\ Counted(c) = guard[c].count + 1
            /\ guard'[c].wrong = guard[c].wrong
        BY <1>4, <1>6, <2>2, <3>3 DEF Allowed, Counted
      <4> QED BY <1>4, <2>3, <3>1, <4>1 DEF LeastOf
    <3> QED BY <3>2, <3>3
  <2>5. ASSUME NEW j \in Ip, j # ip PROVE Verifying(j)' = Verifying(j) /\ guard'[LoginCell(j)] = guard[LoginCell(j)]
    BY <1>1, <1>2, <1>3, <2>1, <2>5, Cells DEF Verifying
  <2>6. \A j \in Ip : guard'[UnbanCell(j)] = guard[UnbanCell(j)]
    BY <1>2, Cells
  <2> QED BY <2>4, <2>5, <2>6 DEF GuardInv, Others
<1> QED BY <1>5, <1>6

\* The end of a verification, good or bad, and the reset after a good one.
LEMMA GuardVerified == ASSUME TypeOK, GuardInv, NEW r \in Req, LoginVerify(r) \/ LoginReset(r) PROVE GuardInv'
<1>0. PICK ip \in Ip : ip = proc[r].ip
  BY PanelTypes DEF ProcRec
<1> DEFINE c == LoginCell(ip)
<1>1. c \in Cell /\ guard[c] \in GuardRec
  BY Cells, GuardTypes
<1>2. /\ \A q \in Req \ {r} : proc'[q] = proc[q]
      /\ proc'[r].pc # "loginVerify"
  BY PanelTypes, IdleValues DEF LoginVerify, LoginReset, Go, Done, ProcRec
<1>3. CASE guard' = guard
  BY <1>2, <1>3, GuardQuiet
<1>4. CASE guard' # guard
  <2>1. \A d \in Cell : d # c => guard'[d] = guard[d]
    BY <1>0, <1>4, PanelTypes DEF LoginVerify, LoginReset
  <2>2. \/ /\ r \in Verifying(ip) /\ guard'[c].wrong = guard[c].wrong + 1 /\ guard'[c].count = guard[c].count
        \/ guard'[c].wrong = 0 /\ guard'[c].count = 0
    BY <1>0, <1>1, <1>4, PanelTypes DEF LoginVerify, LoginReset, At, Verifying, GuardRec
  <2>3. guard'[c].wrong + Cardinality(Verifying(ip)') <= Others + LeastOf(guard'[c].count, MaxAttempts)
    <3>1. /\ Cardinality(Verifying(ip)') = IF r \in Verifying(ip) THEN Cardinality(Verifying(ip)) - 1
                                           ELSE Cardinality(Verifying(ip))
          /\ r \notin Verifying(ip)' /\ Cardinality(Verifying(ip)') \in Nat /\ Verifying(ip)' = Verifying(ip) \ {r}
      BY <1>2, VerifyingLess
    <3>2. Cardinality(Verifying(ip)) \in Nat /\ Others \in Nat
      BY VerifyingFinite
    <3>3. Cardinality(Verifying(ip)') <= Others
      <4>1. IsFiniteSet(Req \ {r}) /\ Cardinality(Req \ {r}) = Others
        BY ConstantsAssumption, FS_RemoveElement DEF Others
      <4>2. Verifying(ip)' \subseteq Req \ {r}
        BY <3>1 DEF Verifying
      <4> QED BY <4>1, <4>2, FS_Subset
    <3>4. guard[c].wrong + Cardinality(Verifying(ip)) <= Others + LeastOf(guard[c].count, MaxAttempts)
      BY DEF GuardInv
    <3>5. guard[c].wrong \in Nat /\ guard[c].count \in Nat /\ MaxAttempts \in Nat
      BY <1>1, ConstantsAssumption DEF GuardRec
    <3> QED BY <2>2, <3>1, <3>2, <3>3, <3>4, <3>5 DEF LeastOf
  <2>4. ASSUME NEW j \in Ip, j # ip PROVE Verifying(j)' = Verifying(j) /\ guard'[LoginCell(j)] = guard[LoginCell(j)]
    BY <1>0, <1>2, <2>1, <2>4, Cells DEF Verifying
  <2>5. \A j \in Ip : guard'[UnbanCell(j)] = guard[UnbanCell(j)]
    BY <2>1, Cells
  <2> QED BY <2>3, <2>4, <2>5 DEF GuardInv, Others
<1> QED BY <1>3, <1>4

\* Every step keeps the invariant.
LEMMA GuardStep == TypeOK /\ GuardInv /\ [Next]_vars => GuardInv'
<1> SUFFICES ASSUME TypeOK, GuardInv, [Next]_vars PROVE GuardInv'
  OBVIOUS
<1>a. proc \in [Req -> ProcRec] /\ guard \in [Cell -> GuardRec] /\ \A q \in Req : proc[q] \in ProcRec
  BY PanelTypes
<1>1. ASSUME NEW r \in Req, \/ SetupRead(r) \/ SetupWrite(r) \/ SetupSession(r) \/ LoginRead(r) \/ LoginSession(r)
                            \/ ChangeCheck(r) \/ (\E k \in Kind : ForceCheck(r, k)) \/ SetHash(r) \/ Wipe(r)
      PROVE  GuardInv'
  <2>1. guard' = guard
    BY <1>1 DEF SetupRead, SetupWrite, SetupSession, LoginRead, LoginSession, ChangeCheck, ForceCheck, SetHash,
                Wipe, CreateSession
  <2>2. CASE SetupWrite(r) \/ SetHash(r)
    <3>1. /\ proc'[r].pc # "loginVerify"
          /\ \A q \in Req \ {r} : proc'[q].pc = proc[q].pc /\ proc'[q].ip = proc[q].ip
      BY <1>a, <2>2 DEF SetupWrite, SetHash, Overtake, ProcRec
    <3> QED BY <2>1, <3>1, GuardQuiet
  <2>3. CASE ~(SetupWrite(r) \/ SetHash(r))
    <3>1. PICK v : proc' = [proc EXCEPT ![r] = v] /\ v.pc # "loginVerify"
      <4>1. CASE Done(r)
        BY <4>1, IdleValues DEF Done
      <4>2. ASSUME NEW l \in {"setupWrite", "setHash", "loginGuard"}, NEW p, NEW ip
            PROVE  /\ [proc[r] EXCEPT !.pc = l, !.pw = p].pc # "loginVerify"
                   /\ [proc[r] EXCEPT !.pc = l, !.pw = p, !.ip = ip].pc # "loginVerify"
        BY <1>a DEF ProcRec
      <4>3. CASE SetupRead(r)
        BY <4>2, <4>3 DEF SetupRead
      <4>4. CASE LoginRead(r)
        <5>1. PICK ip \in Ip : proc' = [proc EXCEPT ![r] = [proc[r] EXCEPT !.pc = "loginGuard", !.pw = hash, !.ip = ip]]
          BY <4>4 DEF LoginRead
        <5>2. [proc[r] EXCEPT !.pc = "loginGuard", !.pw = hash, !.ip = ip].pc # "loginVerify"
          BY <4>2
        <5> QED BY <5>1, <5>2
      <4>5. CASE ChangeCheck(r)
        BY <4>2, <4>5 DEF ChangeCheck
      <4>6. CASE \E k \in Kind : ForceCheck(r, k)
        BY <4>2, <4>6 DEF ForceCheck
      <4>7. CASE SetupSession(r) \/ LoginSession(r) \/ Wipe(r)
        BY <4>1, <4>7 DEF SetupSession, LoginSession, Wipe, CreateSession
      <4> QED BY <1>1, <2>3, <4>3, <4>4, <4>5, <4>6, <4>7
    <3>2. proc'[r].pc # "loginVerify" /\ \A q \in Req \ {r} : proc'[q] = proc[q]
      BY <1>a, <3>1
    <3> QED BY <2>1, <3>2, GuardQuiet
  <2> QED BY <2>2, <2>3
<1>2. ASSUME NEW r \in Req, NEW ip \in Ip, Unban(r, ip) PROVE GuardInv'
  <2>1. /\ proc' = proc /\ \A d \in Cell : d # UnbanCell(ip) => guard'[d] = guard[d]
        /\ guard'[UnbanCell(ip)].wrong = guard[UnbanCell(ip)].wrong
    BY <1>a, <1>2, Cells DEF Unban, GuardRec
  <2> QED BY <2>1, Cells DEF GuardInv, Verifying, Others
<1>3. ASSUME NEW c \in Cell, WindowEnds(c) \/ BanEnds(c) PROVE GuardInv'
  <2>1. proc' = proc /\ \A d \in Cell : guard'[d].wrong = guard[d].wrong /\ guard'[d].count = guard[d].count
    BY <1>a, <1>3 DEF WindowEnds, BanEnds, GuardRec
  <2> QED BY <2>1, Cells DEF GuardInv, Verifying, Others
<1>4. CASE (\E r \in Req : Logout(r) \/ RevokeSession(r)) \/ (\E t \in Sess : Expire(t)) \/ Purge \/ UNCHANGED vars
  <2>1. proc' = proc /\ guard' = guard
    BY <1>4 DEF Logout, RevokeSession, Expire, Purge, vars
  <2> QED BY <2>1 DEF GuardInv, Verifying, Others
<1> QED BY <1>1, <1>2, <1>3, <1>4, GuardHit, GuardVerified DEF Next, Step

\* The Guard bounds the wrong passwords of an address by MAX_LOGIN_ATTEMPTS and the
\* requests that can overlap, however resets, windows, bans and unbans interleave.
THEOREM GuessesAreBounded == Spec => []GuessesBounded
<1>1. Init => GuardInv
  <2> SUFFICES ASSUME Init, NEW ip \in Ip
               PROVE  /\ guard[UnbanCell(ip)].wrong = 0 /\ guard[LoginCell(ip)].wrong = 0
                      /\ guard[LoginCell(ip)].count = 0 /\ Verifying(ip) = {}
    BY VerifyingFinite, FS_EmptySet, ConstantsAssumption DEF GuardInv, LeastOf
  <2> QED BY Cells, IdleValues DEF Init, FreshCell, Verifying
<1>2. TypeOK /\ GuardInv => GuessesBounded
  <2> SUFFICES ASSUME TypeOK, GuardInv, NEW c \in Cell PROVE guard[c].wrong <= MaxAttempts + Cardinality(Req) - 1
    BY DEF GuessesBounded
  <2>1. PICK ip \in Ip : c = LoginCell(ip) \/ c = UnbanCell(ip)
    BY DEF Cell, LoginCell, UnbanCell
  <2>2. Others \in Nat /\ Cardinality(Verifying(ip)) \in Nat /\ MaxAttempts \in Nat /\ Cardinality(Req) \in Nat
    BY VerifyingFinite, ConstantsAssumption, FS_CardinalityType
  <2>3. guard[LoginCell(ip)].wrong \in Nat /\ guard[LoginCell(ip)].count \in Nat
    BY Cells, GuardTypes DEF GuardRec
  <2> QED BY <2>1, <2>2, <2>3 DEF GuardInv, LeastOf, Others
<1> QED BY <1>1, <1>2, GuardStep, PanelTypeCorrect, PTL DEF Spec

-----------------------------------------------------------------------------
(* Devices: the limit in a window.                                          *)

Recent == {d \in Device : granted[d] <= Window}

(* Without an outage the map still holds every device that was let in       *)
(* within the window, touched no earlier than that.                         *)
DeviceInv ==
  outage = 0 =>
    /\ \A d \in Recent : lastSeen[d] # Absent /\ lastSeen[d] <= granted[d]
    /\ Cardinality(Recent) <= Limit

\* Every variable of Devices keeps its type.
LEMMA DevicesTypeStep == DevicesTypeOK /\ [DevicesNext]_deviceVars => DevicesTypeOK'
<1> SUFFICES ASSUME DevicesTypeOK, [DevicesNext]_deviceVars PROVE DevicesTypeOK'
  OBVIOUS
<1> USE DevicesAssumption DEF DevicesTypeOK
<1>a. \A d \in Device : Touched(d) \in [Device -> Absent .. Old]
  BY DEF Touched, Absent, Old
<1>b. \A n \in Absent .. Old : Older(n) \in Absent .. Old /\ (n \in 0 .. Old => Older(n) \in 0 .. Old)
  BY DEF Older, Absent, Old
<1>1. ASSUME NEW d \in Device, LetIn(d) PROVE DevicesTypeOK'
  BY <1>a, <1>1 DEF LetIn, Old
<1>2. ASSUME NEW d \in Device, TurnAway(d) \/ DeviceReport(d) PROVE DevicesTypeOK'
  BY <1>a, <1>2 DEF TurnAway, DeviceReport
<1>3. ASSUME NEW d \in Device, FailOpen(d) \/ Close(d) PROVE DevicesTypeOK'
  BY <1>3 DEF FailOpen, Close
<1>4. CASE Restart
  BY <1>4 DEF Restart, Absent, Old
<1>5. CASE Minute
  <2>1. 0 .. Old \subseteq Absent .. Old
    BY DEF Absent, Old
  <2> QED BY <1>b, <1>5, <2>1 DEF Minute
<1>6. CASE UNCHANGED deviceVars
  BY <1>6 DEF deviceVars
<1> QED BY <1>1, <1>2, <1>3, <1>4, <1>5, <1>6 DEF DevicesNext

\* Touching forgets no device that was let in within the window.
LEMMA TouchKeeps ==
  ASSUME DevicesTypeOK, DeviceInv, outage = 0, NEW d \in Device, NEW e \in Recent
  PROVE  Touched(d)[e] # Absent /\ Touched(d)[e] <= granted[e]
<1>1. lastSeen[e] # Absent /\ lastSeen[e] <= granted[e] /\ granted[e] <= Window /\ e \in Device
  BY DEF DeviceInv, Recent
<1>2. lastSeen[e] \in Absent .. Old /\ granted[e] \in 0 .. Old /\ Window \in Nat
  BY <1>1, DevicesAssumption DEF DevicesTypeOK
<1> QED BY <1>1, <1>2 DEF Touched, Absent, Old

\* The recent devices are finitely many.
LEMMA RecentFinite == IsFiniteSet(Recent)
BY DevicesAssumption, FS_Subset DEF Recent

\* Every step keeps the invariant.
LEMMA DeviceStep == DevicesTypeOK /\ DeviceInv /\ [DevicesNext]_deviceVars => DeviceInv'
<1> SUFFICES ASSUME DevicesTypeOK, DeviceInv, [DevicesNext]_deviceVars, outage' = 0
             PROVE  /\ \A d \in Recent' : lastSeen'[d] # Absent /\ lastSeen'[d] <= granted'[d]
                    /\ Cardinality(Recent') <= Limit
  BY DEF DeviceInv
<1>a. /\ lastSeen \in [Device -> Absent .. Old] /\ granted \in [Device -> 0 .. Old] /\ outage \in Nat
      /\ Window \in Nat \ {0} /\ Limit \in Nat /\ Old = Window + 1 /\ Absent = -1
  BY DevicesAssumption DEF DevicesTypeOK, Old, Absent
<1>1. ASSUME NEW d \in Device, LetIn(d)
      PROVE  /\ \A e \in Recent' : lastSeen'[e] # Absent /\ lastSeen'[e] <= granted'[e]
             /\ Cardinality(Recent') <= Limit
  <2>1. /\ Count(Touched(d)) <= Limit /\ lastSeen' = Touched(d) /\ outage = 0
        /\ \A e \in Device : granted'[e] = IF e = d THEN 0 ELSE granted[e]
    BY <1>a, <1>1 DEF LetIn
  <2>2. Touched(d)[d] = 0
    BY DEF Touched
  <2>3. ASSUME NEW e \in Recent' PROVE e \in Device /\ Touched(d)[e] # Absent /\ Touched(d)[e] <= granted'[e]
    <3>1. e \in Device /\ (e = d \/ e \in Recent)
      BY <2>1, <2>3 DEF Recent
    <3> QED BY <1>a, <2>1, <2>2, <3>1, TouchKeeps
  <2> DEFINE T == {e \in Device : Touched(d)[e] # Absent}
  <2>4. IsFiniteSet(T) /\ Recent' \subseteq T /\ Cardinality(T) <= Limit
    BY <2>1, <2>3, DevicesAssumption, FS_Subset DEF Count
  <2>5. Cardinality(Recent') <= Cardinality(T) /\ Cardinality(T) \in Nat /\ Cardinality(Recent') \in Nat
    <3> HIDE DEF T
    <3> QED BY <2>4, FS_Subset, FS_CardinalityType
  <2> QED BY <1>a, <2>1, <2>3, <2>4, <2>5
<1>2. ASSUME NEW d \in Device, TurnAway(d) \/ DeviceReport(d)
      PROVE  /\ \A e \in Recent' : lastSeen'[e] # Absent /\ lastSeen'[e] <= granted'[e]
             /\ Cardinality(Recent') <= Limit
  <2>1. lastSeen' = Touched(d) /\ granted' = granted /\ outage = 0 /\ Recent' = Recent
    BY <1>2 DEF TurnAway, DeviceReport, Recent
  <2> QED BY <2>1, TouchKeeps DEF DeviceInv
<1>3. ASSUME NEW d \in Device, Close(d)
      PROVE  /\ \A e \in Recent' : lastSeen'[e] # Absent /\ lastSeen'[e] <= granted'[e]
             /\ Cardinality(Recent') <= Limit
  BY <1>3 DEF Close, Recent, DeviceInv
<1>4. ~Restart /\ \A d \in Device : ~FailOpen(d)
  BY <1>a DEF Restart, FailOpen
<1>5. CASE Minute
  <2>1. /\ outage = 0 /\ \A e \in Device : lastSeen'[e] = Older(lastSeen[e]) /\ granted'[e] = Older(granted[e])
        /\ \A e \in Device : lastSeen[e] \in Absent .. Old /\ granted[e] \in 0 .. Old
    BY <1>a, <1>5 DEF Minute
  <2>2. ASSUME NEW e \in Recent' PROVE e \in Recent /\ lastSeen'[e] # Absent /\ lastSeen'[e] <= granted'[e]
    <3>1. e \in Device /\ granted'[e] <= Window
      BY <2>2 DEF Recent
    <3>2. e \in Recent
      BY <1>a, <2>1, <3>1 DEF Older, Recent
    <3>3. lastSeen[e] # Absent /\ lastSeen[e] <= granted[e]
      BY <2>1, <3>2 DEF DeviceInv
    <3> QED BY <1>a, <2>1, <3>1, <3>2, <3>3 DEF Older
  <2>3. Cardinality(Recent') <= Cardinality(Recent) /\ Cardinality(Recent) \in Nat /\ Cardinality(Recent') \in Nat
    BY <2>2, RecentFinite, FS_Subset, FS_CardinalityType
  <2> QED BY <1>a, <2>1, <2>2, <2>3 DEF DeviceInv
<1>6. CASE UNCHANGED deviceVars
  BY <1>6 DEF deviceVars, Recent, DeviceInv
<1> QED BY <1>1, <1>2, <1>3, <1>4, <1>5, <1>6 DEF DevicesNext

\* While the object is up, admit lets no more than device_limit devices in within
\* any five minutes, whatever refusals, reports and forgetting come in between.
THEOREM DeviceLimitKept == DevicesSpec => []WindowedLimit
<1>1. DevicesInit => DevicesTypeOK /\ DeviceInv
  <2> SUFFICES ASSUME DevicesInit PROVE DevicesTypeOK /\ DeviceInv
    OBVIOUS
  <2>1. Old \in Int /\ ~(Old <= Window) /\ Absent \in Absent .. Old /\ Old \in 0 .. Old
    BY DevicesAssumption DEF Old, Absent
  <2>2. Recent = {}
    BY <2>1 DEF DevicesInit, Recent
  <2>3. Cardinality(Recent) <= Limit
    BY <2>2, FS_EmptySet, DevicesAssumption
  <2>4. DevicesTypeOK
    BY <2>1, DevicesAssumption DEF DevicesInit, DevicesTypeOK
  <2> QED BY <2>2, <2>3, <2>4 DEF DeviceInv
<1>2. DeviceInv => WindowedLimit
  BY DEF DeviceInv, Recent, WindowedLimit
<1> QED BY <1>1, <1>2, DevicesTypeStep, DeviceStep, PTL DEF DevicesSpec

=============================================================================
