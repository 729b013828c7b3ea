----------------------- MODULE DeploymentsInvariants -----------------------
(***************************************************************************)
(* The safety invariants of Deployments, proved for any sets of            *)
(* deployments, connections and slots.  None of them is inductive alone:   *)
(* the tokens need the order in which they are drawn, the rows need what   *)
(* each request has in its locals when it comes to write.                  *)
(***************************************************************************)
EXTENDS DeploymentsProofs

\* Tokens: a stored bootstrap token was drawn before now, belongs to a single
\* deployment and, unless consumed, has not been used; none is used twice.
BootInv ==
  /\ fresh <= MaxTok
  /\ \A d \in Dep : boot[d].tok <= fresh
  /\ \A d \in Dep : boot[d].st \in {"live", "expired"} =>
       boot[d].tok \in Tok /\ uses[boot[d].tok] = 0
  /\ \A d, e \in Dep : d # e /\ boot[d].tok = boot[e].tok => boot[d].tok = 0
  /\ \A t \in Tok : uses[t] <= 1 /\ (t > fresh => uses[t] = 0)

\* Locals: where a process resumes after the connection check, and what it
\* holds when it is about to write.
Resume == {"idle", "catch", "rotateSubLoad", "retryStart", "revokeMark"}
Binding == {"createInsert", "rebind", "beaconBind"}
Rotating == {"rotateSubUpload", "rotateSubWrite"}
Completing == {"completeConsume", "completeWrite"}
Plain == PC \ (Binding \cup Rotating \cup Completing)

LocalsOK(q) ==
  /\ q.then \in Resume
  /\ q.pc \in Binding => InBoundary(q.c, q.d)
  /\ q.pc \in Rotating => q.node # 0
  /\ q.pc \in Completing => q.tok # 0

LocalInv == \A p \in Proc : LocalsOK(proc[p])

\* A request is never at a label of the workflow, nor a workflow at one of the
\* handlers.
Labels ==
  /\ \A r \in Req : proc[r].pc \notin WfPC /\ proc[r].then # "catch"
  /\ \A w \in Wf : proc[w].pc \notin ReqPC

\* Rows: the two properties of every existing deployment row.
RowInv == RowConnectionInBoundary /\ AgentHasBundle

-----------------------------------------------------------------------------
(***************************************************************************)
(* Tokens.                                                                 *)
(***************************************************************************)

LEMMA BootFrame == BootInv /\ UNCHANGED <<boot, fresh, uses>> => BootInv'
BY DEF BootInv

\* Drawing tokens for something else keeps them.
LEMMA BootDraw ==
  ASSUME TypeOK, BootInv, NEW n \in Nat, fresh + n <= MaxTok, fresh' = fresh + n,
         UNCHANGED <<boot, uses>>
  PROVE  BootInv'
<1>1. \A d \in Dep : boot[d].tok \in Nat
  BY DEF TypeOK, BootRow
<1>2. QED BY <1>1, ConstantsAssumption DEF BootInv, TypeOK, Tok

\* A new token for d is the last of those drawn.
LEMMA BootNew ==
  ASSUME TypeOK, BootInv, NEW d \in Dep, NEW n \in Nat \ {0}, fresh + n <= MaxTok,
         fresh' = fresh + n, UNCHANGED uses,
         boot' = [boot EXCEPT ![d] = [tok |-> fresh + n, st |-> "live"]]
  PROVE  BootInv'
<1>1. fresh \in Nat /\ MaxTok \in Nat /\ \A e \in Dep : boot[e].tok \in Nat
  BY ConstantsAssumption DEF TypeOK, BootRow
<1>2. /\ boot'[d].tok = fresh + n /\ boot'[d].st = "live"
      /\ \A e \in Dep \ {d} : boot'[e] = boot[e]
  BY DEF TypeOK
<1>3. fresh + n \in Tok /\ uses[fresh + n] = 0
  BY <1>1 DEF BootInv, Tok
<1>4. fresh' <= MaxTok /\ \A e \in Dep : boot'[e].tok <= fresh'
  BY <1>1, <1>2 DEF BootInv
<1>5. \A e \in Dep : boot'[e].st \in {"live", "expired"} =>
        boot'[e].tok \in Tok /\ uses'[boot'[e].tok] = 0
  BY <1>2, <1>3 DEF BootInv
<1>6. \A e, f \in Dep : e # f /\ boot'[e].tok = boot'[f].tok => boot'[e].tok = 0
  BY <1>1, <1>2 DEF BootInv
<1>7. \A t \in Tok : uses'[t] <= 1 /\ (t > fresh' => uses'[t] = 0)
  BY <1>1 DEF BootInv, Tok
<1>8. QED BY <1>4, <1>5, <1>6, <1>7 DEF BootInv

\* Dropping a token row.
LEMMA BootDrop ==
  ASSUME TypeOK, BootInv, NEW d \in Dep, UNCHANGED <<fresh, uses>>,
         boot' = [boot EXCEPT ![d] = [tok |-> 0, st |-> "none"]]
  PROVE  BootInv'
<1>1. /\ boot'[d].tok = 0 /\ boot'[d].st = "none"
      /\ \A e \in Dep \ {d} : boot'[e] = boot[e]
  BY DEF TypeOK
<1>2. QED BY <1>1 DEF BootInv, TypeOK

LEMMA BootPreserved == TypeOK /\ BootInv /\ [Next]_vars => BootInv'
<1> SUFFICES ASSUME TypeOK, BootInv, [Next]_vars PROVE BootInv'
  OBVIOUS
<1> USE DEF rows, hist, ends
<1>1. ASSUME NEW r \in Req, Arrive(r) PROVE BootInv'
  <2>1. UNCHANGED <<boot, fresh, uses>>
    BY <1>1 DEF Arrive, ConnectCheck, DisconnectCheck, CreateCheck, RotateBootRead,
       CompleteRead, RotateSubRead, RetryRead, RevokeRead, DeleteRead, BeaconRead
  <2>2. QED BY <2>1, BootFrame
<1>2. ASSUME NEW r \in Req, ReqStep(r) PROVE BootInv'
  <2> DEFINE d == proc[r].d
  <2>0. d \in Dep /\ proc[r].tok \in Nat
    BY LocalsTyped DEF Proc
  <2>1. CASE CreateInsert(r)
    <3>1. CASE dep[d].status = "none" /\ NoConflict(d)
      <4>1. /\ fresh + 2 <= MaxTok /\ fresh' = fresh + 2 /\ uses' = uses /\ 2 \in Nat \ {0}
            /\ boot' = [boot EXCEPT ![d] = [tok |-> fresh + 2, st |-> "live"]]
        BY <2>1, <3>1 DEF CreateInsert
      <4>2. QED BY <2>0, <4>1, BootNew
    <3>2. CASE ~(dep[d].status = "none" /\ NoConflict(d))
      BY <2>1, <3>2, BootFrame DEF CreateInsert
    <3>3. QED BY <3>1, <3>2
  <2>2. CASE RotateBootWrite(r)
    <3>1. CASE Exists(d)
      <4>1. /\ fresh + 1 <= MaxTok /\ fresh' = fresh + 1 /\ uses' = uses /\ 1 \in Nat \ {0}
            /\ boot' = [boot EXCEPT ![d] = [tok |-> fresh + 1, st |-> "live"]]
        BY <2>2, <3>1, ConstantsAssumption DEF RotateBootWrite, TypeOK
      <4>2. QED BY <2>0, <4>1, BootNew
    <3>2. CASE ~Exists(d)
      BY <2>2, <3>2, BootFrame DEF RotateBootWrite
    <3>3. QED BY <3>1, <3>2
  <2>3. CASE CompleteConsume(r)
    <3> DEFINE t == proc[r].tok
    <3>1. CASE boot[d].tok = t /\ boot[d].st \in {"live", "expired"}
      <4>1. /\ boot' = [boot EXCEPT ![d].st = "consumed"]
            /\ uses' = [uses EXCEPT ![t] = @ + 1] /\ fresh' = fresh
        BY <2>3, <3>1 DEF CompleteConsume
      <4>2. t \in Tok /\ uses[t] = 0 /\ t <= fresh /\ t # 0
        BY <2>0, <3>1 DEF BootInv, Tok
      <4>3. /\ boot'[d].tok = t /\ boot'[d].st = "consumed"
            /\ \A e \in Dep \ {d} : boot'[e] = boot[e]
        BY <2>0, <3>1, <4>1 DEF TypeOK, BootRow
      <4>4. uses'[t] = 1 /\ \A u \in Tok \ {t} : uses'[u] = uses[u]
        BY <4>1, <4>2 DEF TypeOK
      <4>5. \A e \in Dep \ {d} : boot[e].tok # t
        BY <2>0, <3>1, <4>2 DEF BootInv
      <4>6. \A e \in Dep : boot'[e].st \in {"live", "expired"} =>
              boot'[e].tok \in Tok /\ uses'[boot'[e].tok] = 0
        BY <4>3, <4>4, <4>5 DEF BootInv
      <4>7. \A e, f \in Dep : e # f /\ boot'[e].tok = boot'[f].tok => boot'[e].tok = 0
        BY <4>3, <3>1, <2>0 DEF BootInv
      <4>8. \A u \in Tok : uses'[u] <= 1 /\ (u > fresh' => uses'[u] = 0)
        <5>1. SUFFICES ASSUME NEW u \in Tok
                       PROVE  uses'[u] <= 1 /\ (u > fresh' => uses'[u] = 0)
          OBVIOUS
        <5>2. CASE u = t
          BY <4>1, <4>2, <4>4, <5>2, ConstantsAssumption DEF TypeOK, Tok
        <5>3. CASE u # t
          BY <4>1, <4>4, <5>3 DEF BootInv
        <5>4. QED BY <5>2, <5>3
      <4>9. fresh' <= MaxTok /\ \A e \in Dep : boot'[e].tok <= fresh'
        BY <4>1, <4>2, <4>3 DEF BootInv
      <4>10. QED BY <4>6, <4>7, <4>8, <4>9 DEF BootInv
    <3>2. CASE ~(boot[d].tok = t /\ boot[d].st \in {"live", "expired"})
      BY <2>3, <3>2, BootFrame DEF CompleteConsume
    <3>3. QED BY <3>1, <3>2
  <2>4. CASE RotateSubLoad(r)
    <3>1. UNCHANGED <<boot, uses>>
      BY <2>4 DEF RotateSubLoad
    <3>2. PICK n \in {0, 1} : fresh' = fresh + n /\ fresh + n <= MaxTok
      BY <2>4, ConstantsAssumption DEF RotateSubLoad, TypeOK, BootInv
    <3>3. QED BY <3>1, <3>2, BootDraw
  <2>5. CASE DeleteWrite(r)
    <3>1. /\ boot' = [boot EXCEPT ![d] = [tok |-> 0, st |-> "none"]]
          /\ UNCHANGED <<fresh, uses>>
      BY <2>5 DEF DeleteWrite
    <3>2. QED BY <2>0, <3>1, BootDrop
  <2>6. CASE \/ ConnectInsert(r) \/ CreateStart(r) \/ CreateStartFails(r) \/ CreateFailed(r)
             \/ Ensure(r) \/ Rebind(r)
    BY <2>6, BootFrame DEF ConnectInsert, CreateStart, CreateStartFails, CreateFailed, Ensure,
       Rebind
  <2>7. CASE CompleteWrite(r) \/ CompleteStart(r) \/ CompleteStartFails(r)
    BY <2>7, BootFrame DEF CompleteWrite, CompleteStart, CompleteStartFails
  <2>8. CASE RotateSubUpload(r) \/ RotateSubUploadFails(r) \/ RotateSubWrite(r)
    BY <2>8, BootFrame DEF RotateSubUpload, RotateSubUploadFails, RotateSubWrite
  <2>9. CASE \/ RetryStart(r) \/ RetryStartFails(r)
             \/ RevokeMark(r) \/ RevokeStart(r) \/ RevokeStartFails(r) \/ RevokeFailed(r)
             \/ BeaconBind(r)
    BY <2>9, BootFrame DEF RetryStart, RetryStartFails, RevokeMark, RevokeStart,
       RevokeStartFails, RevokeFailed, BeaconBind
  <2>10. QED
    BY <1>2, <2>1, <2>2, <2>3, <2>4, <2>5, <2>6, <2>7, <2>8, <2>9 DEF ReqStep
<1>3. ASSUME NEW w \in Wf, WfStep(w) PROVE BootInv'
  <2>0. proc[w].d \in Dep
    BY LocalsTyped DEF Proc
  <2>1. CASE WfLoad(w)
    <3>1. UNCHANGED <<boot, uses>>
      BY <2>1 DEF WfLoad
    <3>2. PICK n \in {0, 1} : fresh' = fresh + n /\ fresh + n <= MaxTok
      BY <2>1 DEF WfLoad, TypeOK, BootInv
    <3>3. QED BY <3>1, <3>2, BootDraw
  <2>2. CASE WfDropBoot(w)
    <3>1. /\ boot' = [boot EXCEPT ![proc[w].d] = [tok |-> 0, st |-> "none"]]
          /\ UNCHANGED <<fresh, uses>>
      BY <2>2 DEF WfDropBoot
    <3>2. QED BY <2>0, <3>1, BootDrop
  <2>3. CASE \/ WfAuth(w) \/ WfMarkPreparing(w) \/ WfPendingUpload(w) \/ WfMarkAwaiting(w)
             \/ WfMarkFinalizing(w) \/ WfMarkReady(w)
    BY <2>3, BootFrame DEF WfAuth, WfMarkPreparing, WfPendingUpload, WfMarkAwaiting,
       WfMarkFinalizing, WfMarkReady, WfMark
  <2>4. CASE \/ WfPublishRead(w) \/ WfPublishUpload(w) \/ WfDisableUpload(w)
             \/ WfMarkRevoked(w) \/ WfStepFails(w) \/ WfReadyNotifyFails(w) \/ WfCatch(w)
             \/ WfLoadFails(w) \/ WfEraseFails(w) \/ WfDies(w)
    BY <2>4, BootFrame DEF WfPublishRead, WfPublishUpload, WfDisableUpload, WfMarkRevoked,
       WfStepFails, WfReadyNotifyFails, WfCatch, WfLoadFails, WfEraseFails, WfDies
  <2>5. QED BY <1>3, <2>1, <2>2, <2>3, <2>4 DEF WfStep
<1>4. ASSUME NEW d \in Dep, ExpireBoot(d) PROVE BootInv'
  <2>1. /\ boot'[d].tok = boot[d].tok
        /\ \A e \in Dep \ {d} : boot'[e] = boot[e]
    BY <1>4 DEF ExpireBoot, TypeOK, BootRow
  <2>2. boot[d].st = "live" /\ UNCHANGED <<fresh, uses>>
    BY <1>4 DEF ExpireBoot
  <2>3. QED BY <2>1, <2>2 DEF BootInv
<1>5. CASE \/ \E p \in Proc : Erase(p)
           \/ \E c \in Conn : Expire(c)
           \/ CronErase \/ (\E r \in Req : Kill(r)) \/ UNCHANGED vars
  BY <1>5, BootFrame DEF Erase, IdleCount, IdleScrub, Expire, CronErase, Kill, vars
<1>6. QED BY <1>1, <1>2, <1>3, <1>4, <1>5 DEF Next, Continue, Rest

-----------------------------------------------------------------------------
(***************************************************************************)
(* Locals.                                                                 *)
(***************************************************************************)

LEMMA IdleLocals == LocalsOK(IdleProc)
BY DEF LocalsOK, IdleProc, Resume, Binding, Rotating, Completing

LEMMA StepLocals ==
  ASSUME TypeOK, LocalInv, NEW p \in Proc, NEW new, LocalsOK(new), Step(p, new)
  PROVE  LocalInv'
<1>1. SUFFICES ASSUME NEW q \in Proc PROVE LocalsOK(proc'[q])
  BY DEF LocalInv, LocalsOK, InBoundary
<1>2. proc'[q] = IF q = p THEN new ELSE proc[q]
  BY DEF Step, TypeOK
<1>3. QED BY <1>2 DEF LocalInv

LEMMA DoneLocals ==
  ASSUME TypeOK, LocalInv, NEW p \in Proc, Done(p)
  PROVE  LocalInv'
BY IdleLocals, StepLocals DEF Done

\* Going on to a label that promises nothing.
LEMMA GotoLocals ==
  ASSUME TypeOK, LocalInv, NEW p \in Proc, NEW l \in Plain, Goto(p, l)
  PROVE  LocalInv'
<1>1. LocalsOK([proc[p] EXCEPT !.pc = l])
  <2>1. proc[p] \in ProcRec /\ LocalsOK(proc[p])
    BY DEF TypeOK, LocalInv
  <2>2. QED BY <2>1 DEF LocalsOK, ProcRec, Plain
<1>2. QED BY <1>1, DoneLocals, StepLocals DEF Goto

LEMMA LaunchLocals ==
  ASSUME TypeOK, LocalInv, NEW r \in Req, NEW act \in Action, NEW rest, LocalsOK(rest),
         Launch(r, act, rest)
  PROVE  LocalInv'
<1>1. PICK w \in Wf : proc' = [proc EXCEPT ![r] = rest,
          ![w] = [IdleProc EXCEPT !.pc = "load", !.act = act, !.d = proc[r].d]]
  BY DEF Launch
<1> DEFINE new == [IdleProc EXCEPT !.pc = "load", !.act = act, !.d = proc[r].d]
<1>2. LocalsOK(new)
  BY IdleTyped, IdleLocals DEF LocalsOK, ProcRec, Binding, Rotating, Completing
<1>3. SUFFICES ASSUME NEW q \in Proc PROVE LocalsOK(proc'[q])
  BY DEF LocalInv, LocalsOK, InBoundary
<1>4. proc'[q] \in {new, rest, proc[q]}
  BY <1>1 DEF TypeOK, Proc
<1>5. QED BY <1>2, <1>4 DEF LocalInv

LEMMA SpawnLocals ==
  ASSUME TypeOK, LocalInv, NEW r \in Req, NEW act \in Action, Spawn(r, act)
  PROVE  LocalInv'
BY IdleLocals, LaunchLocals DEF Spawn

LEMMA SpawnUnseenLocals ==
  ASSUME TypeOK, LocalInv, NEW r \in Req, NEW act \in Action, NEW l \in Plain,
         SpawnUnseen(r, act, l)
  PROVE  LocalInv'
<1>1. LocalsOK([proc[r] EXCEPT !.pc = l])
  <2>1. proc[r] \in ProcRec /\ LocalsOK(proc[r])
    BY DEF TypeOK, LocalInv, Proc
  <2>2. QED BY <2>1 DEF LocalsOK, ProcRec, Plain
<1>2. QED BY <1>1, LaunchLocals DEF SpawnUnseen

LEMMA BeginLocals ==
  ASSUME TypeOK, LocalInv, NEW r \in Req, NEW k, NEW new, LocalsOK(new), Begin(r, k, new)
  PROVE  LocalInv'
BY StepLocals DEF Begin, Proc

LEMMA FrameLocals == LocalInv /\ UNCHANGED proc => LocalInv'
BY DEF LocalInv, LocalsOK, InBoundary

LEMMA ArriveLocals ==
  ASSUME TypeOK, BootInv, LocalInv, NEW r \in Req, Arrive(r)
  PROVE  LocalInv'
<1> USE IdleTyped DEF LocalsOK, Resume, Binding, Rotating, Completing
<1>0. LocalsOK(IdleProc) /\ IdleProc.then = "idle"
  BY IdleLocals DEF IdleProc
<1>1. ASSUME NEW c \in Conn, ConnectCheck(r, c) PROVE LocalInv'
  <2>1. LocalsOK([IdleProc EXCEPT !.pc = "connectInsert", !.c = c])
    BY <1>0 DEF ProcRec
  <2>2. PICK new : LocalsOK(new) /\ Begin(r, "connect", new)
    BY <1>0, <1>1, <2>1 DEF ConnectCheck
  <2>3. QED BY <2>2, BeginLocals
<1>2. ASSUME NEW c \in Conn, DisconnectCheck(r, c) PROVE LocalInv'
  <2>1. LocalsOK([IdleProc EXCEPT !.pc = "idleScrub", !.c = c])
    BY <1>0 DEF ProcRec
  <2>2. QED BY <1>2, <2>1, BeginLocals DEF DisconnectCheck
<1>3. ASSUME NEW d \in Dep, NEW c \in Conn, CreateCheck(r, d, c) PROVE LocalInv'
  <2>1. LocalsOK([IdleProc EXCEPT !.pc = "createInsert", !.d = d, !.c = c])
    BY <1>0, <1>3 DEF ProcRec, CreateCheck
  <2>2. QED BY <1>3, <2>1, BeginLocals DEF CreateCheck
<1>4. ASSUME NEW d \in Dep, RotateBootRead(r, d) PROVE LocalInv'
  <2>1. LocalsOK([IdleProc EXCEPT !.pc = "rotateBootWrite", !.d = d])
    BY <1>0 DEF ProcRec
  <2>2. QED BY <1>4, <2>1, BeginLocals DEF RotateBootRead
<1>5. ASSUME NEW d \in Dep, CompleteRead(r, d) PROVE LocalInv'
  <2>1. boot[d].tok # 0
    BY <1>5 DEF CompleteRead, BootInv, Tok
  <2>2. LocalsOK([IdleProc EXCEPT !.pc = "completeConsume", !.d = d,
                    !.tok = boot[d].tok, !.sub = secret[d].sub])
    BY <1>0, <2>1 DEF ProcRec
  <2>3. QED BY <1>5, <2>2, BeginLocals DEF CompleteRead
<1>6. ASSUME NEW d \in Dep, RotateSubRead(r, d) PROVE LocalInv'
  <2>1. LocalsOK([IdleProc EXCEPT !.pc = "ensure", !.then = "rotateSubLoad",
                    !.d = d, !.c = dep[d].conn])
    BY <1>0 DEF ProcRec
  <2>2. QED BY <1>6, <2>1, BeginLocals DEF RotateSubRead
<1>7. ASSUME NEW d \in Dep, RetryRead(r, d) PROVE LocalInv'
  <2>1. LocalsOK([IdleProc EXCEPT !.pc = "ensure", !.then = "retryStart",
                    !.d = d, !.c = dep[d].conn,
                    !.act = IF dep[d].agent # 0 THEN "finalize" ELSE "prepare"])
    BY <1>0 DEF ProcRec
  <2>2. QED BY <1>7, <2>1, BeginLocals DEF RetryRead
<1>8. ASSUME NEW d \in Dep, RevokeRead(r, d) PROVE LocalInv'
  <2>1. LocalsOK([IdleProc EXCEPT !.pc = "ensure", !.then = "revokeMark",
                    !.d = d, !.c = dep[d].conn, !.seen = dep[d].status])
    BY <1>0 DEF ProcRec
  <2>2. QED BY <1>8, <2>1, BeginLocals DEF RevokeRead
<1>9. ASSUME NEW d \in Dep, DeleteRead(r, d) PROVE LocalInv'
  <2>1. LocalsOK([IdleProc EXCEPT !.pc = "deleteWrite", !.d = d])
    BY <1>0 DEF ProcRec
  <2>2. QED BY <1>9, <2>1, BeginLocals DEF DeleteRead
<1>10. ASSUME NEW d \in Dep, NEW c \in Conn, BeaconRead(r, d, c) PROVE LocalInv'
  <2>1. LocalsOK([IdleProc EXCEPT !.pc = "beaconBind", !.d = d, !.c = c])
    BY <1>0, <1>10 DEF ProcRec, BeaconRead
  <2>2. QED BY <1>10, <2>1, BeginLocals DEF BeaconRead
<1>11. QED
  BY <1>1, <1>2, <1>3, <1>4, <1>5, <1>6, <1>7, <1>8, <1>9, <1>10 DEF Arrive

\* Every label but the seven that promise something.
LEMMA PlainLabels ==
  /\ Resume \subseteq Plain
  /\ WfPC \subseteq Plain
  /\ {"idleCount", "idleScrub", "createStart", "createFailed", "completeStart", "revokeStart",
      "revokeFailed"} \subseteq Plain
BY DEF Resume, Plain, PC, WfPC, ReqPC, Binding, Rotating, Completing

LEMMA ReqLocals ==
  ASSUME TypeOK, LocalInv, NEW r \in Req, ReqStep(r)
  PROVE  LocalInv'
<1>0. /\ r \in Proc /\ proc[r] \in ProcRec /\ LocalsOK(proc[r])
      /\ proc[r].then \in Plain /\ proc[r].act \in Action
  BY LocalsTyped, PlainLabels DEF Proc, LocalInv, LocalsOK
<1>1. CASE ConnectInsert(r) \/ RotateBootWrite(r) \/ CompleteStartFails(r) \/ DeleteWrite(r)
  BY <1>0, <1>1, DoneLocals DEF ConnectInsert, RotateBootWrite, CompleteStartFails, DeleteWrite
<1>2. CASE \/ RotateSubUploadFails(r) \/ RetryStartFails(r) \/ RevokeFailed(r)
           \/ BeaconBind(r)
  BY <1>0, <1>2, DoneLocals
     DEF RotateSubUploadFails, RetryStartFails, RevokeFailed, BeaconBind, Abandon
<1>3. CASE CreateStart(r) \/ CompleteStart(r) \/ RetryStart(r) \/ RevokeStart(r)
  BY <1>0, <1>3, SpawnLocals DEF CreateStart, CompleteStart, RetryStart, RevokeStart, Action
<1>4. CASE \/ CreateFailed(r) \/ CompleteWrite(r) \/ RotateSubWrite(r)
           \/ RevokeMark(r) \/ Rebind(r)
  BY <1>0, <1>4, GotoLocals, PlainLabels
     DEF CreateFailed, CompleteWrite, RotateSubWrite, RevokeMark, Rebind
<1>5. CASE CreateInsert(r)
  BY <1>0, <1>5, GotoLocals, DoneLocals, PlainLabels DEF CreateInsert
<1>6. CASE Ensure(r)
  <2>1. ASSUME NEW c \in Conn, InBoundary(c, proc[r].d),
               Step(r, [proc[r] EXCEPT !.pc = "rebind", !.c = c])
        PROVE  LocalInv'
    <3>1. LocalsOK([proc[r] EXCEPT !.pc = "rebind", !.c = c])
      BY <1>0, <2>1 DEF LocalsOK, ProcRec, Binding, Rotating, Completing
    <3>2. QED BY <1>0, <2>1, <3>1, StepLocals
  <2>2. QED BY <1>0, <1>6, <2>1, GotoLocals, DoneLocals DEF Ensure
<1>7. CASE CompleteConsume(r)
  <2>1. CASE Goto(r, "completeWrite")
    <3>1. LocalsOK([proc[r] EXCEPT !.pc = "completeWrite"])
      BY <1>0, <1>7 DEF CompleteConsume, At, LocalsOK, ProcRec, Binding, Rotating, Completing
    <3>2. QED BY <1>0, <2>1, <3>1, StepLocals DEF Goto
  <2>2. QED BY <1>0, <1>7, <2>1, DoneLocals DEF CompleteConsume
<1>8. CASE RotateSubLoad(r)
  <2> DEFINE d == proc[r].d
  <2>1. CASE Exists(d) /\ ValidAuth(dep[d].conn) /\ secret[d].node # 0
    <3> DEFINE new == [proc[r] EXCEPT !.pc = "rotateSubUpload", !.c = dep[d].conn,
                         !.tok = fresh + 1, !.node = secret[d].node]
    <3>1. LocalsOK(new)
      BY <1>0, <2>1 DEF LocalsOK, ProcRec, Binding, Rotating, Completing
    <3>2. Step(r, new)
      BY <1>8, <2>1 DEF RotateSubLoad
    <3>3. QED BY <1>0, <3>1, <3>2, StepLocals
  <2>2. CASE ~(Exists(d) /\ ValidAuth(dep[d].conn) /\ secret[d].node # 0)
    BY <1>0, <1>8, <2>2, DoneLocals DEF RotateSubLoad, Abandon
  <2>3. QED BY <2>1, <2>2
<1>9. CASE RotateSubUpload(r)
  <2>1. LocalsOK([proc[r] EXCEPT !.pc = "rotateSubWrite"])
    BY <1>0, <1>9 DEF RotateSubUpload, At, LocalsOK, ProcRec, Binding, Rotating, Completing
  <2>2. QED BY <1>0, <1>9, <2>1, StepLocals DEF RotateSubUpload, Goto
<1>10. CASE CreateStartFails(r) \/ RevokeStartFails(r)
  <2>1. \/ Goto(r, "createFailed") \/ Goto(r, "revokeFailed")
        \/ SpawnUnseen(r, "prepare", "createFailed") \/ SpawnUnseen(r, "revoke", "revokeFailed")
    BY <1>10 DEF CreateStartFails, RevokeStartFails
  <2> QED BY <1>0, <2>1, GotoLocals, SpawnUnseenLocals, PlainLabels DEF Action
<1>11. QED
  BY <1>1, <1>2, <1>3, <1>4, <1>5, <1>6, <1>7, <1>8, <1>9, <1>10 DEF ReqStep

LEMMA WfLocals ==
  ASSUME TypeOK, LocalInv, NEW w \in Wf, WfStep(w)
  PROVE  LocalInv'
<1>0. /\ w \in Proc /\ proc[w] \in ProcRec /\ LocalsOK(proc[w]) /\ proc[w].act \in Action
  BY LocalsTyped DEF Proc, LocalInv
<1>1. ASSUME NEW l \in WfPC \cup {"idle", "idleCount"}, Goto(w, l)
      PROVE  LocalInv'
  BY <1>0, <1>1, GotoLocals, PlainLabels DEF Resume
<1>2. CASE WfLoad(w)
  <2>1. ASSUME NEW c, NEW s, NEW t,
               Step(w, [proc[w] EXCEPT !.pc = FirstStep(proc[w].act), !.c = c,
                          !.sub = s, !.tok = t])
        PROVE  LocalInv'
    <3>1. FirstStep(proc[w].act) \in WfPC
      BY <1>0 DEF FirstStep, Action, WfPC
    <3>2. LocalsOK([proc[w] EXCEPT !.pc = FirstStep(proc[w].act), !.c = c,
                      !.sub = s, !.tok = t])
      BY <1>0, <3>1, PlainLabels DEF LocalsOK, ProcRec, Plain
    <3>3. QED BY <1>0, <2>1, <3>2, StepLocals
  <2>2. QED BY <1>0, <1>2, <2>1, DoneLocals DEF WfLoad
<1>3. CASE WfPublishRead(w)
  <2> DEFINE d == proc[w].d
             new == [proc[w] EXCEPT !.pc = "publishUpload", !.sub = dep[d].sub,
                       !.tok = secret[d].sub, !.node = secret[d].node]
  <2>1. LocalsOK(new)
    BY <1>0 DEF LocalsOK, ProcRec, Binding, Rotating, Completing
  <2>2. QED BY <1>0, <1>3, <2>1, StepLocals DEF WfPublishRead
<1>4. CASE WfCatch(w)
  <2>1. LocalsOK([proc[w] EXCEPT !.pc = "idleCount", !.then = "catch"])
    BY <1>0 DEF LocalsOK, ProcRec, Resume, Binding, Rotating, Completing
  <2>2. QED BY <1>0, <1>4, <2>1, StepLocals DEF WfCatch
<1>5. CASE WfMarkPreparing(w) \/ WfMarkAwaiting(w) \/ WfMarkFinalizing(w) \/ WfMarkReady(w)
  BY <1>1, <1>5 DEF WfMarkPreparing, WfMarkAwaiting, WfMarkFinalizing, WfMarkReady, WfMark, WfPC
<1>6. CASE \/ WfAuth(w) \/ WfPendingUpload(w) \/ WfPublishUpload(w) \/ WfDisableUpload(w)
           \/ WfMarkRevoked(w) \/ WfDropBoot(w) \/ WfReadyNotifyFails(w)
  BY <1>1, <1>6 DEF WfAuth, WfPendingUpload, WfPublishUpload, WfDisableUpload, WfMarkRevoked,
     WfDropBoot, WfReadyNotifyFails, WfPC
<1>7. CASE WfStepFails(w)
  BY <1>1, <1>7 DEF WfStepFails, InStep, BodyStart, WfPC
<1>8. CASE WfLoadFails(w) \/ WfEraseFails(w) \/ WfDies(w)
  BY <1>0, <1>1, <1>8, DoneLocals DEF WfLoadFails, WfEraseFails, WfDies, WfPC
<1>9. QED BY <1>2, <1>3, <1>4, <1>5, <1>6, <1>7, <1>8 DEF WfStep

LEMMA LocalPreserved == TypeOK /\ BootInv /\ LocalInv /\ [Next]_vars => LocalInv'
<1> SUFFICES ASSUME TypeOK, BootInv, LocalInv, [Next]_vars PROVE LocalInv'
  OBVIOUS
<1>1. ASSUME NEW p \in Proc, Erase(p) PROVE LocalInv'
  BY <1>1, DoneLocals, GotoLocals, PlainLabels DEF Erase, IdleCount, IdleScrub
<1>2. CASE \/ \E c \in Conn : Expire(c)
           \/ CronErase
           \/ \E d \in Dep : ExpireBoot(d)
           \/ UNCHANGED vars
  BY <1>2, FrameLocals DEF Expire, CronErase, ExpireBoot, vars
<1>3. ASSUME NEW r \in Req, Kill(r) PROVE LocalInv'
  BY <1>3, DoneLocals DEF Kill, Proc
<1>4. QED
  BY <1>1, <1>2, <1>3, ArriveLocals, ReqLocals, WfLocals DEF Next, Continue, Rest

LEMMA LabelsStep ==
  ASSUME TypeOK, Labels, NEW p \in Proc, NEW new, Step(p, new),
         p \in Req => new.pc \notin WfPC /\ new.then # "catch",
         p \in Wf => new.pc \notin ReqPC
  PROVE  Labels'
<1>1. proc'[p] = new /\ \A q \in Proc \ {p} : proc'[q] = proc[q]
  BY DEF Step, TypeOK
<1> QED BY <1>1 DEF Labels, Proc

LEMMA LabelsDone ==
  ASSUME TypeOK, Labels, NEW p \in Proc, Done(p)
  PROVE  Labels'
BY LabelsStep DEF Done, IdleProc, WfPC, ReqPC

LEMMA LabelsGoto ==
  ASSUME TypeOK, Labels, NEW p \in Proc, NEW l, Goto(p, l),
         p \in Req => l \notin WfPC, p \in Wf => l \notin ReqPC
  PROVE  Labels'
<1> DEFINE new == [proc[p] EXCEPT !.pc = l]
<1>1. new.pc = l /\ new.then = proc[p].then
  BY DEF TypeOK, ProcRec
<1>2. p \in Req => new.then # "catch"
  BY <1>1 DEF Labels
<1> HIDE DEF new
<1> QED BY <1>1, <1>2, LabelsStep, LabelsDone DEF Goto, new

LEMMA LabelsLaunch ==
  ASSUME TypeOK, Labels, NEW r \in Req, NEW act, NEW rest, Launch(r, act, rest),
         rest.pc \notin WfPC, rest.then # "catch"
  PROVE  Labels'
<1> DEFINE new == [IdleProc EXCEPT !.pc = "load", !.act = act, !.d = proc[r].d]
<1>1. PICK w \in Wf : proc' = [proc EXCEPT ![r] = rest, ![w] = new]
  BY DEF Launch
<1>2. /\ r # w /\ proc'[w] = new /\ proc'[r] = rest
      /\ \A q \in Proc \ {r, w} : proc'[q] = proc[q]
  BY <1>1, ConstantsAssumption DEF TypeOK, Proc
<1>3. new.pc = "load"
  BY DEF IdleProc
<1> HIDE DEF new
<1>4. w \notin Req /\ r \notin Wf /\ "load" \notin ReqPC
  BY ConstantsAssumption DEF ReqPC
<1> QED BY <1>2, <1>3, <1>4 DEF Labels, Proc

LEMMA LabelsPreserved == TypeOK /\ LocalInv /\ Labels /\ [Next]_vars => Labels'
<1> SUFFICES ASSUME TypeOK, LocalInv, Labels, [Next]_vars PROVE Labels'
  OBVIOUS
<1>1. ASSUME NEW p \in Proc, Erase(p) PROVE Labels'
  BY <1>1, LabelsDone, LabelsGoto DEF Erase, IdleCount, IdleScrub, WfPC, ReqPC
<1>2. CASE \/ \E c \in Conn : Expire(c)
           \/ CronErase
           \/ \E d \in Dep : ExpireBoot(d)
           \/ UNCHANGED vars
  BY <1>2 DEF Expire, CronErase, ExpireBoot, vars, Labels
<1>3. ASSUME NEW r \in Req, Kill(r) PROVE Labels'
  BY <1>3, LabelsDone DEF Kill, Proc
<1>4. ASSUME NEW r \in Req, Arrive(r) PROVE Labels'
  <2>1. ASSUME NEW k, NEW new, Begin(r, k, new), new.pc \notin WfPC, new.then # "catch"
        PROVE  Labels'
    BY <2>1, LabelsStep, ConstantsAssumption DEF Begin, Proc
  <2> USE DEF IdleProc, WfPC
  <2>2. ASSUME NEW c \in Conn, ConnectCheck(r, c) \/ DisconnectCheck(r, c) PROVE Labels'
    BY <2>1, <2>2 DEF ConnectCheck, DisconnectCheck
  <2>3. ASSUME NEW d \in Dep, NEW c \in Conn, CreateCheck(r, d, c) PROVE Labels'
    BY <2>1, <2>3 DEF CreateCheck
  <2>4. ASSUME NEW d \in Dep, NEW c \in Conn, BeaconRead(r, d, c) PROVE Labels'
    BY <2>1, <2>4 DEF BeaconRead
  <2>5. ASSUME NEW d \in Dep, RotateBootRead(r, d) \/ CompleteRead(r, d) PROVE Labels'
    BY <2>1, <2>5 DEF RotateBootRead, CompleteRead
  <2>6. ASSUME NEW d \in Dep, RotateSubRead(r, d) PROVE Labels'
    BY <2>1, <2>6 DEF RotateSubRead
  <2>7. ASSUME NEW d \in Dep, RetryRead(r, d) PROVE Labels'
    BY <2>1, <2>7 DEF RetryRead
  <2>8. ASSUME NEW d \in Dep, RevokeRead(r, d) PROVE Labels'
    BY <2>1, <2>8 DEF RevokeRead
  <2>9. ASSUME NEW d \in Dep, DeleteRead(r, d) PROVE Labels'
    BY <2>1, <2>9 DEF DeleteRead
  <2> QED
    BY <1>4, <2>2, <2>3, <2>4, <2>5, <2>6, <2>7, <2>8, <2>9 DEF Arrive
<1>5. ASSUME NEW r \in Req, ReqStep(r) PROVE Labels'
  <2>0. /\ r \in Proc /\ r \notin Wf /\ proc[r].then # "catch" /\ proc[r].then \notin WfPC
        /\ proc[r] \in ProcRec
    BY LocalsTyped, ConstantsAssumption DEF Proc, Labels, LocalInv, LocalsOK, Resume, WfPC
  <2>1. CASE \/ ConnectInsert(r) \/ RotateBootWrite(r) \/ CompleteStartFails(r) \/ DeleteWrite(r)
             \/ RotateSubUploadFails(r) \/ RetryStartFails(r) \/ RevokeFailed(r) \/ BeaconBind(r)
    BY <2>0, <2>1, LabelsDone
       DEF ConnectInsert, RotateBootWrite, CompleteStartFails, DeleteWrite, RotateSubUploadFails,
           RetryStartFails, RevokeFailed, BeaconBind, Abandon
  <2>2. CASE CreateStart(r) \/ CompleteStart(r) \/ RetryStart(r) \/ RevokeStart(r)
    <3>1. IdleProc.pc \notin WfPC /\ IdleProc.then # "catch"
      BY DEF IdleProc, WfPC
    <3>2. \E act : Launch(r, act, IdleProc)
      BY <2>2 DEF CreateStart, CompleteStart, RetryStart, RevokeStart, Spawn
    <3> QED BY <3>1, <3>2, LabelsLaunch
  <2>3. CASE CreateStartFails(r) \/ RevokeStartFails(r)
    <3>1. ASSUME NEW act, NEW l \in {"createFailed", "revokeFailed"}, SpawnUnseen(r, act, l)
          PROVE  Labels'
      <4> DEFINE rest == [proc[r] EXCEPT !.pc = l]
      <4>1. rest.pc \notin WfPC /\ rest.then # "catch"
        BY <2>0 DEF ProcRec, WfPC
      <4>2. Launch(r, act, rest)
        BY <3>1 DEF SpawnUnseen
      <4> QED BY <4>1, <4>2, LabelsLaunch
    <3> QED BY <2>0, <2>3, <3>1, LabelsGoto DEF CreateStartFails, RevokeStartFails, WfPC
  <2>4. CASE \/ CreateInsert(r) \/ CreateFailed(r) \/ Rebind(r) \/ CompleteConsume(r)
             \/ CompleteWrite(r) \/ RotateSubUpload(r) \/ RotateSubWrite(r) \/ RevokeMark(r)
    <3>1. Done(r) \/ \E l : Goto(r, l) /\ l \notin WfPC
      BY <2>0, <2>4 DEF CreateInsert, CreateFailed, Rebind, CompleteConsume, CompleteWrite,
         RotateSubUpload, RotateSubWrite, RevokeMark, WfPC
    <3> QED BY <2>0, <3>1, LabelsDone, LabelsGoto
  <2>5. CASE Ensure(r)
    <3>1. ASSUME NEW c \in Conn, Step(r, [proc[r] EXCEPT !.pc = "rebind", !.c = c]) PROVE Labels'
      BY <2>0, <3>1, LabelsStep DEF ProcRec, WfPC
    <3> QED BY <2>0, <2>5, <3>1, LabelsDone, LabelsGoto DEF Ensure
  <2>6. CASE RotateSubLoad(r)
    <3> DEFINE d == proc[r].d
               new == [proc[r] EXCEPT !.pc = "rotateSubUpload", !.c = dep[d].conn,
                         !.tok = fresh + 1, !.node = secret[d].node]
    <3>1. new.pc \notin WfPC /\ new.then # "catch"
      BY <2>0 DEF ProcRec, WfPC
    <3>2. Done(r) \/ Step(r, new)
      BY <2>6 DEF RotateSubLoad, Abandon
    <3> QED BY <2>0, <3>1, <3>2, LabelsDone, LabelsStep
  <2> QED BY <1>5, <2>1, <2>2, <2>3, <2>4, <2>5, <2>6 DEF ReqStep
<1>6. ASSUME NEW w \in Wf, WfStep(w) PROVE Labels'
  <2>0. w \in Proc /\ w \notin Req /\ proc[w] \in ProcRec
    BY LocalsTyped, ConstantsAssumption DEF Proc
  <2>1. ASSUME NEW l \in WfPC \cup {"idle", "idleCount"}, Goto(w, l) PROVE Labels'
    BY <2>0, <2>1, LabelsGoto DEF WfPC, ReqPC
  <2>2. CASE WfLoad(w)
    <3>1. ASSUME NEW c, NEW u, NEW t,
                 Step(w, [proc[w] EXCEPT !.pc = FirstStep(proc[w].act), !.c = c, !.sub = u, !.tok = t])
          PROVE  Labels'
      <4>1. FirstStep(proc[w].act) \notin ReqPC
        BY <2>0 DEF FirstStep, ProcRec, Action, ReqPC
      <4> QED BY <2>0, <3>1, <4>1, LabelsStep DEF ProcRec
    <3> QED BY <2>0, <2>2, <3>1, LabelsDone DEF WfLoad
  <2>3. CASE WfPublishRead(w)
    <3> DEFINE d == proc[w].d
               new == [proc[w] EXCEPT !.pc = "publishUpload", !.sub = dep[d].sub,
                         !.tok = secret[d].sub, !.node = secret[d].node]
    <3>1. new.pc \notin ReqPC /\ Step(w, new)
      BY <2>0, <2>3 DEF WfPublishRead, ProcRec, ReqPC
    <3> QED BY <2>0, <3>1, LabelsStep
  <2>4. CASE WfCatch(w)
    <3> DEFINE new == [proc[w] EXCEPT !.pc = "idleCount", !.then = "catch"]
    <3>1. new.pc \notin ReqPC /\ Step(w, new)
      BY <2>0, <2>4 DEF WfCatch, ProcRec, ReqPC
    <3> QED BY <2>0, <3>1, LabelsStep
  <2>5. CASE WfMarkPreparing(w) \/ WfMarkAwaiting(w) \/ WfMarkFinalizing(w) \/ WfMarkReady(w)
    BY <2>1, <2>5 DEF WfMarkPreparing, WfMarkAwaiting, WfMarkFinalizing, WfMarkReady, WfMark, WfPC
  <2>6. CASE \/ WfAuth(w) \/ WfPendingUpload(w) \/ WfPublishUpload(w) \/ WfDisableUpload(w)
             \/ WfMarkRevoked(w) \/ WfDropBoot(w) \/ WfReadyNotifyFails(w) \/ WfStepFails(w)
    BY <2>1, <2>6 DEF WfAuth, WfPendingUpload, WfPublishUpload, WfDisableUpload, WfMarkRevoked,
       WfDropBoot, WfReadyNotifyFails, WfStepFails, InStep, BodyStart, WfPC
  <2>7. CASE WfLoadFails(w) \/ WfEraseFails(w) \/ WfDies(w)
    BY <2>0, <2>1, <2>7, LabelsDone DEF WfLoadFails, WfEraseFails, WfDies, WfPC
  <2> QED BY <1>6, <2>2, <2>3, <2>4, <2>5, <2>6, <2>7 DEF WfStep
<1> QED
  BY <1>1, <1>2, <1>3, <1>4, <1>5, <1>6 DEF Next, Continue, Rest

-----------------------------------------------------------------------------
(***************************************************************************)
(* Rows.                                                                   *)
(***************************************************************************)

\* What RowInv says of the row and the bundle of one deployment.
RowOK(row, bundle, d) ==
  row.status \in RowStatus =>
    InBoundary(row.conn, d) /\ (row.agent # 0 => bundle.node # 0)

LEMMA RowInvByRow == RowInv <=> \A d \in Dep : RowOK(dep[d], secret[d], d)
BY DEF RowInv, RowOK, RowConnectionInBoundary, AgentHasBundle, Exists

LEMMA RowFrame == RowInv /\ UNCHANGED <<dep, secret>> => RowInv'
BY DEF RowInv, RowConnectionInBoundary, AgentHasBundle, Exists, InBoundary

\* A change of status alone, on a row that exists.
LEMMA SetStatusRow ==
  ASSUME TypeOK, RowInv, NEW d \in Dep, NEW s \in Status, SetStatus(d, s), UNCHANGED secret
  PROVE  RowInv'
<1>1. CASE ~Exists(d)
  BY <1>1, RowFrame DEF SetStatus
<1>2. CASE Exists(d)
  <2>1. \A e \in Dep : /\ dep'[e].conn = dep[e].conn /\ dep'[e].agent = dep[e].agent
                       /\ e # d => dep'[e].status = dep[e].status
    BY <1>2 DEF SetStatus, TypeOK, DepRow
  <2>2. QED
    BY <1>2, <2>1 DEF RowInv, RowConnectionInBoundary, AgentHasBundle, Exists, InBoundary
<1>3. QED BY <1>1, <1>2

\* A write of one row and its bundle.
LEMMA WriteRow ==
  ASSUME RowInv, NEW d \in Dep, RowOK(dep'[d], secret'[d], d),
         \A e \in Dep \ {d} : dep'[e] = dep[e] /\ secret'[e] = secret[e]
  PROVE  RowInv'
BY DEF RowInv, RowOK, RowConnectionInBoundary, AgentHasBundle, Exists, InBoundary

LEMMA ReqRows ==
  ASSUME TypeOK, LocalInv, RowInv, NEW r \in Req, ReqStep(r)
  PROVE  RowInv'
<1> USE DEF rows, hist, ends
<1> DEFINE d == proc[r].d
<1>0. d \in Dep /\ proc[r].c \in Conn /\ proc[r].seen \in Status /\ LocalsOK(proc[r])
  BY LocalsTyped DEF Proc, LocalInv
<1>1. CASE CreateInsert(r)
  <2>1. CASE dep[d].status = "none" /\ NoConflict(d)
    <3>1. /\ dep' = [dep EXCEPT ![d] = [status |-> "queued", conn |-> proc[r].c,
                                        agent |-> 0, sub |-> fresh + 1]]
          /\ secret' = [secret EXCEPT ![d] = [sub |-> fresh + 1, node |-> 0]]
      BY <1>1, <2>1 DEF CreateInsert
    <3>2. InBoundary(proc[r].c, d)
      BY <1>0, <1>1 DEF CreateInsert, At, LocalsOK, Binding
    <3>3. dep'[d].conn = proc[r].c /\ dep'[d].agent = 0
      BY <1>0, <3>1 DEF TypeOK
    <3>4. RowOK(dep'[d], secret'[d], d)
      BY <3>2, <3>3 DEF RowOK
    <3>5. \A e \in Dep \ {d} : dep'[e] = dep[e] /\ secret'[e] = secret[e]
      BY <3>1 DEF TypeOK
    <3>6. QED BY <1>0, <3>4, <3>5, WriteRow
  <2>2. CASE ~(dep[d].status = "none" /\ NoConflict(d))
    BY <1>1, <2>2, RowFrame DEF CreateInsert
  <2>3. QED BY <2>1, <2>2
<1>2. CASE Rebind(r) \/ BeaconBind(r)
  <2>1. CASE Exists(d)
    <3>1. InBoundary(proc[r].c, d)
      BY <1>0, <1>2 DEF Rebind, BeaconBind, At, LocalsOK, Binding
    <3>2. dep' = [dep EXCEPT ![d].conn = proc[r].c] /\ secret' = secret
      BY <1>2, <2>1 DEF Rebind, BeaconBind
    <3>3. /\ dep'[d].conn = proc[r].c /\ dep'[d].agent = dep[d].agent
          /\ \A e \in Dep \ {d} : dep'[e] = dep[e]
      BY <1>0, <3>2 DEF TypeOK, DepRow
    <3>4. RowOK(dep'[d], secret'[d], d)
      BY <1>0, <2>1, <3>1, <3>2, <3>3, RowInvByRow DEF RowOK, Exists
    <3>5. QED BY <1>0, <3>2, <3>3, <3>4, WriteRow
  <2>2. CASE ~Exists(d)
    BY <1>2, <2>2, RowFrame DEF Rebind, BeaconBind
  <2>3. QED BY <2>1, <2>2
<1>3. CASE CompleteWrite(r)
  <2>1. CASE Exists(d)
    <3>1. proc[r].tok # 0
      BY <1>0, <1>3 DEF CompleteWrite, At, LocalsOK, Completing
    <3>2. /\ secret' = [secret EXCEPT ![d] = [sub |-> proc[r].sub, node |-> proc[r].tok]]
          /\ dep' = [dep EXCEPT ![d].agent = proc[r].tok, ![d].status = "agent_ready"]
      BY <1>3, <2>1 DEF CompleteWrite
    <3>3. secret'[d].node = proc[r].tok /\ dep'[d].conn = dep[d].conn
      BY <1>0, <3>2 DEF TypeOK, DepRow
    <3>4. \A e \in Dep \ {d} : dep'[e] = dep[e] /\ secret'[e] = secret[e]
      BY <3>2 DEF TypeOK
    <3>5. RowOK(dep'[d], secret'[d], d)
      BY <1>0, <2>1, <3>1, <3>3, RowInvByRow DEF RowOK, Exists
    <3>6. QED BY <1>0, <3>4, <3>5, WriteRow
  <2>2. CASE ~Exists(d)
    BY <1>3, <2>2, RowFrame DEF CompleteWrite
  <2>3. QED BY <2>1, <2>2
<1>4. CASE RotateSubWrite(r)
  <2>1. CASE Exists(d)
    <3>1. proc[r].node # 0
      BY <1>0, <1>4 DEF RotateSubWrite, At, LocalsOK, Rotating
    <3>2. /\ secret' = [secret EXCEPT ![d] = [sub |-> proc[r].tok, node |-> proc[r].node]]
          /\ dep' = [dep EXCEPT ![d].sub = proc[r].tok]
      BY <1>4, <2>1 DEF RotateSubWrite
    <3>3. secret'[d].node = proc[r].node /\ dep'[d].conn = dep[d].conn
      BY <1>0, <3>2 DEF TypeOK, DepRow
    <3>4. \A e \in Dep \ {d} : dep'[e] = dep[e] /\ secret'[e] = secret[e]
      BY <3>2 DEF TypeOK
    <3>5. RowOK(dep'[d], secret'[d], d)
      BY <1>0, <2>1, <3>1, <3>3, RowInvByRow DEF RowOK, Exists
    <3>6. QED BY <1>0, <3>4, <3>5, WriteRow
  <2>2. CASE ~Exists(d)
    BY <1>4, <2>2, RowFrame DEF RotateSubWrite
  <2>3. QED BY <2>1, <2>2
<1>5. CASE DeleteWrite(r)
  <2>1. /\ dep'[d].status = "gone"
        /\ \A e \in Dep \ {d} : dep'[e] = dep[e] /\ secret'[e] = secret[e]
    BY <1>0, <1>5 DEF DeleteWrite, TypeOK
  <2>2. RowOK(dep'[d], secret'[d], d)
    BY <2>1 DEF RowOK, RowStatus, Active
  <2>3. QED BY <1>0, <2>1, <2>2, WriteRow
<1>6. CASE CreateFailed(r) \/ RevokeMark(r) \/ RevokeFailed(r)
  <2>1. PICK s \in Status : SetStatus(d, s)
    BY <1>0, <1>6
       DEF CreateFailed, RevokeMark, RevokeFailed, Status, RowStatus, Active
  <2>2. secret' = secret
    BY <1>6 DEF CreateFailed, RevokeMark, RevokeFailed
  <2>3. QED BY <1>0, <2>1, <2>2, SetStatusRow
<1>7. CASE \/ ConnectInsert(r) \/ CreateStart(r) \/ CreateStartFails(r) \/ Ensure(r)
           \/ RotateBootWrite(r) \/ CompleteConsume(r) \/ CompleteStart(r)
           \/ CompleteStartFails(r)
  BY <1>7, RowFrame DEF ConnectInsert, CreateStart, CreateStartFails, Ensure, RotateBootWrite,
     CompleteConsume, CompleteStart, CompleteStartFails
<1>8. CASE \/ RotateSubLoad(r) \/ RotateSubUpload(r) \/ RotateSubUploadFails(r)
           \/ RetryStart(r) \/ RetryStartFails(r) \/ RevokeStart(r) \/ RevokeStartFails(r)
  BY <1>8, RowFrame DEF RotateSubLoad, RotateSubUpload, RotateSubUploadFails,
     RetryStart, RetryStartFails, RevokeStart, RevokeStartFails
<1>9. QED BY <1>1, <1>2, <1>3, <1>4, <1>5, <1>6, <1>7, <1>8 DEF ReqStep

LEMMA WfRows ==
  ASSUME TypeOK, RowInv, NEW w \in Wf, WfStep(w)
  PROVE  RowInv'
<1> USE DEF rows, hist, ends
<1> DEFINE d == proc[w].d
<1>0. d \in Dep
  BY LocalsTyped DEF Proc
<1>1. CASE WfMarkRevoked(w)
  <2>1. CASE Exists(d)
    <3>1. /\ dep' = [dep EXCEPT ![d].status = "revoked", ![d].sub = proc[w].tok, ![d].agent = 0]
          /\ secret' = secret
      BY <1>1, <2>1 DEF WfMarkRevoked
    <3>2. /\ dep'[d].conn = dep[d].conn /\ dep'[d].agent = 0
          /\ \A e \in Dep \ {d} : dep'[e] = dep[e]
      BY <1>0, <3>1 DEF TypeOK, DepRow
    <3>3. RowOK(dep'[d], secret'[d], d)
      BY <1>0, <2>1, <3>2, RowInvByRow DEF RowOK, Exists
    <3>4. QED BY <1>0, <3>1, <3>2, <3>3, WriteRow
  <2>2. CASE ~Exists(d)
    BY <1>1, <2>2, RowFrame DEF WfMarkRevoked
  <2>3. QED BY <2>1, <2>2
<1>2. CASE \/ WfMarkPreparing(w) \/ WfMarkAwaiting(w) \/ WfMarkFinalizing(w)
           \/ WfMarkReady(w) \/ WfCatch(w)
  <2>1. PICK s \in Status : SetStatus(d, s)
    BY <1>2 DEF WfMarkPreparing, WfMarkAwaiting, WfMarkFinalizing, WfMarkReady, WfMark,
       WfCatch, Status, RowStatus, Active
  <2>2. secret' = secret
    BY <1>2 DEF WfMarkPreparing, WfMarkAwaiting, WfMarkFinalizing, WfMarkReady, WfMark, WfCatch
  <2>3. QED BY <1>0, <2>1, <2>2, SetStatusRow
<1>3. CASE \/ WfLoad(w) \/ WfAuth(w) \/ WfPendingUpload(w) \/ WfPublishRead(w)
           \/ WfPublishUpload(w) \/ WfDisableUpload(w) \/ WfDropBoot(w)
           \/ WfStepFails(w) \/ WfReadyNotifyFails(w)
  BY <1>3, RowFrame DEF WfLoad, WfAuth, WfPendingUpload, WfPublishRead, WfPublishUpload,
     WfDisableUpload, WfDropBoot, WfStepFails, WfReadyNotifyFails
<1>4. CASE WfLoadFails(w) \/ WfEraseFails(w) \/ WfDies(w)
  <2>1. secret' = secret /\ (dep' = dep \/ SetStatus(d, "failed"))
    BY <1>4 DEF WfLoadFails, WfEraseFails, WfDies
  <2> QED BY <1>0, <2>1, RowFrame, SetStatusRow DEF Status, RowStatus
<1>5. QED BY <1>1, <1>2, <1>3, <1>4 DEF WfStep

LEMMA RowPreserved == TypeOK /\ LocalInv /\ RowInv /\ [Next]_vars => RowInv'
<1> SUFFICES ASSUME TypeOK, LocalInv, RowInv, [Next]_vars PROVE RowInv'
  OBVIOUS
<1> USE DEF rows, hist, ends
<1>1. CASE \E r \in Req : Arrive(r)
  BY <1>1, RowFrame DEF Arrive, ConnectCheck, DisconnectCheck, CreateCheck, RotateBootRead,
     CompleteRead, RotateSubRead, RetryRead, RevokeRead, DeleteRead, BeaconRead
<1>2. CASE \/ \E p \in Proc : Erase(p)
           \/ \E c \in Conn : Expire(c)
           \/ CronErase
           \/ \E d \in Dep : ExpireBoot(d)
           \/ \E r \in Req : Kill(r)
           \/ UNCHANGED vars
  BY <1>2, RowFrame DEF Erase, IdleCount, IdleScrub, Expire, CronErase, ExpireBoot, Kill, vars
<1>3. QED BY <1>1, <1>2, ReqRows, WfRows DEF Next, Continue, Rest

-----------------------------------------------------------------------------
(***************************************************************************)
(* The theorems.                                                           *)
(***************************************************************************)

Inv == TypeOK /\ BootInv /\ LocalInv /\ Labels /\ RowInv

LEMMA InvInit == Init => Inv
<1> SUFFICES ASSUME Init PROVE Inv
  OBVIOUS
<1>1. BootInv
  BY ConstantsAssumption DEF Init, BootInv, Tok
<1>2. LocalInv
  BY IdleLocals DEF Init, LocalInv
<1>3. RowInv
  BY DEF Init, RowInv, RowConnectionInBoundary, AgentHasBundle, Exists, RowStatus, Active
<1>4. Labels
  BY DEF Init, Labels, IdleProc, Proc, WfPC, ReqPC
<1> QED BY <1>1, <1>2, <1>3, <1>4, InitTyped DEF Inv

LEMMA InvNext == Inv /\ [Next]_vars => Inv'
BY NextTyped, BootPreserved, LocalPreserved, LabelsPreserved, RowPreserved DEF Inv

LEMMA Invariance == Spec => []Inv
<1>1. QED BY InvInit, InvNext, PTL DEF Spec

\* A bootstrap token is accepted at most once: the compare-and-set of
\* completeBootstrap suffices however its reads interleave with rotations,
\* expiries, revocations and deletions.
THEOREM TokensUsedOnce == Spec => []BootstrapOnce
<1>1. Inv => BootstrapOnce
  BY DEF Inv, BootInv, BootstrapOnce
<1>2. QED BY <1>1, Invariance, PTL

\* A deployment row never names a connection of another tenant or zone, so the
\* workflow, which loads the connection by id alone, uses only the tenant's own.
THEOREM ConnectionsStayInBoundary == Spec => []RowConnectionInBoundary
<1>1. Inv => RowConnectionInBoundary
  BY DEF Inv, RowInv
<1>2. QED BY <1>1, Invariance, PTL

\* A row with an agent always has the node credentials in its bundle, whichever
\* of completeBootstrap and rotateSubscriptionToken wrote the bundle last.
THEOREM AgentsKeepBundle == Spec => []AgentHasBundle
<1>1. Inv => AgentHasBundle
  BY DEF Inv, RowInv
<1>2. QED BY <1>1, Invariance, PTL
-----------------------------------------------------------------------------
(***************************************************************************)
(* One request at a time (Serial): status and script agree.                *)
(***************************************************************************)

\* In the scripts P the site of d serves the profiles of d.
Serves(d, P) == P[DepSite[d]].mode = "ready" /\ P[DepSite[d]].by = d

Preparing == {"dns", "pendingAuth", "pendingUpload"}
Publishing == {"publishRead", "publishUpload"}
Disabling == {"disableAuth", "disableUpload"}
RotatingSub == {"rotateSubLoad", "rotateSubUpload", "rotateSubWrite"}
Revoking == {"revokeMark", "revokeStart", "revokeFailed"}

\* What a process with the locals q is on its way to.
Purpose(q) == IF q.pc \in {"ensure", "rebind"} THEN q.then ELSE q.pc

\* The row of its deployment in the rows D and the script in P while a process
\* has the locals q: the status it works under and, where it is about to write
\* "ready" or "revoked", or to write back a status, what the site serves.  The
\* deployments of X are those whose "ready" promises nothing (crossed).
Placed(q, D, P, X) ==
  /\ q.pc \in {"ensure", "rebind"} => q.then \in {"rotateSubLoad", "retryStart", "revokeMark"}
  /\ q.pc \in WfPC \ {"load", "catch"} => D[q.d].status \in RowStatus
  /\ q.pc \in Preparing \cup Disabling => (D[q.d].status = "ready" => q.d \in X)
  /\ q.pc \in Publishing => D[q.d].status # "revoked"
  /\ q.pc = "markReady" => Serves(q.d, P)
  /\ q.pc = "load" /\ q.act = "revoke" => (D[q.d].status = "ready" => q.d \in X)
  /\ Purpose(q) = "retryStart" => q.act # "revoke"
  /\ q.pc \in {"markRevoked", "dropBoot"} => ~Serves(q.d, P)
  /\ Purpose(q) \in RotatingSub => D[q.d].status = "ready"
  /\ Purpose(q) \in Revoking => /\ q.seen \in RowStatus \ {"revoked"}
                                /\ q.seen = "ready" => Serves(q.d, P) \/ q.d \in X
  /\ Purpose(q) = "revokeMark" => D[q.d].status \in RowStatus
  /\ q.pc = "revokeStart" => D[q.d].status = "revoking"

\* Nothing interleaves, but for the end of a request that took the start of its
\* workflow for failed.
Tail == {"createFailed", "revokeFailed", "idleCount", "idleScrub"}
Ends(p) == /\ p \in Req /\ proc[p].pc \in Tail
           /\ At(p, "revokeFailed") => proc[p].d \in crossed
Alone == \A p, q \in Proc :
  \/ p = q \/ At(p, "idle") \/ At(q, "idle")
  \/ p \in Wf /\ Ends(q)
  \/ q \in Wf /\ Ends(p)

\* Only p is in flight.
Only(p) == \A q \in Proc \ {p} : At(q, "idle")

\* A site has at most one row, which agrees with its script.
SitesInv ==
  /\ \A d, e \in Dep : Exists(d) /\ Exists(e) /\ DepSite[d] = DepSite[e] => d = e
  /\ RevokedIsDisabled /\ ReadyIsPublished

AllPlaced == \A p \in Proc : Placed(proc[p], dep, plane, crossed)

SerialInv == Alone /\ SitesInv /\ AllPlaced

\* Labels at which a process relies on neither row nor script.
Free == PC \ ((WfPC \ {"catch"}) \cup RotatingSub \cup Revoking
                \cup {"ensure", "rebind", "retryStart"})

LEMMA FreePlaced ==
  ASSUME NEW q, q.pc \in Free, NEW D, NEW P, NEW X
  PROVE  Placed(q, D, P, X)
BY DEF Free, Placed, Purpose, WfPC, Preparing, Publishing, Disabling, RotatingSub, Revoking

LEMMA IdlePlaced ==
  ASSUME NEW q, q.pc = "idle", NEW D, NEW P, NEW X
  PROVE  Placed(q, D, P, X)
BY FreePlaced DEF Free, PC, WfPC, RotatingSub, Revoking

\* The end of such a request relies on no row and, its deployment being crossed,
\* on no script.
LEMMA TailPlaced ==
  ASSUME NEW q \in ProcRec, q.pc \in Tail, NEW D, NEW P, NEW X, NEW D2, NEW P2, NEW X2,
         Placed(q, D, P, X), q.pc = "revokeFailed" => q.d \in X2
  PROVE  Placed(q, D2, P2, X2)
<1>1. CASE q.pc = "revokeFailed"
  BY <1>1 DEF Placed, Purpose, WfPC, Preparing, Publishing, Disabling, RotatingSub, Revoking
<1>2. CASE q.pc \in {"createFailed", "idleCount", "idleScrub"}
  <2>1. q.pc \in Free
    BY <1>2 DEF Free, PC, ReqPC, WfPC, RotatingSub, Revoking
  <2> QED BY <2>1, FreePlaced
<1> QED BY <1>1, <1>2 DEF Tail

\* A request at any other label, or the first process, is the only one.
LEMMA ReqOnly ==
  ASSUME Alone, NEW r \in Req, ~At(r, "idle"), proc[r].pc \notin Tail
  PROVE  Only(r)
BY ConstantsAssumption DEF Alone, Only, Ends, Proc

LEMMA QuietOnly == Quiet => \A p \in Proc : Only(p)
BY DEF Quiet, Only

\* A step of a workflow, or of the only process in flight.
LEMMA SerialStep ==
  ASSUME TypeOK, Alone, AllPlaced, NEW p \in Proc,
         Only(p) \/ (p \in Wf /\ ~At(p, "idle")), crossed \subseteq crossed',
         NEW new, Step(p, new), Placed(new, dep', plane', crossed')
  PROVE  Alone' /\ AllPlaced'
<1>1. proc'[p] = new /\ \A q \in Proc \ {p} : proc'[q] = proc[q]
  BY DEF Step, TypeOK
<1>2. ASSUME NEW q \in Proc \ {p} PROVE At(q, "idle") \/ (p \in Wf /\ Ends(q))
  BY <1>2, ConstantsAssumption DEF Only, Alone, Ends
<1>3. ASSUME NEW q \in Proc \ {p} PROVE At(q, "idle")' \/ (p \in Wf /\ Ends(q)')
  BY <1>1, <1>2, <1>3 DEF At, Ends
<1>4. ASSUME NEW q \in Proc \ {p} PROVE Placed(proc'[q], dep', plane', crossed')
  <2>1. CASE At(q, "idle")
    BY <1>1, <2>1, IdlePlaced DEF At
  <2>2. CASE Ends(q)
    <3>1. proc[q] \in ProcRec /\ Placed(proc[q], dep, plane, crossed)
      BY DEF TypeOK, AllPlaced
    <3> QED BY <1>1, <2>2, <3>1, TailPlaced DEF Ends, At
  <2> QED BY <1>2, <2>1, <2>2
<1>5. AllPlaced'
  BY <1>1, <1>4 DEF AllPlaced
<1>6. ASSUME NEW q \in Proc, NEW s \in Proc
      PROVE  \/ q = s \/ At(q, "idle")' \/ At(s, "idle")'
             \/ (q \in Wf /\ Ends(s)')
             \/ (s \in Wf /\ Ends(q)')
  <2>1. CASE q # p /\ s # p
    <3>1. proc'[q] = proc[q] /\ proc'[s] = proc[s]
      BY <1>1, <2>1
    <3> QED BY <3>1 DEF Alone, At, Ends
  <2>2. CASE q = p \/ s = p
    BY <1>3, <2>2
  <2> QED BY <2>1, <2>2
<1> QED BY <1>5, <1>6 DEF Alone

LEMMA SerialDone ==
  ASSUME TypeOK, Alone, AllPlaced, NEW p \in Proc,
         Only(p) \/ (p \in Wf /\ ~At(p, "idle")), crossed \subseteq crossed', Done(p)
  PROVE  Alone' /\ AllPlaced'
<1>1. IdleProc.pc = "idle"
  BY DEF IdleProc
<1>2. Placed(IdleProc, dep', plane', crossed')
  BY <1>1, IdlePlaced
<1> QED BY <1>2, SerialStep DEF Done

LEMMA SerialGoto ==
  ASSUME TypeOK, Alone, AllPlaced, NEW p \in Proc,
         Only(p) \/ (p \in Wf /\ ~At(p, "idle")), crossed \subseteq crossed',
         NEW l, Goto(p, l), Placed([proc[p] EXCEPT !.pc = l], dep', plane', crossed')
  PROVE  Alone' /\ AllPlaced'
BY SerialStep, SerialDone DEF Goto

\* On to a label that relies on nothing.
LEMMA SerialFree ==
  ASSUME TypeOK, Alone, AllPlaced, NEW p \in Proc,
         Only(p) \/ (p \in Wf /\ ~At(p, "idle")), crossed \subseteq crossed',
         NEW l \in Free, Goto(p, l)
  PROVE  Alone' /\ AllPlaced'
<1> DEFINE new == [proc[p] EXCEPT !.pc = l]
<1>1. new.pc \in Free
  BY DEF TypeOK, ProcRec
<1> HIDE DEF new
<1>2. Placed(new, dep', plane', crossed')
  BY <1>1, FreePlaced
<1> QED BY <1>2, SerialGoto DEF new

\* The end of a request beside its workflow: it writes no status a workflow
\* does not expect.
LEMMA SerialTail ==
  ASSUME TypeOK, Labels, Alone, AllPlaced, NEW r \in Req, proc[r].pc \in Tail, ~Only(r),
         crossed' = crossed, plane' = plane, NEW l \in {"idle", "idleCount", "idleScrub"},
         Goto(r, l),
         \A e \in Dep : \/ dep'[e].status = dep[e].status
                        \/ /\ dep'[e].status \in RowStatus \ {"revoked"}
                           /\ dep'[e].status = "ready" => e \in crossed
  PROVE  Alone' /\ AllPlaced'
<1>0. r \in Proc /\ ~At(r, "idle")
  BY DEF Proc, At, Tail
<1>1. /\ proc'[r].pc = l /\ \A q \in Proc \ {r} : proc'[q] = proc[q]
  BY <1>0 DEF Goto, Done, Step, IdleProc, TypeOK, ProcRec
<1>2. ASSUME NEW q \in Proc \ {r} PROVE At(q, "idle") \/ q \in Wf
  BY <1>0, <1>2, ConstantsAssumption DEF Alone, Ends
<1>3. Ends(r)' \/ At(r, "idle")'
  BY <1>1 DEF Ends, At, Tail
<1>4. ASSUME NEW q \in Proc \ {r} PROVE Placed(proc'[q], dep', plane', crossed')
  <2>1. CASE At(q, "idle")
    BY <1>1, <2>1, IdlePlaced DEF At
  <2>2. CASE ~At(q, "idle")
    <3>1. q \in Wf /\ Ends(r)
      BY <1>0, <1>2, <2>2, ConstantsAssumption DEF Alone, Ends
    <3>2. Placed(proc[q], dep, plane, crossed) /\ proc[q].d \in Dep
      BY LocalsTyped DEF AllPlaced
    <3>3. proc'[q] = proc[q]
      BY <1>1
    <3>4. proc[q].pc \notin ReqPC
      BY <3>1 DEF Labels
    <3>5. /\ Purpose(proc[q]) \notin RotatingSub \cup Revoking \cup {"retryStart", "revokeMark"}
          /\ proc[q].pc \notin {"ensure", "rebind", "revokeStart"}
      BY <3>4 DEF Purpose, RotatingSub, Revoking, ReqPC
    <3> DEFINE e == proc[q].d
    <3>6. \/ dep'[e].status = dep[e].status
          \/ dep'[e].status \in RowStatus \ {"revoked"} /\ (dep'[e].status = "ready" => e \in crossed)
      BY <3>2
    <3>7. Serves(e, plane') <=> Serves(e, plane)
      BY DEF Serves
    <3> HIDE DEF e
    <3> QED BY <3>2, <3>3, <3>5, <3>6, <3>7 DEF Placed, e
  <2> QED BY <2>1, <2>2
<1>5. AllPlaced'
  <2>1. Placed(proc'[r], dep', plane', crossed')
    <3>1. proc'[r].pc \in Free
      BY <1>1 DEF Free, PC, WfPC, RotatingSub, Revoking
    <3> QED BY <3>1, FreePlaced
  <2> QED BY <1>4, <2>1 DEF AllPlaced
<1>6. ASSUME NEW q \in Proc, NEW s \in Proc
      PROVE  \/ q = s \/ At(q, "idle")' \/ At(s, "idle")'
             \/ (q \in Wf /\ Ends(s)')
             \/ (s \in Wf /\ Ends(q)')
  <2>1. CASE q # r /\ s # r
    <3>1. proc'[q] = proc[q] /\ proc'[s] = proc[s]
      BY <1>1, <2>1
    <3> QED BY <3>1 DEF Alone, At, Ends
  <2>2. CASE q = r \/ s = r
    <3>1. \A t \in Proc \ {r} : At(t, "idle")' \/ t \in Wf
      BY <1>1, <1>2 DEF At
    <3> QED BY <1>3, <2>2, <3>1
  <2> QED BY <2>1, <2>2
<1> QED BY <1>5, <1>6 DEF Alone

\* A workflow starts; the request goes on with the locals rest, when its end may
\* be beside the workflow.
LEMMA SerialLaunch ==
  ASSUME TypeOK, Alone, NEW r \in Req, Only(r), ~At(r, "idle"), NEW act \in Action,
         NEW rest, Launch(r, act, rest),
         act = "revoke" => dep'[proc[r].d].status = "revoking",
         rest.pc \in Tail \cup {"idle"}, rest.pc = "revokeFailed" => rest.d \in crossed',
         Placed(rest, dep', plane', crossed')
  PROVE  Alone' /\ AllPlaced'
<1> DEFINE new == [IdleProc EXCEPT !.pc = "load", !.act = act, !.d = proc[r].d]
<1>1. PICK w \in Wf : proc[w].pc = "idle" /\ proc' = [proc EXCEPT ![r] = rest, ![w] = new]
  BY DEF Launch, At
<1>2. r # w /\ r \in Proc /\ w \in Proc
  BY <1>1, ConstantsAssumption DEF Proc
<1>3. /\ proc'[w] = new /\ proc'[r] = rest
      /\ \A q \in Proc \ {r, w} : proc'[q] = proc[q] /\ proc[q].pc = "idle"
  BY <1>1, <1>2 DEF TypeOK, Only, At
<1>4. new.pc = "load" /\ new.act = act /\ new.d = proc[r].d
  BY IdleTyped DEF ProcRec, IdleProc
<1>5. Placed(new, dep', plane', crossed')
  BY <1>4 DEF Placed, Purpose, WfPC, Preparing, Publishing, Disabling, RotatingSub, Revoking
<1>6. AllPlaced'
  BY <1>2, <1>3, <1>4, <1>5, IdlePlaced DEF AllPlaced
<1>7. Ends(r)' \/ At(r, "idle")'
  BY <1>3 DEF Ends, At
<1>8. ASSUME NEW q \in Proc, q # w, q # r PROVE At(q, "idle")'
  BY <1>3, <1>8 DEF At
<1> QED BY <1>2, <1>6, <1>7, <1>8 DEF Alone

LEMMA SerialSpawn ==
  ASSUME TypeOK, Alone, NEW r \in Req, Only(r), ~At(r, "idle"), NEW act \in Action,
         Spawn(r, act), act = "revoke" => dep'[proc[r].d].status = "revoking"
  PROVE  Alone' /\ AllPlaced'
<1>1. IdleProc.pc = "idle"
  BY DEF IdleProc
<1>2. Placed(IdleProc, dep', plane', crossed')
  BY <1>1, IdlePlaced
<1> QED BY <1>1, <1>2, SerialLaunch DEF Spawn

\* What keeps SitesInv: no status and no script changes; ...
LEMMA SitesFrame ==
  ASSUME SitesInv, plane' = plane, crossed \subseteq crossed',
         \A e \in Dep : dep'[e].status = dep[e].status
  PROVE  SitesInv'
BY DEF SitesInv, RevokedIsDisabled, ReadyIsPublished, Exists

\* ... a status is written that agrees with the script; ...
LEMMA SitesStatus ==
  ASSUME SitesInv, NEW d \in Dep, NEW s, plane' = plane, crossed' = crossed,
         Exists(d) \/ s \notin RowStatus \/ NoConflict(d),
         dep'[d].status = s, \A e \in Dep \ {d} : dep'[e].status = dep[e].status,
         s = "revoked" => ~Serves(d, plane), s = "ready" => Serves(d, plane) \/ d \in crossed
  PROVE  SitesInv'
BY DEF SitesInv, RevokedIsDisabled, ReadyIsPublished, Exists, Serves, NoConflict

LEMMA SitesSet ==
  ASSUME TypeOK, SitesInv, NEW d \in Dep, NEW s \in RowStatus, plane' = plane,
         crossed' = crossed, SetStatus(d, s),
         s = "revoked" => ~Serves(d, plane), s = "ready" => Serves(d, plane) \/ d \in crossed
  PROVE  SitesInv'
<1>1. CASE Exists(d)
  <2>1. dep'[d].status = s /\ \A e \in Dep \ {d} : dep'[e].status = dep[e].status
    BY <1>1 DEF SetStatus, TypeOK, DepRow
  <2> QED BY <1>1, <2>1, SitesStatus
<1>2. CASE ~Exists(d)
  BY <1>2, SitesFrame DEF SetStatus
<1> QED BY <1>1, <1>2

\* ... a script is uploaded that agrees with the status.
LEMMA SitesUpload ==
  ASSUME TypeOK, SitesInv, NEW d \in Dep, NEW mode, NEW hash, NEW link, NEW node,
         dep' = dep, crossed' = crossed, Exists(d), Upload(d, mode, hash, link, node),
         dep[d].status = "revoked" => mode # "ready",
         dep[d].status = "ready" => mode = "ready" \/ d \in crossed
  PROVE  SitesInv' /\ (Serves(d, plane') <=> mode = "ready")
<1>1. /\ plane'[DepSite[d]].mode = mode /\ plane'[DepSite[d]].by = d
      /\ \A e \in Dep : DepSite[e] # DepSite[d] => plane'[DepSite[e]] = plane[DepSite[e]]
  BY ConstantsAssumption DEF Upload, TypeOK
<1>2. \A e \in Dep : Exists(e) /\ DepSite[e] = DepSite[d] => e = d
  BY DEF SitesInv
<1>3. \A e \in Dep : dep[e].status \in {"ready", "revoked"} => Exists(e)
  BY DEF Exists, RowStatus
<1> QED BY <1>1, <1>2, <1>3 DEF SitesInv, RevokedIsDisabled, ReadyIsPublished, Exists, Serves

\* The three parts of SerialInv after a step, gathered.
LEMMA SerialParts ==
  ASSUME Alone', SitesInv', AllPlaced'
  PROVE  SerialInv'
BY DEF SerialInv

\* A request arrives: none of its reads changes a row or a script.
LEMMA SerialArrive ==
  ASSUME Serial, TypeOK, SerialInv, NEW r \in Req, Arrive(r)
  PROVE  SerialInv'
<1> USE DEF rows, hist, ends
<1>0. r \in Proc /\ Alone /\ SitesInv /\ AllPlaced
  BY DEF Proc, SerialInv
<1>1. dep' = dep /\ plane' = plane /\ crossed' = crossed
  BY DEF Arrive, ConnectCheck, DisconnectCheck, CreateCheck, RotateBootRead,
     CompleteRead, RotateSubRead, RetryRead, RevokeRead, DeleteRead, BeaconRead
<1>2. SitesInv'
  BY <1>0, <1>1, SitesFrame
<1>3. ASSUME NEW k, NEW new, Begin(r, k, new), Placed(new, dep, plane, crossed)
      PROVE  SerialInv'
  BY <1>0, <1>1, <1>2, <1>3, QuietOnly, SerialStep, SerialParts DEF Begin
<1> USE IdleTyped DEF ProcRec
<1>5. ASSUME NEW c \in Conn, ConnectCheck(r, c) PROVE SerialInv'
  <2> DEFINE new == [IdleProc EXCEPT !.pc = "connectInsert", !.c = c]
  <2>1. new.pc \in Free /\ IdleProc.pc \in Free
    BY DEF IdleProc, Free, PC, ReqPC, WfPC, RotatingSub, Revoking
  <2> HIDE DEF new
  <2>2. Placed(new, dep, plane, crossed) /\ Placed(IdleProc, dep, plane, crossed)
    BY <2>1, FreePlaced
  <2>3. Begin(r, "connect", new) \/ Begin(r, "connect", IdleProc)
    BY <1>5 DEF ConnectCheck, new
  <2> QED BY <1>3, <2>2, <2>3
<1>6. ASSUME NEW c \in Conn, DisconnectCheck(r, c) PROVE SerialInv'
  <2> DEFINE new == [IdleProc EXCEPT !.pc = "idleScrub", !.c = c]
  <2>1. new.pc \in Free
    BY DEF Free, PC, ReqPC, WfPC, RotatingSub, Revoking
  <2> HIDE DEF new
  <2>2. Placed(new, dep, plane, crossed)
    BY <2>1, FreePlaced
  <2> QED BY <1>3, <1>6, <2>2 DEF DisconnectCheck, new
<1>7. ASSUME NEW d \in Dep, NEW c \in Conn, CreateCheck(r, d, c) PROVE SerialInv'
  <2> DEFINE new == [IdleProc EXCEPT !.pc = "createInsert", !.d = d, !.c = c]
  <2>1. new.pc \in Free
    BY DEF Free, PC, ReqPC, WfPC, RotatingSub, Revoking
  <2> HIDE DEF new
  <2>2. Placed(new, dep, plane, crossed)
    BY <2>1, FreePlaced
  <2> QED BY <1>3, <1>7, <2>2 DEF CreateCheck, new
<1>8. ASSUME NEW d \in Dep, NEW c \in Conn, BeaconRead(r, d, c) PROVE SerialInv'
  <2> DEFINE new == [IdleProc EXCEPT !.pc = "beaconBind", !.d = d, !.c = c]
  <2>1. new.pc \in Free
    BY DEF Free, PC, ReqPC, WfPC, RotatingSub, Revoking
  <2> HIDE DEF new
  <2>2. Placed(new, dep, plane, crossed)
    BY <2>1, FreePlaced
  <2> QED BY <1>3, <1>8, <2>2 DEF BeaconRead, new
<1>9. ASSUME NEW d \in Dep, RotateBootRead(r, d) PROVE SerialInv'
  <2> DEFINE new == [IdleProc EXCEPT !.pc = "rotateBootWrite", !.d = d]
  <2>1. new.pc \in Free
    BY DEF Free, PC, ReqPC, WfPC, RotatingSub, Revoking
  <2> HIDE DEF new
  <2>2. Placed(new, dep, plane, crossed)
    BY <2>1, FreePlaced
  <2> QED BY <1>3, <1>9, <2>2 DEF RotateBootRead, new
<1>10. ASSUME NEW d \in Dep, CompleteRead(r, d) PROVE SerialInv'
  <2> DEFINE new == [IdleProc EXCEPT !.pc = "completeConsume", !.d = d, !.tok = boot[d].tok,
                       !.sub = secret[d].sub]
  <2>1. new.pc \in Free
    BY DEF Free, PC, ReqPC, WfPC, RotatingSub, Revoking
  <2> HIDE DEF new
  <2>2. Placed(new, dep, plane, crossed)
    BY <2>1, FreePlaced
  <2> QED BY <1>3, <1>10, <2>2 DEF CompleteRead, new
<1>11. ASSUME NEW d \in Dep, DeleteRead(r, d) PROVE SerialInv'
  <2> DEFINE new == [IdleProc EXCEPT !.pc = "deleteWrite", !.d = d]
  <2>1. new.pc \in Free
    BY DEF Free, PC, ReqPC, WfPC, RotatingSub, Revoking
  <2> HIDE DEF new
  <2>2. Placed(new, dep, plane, crossed)
    BY <2>1, FreePlaced
  <2> QED BY <1>3, <1>11, <2>2 DEF DeleteRead, new
<1> USE DEF Placed, Purpose, WfPC, Preparing, Publishing, Disabling, RotatingSub, Revoking
<1>12. ASSUME NEW d \in Dep, RotateSubRead(r, d) PROVE SerialInv'
  <2> DEFINE new == [IdleProc EXCEPT !.pc = "ensure", !.then = "rotateSubLoad",
                       !.d = d, !.c = dep[d].conn]
  <2>1. new.pc = "ensure" /\ new.then = "rotateSubLoad" /\ new.d = d /\ dep[d].status = "ready"
    BY <1>12 DEF RotateSubRead
  <2>2. Placed(new, dep, plane, crossed)
    BY <2>1
  <2> QED BY <1>3, <1>12, <2>2 DEF RotateSubRead
<1>13. ASSUME NEW d \in Dep, RetryRead(r, d) PROVE SerialInv'
  <2> DEFINE new == [IdleProc EXCEPT !.pc = "ensure", !.then = "retryStart", !.d = d,
                       !.c = dep[d].conn,
                       !.act = IF dep[d].agent # 0 THEN "finalize" ELSE "prepare"]
  <2>1. new.pc = "ensure" /\ new.then = "retryStart" /\ new.act # "revoke"
    OBVIOUS
  <2>2. Placed(new, dep, plane, crossed)
    BY <2>1
  <2> QED BY <1>3, <1>13, <2>2 DEF RetryRead
<1>14. ASSUME NEW d \in Dep, RevokeRead(r, d) PROVE SerialInv'
  <2> DEFINE new == [IdleProc EXCEPT !.pc = "ensure", !.then = "revokeMark",
                       !.d = d, !.c = dep[d].conn, !.seen = dep[d].status]
  <2>1. /\ new.pc = "ensure" /\ new.then = "revokeMark" /\ new.d = d
        /\ new.seen = dep[d].status /\ dep[d].status \in RowStatus \ {"revoked"}
    BY <1>14 DEF RevokeRead
  <2>2. dep[d].status = "ready" => Serves(d, plane) \/ d \in crossed
    BY <1>0 DEF SitesInv, ReadyIsPublished, Serves
  <2>3. Placed(new, dep, plane, crossed)
    BY <2>1, <2>2
  <2> QED BY <1>3, <1>14, <2>3 DEF RevokeRead
<1> QED
  BY <1>5, <1>6, <1>7, <1>8, <1>9, <1>10, <1>11, <1>12, <1>13, <1>14 DEF Arrive

\* What the locals are after a jump.
LEMMA Jumped ==
  ASSUME TypeOK, NEW p \in Proc, NEW l
  PROVE  LET new == [proc[p] EXCEPT !.pc = l]
         IN /\ new.pc = l /\ new.then = proc[p].then /\ new.act = proc[p].act
            /\ new.d = proc[p].d /\ new.seen = proc[p].seen
BY DEF TypeOK, ProcRec

LEMMA FreeLabels ==
  {"idle", "idleCount", "idleScrub", "createStart", "createFailed", "completeWrite",
   "completeStart", "catch"} \subseteq Free
BY DEF Free, PC, ReqPC, WfPC, RotatingSub, Revoking

\* The catch blocks of a start that failed, or seemed to.
LEMMA SerialReqEnds ==
  ASSUME TypeOK, Labels, SerialInv, NEW r \in Req, CreateFailed(r) \/ RevokeFailed(r)
  PROVE  SerialInv'
<1> USE DEF rows, ends
<1> DEFINE d == proc[r].d
<1>0. /\ r \in Proc /\ d \in Dep /\ Alone /\ SitesInv /\ AllPlaced
      /\ Placed(proc[r], dep, plane, crossed)
  BY LocalsTyped DEF Proc, SerialInv, AllPlaced
<1>1. PICK s \in RowStatus \ {"revoked"}, l \in {"idle", "idleCount", "idleScrub"} :
        /\ SetStatus(d, s) /\ Goto(r, l) /\ plane' = plane /\ crossed' = crossed
        /\ \/ At(r, "createFailed") /\ s = "failed"
           \/ At(r, "revokeFailed") /\ s = proc[r].seen
  <2>1. CASE CreateFailed(r)
    BY <2>1 DEF CreateFailed, RowStatus, ends, hist
  <2>2. CASE RevokeFailed(r)
    <3>1. proc[r].seen \in RowStatus \ {"revoked"}
      BY <1>0, <2>2 DEF RevokeFailed, At, Placed, Purpose, Revoking
    <3> QED BY <2>2, <3>1 DEF RevokeFailed, Abandon, Goto
  <2> QED BY <2>1, <2>2
<1>2. s = "ready" => Serves(d, plane) \/ d \in crossed
  BY <1>0, <1>1 DEF At, Placed, Purpose, Revoking
<1>3. SitesInv'
  BY <1>0, <1>1, <1>2, SitesSet
<1>4. CASE Only(r)
  BY <1>0, <1>1, <1>3, <1>4, SerialFree, SerialParts, FreeLabels
<1>5. CASE ~Only(r)
  <2>1. proc[r].pc \in Tail /\ ~At(r, "idle")
    BY <1>1 DEF At, Tail
  <2>2. At(r, "revokeFailed") => d \in crossed
    <3>1. PICK q \in Proc \ {r} : ~At(q, "idle")
      BY <1>5 DEF Only
    <3> QED BY <1>0, <2>1, <3>1, ConstantsAssumption DEF Alone, Ends
  <2>3. \A e \in Dep : \/ dep'[e].status = dep[e].status
                       \/ /\ dep'[e].status \in RowStatus \ {"revoked"}
                          /\ dep'[e].status = "ready" => e \in crossed
    BY <1>0, <1>1, <2>2 DEF SetStatus, At, TypeOK, DepRow
  <2> QED BY <1>0, <1>1, <1>3, <1>5, <2>1, <2>3, SerialTail, SerialParts
<1> QED BY <1>4, <1>5

\* A request in flight continues.
LEMMA SerialReq ==
  ASSUME TypeOK, LocalInv, Labels, SerialInv, NEW r \in Req, ReqStep(r)
  PROVE  SerialInv'
<1>a. CASE CreateFailed(r) \/ RevokeFailed(r)
  BY <1>a, SerialReqEnds
<1>b. SUFFICES ASSUME ~(CreateFailed(r) \/ RevokeFailed(r)) PROVE SerialInv'
  BY <1>a
<1>c. ~At(r, "idle") /\ proc[r].pc \notin Tail
  <2>1. CASE \/ ConnectInsert(r) \/ CreateInsert(r) \/ CreateStart(r) \/ CreateStartFails(r)
             \/ Ensure(r) \/ Rebind(r) \/ RotateBootWrite(r) \/ CompleteConsume(r)
             \/ CompleteWrite(r) \/ CompleteStart(r) \/ CompleteStartFails(r)
    BY <2>1 DEF ConnectInsert, CreateInsert, CreateStart, CreateStartFails, Ensure, Rebind,
       RotateBootWrite, CompleteConsume, CompleteWrite, CompleteStart, CompleteStartFails, At, Tail
  <2>2. CASE \/ RotateSubLoad(r) \/ RotateSubUpload(r) \/ RotateSubUploadFails(r)
             \/ RotateSubWrite(r) \/ RetryStart(r) \/ RetryStartFails(r) \/ RevokeMark(r)
             \/ RevokeStart(r) \/ RevokeStartFails(r) \/ DeleteWrite(r) \/ BeaconBind(r)
    BY <2>2 DEF RotateSubLoad, RotateSubUpload, RotateSubUploadFails, RotateSubWrite,
       RetryStart, RetryStartFails, RevokeMark, RevokeStart, RevokeStartFails, DeleteWrite,
       BeaconBind, At, Tail
  <2> QED BY <1>b, <2>1, <2>2 DEF ReqStep
<1> USE DEF rows, hist, ends
<1> DEFINE d == proc[r].d
<1>0. /\ r \in Proc /\ d \in Dep /\ Alone /\ SitesInv /\ AllPlaced
      /\ Placed(proc[r], dep, plane, crossed) /\ proc[r].act \in Action
      /\ Only(r) /\ ~At(r, "idle")
  BY <1>c, LocalsTyped, ReqOnly DEF Proc, SerialInv, AllPlaced
<1>1. ASSUME SitesInv', Alone' /\ AllPlaced'
      PROVE  SerialInv'
  BY <1>1, SerialParts
<1>2. CASE ConnectInsert(r) \/ RotateBootWrite(r) \/ CompleteStartFails(r)
  <2>1. crossed' = crossed /\ Done(r) /\ dep' = dep /\ plane' = plane
    BY <1>2 DEF ConnectInsert, RotateBootWrite, CompleteStartFails, At
  <2> QED BY <1>0, <1>1, <2>1, SitesFrame, SerialDone
<1>3. CASE RetryStartFails(r) \/ BeaconBind(r)
  <2>1. /\ crossed' = crossed /\ Done(r) /\ plane' = plane
        /\ \A e \in Dep : dep'[e].status = dep[e].status
    BY <1>0, <1>3 DEF RetryStartFails, BeaconBind, Abandon, At, TypeOK, DepRow
  <2> QED BY <1>0, <1>1, <2>1, SitesFrame, SerialDone
<1>4. CASE CreateInsert(r)
  <2>1. CASE dep[d].status = "none" /\ NoConflict(d)
    <3>1. /\ crossed' = crossed /\ Goto(r, "createStart") /\ plane' = plane
          /\ dep'[d].status = "queued" /\ \A e \in Dep \ {d} : dep'[e].status = dep[e].status
      BY <1>0, <1>4, <2>1 DEF CreateInsert, At, TypeOK
    <3>2. SitesInv'
      BY <1>0, <2>1, <3>1, SitesStatus
    <3> QED BY <1>0, <1>1, <3>1, <3>2, SerialFree, FreeLabels
  <2>2. CASE ~(dep[d].status = "none" /\ NoConflict(d))
    <3>1. crossed' = crossed /\ Done(r) /\ dep' = dep /\ plane' = plane
      BY <1>4, <2>2 DEF CreateInsert, At
    <3> QED BY <1>0, <1>1, <3>1, SitesFrame, SerialDone
  <2> QED BY <2>1, <2>2
<1>5. CASE CreateStart(r) \/ CompleteStart(r)
  <2>1. /\ crossed' = crossed /\ dep' = dep /\ plane' = plane
        /\ Spawn(r, "prepare") \/ Spawn(r, "finalize")
    BY <1>5 DEF CreateStart, CompleteStart, At
  <2> QED BY <1>0, <1>1, <2>1, SitesFrame, SerialSpawn DEF Action
<1>6. CASE RetryStart(r)
  <2>1. crossed' = crossed /\ dep' = dep /\ plane' = plane /\ Spawn(r, proc[r].act)
    BY <1>6 DEF RetryStart, At
  <2>2. proc[r].act # "revoke"
    BY <1>0, <1>6 DEF RetryStart, At, Placed, Purpose
  <2> QED BY <1>0, <1>1, <2>1, <2>2, SitesFrame, SerialSpawn
<1>7. CASE RevokeStart(r)
  <2>1. crossed' = crossed /\ dep' = dep /\ plane' = plane /\ Spawn(r, "revoke")
    BY <1>7 DEF RevokeStart, At
  <2>2. dep[d].status = "revoking"
    BY <1>0, <1>7 DEF RevokeStart, At, Placed
  <2> QED BY <1>0, <1>1, <2>1, <2>2, SitesFrame, SerialSpawn DEF Action
<1>8. CASE CreateStartFails(r)
  <2>1. /\ crossed' = crossed /\ plane' = plane /\ dep' = dep
        /\ Goto(r, "createFailed") \/ SpawnUnseen(r, "prepare", "createFailed")
    BY <1>8 DEF CreateStartFails
  <2>2. SitesInv'
    BY <1>0, <2>1, SitesFrame
  <2>3. CASE SpawnUnseen(r, "prepare", "createFailed")
    <3> DEFINE rest == [proc[r] EXCEPT !.pc = "createFailed"]
    <3>1. rest.pc = "createFailed" /\ Launch(r, "prepare", rest)
      BY <1>0, <2>3, Jumped DEF SpawnUnseen
    <3> HIDE DEF rest
    <3>2. Placed(rest, dep', plane', crossed')
      BY <3>1, FreePlaced, FreeLabels
    <3>3. Alone' /\ AllPlaced'
      BY <1>0, <3>1, <3>2, SerialLaunch DEF Action, Tail
    <3> QED BY <1>1, <2>2, <3>3
  <2> QED BY <1>0, <1>1, <2>1, <2>2, <2>3, SerialFree, FreeLabels
<1>9. CASE Ensure(r)
  <2>1. At(r, "ensure") /\ crossed' = crossed /\ dep' = dep /\ plane' = plane
    BY <1>9 DEF Ensure, At
  <2>2. SitesInv'
    BY <1>0, <2>1, SitesFrame
  <2>3. CASE Done(r)
    BY <1>0, <1>1, <2>1, <2>2, <2>3, SerialDone
  <2>4. CASE Goto(r, proc[r].then)
    <3> DEFINE new == [proc[r] EXCEPT !.pc = proc[r].then]
    <3>1. /\ new.pc = proc[r].then /\ new.act = proc[r].act
          /\ new.d = d /\ new.seen = proc[r].seen
      BY <1>0, Jumped
    <3> HIDE DEF new
    <3>2. Placed(new, dep', plane', crossed')
      BY <1>0, <2>1, <3>1
         DEF At, Placed, Purpose, WfPC, Preparing, Publishing, Disabling, RotatingSub, Revoking
    <3> QED BY <1>0, <1>1, <2>1, <2>2, <2>4, <3>2, SerialGoto DEF new
  <2>5. ASSUME NEW c \in Conn, Step(r, [proc[r] EXCEPT !.pc = "rebind", !.c = c])
        PROVE  SerialInv'
    <3> DEFINE new == [proc[r] EXCEPT !.pc = "rebind", !.c = c]
    <3>1. /\ new.pc = "rebind" /\ new.then = proc[r].then /\ new.act = proc[r].act
          /\ new.d = d /\ new.seen = proc[r].seen
      BY <1>0 DEF TypeOK, ProcRec
    <3> HIDE DEF new
    <3>2. Placed(new, dep', plane', crossed')
      BY <1>0, <2>1, <3>1
         DEF At, Placed, Purpose, WfPC, Preparing, Publishing, Disabling, RotatingSub, Revoking
    <3> QED BY <1>0, <1>1, <2>1, <2>2, <2>5, <3>2, SerialStep DEF new
  <2> QED BY <1>9, <2>3, <2>4, <2>5 DEF Ensure
<1>10. CASE Rebind(r)
  <2>1. /\ At(r, "rebind") /\ crossed' = crossed /\ plane' = plane /\ Goto(r, proc[r].then)
        /\ \A e \in Dep : dep'[e].status = dep[e].status
    BY <1>0, <1>10 DEF Rebind, At, TypeOK, DepRow
  <2>2. SitesInv'
    BY <1>0, <2>1, SitesFrame
  <2> DEFINE new == [proc[r] EXCEPT !.pc = proc[r].then]
  <2>3. /\ new.pc = proc[r].then /\ new.act = proc[r].act
        /\ new.d = d /\ new.seen = proc[r].seen
    BY <1>0, Jumped
  <2> HIDE DEF new
  <2>4. Placed(new, dep', plane', crossed')
    BY <1>0, <2>1, <2>3
       DEF At, Placed, Purpose, WfPC, Preparing, Publishing, Disabling, RotatingSub, Revoking
  <2> QED BY <1>0, <1>1, <2>1, <2>2, <2>4, SerialGoto DEF new
<1>11. CASE CompleteConsume(r)
  <2>1. /\ crossed' = crossed /\ dep' = dep /\ plane' = plane
        /\ Goto(r, "completeWrite") \/ Done(r)
    BY <1>11 DEF CompleteConsume, At
  <2> QED BY <1>0, <1>1, <2>1, SitesFrame, SerialDone, SerialFree, FreeLabels
<1>12. CASE CompleteWrite(r)
  <2>1. /\ crossed' = crossed /\ plane' = plane /\ Goto(r, "completeStart")
        /\ \A e \in Dep \ {d} : dep'[e].status = dep[e].status
        /\ Exists(d) => dep'[d].status = "agent_ready"
        /\ ~Exists(d) => dep' = dep
    BY <1>0, <1>12 DEF CompleteWrite, At, TypeOK, DepRow
  <2>2. SitesInv'
    BY <1>0, <2>1, SitesStatus, SitesFrame
  <2> QED BY <1>0, <1>1, <2>1, <2>2, SerialFree, FreeLabels
<1>13. CASE RotateSubLoad(r)
  <2>1. At(r, "rotateSubLoad") /\ crossed' = crossed /\ dep' = dep /\ plane' = plane
    BY <1>13 DEF RotateSubLoad, At
  <2>2. SitesInv'
    BY <1>0, <2>1, SitesFrame
  <2>3. CASE Done(r)
    BY <1>0, <1>1, <2>1, <2>2, <2>3, SerialDone
  <2>4. CASE ~Done(r)
    <3> DEFINE new == [proc[r] EXCEPT !.pc = "rotateSubUpload", !.c = dep[d].conn,
                         !.tok = fresh + 1, !.node = secret[d].node]
    <3>1. Step(r, new)
      BY <1>13, <2>4 DEF RotateSubLoad, Abandon
    <3>2. new.pc = "rotateSubUpload" /\ new.d = d
      BY <1>0 DEF TypeOK, ProcRec
    <3> HIDE DEF new
    <3>3. Placed(new, dep', plane', crossed')
      BY <1>0, <2>1, <3>2
         DEF At, Placed, Purpose, WfPC, Preparing, Publishing, Disabling, RotatingSub, Revoking
    <3> QED BY <1>0, <1>1, <2>1, <2>2, <3>1, <3>3, SerialStep
  <2> QED BY <2>3, <2>4
<1>14. CASE RotateSubUpload(r) \/ RotateSubUploadFails(r)
  <2>1. /\ crossed' = crossed /\ At(r, "rotateSubUpload") /\ dep' = dep
        /\ plane' = plane \/ Upload(d, "ready", proc[r].tok, proc[r].tok, proc[r].node)
        /\ Goto(r, "rotateSubWrite") \/ Done(r)
    BY <1>14 DEF RotateSubUpload, RotateSubUploadFails, Abandon, At
  <2>2. dep[d].status = "ready" /\ Exists(d)
    BY <1>0, <2>1 DEF At, Placed, Purpose, RotatingSub, Exists, RowStatus
  <2>3. SitesInv'
    BY <1>0, <2>1, <2>2, SitesFrame, SitesUpload
  <2> DEFINE new == [proc[r] EXCEPT !.pc = "rotateSubWrite"]
  <2>4. new.pc = "rotateSubWrite" /\ new.d = d
    BY <1>0, Jumped
  <2> HIDE DEF new
  <2>5. Placed(new, dep', plane', crossed')
    BY <2>1, <2>2, <2>4
       DEF Placed, Purpose, WfPC, Preparing, Publishing, Disabling, RotatingSub, Revoking
  <2> QED BY <1>0, <1>1, <2>1, <2>3, <2>5, SerialDone, SerialGoto DEF new
<1>15. CASE RotateSubWrite(r)
  <2>1. /\ crossed' = crossed /\ plane' = plane /\ Goto(r, "idleCount")
        /\ \A e \in Dep : dep'[e].status = dep[e].status
    BY <1>0, <1>15 DEF RotateSubWrite, At, TypeOK, DepRow
  <2> QED BY <1>0, <1>1, <2>1, SitesFrame, SerialFree, FreeLabels
<1>16. CASE RevokeMark(r)
  <2>1. /\ At(r, "revokeMark") /\ crossed' = crossed /\ plane' = plane
        /\ SetStatus(d, "revoking") /\ Goto(r, "revokeStart") /\ "revoking" \in RowStatus
    BY <1>16 DEF RevokeMark, At, RowStatus, Active
  <2>2. SitesInv'
    BY <1>0, <2>1, SitesSet
  <2>3. dep'[d].status = "revoking"
    BY <1>0, <2>1 DEF At, Placed, Purpose, Exists, SetStatus, TypeOK, DepRow
  <2> DEFINE new == [proc[r] EXCEPT !.pc = "revokeStart"]
  <2>4. new.pc = "revokeStart" /\ new.d = d /\ new.seen = proc[r].seen
    BY <1>0, Jumped
  <2> HIDE DEF new
  <2>5. Placed(new, dep', plane', crossed')
    BY <1>0, <2>1, <2>3, <2>4
       DEF At, Placed, Purpose, WfPC, Preparing, Publishing, Disabling, RotatingSub, Revoking
  <2> QED BY <1>0, <1>1, <2>1, <2>2, <2>5, SerialGoto DEF new
<1>17. CASE RevokeStartFails(r)
  <2> DEFINE rest == [proc[r] EXCEPT !.pc = "revokeFailed"]
  <2>1. /\ At(r, "revokeStart") /\ plane' = plane /\ dep' = dep
        /\ \/ Goto(r, "revokeFailed") /\ crossed' = crossed
           \/ Launch(r, "revoke", rest) /\ crossed' = crossed \cup {d}
    BY <1>17 DEF RevokeStartFails, SpawnUnseen
  <2>2. SitesInv'
    BY <1>0, <2>1, SitesFrame
  <2>3. rest.pc = "revokeFailed" /\ rest.d = d /\ rest.seen = proc[r].seen
    BY <1>0, Jumped
  <2> HIDE DEF rest
  <2>4. dep[d].status = "revoking" /\ crossed \subseteq crossed'
    BY <1>0, <2>1 DEF At, Placed
  <2>5. Placed(rest, dep', plane', crossed')
    BY <1>0, <2>1, <2>3, <2>4
       DEF At, Placed, Purpose, WfPC, Preparing, Publishing, Disabling, RotatingSub, Revoking
  <2>6. CASE Goto(r, "revokeFailed")
    BY <1>0, <1>1, <2>2, <2>4, <2>5, <2>6, SerialGoto DEF rest
  <2>7. CASE Launch(r, "revoke", rest) /\ crossed' = crossed \cup {d}
    <3>1. Alone' /\ AllPlaced'
      BY <1>0, <2>1, <2>3, <2>4, <2>5, <2>7, SerialLaunch DEF Action, Tail
    <3> QED BY <1>1, <2>2, <3>1
  <2> QED BY <2>1, <2>6, <2>7
<1>18. CASE DeleteWrite(r)
  <2>1. /\ crossed' = crossed /\ plane' = plane /\ Done(r) /\ dep'[d].status = "gone"
        /\ \A e \in Dep \ {d} : dep'[e].status = dep[e].status
    BY <1>0, <1>18 DEF DeleteWrite, At, TypeOK
  <2>2. SitesInv'
    BY <1>0, <2>1, SitesStatus DEF RowStatus, Active
  <2> QED BY <1>0, <1>1, <2>1, <2>2, SerialDone
<1> QED
  BY <1>b, <1>2, <1>3, <1>4, <1>5, <1>6, <1>7, <1>8, <1>9, <1>10, <1>11, <1>12, <1>13, <1>14, <1>15,
     <1>16, <1>17, <1>18 DEF ReqStep

\* A workflow instance continues.
LEMMA SerialWf ==
  ASSUME TypeOK, LocalInv, SerialInv, NEW w \in Wf, WfStep(w)
  PROVE  SerialInv'
<1> USE DEF rows, hist, ends
<1> DEFINE d == proc[w].d
<1>a. ~At(w, "idle") /\ crossed' = crossed
  <2>1. CASE \/ WfLoad(w) \/ WfAuth(w) \/ WfMarkPreparing(w) \/ WfPendingUpload(w)
             \/ WfMarkAwaiting(w) \/ WfMarkFinalizing(w) \/ WfPublishRead(w)
             \/ WfPublishUpload(w) \/ WfMarkReady(w)
    BY <2>1 DEF WfLoad, WfAuth, WfMarkPreparing, WfPendingUpload, WfMarkAwaiting,
       WfMarkFinalizing, WfPublishRead, WfPublishUpload, WfMarkReady, WfMark, At
  <2>2. CASE \/ WfDisableUpload(w) \/ WfMarkRevoked(w) \/ WfDropBoot(w) \/ WfStepFails(w)
             \/ WfReadyNotifyFails(w) \/ WfCatch(w) \/ WfLoadFails(w) \/ WfEraseFails(w)
             \/ WfDies(w)
    BY <2>2 DEF WfDisableUpload, WfMarkRevoked, WfDropBoot, WfStepFails, WfReadyNotifyFails,
       WfCatch, WfLoadFails, WfEraseFails, WfDies, InStep, WfPC, At
  <2> QED BY <2>1, <2>2 DEF WfStep
<1>0. /\ w \in Proc /\ d \in Dep /\ Alone /\ SitesInv /\ AllPlaced
      /\ Placed(proc[w], dep, plane, crossed) /\ proc[w].act \in Action
      /\ ~At(w, "idle") /\ crossed' = crossed
  BY <1>a, LocalsTyped DEF Proc, SerialInv, AllPlaced
<1>1. ASSUME SitesInv', Alone' /\ AllPlaced'
      PROVE  SerialInv'
  BY <1>1, SerialParts
\* A jump to l once the rows and scripts are known to be right.
<1>2. ASSUME ~At(w, "idle"), SitesInv', NEW l, Goto(w, l),
             \A q : q.pc = l /\ q.d = d /\ q.act = proc[w].act => Placed(q, dep', plane', crossed')
      PROVE  SerialInv'
  <2> DEFINE new == [proc[w] EXCEPT !.pc = l]
  <2>1. new.pc = l /\ new.d = d /\ new.act = proc[w].act
    BY <1>0, Jumped
  <2> HIDE DEF new
  <2>2. Placed(new, dep', plane', crossed')
    BY <1>2, <2>1
  <2> QED BY <1>0, <1>1, <1>2, <2>2, SerialGoto DEF new
<1>3. ASSUME ~At(w, "idle"), SitesInv', NEW l \in Free, Goto(w, l)
      PROVE  SerialInv'
  BY <1>0, <1>1, <1>3, SerialFree
<1>4. /\ {"preparing", "awaiting_agent", "finalizing", "ready", "revoked", "failed"}
           \subseteq RowStatus
      /\ "catch" \in Free /\ "idle" \in Free /\ "idleCount" \in Free
  BY FreeLabels DEF RowStatus, Active
<1>5. CASE WfLoad(w)
  <2>1. At(w, "load") /\ ~At(w, "idle") /\ dep' = dep /\ plane' = plane
    BY <1>5 DEF WfLoad, At
  <2>2. SitesInv'
    BY <1>0, <2>1, SitesFrame
  <2>3. CASE ~Exists(d)
    BY <1>0, <1>1, <1>5, <2>1, <2>2, <2>3, SerialDone DEF WfLoad
  <2>4. CASE Exists(d)
    <3>1. PICK n : Step(w, [proc[w] EXCEPT !.pc = FirstStep(proc[w].act), !.c = dep[d].conn,
                              !.sub = dep[d].sub, !.tok = n])
      BY <1>5, <2>4 DEF WfLoad
    <3> DEFINE new == [proc[w] EXCEPT !.pc = FirstStep(proc[w].act), !.c = dep[d].conn,
                         !.sub = dep[d].sub, !.tok = n]
    <3>2. new.pc = FirstStep(proc[w].act) /\ new.d = d
      BY <1>0 DEF TypeOK, ProcRec
    <3>3. \/ new.pc \in {"markPreparing", "markFinalizing"}
          \/ new.pc = "disableAuth" /\ proc[w].act = "revoke"
      BY <1>0, <3>2 DEF FirstStep, Action
    <3> HIDE DEF new
    <3>4. Placed(new, dep', plane', crossed')
      BY <1>0, <2>1, <2>4, <3>2, <3>3 DEF At, Exists, Placed, Purpose, WfPC, Preparing, Publishing,
         Disabling, RotatingSub, Revoking
    <3> QED BY <1>0, <1>1, <2>1, <2>2, <3>1, <3>4, SerialStep DEF new
  <2> QED BY <2>3, <2>4
<1> USE DEF At, Exists, Placed, Purpose, WfPC, Preparing, Publishing, Disabling, RotatingSub,
            Revoking
<1>6. CASE WfAuth(w)
  <2>1. dep' = dep /\ plane' = plane /\ ~At(w, "idle")
    BY <1>6 DEF WfAuth
  <2>2. SitesInv'
    BY <1>0, <2>1, SitesFrame
  <2>3. PICK l \in {"pendingAuth", "pendingUpload", "disableUpload"} :
          /\ Goto(w, l)
          /\ l \in Preparing => proc[w].pc \in Preparing
          /\ l \in Disabling => proc[w].pc \in Disabling
    BY <1>6 DEF WfAuth
  <2> QED BY <1>0, <1>2, <2>1, <2>2, <2>3
<1>7. CASE WfMarkPreparing(w) \/ WfMarkFinalizing(w)
  <2>1. PICK s \in {"preparing", "finalizing"} :
          /\ ~At(w, "idle") /\ proc[w].pc \in WfPC \ {"load", "catch"}
          /\ SetStatus(d, s) /\ plane' = plane
          /\ Goto(w, IF s = "preparing" THEN "dns" ELSE "publishRead")
    BY <1>7 DEF WfMarkPreparing, WfMarkFinalizing, WfMark
  <2>2. SitesInv'
    BY <1>0, <1>4, <2>1, SitesSet
  <2>3. dep'[d].status = s
    BY <1>0, <2>1 DEF SetStatus, TypeOK, DepRow
  <2> QED BY <1>0, <1>2, <1>4, <2>1, <2>2, <2>3
<1>8. CASE WfMarkAwaiting(w)
  <2>1. PICK l \in {"idle", "markAwaiting", "catch"} :
          At(w, "markAwaiting") /\ SetStatus(d, "awaiting_agent") /\ plane' = plane /\ Goto(w, l)
    BY <1>8 DEF WfMarkAwaiting, WfMark
  <2>2. SitesInv'
    BY <1>0, <1>4, <2>1, SitesSet
  <2>3. dep'[d].status = "awaiting_agent"
    BY <1>0, <2>1 DEF SetStatus, TypeOK, DepRow
  <2> QED BY <1>0, <1>2, <1>3, <1>4, <2>1, <2>2, <2>3
<1>9. CASE WfMarkReady(w)
  <2>1. PICK l \in {"idleCount", "markReady", "catch"} :
          At(w, "markReady") /\ SetStatus(d, "ready") /\ plane' = plane /\ Goto(w, l)
    BY <1>9 DEF WfMarkReady, WfMark
  <2>2. Serves(d, plane)
    BY <1>0, <2>1
  <2>3. SitesInv'
    BY <1>0, <1>4, <2>1, <2>2, SitesSet
  <2>4. dep'[d].status = "ready"
    BY <1>0, <2>1 DEF SetStatus, TypeOK, DepRow
  <2> QED BY <1>0, <1>2, <1>3, <1>4, <2>1, <2>2, <2>3, <2>4
<1>10. CASE WfPendingUpload(w) \/ WfDisableUpload(w)
  <2>1. PICK h \in {proc[w].sub, proc[w].tok},
             l \in {"markAwaiting", "pendingAuth", "markRevoked", "disableAuth", "catch"} :
          /\ proc[w].pc \in {"pendingUpload", "disableUpload"} /\ dep' = dep
          /\ Upload(d, "pending", h, 0, 0) /\ Goto(w, l)
          /\ l \in {"markAwaiting", "pendingAuth"} => proc[w].pc = "pendingUpload"
          /\ l \in {"markRevoked", "disableAuth"} => proc[w].pc = "disableUpload"
    BY <1>10 DEF WfPendingUpload, WfDisableUpload
  <2>2. Exists(d) /\ (dep[d].status = "ready" => d \in crossed)
    BY <1>0, <2>1
  <2>3. SitesInv' /\ ~Serves(d, plane')
    BY <1>0, <2>1, <2>2, SitesUpload
  <2> QED BY <1>0, <1>2, <1>3, <1>4, <2>1, <2>2, <2>3
<1>11. CASE WfPublishRead(w)
  <2> DEFINE new == [proc[w] EXCEPT !.pc = "publishUpload", !.sub = dep[d].sub,
                       !.tok = secret[d].sub, !.node = secret[d].node]
  <2>1. At(w, "publishRead") /\ dep' = dep /\ plane' = plane /\ Step(w, new)
    BY <1>11 DEF WfPublishRead
  <2>2. new.pc = "publishUpload" /\ new.d = d
    BY <1>0 DEF TypeOK, ProcRec
  <2> HIDE DEF new
  <2>3. Placed(new, dep', plane', crossed')
    BY <1>0, <2>1, <2>2
  <2> QED BY <1>0, <1>1, <2>1, <2>3, SitesFrame, SerialStep
<1>12. CASE WfPublishUpload(w)
  <2>1. PICK l \in {"markReady", "publishRead", "catch"} :
          /\ At(w, "publishUpload") /\ dep' = dep /\ Goto(w, l)
          /\ Upload(d, "ready", proc[w].sub, proc[w].tok, proc[w].node)
    BY <1>12 DEF WfPublishUpload
  <2>2. Exists(d) /\ dep[d].status # "revoked"
    BY <1>0, <2>1
  <2>3. SitesInv' /\ Serves(d, plane')
    BY <1>0, <2>1, <2>2, SitesUpload
  <2> QED BY <1>0, <1>2, <1>3, <1>4, <2>1, <2>2, <2>3
<1>13. CASE WfMarkRevoked(w)
  <2>1. /\ At(w, "markRevoked") /\ plane' = plane /\ Goto(w, "dropBoot")
        /\ dep' = [dep EXCEPT ![d].status = "revoked", ![d].sub = proc[w].tok, ![d].agent = 0]
    BY <1>0, <1>13 DEF WfMarkRevoked
  <2>2. dep'[d].status = "revoked" /\ \A e \in Dep \ {d} : dep'[e].status = dep[e].status
    BY <1>0, <2>1 DEF TypeOK, DepRow
  <2>3. ~Serves(d, plane) /\ Exists(d)
    BY <1>0, <2>1
  <2>4. SitesInv'
    BY <1>0, <2>1, <2>2, <2>3, SitesStatus
  <2> QED BY <1>0, <1>2, <1>4, <2>1, <2>2, <2>3, <2>4
<1>14. CASE WfDropBoot(w)
  <2>1. PICK l \in {"idleCount", "markRevoked", "catch"} :
          At(w, "dropBoot") /\ dep' = dep /\ plane' = plane /\ Goto(w, l)
    BY <1>14 DEF WfDropBoot
  <2>2. SitesInv'
    BY <1>0, <2>1, SitesFrame
  <2> QED BY <1>0, <1>2, <1>3, <1>4, <2>1, <2>2
<1>15. CASE WfStepFails(w)
  <2>1. /\ proc[w].pc \in InStep /\ dep' = dep /\ plane' = plane
        /\ Goto(w, BodyStart(proc[w].pc)) \/ Goto(w, "catch")
    BY <1>15 DEF WfStepFails
  <2>2. SitesInv'
    BY <1>0, <2>1, SitesFrame
  <2>3. CASE Goto(w, "catch")
    BY <1>0, <1>3, <1>4, <2>2, <2>3
  <2>4. CASE Goto(w, BodyStart(proc[w].pc))
    <3>1. CASE proc[w].pc \notin {"pendingUpload", "publishUpload", "disableUpload", "dropBoot"}
      <4>1. BodyStart(proc[w].pc) = proc[w].pc
        BY <3>1 DEF BodyStart
      <4>2. \A q : q.pc = proc[w].pc /\ q.d = d /\ q.act = proc[w].act
                    => Placed(q, dep', plane', crossed')
        BY <1>0, <2>1 DEF InStep
      <4> QED BY <1>0, <1>2, <2>2, <2>4, <4>1, <4>2
    <3>2. CASE proc[w].pc \in {"pendingUpload", "publishUpload", "disableUpload", "dropBoot"}
      <4>1. PICK l \in {"pendingAuth", "publishRead", "disableAuth", "markRevoked"} :
              /\ l = BodyStart(proc[w].pc)
              /\ l = "pendingAuth" => proc[w].pc = "pendingUpload"
              /\ l = "publishRead" => proc[w].pc = "publishUpload"
              /\ l = "disableAuth" => proc[w].pc = "disableUpload"
              /\ l = "markRevoked" => proc[w].pc = "dropBoot"
        BY <3>2 DEF BodyStart
      <4>2. \A q : q.pc = l /\ q.d = d /\ q.act = proc[w].act
                    => Placed(q, dep', plane', crossed')
        BY <1>0, <2>1, <3>2, <4>1
      <4> QED BY <1>0, <1>2, <2>2, <2>4, <4>1, <4>2
    <3> QED BY <3>1, <3>2
  <2> QED BY <2>1, <2>3, <2>4
<1>16. CASE WfReadyNotifyFails(w)
  <2>1. At(w, "idleScrub") /\ dep' = dep /\ plane' = plane /\ Goto(w, "catch")
    BY <1>16 DEF WfReadyNotifyFails
  <2> QED BY <1>0, <1>3, <1>4, <2>1, SitesFrame
<1>17. CASE WfCatch(w)
  <2> DEFINE new == [proc[w] EXCEPT !.pc = "idleCount", !.then = "catch"]
  <2>1. At(w, "catch") /\ plane' = plane /\ SetStatus(d, "failed") /\ Step(w, new)
    BY <1>17 DEF WfCatch
  <2>2. SitesInv'
    BY <1>0, <1>4, <2>1, SitesSet
  <2>3. new.pc \in Free
    BY <1>0, <1>4 DEF TypeOK, ProcRec
  <2> HIDE DEF new
  <2>4. Placed(new, dep', plane', crossed')
    BY <2>3, FreePlaced
  <2> QED BY <1>0, <1>1, <2>1, <2>2, <2>4, SerialStep
<1>18. CASE WfLoadFails(w) \/ WfEraseFails(w) \/ WfDies(w)
  <2>1. /\ plane' = plane /\ crossed' = crossed
        /\ dep' = dep \/ SetStatus(d, "failed")
        /\ Done(w) \/ Goto(w, "catch")
    BY <1>18 DEF WfLoadFails, WfEraseFails, WfDies
  <2>2. SitesInv'
    BY <1>0, <1>4, <2>1, SitesFrame, SitesSet
  <2>3. CASE Done(w)
    BY <1>0, <1>1, <2>2, <2>3, SerialDone
  <2>4. CASE Goto(w, "catch")
    BY <1>0, <1>3, <1>4, <2>2, <2>4
  <2> QED BY <2>1, <2>3, <2>4
<1> QED
  BY <1>5, <1>6, <1>7, <1>8, <1>9, <1>10, <1>11, <1>12, <1>13, <1>14, <1>15, <1>16,
     <1>17, <1>18 DEF WfStep

LEMMA SerialNext ==
  Serial /\ TypeOK /\ LocalInv /\ Labels /\ SerialInv /\ [Next]_vars => SerialInv'
<1> SUFFICES ASSUME Serial, TypeOK, LocalInv, Labels, SerialInv, [Next]_vars PROVE SerialInv'
  OBVIOUS
<1> USE DEF rows, hist, ends
<1>0. Alone /\ SitesInv /\ AllPlaced
  BY DEF SerialInv
\* A process that only goes on towards its end.
<1>1. ASSUME NEW p \in Proc, ~At(p, "idle"), dep' = dep, plane' = plane, crossed' = crossed,
             p \in Wf \/ Only(p) \/ proc[p].pc \in Tail,
             NEW l \in {"idle", "idleScrub"}, Goto(p, l)
      PROVE  SerialInv'
  <2>1. SitesInv'
    BY <1>0, <1>1, SitesFrame
  <2>2. CASE p \in Wf \/ Only(p)
    BY <1>0, <1>1, <2>1, <2>2, SerialFree, FreeLabels, SerialParts
  <2>3. CASE p \in Req /\ proc[p].pc \in Tail /\ ~Only(p)
    BY <1>0, <1>1, <2>1, <2>3, SerialTail, SerialParts
  <2> QED BY <1>1, <2>2, <2>3 DEF Proc
<1>3. ASSUME NEW p \in Proc, Erase(p) PROVE SerialInv'
  <2>1. /\ ~At(p, "idle") /\ dep' = dep /\ plane' = plane /\ crossed' = crossed
        /\ proc[p].pc \in Tail /\ \E l \in {"idle", "idleScrub"} : Goto(p, l)
    BY <1>3 DEF Erase, IdleCount, IdleScrub, At, Tail, Goto
  <2> QED BY <1>1, <2>1
<1>4. ASSUME NEW r \in Req, Kill(r) PROVE SerialInv'
  <2>1. /\ r \in Proc /\ ~At(r, "idle") /\ dep' = dep /\ plane' = plane /\ crossed' = crossed
        /\ Goto(r, "idle")
    BY <1>4 DEF Kill, Goto, Proc
  <2>2. Only(r) \/ proc[r].pc \in Tail
    BY <1>0, <2>1, ReqOnly
  <2> QED BY <1>1, <2>1, <2>2
<1>2. CASE \/ \E c \in Conn : Expire(c)
           \/ CronErase
           \/ \E d \in Dep : ExpireBoot(d)
           \/ UNCHANGED vars
  <2>1. dep' = dep /\ plane' = plane /\ proc' = proc /\ crossed' = crossed
    BY <1>2 DEF Expire, CronErase, ExpireBoot, vars
  <2> QED BY <1>0, <2>1, SitesFrame DEF SerialInv, Alone, AllPlaced, Ends, At
<1> QED BY <1>2, <1>3, <1>4, SerialArrive, SerialReq, SerialWf DEF Next, Continue, Rest

LEMMA SerialInit == Init => SerialInv
<1> SUFFICES ASSUME Init PROVE SerialInv
  OBVIOUS
<1>1. \A p \in Proc : proc[p].pc = "idle"
  BY DEF Init, IdleProc
<1>2. \A d \in Dep : dep[d].status = "none"
  BY DEF Init
<1> QED
  BY <1>1, <1>2, IdlePlaced DEF SerialInv, SitesInv, Alone, AllPlaced, At, Exists, RowStatus, Active,
     RevokedIsDisabled, ReadyIsPublished

\* As long as requests and workflows do not overlap, a revoked deployment's site
\* serves none of its profiles, through every failed step, lost answer, retry
\* and deletion (workflow.ts disables before it marks); with overlaps it may
\* (run revoke_race).
THEOREM RevokedStaysDisabled == ASSUME Serial PROVE Spec => []RevokedIsDisabled
<1>1. SerialInv => RevokedIsDisabled
  BY DEF SerialInv, SitesInv
<1>2. Inv /\ SerialInv /\ [Next]_vars => SerialInv'
  BY SerialNext DEF Inv
<1> QED BY <1>1, <1>2, SerialInit, Invariance, PTL DEF Spec

\* Likewise a ready deployment's site serves its profiles: "ready" is written only
\* behind a publication, or back by a revocation that did not start.  It says
\* nothing of a deployment whose revoke workflow did start, but whose request lost
\* the answer and wrote "ready" back (crossed).
THEOREM ReadyStaysPublished == ASSUME Serial PROVE Spec => []ReadyIsPublished
<1>1. SerialInv => ReadyIsPublished
  BY DEF SerialInv, SitesInv
<1>2. Inv /\ SerialInv /\ [Next]_vars => SerialInv'
  BY SerialNext DEF Inv
<1> QED BY <1>1, <1>2, SerialInit, Invariance, PTL DEF Spec

-----------------------------------------------------------------------------
(***************************************************************************)
(* Idle credentials: whatever overlaps, somebody looks after a connection. *)
(***************************************************************************)

\* Labels before a process reads (again) which connection its row has, and the
\* labels behind it, which end in disconnectConnectionIfIdle for that one.
Ahead == {"createStart", "createFailed", "rotateSubLoad", "retryStart", "revokeMark",
          "revokeStart", "revokeFailed"}
Behind == (WfPC \ {"load"}) \cup {"rotateSubUpload", "rotateSubWrite", "idleCount", "idleScrub"}

IsAhead(p) == proc[p].pc \in Ahead \/ (p \in Wf /\ proc[p].pc = "load")

\* Process p will look after connection c.
Covers(p, c) ==
  \/ IsAhead(p) /\ Exists(proc[p].d) /\ dep[proc[p].d].conn = c
  \/ proc[p].pc \in Behind /\ proc[p].c = c

\* Connection c is no idle credential.
Kept(c) ==
  \/ conn[c] # "live" \/ c \in abandoned \/ Needing(c, {}) # {}
  \/ \E p \in Proc : Covers(p, c)

\* Processes that go by a connection read before.
Holding(p) ==
  \/ p \in Wf /\ proc[p].pc \notin {"idle", "load"}
  \/ p \in Req /\ proc[p].pc \in {"createStart", "createFailed", "ensure"}

\* A process that will write a status has the connection of the row, unless the
\* two were parted and both connections are abandoned; one that will bind a
\* row anew takes it from a connection that is not live or abandoned, too.
Held(p) ==
  /\ Holding(p) =>
       /\ dep[proc[p].d].status # "none"
       /\ \/ Exists(proc[p].d) /\ dep[proc[p].d].conn = proc[p].c
          \/ /\ proc[p].c \in abandoned
             /\ Exists(proc[p].d) => dep[proc[p].d].conn \in abandoned
  /\ proc[p].pc = "rebind" =>
       /\ dep[proc[p].d].status # "none"
       /\ Exists(proc[p].d) => \/ dep[proc[p].d].conn \in abandoned
                               \/ conn[dep[proc[p].d].conn] # "live"
  /\ proc[p].pc \in Binding => conn[proc[p].c] # "none"
  /\ proc[p].pc \in {"ensure", "rebind"} =>
       proc[p].then \in {"rotateSubLoad", "retryStart", "revokeMark"}
  /\ Purpose(proc[p]) \in Revoking => proc[p].seen \in RowStatus

CredInv ==
  /\ \A p \in Proc : Held(p)
  /\ \A d \in Dep : Exists(d) => conn[dep[d].conn] # "none" /\ Kept(dep[d].conn)

\* The processes that a rebinding or a deletion of d would part from it.
AtWork(p, d) == \E q \in Proc \ {p} :
                  proc[q].d = d /\ (IsAhead(q) \/ Holding(q) \/ proc[q].pc = "rebind")

\* They are those the history counts.
LEMMA AtWorkIsBusy == ASSUME NEW p, NEW d, AtWork(p, d) PROVE Busy(p, d)
BY DEF AtWork, Busy, IsAhead, Ahead, Holding, At, Proc

\* A step of p, which concerns d, keeps the connections kept, when it does so for
\* the one d has and the one p has.
LEMMA KeptStep ==
  ASSUME TypeOK, CredInv, NEW p \in Proc, NEW d \in Dep,
         \A q \in Proc \ {p} : proc'[q] = proc[q],
         \A e \in Dep \ {d} : dep'[e].status = dep[e].status /\ dep'[e].conn = dep[e].conn,
         \A c \in Conn : conn'[c] = "live" => conn[c] \in {"none", "live"},
         abandoned \subseteq abandoned',
         AtWork(p, d) /\ Exists(d) => \/ Exists(d)' /\ dep'[d].conn = dep[d].conn
                                      \/ dep[d].conn \in abandoned',
         \A c \in Conn : dep[d].status \in Active /\ dep[d].conn = c => Kept(c)',
         \A c \in Conn : Covers(p, c) => Kept(c)',
         NEW c \in Conn, conn[c] # "none", Kept(c)
  PROVE  Kept(c)'
<1>1. CASE conn[c] # "live" \/ c \in abandoned
  BY <1>1 DEF Kept
<1>2. CASE Needing(c, {}) # {}
  <2>1. PICK e \in Dep : dep[e].conn = c /\ dep[e].status \in Active
    BY <1>2 DEF Needing
  <2>2. CASE e # d
    BY <2>1, <2>2 DEF Kept, Needing
  <2> QED BY <2>1, <2>2
<1>3. ASSUME NEW q \in Proc, Covers(q, c) PROVE Kept(c)'
  <2>1. CASE q # p /\ proc[q].pc \in Behind /\ proc[q].c = c
    BY <2>1 DEF Kept, Covers
  <2>2. CASE q # p /\ IsAhead(q) /\ Exists(proc[q].d) /\ dep[proc[q].d].conn = c
    <3>1. IsAhead(q)' /\ proc'[q] = proc[q] /\ proc[q].d \in Dep
      BY <2>2 DEF IsAhead, TypeOK, ProcRec
    <3>2. CASE proc[q].d # d
      BY <2>2, <3>1, <3>2 DEF Kept, Covers, Exists
    <3>3. CASE proc[q].d = d
      <4>1. AtWork(p, d)
        BY <2>2, <3>3 DEF AtWork
      <4> QED BY <2>2, <3>1, <3>3, <4>1 DEF Kept, Covers
    <3> QED BY <3>2, <3>3
  <2> QED BY <1>3, <2>1, <2>2 DEF Covers
<1> QED BY <1>1, <1>2, <1>3 DEF Kept

\* What the step must keep for the others that work on d.
LEMMA HeldStep ==
  ASSUME TypeOK, CredInv, NEW p \in Proc, NEW d \in Dep, NEW q \in Proc \ {p},
         proc'[q] = proc[q],
         \A e \in Dep \ {d} : dep'[e].status = dep[e].status /\ dep'[e].conn = dep[e].conn,
         \A c \in Conn : conn'[c] = "live" => conn[c] \in {"none", "live"},
         \A c \in Conn : conn[c] # "none" => conn'[c] # "none",
         abandoned \subseteq abandoned',
         \/ /\ Exists(d)' <=> Exists(d)
            /\ dep'[d].conn = dep[d].conn
            /\ dep[d].status # "none" => dep'[d].status # "none"
         \/ dep[d].status = "none"
         \/ AtWork(p, d) => /\ dep[d].conn \in abandoned'
                            /\ Exists(d)' => dep'[d].conn \in abandoned'
                            /\ dep'[d].status # "none"
  PROVE  Held(q)'
<1> DEFINE e == proc[q].d
<1>0. Held(q) /\ e \in Dep /\ proc[q].c \in Conn /\ dep[e].conn \in Conn /\ (Holding(q)' <=> Holding(q))
  BY DEF CredInv, TypeOK, ProcRec, DepRow, Holding
<1>1. proc[q].pc \in Binding => conn'[proc'[q].c] # "none"
  BY <1>0 DEF Held
<1>2. proc'[q].pc \in {"ensure", "rebind"} =>
        proc'[q].then \in {"rotateSubLoad", "retryStart", "revokeMark"}
  BY <1>0 DEF Held
<1>3. Purpose(proc'[q]) \in Revoking => proc'[q].seen \in RowStatus
  BY <1>0 DEF Held
<1>4. CASE ~Holding(q) /\ proc[q].pc # "rebind"
  BY <1>0, <1>1, <1>2, <1>3, <1>4 DEF Held
<1>5. CASE Holding(q) \/ proc[q].pc = "rebind"
  <2>1. dep[e].status # "none"
    BY <1>0, <1>5 DEF Held
  <2>2. CASE /\ Exists(e)' <=> Exists(e)
             /\ dep'[e].conn = dep[e].conn
             /\ dep'[e].status # "none"
    <3>1. Exists(e) => conn[dep[e].conn] # "none"
      BY <1>0 DEF CredInv
    <3>2. dep'[proc'[q].d].status # "none" /\ (Exists(proc[q].d)' <=> Exists(e))
      BY <2>2 DEF Exists
    <3>3. Holding(q) => \/ Exists(e) /\ dep'[proc'[q].d].conn = proc'[q].c
                        \/ /\ proc'[q].c \in abandoned'
                           /\ Exists(e) => dep'[proc'[q].d].conn \in abandoned'
      BY <1>0, <2>2 DEF Held
    <3>4. proc[q].pc = "rebind" /\ Exists(e) => \/ dep'[proc'[q].d].conn \in abandoned'
                                                \/ conn'[dep'[proc'[q].d].conn] # "live"
      BY <1>0, <2>2, <3>1 DEF Held
    <3> QED BY <1>0, <1>1, <1>2, <1>3, <3>2, <3>3, <3>4 DEF Held
  <2>3. CASE e # d
    <3>1. dep'[e].status = dep[e].status /\ dep'[e].conn = dep[e].conn /\ proc'[q].d = e
      BY <1>0, <2>3
    <3> QED BY <2>1, <2>2, <3>1 DEF Exists
  <2>4. CASE e = d /\ AtWork(p, d) /\ ~(/\ Exists(e)' <=> Exists(e)
                                        /\ dep'[e].conn = dep[e].conn
                                        /\ dep'[e].status # "none")
    <3>1. /\ dep[d].conn \in abandoned' /\ dep'[d].status # "none"
          /\ Exists(d)' => dep'[d].conn \in abandoned'
      BY <2>1, <2>4
    <3>2. Holding(q) => proc'[q].c \in abandoned'
      BY <1>0, <2>4, <3>1 DEF Held
    <3>3. dep'[proc'[q].d].status # "none"
      BY <2>4, <3>1
    <3>4. Exists(proc[q].d)' => dep'[proc'[q].d].conn \in abandoned'
      BY <2>4, <3>1 DEF Exists
    <3> QED BY <1>0, <1>1, <1>2, <1>3, <3>2, <3>3, <3>4 DEF Held
  <2>5. e = d => AtWork(p, d)
    BY <1>5 DEF AtWork
  <2> QED BY <2>2, <2>3, <2>4, <2>5
<1> QED BY <1>4, <1>5

\* Kept connections and held ones together are the invariant.
LEMMA CredStep ==
  ASSUME TypeOK, TypeOK', CredInv, NEW p \in Proc, NEW d \in Dep,
         \A q \in Proc \ {p} : proc'[q] = proc[q],
         \A e \in Dep \ {d} : dep'[e].status = dep[e].status /\ dep'[e].conn = dep[e].conn,
         \A c \in Conn : conn'[c] = "live" => conn[c] \in {"none", "live"},
         \A c \in Conn : conn[c] # "none" => conn'[c] # "none",
         abandoned \subseteq abandoned',
         \/ /\ Exists(d)' <=> Exists(d)
            /\ dep'[d].conn = dep[d].conn
            /\ dep[d].status # "none" => dep'[d].status # "none"
         \/ dep[d].status = "none"
         \/ AtWork(p, d) => /\ dep[d].conn \in abandoned'
                            /\ Exists(d)' => dep'[d].conn \in abandoned'
                            /\ dep'[d].status # "none",
         \A c \in Conn : dep[d].status \in Active /\ dep[d].conn = c => Kept(c)',
         \A c \in Conn : Covers(p, c) => Kept(c)',
         \A c \in Conn : Exists(d)' /\ dep'[d].conn = c =>
                           \/ Exists(d) /\ dep[d].conn = c
                           \/ conn'[c] # "none" /\ Kept(c)',
         Held(p)'
  PROVE  CredInv'
<1>1. \A q \in Proc : Held(q)'
  <2>1. ASSUME NEW q \in Proc \ {p} PROVE Held(q)'
    <3>1. proc'[q] = proc[q]
      OBVIOUS
    <3> QED BY <3>1, HeldStep
  <2> QED BY <2>1
<1>2. AtWork(p, d) /\ Exists(d) => \/ Exists(d)' /\ dep'[d].conn = dep[d].conn
                                   \/ dep[d].conn \in abandoned'
  BY DEF Exists, RowStatus, Active
<1>3. ASSUME NEW e \in Dep, Exists(e)', NEW c \in Conn, dep'[e].conn = c
      PROVE  conn'[c] # "none" /\ Kept(c)'
  <2>1. CASE Exists(e) /\ dep[e].conn = c
    <3>1. conn[c] # "none" /\ Kept(c)
      BY <2>1 DEF CredInv
    <3>2. Kept(c)'
      BY <1>2, <3>1, KeptStep
    <3> QED BY <3>1, <3>2
  <2>2. CASE e = d
    BY <1>3, <2>1, <2>2
  <2>3. CASE e # d
    BY <1>3, <2>1, <2>3 DEF Exists
  <2> QED BY <2>2, <2>3
<1>4. \A e \in Dep : dep'[e].conn \in Conn
  BY DEF TypeOK, DepRow
<1>5. ASSUME NEW e \in Dep, Exists(e)' PROVE conn'[dep'[e].conn] # "none" /\ Kept(dep[e].conn)'
  <2>1. PICK c \in Conn : c = dep'[e].conn
    BY <1>4
  <2>2. conn'[c] # "none" /\ Kept(c)'
    BY <1>3, <1>5, <2>1
  <2> QED BY <2>1, <2>2 DEF Kept, Needing, Covers
<1> QED BY <1>1, <1>5 DEF CredInv

\* A step that leaves every row its connection and its status.
LEMMA CredLocal ==
  ASSUME TypeOK, TypeOK', CredInv, NEW p \in Proc,
         \A q \in Proc \ {p} : proc'[q] = proc[q],
         \A e \in Dep : dep'[e].status = dep[e].status /\ dep'[e].conn = dep[e].conn,
         \A c \in Conn : conn'[c] = "live" => conn[c] \in {"none", "live"},
         \A c \in Conn : conn[c] # "none" => conn'[c] # "none",
         abandoned \subseteq abandoned',
         \A c \in Conn : Covers(p, c) => Kept(c)',
         Held(p)'
  PROVE  CredInv'
<1>1. PICK d \in Dep : TRUE
  BY ConstantsAssumption
<1>2. \A c \in Conn : dep[d].status \in Active /\ dep[d].conn = c => Kept(c)'
  BY DEF Kept, Needing
<1>3. /\ Exists(d)' <=> Exists(d)
      /\ dep'[d].conn = dep[d].conn
      /\ dep[d].status # "none" => dep'[d].status # "none"
  BY DEF Exists
<1> QED BY <1>2, <1>3, CredStep

\* A step that writes the status s of d: an active one keeps the connection, an
\* ended one must leave it to somebody.
LEMMA CredStatus ==
  ASSUME TypeOK, TypeOK', CredInv, NEW p \in Proc, NEW d \in Dep, NEW s \in RowStatus,
         \A q \in Proc \ {p} : proc'[q] = proc[q],
         \A e \in Dep \ {d} : dep'[e] = dep[e],
         Exists(d) => dep'[d].status = s /\ dep'[d].conn = dep[d].conn,
         ~Exists(d) => dep'[d] = dep[d],
         conn' = conn, abandoned \subseteq abandoned',
         s \notin Active => \A c \in Conn : Exists(d) /\ dep[d].conn = c => Kept(c)',
         \A c \in Conn : Covers(p, c) => Kept(c)',
         Held(p)'
  PROVE  CredInv'
<1>1. /\ Exists(d)' <=> Exists(d)
      /\ dep'[d].conn = dep[d].conn
      /\ dep[d].status # "none" => dep'[d].status # "none"
  BY DEF Exists, RowStatus, Active
<1>2. \A c \in Conn : dep[d].status \in Active /\ dep[d].conn = c => Kept(c)'
  <2> SUFFICES ASSUME NEW c \in Conn, dep[d].status \in Active, dep[d].conn = c PROVE Kept(c)'
    OBVIOUS
  <2>1. Exists(d)
    BY DEF Exists, RowStatus
  <2> QED BY <2>1 DEF Kept, Needing
<1>3. \A e \in Dep \ {d} : dep'[e].status = dep[e].status /\ dep'[e].conn = dep[e].conn
  OBVIOUS
<1>4. conn \in [Conn -> {"none", "live", "expired", "erased"}]
  BY DEF TypeOK
<1> QED BY <1>1, <1>2, <1>3, <1>4, CredStep

\* Time and the cron only take connections away.
LEMMA CredFrame ==
  ASSUME TypeOK, CredInv, UNCHANGED <<dep, proc, abandoned>>,
         \A c \in Conn : conn'[c] = "live" => conn[c] = "live",
         \A c \in Conn : conn[c] # "none" => conn'[c] # "none"
  PROVE  CredInv'
<1>0. \A d \in Dep : dep[d].conn \in Conn
  BY DEF TypeOK, DepRow
<1>1. ASSUME NEW c \in Conn, Kept(c) PROVE Kept(c)'
  BY <1>1 DEF Kept, Needing, Covers, IsAhead, Exists
<1>2. ASSUME NEW d \in Dep, Exists(d)' PROVE conn'[dep'[d].conn] # "none" /\ Kept(dep[d].conn)'
  <2>1. PICK c \in Conn : c = dep[d].conn
    BY <1>0
  <2>2. conn[c] # "none" /\ Kept(c)
    BY <1>2, <2>1 DEF CredInv, Exists
  <2>3. Kept(c)'
    BY <1>1, <2>2
  <2> QED BY <2>1, <2>2, <2>3 DEF Kept, Needing, Covers
<1>3. ASSUME NEW p \in Proc PROVE Held(p)'
  <2>1. Held(p) /\ proc[p].d \in Dep /\ proc[p].c \in Conn
    BY DEF CredInv, TypeOK, ProcRec
  <2> QED BY <1>0, <2>1 DEF Held, Holding, Exists
<1> QED BY <1>2, <1>3 DEF CredInv

\* Where Goto and Done leave the locals.
LEMMA Went ==
  ASSUME TypeOK, NEW p \in Proc, NEW l, Goto(p, l)
  PROVE  /\ proc'[p].pc = l
         /\ \A q \in Proc \ {p} : proc'[q] = proc[q]
         /\ l # "idle" => /\ proc'[p].d = proc[p].d /\ proc'[p].c = proc[p].c
                          /\ proc'[p].then = proc[p].then /\ proc'[p].seen = proc[p].seen
BY DEF Goto, Done, Step, TypeOK, ProcRec, IdleProc

LEMMA Ended ==
  ASSUME TypeOK, NEW p \in Proc, Done(p)
  PROVE  proc'[p].pc = "idle" /\ \A q \in Proc \ {p} : proc'[q] = proc[q]
BY DEF Done, Step, TypeOK, IdleProc

\* A process at one of the other labels holds nothing.
LEMMA HoldsNothing ==
  ASSUME NEW p \in Proc,
         \/ proc'[p].pc = "idle"
         \/ /\ p \in Req
            /\ proc'[p].pc \notin Binding \cup Revoking \cup {"createStart", "createFailed", "ensure"}
  PROVE  Held(p)'
BY ConstantsAssumption DEF Held, Holding, Binding, Proc, Purpose, Revoking

\* An instance starts and takes over from its request, which ends or, the start
\* having failed in its eyes, goes on to its catch block.
LEMMA CredLaunch ==
  ASSUME TypeOK, CredInv, NEW r \in Req, NEW act, NEW rest, Launch(r, act, rest),
         \/ rest.pc = "idle"
         \/ rest = [proc[r] EXCEPT !.pc = "createFailed"] /\ At(r, "createStart")
         \/ rest = [proc[r] EXCEPT !.pc = "revokeFailed"] /\ At(r, "revokeStart"),
         proc[r].pc \in Ahead \cup {"completeStart"}, UNCHANGED <<dep, conn, abandoned>>
  PROVE  CredInv'
<1> DEFINE new == [IdleProc EXCEPT !.pc = "load", !.act = act, !.d = proc[r].d]
<1>1. PICK w \in Wf : proc[w].pc = "idle" /\ proc' = [proc EXCEPT ![r] = rest, ![w] = new]
  BY DEF Launch, At
<1>2. r # w /\ r \in Proc /\ w \in Proc /\ r \notin Wf /\ w \notin Req
  BY <1>1, ConstantsAssumption DEF Proc
<1>3. /\ proc'[w].pc = "load" /\ proc'[w].d = proc[r].d /\ proc'[r] = rest
      /\ \A q \in Proc \ {r, w} : proc'[q] = proc[q]
  BY <1>1, <1>2, IdleTyped DEF TypeOK, ProcRec, IdleProc
<1>4. ASSUME NEW q \in Proc PROVE Held(q)'
  <2>1. CASE q = w
    BY <1>2, <1>3, <2>1 DEF Held, Holding, Binding, Purpose, Revoking
  <2>2. CASE q = r /\ rest.pc = "idle"
    BY <1>2, <1>3, <2>2, HoldsNothing
  <2>3. CASE q = r /\ At(r, "createStart") /\ rest = [proc[r] EXCEPT !.pc = "createFailed"]
    <3>1. /\ proc'[r].pc = "createFailed" /\ proc'[r].d = proc[r].d /\ proc'[r].c = proc[r].c
          /\ Held(r) /\ Holding(r)
      BY <1>2, <1>3, <2>3 DEF TypeOK, ProcRec, CredInv, Holding, At
    <3> QED BY <1>2, <2>3, <3>1
            DEF Held, Holding, Binding, Purpose, Revoking, Exists
  <2>4. CASE q = r /\ At(r, "revokeStart") /\ rest = [proc[r] EXCEPT !.pc = "revokeFailed"]
    <3>1. /\ proc'[r].pc = "revokeFailed" /\ proc'[r].seen = proc[r].seen
          /\ Held(r)
      BY <1>2, <1>3, <2>4 DEF TypeOK, ProcRec, CredInv
    <3> QED BY <1>2, <2>4, <3>1
            DEF Held, Holding, Binding, Purpose, Revoking, At
  <2>5. CASE q \notin {r, w}
    <3>1. Held(q) /\ proc'[q] = proc[q]
      BY <1>3, <2>5 DEF CredInv
    <3> QED BY <3>1 DEF Held, Holding, Exists
  <2> QED BY <2>1, <2>2, <2>3, <2>4, <2>5
<1>5. ASSUME NEW c \in Conn, Kept(c) PROVE Kept(c)'
  <2>1. CASE conn[c] # "live" \/ c \in abandoned \/ Needing(c, {}) # {}
    BY <2>1 DEF Kept, Needing
  <2>2. ASSUME NEW q \in Proc, Covers(q, c) PROVE Kept(c)'
    <3>1. CASE q = r
      <4>1. Exists(proc[r].d) /\ dep[proc[r].d].conn = c
        BY <2>2, <3>1 DEF Covers, Ahead, Behind, WfPC
      <4>2. Covers(w, c)'
        BY <1>1, <1>3, <4>1 DEF Covers, IsAhead, Exists
      <4> QED BY <1>2, <4>2 DEF Kept
    <3>2. q # w
      BY <1>1, <2>2 DEF Covers, IsAhead, Ahead, Behind, WfPC
    <3>3. CASE q # r
      <4>1. proc'[q] = proc[q]
        BY <1>3, <3>2, <3>3
      <4>2. Covers(q, c)'
        BY <2>2, <4>1 DEF Covers, IsAhead, Exists
      <4> QED BY <4>2 DEF Kept
    <3> QED BY <3>1, <3>3
  <2> QED BY <1>5, <2>1, <2>2 DEF Kept
<1>6. ASSUME NEW d \in Dep, Exists(d)' PROVE conn'[dep'[d].conn] # "none" /\ Kept(dep[d].conn)'
  <2>1. PICK c \in Conn : c = dep[d].conn
    BY DEF TypeOK, DepRow
  <2>2. conn[c] # "none" /\ Kept(c)
    BY <1>6, <2>1 DEF CredInv, Exists
  <2>3. Kept(c)'
    BY <1>5, <2>2
  <2> QED BY <2>1, <2>2, <2>3 DEF Kept, Needing, Covers
<1> QED BY <1>4, <1>6 DEF CredInv

\* A request arrives: it was idle, so it covered nothing, and the connection it
\* remembers is the one in the row it read.
LEMMA CredArrive ==
  ASSUME TypeOK, TypeOK', CredInv, NEW r \in Req, Arrive(r)
  PROVE  CredInv'
<1> USE DEF rows, hist, ends
<1>0. r \in Proc /\ conn \in [Conn -> {"none", "live", "expired", "erased"}]
  BY DEF Proc, TypeOK
<1>1. /\ dep' = dep /\ abandoned' = abandoned /\ At(r, "idle")
      /\ conn' \in {conn, EraseExpired}
  BY DEF Arrive, ConnectCheck, DisconnectCheck, CreateCheck, RotateBootRead, CompleteRead,
     RotateSubRead, RetryRead, RevokeRead, DeleteRead, BeaconRead, Begin
<1>2. /\ \A c \in Conn : conn'[c] = "live" => conn[c] \in {"none", "live"}
      /\ \A c \in Conn : conn[c] # "none" => conn'[c] # "none"
  BY <1>0, <1>1 DEF EraseExpired
<1>3. \A c \in Conn : ~Covers(r, c)
  BY <1>1, ConstantsAssumption DEF Covers, IsAhead, Ahead, Behind, WfPC, At
<1>5. ASSUME Held(r)', \A q \in Proc \ {r} : proc'[q] = proc[q] PROVE CredInv'
  BY <1>0, <1>1, <1>2, <1>3, <1>5, CredLocal
<1>4. ASSUME NEW k, NEW new, Begin(r, k, new)
      PROVE  proc'[r] = new /\ \A q \in Proc \ {r} : proc'[q] = proc[q]
  BY <1>0, <1>4 DEF Begin, Step, TypeOK
<1> USE IdleTyped DEF ProcRec
<1>6. ASSUME NEW k, NEW new, Begin(r, k, new),
             new.pc \in {"idle", "connectInsert", "idleScrub", "rotateBootWrite",
                         "completeConsume", "deleteWrite"}
      PROVE  CredInv'
  <2>1. Held(r)'
    BY <1>0, <1>4, <1>6, HoldsNothing DEF Binding, Revoking
  <2> QED BY <1>4, <1>5, <1>6, <2>1
<1>7. ASSUME NEW k, NEW new, Begin(r, k, new), new.pc \in {"createInsert", "beaconBind"},
             conn[new.c] # "none", new.c \in Conn
      PROVE  CredInv'
  <2>1. /\ proc'[r].pc \in {"createInsert", "beaconBind"} /\ conn'[proc'[r].c] # "none"
        /\ r \notin Wf
    BY <1>2, <1>4, <1>7, ConstantsAssumption
  <2>2. Held(r)'
    BY <2>1 DEF Held, Holding, Purpose, Revoking
  <2> QED BY <1>4, <1>5, <1>7, <2>2
<1>8. ASSUME NEW k, NEW new, Begin(r, k, new), NEW d \in Dep, dep[d].status \in RowStatus,
             new.pc = "ensure", new.d = d, new.c = dep[d].conn,
             new.then \in {"rotateSubLoad", "retryStart", "revokeMark"},
             new.then = "revokeMark" => new.seen \in RowStatus
      PROVE  CredInv'
  <2>1. dep'[proc'[r].d].status \in RowStatus /\ dep'[proc'[r].d].conn = proc'[r].c
    BY <1>1, <1>4, <1>8
  <2>2. Held(r)'
    BY <1>4, <1>8, <2>1, ConstantsAssumption
       DEF Held, Holding, Exists, Binding, RowStatus, Active, Purpose, Revoking
  <2> QED BY <1>4, <1>5, <1>8, <2>2
<1>9. ASSUME NEW c \in Conn, ConnectCheck(r, c) PROVE CredInv'
  <2> DEFINE new == [IdleProc EXCEPT !.pc = "connectInsert", !.c = c]
  <2>1. new.pc = "connectInsert" /\ IdleProc.pc = "idle"
    BY DEF IdleProc
  <2>2. Begin(r, "connect", new) \/ Begin(r, "connect", IdleProc)
    BY <1>9 DEF ConnectCheck
  <2> QED BY <1>6, <2>1, <2>2
<1>10. ASSUME NEW c \in Conn, DisconnectCheck(r, c) PROVE CredInv'
  <2> DEFINE new == [IdleProc EXCEPT !.pc = "idleScrub", !.c = c]
  <2>1. new.pc = "idleScrub" /\ Begin(r, "disconnect", new)
    BY <1>10 DEF DisconnectCheck
  <2> QED BY <1>6, <2>1
<1>11. ASSUME NEW d \in Dep, RotateBootRead(r, d) PROVE CredInv'
  <2> DEFINE new == [IdleProc EXCEPT !.pc = "rotateBootWrite", !.d = d]
  <2>1. new.pc = "rotateBootWrite" /\ Begin(r, "rotateBoot", new)
    BY <1>11 DEF RotateBootRead
  <2> QED BY <1>6, <2>1
<1>12. ASSUME NEW d \in Dep, CompleteRead(r, d) PROVE CredInv'
  <2> DEFINE new == [IdleProc EXCEPT !.pc = "completeConsume", !.d = d, !.tok = boot[d].tok,
                       !.sub = secret[d].sub]
  <2>1. new.pc = "completeConsume" /\ Begin(r, "complete", new)
    BY <1>12 DEF CompleteRead
  <2> QED BY <1>6, <2>1
<1>13. ASSUME NEW d \in Dep, DeleteRead(r, d) PROVE CredInv'
  <2> DEFINE new == [IdleProc EXCEPT !.pc = "deleteWrite", !.d = d]
  <2>1. new.pc = "deleteWrite" /\ Begin(r, "delete", new)
    BY <1>13 DEF DeleteRead
  <2> QED BY <1>6, <2>1
<1>14. ASSUME NEW d \in Dep, NEW c \in Conn, CreateCheck(r, d, c) PROVE CredInv'
  <2> DEFINE new == [IdleProc EXCEPT !.pc = "createInsert", !.d = d, !.c = c]
  <2>1. new.pc = "createInsert" /\ new.c = c /\ Begin(r, "create", new) /\ conn[c] # "none"
    BY <1>14 DEF CreateCheck, ValidAuth
  <2> QED BY <1>7, <2>1
<1>15. ASSUME NEW d \in Dep, NEW c \in Conn, BeaconRead(r, d, c) PROVE CredInv'
  <2> DEFINE new == [IdleProc EXCEPT !.pc = "beaconBind", !.d = d, !.c = c]
  <2>1. new.pc = "beaconBind" /\ new.c = c /\ Begin(r, "beacon", new) /\ conn[c] # "none"
    BY <1>15 DEF BeaconRead, Stored
  <2> QED BY <1>7, <2>1
<1>16. ASSUME NEW d \in Dep, RotateSubRead(r, d) PROVE CredInv'
  <2> DEFINE new == [IdleProc EXCEPT !.pc = "ensure", !.then = "rotateSubLoad",
                       !.d = d, !.c = dep[d].conn]
  <2>1. /\ new.pc = "ensure" /\ new.then = "rotateSubLoad" /\ new.d = d /\ new.c = dep[d].conn
        /\ Begin(r, "rotateSub", new) /\ dep[d].status \in RowStatus
    BY <1>16 DEF RotateSubRead, RowStatus
  <2> QED BY <1>8, <2>1
<1>17. ASSUME NEW d \in Dep, RetryRead(r, d) PROVE CredInv'
  <2> DEFINE new == [IdleProc EXCEPT !.pc = "ensure", !.then = "retryStart", !.d = d,
                       !.c = dep[d].conn,
                       !.act = IF dep[d].agent # 0 THEN "finalize" ELSE "prepare"]
  <2>1. /\ new.pc = "ensure" /\ new.then = "retryStart" /\ new.d = d /\ new.c = dep[d].conn
        /\ Begin(r, "retry", new) /\ dep[d].status \in RowStatus
    BY <1>17 DEF RetryRead, RowStatus, Active
  <2> QED BY <1>8, <2>1
<1>18. ASSUME NEW d \in Dep, RevokeRead(r, d) PROVE CredInv'
  <2> DEFINE new == [IdleProc EXCEPT !.pc = "ensure", !.then = "revokeMark",
                       !.d = d, !.c = dep[d].conn, !.seen = dep[d].status]
  <2>1. /\ new.pc = "ensure" /\ new.then = "revokeMark" /\ new.d = d /\ new.c = dep[d].conn
        /\ new.seen = dep[d].status
        /\ Begin(r, "revoke", new) /\ dep[d].status \in RowStatus
    BY <1>18 DEF RevokeRead
  <2> QED BY <1>8, <2>1
<1> QED
  BY <1>9, <1>10, <1>11, <1>12, <1>13, <1>14, <1>15, <1>16, <1>17, <1>18 DEF Arrive

\* A request in flight continues.
LEMMA CredReq ==
  ASSUME TypeOK, TypeOK', CredInv, NEW r \in Req, ReqStep(r)
  PROVE  CredInv'
<1> USE DEF rows, hist, ends
<1>d. PICK d \in Dep : d = proc[r].d
  BY LocalsTyped DEF Proc
<1> USE <1>d
<1>0. /\ r \in Proc /\ r \notin Wf /\ proc[r].c \in Conn /\ Held(r)
      /\ conn \in [Conn -> {"none", "live", "expired", "erased"}]
      /\ \A e \in Dep : dep[e].conn \in Conn
  BY LocalsTyped, ConstantsAssumption DEF Proc, CredInv, TypeOK, DepRow
<1>1. \A c \in Conn : conn[c] = "live" => conn[c] \in {"none", "live"}
  OBVIOUS
<1>2. CASE ConnectInsert(r)
  <2>1. /\ \A c \in Conn : conn'[c] = "live" => conn[c] \in {"none", "live"}
        /\ \A c \in Conn : conn[c] # "none" => conn'[c] # "none"
    BY <1>0, <1>2 DEF ConnectInsert
  <2>2. \A c \in Conn : ~Covers(r, c)
    BY <1>0, <1>2 DEF ConnectInsert, Covers, IsAhead, Ahead, Behind, WfPC, At
  <2>3. Done(r) /\ dep' = dep /\ abandoned' = abandoned
    BY <1>2 DEF ConnectInsert
  <2> QED BY <1>0, <2>1, <2>2, <2>3, Ended, HoldsNothing, CredLocal
<1>3. CASE RotateBootWrite(r) \/ CompleteStartFails(r)
  <2>1. \A c \in Conn : ~Covers(r, c)
    BY <1>0, <1>3 DEF RotateBootWrite, CompleteStartFails, Covers, IsAhead, Ahead, Behind, WfPC, At
  <2>2. Done(r) /\ dep' = dep /\ abandoned' = abandoned /\ conn' = conn
    BY <1>3 DEF RotateBootWrite, CompleteStartFails
  <2> QED BY <1>0, <1>1, <2>1, <2>2, Ended, HoldsNothing, CredLocal
<1>4. CASE CompleteConsume(r)
  <2>1. \A c \in Conn : ~Covers(r, c)
    BY <1>0, <1>4 DEF CompleteConsume, Covers, IsAhead, Ahead, Behind, WfPC, At
  <2>2. /\ Done(r) \/ Goto(r, "completeWrite")
        /\ dep' = dep /\ abandoned' = abandoned /\ conn' = conn
    BY <1>4 DEF CompleteConsume
  <2>3. /\ proc'[r].pc \in {"idle", "completeWrite"}
        /\ \A q \in Proc \ {r} : proc'[q] = proc[q]
    BY <1>0, <2>2, Ended, Went
  <2>4. Held(r)'
    BY <1>0, <2>3, HoldsNothing DEF Binding, Revoking
  <2> QED BY <1>0, <1>1, <2>1, <2>2, <2>3, <2>4, CredLocal
<1>5. CASE CompleteWrite(r)
  <2>1. \A c \in Conn : ~Covers(r, c)
    BY <1>0, <1>5 DEF CompleteWrite, Covers, IsAhead, Ahead, Behind, WfPC, At
  <2>2. /\ Goto(r, "completeStart") /\ abandoned' = abandoned /\ conn' = conn
        /\ \A e \in Dep \ {d} : dep'[e] = dep[e]
        /\ Exists(d) => dep'[d].status = "agent_ready" /\ dep'[d].conn = dep[d].conn
        /\ ~Exists(d) => dep'[d] = dep[d]
    BY <1>0, <1>5 DEF CompleteWrite, TypeOK, DepRow
  <2>3. proc'[r].pc = "completeStart" /\ \A q \in Proc \ {r} : proc'[q] = proc[q]
    BY <1>0, <2>2, Went
  <2>4. Held(r)'
    BY <1>0, <2>3, HoldsNothing DEF Binding, Revoking
  <2>5. "agent_ready" \in Active /\ "agent_ready" \in RowStatus
    BY DEF RowStatus, Active
  <2> QED BY <1>0, <2>1, <2>2, <2>3, <2>4, <2>5, CredStatus
<1>6. CASE CreateInsert(r)
  <2>1. At(r, "createInsert") /\ abandoned' = abandoned /\ conn' = conn
    BY <1>6 DEF CreateInsert
  <2>2. \A c \in Conn : ~Covers(r, c)
    BY <1>0, <2>1 DEF Covers, IsAhead, Ahead, Behind, WfPC, At
  <2>3. CASE Done(r) /\ dep' = dep
    BY <1>0, <1>1, <2>1, <2>2, <2>3, Ended, HoldsNothing, CredLocal
  <2>4. CASE dep[d].status = "none" /\ NoConflict(d)
    <3>1. /\ Goto(r, "createStart")
          /\ dep' = [dep EXCEPT ![d] = [status |-> "queued", conn |-> proc[r].c,
                                        agent |-> 0, sub |-> fresh + 1]]
      BY <1>6, <2>4 DEF CreateInsert
    <3>2. /\ dep'[d].status = "queued" /\ dep'[d].conn = proc[r].c
          /\ \A e \in Dep \ {d} : dep'[e].status = dep[e].status /\ dep'[e].conn = dep[e].conn
      BY <1>0, <3>1 DEF TypeOK
    <3>3. /\ proc'[r].pc = "createStart" /\ proc'[r].d = d /\ proc'[r].c = proc[r].c
          /\ \A q \in Proc \ {r} : proc'[q] = proc[q]
      BY <1>0, <3>1, Went
    <3>4. Exists(d)' /\ dep'[proc'[r].d].status \in RowStatus /\ dep'[proc'[r].d].conn = proc'[r].c
      <4>1. "queued" \in RowStatus /\ proc[r].d = proc'[r].d
        BY <3>3 DEF RowStatus, Active
      <4> QED BY <3>2, <3>3, <4>1 DEF Exists
    <3>5. Held(r)'
      BY <3>3, <3>4 DEF Held, Holding, Exists, Binding, RowStatus, Active, Purpose, Revoking
    <3>6. conn[proc[r].c] # "none"
      BY <1>0, <2>1 DEF Held, At, Binding
    <3>7. ASSUME NEW c \in Conn, dep'[d].conn = c PROVE Kept(c)'
      BY <1>0, <3>2, <3>7 DEF Kept, Needing, Active
    <3>8. dep[d].status \notin Active
      BY <2>4 DEF Active
    <3>9. \A c \in Conn : Exists(d)' /\ dep'[d].conn = c => conn'[c] # "none" /\ Kept(c)'
      BY <2>1, <3>2, <3>6, <3>7
    <3> QED BY <1>0, <1>1, <2>1, <2>2, <2>4, <3>2, <3>3, <3>5, <3>8, <3>9, CredStep
  <2> QED BY <1>6, <2>3, <2>4 DEF CreateInsert
<1>7. CASE CreateStart(r) \/ CompleteStart(r) \/ RetryStart(r) \/ RevokeStart(r)
  <2>1. /\ \E act : Spawn(r, act)
        /\ UNCHANGED <<dep, conn, abandoned>>
        /\ proc[r].pc \in Ahead \cup {"completeStart"}
    BY <1>7 DEF CreateStart, CompleteStart, RetryStart, RevokeStart, At, Ahead
  <2>2. IdleProc.pc = "idle"
    BY DEF IdleProc
  <2> QED BY <2>1, <2>2, CredLaunch DEF Spawn
<1>20. CASE CreateStartFails(r)
  <2>1. At(r, "createStart") /\ UNCHANGED <<dep, conn, abandoned>>
    BY <1>20 DEF CreateStartFails
  <2>2. CASE SpawnUnseen(r, "prepare", "createFailed")
    BY <2>1, <2>2, CredLaunch DEF SpawnUnseen, Ahead, At
  <2>3. CASE Goto(r, "createFailed")
    <3>1. /\ proc'[r].pc = "createFailed" /\ proc'[r].c = proc[r].c /\ proc'[r].d = d
          /\ \A q \in Proc \ {r} : proc'[q] = proc[q]
      BY <1>0, <2>3, Went
    <3>2. Exists(proc[r].d)' <=> Exists(proc[r].d)
      BY <2>1, <3>1 DEF Exists
    <3>3. /\ dep[d].status # "none"
          /\ \/ Exists(d) /\ dep[d].conn = proc[r].c
             \/ proc[r].c \in abandoned /\ (Exists(d) => dep[d].conn \in abandoned)
      BY <1>0, <2>1 DEF Held, Holding, At
    <3>4. Held(r)'
      BY <1>0, <2>1, <3>1, <3>2, <3>3 DEF Held, Holding, Binding, Purpose, Revoking, Exists
    <3>5. ASSUME NEW c \in Conn, Covers(r, c) PROVE Kept(c)'
      <4>1. Exists(d) /\ dep[d].conn = c
        BY <1>0, <2>1, <3>5 DEF Covers, At, Behind, WfPC
      <4>2. Covers(r, c)'
        BY <2>1, <3>1, <4>1 DEF Covers, IsAhead, Ahead, Exists
      <4> QED BY <1>0, <4>2 DEF Kept
    <3> QED BY <1>0, <1>1, <2>1, <3>1, <3>4, <3>5, CredLocal
  <2> QED BY <1>20, <2>2, <2>3 DEF CreateStartFails
<1>8. CASE CreateFailed(r)
  <2>1. /\ At(r, "createFailed") /\ SetStatus(d, "failed") /\ Goto(r, "idleCount")
        /\ abandoned' = abandoned /\ conn' = conn /\ "failed" \in RowStatus
    BY <1>8 DEF CreateFailed, RowStatus
  <2>2. /\ proc'[r].pc = "idleCount" /\ proc'[r].c = proc[r].c
        /\ \A q \in Proc \ {r} : proc'[q] = proc[q]
    BY <1>0, <2>1, Went
  <2>3. /\ \A e \in Dep \ {d} : dep'[e] = dep[e]
        /\ Exists(d) => dep'[d].status = "failed" /\ dep'[d].conn = dep[d].conn
        /\ ~Exists(d) => dep'[d] = dep[d]
    BY <1>0, <2>1 DEF SetStatus, TypeOK, DepRow
  <2>5. ASSUME NEW c \in Conn, Exists(d), dep[d].conn = c PROVE Kept(c)'
    <3>1. c = proc[r].c \/ c \in abandoned
      BY <1>0, <2>1, <2>5 DEF Held, Holding, At
    <3>2. c = proc[r].c => Covers(r, c)'
      BY <2>2 DEF Covers, Behind
    <3> QED BY <1>0, <2>1, <3>1, <3>2 DEF Kept
  <2>6. \A c \in Conn : Covers(r, c) => Kept(c)'
    BY <1>0, <2>1, <2>5 DEF Covers, IsAhead, At, Behind, WfPC
  <2>7. Held(r)'
    BY <1>0, <2>2, HoldsNothing DEF Binding, Revoking
  <2> QED BY <1>0, <2>1, <2>2, <2>3, <2>5, <2>6, <2>7, CredStatus
<1>9. CASE Ensure(r)
  <2>1. At(r, "ensure") /\ dep' = dep /\ abandoned' = abandoned /\ conn' = conn
    BY <1>9 DEF Ensure
  <2>2. \A c \in Conn : ~Covers(r, c)
    BY <1>0, <2>1 DEF Covers, IsAhead, Ahead, Behind, WfPC, At
  <2>3. ASSUME Held(r)', \A q \in Proc \ {r} : proc'[q] = proc[q] PROVE CredInv'
    BY <1>0, <1>1, <2>1, <2>2, <2>3, CredLocal
  <2>4. CASE Done(r)
    BY <1>0, <2>3, <2>4, Ended, HoldsNothing
  <2>5. CASE Goto(r, proc[r].then)
    <3>1. /\ proc'[r].pc \in {"rotateSubLoad", "retryStart", "revokeMark"}
          /\ \A q \in Proc \ {r} : proc'[q] = proc[q]
      BY <1>0, <2>1, <2>5, Went DEF Held, At
    <3>2. proc'[r].pc = proc[r].then /\ proc'[r].seen = proc[r].seen
      BY <1>0, <2>1, <2>5, Went DEF Held, At
    <3>3. Purpose(proc'[r]) \in Revoking => proc'[r].seen \in RowStatus
      BY <1>0, <2>1, <3>1, <3>2 DEF Held, At, Purpose
    <3>4. Held(r)'
      BY <1>0, <3>1, <3>3 DEF Held, Holding, Binding
    <3> QED BY <2>3, <3>1, <3>4
  <2>6. ASSUME ~Stored(proc[r].c), NEW c \in Conn, ValidAuth(c),
               Step(r, [proc[r] EXCEPT !.pc = "rebind", !.c = c])
        PROVE  CredInv'
    <3>1. /\ proc'[r].pc = "rebind" /\ proc'[r].c = c /\ proc'[r].d = d
          /\ proc'[r].then = proc[r].then /\ proc'[r].seen = proc[r].seen
          /\ \A q \in Proc \ {r} : proc'[q] = proc[q]
      BY <1>0, <2>6 DEF Step, TypeOK, ProcRec
    <3>2. /\ dep[d].status # "none"
          /\ Exists(d) => dep[d].conn \in abandoned \/ conn[dep[d].conn] # "live"
          /\ proc[r].then \in {"rotateSubLoad", "retryStart", "revokeMark"}
      BY <1>0, <2>1, <2>6 DEF Held, Holding, At, Stored
    <3>3. /\ dep'[proc'[r].d].status # "none"
          /\ Exists(proc[r].d)' => \/ dep'[proc'[r].d].conn \in abandoned'
                                   \/ conn'[dep'[proc'[r].d].conn] # "live"
          /\ conn'[proc'[r].c] # "none"
      BY <2>1, <2>6, <3>1, <3>2 DEF Exists, ValidAuth
    <3>5. Purpose(proc'[r]) \in Revoking => proc'[r].seen \in RowStatus
      BY <1>0, <2>1, <3>1 DEF Held, At, Purpose
    <3>4. Held(r)'
      BY <1>0, <3>1, <3>2, <3>3, <3>5 DEF Held, Holding
    <3> QED BY <2>3, <3>1, <3>4
  <2> QED BY <1>9, <2>4, <2>5, <2>6 DEF Ensure
<1>10. CASE Rebind(r)
  <2>1. /\ At(r, "rebind") /\ conn' = conn /\ Goto(r, proc[r].then)
        /\ dep' = IF Exists(d) THEN [dep EXCEPT ![d].conn = proc[r].c] ELSE dep
        /\ abandoned' = IF Busy(r, d) THEN abandoned \cup {proc[r].c, dep[d].conn} ELSE abandoned
    BY <1>10 DEF Rebind
  <2>2. /\ dep[d].status # "none" /\ conn[proc[r].c] # "none"
        /\ Exists(d) => dep[d].conn \in abandoned \/ conn[dep[d].conn] # "live"
        /\ proc[r].then \in {"rotateSubLoad", "retryStart", "revokeMark"}
        /\ proc[r].then = "revokeMark" => proc[r].seen \in RowStatus
    BY <1>0, <2>1 DEF Held, At, Binding, Purpose, Revoking
  <2>3. /\ proc'[r].pc = proc[r].then /\ proc'[r].d = d /\ proc'[r].seen = proc[r].seen
        /\ \A q \in Proc \ {r} : proc'[q] = proc[q]
    BY <1>0, <2>1, <2>2, Went
  <2>4. /\ dep'[d].status = dep[d].status /\ (Exists(d)' <=> Exists(d))
        /\ Exists(d) => dep'[d].conn = proc[r].c
        /\ \A e \in Dep \ {d} : dep'[e].status = dep[e].status /\ dep'[e].conn = dep[e].conn
    BY <1>0, <2>1 DEF TypeOK, DepRow, Exists
  <2>5. AtWork(r, d) => /\ dep[d].conn \in abandoned'
                        /\ Exists(d)' => dep'[d].conn \in abandoned'
                        /\ dep'[d].status # "none"
    BY <2>1, <2>2, <2>4, AtWorkIsBusy
  <2>6. ASSUME NEW c \in Conn, dep[d].status \in Active, dep[d].conn = c PROVE Kept(c)'
    BY <2>1, <2>2, <2>6 DEF Kept, Exists, RowStatus
  <2>7. \A c \in Conn : ~Covers(r, c)
    BY <1>0, <2>1 DEF Covers, IsAhead, Ahead, Behind, WfPC, At
  <2>8. ASSUME NEW c \in Conn, Exists(d)', dep'[d].conn = c PROVE conn'[c] # "none" /\ Kept(c)'
    <3>1. Exists(proc[r].d)' /\ dep'[proc'[r].d].conn = c
      BY <2>3, <2>8 DEF Exists
    <3>2. Covers(r, c)'
      BY <2>2, <2>3, <3>1 DEF Covers, IsAhead, Ahead
    <3> QED BY <1>0, <2>1, <2>2, <2>4, <2>8, <3>2 DEF Kept
  <2>9. Held(r)'
    BY <1>0, <2>2, <2>3 DEF Held, Holding, Binding, Purpose, Revoking
  <2>10. abandoned \subseteq abandoned'
    BY <2>1
  <2> QED BY <1>0, <1>1, <2>1, <2>3, <2>4, <2>5, <2>6, <2>7, <2>8, <2>9, <2>10, CredStep
<1>11. ASSUME Abandon(r)
       PROVE  /\ Held(r)' /\ \A q \in Proc \ {r} : proc'[q] = proc[q]
              /\ \A c \in Conn : Covers(r, c) => Kept(c)'
              /\ abandoned \subseteq abandoned'
              /\ proc[r].c \in abandoned' /\ dep[d].conn \in abandoned'
  <2>1. Done(r) /\ abandoned' = abandoned \cup {proc[r].c, dep[d].conn}
    BY <1>11 DEF Abandon
  <2> QED BY <1>0, <2>1, Ended, HoldsNothing DEF Covers, Kept
<1>12. CASE BeaconBind(r)
  <2>1. /\ At(r, "beaconBind") /\ conn' = conn /\ Abandon(r)
        /\ dep' = IF Exists(d) THEN [dep EXCEPT ![d].conn = proc[r].c] ELSE dep
    BY <1>12 DEF BeaconBind
  <2>2. /\ dep'[d].status = dep[d].status /\ (Exists(d)' <=> Exists(d))
        /\ Exists(d) => dep'[d].conn = proc[r].c
        /\ \A e \in Dep \ {d} : dep'[e].status = dep[e].status /\ dep'[e].conn = dep[e].conn
    BY <1>0, <2>1 DEF TypeOK, DepRow, Exists
  <2>3. conn[proc[r].c] # "none"
    BY <1>0, <2>1 DEF Held, At, Binding
  <2>4. \A c \in Conn : dep[d].conn = c => Kept(c)'
    BY <1>11, <2>1 DEF Kept
  <2>5. \A c \in Conn : Exists(d)' /\ dep'[d].conn = c => conn'[c] # "none" /\ Kept(c)'
    BY <1>11, <2>1, <2>2, <2>3 DEF Kept
  <2>6. dep[d].status # "none" => /\ dep[d].conn \in abandoned'
                                  /\ Exists(d)' => dep'[d].conn \in abandoned'
                                  /\ dep'[d].status # "none"
    BY <1>11, <2>1, <2>2
  <2> QED BY <1>0, <1>1, <1>11, <2>1, <2>2, <2>4, <2>5, <2>6, CredStep
<1>13. ASSUME Abandon(r), dep' = dep, conn' = conn PROVE CredInv'
  BY <1>0, <1>1, <1>11, <1>13, CredLocal
<1>14. CASE RotateSubLoad(r)
  <2>1. At(r, "rotateSubLoad") /\ dep' = dep /\ conn' = conn
    BY <1>14 DEF RotateSubLoad
  <2>2. ASSUME Exists(d), abandoned' = abandoned,
               Step(r, [proc[r] EXCEPT !.pc = "rotateSubUpload", !.c = dep[d].conn,
                          !.tok = fresh + 1, !.node = secret[d].node])
        PROVE  CredInv'
    <3>1. /\ proc'[r].pc = "rotateSubUpload" /\ proc'[r].c = dep[d].conn
          /\ \A q \in Proc \ {r} : proc'[q] = proc[q]
      BY <1>0, <2>2 DEF Step, TypeOK, ProcRec
    <3>2. Held(r)'
      BY <1>0, <3>1, HoldsNothing DEF Binding, Revoking
    <3>3. \A c \in Conn : Covers(r, c) => Kept(c)'
      BY <1>0, <2>1, <3>1 DEF Covers, Kept, Behind, WfPC, At
    <3> QED BY <1>0, <1>1, <2>1, <2>2, <3>1, <3>2, <3>3, CredLocal
  <2> QED BY <1>13, <1>14, <2>1, <2>2 DEF RotateSubLoad
<1>15. CASE RotateSubUploadFails(r) \/ RetryStartFails(r)
  BY <1>13, <1>15 DEF RotateSubUploadFails, RetryStartFails
<1>16. CASE RotateSubUpload(r) \/ RotateSubWrite(r)
  <2>1. /\ proc[r].pc \in {"rotateSubUpload", "rotateSubWrite"}
        /\ conn' = conn /\ abandoned' = abandoned
        /\ Goto(r, "rotateSubWrite") \/ Goto(r, "idleCount")
    BY <1>16 DEF RotateSubUpload, RotateSubWrite, At
  <2>2. \A e \in Dep : dep'[e].status = dep[e].status /\ dep'[e].conn = dep[e].conn
    BY <1>0, <1>16 DEF RotateSubUpload, RotateSubWrite, TypeOK, DepRow
  <2>3. /\ proc'[r].pc \in {"rotateSubWrite", "idleCount"} /\ proc'[r].c = proc[r].c
        /\ \A q \in Proc \ {r} : proc'[q] = proc[q]
    BY <1>0, <2>1, Went
  <2>4. Held(r)'
    BY <1>0, <2>3, HoldsNothing DEF Binding, Revoking
  <2>5. \A c \in Conn : Covers(r, c) => Kept(c)'
    BY <1>0, <2>1, <2>3 DEF Covers, IsAhead, Ahead, Kept, Behind
  <2> QED BY <1>0, <1>1, <2>1, <2>2, <2>3, <2>4, <2>5, CredLocal
<1>17. CASE RevokeMark(r)
  <2>1. /\ At(r, "revokeMark") /\ SetStatus(d, "revoking") /\ Goto(r, "revokeStart")
        /\ abandoned' = abandoned /\ conn' = conn
        /\ "revoking" \in RowStatus /\ "revoking" \in Active
    BY <1>17 DEF RevokeMark, RowStatus, Active
  <2>2. /\ proc'[r].pc = "revokeStart" /\ proc'[r].seen = proc[r].seen
        /\ \A q \in Proc \ {r} : proc'[q] = proc[q]
    BY <1>0, <2>1, Went
  <2>3. /\ \A e \in Dep \ {d} : dep'[e] = dep[e]
        /\ Exists(d) => dep'[d].status = "revoking" /\ dep'[d].conn = dep[d].conn
        /\ ~Exists(d) => dep'[d] = dep[d]
    BY <1>0, <2>1 DEF SetStatus, TypeOK, DepRow
  <2>4. ASSUME NEW c \in Conn, Covers(r, c) PROVE Kept(c)'
    <3>1. Exists(d) /\ dep[d].conn = c
      BY <1>0, <2>1, <2>4 DEF Covers, Behind, WfPC, At
    <3> QED BY <1>0, <2>1, <2>3, <3>1 DEF Kept, Needing
  <2>5. Held(r)'
    BY <1>0, <2>1, <2>2 DEF Held, Holding, Binding, Purpose, Revoking, At
  <2> QED BY <1>0, <2>1, <2>2, <2>3, <2>4, <2>5, CredStatus
<1>21. CASE RevokeStartFails(r)
  <2>1. At(r, "revokeStart") /\ UNCHANGED <<dep, conn, abandoned>>
    BY <1>21 DEF RevokeStartFails
  <2>2. CASE SpawnUnseen(r, "revoke", "revokeFailed")
    BY <2>1, <2>2, CredLaunch DEF SpawnUnseen, Ahead, At
  <2>3. CASE Goto(r, "revokeFailed")
    <3>1. /\ proc'[r].pc = "revokeFailed" /\ proc'[r].d = d /\ proc'[r].seen = proc[r].seen
          /\ \A q \in Proc \ {r} : proc'[q] = proc[q]
      BY <1>0, <2>3, Went
    <3>4. Held(r)'
      BY <1>0, <2>1, <3>1 DEF Held, Holding, Binding, Purpose, Revoking, At
    <3>5. ASSUME NEW c \in Conn, Covers(r, c) PROVE Kept(c)'
      <4>1. Exists(d) /\ dep[d].conn = c
        BY <1>0, <2>1, <3>5 DEF Covers, At, Behind, WfPC
      <4>2. Covers(r, c)'
        BY <2>1, <3>1, <4>1 DEF Covers, IsAhead, Ahead, Exists
      <4> QED BY <1>0, <4>2 DEF Kept
    <3> QED BY <1>0, <1>1, <2>1, <3>1, <3>4, <3>5, CredLocal
  <2> QED BY <1>21, <2>2, <2>3 DEF RevokeStartFails
<1>18. CASE RevokeFailed(r)
  <2>1. At(r, "revokeFailed") /\ SetStatus(d, proc[r].seen) /\ Abandon(r) /\ conn' = conn
    BY <1>18 DEF RevokeFailed
  <2>2. proc[r].seen \in RowStatus
    BY <1>0, <2>1 DEF Held, At, Purpose, Revoking
  <2>3. /\ \A e \in Dep \ {d} : dep'[e] = dep[e]
        /\ Exists(d) => dep'[d].status = proc[r].seen /\ dep'[d].conn = dep[d].conn
        /\ ~Exists(d) => dep'[d] = dep[d]
    BY <1>0, <2>1 DEF SetStatus, TypeOK, DepRow
  <2>4. \A c \in Conn : dep[d].conn = c => Kept(c)'
    BY <1>11, <2>1 DEF Kept
  <2> QED BY <1>0, <1>11, <2>1, <2>2, <2>3, <2>4, CredStatus
<1>19. CASE DeleteWrite(r)
  <2>1. /\ At(r, "deleteWrite") /\ conn' = conn /\ Done(r)
        /\ dep' = [dep EXCEPT ![d] = [status |-> "gone", conn |-> AnyConn, agent |-> 0, sub |-> 0]]
        /\ abandoned \subseteq abandoned'
        /\ dep[d].status \in Active \/ Busy(r, d) => dep[d].conn \in abandoned'
    BY <1>19 DEF DeleteWrite
  <2>2. /\ dep'[d].status = "gone"
        /\ \A e \in Dep \ {d} : dep'[e].status = dep[e].status /\ dep'[e].conn = dep[e].conn
    BY <1>0, <2>1 DEF TypeOK
  <2>3. ~Exists(d)' /\ dep'[d].status # "none"
    BY <2>2 DEF Exists, RowStatus, Active
  <2>4. AtWork(r, d) => dep[d].conn \in abandoned'
    BY <2>1, AtWorkIsBusy
  <2>5. \A c \in Conn : dep[d].status \in Active /\ dep[d].conn = c => Kept(c)'
    BY <2>1 DEF Kept
  <2>6. \A c \in Conn : ~Covers(r, c)
    BY <1>0, <2>1 DEF Covers, IsAhead, Ahead, Behind, WfPC, At
  <2>7. Held(r)' /\ \A q \in Proc \ {r} : proc'[q] = proc[q]
    BY <1>0, <2>1, Ended, HoldsNothing
  <2> QED BY <1>0, <1>1, <2>1, <2>2, <2>3, <2>4, <2>5, <2>6, <2>7, CredStep
<1> QED
  BY <1>2, <1>3, <1>4, <1>5, <1>6, <1>7, <1>8, <1>9, <1>10, <1>12, <1>14, <1>15, <1>16, <1>17,
     <1>18, <1>19, <1>20, <1>21 DEF ReqStep

\* A request is killed: what it was going to look after is abandoned.
LEMMA CredKill ==
  ASSUME TypeOK, TypeOK', Labels, CredInv, NEW r \in Req, Kill(r)
  PROVE  CredInv'
<1> USE DEF rows, hist, ends
<1>1. /\ r \in Proc /\ r \notin Wf /\ Held(r) /\ Done(r) /\ dep' = dep /\ conn' = conn
      /\ abandoned' = abandoned \cup LeftBy(r)
      /\ conn \in [Conn -> {"none", "live", "expired", "erased"}]
  BY ConstantsAssumption DEF Kill, Proc, CredInv, TypeOK
<1>2. ASSUME NEW c \in Conn, Covers(r, c) PROVE c \in LeftBy(r)
  BY <1>1, <1>2 DEF Covers, IsAhead, Ahead, Behind, LeftBy, Labels
<1>3. \A c \in Conn : Covers(r, c) => Kept(c)'
  BY <1>1, <1>2 DEF Kept
<1> QED BY <1>1, <1>3, Ended, HoldsNothing, CredLocal

\* A workflow instance continues.  From the load on it works for the connection
\* it read and, unless it ends with its deployment still active, hands that
\* connection to the count.
LEMMA CredWf ==
  ASSUME TypeOK, TypeOK', CredInv, NEW w \in Wf, WfStep(w)
  PROVE  CredInv'
<1> USE DEF rows, hist, ends
<1>d. PICK d \in Dep : d = proc[w].d
  BY LocalsTyped DEF Proc
<1> USE <1>d
<1>0. /\ w \in Proc /\ w \notin Req /\ proc[w].c \in Conn /\ Held(w)
      /\ conn \in [Conn -> {"none", "live", "expired", "erased"}]
      /\ \A e \in Dep : dep[e].conn \in Conn
  BY LocalsTyped, ConstantsAssumption DEF Proc, CredInv, TypeOK, DepRow
<1>1. ASSUME proc[w].pc \in Behind
      PROVE  /\ \A c \in Conn : Covers(w, c) => proc[w].c = c
             /\ dep[d].status # "none"
             /\ \/ Exists(d) /\ dep[d].conn = proc[w].c
                \/ proc[w].c \in abandoned /\ (Exists(d) => dep[d].conn \in abandoned)
  BY <1>0, <1>1 DEF Covers, IsAhead, Ahead, Behind, WfPC, Held, Holding
<1>2. ASSUME proc[w].pc \in Behind, NEW l \in Behind \cap PC, proc'[w].pc = l,
             proc'[w].d = d, proc'[w].c = proc[w].c,
             abandoned' = abandoned, Exists(d)' <=> Exists(d), dep'[d].conn = dep[d].conn,
             dep'[d].status # "none"
      PROVE  Held(w)' /\ \A c \in Conn : Covers(w, c) => Covers(w, c)'
  <2>1. dep'[proc'[w].d].status # "none" /\ (Exists(proc[w].d)' <=> Exists(d))
    BY <1>2 DEF Exists
  <2>2. \/ Exists(d) /\ dep'[proc'[w].d].conn = proc'[w].c
        \/ /\ proc'[w].c \in abandoned'
           /\ Exists(d) => dep'[proc'[w].d].conn \in abandoned'
    BY <1>1, <1>2
  <2>3. Held(w)'
    BY <1>0, <1>2, <2>1, <2>2 DEF Held, Purpose, Revoking, Binding, Behind, WfPC
  <2>4. \A c \in Conn : Covers(w, c) => Covers(w, c)'
    BY <1>1, <1>2 DEF Covers
  <2> QED BY <2>3, <2>4
<1>3. ASSUME proc[w].pc \in Behind, NEW l \in Behind \cap PC, Goto(w, l),
             abandoned' = abandoned, dep' = dep,
             \A c \in Conn : conn'[c] = "live" => conn[c] \in {"none", "live"},
             \A c \in Conn : conn[c] # "none" => conn'[c] # "none"
      PROVE  CredInv'
  <2>1. /\ proc'[w].pc = l /\ proc'[w].d = d /\ proc'[w].c = proc[w].c
        /\ \A q \in Proc \ {w} : proc'[q] = proc[q]
    BY <1>0, <1>3, Went DEF Behind, WfPC
  <2>2. (Exists(d)' <=> Exists(d)) /\ dep'[d].conn = dep[d].conn /\ dep'[d].status # "none"
    BY <1>1, <1>3 DEF Exists
  <2>3. Held(w)' /\ \A c \in Conn : Covers(w, c) => Covers(w, c)'
    BY <1>2, <1>3, <2>1, <2>2
  <2>4. \A c \in Conn : Covers(w, c) => Kept(c)'
    BY <1>0, <2>3 DEF Kept
  <2> QED BY <1>0, <1>3, <2>1, <2>3, <2>4, CredLocal
<1>4. ASSUME proc[w].pc \in Behind, NEW l \in Behind \cap PC, proc'[w].pc = l,
             proc'[w].d = d, proc'[w].c = proc[w].c,
             \A q \in Proc \ {w} : proc'[q] = proc[q],
             abandoned' = abandoned, conn' = conn, NEW s \in RowStatus,
             \A e \in Dep \ {d} : dep'[e] = dep[e],
             Exists(d) => dep'[d].status = s /\ dep'[d].conn = dep[d].conn,
             ~Exists(d) => dep'[d] = dep[d]
      PROVE  CredInv'
  <2>1. (Exists(d)' <=> Exists(d)) /\ dep'[d].conn = dep[d].conn /\ dep'[d].status # "none"
    BY <1>1, <1>4 DEF Exists, RowStatus, Active
  <2>2. Held(w)' /\ \A c \in Conn : Covers(w, c) => Covers(w, c)'
    BY <1>2, <1>4, <2>1
  <2>3. \A c \in Conn : Covers(w, c) => Kept(c)'
    BY <1>0, <2>2 DEF Kept
  <2>4. ASSUME NEW c \in Conn, Exists(d), dep[d].conn = c PROVE Kept(c)'
    <3>1. c = proc[w].c \/ c \in abandoned
      BY <1>1, <1>4, <2>4
    <3>2. c = proc[w].c => Covers(w, c)'
      BY <1>4 DEF Covers
    <3> QED BY <1>0, <1>4, <3>1, <3>2 DEF Kept
  <2> QED BY <1>0, <1>4, <2>2, <2>3, <2>4, CredStatus
<1>5. ASSUME proc[w].pc \in Behind, NEW l \in Behind \cap PC, NEW s \in RowStatus,
             NEW k, WfMark(w, k, s, l)
      PROVE  CredInv'
  <2>1. Goto(w, l) /\ SetStatus(d, s) /\ conn' = conn /\ abandoned' = abandoned
    BY <1>5 DEF WfMark
  <2>2. /\ proc'[w].pc = l /\ proc'[w].d = d /\ proc'[w].c = proc[w].c
        /\ \A q \in Proc \ {w} : proc'[q] = proc[q]
    BY <1>0, <1>5, <2>1, Went DEF Behind, WfPC
  <2>3. /\ \A e \in Dep \ {d} : dep'[e] = dep[e]
        /\ Exists(d) => dep'[d].status = s /\ dep'[d].conn = dep[d].conn
        /\ ~Exists(d) => dep'[d] = dep[d]
    BY <1>0, <2>1 DEF SetStatus, TypeOK, DepRow
  <2> QED BY <1>4, <1>5, <2>1, <2>2, <2>3
<1>6. /\ WfPC \ {"load"} \subseteq Behind \cap PC /\ {"idleCount", "idleScrub"} \subseteq Behind \cap PC
      /\ {"preparing", "finalizing", "awaiting_agent", "ready", "revoked", "failed"} \subseteq RowStatus
  BY DEF Behind, WfPC, PC, RowStatus, Active
<1>7. \A c \in Conn : /\ conn[c] = "live" => conn[c] \in {"none", "live"}
                      /\ conn[c] # "none" => conn[c] # "none"
  OBVIOUS
<1>8. CASE WfLoad(w)
  <2>1. At(w, "load") /\ dep' = dep /\ conn' = conn /\ abandoned' = abandoned
    BY <1>8 DEF WfLoad
  <2>2. CASE Exists(d)
    <3>1. PICK n : Step(w, [proc[w] EXCEPT !.pc = FirstStep(proc[w].act), !.c = dep[d].conn,
                              !.sub = dep[d].sub, !.tok = n])
      BY <1>8, <2>2 DEF WfLoad
    <3>2. FirstStep(proc[w].act) \in {"markPreparing", "markFinalizing", "disableAuth"}
      BY <1>0 DEF FirstStep, TypeOK, ProcRec, Action
    <3>3. /\ proc'[w].pc \in {"markPreparing", "markFinalizing", "disableAuth"}
          /\ proc'[w].d = d /\ proc'[w].c = dep[d].conn
          /\ \A q \in Proc \ {w} : proc'[q] = proc[q]
      BY <1>0, <3>1, <3>2 DEF Step, TypeOK, ProcRec
    <3>4. /\ dep'[proc'[w].d].status # "none" /\ Exists(proc[w].d)'
          /\ dep'[proc'[w].d].conn = proc'[w].c
      BY <2>1, <2>2, <3>3 DEF Exists, RowStatus, Active
    <3>5. Held(w)'
      BY <1>0, <3>3, <3>4 DEF Held, Purpose, Revoking, Binding
    <3>6. ASSUME NEW c \in Conn, Covers(w, c) PROVE Kept(c)'
      <4>1. dep[d].conn = c
        BY <1>0, <2>1, <3>6 DEF Covers, Behind, At
      <4>2. Covers(w, c)'
        BY <3>3, <4>1 DEF Covers, Behind, WfPC
      <4> QED BY <1>0, <4>2 DEF Kept
    <3> QED BY <1>0, <1>7, <2>1, <3>3, <3>5, <3>6, CredLocal
  <2>3. CASE ~Exists(d)
    <3>1. Done(w)
      BY <1>8, <2>3 DEF WfLoad
    <3>2. \A c \in Conn : ~Covers(w, c)
      BY <1>0, <2>1, <2>3 DEF Covers, Behind, At
    <3> QED BY <1>0, <1>7, <2>1, <3>1, <3>2, Ended, HoldsNothing, CredLocal
  <2> QED BY <2>2, <2>3
<1>9. CASE WfAuth(w) \/ WfPendingUpload(w) \/ WfPublishUpload(w) \/ WfDisableUpload(w) \/ WfDropBoot(w)
  <2>1. /\ proc[w].pc \in WfPC \ {"load"} /\ dep' = dep /\ conn' = conn /\ abandoned' = abandoned
        /\ \E l \in (WfPC \ {"load"}) \cup {"idleCount"} : Goto(w, l)
    BY <1>9 DEF WfAuth, WfPendingUpload, WfPublishUpload, WfDisableUpload, WfDropBoot, WfPC, At
  <2> QED BY <1>3, <1>6, <1>7, <2>1
<1>10. CASE WfMarkPreparing(w) \/ WfMarkFinalizing(w)
  <2>1. /\ proc[w].pc \in WfPC \ {"load"}
        /\ \/ WfMark(w, "markPreparing", "preparing", "dns")
           \/ WfMark(w, "markFinalizing", "finalizing", "publishRead")
    BY <1>10 DEF WfMarkPreparing, WfMarkFinalizing, WfMark, WfPC, At
  <2>2. "dns" \in Behind \cap PC /\ "publishRead" \in Behind \cap PC
    BY DEF Behind, WfPC, PC
  <2> QED BY <1>5, <1>6, <2>1, <2>2
<1>11. CASE WfMarkReady(w)
  <2>1. proc[w].pc \in Behind /\ \E l \in Behind \cap PC : WfMark(w, "markReady", "ready", l)
    BY <1>11 DEF WfMarkReady, WfMark, WfPC, PC, Behind, At
  <2> QED BY <1>5, <1>6, <2>1
<1>12. CASE WfMarkAwaiting(w)
  <2>1. PICK l \in {"idle", "markAwaiting", "catch"} :
          WfMark(w, "markAwaiting", "awaiting_agent", l)
    BY <1>12 DEF WfMarkAwaiting
  <2>2. proc[w].pc \in Behind /\ "awaiting_agent" \in Active
    BY <2>1 DEF WfMark, Behind, WfPC, At, Active
  <2>3. CASE l # "idle"
    BY <1>5, <1>6, <2>1, <2>2, <2>3 DEF Behind, WfPC, PC
  <2>4. CASE l = "idle"
    <3>1. Done(w) /\ SetStatus(d, "awaiting_agent") /\ conn' = conn /\ abandoned' = abandoned
      BY <2>1, <2>4 DEF WfMark, Goto
    <3>2. /\ \A e \in Dep \ {d} : dep'[e] = dep[e]
          /\ Exists(d) => dep'[d].status = "awaiting_agent" /\ dep'[d].conn = dep[d].conn
          /\ ~Exists(d) => dep'[d] = dep[d]
      BY <1>0, <3>1 DEF SetStatus, TypeOK, DepRow
    <3>3. ASSUME NEW c \in Conn, Covers(w, c) PROVE Kept(c)'
      <4>1. (Exists(d) /\ dep[d].conn = c) \/ c \in abandoned
        BY <1>1, <2>2, <3>3
      <4> QED BY <2>2, <3>1, <3>2, <4>1 DEF Kept, Needing
    <3>4. Held(w)' /\ \A q \in Proc \ {w} : proc'[q] = proc[q]
      BY <1>0, <3>1, Ended, HoldsNothing
    <3> QED BY <1>0, <1>6, <2>2, <3>1, <3>2, <3>3, <3>4, CredStatus
  <2> QED BY <2>3, <2>4
<1>13. CASE WfPublishRead(w)
  <2>1. /\ At(w, "publishRead") /\ dep' = dep /\ conn' = conn /\ abandoned' = abandoned
        /\ Step(w, [proc[w] EXCEPT !.pc = "publishUpload", !.sub = dep[d].sub,
                      !.tok = secret[d].sub, !.node = secret[d].node])
    BY <1>13 DEF WfPublishRead
  <2>2. /\ proc'[w].pc = "publishUpload" /\ proc'[w].d = d /\ proc'[w].c = proc[w].c
        /\ \A q \in Proc \ {w} : proc'[q] = proc[q]
    BY <1>0, <2>1 DEF Step, TypeOK, ProcRec
  <2>3. proc[w].pc \in Behind /\ "publishUpload" \in Behind \cap PC
    BY <2>1 DEF Behind, WfPC, PC, At
  <2>4. (Exists(d)' <=> Exists(d)) /\ dep'[d].conn = dep[d].conn /\ dep'[d].status # "none"
    BY <1>1, <2>1, <2>3 DEF Exists
  <2>5. Held(w)' /\ \A c \in Conn : Covers(w, c) => Covers(w, c)'
    BY <1>2, <2>1, <2>2, <2>3, <2>4
  <2>6. \A c \in Conn : Covers(w, c) => Kept(c)'
    BY <1>0, <2>5 DEF Kept
  <2> QED BY <1>0, <1>7, <2>1, <2>2, <2>5, <2>6, CredLocal
<1>14. CASE WfMarkRevoked(w)
  <2>1. /\ At(w, "markRevoked") /\ conn' = conn /\ abandoned' = abandoned /\ Goto(w, "dropBoot")
        /\ dep' = IF Exists(d)
                    THEN [dep EXCEPT ![d].status = "revoked", ![d].sub = proc[w].tok, ![d].agent = 0]
                    ELSE dep
    BY <1>14 DEF WfMarkRevoked
  <2>2. /\ proc'[w].pc = "dropBoot" /\ proc'[w].d = d /\ proc'[w].c = proc[w].c
        /\ \A q \in Proc \ {w} : proc'[q] = proc[q]
    BY <1>0, <2>1, Went
  <2>3. /\ \A e \in Dep \ {d} : dep'[e] = dep[e]
        /\ Exists(d) => dep'[d].status = "revoked" /\ dep'[d].conn = dep[d].conn
        /\ ~Exists(d) => dep'[d] = dep[d]
    BY <1>0, <2>1 DEF TypeOK, DepRow
  <2>4. proc[w].pc \in Behind /\ "dropBoot" \in Behind \cap PC
    BY <2>1 DEF Behind, WfPC, PC, At
  <2> QED BY <1>4, <1>6, <2>1, <2>2, <2>3, <2>4
<1>15. CASE WfStepFails(w)
  <2>1. /\ proc[w].pc \in InStep /\ dep' = dep /\ conn' = conn /\ abandoned' = abandoned
        /\ \E l \in {BodyStart(proc[w].pc), "catch"} : Goto(w, l)
    BY <1>15 DEF WfStepFails
  <2>2. BodyStart(proc[w].pc) \in Behind \cap PC /\ proc[w].pc \in Behind /\ "catch" \in Behind \cap PC
    BY <2>1 DEF BodyStart, InStep, Behind, WfPC, PC
  <2> QED BY <1>3, <1>7, <2>1, <2>2
<1>16. CASE WfReadyNotifyFails(w)
  <2>1. At(w, "idleScrub") /\ Scrub(proc[w].c) /\ Goto(w, "catch") /\ dep' = dep /\ abandoned' = abandoned
    BY <1>16 DEF WfReadyNotifyFails
  <2>2. /\ \A c \in Conn : conn'[c] = "live" => conn[c] \in {"none", "live"}
        /\ \A c \in Conn : conn[c] # "none" => conn'[c] # "none"
    BY <1>0, <2>1 DEF Scrub
  <2>3. proc[w].pc \in Behind /\ "catch" \in Behind \cap PC
    BY <2>1 DEF Behind, WfPC, PC, At
  <2> QED BY <1>3, <2>1, <2>2, <2>3
<1>17. CASE WfCatch(w)
  <2>1. /\ At(w, "catch") /\ SetStatus(d, "failed") /\ conn' = conn /\ abandoned' = abandoned
        /\ Step(w, [proc[w] EXCEPT !.pc = "idleCount", !.then = "catch"])
    BY <1>17 DEF WfCatch
  <2>2. /\ proc'[w].pc = "idleCount" /\ proc'[w].d = d /\ proc'[w].c = proc[w].c
        /\ \A q \in Proc \ {w} : proc'[q] = proc[q]
    BY <1>0, <2>1 DEF Step, TypeOK, ProcRec
  <2>3. /\ \A e \in Dep \ {d} : dep'[e] = dep[e]
        /\ Exists(d) => dep'[d].status = "failed" /\ dep'[d].conn = dep[d].conn
        /\ ~Exists(d) => dep'[d] = dep[d]
    BY <1>0, <2>1 DEF SetStatus, TypeOK, DepRow
  <2>4. proc[w].pc \in Behind /\ "idleCount" \in Behind \cap PC
    BY <2>1 DEF Behind, WfPC, PC, At
  <2> QED BY <1>4, <1>6, <2>1, <2>2, <2>3, <2>4
<1>18. CASE WfLoadFails(w)
  <2>1. /\ At(w, "load") /\ Done(w) /\ conn' = conn
        /\ abandoned' = abandoned \cup {dep[d].conn}
        /\ SetStatus(d, "failed") \/ dep' = dep
    BY <1>18 DEF WfLoadFails
  <2>2. \A c \in Conn : dep[d].conn = c => Kept(c)'
    BY <2>1 DEF Kept
  <2>3. \A c \in Conn : Covers(w, c) => Kept(c)'
    BY <1>0, <2>1, <2>2 DEF Covers, Behind, At
  <2>4. Held(w)' /\ \A q \in Proc \ {w} : proc'[q] = proc[q]
    BY <1>0, <2>1, Ended, HoldsNothing
  <2>5. CASE dep' = dep
    BY <1>0, <1>7, <2>1, <2>3, <2>4, <2>5, CredLocal
  <2>6. CASE SetStatus(d, "failed")
    <3>1. /\ \A e \in Dep \ {d} : dep'[e] = dep[e]
          /\ Exists(d) => dep'[d].status = "failed" /\ dep'[d].conn = dep[d].conn
          /\ ~Exists(d) => dep'[d] = dep[d]
      BY <1>0, <2>6 DEF SetStatus, TypeOK, DepRow
    <3> QED BY <1>0, <1>6, <2>1, <2>2, <2>3, <2>4, <3>1, CredStatus
  <2> QED BY <2>1, <2>5, <2>6
<1>19. ASSUME proc[w].pc \in Behind, Done(w), dep' = dep, conn' = conn,
              abandoned' = abandoned \cup {proc[w].c}
       PROVE  CredInv'
  <2>1. \A c \in Conn : Covers(w, c) => Kept(c)'
    BY <1>1, <1>19 DEF Kept
  <2>2. Held(w)' /\ \A q \in Proc \ {w} : proc'[q] = proc[q]
    BY <1>0, <1>19, Ended, HoldsNothing
  <2> QED BY <1>0, <1>7, <1>19, <2>1, <2>2, CredLocal
<1>20. CASE WfEraseFails(w)
  <2>1. /\ proc[w].pc \in {"idleCount", "idleScrub"} /\ dep' = dep /\ conn' = conn
        /\ \/ Done(w) /\ abandoned' = abandoned \cup {proc[w].c}
           \/ Goto(w, "catch") /\ abandoned' = abandoned
    BY <1>20 DEF WfEraseFails
  <2>2. proc[w].pc \in Behind /\ "catch" \in Behind \cap PC
    BY <2>1 DEF Behind, WfPC, PC
  <2> QED BY <1>3, <1>7, <1>19, <2>1, <2>2
<1>21. CASE WfDies(w)
  <2>1. proc[w].pc \in Behind
    BY <1>21 DEF WfDies, At, Behind, WfPC
  <2> QED BY <1>19, <1>21, <2>1 DEF WfDies
<1> QED
  BY <1>8, <1>9, <1>10, <1>11, <1>12, <1>13, <1>14, <1>15, <1>16, <1>17, <1>18, <1>20, <1>21
     DEF WfStep

\* disconnectConnectionIfIdle lets a connection be only where another deployment
\* needs it.
LEMMA CredErase ==
  ASSUME TypeOK, TypeOK', CredInv, NEW p \in Proc, Erase(p)
  PROVE  CredInv'
<1> USE DEF rows, hist, ends
<1>0. /\ proc[p].c \in Conn /\ proc[p].d \in Dep /\ Held(p)
      /\ conn \in [Conn -> {"none", "live", "expired", "erased"}]
  BY LocalsTyped DEF CredInv, TypeOK
<1>1. /\ proc[p].pc \in {"idleCount", "idleScrub"} /\ dep' = dep /\ abandoned' = abandoned
      /\ \A c \in Conn : conn'[c] = "live" => conn[c] \in {"none", "live"}
      /\ \A c \in Conn : conn[c] # "none" => conn'[c] # "none"
  BY <1>0 DEF Erase, IdleCount, IdleScrub, Scrub, At
<1>2. \A c \in Conn : Covers(p, c) => proc[p].c = c
  BY <1>1 DEF Covers, IsAhead, Ahead
<1>3. CASE IdleCount(p) /\ Needing(proc[p].c, {proc[p].d}) = {}
  <2>1. Goto(p, "idleScrub")
    BY <1>3 DEF IdleCount
  <2>2. /\ proc'[p].pc = "idleScrub" /\ proc'[p].d = proc[p].d /\ proc'[p].c = proc[p].c
        /\ \A q \in Proc \ {p} : proc'[q] = proc[q]
    BY <2>1, Went
  <2>3. \A c \in Conn : Covers(p, c) => Kept(c)'
    BY <1>2, <2>2 DEF Covers, Kept, Behind
  <2>4. /\ dep'[proc'[p].d] = dep[proc[p].d] /\ (Holding(p)' <=> Holding(p))
        /\ Exists(proc[p].d)' <=> Exists(proc[p].d)
    BY <1>1, <2>2 DEF Holding, Exists
  <2>5. Held(p)'
    BY <1>0, <1>1, <2>2, <2>4 DEF Held, Purpose, Revoking, Binding
  <2> QED BY <1>1, <2>2, <2>3, <2>5, CredLocal
<1>4. CASE IdleCount(p) /\ Needing(proc[p].c, {proc[p].d}) # {}
  <2>1. Done(p)
    BY <1>4 DEF IdleCount
  <2>3. ASSUME NEW c \in Conn, Covers(p, c) PROVE Kept(c)'
    <3>1. Needing(c, {proc[p].d}) # {}
      BY <1>2, <1>4, <2>3
    <3> QED BY <1>1, <3>1 DEF Kept, Needing
  <2> QED BY <1>1, <2>1, <2>3, Ended, HoldsNothing, CredLocal
<1>5. CASE IdleScrub(p)
  <2>1. Done(p) /\ Scrub(proc[p].c)
    BY <1>5 DEF IdleScrub
  <2>2. conn'[proc[p].c] # "live"
    BY <1>0, <2>1 DEF Scrub, Stored
  <2>3. \A c \in Conn : Covers(p, c) => Kept(c)'
    BY <1>2, <2>2 DEF Kept
  <2> QED BY <1>1, <2>1, <2>3, Ended, HoldsNothing, CredLocal
<1> QED BY <1>3, <1>4, <1>5 DEF Erase

LEMMA CredNext == TypeOK /\ Labels /\ CredInv /\ [Next]_vars => CredInv'
<1> SUFFICES ASSUME TypeOK, Labels, CredInv, [Next]_vars PROVE CredInv'
  OBVIOUS
<1>0. TypeOK' /\ conn \in [Conn -> {"none", "live", "expired", "erased"}]
  BY NextTyped DEF TypeOK
<1>1. CASE \/ \E c \in Conn : Expire(c)
           \/ CronErase
           \/ \E d \in Dep : ExpireBoot(d)
           \/ UNCHANGED vars
  <2>1. /\ UNCHANGED <<dep, proc, abandoned>>
        /\ \A c \in Conn : conn'[c] = "live" => conn[c] = "live"
        /\ \A c \in Conn : conn[c] # "none" => conn'[c] # "none"
    BY <1>0, <1>1 DEF Expire, CronErase, EraseExpired, ExpireBoot, vars, rows, hist
  <2> QED BY <2>1, CredFrame
<1> QED BY <1>0, <1>1, CredArrive, CredReq, CredKill, CredWf, CredErase DEF Next, Continue, Rest

LEMMA CredInit == Init => CredInv
<1> SUFFICES ASSUME Init PROVE CredInv
  OBVIOUS
<1>1. \A p \in Proc : proc[p].pc = "idle"
  BY DEF Init, IdleProc
<1>2. \A d \in Dep : dep[d].status = "none"
  BY DEF Init
<1> QED
  BY <1>1, <1>2
     DEF CredInv, Held, Holding, Binding, Purpose, Revoking, Exists, RowStatus, Active

\* Whatever requests, workflows and crons overlap, with any number of them, no
\* usable credential is left behind at rest for deployments that all ended, but
\* for the exceptions that "abandoned" records.  (oauth.ts: the COUNT and the
\* erase of disconnectConnectionIfIdle are separate statements.)
THEOREM CredentialsDoNotIdle == Spec => []NoIdleCredential
<1>1. CredInv => NoIdleCredential
  <2> SUFFICES ASSUME CredInv, Quiet, NEW c \in Conn, conn[c] = "live",
                      NEW d \in Dep, Exists(d), dep[d].conn = c
               PROVE  c \in abandoned \/ Needing(c, {}) # {}
    BY DEF NoIdleCredential
  <2>1. \A p \in Proc : ~Covers(p, c)
    BY DEF Quiet, At, Covers, IsAhead, Ahead, Behind, WfPC
  <2>2. Kept(c)
    BY DEF CredInv
  <2> QED BY <2>1, <2>2 DEF Kept
<1>2. Inv /\ CredInv /\ [Next]_vars => CredInv'
  BY CredNext DEF Inv
<1> QED BY <1>1, <1>2, CredInit, Invariance, PTL DEF Spec
=============================================================================
