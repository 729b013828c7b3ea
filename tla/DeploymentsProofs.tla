------------------------- MODULE DeploymentsProofs -------------------------
(***************************************************************************)
(* Proofs about Deployments for any sets of deployments, connections,      *)
(* request and workflow slots, and any number of requests.                 *)
(***************************************************************************)
EXTENDS Deployments, TLAPS

LEMMA AnyTyped == AnyDep \in Dep /\ AnyConn \in Conn
BY ConstantsAssumption DEF AnyDep, AnyConn

LEMMA IdleTyped == IdleProc \in ProcRec
BY AnyTyped DEF IdleProc, ProcRec, PC, Action, Status

LEMMA StepTyped ==
  ASSUME proc \in [Proc -> ProcRec], NEW p \in Proc, NEW new \in ProcRec, Step(p, new)
  PROVE  proc' \in [Proc -> ProcRec]
BY DEF Step

LEMMA DoneTyped ==
  ASSUME proc \in [Proc -> ProcRec], NEW p \in Proc, Done(p)
  PROVE  proc' \in [Proc -> ProcRec]
BY IdleTyped, StepTyped DEF Done

LEMMA GotoTyped ==
  ASSUME proc \in [Proc -> ProcRec], NEW p \in Proc, NEW l \in PC, Goto(p, l)
  PROVE  proc' \in [Proc -> ProcRec]
<1>1. [proc[p] EXCEPT !.pc = l] \in ProcRec
  BY DEF ProcRec
<1>2. QED BY <1>1, DoneTyped, StepTyped DEF Goto

LEMMA LaunchTyped ==
  ASSUME proc \in [Proc -> ProcRec], NEW r \in Req, NEW act \in Action, NEW new \in ProcRec,
         Launch(r, act, new)
  PROVE  proc' \in [Proc -> ProcRec]
<1>1. PICK w \in Wf : proc' = [proc EXCEPT ![r] = new,
          ![w] = [IdleProc EXCEPT !.pc = "load", !.act = act, !.d = proc[r].d]]
  BY DEF Launch
<1>2. [IdleProc EXCEPT !.pc = "load", !.act = act, !.d = proc[r].d] \in ProcRec
  BY IdleTyped DEF ProcRec, Proc, PC, WfPC
<1>3. QED BY <1>1, <1>2 DEF Proc

LEMMA SpawnTyped ==
  ASSUME proc \in [Proc -> ProcRec], NEW r \in Req, NEW act \in Action, Spawn(r, act)
  PROVE  proc' \in [Proc -> ProcRec]
BY IdleTyped, LaunchTyped DEF Spawn

LEMMA LoseTyped ==
  ASSUME TypeOK, Lose
  PROVE  issued' \in [Kind -> Nat]
BY DEF Lose, TypeOK, Kind

LEMMA SpawnUnseenTyped ==
  ASSUME TypeOK, NEW r \in Req, NEW act \in Action, NEW l \in PC, SpawnUnseen(r, act, l)
  PROVE  proc' \in [Proc -> ProcRec] /\ issued' \in [Kind -> Nat]
<1>1. [proc[r] EXCEPT !.pc = l] \in ProcRec
  BY DEF TypeOK, Proc, ProcRec
<1>2. proc' \in [Proc -> ProcRec]
  BY <1>1, LaunchTyped DEF SpawnUnseen, TypeOK
<1>3. QED BY <1>2, LoseTyped DEF SpawnUnseen

LEMMA BeginTyped ==
  ASSUME TypeOK, NEW r \in Req, NEW k \in Kind, NEW new \in ProcRec, Begin(r, k, new)
  PROVE  proc' \in [Proc -> ProcRec] /\ issued' \in [Kind -> Nat]
<1>1. proc' \in [Proc -> ProcRec]
  BY StepTyped DEF Begin, TypeOK, Proc
<1>2. issued' \in [Kind -> Nat]
  BY DEF Begin, TypeOK
<1>3. QED BY <1>1, <1>2

LEMMA SetStatusTyped ==
  ASSUME TypeOK, NEW d \in Dep, NEW s \in Status, SetStatus(d, s)
  PROVE  dep' \in [Dep -> DepRow]
BY DEF TypeOK, SetStatus, DepRow

LEMMA UploadTyped ==
  ASSUME TypeOK, NEW d \in Dep, NEW mode \in {"pending", "ready"}, NEW hash \in Nat,
         NEW link \in Nat, NEW node \in Nat, Upload(d, mode, hash, link, node)
  PROVE  plane' \in [Site -> Script]
<1>1. [mode |-> mode, hash |-> hash, link |-> link, node |-> node, by |-> d] \in Script
  BY DEF Script
<1>2. QED BY <1>1, ConstantsAssumption DEF TypeOK, Upload

LEMMA ScrubTyped ==
  ASSUME TypeOK, NEW c \in Conn, Scrub(c)
  PROVE  conn' \in [Conn -> {"none", "live", "expired", "erased"}]
BY DEF TypeOK, Scrub

LEMMA AbandonTyped ==
  ASSUME TypeOK, NEW r \in Req, Abandon(r)
  PROVE  proc' \in [Proc -> ProcRec] /\ abandoned' \subseteq Conn
<1>1. proc[r] \in ProcRec
  BY DEF TypeOK, Proc
<1>2. proc[r].c \in Conn /\ dep[proc[r].d].conn \in Conn
  BY <1>1 DEF TypeOK, ProcRec, DepRow
<1>3. proc' \in [Proc -> ProcRec]
  BY DoneTyped DEF Abandon, TypeOK, Proc
<1>4. QED BY <1>2, <1>3 DEF Abandon, TypeOK

\* Updates of a deployment row.
LEMMA RowUpdate ==
  ASSUME NEW f \in [Dep -> DepRow], NEW d \in Dep
  PROVE  /\ \A s \in Status : [f EXCEPT ![d].status = s] \in [Dep -> DepRow]
         /\ \A c \in Conn : [f EXCEPT ![d].conn = c] \in [Dep -> DepRow]
         /\ \A a \in Nat : [f EXCEPT ![d].agent = a] \in [Dep -> DepRow]
         /\ \A t \in Nat : [f EXCEPT ![d].sub = t] \in [Dep -> DepRow]
<1>1. \A s \in Status : [f EXCEPT ![d].status = s] \in [Dep -> DepRow]
  BY DEF DepRow
<1>2. \A c \in Conn : [f EXCEPT ![d].conn = c] \in [Dep -> DepRow]
  BY DEF DepRow
<1>3. \A a \in Nat : [f EXCEPT ![d].agent = a] \in [Dep -> DepRow]
  BY DEF DepRow
<1>4. \A t \in Nat : [f EXCEPT ![d].sub = t] \in [Dep -> DepRow]
  BY DEF DepRow
<1>5. QED BY <1>1, <1>2, <1>3, <1>4

\* The row an agent's completion writes, and the one a revocation does.
LEMMA CompletedRow ==
  ASSUME TypeOK, NEW d \in Dep, NEW s \in Status, NEW a \in Nat
  PROVE  [dep EXCEPT ![d].agent = a, ![d].status = s] \in [Dep -> DepRow]
<1>1. [dep EXCEPT ![d].agent = a] \in [Dep -> DepRow]
  BY RowUpdate DEF TypeOK
<1>2. QED BY <1>1, RowUpdate

LEMMA RevokedRow ==
  ASSUME TypeOK, NEW d \in Dep, NEW s \in Status, NEW a \in Nat, NEW t \in Nat
  PROVE  [dep EXCEPT ![d].status = s, ![d].sub = t, ![d].agent = a] \in [Dep -> DepRow]
<1>1. [dep EXCEPT ![d].status = s] \in [Dep -> DepRow]
  BY RowUpdate DEF TypeOK
<1>2. [dep EXCEPT ![d].status = s, ![d].sub = t] \in [Dep -> DepRow]
  BY <1>1, RowUpdate
<1>3. QED BY <1>2, RowUpdate

\* Updates of the locals of a process.
LEMMA RebindLocals ==
  ASSUME NEW q \in ProcRec, NEW l \in PC, NEW c \in Conn
  PROVE  [q EXCEPT !.pc = l, !.c = c] \in ProcRec
BY DEF ProcRec

LEMMA RotateLocals ==
  ASSUME NEW q \in ProcRec, NEW l \in PC, NEW c \in Conn, NEW t \in Nat, NEW n \in Nat
  PROVE  [q EXCEPT !.pc = l, !.c = c, !.tok = t, !.node = n] \in ProcRec
BY DEF ProcRec

LEMMA LoadLocals ==
  ASSUME NEW q \in ProcRec, NEW l \in PC, NEW c \in Conn, NEW s \in Nat, NEW t \in Nat
  PROVE  [q EXCEPT !.pc = l, !.c = c, !.sub = s, !.tok = t] \in ProcRec
BY DEF ProcRec

LEMMA PublishLocals ==
  ASSUME NEW q \in ProcRec, NEW l \in PC, NEW s \in Nat, NEW t \in Nat, NEW n \in Nat
  PROVE  [q EXCEPT !.pc = l, !.sub = s, !.tok = t, !.node = n] \in ProcRec
BY DEF ProcRec

LEMMA CatchLocals ==
  ASSUME NEW q \in ProcRec, NEW l \in PC, NEW k \in PC
  PROVE  [q EXCEPT !.pc = l, !.then = k] \in ProcRec
BY DEF ProcRec

LEMMA ResumeLocals ==
  ASSUME NEW q \in ProcRec, NEW l \in PC, NEW k \in PC, NEW d \in Dep, NEW c \in Conn,
         NEW act \in Action
  PROVE  [q EXCEPT !.pc = l, !.then = k, !.d = d, !.c = c, !.act = act] \in ProcRec
BY DEF ProcRec

\* The arrival of a request keeps the types.
LEMMA ArriveTyped ==
  ASSUME TypeOK, NEW r \in Req, Arrive(r)
  PROVE  TypeOK'
<1> USE DEF rows, hist, ends
<1>0. IdleProc \in ProcRec /\ "connect" \in Kind
  BY IdleTyped DEF Kind
<1>1. ASSUME NEW c \in Conn, ConnectCheck(r, c) PROVE TypeOK'
  <2>1. /\ [IdleProc EXCEPT !.pc = "connectInsert", !.c = c] \in ProcRec
        /\ conn' \in [Conn -> {"none", "live", "expired", "erased"}]
    BY <1>0, <1>1 DEF ConnectCheck, EraseExpired, TypeOK, ProcRec, PC, ReqPC
  <2>2. PICK new \in ProcRec : Begin(r, "connect", new)
    BY <2>1, <1>0, <1>1 DEF ConnectCheck
  <2>3. proc' \in [Proc -> ProcRec] /\ issued' \in [Kind -> Nat]
    BY <2>2, <1>0, BeginTyped
  <2>4. QED BY <2>1, <2>3, <1>1 DEF ConnectCheck, TypeOK
<1>2. ASSUME NEW c \in Conn, DisconnectCheck(r, c) PROVE TypeOK'
  <2>1. [IdleProc EXCEPT !.pc = "idleScrub", !.c = c] \in ProcRec
    BY <1>0 DEF ProcRec, PC
  <2>2. proc' \in [Proc -> ProcRec] /\ issued' \in [Kind -> Nat]
    BY <2>1, <1>2, BeginTyped DEF DisconnectCheck, Kind
  <2>3. QED BY <2>2, <1>2 DEF DisconnectCheck, TypeOK
<1>3. ASSUME NEW d \in Dep, NEW c \in Conn, CreateCheck(r, d, c) PROVE TypeOK'
  <2>1. [IdleProc EXCEPT !.pc = "createInsert", !.d = d, !.c = c] \in ProcRec
    BY <1>0 DEF ProcRec, PC, ReqPC
  <2>2. proc' \in [Proc -> ProcRec] /\ issued' \in [Kind -> Nat]
    BY <2>1, <1>3, BeginTyped DEF CreateCheck, Kind
  <2>3. QED BY <2>2, <1>3 DEF CreateCheck, TypeOK
<1>4. ASSUME NEW d \in Dep, RotateBootRead(r, d) PROVE TypeOK'
  <2>1. [IdleProc EXCEPT !.pc = "rotateBootWrite", !.d = d] \in ProcRec
    BY <1>0 DEF ProcRec, PC, ReqPC
  <2>2. proc' \in [Proc -> ProcRec] /\ issued' \in [Kind -> Nat]
    BY <2>1, <1>4, BeginTyped DEF RotateBootRead, Kind
  <2>3. QED BY <2>2, <1>4 DEF RotateBootRead, TypeOK
<1>5. ASSUME NEW d \in Dep, CompleteRead(r, d) PROVE TypeOK'
  <2>1. boot[d].tok \in Nat /\ secret[d].sub \in Nat
    BY DEF TypeOK, BootRow, SecretRow
  <2>2. [IdleProc EXCEPT !.pc = "completeConsume", !.d = d,
           !.tok = boot[d].tok, !.sub = secret[d].sub] \in ProcRec
    BY <1>0, <2>1 DEF ProcRec, PC, ReqPC
  <2>3. proc' \in [Proc -> ProcRec] /\ issued' \in [Kind -> Nat]
    BY <2>2, <1>5, BeginTyped DEF CompleteRead, Kind
  <2>4. QED BY <2>3, <1>5 DEF CompleteRead, TypeOK
<1>6. ASSUME NEW d \in Dep, RotateSubRead(r, d) PROVE TypeOK'
  <2>1. dep[d].conn \in Conn
    BY DEF TypeOK, DepRow
  <2>2. [IdleProc EXCEPT !.pc = "ensure", !.then = "rotateSubLoad",
           !.d = d, !.c = dep[d].conn] \in ProcRec
    BY <1>0, <2>1 DEF ProcRec, PC, ReqPC
  <2>3. proc' \in [Proc -> ProcRec] /\ issued' \in [Kind -> Nat]
    BY <2>2, <1>6, BeginTyped DEF RotateSubRead, Kind
  <2>4. QED BY <2>3, <1>6 DEF RotateSubRead, TypeOK
<1>7. ASSUME NEW d \in Dep, RetryRead(r, d) PROVE TypeOK'
  <2>1. dep[d].conn \in Conn
    BY DEF TypeOK, DepRow
  <2>2. [IdleProc EXCEPT !.pc = "ensure", !.then = "retryStart",
           !.d = d, !.c = dep[d].conn,
           !.act = IF dep[d].agent # 0 THEN "finalize" ELSE "prepare"] \in ProcRec
    <3>1. /\ "ensure" \in PC /\ "retryStart" \in PC
          /\ (IF dep[d].agent # 0 THEN "finalize" ELSE "prepare") \in Action
      BY DEF PC, ReqPC, Action
    <3>2. QED BY <1>0, <2>1, <3>1, ResumeLocals
  <2>3. proc' \in [Proc -> ProcRec] /\ issued' \in [Kind -> Nat]
    BY <2>2, <1>7, BeginTyped DEF RetryRead, Kind
  <2>4. QED BY <2>3, <1>7 DEF RetryRead, TypeOK
<1>8. ASSUME NEW d \in Dep, RevokeRead(r, d) PROVE TypeOK'
  <2>1. dep[d].conn \in Conn /\ dep[d].status \in Status
    BY DEF TypeOK, DepRow
  <2>2. [IdleProc EXCEPT !.pc = "ensure", !.then = "revokeMark",
           !.d = d, !.c = dep[d].conn, !.seen = dep[d].status] \in ProcRec
    BY <1>0, <2>1 DEF ProcRec, PC, ReqPC
  <2>3. proc' \in [Proc -> ProcRec] /\ issued' \in [Kind -> Nat]
    BY <2>2, <1>8, BeginTyped DEF RevokeRead, Kind
  <2>4. QED BY <2>3, <1>8 DEF RevokeRead, TypeOK
<1>9. ASSUME NEW d \in Dep, DeleteRead(r, d) PROVE TypeOK'
  <2>1. [IdleProc EXCEPT !.pc = "deleteWrite", !.d = d] \in ProcRec
    BY <1>0 DEF ProcRec, PC, ReqPC
  <2>2. proc' \in [Proc -> ProcRec] /\ issued' \in [Kind -> Nat]
    BY <2>1, <1>9, BeginTyped DEF DeleteRead, Kind
  <2>3. QED BY <2>2, <1>9 DEF DeleteRead, TypeOK
<1>10. ASSUME NEW d \in Dep, NEW c \in Conn, BeaconRead(r, d, c) PROVE TypeOK'
  <2>1. [IdleProc EXCEPT !.pc = "beaconBind", !.d = d, !.c = c] \in ProcRec
    BY <1>0 DEF ProcRec, PC, ReqPC
  <2>2. proc' \in [Proc -> ProcRec] /\ issued' \in [Kind -> Nat]
    BY <2>1, <1>10, BeginTyped DEF BeaconRead, Kind
  <2>3. QED BY <2>2, <1>10 DEF BeaconRead, TypeOK
<1>11. QED
  BY <1>1, <1>2, <1>3, <1>4, <1>5, <1>6, <1>7, <1>8, <1>9, <1>10 DEF Arrive

\* The locals of a process have their types.
LEMMA LocalsTyped ==
  ASSUME TypeOK, NEW p \in Proc
  PROVE  /\ proc[p] \in ProcRec
         /\ proc[p].pc \in PC /\ proc[p].then \in PC /\ proc[p].act \in Action
         /\ proc[p].d \in Dep /\ proc[p].c \in Conn /\ proc[p].seen \in Status
         /\ proc[p].tok \in Nat /\ proc[p].sub \in Nat /\ proc[p].node \in Nat
<1>1. proc[p] \in ProcRec
  BY DEF TypeOK
<1>2. QED BY <1>1 DEF ProcRec

\* A request in flight keeps the types.
LEMMA ReqStepTyped ==
  ASSUME TypeOK, NEW r \in Req, ReqStep(r)
  PROVE  TypeOK'
<1> USE DEF rows, hist, ends
<1> DEFINE d == proc[r].d
<1>0. /\ r \in Proc /\ proc \in [Proc -> ProcRec] /\ proc[r] \in ProcRec
      /\ d \in Dep /\ proc[r].c \in Conn /\ proc[r].tok \in Nat
      /\ proc[r].sub \in Nat /\ proc[r].node \in Nat
  BY LocalsTyped DEF Proc, TypeOK
<1>1. CASE ConnectInsert(r)
  <2>1. proc' \in [Proc -> ProcRec]
    BY <1>0, <1>1, DoneTyped DEF ConnectInsert
  <2>2. QED BY <2>1, <1>1 DEF ConnectInsert, TypeOK
<1>2. CASE CreateInsert(r)
  <2>1. CASE dep[d].status = "none" /\ NoConflict(d)
    <3>1. proc' \in [Proc -> ProcRec]
      BY <1>0, <1>2, <2>1, GotoTyped DEF CreateInsert, PC, ReqPC
    <3>2. fresh' \in Nat
      BY <1>2, <2>1 DEF CreateInsert, TypeOK
    <3>3. dep' \in [Dep -> DepRow]
      BY <1>0, <1>2, <2>1 DEF CreateInsert, TypeOK, DepRow, Status, RowStatus, Active
    <3>4. secret' \in [Dep -> SecretRow]
      BY <1>0, <1>2, <2>1 DEF CreateInsert, TypeOK, SecretRow
    <3>5. boot' \in [Dep -> BootRow]
      BY <1>0, <1>2, <2>1 DEF CreateInsert, TypeOK, BootRow
    <3>6. QED BY <3>1, <3>2, <3>3, <3>4, <3>5, <1>2 DEF CreateInsert, TypeOK
  <2>2. CASE ~(dep[d].status = "none" /\ NoConflict(d))
    <3>1. proc' \in [Proc -> ProcRec]
      BY <1>0, <1>2, <2>2, DoneTyped DEF CreateInsert
    <3>2. QED BY <3>1, <2>2, <1>2 DEF CreateInsert, TypeOK
  <2>3. QED BY <2>1, <2>2
<1>3. CASE CreateStart(r)
  <2>1. proc' \in [Proc -> ProcRec]
    BY <1>0, <1>3, SpawnTyped DEF CreateStart, Action
  <2>2. QED BY <2>1, <1>3 DEF CreateStart, TypeOK
<1>4. CASE CreateStartFails(r)
  <2>1. "createFailed" \in PC /\ "prepare" \in Action
    BY DEF PC, ReqPC, Action
  <2>2. CASE Goto(r, "createFailed") /\ UNCHANGED issued
    BY <1>0, <1>4, <2>1, <2>2, GotoTyped DEF CreateStartFails, TypeOK
  <2>3. CASE SpawnUnseen(r, "prepare", "createFailed")
    <3>1. proc' \in [Proc -> ProcRec] /\ issued' \in [Kind -> Nat]
      BY <2>1, <2>3, SpawnUnseenTyped
    <3>2. QED BY <1>4, <3>1 DEF CreateStartFails, TypeOK
  <2>4. QED BY <1>4, <2>2, <2>3 DEF CreateStartFails
<1>5. CASE Ensure(r)
  <2>1. CASE Goto(r, proc[r].then)
    BY <1>0, <1>5, <2>1, GotoTyped, LocalsTyped DEF Ensure, TypeOK
  <2>2. ASSUME NEW c \in Conn, Step(r, [proc[r] EXCEPT !.pc = "rebind", !.c = c])
        PROVE  TypeOK'
    <3>1. [proc[r] EXCEPT !.pc = "rebind", !.c = c] \in ProcRec
      <4>1. "rebind" \in PC
        BY DEF PC, ReqPC
      <4>2. QED BY <1>0, <4>1, RebindLocals
    <3>2. QED BY <1>0, <1>5, <2>2, <3>1, StepTyped DEF Ensure, TypeOK
  <2>3. CASE Done(r)
    BY <1>0, <1>5, <2>3, DoneTyped DEF Ensure, TypeOK
  <2>4. QED BY <1>5, <2>1, <2>2, <2>3 DEF Ensure
<1>6. CASE Rebind(r)
  <2>1. proc' \in [Proc -> ProcRec]
    BY <1>0, <1>6, GotoTyped, LocalsTyped DEF Rebind
  <2>2. dep' \in [Dep -> DepRow]
    <3>1. [dep EXCEPT ![d].conn = proc[r].c] \in [Dep -> DepRow]
      BY <1>0, RowUpdate DEF TypeOK
    <3>2. QED BY <1>6, <3>1 DEF Rebind, TypeOK
  <2>3. abandoned' \subseteq Conn
    <3>1. proc[r].c \in Conn /\ dep[d].conn \in Conn
      BY <1>0, LocalsTyped DEF TypeOK, DepRow
    <3>2. QED BY <1>6, <3>1 DEF Rebind, TypeOK
  <2>4. QED BY <2>1, <2>2, <2>3, <1>6 DEF Rebind, TypeOK
<1>7. CASE RotateBootWrite(r)
  <2>1. proc' \in [Proc -> ProcRec]
    BY <1>0, <1>7, DoneTyped DEF RotateBootWrite
  <2>2. fresh' \in Nat
    BY <1>7 DEF RotateBootWrite, TypeOK
  <2>3. [tok |-> fresh + 1, st |-> "live"] \in BootRow
    BY DEF TypeOK, BootRow
  <2>4. boot' \in [Dep -> BootRow]
    BY <1>0, <1>7, <2>3 DEF RotateBootWrite, TypeOK
  <2>5. QED BY <2>1, <2>2, <2>4, <1>7 DEF RotateBootWrite, TypeOK
<1>8. CASE CompleteConsume(r)
  <2>1. proc' \in [Proc -> ProcRec]
    BY <1>0, <1>8, DoneTyped, GotoTyped DEF CompleteConsume, PC, ReqPC
  <2>2. boot' \in [Dep -> BootRow]
    BY <1>0, <1>8 DEF CompleteConsume, TypeOK, BootRow
  <2>3. uses' \in [Tok -> Nat]
    BY <1>0, <1>8 DEF CompleteConsume, TypeOK
  <2>4. QED BY <2>1, <2>2, <2>3, <1>8 DEF CompleteConsume, TypeOK
<1>9. CASE CompleteWrite(r)
  <2>1. proc' \in [Proc -> ProcRec]
    BY <1>0, <1>9, GotoTyped DEF CompleteWrite, PC, ReqPC
  <2>2. secret' \in [Dep -> SecretRow]
    BY <1>0, <1>9 DEF CompleteWrite, TypeOK, SecretRow
  <2>3. dep' \in [Dep -> DepRow]
    <3>1. [dep EXCEPT ![d].agent = proc[r].tok, ![d].status = "agent_ready"] \in [Dep -> DepRow]
      <4>1. "agent_ready" \in Status
        BY DEF Status, RowStatus, Active
      <4>2. QED BY <1>0, <4>1, CompletedRow
    <3>2. QED BY <1>9, <3>1 DEF CompleteWrite, TypeOK
  <2>4. QED BY <2>1, <2>2, <2>3, <1>9 DEF CompleteWrite, TypeOK
<1>10. CASE CompleteStart(r)
  <2>1. proc' \in [Proc -> ProcRec]
    BY <1>0, <1>10, SpawnTyped DEF CompleteStart, Action
  <2>2. QED BY <2>1, <1>10 DEF CompleteStart, TypeOK
<1>11. CASE CompleteStartFails(r)
  BY <1>0, <1>11, DoneTyped DEF CompleteStartFails, TypeOK
<1>12. CASE RotateSubLoad(r)
  <2>1. CASE Exists(d) /\ ValidAuth(dep[d].conn) /\ secret[d].node # 0
    <3>1. dep[d].conn \in Conn /\ secret[d].node \in Nat /\ fresh + 1 \in Nat
      BY <1>0 DEF TypeOK, DepRow, SecretRow
    <3>2. [proc[r] EXCEPT !.pc = "rotateSubUpload", !.c = dep[d].conn,
             !.tok = fresh + 1, !.node = secret[d].node] \in ProcRec
      <4>1. "rotateSubUpload" \in PC
        BY DEF PC, ReqPC
      <4>2. QED BY <1>0, <3>1, <4>1, RotateLocals
    <3>3. proc' \in [Proc -> ProcRec]
      BY <1>0, <1>12, <2>1, <3>2, StepTyped DEF RotateSubLoad
    <3>4. QED BY <3>1, <3>3, <1>12, <2>1 DEF RotateSubLoad, TypeOK
  <2>2. CASE ~(Exists(d) /\ ValidAuth(dep[d].conn) /\ secret[d].node # 0)
    BY <1>12, <2>2, AbandonTyped DEF RotateSubLoad, TypeOK
  <2>3. QED BY <2>1, <2>2
<1>13. CASE RotateSubUpload(r)
  <2>1. proc' \in [Proc -> ProcRec]
    BY <1>0, <1>13, GotoTyped DEF RotateSubUpload, PC, ReqPC
  <2>2. plane' \in [Site -> Script]
    BY <1>0, <1>13, UploadTyped DEF RotateSubUpload
  <2>3. QED BY <2>1, <2>2, <1>13 DEF RotateSubUpload, TypeOK
<1>14. CASE RotateSubUploadFails(r)
  <2>1. plane' \in [Site -> Script]
    BY <1>0, <1>14, UploadTyped DEF RotateSubUploadFails, TypeOK
  <2>2. QED BY <2>1, <1>14, AbandonTyped DEF RotateSubUploadFails, TypeOK
<1>15. CASE RotateSubWrite(r)
  <2>1. proc' \in [Proc -> ProcRec]
    BY <1>0, <1>15, GotoTyped DEF RotateSubWrite, PC
  <2>2. secret' \in [Dep -> SecretRow]
    BY <1>0, <1>15 DEF RotateSubWrite, TypeOK, SecretRow
  <2>3. dep' \in [Dep -> DepRow]
    <3>1. [dep EXCEPT ![d].sub = proc[r].tok] \in [Dep -> DepRow]
      BY <1>0, RowUpdate DEF TypeOK
    <3>2. QED BY <1>15, <3>1 DEF RotateSubWrite, TypeOK
  <2>4. QED BY <2>1, <2>2, <2>3, <1>15 DEF RotateSubWrite, TypeOK
<1>16. CASE RetryStart(r)
  <2>1. proc' \in [Proc -> ProcRec]
    BY <1>0, <1>16, SpawnTyped, LocalsTyped DEF RetryStart
  <2>2. QED BY <2>1, <1>16 DEF RetryStart, TypeOK
<1>17. CASE RetryStartFails(r)
  BY <1>17, AbandonTyped DEF RetryStartFails, TypeOK
<1>18. CASE RevokeMark(r)
  <2>1. proc' \in [Proc -> ProcRec]
    BY <1>0, <1>18, GotoTyped DEF RevokeMark, PC, ReqPC
  <2>2. dep' \in [Dep -> DepRow]
    BY <1>0, <1>18, SetStatusTyped DEF RevokeMark, Status, RowStatus, Active
  <2>3. QED BY <2>1, <2>2, <1>18 DEF RevokeMark, TypeOK
<1>19. CASE RevokeStart(r)
  <2>1. proc' \in [Proc -> ProcRec]
    BY <1>0, <1>19, SpawnTyped DEF RevokeStart, Action
  <2>2. QED BY <2>1, <1>19 DEF RevokeStart, TypeOK
<1>20. CASE RevokeStartFails(r)
  <2>1. "revokeFailed" \in PC /\ "revoke" \in Action
    BY DEF PC, ReqPC, Action
  <2>2. CASE Goto(r, "revokeFailed") /\ UNCHANGED <<issued, crossed>>
    BY <1>0, <1>20, <2>1, <2>2, GotoTyped DEF RevokeStartFails, TypeOK
  <2>3. CASE SpawnUnseen(r, "revoke", "revokeFailed") /\ crossed' = crossed \cup {d}
    <3>1. proc' \in [Proc -> ProcRec] /\ issued' \in [Kind -> Nat]
      BY <2>1, <2>3, SpawnUnseenTyped
    <3>2. QED BY <1>0, <1>20, <2>3, <3>1 DEF RevokeStartFails, TypeOK
  <2>4. QED BY <1>20, <2>2, <2>3 DEF RevokeStartFails
<1>21. CASE DeleteWrite(r)
  <2>1. proc' \in [Proc -> ProcRec]
    BY <1>0, <1>21, DoneTyped DEF DeleteWrite
  <2>2. dep' \in [Dep -> DepRow]
    BY <1>0, <1>21, AnyTyped DEF DeleteWrite, TypeOK, DepRow, Status
  <2>3. secret' \in [Dep -> SecretRow] /\ boot' \in [Dep -> BootRow]
    BY <1>0, <1>21 DEF DeleteWrite, TypeOK, SecretRow, BootRow
  <2>4. abandoned' \subseteq Conn
    <3>1. dep[d].conn \in Conn
      BY <1>0 DEF TypeOK, DepRow
    <3>2. QED BY <1>21, <3>1 DEF DeleteWrite, TypeOK
  <2>5. QED BY <2>1, <2>2, <2>3, <2>4, <1>21 DEF DeleteWrite, TypeOK
<1>22. CASE BeaconBind(r)
  <2>1. [dep EXCEPT ![d].conn = proc[r].c] \in [Dep -> DepRow]
    BY <1>0, RowUpdate DEF TypeOK
  <2>2. dep' \in [Dep -> DepRow]
    BY <1>22, <2>1 DEF BeaconBind, TypeOK
  <2>3. QED BY <2>2, <1>22, AbandonTyped DEF BeaconBind, TypeOK
<1>23. CASE CreateFailed(r)
  <2>1. proc' \in [Proc -> ProcRec]
    BY <1>0, <1>23, GotoTyped DEF CreateFailed, PC
  <2>2. dep' \in [Dep -> DepRow]
    BY <1>0, <1>23, SetStatusTyped DEF CreateFailed, Status, RowStatus
  <2>3. QED BY <2>1, <2>2, <1>23 DEF CreateFailed, TypeOK
<1>24. CASE RevokeFailed(r)
  <2>1. dep' \in [Dep -> DepRow]
    BY <1>0, <1>24, SetStatusTyped, LocalsTyped DEF RevokeFailed
  <2>2. QED BY <2>1, <1>24, AbandonTyped DEF RevokeFailed, TypeOK
<1>25. QED
  BY <1>23, <1>24, <1>1, <1>2, <1>3, <1>4, <1>5, <1>6, <1>7, <1>8, <1>9, <1>10, <1>11, <1>12,
     <1>13, <1>14, <1>15, <1>16, <1>17, <1>18, <1>19, <1>20, <1>21, <1>22 DEF ReqStep

\* A step of a workflow keeps the types.
LEMMA WfStepTyped ==
  ASSUME TypeOK, NEW w \in Wf, WfStep(w)
  PROVE  TypeOK'
<1> USE DEF rows, hist, ends
<1> DEFINE d == proc[w].d
<1>0. /\ w \in Proc /\ proc \in [Proc -> ProcRec] /\ proc[w] \in ProcRec
      /\ d \in Dep /\ proc[w].c \in Conn /\ proc[w].tok \in Nat
      /\ proc[w].sub \in Nat /\ proc[w].node \in Nat /\ proc[w].pc \in PC
  BY LocalsTyped DEF Proc, TypeOK
<1>1. CASE WfLoad(w)
  <2>1. CASE Exists(d)
    <3>1. PICK n \in {0, 1} :
            /\ fresh' = fresh + n
            /\ Step(w, [proc[w] EXCEPT !.pc = FirstStep(proc[w].act), !.c = dep[d].conn,
                          !.sub = dep[d].sub, !.tok = fresh + n])
      BY <1>1, <2>1 DEF WfLoad
    <3>2. dep[d].conn \in Conn /\ dep[d].sub \in Nat /\ fresh + n \in Nat
      BY <1>0 DEF TypeOK, DepRow
    <3>3. FirstStep(proc[w].act) \in PC
      BY LocalsTyped, <1>0 DEF FirstStep, PC, WfPC, Action
    <3>4. [proc[w] EXCEPT !.pc = FirstStep(proc[w].act), !.c = dep[d].conn,
             !.sub = dep[d].sub, !.tok = fresh + n] \in ProcRec
      BY <1>0, <3>2, <3>3, LoadLocals
    <3>5. proc' \in [Proc -> ProcRec]
      BY <1>0, <3>1, <3>4, StepTyped
    <3>6. QED BY <3>1, <3>2, <3>5, <1>1 DEF WfLoad, TypeOK
  <2>2. CASE ~Exists(d)
    BY <1>0, <1>1, <2>2, DoneTyped DEF WfLoad, TypeOK
  <2>3. QED BY <2>1, <2>2
<1>2. CASE WfAuth(w)
  <2>1. PICK l \in PC : Goto(w, l)
    BY <1>2 DEF WfAuth, PC, WfPC
  <2>2. proc' \in [Proc -> ProcRec]
    BY <1>0, <2>1, GotoTyped
  <2>3. QED BY <2>2, <1>2 DEF WfAuth, TypeOK
<1>3. ASSUME NEW m \in PC, NEW s \in Status, NEW l \in PC, WfMark(w, m, s, l)
      PROVE  TypeOK'
  <2>1. proc' \in [Proc -> ProcRec]
    BY <1>0, <1>3, GotoTyped DEF WfMark
  <2>2. dep' \in [Dep -> DepRow]
    BY <1>0, <1>3, SetStatusTyped DEF WfMark
  <2>3. QED BY <2>1, <2>2, <1>3 DEF WfMark, TypeOK
<1>4. CASE WfMarkPreparing(w)
  BY <1>3, <1>4 DEF WfMarkPreparing, PC, WfPC, Status, RowStatus, Active
<1>5. CASE WfMarkFinalizing(w)
  BY <1>3, <1>5 DEF WfMarkFinalizing, PC, WfPC, Status, RowStatus, Active
<1>6. CASE WfMarkAwaiting(w)
  BY <1>3, <1>6 DEF WfMarkAwaiting, PC, WfPC, Status, RowStatus, Active
<1>7. CASE WfMarkReady(w)
  BY <1>3, <1>7 DEF WfMarkReady, PC, WfPC, Status, RowStatus, Active
<1>8. CASE WfPendingUpload(w)
  <2>1. PICK l \in PC : Goto(w, l)
    BY <1>8 DEF WfPendingUpload, PC, WfPC
  <2>2. proc' \in [Proc -> ProcRec]
    BY <1>0, <2>1, GotoTyped
  <2>3. plane' \in [Site -> Script]
    BY <1>0, <1>8, UploadTyped DEF WfPendingUpload
  <2>4. QED BY <2>2, <2>3, <1>8 DEF WfPendingUpload, TypeOK
<1>9. CASE WfPublishRead(w)
  <2>1. dep[d].sub \in Nat /\ secret[d].sub \in Nat /\ secret[d].node \in Nat
    BY <1>0 DEF TypeOK, DepRow, SecretRow
  <2>2. [proc[w] EXCEPT !.pc = "publishUpload", !.sub = dep[d].sub,
           !.tok = secret[d].sub, !.node = secret[d].node] \in ProcRec
    <3>1. "publishUpload" \in PC
      BY DEF PC, WfPC
    <3>2. QED BY <1>0, <2>1, <3>1, PublishLocals
  <2>3. proc' \in [Proc -> ProcRec]
    BY <1>0, <1>9, <2>2, StepTyped DEF WfPublishRead
  <2>4. QED BY <2>3, <1>9 DEF WfPublishRead, TypeOK
<1>10. CASE WfPublishUpload(w)
  <2>1. PICK l \in PC : Goto(w, l)
    BY <1>10 DEF WfPublishUpload, PC, WfPC
  <2>2. proc' \in [Proc -> ProcRec]
    BY <1>0, <2>1, GotoTyped
  <2>3. plane' \in [Site -> Script]
    BY <1>0, <1>10, UploadTyped DEF WfPublishUpload
  <2>4. QED BY <2>2, <2>3, <1>10 DEF WfPublishUpload, TypeOK
<1>11. CASE WfDisableUpload(w)
  <2>1. PICK l \in PC : Goto(w, l)
    BY <1>11 DEF WfDisableUpload, PC, WfPC
  <2>2. proc' \in [Proc -> ProcRec]
    BY <1>0, <2>1, GotoTyped
  <2>3. plane' \in [Site -> Script]
    BY <1>0, <1>11, UploadTyped DEF WfDisableUpload
  <2>4. QED BY <2>2, <2>3, <1>11 DEF WfDisableUpload, TypeOK
<1>12. CASE WfMarkRevoked(w)
  <2>1. proc' \in [Proc -> ProcRec]
    BY <1>0, <1>12, GotoTyped DEF WfMarkRevoked, PC, WfPC
  <2>2. dep' \in [Dep -> DepRow]
    <3>1. "revoked" \in Status /\ 0 \in Nat
      BY DEF Status, RowStatus
    <3>2. [dep EXCEPT ![d].status = "revoked", ![d].sub = proc[w].tok, ![d].agent = 0]
            \in [Dep -> DepRow]
      BY <1>0, <3>1, RevokedRow
    <3>3. QED BY <1>12, <3>2 DEF WfMarkRevoked, TypeOK
  <2>3. QED BY <2>1, <2>2, <1>12 DEF WfMarkRevoked, TypeOK
<1>13. CASE WfDropBoot(w)
  <2>1. PICK l \in PC : Goto(w, l)
    BY <1>13 DEF WfDropBoot, PC, WfPC
  <2>2. proc' \in [Proc -> ProcRec]
    BY <1>0, <2>1, GotoTyped
  <2>3. boot' \in [Dep -> BootRow]
    BY <1>0, <1>13 DEF WfDropBoot, TypeOK, BootRow
  <2>4. QED BY <2>2, <2>3, <1>13 DEF WfDropBoot, TypeOK
<1>14. CASE WfStepFails(w)
  <2>1. BodyStart(proc[w].pc) \in PC
    BY <1>0 DEF BodyStart, PC, WfPC
  <2>2. PICK l \in PC : Goto(w, l)
    BY <2>1, <1>14 DEF WfStepFails, PC, WfPC
  <2>3. proc' \in [Proc -> ProcRec]
    BY <1>0, <2>2, GotoTyped
  <2>4. QED BY <2>3, <1>14 DEF WfStepFails, TypeOK
<1>15. CASE WfReadyNotifyFails(w)
  <2>1. proc' \in [Proc -> ProcRec]
    BY <1>0, <1>15, GotoTyped DEF WfReadyNotifyFails, PC, WfPC
  <2>2. conn' \in [Conn -> {"none", "live", "expired", "erased"}]
    BY <1>0, <1>15, ScrubTyped DEF WfReadyNotifyFails
  <2>3. QED BY <2>1, <2>2, <1>15 DEF WfReadyNotifyFails, TypeOK
<1>16. CASE WfCatch(w)
  <2>1. [proc[w] EXCEPT !.pc = "idleCount", !.then = "catch"] \in ProcRec
    <3>1. "idleCount" \in PC /\ "catch" \in PC
      BY DEF PC, WfPC
    <3>2. QED BY <1>0, <3>1, CatchLocals
  <2>2. proc' \in [Proc -> ProcRec]
    BY <1>0, <1>16, <2>1, StepTyped DEF WfCatch
  <2>3. dep' \in [Dep -> DepRow]
    BY <1>0, <1>16, SetStatusTyped DEF WfCatch, Status, RowStatus
  <2>4. QED BY <2>2, <2>3, <1>16 DEF WfCatch, TypeOK
<1>17. CASE WfLoadFails(w)
  <2>1. proc' \in [Proc -> ProcRec] /\ issued' \in [Kind -> Nat]
    BY <1>0, <1>17, DoneTyped, LoseTyped DEF WfLoadFails
  <2>2. dep' \in [Dep -> DepRow]
    BY <1>0, <1>17, SetStatusTyped DEF WfLoadFails, Status, RowStatus, TypeOK
  <2>3. cut' \subseteq Dep /\ abandoned' \subseteq Conn
    BY <1>0, <1>17 DEF WfLoadFails, TypeOK, DepRow
  <2>4. QED BY <2>1, <2>2, <2>3, <1>17 DEF WfLoadFails, TypeOK
<1>18. CASE WfEraseFails(w)
  <2>1. proc' \in [Proc -> ProcRec] /\ issued' \in [Kind -> Nat]
    BY <1>0, <1>18, DoneTyped, GotoTyped, LoseTyped DEF WfEraseFails, PC, WfPC
  <2>2. abandoned' \subseteq Conn
    BY <1>0, <1>18 DEF WfEraseFails, TypeOK
  <2>3. QED BY <2>1, <2>2, <1>18 DEF WfEraseFails, TypeOK
<1>19. CASE WfDies(w)
  <2>1. proc' \in [Proc -> ProcRec] /\ issued' \in [Kind -> Nat]
    BY <1>0, <1>19, DoneTyped, LoseTyped DEF WfDies
  <2>2. cut' \subseteq Dep /\ abandoned' \subseteq Conn
    BY <1>0, <1>19 DEF WfDies, TypeOK
  <2>3. QED BY <2>1, <2>2, <1>19 DEF WfDies, TypeOK
<1>20. QED
  BY <1>17, <1>18, <1>19, <1>1, <1>2, <1>4, <1>5, <1>6, <1>7, <1>8, <1>9, <1>10, <1>11, <1>12, <1>13,
     <1>14, <1>15, <1>16 DEF WfStep

\* So does the death of a request.
LEMMA KillTyped ==
  ASSUME TypeOK, NEW r \in Req, Kill(r)
  PROVE  TypeOK'
<1> USE DEF rows
<1>1. proc' \in [Proc -> ProcRec] /\ issued' \in [Kind -> Nat]
  BY DoneTyped, LoseTyped DEF Kill, TypeOK, Proc
<1>2. cut' \subseteq Dep /\ abandoned' \subseteq Conn
  BY LocalsTyped DEF Kill, LeftBy, TypeOK, Proc
<1>3. QED BY <1>1, <1>2 DEF Kill, TypeOK

\* So do the erasure of an idle connection, time and the cron.
LEMMA OtherTyped ==
  ASSUME TypeOK
  PROVE  /\ \A p \in Proc : Erase(p) => TypeOK'
         /\ \A c \in Conn : Expire(c) => TypeOK'
         /\ CronErase => TypeOK'
         /\ \A d \in Dep : ExpireBoot(d) => TypeOK'
<1> USE DEF rows, hist, ends
<1>1. ASSUME NEW p \in Proc, IdleCount(p) PROVE TypeOK'
  <2>1. proc' \in [Proc -> ProcRec]
    BY <1>1, DoneTyped, GotoTyped DEF IdleCount, TypeOK, PC
  <2>2. QED BY <2>1, <1>1 DEF IdleCount, TypeOK
<1>2. ASSUME NEW p \in Proc, IdleScrub(p) PROVE TypeOK'
  <2>1. proc' \in [Proc -> ProcRec]
    BY <1>2, DoneTyped DEF IdleScrub, TypeOK
  <2>2. conn' \in [Conn -> {"none", "live", "expired", "erased"}]
    BY <1>2, ScrubTyped, LocalsTyped DEF IdleScrub
  <2>3. QED BY <2>1, <2>2, <1>2 DEF IdleScrub, TypeOK
<1>3. ASSUME NEW c \in Conn, Expire(c) PROVE TypeOK'
  BY <1>3 DEF Expire, TypeOK
<1>4. CronErase => TypeOK'
  BY DEF CronErase, EraseExpired, TypeOK
<1>5. ASSUME NEW d \in Dep, ExpireBoot(d) PROVE TypeOK'
  <2>1. boot' \in [Dep -> BootRow]
    BY <1>5 DEF ExpireBoot, TypeOK, BootRow
  <2>2. QED BY <2>1, <1>5 DEF ExpireBoot, TypeOK
<1>6. QED BY <1>1, <1>2, <1>3, <1>4, <1>5 DEF Erase

LEMMA InitTyped == Init => TypeOK
<1> SUFFICES ASSUME Init PROVE TypeOK
  OBVIOUS
<1>1. dep \in [Dep -> DepRow]
  BY AnyTyped DEF Init, DepRow, Status
<1>2. secret \in [Dep -> SecretRow] /\ boot \in [Dep -> BootRow]
  BY DEF Init, SecretRow, BootRow
<1>3. plane \in [Site -> Script]
  BY AnyTyped DEF Init, Script
<1>4. proc \in [Proc -> ProcRec]
  BY IdleTyped DEF Init
<1>5. conn \in [Conn -> {"none", "live", "expired", "erased"}]
  BY DEF Init
<1>6. fresh \in Nat /\ issued \in [Kind -> Nat] /\ uses \in [Tok -> Nat] /\ abandoned \subseteq Conn
  BY DEF Init
<1>7. cut \subseteq Dep /\ crossed \subseteq Dep
  BY DEF Init
<1>8. QED BY <1>1, <1>2, <1>3, <1>4, <1>5, <1>6, <1>7 DEF TypeOK

LEMMA NextTyped == TypeOK /\ [Next]_vars => TypeOK'
<1> SUFFICES ASSUME TypeOK, [Next]_vars PROVE TypeOK'
  OBVIOUS
<1>1. CASE \E r \in Req : Arrive(r)
  BY <1>1, ArriveTyped
<1>2. CASE \E r \in Req : ReqStep(r)
  BY <1>2, ReqStepTyped
<1>3. CASE \E w \in Wf : WfStep(w)
  BY <1>3, WfStepTyped
<1>4. CASE UNCHANGED vars
  BY <1>4 DEF vars, TypeOK
<1>5. QED
  BY <1>1, <1>2, <1>3, <1>4, KillTyped, OtherTyped DEF Next, Continue, Rest

\* Every row, every script and the locals of every process keep their types in
\* every interleaving of the handlers of deployments.ts, agent.ts, oauth.ts,
\* api-token.ts and the workflow.
THEOREM TypeCorrect == Spec => []TypeOK
<1>1. QED BY InitTyped, NextTyped, PTL DEF Spec
=============================================================================
