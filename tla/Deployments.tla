---------------------------- MODULE Deployments ----------------------------
(***************************************************************************)
(* The deployment lifecycle of the V13 control plane: the HTTP handlers of *)
(* src/deployments.ts, src/agent.ts, src/oauth.ts and src/api-token.ts,    *)
(* the durable workflow of src/workflow.ts and the credential rules of     *)
(* src/cloudflare-api.ts, all working on the same D1 rows.                 *)
(*                                                                         *)
(* A process is a request being handled (Req) or a workflow instance (Wf). *)
(* An action is what a process does between two awaits that another        *)
(* process can observe: one statement or batch on D1, or one call to       *)
(* Cloudflare.  D1 runs each statement and each batch atomically; a call   *)
(* to D1, Cloudflare, Workflows or Telegram may fail or lose its answer,   *)
(* and a request may be killed wherever it waits.                          *)
(* A secret token and its SHA-256 hash are the same number here: a stored  *)
(* hash is the number of the token it was computed from (SHA-256 is taken  *)
(* to be injective), 0 is NULL, and every random token is a new number.    *)
(***************************************************************************)
EXTENDS Naturals, FiniteSets

CONSTANTS Dep,          \* deployment ids
          Conn,         \* connection ids (stored Cloudflare API tokens)
          Req, Wf,      \* slots for requests and workflow instances in flight
          Site,         \* worker script names / hostnames
          Tenant, Zone,
          DepTenant, DepZone, DepSite,   \* immutable columns of a deployment
          ConnTenant, ConnZone,          \* immutable columns of a connection
          ConnLimit,    \* most unexpired connections of one tenant
          Serial,       \* requests arrive only when nothing else is in flight
          MaxTok,       \* bound: random tokens drawn in a behaviour
          MaxReq        \* bound: how often each kind of request is made, and
                        \* how often a process or the answer of create is lost

Proc == Req \cup Wf

Kind == {"connect", "disconnect", "create", "rotateBoot", "complete",
         "rotateSub", "retry", "revoke", "delete", "beacon", "lost"}

ASSUME ConstantsAssumption ==
  /\ Dep # {} /\ Conn # {}
  /\ Req \cap Wf = {}
  /\ DepTenant \in [Dep -> Tenant]   /\ DepZone \in [Dep -> Zone]
  /\ DepSite \in [Dep -> Site]
  /\ ConnTenant \in [Conn -> Tenant] /\ ConnZone \in [Conn -> Zone]
  /\ ConnLimit \in Nat /\ MaxTok \in Nat /\ Serial \in BOOLEAN
  /\ MaxReq \in [Kind -> Nat]

VARIABLES
  dep,       \* deployments: status, oauth_connection_id, hashes
  secret,    \* deployment_secrets: the decrypted bundle
  boot,      \* bootstrap_tokens
  conn,      \* oauth_connections: life of the stored API token
  plane,     \* external: the Worker script each site serves
  proc,      \* requests and workflow instances in flight
  fresh,     \* last random token drawn
  issued,    \* requests made and processes lost so far, by kind (bound)
  uses,      \* history: bootstraps accepted, by bootstrap token
  abandoned, \* history: connections a process left alone, or whose deployment
             \* was bound anew or deleted under another process
  cut,       \* history: deployments a revocation of which lost its process
  crossed    \* history: deployments whose revoke workflow was started by a
             \* request that took the start for failed

vars == <<dep, secret, boot, conn, plane, proc, fresh, issued, uses, abandoned, cut, crossed>>

(***************************************************************************)
(* Rows and values.  "none" is a row not yet inserted, "gone" a row that   *)
(* deleteDeployment removed; ids are random, so a removed id never returns.*)
(***************************************************************************)
Active == {"queued", "preparing", "awaiting_agent", "agent_ready",
           "finalizing", "revoking"}
RowStatus == Active \cup {"ready", "failed", "revoked"}
Status == RowStatus \cup {"none", "gone"}
Action == {"prepare", "finalize", "revoke"}
Tok == 1..MaxTok

ReqPC == {"connectInsert", "createInsert", "createStart", "createFailed", "rotateBootWrite",
          "completeConsume", "completeWrite", "completeStart", "ensure",
          "rebind", "rotateSubLoad", "rotateSubUpload", "rotateSubWrite",
          "retryStart", "deleteWrite", "revokeMark", "revokeStart", "revokeFailed",
          "beaconBind"}
WfPC == {"load", "markPreparing", "dns", "pendingAuth", "pendingUpload",
         "markAwaiting", "markFinalizing", "publishRead", "publishUpload",
         "markReady", "disableAuth", "disableUpload", "markRevoked",
         "dropBoot", "catch"}
PC == ReqPC \cup WfPC \cup {"idle", "idleCount", "idleScrub"}

AnyDep == CHOOSE d \in Dep : TRUE
AnyConn == CHOOSE c \in Conn : TRUE

\* Locals of a process: the deployment and connection it works on, where it
\* continues after the connection check, and what it read or drew earlier.
IdleProc == [pc |-> "idle", then |-> "idle", act |-> "prepare", d |-> AnyDep,
             c |-> AnyConn, seen |-> "none", tok |-> 0, sub |-> 0, node |-> 0]

DepRow == [status : Status, conn : Conn, agent : Nat, sub : Nat]
SecretRow == [sub : Nat, node : Nat]
BootRow == [tok : Nat, st : {"none", "live", "expired", "consumed"}]
Script == [mode : {"none", "pending", "ready"}, hash : Nat, link : Nat,
           node : Nat, by : Dep]
ProcRec == [pc : PC, then : PC, act : Action, d : Dep, c : Conn,
            seen : Status, tok : Nat, sub : Nat, node : Nat]

TypeOK ==
  /\ dep \in [Dep -> DepRow]
  /\ secret \in [Dep -> SecretRow]
  /\ boot \in [Dep -> BootRow]
  /\ conn \in [Conn -> {"none", "live", "expired", "erased"}]
  /\ plane \in [Site -> Script]
  /\ proc \in [Proc -> ProcRec]
  /\ fresh \in Nat
  /\ issued \in [Kind -> Nat]
  /\ uses \in [Tok -> Nat]
  /\ abandoned \subseteq Conn
  /\ cut \subseteq Dep /\ crossed \subseteq Dep

Init ==
  /\ dep = [d \in Dep |-> [status |-> "none", conn |-> AnyConn, agent |-> 0, sub |-> 0]]
  /\ secret = [d \in Dep |-> [sub |-> 0, node |-> 0]]
  /\ boot = [d \in Dep |-> [tok |-> 0, st |-> "none"]]
  /\ conn = [c \in Conn |-> "none"]
  /\ plane = [s \in Site |-> [mode |-> "none", hash |-> 0, link |-> 0,
                              node |-> 0, by |-> AnyDep]]
  /\ proc = [p \in Proc |-> IdleProc]
  /\ fresh = 0
  /\ issued = [k \in Kind |-> 0]
  /\ uses = [t \in Tok |-> 0]
  /\ abandoned = {} /\ cut = {} /\ crossed = {}

Exists(d) == dep[d].status \in RowStatus

\* An UPDATE of one deployment row: it changes nothing when the row is gone.
SetStatus(d, s) ==
  dep' = IF Exists(d) THEN [dep EXCEPT ![d].status = s] ELSE dep

\* getConnection: the row is there and revoked_at is NULL.
Stored(c) == conn[c] \in {"live", "expired"}

\* getValidCloudflareAuth on a connection just read: it is not expired either.
ValidAuth(c) == conn[c] = "live"

\* A connection of the tenant whose stored account/zone boundary covers d.
InBoundary(c, d) == ConnTenant[c] = DepTenant[d] /\ ConnZone[c] = DepZone[d]

\* The deployments, other than those in S, that still need the connection.
Needing(c, S) == {e \in Dep \ S : dep[e].conn = c /\ dep[e].status \in Active}

\* Control of a process.
At(p, l) == proc[p].pc = l
Step(p, new) == proc' = [proc EXCEPT ![p] = new]
Done(p) == Step(p, IdleProc)
Goto(p, l) == IF l = "idle" THEN Done(p) ELSE Step(p, [proc[p] EXCEPT !.pc = l])

\* A process, or the answer of create, is lost.
Lose ==
  /\ issued["lost"] < MaxReq["lost"]
  /\ issued' = [issued EXCEPT !["lost"] = @ + 1]

\* Nothing is in flight.
Quiet == \A p \in Proc : At(p, "idle")

\* A request of kind k arrives and starts with the locals "new".
Begin(r, k, new) ==
  /\ At(r, "idle") /\ (Serial => Quiet)
  /\ issued[k] < MaxReq[k]
  /\ issued' = [issued EXCEPT ![k] = @ + 1]
  /\ Step(r, new)

\* PROVISION_WORKFLOW.create: an instance of act starts for r's deployment,
\* and r continues with the locals "new".
Launch(r, act, new) ==
  \E w \in Wf :
    /\ At(w, "idle")
    /\ proc' = [proc EXCEPT
         ![r] = new,
         ![w] = [IdleProc EXCEPT !.pc = "load", !.act = act, !.d = proc[r].d]]

\* The handler then only stores the instance's id, audits and answers.
Spawn(r, act) == Launch(r, act, IdleProc)

\* The answer of create, or the UPDATE of workflow_instance_id behind it, is
\* lost: the handler takes the start for failed and continues at l.
SpawnUnseen(r, act, l) == Lose /\ Launch(r, act, [proc[r] EXCEPT !.pc = l])

rows == <<dep, secret, boot>>
ends == <<cut, crossed>>
hist == <<issued, uses, abandoned, ends>>

-----------------------------------------------------------------------------
(***************************************************************************)
(* Connections: api-token.ts, oauth.ts, cloudflare-api.ts and the cron.    *)
(***************************************************************************)

\* Mutant: the UPDATE picks the rows that are erased already.
EraseErased == [c \in Conn |-> IF conn[c] = "erased" THEN "erased" ELSE conn[c]]

\* eraseExpiredApiTokens: one UPDATE over every expired, unrevoked row.
EraseExpired == [c \in Conn |-> IF conn[c] = "expired" THEN "erased" ELSE conn[c]]

\* createTemporaryApiTokenConnection up to the COUNT of the tenant's unexpired
\* connections: the expired ones are erased first, at the limit it answers 409.
ConnectCheck(r, c) ==
  /\ conn[c] = "none"
  /\ LET mine == {e \in Conn : ConnTenant[e] = ConnTenant[c] /\ conn[e] = "live"}
     IN Begin(r, "connect",
              IF Cardinality(mine) < ConnLimit
                THEN [IdleProc EXCEPT !.pc = "connectInsert", !.c = c]
                ELSE IdleProc)
  /\ conn' = EraseExpired
  /\ UNCHANGED <<rows, plane, fresh, uses, abandoned, ends>>

\* The INSERT; two requests never draw the same random id.
ConnectInsert(r) ==
  /\ At(r, "connectInsert")
  /\ \E c \in Conn :
       /\ conn[c] = "none" /\ ConnTenant[c] = ConnTenant[proc[r].c]
       /\ conn' = [conn EXCEPT ![c] = "live"]
  /\ Done(r)
  /\ UNCHANGED <<rows, plane, fresh, hist>>

\* Time passes expires_at, the earlier of the local TTL and Cloudflare's own.
Expire(c) ==
  /\ conn[c] = "live"
  /\ conn' = [conn EXCEPT ![c] = "expired"]
  /\ UNCHANGED <<rows, plane, proc, fresh, hist>>

\* The "expired_api_tokens" stage of the cron, every five minutes.
CronErase ==
  /\ \E c \in Conn : conn[c] = "expired"
  /\ conn' = EraseExpired
  /\ UNCHANGED <<rows, plane, proc, fresh, hist>>

\* disconnectCloudflareConnection up to its COUNT of active deployments.
DisconnectCheck(r, c) ==
  /\ Needing(c, {}) = {} /\ Stored(c)
  /\ Begin(r, "disconnect", [IdleProc EXCEPT !.pc = "idleScrub", !.c = c])
  /\ UNCHANGED <<rows, conn, plane, fresh, uses, abandoned, ends>>

\* Mutant: the COUNT takes ready and failed deployments for ones that need the
\* connection.
IdleCountAll(p) ==
  /\ At(p, "idleCount")
  /\ IF \E e \in Dep \ {proc[p].d} : dep[e].conn = proc[p].c /\ dep[e].status \in Active \cup {"ready", "failed"}
       THEN Done(p)
       ELSE Goto(p, "idleScrub")
  /\ UNCHANGED <<rows, conn, plane, fresh, hist>>

\* disconnectConnectionIfIdle, the COUNT that excludes the caller's deployment.
IdleCount(p) ==
  /\ At(p, "idleCount")
  /\ IF Needing(proc[p].c, {proc[p].d}) = {}
       THEN Goto(p, "idleScrub")
       ELSE Done(p)
  /\ UNCHANGED <<rows, conn, plane, fresh, hist>>

\* scrubConnection: the ciphertext is overwritten unless already revoked.
Scrub(c) ==
  conn' = IF Stored(c) THEN [conn EXCEPT ![c] = "erased"] ELSE conn

IdleScrub(p) ==
  /\ At(p, "idleScrub")
  /\ Scrub(proc[p].c)
  /\ Done(p)
  /\ UNCHANGED <<rows, plane, fresh, hist>>

-----------------------------------------------------------------------------
(***************************************************************************)
(* createDeployment.                                                       *)
(***************************************************************************)

\* The conflict SELECT, and the UNIQUE constraints behind it.
NoConflict(d) == \A e \in Dep : DepSite[e] = DepSite[d] => ~Exists(e)

CreateCheck(r, d, c) ==
  /\ dep[d].status = "none"
  /\ InBoundary(c, d) /\ ValidAuth(c) /\ NoConflict(d)
  /\ Begin(r, "create", [IdleProc EXCEPT !.pc = "createInsert", !.d = d, !.c = c])
  /\ UNCHANGED <<rows, conn, plane, fresh, uses, abandoned, ends>>

\* The batch of three INSERTs; a UNIQUE violation aborts it and the request.
CreateInsert(r) ==
  LET d == proc[r].d IN
  /\ At(r, "createInsert")
  /\ IF dep[d].status = "none" /\ NoConflict(d)
       THEN /\ fresh + 2 <= MaxTok
            /\ fresh' = fresh + 2
            /\ dep' = [dep EXCEPT ![d] = [status |-> "queued", conn |-> proc[r].c,
                                          agent |-> 0, sub |-> fresh + 1]]
            /\ secret' = [secret EXCEPT ![d] = [sub |-> fresh + 1, node |-> 0]]
            /\ boot' = [boot EXCEPT ![d] = [tok |-> fresh + 2, st |-> "live"]]
            /\ Goto(r, "createStart")
       ELSE Done(r) /\ UNCHANGED <<rows, fresh>>
  /\ UNCHANGED <<conn, plane, hist>>

CreateStart(r) ==
  /\ At(r, "createStart")
  /\ Spawn(r, "prepare")
  /\ UNCHANGED <<rows, conn, plane, fresh, hist>>

\* Workflows refused the instance, or startWorkflow failed after creating it.
CreateStartFails(r) ==
  /\ At(r, "createStart")
  /\ \/ Goto(r, "createFailed") /\ UNCHANGED issued
     \/ SpawnUnseen(r, "prepare", "createFailed")
  /\ UNCHANGED <<rows, conn, plane, fresh, uses, abandoned, ends>>

\* The catch block: the row fails and its credential goes.
CreateFailed(r) ==
  /\ At(r, "createFailed")
  /\ SetStatus(proc[r].d, "failed")
  /\ Goto(r, "idleCount")
  /\ UNCHANGED <<secret, boot, conn, plane, fresh, hist>>

-----------------------------------------------------------------------------
(***************************************************************************)
(* ensureActiveDeploymentConnection, shared by rotate, retry and revoke.   *)
(* The caller's snapshot of oauth_connection_id is in c.                   *)
(***************************************************************************)

\* Mutant: the replacement's zone is not compared with the deployment's.
EnsureAnyZone(r) ==
  /\ At(r, "ensure")
  /\ IF Stored(proc[r].c)
       THEN Goto(r, proc[r].then)
       ELSE \/ \E c \in Conn :
                 /\ ConnTenant[c] = DepTenant[proc[r].d] /\ ValidAuth(c)
                 /\ Step(r, [proc[r] EXCEPT !.pc = "rebind", !.c = c])
            \/ Done(r)
  /\ UNCHANGED <<rows, conn, plane, fresh, hist>>

\* The stored connection is still there (its expiry is not looked at), or a
\* valid replacement the user named is, or the request ends in an error.
Ensure(r) ==
  /\ At(r, "ensure")
  /\ IF Stored(proc[r].c)
       THEN Goto(r, proc[r].then)
       ELSE \/ \E c \in Conn :
                 /\ InBoundary(c, proc[r].d) /\ ValidAuth(c)
                 /\ Step(r, [proc[r] EXCEPT !.pc = "rebind", !.c = c])
            \/ Done(r)
  /\ UNCHANGED <<rows, conn, plane, fresh, hist>>

\* Another process works on d with a connection it read, or is about to read it.
Busy(r, d) ==
  \E q \in Proc \ {r} :
    /\ proc[q].d = d /\ ~At(q, "idle")
    /\ q \in Wf \/ proc[q].pc \in {"createStart", "createFailed", "ensure", "rebind",
                                   "rotateSubLoad", "retryStart", "revokeMark",
                                   "revokeStart", "revokeFailed"}

Rebind(r) ==
  LET d == proc[r].d IN
  /\ At(r, "rebind")
  /\ dep' = IF Exists(d) THEN [dep EXCEPT ![d].conn = proc[r].c] ELSE dep
  /\ abandoned' = IF Busy(r, d) THEN abandoned \cup {proc[r].c, dep[d].conn} ELSE abandoned
  /\ Goto(r, proc[r].then)
  /\ UNCHANGED <<secret, boot, conn, plane, fresh, issued, uses, ends>>

\* A request that fails after the connection check just throws: what is stored
\* in the deployment's connection stays until something else erases it.
Abandon(r) ==
  /\ Done(r)
  /\ abandoned' = abandoned \cup {proc[r].c, dep[proc[r].d].conn}

-----------------------------------------------------------------------------
(***************************************************************************)
(* The one-time bootstrap token and the agent's completion.                *)
(***************************************************************************)

RotateBootRead(r, d) ==
  /\ dep[d].status \in {"queued", "preparing", "awaiting_agent", "failed"}
  /\ Begin(r, "rotateBoot", [IdleProc EXCEPT !.pc = "rotateBootWrite", !.d = d])
  /\ UNCHANGED <<rows, conn, plane, fresh, uses, abandoned, ends>>

\* The upsert keyed by deployment; its foreign key refuses a deleted row.
RotateBootWrite(r) ==
  LET d == proc[r].d IN
  /\ At(r, "rotateBootWrite")
  /\ IF Exists(d)
       THEN /\ fresh < MaxTok
            /\ fresh' = fresh + 1
            /\ boot' = [boot EXCEPT ![d] = [tok |-> fresh + 1, st |-> "live"]]
       ELSE UNCHANGED <<fresh, boot>>
  /\ Done(r)
  /\ UNCHANGED <<dep, secret, conn, plane, hist>>

\* Time passes the token's expires_at.
ExpireBoot(d) ==
  /\ boot[d].st = "live"
  /\ boot' = [boot EXCEPT ![d].st = "expired"]
  /\ UNCHANGED <<dep, secret, conn, plane, proc, fresh, hist>>

\* completeBootstrap: getBootstrapRecord, and the bundle the payload is merged
\* into.  No status is required of the deployment.
CompleteRead(r, d) ==
  /\ boot[d].st = "live" /\ Exists(d)
  /\ Begin(r, "complete", [IdleProc EXCEPT !.pc = "completeConsume", !.d = d,
                             !.tok = boot[d].tok, !.sub = secret[d].sub])
  /\ UNCHANGED <<rows, conn, plane, fresh, uses, abandoned, ends>>

\* Mutant: the UPDATE does not ask for consumed_at IS NULL.
CompleteConsumeAgain(r) ==
  LET d == proc[r].d  t == proc[r].tok IN
  /\ At(r, "completeConsume")
  /\ IF boot[d].tok = t
       THEN /\ boot' = [boot EXCEPT ![d].st = "consumed"]
            /\ uses' = [uses EXCEPT ![t] = @ + 1]
            /\ Goto(r, "completeWrite")
       ELSE Done(r) /\ UNCHANGED <<boot, uses>>
  /\ UNCHANGED <<dep, secret, conn, plane, fresh, issued, abandoned, ends>>

\* The compare-and-set on consumed_at; it does not look at expires_at again.
CompleteConsume(r) ==
  LET d == proc[r].d  t == proc[r].tok IN
  /\ At(r, "completeConsume")
  /\ IF boot[d].tok = t /\ boot[d].st \in {"live", "expired"}
       THEN /\ boot' = [boot EXCEPT ![d].st = "consumed"]
            /\ uses' = [uses EXCEPT ![t] = @ + 1]
            /\ Goto(r, "completeWrite")
       ELSE Done(r) /\ UNCHANGED <<boot, uses>>
  /\ UNCHANGED <<dep, secret, conn, plane, fresh, issued, abandoned, ends>>

\* The batch: the merged bundle, the agent's hash and "agent_ready".  The node
\* credentials and the agent token are named after the bootstrap they came with.
CompleteWrite(r) ==
  LET d == proc[r].d  t == proc[r].tok IN
  /\ At(r, "completeWrite")
  /\ IF Exists(d)
       THEN /\ secret' = [secret EXCEPT ![d] = [sub |-> proc[r].sub, node |-> t]]
            /\ dep' = [dep EXCEPT ![d].agent = t, ![d].status = "agent_ready"]
       ELSE UNCHANGED <<secret, dep>>
  /\ Goto(r, "completeStart")
  /\ UNCHANGED <<boot, conn, plane, fresh, hist>>

CompleteStart(r) ==
  /\ At(r, "completeStart")
  /\ Spawn(r, "finalize")
  /\ UNCHANGED <<rows, conn, plane, fresh, hist>>

\* Workflows refused the instance: the token is spent, the row is agent_ready.
\* After a lost answer the handler ends too, which is CompleteStart.
CompleteStartFails(r) ==
  /\ At(r, "completeStart")
  /\ Done(r)
  /\ UNCHANGED <<rows, conn, plane, fresh, hist>>

-----------------------------------------------------------------------------
(***************************************************************************)
(* rotateSubscriptionToken, retryDeployment, revokeDeployment, delete.     *)
(***************************************************************************)

\* uploadWorkerScript replaces what a site serves (external: Cloudflare).
Upload(d, mode, hash, link, node) ==
  plane' = [plane EXCEPT ![DepSite[d]] =
              [mode |-> mode, hash |-> hash, link |-> link, node |-> node, by |-> d]]

RotateSubRead(r, d) ==
  /\ dep[d].status = "ready" /\ dep[d].agent # 0
  /\ Begin(r, "rotateSub", [IdleProc EXCEPT !.pc = "ensure", !.then = "rotateSubLoad",
                              !.d = d, !.c = dep[d].conn])
  /\ UNCHANGED <<rows, conn, plane, fresh, uses, abandoned, ends>>

\* The reload of the row and of the bundle, a new token, and the credential.
RotateSubLoad(r) ==
  LET d == proc[r].d IN
  /\ At(r, "rotateSubLoad")
  /\ IF Exists(d) /\ ValidAuth(dep[d].conn) /\ secret[d].node # 0
       THEN /\ fresh < MaxTok
            /\ fresh' = fresh + 1
            /\ Step(r, [proc[r] EXCEPT !.pc = "rotateSubUpload", !.c = dep[d].conn,
                          !.tok = fresh + 1, !.node = secret[d].node])
            /\ UNCHANGED abandoned
       ELSE Abandon(r) /\ UNCHANGED fresh
  /\ UNCHANGED <<rows, conn, plane, issued, uses, ends>>

RotateSubUpload(r) ==
  /\ At(r, "rotateSubUpload")
  /\ Upload(proc[r].d, "ready", proc[r].tok, proc[r].tok, proc[r].node)
  /\ Goto(r, "rotateSubWrite")
  /\ UNCHANGED <<rows, conn, fresh, hist>>

\* The upload fails, or it is applied and its answer is lost.
RotateSubUploadFails(r) ==
  /\ At(r, "rotateSubUpload")
  /\ \/ UNCHANGED plane
     \/ Upload(proc[r].d, "ready", proc[r].tok, proc[r].tok, proc[r].node)
  /\ Abandon(r)
  /\ UNCHANGED <<rows, conn, fresh, issued, uses, ends>>

\* Mutant: the batch stores the new token without the node credentials.
RotateSubWriteBare(r) ==
  LET d == proc[r].d  t == proc[r].tok IN
  /\ At(r, "rotateSubWrite")
  /\ IF Exists(d)
       THEN /\ secret' = [secret EXCEPT ![d] = [sub |-> t, node |-> 0]]
            /\ dep' = [dep EXCEPT ![d].sub = t]
       ELSE UNCHANGED <<secret, dep>>
  /\ Goto(r, "idleCount")
  /\ UNCHANGED <<boot, conn, plane, fresh, hist>>

\* The batch that makes the new token the stored one.
RotateSubWrite(r) ==
  LET d == proc[r].d  t == proc[r].tok IN
  /\ At(r, "rotateSubWrite")
  /\ IF Exists(d)
       THEN /\ secret' = [secret EXCEPT ![d] = [sub |-> t, node |-> proc[r].node]]
            /\ dep' = [dep EXCEPT ![d].sub = t]
       ELSE UNCHANGED <<secret, dep>>
  /\ Goto(r, "idleCount")
  /\ UNCHANGED <<boot, conn, plane, fresh, hist>>

RetryRead(r, d) ==
  /\ dep[d].status \in {"agent_ready", "failed"}
  /\ Begin(r, "retry", [IdleProc EXCEPT !.pc = "ensure", !.then = "retryStart",
                          !.d = d, !.c = dep[d].conn,
                          !.act = IF dep[d].agent # 0 THEN "finalize" ELSE "prepare"])
  /\ UNCHANGED <<rows, conn, plane, fresh, uses, abandoned, ends>>

\* The row keeps its retryable status until the workflow's first step.
RetryStart(r) ==
  /\ At(r, "retryStart")
  /\ Spawn(r, proc[r].act)
  /\ UNCHANGED <<rows, conn, plane, fresh, hist>>

\* As above: a lost answer is RetryStart.
RetryStartFails(r) ==
  /\ At(r, "retryStart")
  /\ Abandon(r)
  /\ UNCHANGED <<rows, conn, plane, fresh, issued, uses, ends>>

RevokeRead(r, d) ==
  /\ dep[d].status \in RowStatus \ {"revoked", "revoking"}
  /\ Begin(r, "revoke", [IdleProc EXCEPT !.pc = "ensure", !.then = "revokeMark",
                           !.d = d, !.c = dep[d].conn, !.seen = dep[d].status])
  /\ UNCHANGED <<rows, conn, plane, fresh, uses, abandoned, ends>>

RevokeMark(r) ==
  /\ At(r, "revokeMark")
  /\ SetStatus(proc[r].d, "revoking")
  /\ Goto(r, "revokeStart")
  /\ UNCHANGED <<secret, boot, conn, plane, fresh, hist>>

RevokeStart(r) ==
  /\ At(r, "revokeStart")
  /\ Spawn(r, "revoke")
  /\ UNCHANGED <<rows, conn, plane, fresh, hist>>

\* Workflows refused the instance, or startWorkflow failed after creating it.
RevokeStartFails(r) ==
  /\ At(r, "revokeStart")
  /\ \/ Goto(r, "revokeFailed") /\ UNCHANGED <<issued, crossed>>
     \/ /\ SpawnUnseen(r, "revoke", "revokeFailed")
        /\ crossed' = crossed \cup {proc[r].d}
  /\ UNCHANGED <<rows, conn, plane, fresh, uses, abandoned, cut>>

\* Mutant: the status is not written back.
RevokeFailedStays(r) ==
  /\ At(r, "revokeFailed")
  /\ Abandon(r)
  /\ UNCHANGED <<rows, conn, plane, fresh, issued, uses, ends>>

\* The catch block writes back the status read at the start of the request,
\* also when the workflow is running.
RevokeFailed(r) ==
  /\ At(r, "revokeFailed")
  /\ SetStatus(proc[r].d, proc[r].seen)
  /\ Abandon(r)
  /\ UNCHANGED <<secret, boot, conn, plane, fresh, issued, uses, ends>>

DeleteRead(r, d) ==
  /\ dep[d].status \in {"failed", "revoked"}
  /\ Begin(r, "delete", [IdleProc EXCEPT !.pc = "deleteWrite", !.d = d])
  /\ UNCHANGED <<rows, conn, plane, fresh, uses, abandoned, ends>>

\* The batch of DELETEs; Cloudflare is not touched.
DeleteWrite(r) ==
  LET d == proc[r].d IN
  /\ At(r, "deleteWrite")
  /\ dep' = [dep EXCEPT ![d] = [status |-> "gone", conn |-> AnyConn, agent |-> 0, sub |-> 0]]
  /\ secret' = [secret EXCEPT ![d] = [sub |-> 0, node |-> 0]]
  /\ boot' = [boot EXCEPT ![d] = [tok |-> 0, st |-> "none"]]
  /\ abandoned' = IF dep[d].status \in Active \/ Busy(r, d)
                    THEN abandoned \cup {dep[d].conn} ELSE abandoned
  /\ Done(r)
  /\ UNCHANGED <<conn, plane, fresh, issued, uses, ends>>

\* publishSleeperBeacon when the deployment's connection is erased: the row is
\* bound to the tenant's newest unrevoked connection of the zone, expired or
\* not.  Publishing itself touches none of this state.
BeaconRead(r, d, c) ==
  /\ Exists(d) /\ ~Stored(dep[d].conn)
  /\ InBoundary(c, d) /\ Stored(c)
  /\ Begin(r, "beacon", [IdleProc EXCEPT !.pc = "beaconBind", !.d = d, !.c = c])
  /\ UNCHANGED <<rows, conn, plane, fresh, uses, abandoned, ends>>

BeaconBind(r) ==
  LET d == proc[r].d IN
  /\ At(r, "beaconBind")
  /\ dep' = IF Exists(d) THEN [dep EXCEPT ![d].conn = proc[r].c] ELSE dep
  /\ Abandon(r)
  /\ UNCHANGED <<secret, boot, conn, plane, fresh, issued, uses, ends>>

-----------------------------------------------------------------------------
(***************************************************************************)
(* ProvisionWorkflow.  A step body that fails is run again from its start  *)
(* and, once its retries are used up, the run ends in the catch block.     *)
(***************************************************************************)

\* Mutant: a revocation goes straight to "mark revoked".
FirstStepUndisabled(act) == CASE act = "prepare"  -> "markPreparing"
                              [] act = "finalize" -> "markFinalizing"
                              [] act = "revoke"   -> "markRevoked"

FirstStep(act) == CASE act = "prepare"  -> "markPreparing"
                    [] act = "finalize" -> "markFinalizing"
                    [] act = "revoke"   -> "disableAuth"

\* The snapshot every later step but "publish" works from; for a revoke, the
\* replacement hash too.  Without a row the catch block finds nothing to do.
WfLoad(w) ==
  LET d == proc[w].d  act == proc[w].act IN
  /\ At(w, "load")
  /\ IF Exists(d)
       THEN LET n == IF act = "revoke" THEN 1 ELSE 0 IN
            /\ fresh + n <= MaxTok
            /\ fresh' = fresh + n
            /\ Step(w, [proc[w] EXCEPT !.pc = FirstStep(act), !.c = dep[d].conn,
                          !.sub = dep[d].sub, !.tok = fresh + n])
       ELSE Done(w) /\ UNCHANGED fresh
  /\ UNCHANGED <<rows, conn, plane, hist>>

\* updateStatus as the whole body of a step.
WfMark(w, l, s, next) ==
  /\ At(w, l)
  /\ SetStatus(proc[w].d, s)
  /\ Goto(w, next)
  /\ UNCHANGED <<secret, boot, conn, plane, fresh, hist>>

\* Mutant: the action's name is stored as the status.
WfMarkPrepare(w) == WfMark(w, "markPreparing", "prepare", "dns")

WfMarkPreparing(w) == WfMark(w, "markPreparing", "preparing", "dns")
WfMarkFinalizing(w) == WfMark(w, "markFinalizing", "finalizing", "publishRead")

\* updateStatus followed by an audit row and a Telegram message: when the
\* message fails the body runs again, or the retries are over.
WfMarkAwaiting(w) ==
  \E l \in {"idle", "markAwaiting", "catch"} : WfMark(w, "markAwaiting", "awaiting_agent", l)
WfMarkReady(w) ==
  \E l \in {"idleCount", "markReady", "catch"} : WfMark(w, "markReady", "ready", l)

\* The connection of the snapshot is read and decrypted; "dns" also verifies
\* the zone and upserts the node's A record.
WfAuth(w) ==
  /\ ValidAuth(proc[w].c)
  /\ \/ At(w, "dns") /\ Goto(w, "pendingAuth")
     \/ At(w, "pendingAuth") /\ Goto(w, "pendingUpload")
     \/ At(w, "disableAuth") /\ Goto(w, "disableUpload")
  /\ UNCHANGED <<rows, conn, plane, fresh, hist>>

\* uploadWorkerScript and attachWorkerDomain with the snapshot's hash.
WfPendingUpload(w) ==
  /\ At(w, "pendingUpload")
  /\ Upload(proc[w].d, "pending", proc[w].sub, 0, 0)
  /\ \E l \in {"markAwaiting", "pendingAuth", "catch"} : Goto(w, l)
  /\ UNCHANGED <<rows, conn, fresh, hist>>

\* The publish step reloads the row and the bundle before it uploads.
WfPublishRead(w) ==
  LET d == proc[w].d IN
  /\ At(w, "publishRead")
  /\ Exists(d) /\ dep[d].agent # 0 /\ secret[d].node # 0 /\ ValidAuth(dep[d].conn)
  /\ Step(w, [proc[w] EXCEPT !.pc = "publishUpload", !.sub = dep[d].sub,
                !.tok = secret[d].sub, !.node = secret[d].node])
  /\ UNCHANGED <<rows, conn, plane, fresh, hist>>

WfPublishUpload(w) ==
  /\ At(w, "publishUpload")
  /\ Upload(proc[w].d, "ready", proc[w].sub, proc[w].tok, proc[w].node)
  /\ \E l \in {"markReady", "publishRead", "catch"} : Goto(w, l)
  /\ UNCHANGED <<rows, conn, fresh, hist>>

\* A bundle that serves nothing, under a hash no one knows the token of.
WfDisableUpload(w) ==
  /\ At(w, "disableUpload")
  /\ Upload(proc[w].d, "pending", proc[w].tok, 0, 0)
  /\ \E l \in {"markRevoked", "disableAuth", "catch"} : Goto(w, l)
  /\ UNCHANGED <<rows, conn, fresh, hist>>

\* "mark revoked" is two statements, then an audit row and a message.
WfMarkRevoked(w) ==
  LET d == proc[w].d IN
  /\ At(w, "markRevoked")
  /\ dep' = IF Exists(d)
              THEN [dep EXCEPT ![d].status = "revoked", ![d].sub = proc[w].tok, ![d].agent = 0]
              ELSE dep
  /\ Goto(w, "dropBoot")
  /\ UNCHANGED <<secret, boot, conn, plane, fresh, hist>>

WfDropBoot(w) ==
  /\ At(w, "dropBoot")
  /\ boot' = [boot EXCEPT ![proc[w].d] = [tok |-> 0, st |-> "none"]]
  /\ \E l \in {"idleCount", "markRevoked", "catch"} : Goto(w, l)
  /\ UNCHANGED <<dep, secret, conn, plane, fresh, hist>>

\* Where the body of the step a workflow is in starts.
BodyStart(l) == CASE l = "pendingUpload" -> "pendingAuth"
                  [] l = "publishUpload" -> "publishRead"
                  [] l = "disableUpload" -> "disableAuth"
                  [] l = "dropBoot"      -> "markRevoked"
                  [] OTHER               -> l

InStep == WfPC \ {"load", "catch"}

\* Mutant: the failure of "publish" is swallowed.
WfStepFailsQuietly(w) ==
  /\ proc[w].pc \in InStep
  /\ \E l \in {BodyStart(proc[w].pc), "catch"} :
       Goto(w, IF proc[w].pc = "publishUpload" THEN "markReady" ELSE l)
  /\ UNCHANGED <<rows, conn, plane, fresh, hist>>

\* A call of a step's body, to Cloudflare or D1, fails and changes nothing.
WfStepFails(w) ==
  /\ proc[w].pc \in InStep
  /\ \E l \in {BodyStart(proc[w].pc), "catch"} : Goto(w, l)
  /\ UNCHANGED <<rows, conn, plane, fresh, hist>>

\* The ready message after the erase fails, and so does the one about that
\* failure: the exception leaves finalize.
WfReadyNotifyFails(w) ==
  /\ At(w, "idleScrub") /\ proc[w].act = "finalize" /\ proc[w].then = "idle"
  /\ Stored(proc[w].c)
  /\ Scrub(proc[w].c)
  /\ Goto(w, "catch")
  /\ UNCHANGED <<rows, plane, fresh, hist>>

\* Mutant: the catch block keeps the connection.
WfCatchKeeps(w) ==
  /\ At(w, "catch")
  /\ SetStatus(proc[w].d, "failed")
  /\ Done(w)
  /\ UNCHANGED <<secret, boot, conn, plane, fresh, hist>>

\* The catch block of run.
WfCatch(w) ==
  /\ At(w, "catch")
  /\ SetStatus(proc[w].d, "failed")
  /\ Step(w, [proc[w] EXCEPT !.pc = "idleCount", !.then = "catch"])
  /\ UNCHANGED <<secret, boot, conn, plane, fresh, hist>>

\* "load deployment" fails for good: without the row run's catch block only
\* writes the status, and nothing when that fails too.
WfLoadFails(w) ==
  LET d == proc[w].d IN
  /\ At(w, "load")
  /\ \/ SetStatus(d, "failed") /\ UNCHANGED cut
     \/ cut' = cut \cup {d} /\ UNCHANGED dep
  /\ Done(w) /\ Lose
  /\ abandoned' = abandoned \cup {dep[d].conn}
  /\ UNCHANGED <<secret, boot, conn, plane, fresh, uses, crossed>>

\* The erase step fails for good.  Behind the catch block that is swallowed; in
\* finalize and revoke it is recorded, and the catch block follows when that
\* fails too.
WfEraseFails(w) ==
  /\ proc[w].pc \in {"idleCount", "idleScrub"}
  /\ \/ Done(w) /\ abandoned' = abandoned \cup {proc[w].c}
     \/ proc[w].then = "idle" /\ Goto(w, "catch") /\ UNCHANGED abandoned
  /\ Lose
  /\ UNCHANGED <<rows, conn, plane, fresh, uses, ends>>

\* The UPDATE of the catch block fails, and with it the run.
WfDies(w) ==
  /\ At(w, "catch")
  /\ Done(w) /\ Lose
  /\ abandoned' = abandoned \cup {proc[w].c}
  /\ cut' = cut \cup {proc[w].d}
  /\ UNCHANGED <<rows, conn, plane, fresh, uses, crossed>>

-----------------------------------------------------------------------------
(***************************************************************************)
(* The system.                                                             *)
(***************************************************************************)

\* A request arrives.
Arrive(r) ==
  \/ \E c \in Conn : ConnectCheck(r, c) \/ DisconnectCheck(r, c)
  \/ \E d \in Dep, c \in Conn : CreateCheck(r, d, c) \/ BeaconRead(r, d, c)
  \/ \E d \in Dep : \/ RotateBootRead(r, d) \/ CompleteRead(r, d)
                    \/ RotateSubRead(r, d) \/ RetryRead(r, d)
                    \/ RevokeRead(r, d) \/ DeleteRead(r, d)

\* The connection a request at its label was going to look after.
LeftBy(r) ==
  {c \in Conn :
     \/ /\ proc[r].pc \in {"rotateSubUpload", "rotateSubWrite", "idleCount", "idleScrub"}
        /\ c = proc[r].c
     \/ /\ proc[r].pc \in {"createStart", "createFailed", "rotateSubLoad", "retryStart",
                           "revokeMark", "revokeStart", "revokeFailed"}
        /\ c = dep[proc[r].d].conn}

\* The runtime kills the invocation, or a statement on D1 throws outside every
\* try: the request goes no further, and no one resumes it.
Kill(r) ==
  /\ ~At(r, "idle")
  /\ Done(r) /\ Lose
  /\ abandoned' = abandoned \cup LeftBy(r)
  /\ cut' = cut \cup {d \in {proc[r].d} : proc[r].pc \in {"revokeStart", "revokeFailed"}}
  /\ UNCHANGED <<rows, conn, plane, fresh, uses, crossed>>

\* A request in flight continues.
ReqStep(r) ==
  \/ ConnectInsert(r)
  \/ CreateInsert(r) \/ CreateStart(r) \/ CreateStartFails(r) \/ CreateFailed(r)
  \/ Ensure(r) \/ Rebind(r)
  \/ RotateBootWrite(r)
  \/ CompleteConsume(r) \/ CompleteWrite(r) \/ CompleteStart(r) \/ CompleteStartFails(r)
  \/ RotateSubLoad(r) \/ RotateSubUpload(r) \/ RotateSubUploadFails(r) \/ RotateSubWrite(r)
  \/ RetryStart(r) \/ RetryStartFails(r)
  \/ RevokeMark(r) \/ RevokeStart(r) \/ RevokeStartFails(r) \/ RevokeFailed(r)
  \/ DeleteWrite(r) \/ BeaconBind(r)

\* A workflow instance continues.
WfStep(w) ==
  \/ WfLoad(w) \/ WfAuth(w)
  \/ WfMarkPreparing(w) \/ WfPendingUpload(w) \/ WfMarkAwaiting(w)
  \/ WfMarkFinalizing(w) \/ WfPublishRead(w) \/ WfPublishUpload(w) \/ WfMarkReady(w)
  \/ WfDisableUpload(w) \/ WfMarkRevoked(w) \/ WfDropBoot(w)
  \/ WfStepFails(w) \/ WfReadyNotifyFails(w) \/ WfCatch(w)
  \/ WfLoadFails(w) \/ WfEraseFails(w) \/ WfDies(w)

Erase(p) == IdleCount(p) \/ IdleScrub(p)

\* Nothing needs to happen: a state the system may rest in is not a deadlock,
\* one with a stuck process is.
Rest == Quiet /\ UNCHANGED vars

Continue ==
  \/ \E r \in Req : ReqStep(r) \/ Kill(r)
  \/ \E w \in Wf : WfStep(w)
  \/ \E p \in Proc : Erase(p)
  \/ \E c \in Conn : Expire(c)
  \/ CronErase
  \/ \E d \in Dep : ExpireBoot(d)
  \/ Rest

Next == (\E r \in Req : Arrive(r)) \/ Continue

Spec == Init /\ [][Next]_vars

\* A request that can continue does unless it is killed; Workflows resume a
\* workflow that can continue; a step is retried at most
\* STEP_CONFIG.retries.limit times, so it is not run again for ever; tokens
\* expire and the cron fires.  Users and agents owe us nothing.
Retried == {"pendingUpload", "publishUpload", "disableUpload", "dropBoot",
            "markAwaiting", "markReady"}
WfLeaves(w) ==
  /\ proc[w].pc \in Retried
  /\ WfStep(w)
  /\ proc'[w].pc # BodyStart(proc[w].pc)

Fairness ==
  /\ \A r \in Req : WF_vars(ReqStep(r))
  /\ \A w \in Wf : WF_vars(WfStep(w)) /\ SF_vars(WfLeaves(w))
  /\ \A p \in Proc : WF_vars(Erase(p))
  /\ \A c \in Conn : WF_vars(Expire(c))
  /\ WF_vars(CronErase)

FairSpec == Spec /\ Fairness

-----------------------------------------------------------------------------
(***************************************************************************)
(* Properties.                                                             *)
(***************************************************************************)

\* A bootstrap token is accepted at most once, however many downloads of the
\* script run, and whether or not it is rotated or expires while a completion
\* is being handled (completeBootstrap's UPDATE ... WHERE consumed_at IS NULL).
BootstrapOnce == \A t \in Tok : uses[t] <= 1

\* The connection a deployment row names is one of the same tenant and bound to
\* the same account and zone: the workflow reads it without a tenant filter, so
\* createDeployment and the rebinding of ensureActiveDeploymentConnection must
\* never leave another one there.
RowConnectionInBoundary ==
  \A d \in Dep : Exists(d) => InBoundary(dep[d].conn, d)

\* A row with an agent has a bundle with node credentials, so that publishing
\* or rotating never stops at "Agent credentials are incomplete", although
\* completeBootstrap and rotateSubscriptionToken both write back a bundle they
\* read earlier.
AgentHasBundle ==
  \A d \in Dep : Exists(d) /\ dep[d].agent # 0 => secret[d].node # 0

\* When nothing is in flight, no usable credential is kept for deployments that
\* all ended (ready, failed or revoked), whichever of them ended last and
\* whatever each one's COUNT of the others saw.  The exceptions: a request bound
\* the connection and then failed, or was the publication of a beacon; the
\* process that was to look after it was killed or failed for good; or a
\* deployment was bound to it, bound away from it, or deleted while it was active
\* or while another process, which goes on with what it has read, worked on it.
NoIdleCredential ==
  Quiet => \A c \in Conn :
    conn[c] = "live" /\ (\E d \in Dep : Exists(d) /\ dep[d].conn = c)
      => c \in abandoned \/ Needing(c, {}) # {}

\* A revoked deployment's site serves no profiles.
RevokedIsDisabled ==
  \A d \in Dep : dep[d].status = "revoked" =>
    ~(plane[DepSite[d]].mode = "ready" /\ plane[DepSite[d]].by = d)

\* A ready deployment's site serves its profiles, whichever of the calls on the
\* way to "ready" failed, was repeated or lost its process.  The exception: the
\* revoke workflow was created but the request took startWorkflow for failed,
\* so revokeDeployment's catch writes "ready" back over a running revocation.
ReadyIsPublished ==
  \A d \in Dep : dep[d].status = "ready" =>
    \/ plane[DepSite[d]].mode = "ready" /\ plane[DepSite[d]].by = d
    \/ d \in crossed

\* Only a retired or broken row is deleted, never the row of a live node.
DeleteSparesLiveNode ==
  [][\A d \in Dep : Exists(d) /\ dep'[d].status = "gone" =>
       ~(plane[DepSite[d]].mode = "ready" /\ plane[DepSite[d]].by = d)]_vars

\* An unexpired credential is not erased while an active deployment needs it.
EraseSparesActive ==
  [][\A c \in Conn : conn[c] = "live" /\ conn'[c] = "erased" => Needing(c, {}) = {}]_vars

\* A tenant never has more unexpired connections than the limit.
WithinConnLimit ==
  \A t \in Tenant :
    Cardinality({c \in Conn : ConnTenant[c] = t /\ conn[c] = "live"}) <= ConnLimit

\* A revocation that was accepted ends: in "revoked", in "failed" after its
\* workflow's catch block, or in the status it started from.  The exception: its
\* request was killed between the UPDATE to "revoking" and the start of the
\* workflow, or the UPDATE of a catch block failed; nothing takes it up then.
RevocationEnds ==
  \A d \in Dep : dep[d].status = "revoking" ~> dep[d].status # "revoking" \/ d \in cut

\* Every stored API token is erased in the end, used or not, whatever becomes
\* of the deployments on it.
CredentialsErased == \A c \in Conn : conn[c] = "live" ~> conn[c] = "erased"

\* At rest, the link the panel shows for a ready deployment is the one its site
\* serves.
ShownLinkWorks ==
  Quiet => \A d \in Dep : dep[d].status = "ready" =>
    plane[DepSite[d]].mode = "ready" /\ plane[DepSite[d]].hash = secret[d].sub
=============================================================================
