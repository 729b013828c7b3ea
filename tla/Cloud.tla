-------------------------------- MODULE Cloud --------------------------------
(***************************************************************************)
(* What the bot builds on a tenant's own Cloudflare account: panels of the *)
(* catalog (deployPanel, one row of panel_deployments per attempt) and     *)
(* Omni nodes (createOmniNode, a row of kaveh_nodes once the node stands). *)
(* Each is a chain of Cloudflare calls and D1 statements of one Worker     *)
(* invocation.  Every call can be refused, be carried out with its answer  *)
(* lost, or be the last one before the invocation is killed; the record    *)
(* and the account are two things, and what the list shows is the record.  *)
(***************************************************************************)
EXTENDS Naturals, FiniteSets

CONSTANTS Attempts,   \* deployPanel calls, each with the row it inserts
          Scripts,    \* worker names a tenant may choose
          Nodes,      \* Omni nodes, named by their random suffix
          VipTries    \* createOmniNode: five attempts to seed the VIP user

ASSUME CloudAssumption == VipTries \in Nat /\ "nobody" \notin Attempts

VARIABLES panel,      \* panel_deployments, and the invocation that works on it
          account,    \* worker scripts by name: the attempt and its KV bindings
          stores,     \* names whose KV namespace or D1 database exists
          blurred,    \* history: attempts with a lost answer or a failed statement
          node        \* kaveh_nodes, the node on the account, its invocation
cloudVars == <<panel, account, stores, blurred, node>>

(* panel-catalog.ts: which storage a panel wants and under which names.     *)
KvNames(kind) ==
  CASE kind = "kv" -> {"kv"} [] kind = "twokv" -> {"KV", "kv"} [] OTHER -> {}
PanelKinds == {"kv", "twokv", "d1", "plain"}

NoScript == [by |-> "nobody", bound |-> {}]
NoNode == [row |-> FALSE, d1 |-> FALSE, worker |-> FALSE, at |-> "idle",
           vip |-> "none", told |-> FALSE, tries |-> 0, admin |-> "unset", leaving |-> FALSE]

CloudTypeOK ==
  /\ panel \in [Attempts -> [status : {"none", "provisioning", "live", "verifying", "failed", "deleted"},
                             script : Scripts \union {"none"}, kind : PanelKinds \union {"none"},
                             at : {"idle", "store", "source", "upload", "repair", "patch", "finish", "fail"},
                             read : SUBSET {"KV", "kv"}]]
  /\ account \in [Scripts -> [by : Attempts \union {"nobody"}, bound : SUBSET {"KV", "kv"}]]
  /\ stores \subseteq Scripts /\ blurred \subseteq Attempts
  /\ node \in [Nodes -> [row : BOOLEAN, d1 : BOOLEAN, worker : BOOLEAN,
                         at : {"idle", "d1", "upload", "insert", "seed", "dropWorker", "dropD1", "dropRow"},
                         vip : {"none", "made"}, told : BOOLEAN, tries : 0 .. VipTries,
                         admin : {"unset", "known", "unknown"}, leaving : BOOLEAN]]

CloudInit ==
  /\ panel = [a \in Attempts |-> [status |-> "none", script |-> "none", kind |-> "none", at |-> "idle", read |-> {}]]
  /\ account = [s \in Scripts |-> NoScript]
  /\ stores = {} /\ blurred = {}
  /\ node = [n \in Nodes |-> NoNode]

-----------------------------------------------------------------------------
(* deployPanel *)

ScriptOf(a) == panel[a].script
Step(a, s) == panel' = [panel EXCEPT ![a].at = s]
Blur(a) == blurred' = blurred \union {a}

(* Connection, account, name and workers.dev subdomain are settled before   *)
(* the row exists: a failure up to here leaves no trace.                    *)
Begin(a, s, k) ==
  /\ panel[a].status = "none"
  /\ panel' = [panel EXCEPT ![a] = [status |-> "provisioning", script |-> s, kind |-> k, at |-> "store", read |-> {}]]
  /\ UNCHANGED <<account, stores, blurred, node>>

(* ensureKvNamespace, ensureD1Database: create, and if that answers with an *)
(* error look for one of the same title; so a lost answer and a leftover of *)
(* an earlier attempt are both taken over.                                  *)
EnsureStore(a) ==
  /\ panel[a].at = "store"
  /\ IF panel[a].kind = "plain" THEN Step(a, "source") /\ UNCHANGED stores
     ELSE \/ Step(a, "source") /\ stores' = stores \union {ScriptOf(a)}
          \/ Step(a, "fail") /\ stores' \in {stores, stores \union {ScriptOf(a)}}
  /\ UNCHANGED <<account, blurred, node>>

(* resolvePanelSource downloads, or takes the repository's own data plane;  *)
(* whether seedKvValue worked is not asked.                                 *)
ResolveSource(a) ==
  /\ panel[a].at = "source"
  /\ Step(a, "upload") \/ Step(a, "fail")
  /\ UNCHANGED <<account, stores, blurred, node>>

(* uploadPanelScript replaces the script of that name, whoever put it there *)
(* before; Cloudflare may leave out a KV binding.                           *)
Uploaded(a) ==
  \E kept \in SUBSET KvNames(panel[a].kind) :
    account' = [account EXCEPT ![ScriptOf(a)] = [by |-> a, bound |-> kept]]

\* Mutant: response.ok and the success flag of the answer are not looked at.
UploadUnchecked(a) ==
  /\ panel[a].at = "upload"
  /\ Step(a, "repair")
  /\ UNCHANGED <<blurred, stores, node>>
  /\ Uploaded(a) \/ UNCHANGED account

Upload(a) ==
  /\ panel[a].at = "upload"
  /\ \/ Uploaded(a) /\ Step(a, "repair") /\ UNCHANGED blurred
     \/ Uploaded(a) /\ Step(a, "fail") /\ Blur(a)
     \/ Step(a, "fail") /\ UNCHANGED <<account, blurred>>
  /\ UNCHANGED <<stores, node>>

(* enableWorkerSubdomain, which may fail, and repairKvBindings: the PATCH   *)
(* sends the bindings that are not the panel's KV names, and the ones that  *)
(* the GET found missing.  A GET or PATCH that fails is let pass.           *)
RepairedBindings(bound, names) == (bound \ names) \union (names \ bound)

ReadSettings(a) ==
  LET s == ScriptOf(a) IN
  /\ panel[a].at = "repair"
  /\ \/ Step(a, "finish")
     \/ /\ KvNames(panel[a].kind) \ account[s].bound # {}
        /\ panel' = [panel EXCEPT ![a].at = "patch", ![a].read = account[s].bound]
  /\ UNCHANGED <<account, stores, blurred, node>>

PatchSettings(a) ==
  LET s == ScriptOf(a) IN
  /\ panel[a].at = "patch"
  /\ Step(a, "finish")
  /\ \/ UNCHANGED account
     \/ account' = [account EXCEPT ![s].bound = RepairedBindings(panel[a].read, KvNames(panel[a].kind))]
  /\ UNCHANGED <<stores, blurred, node>>

(* probePanel decides between live and verifying.  A D1 statement that      *)
(* throws here (the UPDATE or the audit row) enters the catch block.        *)
Finish(a) ==
  /\ panel[a].at = "finish"
  /\ \/ /\ panel' = [panel EXCEPT ![a].at = "idle", ![a].status = "live"]
        /\ UNCHANGED blurred
     \/ /\ panel' = [panel EXCEPT ![a].at = "idle", ![a].status = "verifying"]
        /\ UNCHANGED blurred
     \/ Step(a, "fail") /\ Blur(a)
  /\ UNCHANGED <<account, stores, node>>

(* The catch block: everything made so far stays on the account.            *)
Fail(a) ==
  /\ panel[a].at = "fail"
  /\ panel' = [panel EXCEPT ![a].at = "idle", ![a].status = "failed"]
  /\ UNCHANGED <<account, stores, blurred, node>>

(* Record-only delete: only a row that failed.                              *)
DeleteRecord(a) ==
  /\ panel[a].status = "failed"
  /\ panel' = [panel EXCEPT ![a].status = "deleted"]
  /\ UNCHANGED <<account, stores, blurred, node>>

PanelKilled(a) ==
  /\ panel[a].at # "idle"
  /\ Step(a, "idle")
  /\ UNCHANGED <<account, stores, blurred, node>>

-----------------------------------------------------------------------------
(* Omni nodes *)

NodeStep(n, s) == node' = [node EXCEPT ![n].at = s]

BeginNode(n) ==
  /\ node[n] = NoNode
  /\ NodeStep(n, "d1")
  /\ UNCHANGED <<panel, account, stores, blurred>>

(* findOrCreateD1: a fresh suffix, so the list finds nothing and one is     *)
(* made.  Any error of provisionOmniNode leaves createOmniNode at once.     *)
CreateD1(n) ==
  /\ node[n].at = "d1"
  /\ \/ node' = [node EXCEPT ![n].d1 = TRUE, ![n].at = "upload"]
     \/ \E made \in BOOLEAN : node' = [node EXCEPT ![n].d1 = made, ![n].at = "idle", ![n].leaving = TRUE]
  /\ UNCHANGED <<panel, account, stores, blurred>>

UploadNode(n) ==
  /\ node[n].at = "upload"
  /\ \/ node' = [node EXCEPT ![n].worker = TRUE, ![n].at = "insert"]
     \/ \E made \in BOOLEAN : node' = [node EXCEPT ![n].worker = made, ![n].at = "idle", ![n].leaving = TRUE]
  /\ UNCHANGED <<panel, account, stores, blurred>>

(* The row, and then the audit row, whose failure ends the flow too.        *)
InsertNode(n) ==
  /\ node[n].at = "insert"
  /\ \/ node' = [node EXCEPT ![n].row = TRUE, ![n].at = "seed"]
     \/ \E wrote \in BOOLEAN : node' = [node EXCEPT ![n].row = wrote, ![n].at = "idle", ![n].leaving = ~wrote]
  /\ UNCHANGED <<panel, account, stores, blurred>>

(* The agent channel: a second POST of the name vip is refused, also when   *)
(* it was this invocation's own first one that made the user.               *)
SeedVip(n) ==
  /\ node[n].at = "seed" /\ node[n].tries < VipTries /\ ~node[n].told
  /\ \E got \in {"unreachable", "answer", "lost", "refused"} :
       /\ got \in {"answer", "lost"} => node[n].vip = "none" /\ node[n].worker
       /\ got = "refused" => node[n].vip = "made"
       /\ node' = [node EXCEPT ![n].tries = node[n].tries + 1,
                               ![n].vip = IF got \in {"answer", "lost"} THEN "made" ELSE node[n].vip,
                               ![n].told = (got = "answer")]
  /\ UNCHANGED <<panel, account, stores, blurred>>

SeedDone(n) ==
  /\ node[n].at = "seed" /\ (node[n].told \/ node[n].tries = VipTries)
  /\ NodeStep(n, "idle")
  /\ UNCHANGED <<panel, account, stores, blurred>>

(* omniIssueLoginToken rotates the admin password of the node, omniRecover  *)
(* wipes it; the owner knows the password only from the answer.             *)
IssueLoginToken(n) ==
  /\ node[n].row /\ node[n].worker
  /\ \E told \in BOOLEAN : node' = [node EXCEPT ![n].admin = IF told THEN "known" ELSE "unknown"]
  /\ UNCHANGED <<panel, account, stores, blurred>>

Recover(n) ==
  /\ node[n].row /\ node[n].worker
  /\ node' = [node EXCEPT ![n].admin = "unset"]
  /\ UNCHANGED <<panel, account, stores, blurred>>

(* deleteOmniNodeFlow: both deletes are best effort, then the row goes.     *)
BeginDelete(n) ==
  /\ node[n].row /\ node[n].at = "idle"
  /\ node' = [node EXCEPT ![n].at = "dropWorker", ![n].leaving = TRUE]
  /\ UNCHANGED <<panel, account, stores, blurred>>

DropWorker(n) ==
  /\ node[n].at = "dropWorker"
  /\ \E left \in {FALSE, node[n].worker} : node' = [node EXCEPT ![n].worker = left, ![n].at = "dropD1"]
  /\ UNCHANGED <<panel, account, stores, blurred>>

DropD1(n) ==
  /\ node[n].at = "dropD1"
  /\ \E left \in {FALSE, node[n].d1} : node' = [node EXCEPT ![n].d1 = left, ![n].at = "dropRow"]
  /\ UNCHANGED <<panel, account, stores, blurred>>

DropRow(n) ==
  /\ node[n].at = "dropRow"
  /\ node' = [node EXCEPT ![n].row = FALSE, ![n].at = "idle"]
  /\ UNCHANGED <<panel, account, stores, blurred>>

NodeKilled(n) ==
  /\ node[n].at # "idle"
  /\ node' = [node EXCEPT ![n].at = "idle", ![n].leaving = node[n].leaving \/ ~node[n].row]
  /\ UNCHANGED <<panel, account, stores, blurred>>

PanelNext ==
  \E a \in Attempts :
    \/ \E s \in Scripts, k \in PanelKinds : Begin(a, s, k)
    \/ EnsureStore(a) \/ ResolveSource(a) \/ Upload(a) \/ ReadSettings(a) \/ PatchSettings(a)
    \/ Finish(a) \/ Fail(a) \/ DeleteRecord(a) \/ PanelKilled(a)

NodeNext ==
  \E n \in Nodes :
    \/ BeginNode(n) \/ CreateD1(n) \/ UploadNode(n) \/ InsertNode(n) \/ SeedVip(n) \/ SeedDone(n)
    \/ IssueLoginToken(n) \/ Recover(n)
    \/ BeginDelete(n) \/ DropWorker(n) \/ DropD1(n) \/ DropRow(n) \/ NodeKilled(n)

CloudNext == PanelNext \/ NodeNext
CloudSpec == CloudInit /\ [][CloudNext]_cloudVars

-----------------------------------------------------------------------------
(* The list of panels tells the truth about what is running, as far as it   *)
(* can: a row that is live or being verified has a script under its name;   *)
(* and a failed attempt left none, if nobody else used the name and no      *)
(* answer or statement of the attempt itself was lost.  A node's row, until *)
(* its deletion begins, stands for a worker with its database.              *)
Alone(a) == \A b \in Attempts \ {a} : ScriptOf(b) # ScriptOf(a)
ListTellsTruth ==
  /\ \A a \in Attempts :
       /\ panel[a].status \in {"live", "verifying"} => account[ScriptOf(a)] # NoScript
       /\ panel[a].status \in {"failed", "deleted"} /\ Alone(a) /\ a \notin blurred
            => account[ScriptOf(a)] = NoScript
  /\ \A n \in Nodes : node[n].row /\ ~node[n].leaving => node[n].worker /\ node[n].d1

(* repairKvBindings, "if the upload dropped one, PATCH it back": a repair   *)
(* never takes a binding away.                                              *)
RepairKeepsBindings ==
  [][\A s \in Scripts : account'[s].by = account[s].by => account[s].bound \subseteq account'[s].bound]_cloudVars
=============================================================================
