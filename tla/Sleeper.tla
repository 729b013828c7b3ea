------------------------------- MODULE Sleeper -------------------------------
(***************************************************************************)
(* The command channel of a sleeper deployment: commands queued in D1,     *)
(* published in a TXT record of the tenant's zone, and read by the node in *)
(* its daily window (src/sleeper.ts and the script v13-sleeper.py of       *)
(* src/agent.ts).  The requests of the API interleave at every statement   *)
(* and call; commands are numbered in the order of queued_at.  Rebinding   *)
(* the connection is modelled in Deployments.                              *)
(***************************************************************************)
EXTENDS Naturals, Sequences, FiniteSets

CONSTANTS Posts,         \* requests that can run at once
          MaxCommands    \* bound: commands queued

ASSUME SleeperAssumption == MaxCommands \in Nat

VARIABLES role,          \* deployments.role
          commands,      \* sleeper_commands: order and whether it is consumed
          beacon,        \* the TXT records of the beacon's name, first one first
          post,          \* the requests
          published,     \* history: commands that were in a record
          passed,        \* history: commands queued while another request was publishing
          obeyed         \* the command the node took last
sleeperVars == <<role, commands, beacon, post, published, passed, obeyed>>

Orders == {"report-now", "wake"}
CommandId == 1 .. MaxCommands
NoPost == [at |-> "idle", order |-> "none", pending |-> 0, exists |-> FALSE]

SleeperTypeOK ==
  /\ role \in {"standard", "sleeper"}
  /\ commands \in Seq([order : Orders, consumed : BOOLEAN]) /\ Len(commands) <= MaxCommands
  /\ beacon \in Seq(Orders \union {"none"})
  /\ post \in [Posts -> [at : {"idle", "insert", "select", "find", "write", "consume"},
                        order : Orders \union {"none"}, pending : 0 .. MaxCommands, exists : BOOLEAN]]
  /\ published \subseteq CommandId /\ passed \subseteq CommandId
  /\ obeyed \in Orders \union {"none"}

SleeperInit ==
  /\ role = "standard" /\ commands = <<>> /\ beacon = <<>>
  /\ post = [p \in Posts |-> NoPost]
  /\ published = {} /\ passed = {} /\ obeyed = "none"

PostAt(p, s) == post[p].at = s
PostGoes(p, s) == post' = [post EXCEPT ![p].at = s]
PostEnds(p) == post' = [post EXCEPT ![p] = NoPost]

-----------------------------------------------------------------------------
(* sleeper mode without consent is refused; standard asks for none.         *)
SetDeploymentRole(to, consent) ==
  /\ to = "sleeper" => consent
  /\ role' = to
  /\ UNCHANGED <<commands, beacon, post, published, passed, obeyed>>

(* queueSleeperCommand: the role is tested on the row as it was loaded.     *)
QueueCommand(p, order) ==
  /\ PostAt(p, "idle") /\ role = "sleeper"
  /\ Len(commands) + Cardinality({q \in Posts : PostAt(q, "insert")}) < MaxCommands
  /\ post' = [post EXCEPT ![p] = [NoPost EXCEPT !.at = "insert", !.order = order]]
  /\ UNCHANGED <<role, commands, beacon, published, passed, obeyed>>

InsertCommand(p) ==
  /\ PostAt(p, "insert")
  /\ commands' = Append(commands, [order |-> post[p].order, consumed |-> FALSE])
  /\ passed' = IF \E q \in Posts : post[q].at \in {"find", "write", "consume"} /\ post[q].pending # 0
                 THEN passed \union {Len(commands) + 1} ELSE passed
  /\ PostGoes(p, "select")
  /\ UNCHANGED <<role, beacon, published, obeyed>>

(* POST .../beacon: publishSleeperBeacon alone, in any role.                *)
RefreshBeacon(p) ==
  /\ PostAt(p, "idle")
  /\ PostGoes(p, "select")
  /\ UNCHANGED <<role, commands, beacon, published, passed, obeyed>>

(* pendingSleeperCommand: the newest one that is not consumed, 0 if none.   *)
Waiting == {i \in 1 .. Len(commands) : ~commands[i].consumed}
Newest == IF Waiting = {} THEN 0 ELSE CHOOSE i \in Waiting : \A j \in Waiting : j <= i
SelectPending(p) ==
  /\ PostAt(p, "select")
  /\ post' = [post EXCEPT ![p].at = "find", ![p].pending = Newest]
  /\ UNCHANGED <<role, commands, beacon, published, passed, obeyed>>

(* upsertTxtRecord looks for the record ...                                 *)
FindRecord(p) ==
  /\ PostAt(p, "find")
  /\ post' = [post EXCEPT ![p].at = "write", ![p].exists = beacon # <<>>]
  /\ UNCHANGED <<role, commands, beacon, published, passed, obeyed>>

(* ... and replaces the first one or creates another.                       *)
Content(i) == IF i = 0 THEN "none" ELSE commands[i].order
Upserted(p) ==
  IF post[p].exists THEN [beacon EXCEPT ![1] = Content(post[p].pending)]
                    ELSE Append(beacon, Content(post[p].pending))
WriteDone(p) ==
  /\ beacon' = Upserted(p)
  /\ published' = published \union ({post[p].pending} \ {0})

\* Mutant: a refused write is not noticed, and the commands are consumed.
WriteUnchecked(p) ==
  /\ PostAt(p, "write")
  /\ \/ WriteDone(p)
     \/ UNCHANGED <<beacon, published>>
  /\ IF post[p].pending # 0 THEN PostGoes(p, "consume") ELSE PostEnds(p)
  /\ UNCHANGED <<role, commands, passed, obeyed>>

(* Cloudflare writes, refuses, or writes and the answer is lost: in the     *)
(* last two cases the request fails and consumes nothing.                   *)
PublishRecord(p) ==
  /\ PostAt(p, "write")
  /\ \/ WriteDone(p) /\ IF post[p].pending # 0 THEN PostGoes(p, "consume") ELSE PostEnds(p)
     \/ UNCHANGED <<beacon, published>> /\ PostEnds(p)
     \/ WriteDone(p) /\ PostEnds(p)
  /\ UNCHANGED <<role, commands, passed, obeyed>>

(* UPDATE ... WHERE consumed_at IS NULL: every waiting command, not only    *)
(* the one that was published.                                              *)
ConsumeCommands(p) ==
  /\ PostAt(p, "consume")
  /\ commands' = [i \in DOMAIN commands |-> [commands[i] EXCEPT !.consumed = TRUE]]
  /\ PostEnds(p)
  /\ UNCHANGED <<role, beacon, published, passed, obeyed>>

(* The invocation is killed, the connection is gone or bound to another     *)
(* zone, or a statement throws.                                             *)
PostFails(p) ==
  /\ ~PostAt(p, "idle")
  /\ PostEnds(p)
  /\ UNCHANGED <<role, commands, beacon, published, passed, obeyed>>

-----------------------------------------------------------------------------
(* v13-sleeper.py in its window: the text behind the mark "v13b1" is split  *)
(* into start, end and command, and the command is taken from the fourth    *)
(* field.                                                                   *)
Fields(text) == <<"start", "end", text>>
Parsed(text) == IF Len(Fields(text)) > 3 THEN Fields(text)[4] ELSE "none"
WakeUp ==
  /\ obeyed' \in {"none"} \union {Parsed(beacon[i]) : i \in DOMAIN beacon}
  /\ UNCHANGED <<role, commands, beacon, post, published, passed>>

SleeperNext ==
  \/ \E to \in {"standard", "sleeper"}, consent \in BOOLEAN : SetDeploymentRole(to, consent)
  \/ \E p \in Posts : \/ \E order \in Orders : QueueCommand(p, order)
                      \/ InsertCommand(p) \/ RefreshBeacon(p) \/ SelectPending(p) \/ FindRecord(p)
                      \/ PublishRecord(p) \/ ConsumeCommands(p) \/ PostFails(p)
  \/ WakeUp

SleeperSpec == SleeperInit /\ [][SleeperNext]_sleeperVars

-----------------------------------------------------------------------------
(* A command leaves the queue only for the record: a consumed command was   *)
(* published, or a newer one was in its place, or it was queued while       *)
(* another request was between reading the queue and consuming it.          *)
(* Refused and lost writes leave every command waiting.                     *)
ConsumedWasPublished ==
  \A i \in DOMAIN commands : commands[i].consumed /\ i \notin passed
    => \E j \in published : j >= i

(* What does not hold.  "A live agent can still receive commands"           *)
(* (sleeper.ts 17-18): a node that wakes up may take the command that is in *)
(* its record.                                                              *)
BeaconObeyed == \A i \in DOMAIN beacon : Parsed(beacon[i]) = beacon[i]

(* The newest command, once consumed, is in a record for the node to read.  *)
ConsumedIsReadable ==
  \A i \in DOMAIN commands : commands[i].consumed /\ i = Len(commands)
    => \E j \in DOMAIN beacon : beacon[j] = commands[i].order
=============================================================================
