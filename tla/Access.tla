------------------------------- MODULE Access --------------------------------
(***************************************************************************)
(* How a tenant gets in: the one-time links of the bot, the sessions they  *)
(* open, and the three ways of handing over a Cloudflare API token (the    *)
(* /connect form behind a link, the panel's own API behind a session, the  *)
(* chat).  A request is a Worker invocation whose D1 statements interleave *)
(* with those of every other request: link and row read at one statement   *)
(* may have changed at the next.  One tenant; an expiry is an event.       *)
(***************************************************************************)
EXTENDS Naturals, FiniteSets

CONSTANTS Reqs,      \* the requests of a behaviour, each used once
          Links,     \* the rows login_links can get
          ConnLimit  \* api-token.ts: three temporary connections

ASSUME AccessAssumption == ConnLimit \in Nat \ {0} /\ IsFiniteSet(Reqs)

VARIABLES link,      \* login_links: none, open, expired, used
          session,   \* sessions by the request that made it: none, open, gone
          opened,    \* history: how many sessions each link opened
          conns,     \* live rows of oauth_connections with auth_type api_token
          req,       \* what each request is about and where it stands
          overlap    \* history: the most requests ever between COUNT and INSERT, or 1
accessVars == <<link, session, opened, conns, req, overlap>>

ReqKinds == {"login", "form", "api", "chat"}
Steps == {"idle", "peeked", "marked", "verify", "counted", "inserted", "done"}
NoLink == "nolink"

AccessTypeOK ==
  /\ link \in [Links -> {"none", "open", "expired", "used"}]
  /\ session \in [Reqs -> {"none", "open", "gone"}]
  /\ opened \in [Links -> Nat]
  /\ conns \in Nat /\ overlap \in Nat
  /\ req \in [Reqs -> [kind : ReqKinds \union {"none"}, link : Links \union {NoLink}, at : Steps]]

Counted == {r \in Reqs : req[r].at = "counted"}
At(r, k, s) == req[r].at = s /\ req[r].kind \in k
Goto(r, s) == req' = [req EXCEPT ![r].at = s]
Becomes(r, k, l, s) == req' = [req EXCEPT ![r] = [kind |-> k, link |-> l, at |-> s]]

AccessInit ==
  /\ link = [l \in Links |-> "none"]
  /\ session = [r \in Reqs |-> "none"]
  /\ opened = [l \in Links |-> 0]
  /\ conns = 0 /\ overlap = 1
  /\ req = [r \in Reqs |-> [kind |-> "none", link |-> NoLink, at |-> "idle"]]

(* issueLoginLink, issueConnectLink, and each half of issueLoginPair.       *)
IssueLink(l) ==
  /\ link[l] = "none"
  /\ link' = [link EXCEPT ![l] = "open"]
  /\ UNCHANGED <<session, opened, conns, req, overlap>>

ExpireLink(l) ==
  /\ link[l] = "open"
  /\ link' = [link EXCEPT ![l] = "expired"]
  /\ UNCHANGED <<session, opened, conns, req, overlap>>

(* The SELECT of loginFromOneTimeLink: a consumed or expired row is refused *)
(* here, and only here: the UPDATE that follows does not ask for the date.  *)
LoginPeek(r, l) ==
  /\ At(r, {"none"}, "idle")
  /\ Becomes(r, "login", l, IF link[l] = "open" THEN "peeked" ELSE "done")
  /\ UNCHANGED <<link, session, opened, conns, overlap>>

(* UPDATE login_links ... WHERE consumed_at IS NULL, and its changes count. *)
\* Mutant: the UPDATE without AND consumed_at IS NULL.
ConsumedAnyway(l) == TRUE
Unconsumed(l) == link[l] \in {"open", "expired"}
LoginConsume(r) ==
  LET l == req[r].link IN
  /\ At(r, {"login"}, "peeked")
  /\ IF Unconsumed(l)
       THEN link' = [link EXCEPT ![l] = "used"] /\ Goto(r, "marked")
       ELSE link' = link /\ Goto(r, "done")
  /\ UNCHANGED <<session, opened, conns, overlap>>

OpenSession(r) ==
  /\ At(r, {"login"}, "marked")
  /\ session' = [session EXCEPT ![r] = "open"]
  /\ opened' = [opened EXCEPT ![req[r].link] = opened[req[r].link] + 1]
  /\ Goto(r, "done")
  /\ UNCHANGED <<link, conns, overlap>>

(* logout deletes the row; an expired row is refused by requireSession.     *)
EndSession(r) ==
  /\ session[r] = "open"
  /\ session' = [session EXCEPT ![r] = "gone"]
  /\ UNCHANGED <<link, opened, conns, req, overlap>>

(* peekLoginLink: neither used nor expired.                                 *)
Peeked(l) == link[l] = "open"

(* dnsConnectPost peeks at the link and leaves it open until the end.       *)
FormPeek(r, l) ==
  /\ At(r, {"none"}, "idle")
  /\ Becomes(r, "form", l, IF Peeked(l) THEN "verify" ELSE "done")
  /\ UNCHANGED <<link, session, opened, conns, overlap>>

(* authenticated, then createTemporaryApiTokenConnection.                   *)
ApiConnect(r, s) ==
  /\ At(r, {"none"}, "idle") /\ session[s] # "none"
  /\ Becomes(r, "api", NoLink, IF session[s] = "open" THEN "verify" ELSE "done")
  /\ UNCHANGED <<link, session, opened, conns, overlap>>

(* connectPanelTokenFromChat: the tenant is the one that wrote the message. *)
ChatConnect(r) ==
  /\ At(r, {"none"}, "idle")
  /\ Becomes(r, "chat", NoLink, "verify")
  /\ UNCHANGED <<link, session, opened, conns, overlap>>

(* Cloudflare refuses the token or its scope, or the rate limit is reached. *)
TokenRefused(r) ==
  /\ At(r, ReqKinds, "verify")
  /\ Goto(r, "done")
  /\ UNCHANGED <<link, session, opened, conns, overlap>>

(* The SELECT that counts: the limit is tested on what this statement saw.  *)
\* Mutant: the comparison lets the limit itself pass.
AtLimit == conns <= ConnLimit
BelowLimit == conns < ConnLimit
CountConnections(r) ==
  LET now == Cardinality(Counted) + 1 IN
  /\ At(r, ReqKinds, "verify")
  /\ IF BelowLimit
       THEN Goto(r, "counted") /\ overlap' = IF now > overlap THEN now ELSE overlap
       ELSE Goto(r, "done") /\ UNCHANGED overlap
  /\ UNCHANGED <<link, session, opened, conns>>

InsertConnection(r) ==
  /\ At(r, ReqKinds, "counted")
  /\ conns' = conns + 1
  /\ Goto(r, IF req[r].kind = "form" THEN "inserted" ELSE "done")
  /\ UNCHANGED <<link, session, opened, overlap>>

(* consumeLoginLink at the end of the form: its answer is not looked at.    *)
FormConsume(r) ==
  LET l == req[r].link IN
  /\ At(r, {"form"}, "inserted")
  /\ link' = [link EXCEPT ![l] = IF Unconsumed(l) THEN "used" ELSE link[l]]
  /\ Goto(r, "done")
  /\ UNCHANGED <<session, opened, conns, overlap>>

(* A connection is disconnected, revoked or erased at its expiry.           *)
ConnectionEnds ==
  /\ conns > 0
  /\ conns' = conns - 1
  /\ UNCHANGED <<link, session, opened, req, overlap>>

(* The invocation ends where it stands: killed, or a statement threw.       *)
Killed(r) ==
  /\ req[r].at \notin {"idle", "done"}
  /\ Goto(r, "done")
  /\ UNCHANGED <<link, session, opened, conns, overlap>>

AccessNext ==
  \/ \E l \in Links : IssueLink(l) \/ ExpireLink(l)
  \/ \E r \in Reqs : \/ \E l \in Links : LoginPeek(r, l) \/ FormPeek(r, l)
                     \/ \E s \in Reqs : ApiConnect(r, s)
                     \/ LoginConsume(r) \/ OpenSession(r) \/ EndSession(r)
                     \/ ChatConnect(r) \/ TokenRefused(r) \/ CountConnections(r)
                     \/ InsertConnection(r) \/ FormConsume(r) \/ Killed(r)
  \/ ConnectionEnds

AccessSpec == AccessInit /\ [][AccessNext]_accessVars

-----------------------------------------------------------------------------
(* A login link is a single-use token: whatever the requests do, and        *)
(* although the form and the login consume the same rows, it is consumed    *)
(* once and opens at most one session, and only the request whose UPDATE    *)
(* changed the row opens it.                                                *)
UsedLinks == {l \in Links : link[l] = "used"}
LinkOnce == INSTANCE OneTime WITH Tokens <- Links, marked <- UsedLinks, grants <- opened
LinkOpensOnce == LinkOnce!OnceSpec

(* The COUNT and the INSERT are two statements, so the limit of connections *)
(* is overrun by requests that overlap, and by no more than that: a tenant  *)
(* has at most ConnLimit connections plus one for every further request     *)
(* that was ever between the two statements at the same time.               *)
OverrunByOverlap == conns + Cardinality(Counted) <= ConnLimit - 1 + overlap

=============================================================================
