---------------------------- MODULE OneTimeProofs ----------------------------
(***************************************************************************)
(* Proofs that the login links of Access and the update_ids of Gate are    *)
(* single-use tokens (OneTime), for any number of requests, links, updates *)
(* and invocations, and that the connection limit of Access is overrun by  *)
(* no more than the requests that overlap.                                 *)
(***************************************************************************)
EXTENDS Access, Gate, FiniteSetTheorems, TLAPS

-----------------------------------------------------------------------------
(* Access: a link is consumed by one compare-and-set.                       *)

Marked(r) == At(r, {"login"}, "marked")

(* A request that consumed its link and has not opened its session yet is   *)
(* the only one on that link, and the link is used and has opened nothing.  *)
LinkInv ==
  /\ \A r \in Reqs : req[r].kind \in {"login", "form"} => req[r].link \in Links
  /\ \A l \in Links : link[l] # "used" => opened[l] = 0
  /\ \A r \in Reqs : Marked(r) => link[req[r].link] = "used" /\ opened[req[r].link] = 0
  /\ \A r, s \in Reqs : Marked(r) /\ Marked(s) /\ req[r].link = req[s].link => r = s

\* The requests' statements keep the types of Access.
LEMMA AccessTypeStep == AccessTypeOK /\ [AccessNext]_accessVars => AccessTypeOK'
<1> SUFFICES ASSUME AccessTypeOK, [AccessNext]_accessVars PROVE AccessTypeOK'
  OBVIOUS
<1> USE DEF AccessTypeOK, ReqKinds, Steps, At, Goto, Becomes
<1>1. ASSUME NEW l \in Links, IssueLink(l) \/ ExpireLink(l) PROVE AccessTypeOK'
  BY <1>1 DEF IssueLink, ExpireLink
<1>2. ASSUME NEW r \in Reqs, NEW l \in Links, LoginPeek(r, l) \/ FormPeek(r, l) PROVE AccessTypeOK'
  BY <1>2 DEF LoginPeek, FormPeek
<1>3. ASSUME NEW r \in Reqs, NEW s \in Reqs, ApiConnect(r, s) PROVE AccessTypeOK'
  BY <1>3 DEF ApiConnect
<1>4. ASSUME NEW r \in Reqs, LoginConsume(r) PROVE AccessTypeOK'
  BY <1>4 DEF LoginConsume
<1>5. ASSUME NEW r \in Reqs, OpenSession(r) PROVE AccessTypeOK'
  <2>1. opened' \in [Links -> Nat]
    <3>1. CASE req[r].link \in Links
      BY <1>5, <3>1 DEF OpenSession
    <3>2. CASE req[r].link \notin Links
      BY <1>5, <3>2 DEF OpenSession
    <3> QED BY <3>1, <3>2
  <2> QED BY <1>5, <2>1 DEF OpenSession
<1>6. ASSUME NEW r \in Reqs, EndSession(r) \/ ChatConnect(r) \/ TokenRefused(r) \/ InsertConnection(r)
                             \/ Killed(r)
      PROVE AccessTypeOK'
  BY <1>6 DEF EndSession, ChatConnect, TokenRefused, InsertConnection, Killed
<1>7. ASSUME NEW r \in Reqs, CountConnections(r) PROVE AccessTypeOK'
  <2>1. Counted \subseteq Reqs /\ Cardinality(Counted) \in Nat
    BY AccessAssumption, FS_Subset, FS_CardinalityType DEF Counted
  <2> QED BY <1>7, <2>1 DEF CountConnections
<1>8. ASSUME NEW r \in Reqs, FormConsume(r) PROVE AccessTypeOK'
  BY <1>8 DEF FormConsume, Unconsumed
<1>9. CASE ConnectionEnds
  BY <1>9 DEF ConnectionEnds
<1>10. CASE UNCHANGED accessVars
  BY <1>10 DEF accessVars
<1> QED BY <1>1, <1>2, <1>3, <1>4, <1>5, <1>6, <1>7, <1>8, <1>9, <1>10 DEF AccessNext

\* Every variable of Access keeps its type, whatever the requests do.
THEOREM AccessTypeCorrect == AccessSpec => []AccessTypeOK
<1>1. AccessInit => AccessTypeOK
  BY DEF AccessInit, AccessTypeOK, Steps
<1> QED BY <1>1, AccessTypeStep, PTL DEF AccessSpec

\* The initial rows satisfy the invariant: there are no links and no requests.
LEMMA LinkInit == AccessInit => LinkInv
BY DEF AccessInit, LinkInv, Marked, At

\* A request that changes neither links nor counters and marks nothing keeps
\* the invariant, as long as the links it refers to exist.
LEMMA LinkQuiet ==
  ASSUME AccessTypeOK, LinkInv, NEW r \in Reqs, NEW v,
         req' = [req EXCEPT ![r] = v], link' = link, opened' = opened,
         v.at # "marked", v.kind \in {"login", "form"} => v.link \in Links
  PROVE  LinkInv'
<1>1. \A s \in Reqs : req'[s] = IF s = r THEN v ELSE req[s]
  BY DEF AccessTypeOK
<1>2. \A s \in Reqs : Marked(s)' => Marked(s) /\ req'[s] = req[s]
  BY <1>1 DEF Marked, At
<1> QED BY <1>1, <1>2 DEF LinkInv

\* The same for a request that only goes on to another step.
LEMMA Moved ==
  ASSUME AccessTypeOK, LinkInv, NEW r \in Reqs, NEW s \in Steps \ {"marked"},
         req' = [req EXCEPT ![r] = [req[r] EXCEPT !.at = s]], link' = link, opened' = opened
  PROVE  LinkInv'
<1> DEFINE v == [req[r] EXCEPT !.at = s]
<1>1. v.at = s /\ v.kind = req[r].kind /\ v.link = req[r].link
  BY DEF AccessTypeOK
<1>2. v.kind \in {"login", "form"} => v.link \in Links
  BY <1>1 DEF LinkInv
<1>3. req' = [req EXCEPT ![r] = v]
  OBVIOUS
<1> HIDE DEF v
<1> QED BY <1>1, <1>2, <1>3, LinkQuiet

\* Every statement of a request keeps the invariant.
LEMMA LinkStep == AccessTypeOK /\ LinkInv /\ [AccessNext]_accessVars => LinkInv'
<1> SUFFICES ASSUME AccessTypeOK, LinkInv, [AccessNext]_accessVars PROVE LinkInv'
  OBVIOUS
<1>1. ASSUME NEW l \in Links, IssueLink(l) \/ ExpireLink(l) PROVE LinkInv'
  <2>1. /\ req' = req /\ opened' = opened /\ link[l] # "used"
        /\ \A k \in Links : link'[k] = link[k] \/ (k = l /\ link'[k] # "used")
    BY <1>1 DEF IssueLink, ExpireLink, AccessTypeOK
  <2> QED BY <2>1 DEF LinkInv, Marked, At
<1>2. ASSUME NEW r \in Reqs, NEW l \in Links, LoginPeek(r, l) \/ FormPeek(r, l) PROVE LinkInv'
  <2>1. PICK k \in {"login", "form"}, a \in {"peeked", "verify", "done"} : Becomes(r, k, l, a)
    BY <1>2 DEF LoginPeek, FormPeek
  <2> DEFINE v == [kind |-> k, link |-> l, at |-> a]
  <2>2. req' = [req EXCEPT ![r] = v] /\ link' = link /\ opened' = opened
    BY <1>2, <2>1 DEF LoginPeek, FormPeek, Becomes
  <2>3. v.at # "marked" /\ v.link \in Links
    OBVIOUS
  <2> HIDE DEF v
  <2> QED BY <2>2, <2>3, LinkQuiet
<1>3. ASSUME NEW r \in Reqs, (\E s \in Reqs : ApiConnect(r, s)) \/ ChatConnect(r) PROVE LinkInv'
  <2>1. PICK k \in {"api", "chat"}, a \in {"verify", "done"} : Becomes(r, k, NoLink, a)
    BY <1>3 DEF ApiConnect, ChatConnect
  <2> DEFINE v == [kind |-> k, link |-> NoLink, at |-> a]
  <2>2. req' = [req EXCEPT ![r] = v] /\ link' = link /\ opened' = opened
    BY <1>3, <2>1 DEF ApiConnect, ChatConnect, Becomes
  <2>3. v.at # "marked" /\ v.kind \notin {"login", "form"}
    OBVIOUS
  <2> HIDE DEF v
  <2> QED BY <2>2, <2>3, LinkQuiet
<1>4. ASSUME NEW r \in Reqs, LoginConsume(r) PROVE LinkInv'
  <2> DEFINE l == req[r].link
  <2>1. l \in Links /\ ~Marked(r)
    BY <1>4 DEF LoginConsume, At, LinkInv, Marked
  <2>2. CASE Unconsumed(l)
    <3>1. /\ opened' = opened /\ link[l] # "used" /\ opened[l] = 0
          /\ \A k \in Links : link'[k] = IF k = l THEN "used" ELSE link[k]
          /\ \A s \in Reqs : req'[s] = IF s = r THEN [req[r] EXCEPT !.at = "marked"] ELSE req[s]
      BY <1>4, <2>1, <2>2 DEF LoginConsume, Unconsumed, Goto, AccessTypeOK, LinkInv
    <3>2. \A s \in Reqs : Marked(s) => req[s].link \in Links /\ req[s].link # l
      BY <3>1 DEF LinkInv, Marked, At
    <3>3. \A s \in Reqs : /\ s # r => (Marked(s)' <=> Marked(s)) /\ req'[s] = req[s]
                          /\ req'[s].link = req[s].link /\ req'[s].kind = req[s].kind
      BY <3>1 DEF Marked, At, AccessTypeOK
    <3> QED BY <2>1, <3>1, <3>2, <3>3 DEF LinkInv
  <2>3. CASE ~Unconsumed(l)
    <3>1. link' = link /\ opened' = opened /\ req' = [req EXCEPT ![r] = [req[r] EXCEPT !.at = "done"]]
      BY <1>4, <2>3 DEF LoginConsume, Goto
    <3> QED BY <2>1, <3>1, Moved DEF Steps
  <2> QED BY <2>2, <2>3
<1>5. ASSUME NEW r \in Reqs, OpenSession(r) PROVE LinkInv'
  <2>1. /\ Marked(r) /\ link' = link /\ req[r].link \in Links /\ link[req[r].link] = "used"
        /\ \A k \in Links : opened'[k] = IF k = req[r].link THEN opened[k] + 1 ELSE opened[k]
        /\ \A s \in Reqs : req'[s] = IF s = r THEN [req[r] EXCEPT !.at = "done"] ELSE req[s]
    BY <1>5 DEF OpenSession, Goto, Marked, At, AccessTypeOK, LinkInv
  <2>2. \A s \in Reqs : /\ req'[s].link = req[s].link /\ req'[s].kind = req[s].kind
                        /\ Marked(s)' => Marked(s) /\ s # r /\ req[s].link # req[r].link
    BY <2>1 DEF Marked, At, AccessTypeOK, LinkInv
  <2>3. \A s \in Reqs : Marked(s) => req[s].link \in Links
    BY DEF Marked, At, LinkInv
  <2> QED BY <2>1, <2>2, <2>3 DEF LinkInv
<1>6. ASSUME NEW r \in Reqs, TokenRefused(r) \/ CountConnections(r) \/ InsertConnection(r) \/ Killed(r)
      PROVE LinkInv'
  <2>1. link' = link /\ opened' = opened
    BY <1>6 DEF TokenRefused, CountConnections, InsertConnection, Killed
  <2>2. PICK s \in {"counted", "inserted", "done"} : Goto(r, s)
    BY <1>6 DEF TokenRefused, CountConnections, InsertConnection, Killed
  <2>3. req' = [req EXCEPT ![r] = [req[r] EXCEPT !.at = s]]
    BY <2>2 DEF Goto
  <2> QED BY <2>1, <2>3, Moved DEF Steps
<1>7. ASSUME NEW r \in Reqs, FormConsume(r) PROVE LinkInv'
  <2>1. /\ opened' = opened /\ req[r].link \in Links /\ ~Marked(r)
        /\ \A k \in Links : link'[k] = link[k] \/ link'[k] = "used"
        /\ \A s \in Reqs : req'[s] = IF s = r THEN [req[r] EXCEPT !.at = "done"] ELSE req[s]
    BY <1>7 DEF FormConsume, Goto, Marked, At, AccessTypeOK, LinkInv
  <2>2. \A s \in Reqs : /\ req'[s].link = req[s].link /\ req'[s].kind = req[s].kind
                        /\ Marked(s)' => Marked(s)
    BY <2>1 DEF Marked, At, AccessTypeOK
  <2>3. \A s \in Reqs : Marked(s) => req[s].link \in Links
    BY DEF Marked, At, LinkInv
  <2> QED BY <2>1, <2>2, <2>3 DEF LinkInv
<1>8. CASE (\E r \in Reqs : EndSession(r)) \/ ConnectionEnds \/ UNCHANGED accessVars
  BY <1>8 DEF EndSession, ConnectionEnds, accessVars, LinkInv, Marked, At
<1> QED BY <1>1, <1>2, <1>3, <1>4, <1>5, <1>6, <1>7, <1>8 DEF AccessNext

\* Every step of Access marks a link, opens its session or leaves both alone.
LEMMA LinkRefines ==
  AccessTypeOK /\ LinkInv /\ [AccessNext]_accessVars => [LinkOnce!OnceNext]_(LinkOnce!onceVars)
<1> SUFFICES ASSUME AccessTypeOK, LinkInv, [AccessNext]_accessVars
             PROVE  [LinkOnce!OnceNext]_(LinkOnce!onceVars)
  OBVIOUS
<1> USE DEF LinkOnce!OnceNext, LinkOnce!onceVars, LinkOnce!Mark, LinkOnce!Grant
<1>1. ASSUME NEW r \in Reqs, NEW l \in Links, link[l] # "used", opened' = opened,
             link' = [link EXCEPT ![l] = "used"]
      PROVE  LinkOnce!Mark(l)
  <2>1. UsedLinks' = UsedLinks \union {l} /\ l \notin UsedLinks
    BY <1>1 DEF UsedLinks, AccessTypeOK
  <2> QED BY <1>1, <2>1
<1>2. ASSUME opened' = opened, \A l \in Links : link'[l] = "used" <=> link[l] = "used"
      PROVE  UNCHANGED LinkOnce!onceVars
  BY <1>2 DEF UsedLinks
<1>3. ASSUME NEW l \in Links, IssueLink(l) \/ ExpireLink(l) PROVE UNCHANGED LinkOnce!onceVars
  BY <1>2, <1>3 DEF IssueLink, ExpireLink, AccessTypeOK
<1>4. ASSUME NEW r \in Reqs, LoginConsume(r) PROVE [LinkOnce!OnceNext]_(LinkOnce!onceVars)
  <2>1. req[r].link \in Links
    BY <1>4 DEF LoginConsume, At, LinkInv
  <2>2. CASE Unconsumed(req[r].link)
    BY <1>1, <1>4, <2>1, <2>2 DEF LoginConsume, Unconsumed
  <2>3. CASE ~Unconsumed(req[r].link)
    BY <1>2, <1>4, <2>3 DEF LoginConsume
  <2> QED BY <2>2, <2>3
<1>5. ASSUME NEW r \in Reqs, FormConsume(r) PROVE [LinkOnce!OnceNext]_(LinkOnce!onceVars)
  <2>1. req[r].link \in Links
    BY <1>5 DEF FormConsume, At, LinkInv
  <2>2. CASE Unconsumed(req[r].link)
    BY <1>1, <1>5, <2>1, <2>2 DEF FormConsume, Unconsumed
  <2>3. CASE ~Unconsumed(req[r].link)
    BY <1>2, <1>5, <2>3 DEF FormConsume, AccessTypeOK
  <2> QED BY <2>2, <2>3
<1>6. ASSUME NEW r \in Reqs, OpenSession(r) PROVE LinkOnce!OnceNext
  <2>1. req[r].link \in UsedLinks /\ opened[req[r].link] = 0
    BY <1>6 DEF OpenSession, At, Marked, LinkInv, UsedLinks
  <2>2. UsedLinks' = UsedLinks /\ opened' = [opened EXCEPT ![req[r].link] = 1]
    BY <1>6, <2>1 DEF OpenSession, UsedLinks
  <2>3. LinkOnce!Grant(req[r].link)
    BY <2>1, <2>2
  <2> QED BY <2>1, <2>3 DEF UsedLinks
<1>7. ASSUME NEW r \in Reqs,
             \/ (\E l \in Links : LoginPeek(r, l) \/ FormPeek(r, l)) \/ (\E s \in Reqs : ApiConnect(r, s))
             \/ EndSession(r) \/ ChatConnect(r) \/ TokenRefused(r) \/ CountConnections(r)
             \/ InsertConnection(r) \/ Killed(r)
      PROVE  UNCHANGED LinkOnce!onceVars
  BY <1>2, <1>7 DEF LoginPeek, FormPeek, ApiConnect, EndSession, ChatConnect, TokenRefused,
                    CountConnections, InsertConnection, Killed
<1>8. CASE ConnectionEnds \/ UNCHANGED accessVars
  BY <1>2, <1>8 DEF ConnectionEnds, accessVars
<1> QED BY <1>3, <1>4, <1>5, <1>6, <1>7, <1>8 DEF AccessNext

\* The login links of auth.ts implement single-use tokens: the link a session
\* was opened with opens no other, whatever requests share it.
THEOREM LinksAreOneTime == AccessSpec => LinkOpensOnce
<1>1. AccessInit => LinkOnce!OnceInit
  BY DEF AccessInit, LinkOnce!OnceInit, UsedLinks
<1>2. AccessTypeOK /\ LinkInv /\ [AccessNext]_accessVars => LinkInv'
  BY LinkStep
<1> QED BY <1>1, <1>2, LinkInit, LinkRefines, AccessTypeCorrect, PTL
        DEF AccessSpec, LinkOpensOnce, LinkOnce!OnceSpec

-----------------------------------------------------------------------------
(* Access: the limit of connections.                                        *)

\* The requests between COUNT and INSERT are finitely many.
LEMMA CountedFinite == IsFiniteSet(Counted) /\ Cardinality(Counted) \in Nat
BY AccessAssumption, FS_Subset, FS_CardinalityType DEF Counted

\* A request that goes on to a step other than "counted" leaves the counted
\* ones at most as many, and one fewer if it was one of them.
LEMMA CountedLess ==
  ASSUME AccessTypeOK, NEW r \in Reqs, NEW v, v.at # "counted", req' = [req EXCEPT ![r] = v]
  PROVE  /\ Counted' = Counted \ {r}
         /\ Cardinality(Counted') = IF r \in Counted THEN Cardinality(Counted) - 1 ELSE Cardinality(Counted)
<1>1. Counted' = Counted \ {r}
  BY DEF Counted, AccessTypeOK
<1> QED BY <1>1, CountedFinite, FS_RemoveElement

\* Every statement of a request keeps the bound.
LEMMA OverrunStep ==
  AccessTypeOK /\ OverrunByOverlap /\ [AccessNext]_accessVars => OverrunByOverlap'
<1> SUFFICES ASSUME AccessTypeOK, OverrunByOverlap, [AccessNext]_accessVars PROVE OverrunByOverlap'
  OBVIOUS
<1>a. conns \in Nat /\ overlap \in Nat /\ Cardinality(Counted) \in Nat /\ ConnLimit \in Nat
  BY CountedFinite, AccessAssumption DEF AccessTypeOK
<1>b. ASSUME NEW r \in Reqs, NEW v, v.at # "counted", req' = [req EXCEPT ![r] = v],
             conns' = conns, overlap' = overlap
      PROVE  OverrunByOverlap'
  <2>1. Cardinality(Counted') = Cardinality(Counted) - 1 \/ Cardinality(Counted') = Cardinality(Counted)
    BY <1>b, CountedLess
  <2> QED BY <1>a, <1>b, <2>1 DEF OverrunByOverlap
<1>c. ASSUME NEW r \in Reqs, NEW s \in {"marked", "done"}, Goto(r, s), conns' = conns, overlap' = overlap
      PROVE  OverrunByOverlap'
  <2> DEFINE v == [req[r] EXCEPT !.at = s]
  <2>1. v.at # "counted" /\ req' = [req EXCEPT ![r] = v]
    BY <1>c DEF Goto, AccessTypeOK
  <2> HIDE DEF v
  <2> QED BY <1>b, <1>c, <2>1
<1>1. ASSUME NEW r \in Reqs,
             \/ (\E l \in Links : LoginPeek(r, l) \/ FormPeek(r, l)) \/ (\E s \in Reqs : ApiConnect(r, s))
             \/ ChatConnect(r)
      PROVE  OverrunByOverlap'
  <2>1. PICK k \in ReqKinds, l \in Links \union {NoLink}, a \in {"peeked", "verify", "done"} :
          Becomes(r, k, l, a)
    BY <1>1 DEF LoginPeek, FormPeek, ApiConnect, ChatConnect, ReqKinds
  <2>2. conns' = conns /\ overlap' = overlap
    BY <1>1 DEF LoginPeek, FormPeek, ApiConnect, ChatConnect
  <2> DEFINE v == [kind |-> k, link |-> l, at |-> a]
  <2>3. v.at # "counted" /\ req' = [req EXCEPT ![r] = v]
    BY <2>1 DEF Becomes
  <2> HIDE DEF v
  <2> QED BY <1>b, <2>2, <2>3
<1>2. ASSUME NEW r \in Reqs,
             LoginConsume(r) \/ OpenSession(r) \/ TokenRefused(r) \/ FormConsume(r) \/ Killed(r)
      PROVE  OverrunByOverlap'
  <2>1. PICK s \in {"marked", "done"} : Goto(r, s)
    BY <1>2 DEF LoginConsume, OpenSession, TokenRefused, FormConsume, Killed
  <2>2. conns' = conns /\ overlap' = overlap
    BY <1>2 DEF LoginConsume, OpenSession, TokenRefused, FormConsume, Killed
  <2> QED BY <1>c, <2>1, <2>2
<1>3. ASSUME NEW r \in Reqs, CountConnections(r) PROVE OverrunByOverlap'
  <2>1. CASE BelowLimit
    <3>1. Counted' = Counted \union {r} /\ r \notin Counted
      BY <1>3, <2>1 DEF CountConnections, Counted, At, Goto, AccessTypeOK
    <3>2. Cardinality(Counted') = Cardinality(Counted) + 1
      BY <3>1, CountedFinite, FS_AddElement
    <3>3. conns' = conns /\ conns < ConnLimit /\ overlap' \in Nat /\ Cardinality(Counted) + 1 <= overlap'
      BY <1>a, <1>3, <2>1 DEF CountConnections, BelowLimit
    <3> QED BY <1>a, <3>2, <3>3 DEF OverrunByOverlap
  <2>2. CASE ~BelowLimit
    <3>1. Goto(r, "done") /\ conns' = conns /\ overlap' = overlap
      BY <1>3, <2>2 DEF CountConnections
    <3> QED BY <1>c, <3>1
  <2> QED BY <2>1, <2>2
<1>4. ASSUME NEW r \in Reqs, InsertConnection(r) PROVE OverrunByOverlap'
  <2> DEFINE s == IF req[r].kind = "form" THEN "inserted" ELSE "done"
             v == [req[r] EXCEPT !.at = s]
  <2>1. v.at # "counted" /\ req' = [req EXCEPT ![r] = v] /\ r \in Counted
    BY <1>4 DEF InsertConnection, Goto, At, Counted, AccessTypeOK
  <2>2. conns' = conns + 1 /\ overlap' = overlap
    BY <1>4 DEF InsertConnection
  <2> HIDE DEF v
  <2>3. Cardinality(Counted') = Cardinality(Counted) - 1
    BY <2>1, CountedLess
  <2> QED BY <1>a, <2>2, <2>3 DEF OverrunByOverlap
<1>5. CASE \/ \E l \in Links : IssueLink(l) \/ ExpireLink(l)
           \/ \E r \in Reqs : EndSession(r)
           \/ ConnectionEnds \/ UNCHANGED accessVars
  <2>1. Counted' = Counted /\ overlap' = overlap
    BY <1>5 DEF IssueLink, ExpireLink, EndSession, ConnectionEnds, accessVars, Counted
  <2>2. conns' = conns \/ conns' = conns - 1
    BY <1>5 DEF IssueLink, ExpireLink, EndSession, ConnectionEnds, accessVars
  <2> QED BY <1>a, <2>1, <2>2 DEF OverrunByOverlap
<1> QED BY <1>1, <1>2, <1>3, <1>4, <1>5 DEF AccessNext

\* However the chat, the form and the API interleave between the COUNT and the
\* INSERT of createTemporaryApiTokenConnection, a tenant has no more connections
\* than the limit and one for every further request that overlapped.
THEOREM OverrunBounded == AccessSpec => []OverrunByOverlap
<1>1. AccessInit => OverrunByOverlap
  <2> SUFFICES ASSUME AccessInit PROVE OverrunByOverlap
    OBVIOUS
  <2>1. Counted = {}
    BY DEF AccessInit, Counted
  <2> QED BY <2>1, AccessAssumption, FS_EmptySet DEF AccessInit, OverrunByOverlap
<1> QED BY <1>1, OverrunStep, AccessTypeCorrect, PTL DEF AccessSpec

-----------------------------------------------------------------------------
(* Gate: an update_id is recorded by one INSERT OR IGNORE.                  *)

ClockInv == clock \in Windows
HandlerRec == [at : {"idle", "new", "upsert", "select", "act"},
               update : Updates \union {0}, window : 0 .. Horizon]
USE DEF HandlerRec

(* An invocation that is busy with an update is the only one, and nobody    *)
(* acted on the update yet.                                                 *)
UpdateInv ==
  /\ handler \in [Handlers -> HandlerRec]
  /\ acted \in [Updates -> Nat]
  /\ \A u \in Updates : u \notin seen => acted[u] = 0
  /\ \A h \in Handlers : handler[h].at # "idle" =>
       handler[h].update \in Updates /\ handler[h].update \in seen /\ acted[handler[h].update] = 0
  /\ \A h, g \in Handlers : handler[h].at # "idle" /\ handler[g].at # "idle"
       /\ handler[h].update = handler[g].update => h = g

\* An invocation that goes on with its update, or stops, keeps the invariant.
LEMMA UpdateQuiet ==
  ASSUME UpdateInv, NEW h \in Handlers,
         NEW v \in HandlerRec, v.at # "idle" => handler[h].at # "idle" /\ v.update = handler[h].update,
         handler' = [handler EXCEPT ![h] = v], seen' = seen, acted' = acted
  PROVE  UpdateInv'
<1>1. \A g \in Handlers : handler'[g] = IF g = h THEN v ELSE handler[g]
  BY DEF UpdateInv
<1>2. handler' \in [Handlers -> HandlerRec]
  BY DEF UpdateInv
<1>3. \A g \in Handlers : handler'[g].at # "idle" =>
        handler[g].at # "idle" /\ handler'[g].update = handler[g].update
  BY <1>1
<1> QED BY <1>2, <1>3 DEF UpdateInv

\* Every step of an invocation keeps the invariant.
LEMMA UpdateStep == ClockInv /\ UpdateInv /\ [GateNext]_gateVars => UpdateInv'
<1> SUFFICES ASSUME ClockInv, UpdateInv, [GateNext]_gateVars PROVE UpdateInv'
  OBVIOUS
<1>a. Horizon \in Nat /\ clock \in 0 .. Horizon
  BY GateAssumption DEF ClockInv, Windows
<1>1. ASSUME NEW h \in Handlers, NEW u \in Updates, Deliver(h, u) PROVE UpdateInv'
  <2>1. CASE u \in seen
    BY <1>1, <2>1 DEF Deliver, UpdateInv
  <2>2. CASE u \notin seen
    <3> DEFINE v == [at |-> "new", update |-> u, window |-> 0]
    <3>1. seen' = seen \union {u} /\ acted' = acted /\ handler' = [handler EXCEPT ![h] = v]
      BY <1>1, <2>2 DEF Deliver
    <3>2. v \in HandlerRec
      BY <1>a
    <3>3. \A g \in Handlers : handler'[g] = IF g = h THEN v ELSE handler[g]
      BY <3>1 DEF UpdateInv
    <3>4. handler' \in [Handlers -> HandlerRec]
      BY <3>1, <3>2 DEF UpdateInv
    <3>5. v.update = u
      OBVIOUS
    <3> HIDE DEF v
    <3>6. \A g \in Handlers : g # h /\ handler'[g].at # "idle" => handler'[g].update # u
      BY <2>2, <3>3 DEF UpdateInv
    <3> QED BY <2>2, <3>1, <3>3, <3>4, <3>5, <3>6 DEF UpdateInv
  <2> QED BY <2>1, <2>2
<1>2. ASSUME NEW h \in Handlers, Admit(h) \/ Upsert(h) \/ Select(h) \/ Drop(h) PROVE UpdateInv'
  <2>1. PICK v \in HandlerRec : /\ v.at # "idle" => handler[h].at # "idle" /\ v.update = handler[h].update
                              /\ handler' = [handler EXCEPT ![h] = v]
    <3>1. Idle \in HandlerRec /\ Idle.at = "idle"
      BY <1>a DEF Idle
    <3>2. CASE handler' = [handler EXCEPT ![h] = Idle]
      BY <3>1, <3>2
    <3>3. CASE /\ handler[h].at = "new"
               /\ handler' = [handler EXCEPT ![h] = [at |-> "upsert", update |-> handler[h].update,
                                                     window |-> clock]]
      BY <1>a, <3>3 DEF UpdateInv
    <3>4. CASE \E s \in {"select", "act"} : handler[h].at # "idle" /\ handler' = [handler EXCEPT ![h].at = s]
      <4>1. PICK s \in {"select", "act"} : handler[h].at # "idle" /\ handler' = [handler EXCEPT ![h].at = s]
        BY <3>4
      <4>2. [handler[h] EXCEPT !.at = s] \in HandlerRec
        BY DEF UpdateInv
      <4>3. [handler[h] EXCEPT !.at = s].update = handler[h].update
        BY DEF UpdateInv
      <4> QED BY <4>1, <4>2, <4>3
    <3> QED BY <1>2, <3>2, <3>3, <3>4 DEF Admit, Upsert, Select, Drop, Answer
  <2>2. seen' = seen /\ acted' = acted
    BY <1>2 DEF Admit, Upsert, Select, Drop
  <2> QED BY <2>1, <2>2, UpdateQuiet
<1>3. ASSUME NEW h \in Handlers, Act(h) PROVE UpdateInv'
  <2> DEFINE u == handler[h].update
  <2>1. /\ u \in Updates /\ u \in seen /\ seen' = seen
        /\ acted' = [acted EXCEPT ![u] = acted[u] + 1] /\ handler' = [handler EXCEPT ![h] = Idle]
    BY <1>3 DEF Act, Answer, UpdateInv
  <2>2. Idle \in HandlerRec /\ Idle.at = "idle"
    BY <1>a DEF Idle
  <2>3. \A g \in Handlers : handler'[g].at # "idle" => g # h /\ handler'[g] = handler[g] /\ handler[g].update # u
    BY <1>3, <2>1, <2>2 DEF UpdateInv, Act
  <2>4. handler' \in [Handlers -> HandlerRec]
    BY <2>1, <2>2 DEF UpdateInv
  <2>5. acted' \in [Updates -> Nat] /\ \A w \in Updates : w # u => acted'[w] = acted[w]
    BY <2>1 DEF UpdateInv
  <2> HIDE DEF u
  <2> QED BY <2>1, <2>3, <2>4, <2>5 DEF UpdateInv
<1>4. CASE (\E u \in Updates : UserWrites(u)) \/ Tick \/ UNCHANGED gateVars
  BY <1>4 DEF UserWrites, Tick, gateVars, UpdateInv
<1> QED BY <1>1, <1>2, <1>3, <1>4 DEF GateNext

\* Every step of Gate records an update, acts on it or leaves both alone.
LEMMA UpdateRefines ==
  UpdateInv /\ [GateNext]_gateVars => [UpdateOnce!OnceNext]_(UpdateOnce!onceVars)
<1> SUFFICES ASSUME UpdateInv, [GateNext]_gateVars PROVE [UpdateOnce!OnceNext]_(UpdateOnce!onceVars)
  OBVIOUS
<1> USE DEF UpdateOnce!OnceNext, UpdateOnce!onceVars, UpdateOnce!Mark, UpdateOnce!Grant
<1>1. ASSUME NEW h \in Handlers, NEW u \in Updates, Deliver(h, u)
      PROVE  [UpdateOnce!OnceNext]_(UpdateOnce!onceVars)
  BY <1>1 DEF Deliver
<1>2. ASSUME NEW h \in Handlers, Act(h) PROVE UpdateOnce!OnceNext
  <2>1. /\ handler[h].update \in Updates /\ handler[h].update \in seen /\ acted[handler[h].update] = 0
        /\ seen' = seen
    BY <1>2 DEF Act, UpdateInv
  <2>2. acted' = [acted EXCEPT ![handler[h].update] = 1]
    BY <1>2, <2>1 DEF Act
  <2> QED BY <2>1, <2>2
<1>3. CASE \/ \E h \in Handlers : Admit(h) \/ Upsert(h) \/ Select(h) \/ Drop(h)
           \/ \E u \in Updates : UserWrites(u)
           \/ Tick \/ UNCHANGED gateVars
  BY <1>3 DEF Admit, Upsert, Select, Drop, UserWrites, Tick, gateVars
<1> QED BY <1>1, <1>2, <1>3 DEF GateNext

\* The webhook of telegram.ts implements single-use tokens: however often an
\* update is delivered, also while an earlier delivery runs or after it was
\* killed, the bot acts on it at most once.
THEOREM UpdatesAreOneTime == GateSpec => UpdateActsOnce
<1>1. GateInit => UpdateOnce!OnceInit
  BY DEF GateInit, UpdateOnce!OnceInit
<1>2. GateInit => UpdateInv
  BY GateAssumption DEF GateInit, UpdateInv, Idle
<1>3. GateInit => ClockInv
  BY GateAssumption DEF GateInit, ClockInv, Windows
<1>4. ClockInv /\ [GateNext]_gateVars => ClockInv'
  BY GateAssumption DEF ClockInv, GateNext, gateVars, Windows, UserWrites, Deliver, Admit, Upsert, Select,
                        Act, Drop, Tick
<1> QED BY <1>1, <1>2, <1>3, <1>4, UpdateStep, UpdateRefines, PTL
        DEF GateSpec, UpdateActsOnce, UpdateOnce!OnceSpec

-----------------------------------------------------------------------------
(* Gate: the limit of a window.                                             *)

\* The invocations that counted their hit in window w and have not looked yet.
Looking(w) == {h \in Handlers : handler[h].at = "select" /\ handler[h].window = w}

(* A window the bucket never began let nothing through; one it began once   *)
(* has a hit for every request let through or about to look, for as long as *)
(* the bucket holds it.                                                     *)
WindowInv(w) ==
  /\ resets[w] \in Nat /\ allowed[w] \in Nat
  /\ resets[w] = 0 => allowed[w] = 0 /\ Looking(w) = {} /\ bucket.window # w
  /\ resets[w] = 1 => allowed[w] <= Hits
  /\ resets[w] = 1 /\ bucket.window = w => allowed[w] + Cardinality(Looking(w)) <= bucket.hits
LimitInv ==
  /\ handler \in [Handlers -> HandlerRec] /\ bucket \in [window : 0 .. Horizon, hits : Nat]
  /\ allowed \in [Windows -> Nat] /\ resets \in [Windows -> Nat]
  /\ \A h \in Handlers : handler[h].at \in {"upsert", "select"} => handler[h].window \in Windows
  /\ \A w \in Windows : WindowInv(w)

\* The invocations about to look are finitely many.
LEMMA LookingFinite == \A w : IsFiniteSet(Looking(w)) /\ Cardinality(Looking(w)) \in Nat
BY GateAssumption, FS_Subset, FS_CardinalityType DEF Looking

\* An invocation that counts nothing and lets nothing through keeps the invariant.
LEMMA LimitQuiet ==
  ASSUME LimitInv, NEW h \in Handlers, NEW v \in HandlerRec, v.at # "select",
         v.at = "upsert" => v.window \in Windows,
         handler' = [handler EXCEPT ![h] = v], bucket' = bucket, allowed' = allowed, resets' = resets
  PROVE  LimitInv'
<1>1. handler' \in [Handlers -> HandlerRec] /\ \A g \in Handlers : handler'[g] = IF g = h THEN v ELSE handler[g]
  BY DEF LimitInv
<1>2. ASSUME NEW w \in Windows PROVE WindowInv(w)'
  <2>1. Looking(w)' = Looking(w) \ {h}
    BY <1>1 DEF Looking
  <2>2. Cardinality(Looking(w)') = Cardinality(Looking(w)) \/ Cardinality(Looking(w)') = Cardinality(Looking(w)) - 1
    BY <2>1, LookingFinite, FS_RemoveElement
  <2>3. bucket.hits \in Nat /\ WindowInv(w)
    BY DEF LimitInv
  <2> QED BY <2>1, <2>2, <2>3, LookingFinite DEF WindowInv
<1> QED BY <1>1, <1>2 DEF LimitInv

\* The upsert: the bucket goes on with its window or begins another one.
LEMMA LimitUpsert == ASSUME LimitInv, NEW h \in Handlers, Upsert(h) PROVE LimitInv'
<1>0. PICK v \in Windows : v = handler[h].window
  BY DEF Upsert, LimitInv
<1>1. /\ v = handler[h].window /\ handler[h].at = "upsert" /\ allowed' = allowed
      /\ handler' = [handler EXCEPT ![h].at = "select"]
  BY <1>0 DEF Upsert, LimitInv
<1>2. /\ handler' \in [Handlers -> HandlerRec]
      /\ \A g \in Handlers : g # h => handler'[g] = handler[g]
      /\ handler'[h].at = "select" /\ handler'[h].window = v
  BY <1>1 DEF LimitInv
<1>3. /\ Looking(v)' = Looking(v) \union {h} /\ h \notin Looking(v)
      /\ \A w \in Windows : w # v => Looking(w)' = Looking(w)
  BY <1>1, <1>2 DEF Looking
<1>4. Cardinality(Looking(v)') = Cardinality(Looking(v)) + 1
  BY <1>3, LookingFinite, FS_AddElement
<1>5. bucket.hits \in Nat /\ Horizon \in Nat /\ bucket.window \in 0 .. Horizon /\ Hits \in Nat \ {0}
  BY GateAssumption DEF LimitInv
<1>6. CASE bucket.window = v
  <2>1. bucket' = [bucket EXCEPT !.hits = bucket.hits + 1] /\ resets' = resets
    BY <1>1, <1>6 DEF Upsert, CountHit
  <2>2. /\ bucket'.window = bucket.window /\ bucket'.hits = bucket.hits + 1
        /\ bucket' \in [window : 0 .. Horizon, hits : Nat]
    BY <2>1, <1>5 DEF LimitInv
  <2>3. ASSUME NEW w \in Windows PROVE WindowInv(w)'
    <3>1. WindowInv(w) /\ resets'[w] = resets[w] /\ allowed'[w] = allowed[w]
      BY <1>1, <2>1 DEF LimitInv
    <3>2. CASE w = v
      <4>1. resets[w] # 0
        BY <1>6, <3>1, <3>2 DEF WindowInv
      <4>2. Cardinality(Looking(w)') = Cardinality(Looking(w)) + 1 /\ Cardinality(Looking(w)) \in Nat
        BY <1>4, <3>2, LookingFinite
      <4> QED BY <1>5, <1>6, <2>2, <3>1, <3>2, <4>1, <4>2 DEF WindowInv
    <3>3. CASE w # v
      BY <1>3, <1>6, <2>2, <3>1, <3>3 DEF WindowInv
    <3> QED BY <3>2, <3>3
  <2> QED BY <1>1, <1>2, <2>1, <2>2, <2>3 DEF LimitInv
<1>7. CASE bucket.window # v
  <2>1. bucket' = [window |-> v, hits |-> 1] /\ resets' = [resets EXCEPT ![v] = resets[v] + 1]
    BY <1>1, <1>7 DEF Upsert, CountHit
  <2>2. /\ bucket'.window = v /\ bucket'.hits = 1 /\ bucket' \in [window : 0 .. Horizon, hits : Nat]
        /\ resets' \in [Windows -> Nat] /\ resets'[v] = resets[v] + 1
        /\ \A w \in Windows : w # v => resets'[w] = resets[w]
    BY <1>1, <1>5, <2>1 DEF LimitInv, Windows
  <2>3. WindowInv(v)'
    <3>1. WindowInv(v)
      BY <1>1 DEF LimitInv
    <3>2. CASE resets[v] = 0
      <4>1. allowed[v] = 0 /\ Cardinality(Looking(v)) = 0
        BY <3>1, <3>2, FS_EmptySet DEF WindowInv
      <4> QED BY <1>1, <1>4, <1>5, <2>2, <3>1, <3>2, <4>1 DEF WindowInv
    <3>3. CASE resets[v] # 0
      BY <1>1, <2>2, <3>1, <3>3 DEF WindowInv
    <3> QED BY <3>2, <3>3
  <2>4. ASSUME NEW w \in Windows, w # v PROVE WindowInv(w)'
    BY <1>1, <1>3, <2>2, <2>4 DEF LimitInv, WindowInv
  <2> QED BY <1>1, <1>2, <2>2, <2>3, <2>4 DEF LimitInv
<1> QED BY <1>6, <1>7

\* The look at the bucket lets a request through for a hit of its own.
LEMMA LimitSelect == ASSUME LimitInv, NEW h \in Handlers, Select(h), Passes(handler[h].window),
                            handler' = [handler EXCEPT ![h].at = "act"],
                            allowed' = [allowed EXCEPT ![handler[h].window] = allowed[handler[h].window] + 1]
                     PROVE  LimitInv'
<1>0. PICK v \in Windows : v = handler[h].window
  BY DEF Select, LimitInv
<1>1. /\ v = handler[h].window /\ handler[h].at = "select" /\ bucket' = bucket /\ resets' = resets
      /\ bucket.window = v /\ bucket.hits <= Hits
  BY <1>0 DEF Select, LimitInv, Passes
<1>2. /\ handler' \in [Handlers -> HandlerRec]
      /\ \A g \in Handlers : g # h => handler'[g] = handler[g]
      /\ handler'[h].at = "act"
  BY <1>1 DEF LimitInv
<1>3. /\ Looking(v)' = Looking(v) \ {h} /\ h \in Looking(v)
      /\ \A w \in Windows : w # v => Looking(w)' = Looking(w)
  BY <1>1, <1>2 DEF Looking
<1>4. Cardinality(Looking(v)') = Cardinality(Looking(v)) - 1 /\ Cardinality(Looking(v)) # 0
  BY <1>3, LookingFinite, FS_RemoveElement, FS_EmptySet
<1>5. bucket.hits \in Nat /\ Hits \in Nat
  BY GateAssumption DEF LimitInv
<1>6. /\ allowed' \in [Windows -> Nat] /\ allowed'[v] = allowed[v] + 1
      /\ \A w \in Windows : w # v => allowed'[w] = allowed[w]
  BY <1>1 DEF LimitInv
<1>7. WindowInv(v)'
  <2>1. WindowInv(v) /\ resets[v] # 0
    BY <1>1 DEF LimitInv, WindowInv
  <2> QED BY <1>1, <1>4, <1>5, <1>6, <2>1, LookingFinite DEF WindowInv
<1>8. ASSUME NEW w \in Windows, w # v PROVE WindowInv(w)'
  BY <1>1, <1>3, <1>6, <1>8 DEF LimitInv, WindowInv
<1> QED BY <1>1, <1>2, <1>6, <1>7, <1>8 DEF LimitInv

\* Every step of Gate keeps the invariant.
LEMMA LimitStep == ClockInv /\ LimitInv /\ [GateNext]_gateVars => LimitInv'
<1> SUFFICES ASSUME ClockInv, LimitInv, [GateNext]_gateVars PROVE LimitInv'
  OBVIOUS
<1>a. Horizon \in Nat /\ Idle \in HandlerRec /\ Idle.at = "idle"
  BY GateAssumption DEF Idle
<1>b. \A h \in Handlers : handler[h] \in HandlerRec
  BY DEF LimitInv
<1>1. ASSUME NEW h \in Handlers, NEW u \in Updates, Deliver(h, u) PROVE LimitInv'
  <2>1. bucket' = bucket /\ allowed' = allowed /\ resets' = resets
    BY <1>1 DEF Deliver
  <2>2. CASE handler' = handler
    BY <2>1, <2>2 DEF LimitInv, WindowInv, Looking
  <2>3. CASE handler' = [handler EXCEPT ![h] = [at |-> "new", update |-> u, window |-> 0]]
    <3> DEFINE v == [at |-> "new", update |-> u, window |-> 0]
    <3>1. v \in HandlerRec /\ v.at = "new"
      BY <1>a
    <3>2. handler' = [handler EXCEPT ![h] = v]
      BY <2>3
    <3> HIDE DEF v
    <3> QED BY <2>1, <3>1, <3>2, LimitQuiet
  <2> QED BY <1>1, <2>2, <2>3 DEF Deliver
<1>2. ASSUME NEW h \in Handlers, Answer(h) \/ Drop(h), UNCHANGED <<bucket, allowed, resets>> PROVE LimitInv'
  <2>1. handler' = [handler EXCEPT ![h] = Idle] /\ bucket' = bucket /\ allowed' = allowed /\ resets' = resets
    BY <1>2 DEF Answer, Drop
  <2> QED BY <1>a, <2>1, LimitQuiet
<1>3. ASSUME NEW h \in Handlers, Admit(h) PROVE LimitInv'
  <2>1. bucket' = bucket /\ allowed' = allowed /\ resets' = resets
    BY <1>3 DEF Admit
  <2> DEFINE v == [at |-> "upsert", update |-> handler[h].update, window |-> clock]
  <2>2. v \in HandlerRec /\ v.at = "upsert" /\ v.window \in Windows
    BY <1>a, <1>b DEF ClockInv, Windows
  <2>3. Answer(h) \/ handler' = [handler EXCEPT ![h] = v]
    BY <1>3 DEF Admit
  <2> HIDE DEF v
  <2> QED BY <1>2, <2>1, <2>2, <2>3, LimitQuiet
<1>4. ASSUME NEW h \in Handlers, Select(h) PROVE LimitInv'
  BY <1>2, <1>4, LimitSelect DEF Select
<1>5. ASSUME NEW h \in Handlers, Act(h) \/ Drop(h) PROVE LimitInv'
  BY <1>2, <1>5 DEF Act, Drop
<1>6. CASE (\E u \in Updates : UserWrites(u)) \/ Tick \/ UNCHANGED gateVars
  BY <1>6 DEF UserWrites, Tick, gateVars, LimitInv, WindowInv, Looking
<1> QED BY <1>1, <1>3, <1>4, <1>5, <1>6, LimitUpsert DEF GateNext

\* rateLimit of db.ts counts and looks in two statements, and still lets no more
\* than Hits requests of a window through, whatever interleaves, unless a late
\* request of another window took the bucket and the window was begun again.
THEOREM LimitKept == GateSpec => []LimitUnlessReset
<1>1. GateInit => ClockInv
  BY GateAssumption DEF GateInit, ClockInv, Windows
<1>2. ClockInv /\ [GateNext]_gateVars => ClockInv'
  BY GateAssumption DEF ClockInv, GateNext, gateVars, Windows, UserWrites, Deliver, Admit, Upsert, Select,
                        Act, Drop, Tick
<1>3. GateInit => LimitInv
  BY GateAssumption DEF GateInit, LimitInv, WindowInv, Looking, Idle, Windows
<1>4. LimitInv => LimitUnlessReset
  BY GateAssumption DEF LimitInv, WindowInv, LimitUnlessReset
<1> QED BY <1>1, <1>2, <1>3, <1>4, LimitStep, PTL DEF GateSpec
=============================================================================
