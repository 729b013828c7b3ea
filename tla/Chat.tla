-------------------------------- MODULE Chat --------------------------------
(***************************************************************************)
(* What the bot shows one user and what its buttons do: the views and the  *)
(* callback dispatch of src/telegram.ts, over the tenant's deployment,     *)
(* connections, panel row, OMNI node and donated key.                      *)
(*                                                                         *)
(* A view is a set of buttons, named as in the code without "v13:" and     *)
(* without ids; every button names the one resource of its kind.  msg is   *)
(* the message whose button is pressed next: an edit keeps its protection  *)
(* (protect_content), a sent message has its own, and after a send the     *)
(* user presses either the new message or the old one.  The web panel, the *)
(* workflow and typed answers change the tenant's rows under every message.*)
(***************************************************************************)
EXTENDS Naturals

CONSTANTS Admins,      \* whether the user is in ADMIN_USER_IDS: a set of BOOLEAN
          MaxConns     \* bound: Cloudflare connections of the tenant

ASSUME ChatAssumption == Admins \subseteq BOOLEAN /\ MaxConns \in Nat

VARIABLES
  admin,    \* isAdminUserId
  rows,     \* the tenant's rows
  asks,     \* whether telegram_flows waits for the domains of a white list
  msg,      \* the message pressed next
  did       \* what the last press took away or was refused, and from which view

chatVars == <<admin, rows, asks, msg, did>>

Statuses == {"none", "queued", "preparing", "awaiting_agent", "agent_ready", "finalizing",
             "ready", "failed", "revoking", "revoked"}
Rows == [dep : Statuses, conns : 0..MaxConns, panel : BOOLEAN, node : BOOLEAN,
         key : {"none", "pending", "approved", "closed"}]   \* closed: rejected or withdrawn

-----------------------------------------------------------------------------
(* Views: buttons, whether they are sent protected, and what they hold:     *)
(* a secret, a login or connect link, a page of the private environment, a  *)
(* resolver configuration, a question that read no row.                     *)

View(name, keys, holds) == [name |-> name, keys |-> keys, holds |-> holds, protect |-> holds = "secret"]
Plain(name, keys) == View(name, keys, "text")
Locked(view) == [view EXCEPT !.protect = TRUE]

MenuRows == {"login", "ip", "map", "wh", "donate", "dns", "dnstt", "check", "help", "deps", "dep:new",
             "pack", "conns", "status", "health", "usage"}
EnvCallbacks == {"conns", "status", "health", "usage", "roster", "engine"}
HomeView == Plain("home", (MenuRows \ EnvCallbacks) \cup {"kaveh"})
EnvMenu == (MenuRows \cap EnvCallbacks) \cup {"kaveh", "omni:home"}
BackView == Plain("back", {"omni:home"})
LoginView == Locked(View("login", EnvMenu, "link"))
StatusView == View("status", EnvMenu, "env")
HelpIndex == Plain("help", {"help:topic", "omni:home"})
HelpTopic == Plain("topic", {"help", "omni:home"})
FlowView == Plain("prompt", {"flow:cancel"})

CheckView == Plain("check", {"check", "ip:report", "ip", "omni:home"})
CleanIpView == Plain("cleanip", {"ip", "ip:report", "ip:hint", "wh", "omni:home"})
CleanIpPicker == Plain("picker", {"ip:pick", "ip", "omni:home"})
HintView == Plain("hint", {"ip", "omni:home"})
MapView == Plain("map", {"map", "map:report", "omni:home"})
MapStep(key) == Plain("mapstep", {key, "flow:cancel"})
WhiteHoleView == Plain("hole", {"wh:publish", "wh:clear", "wh:cmds", "ip", "omni:home"})

DonationKeyboard(isAdmin) ==
  {"donate:agree", "donate:mine", "donate:pool", "omni:home"} \cup IF isAdmin THEN {"donate:review"} ELSE {}
DonationIntro == Plain("donation", DonationKeyboard(admin))
DonationPool == Plain("pool", DonationKeyboard(FALSE))
MyDonations(r) == Plain("mine", {"donate:agree", "donate:pool", "omni:home"}
                                  \cup IF r.key \in {"pending", "approved"} THEN {"donate:wd"} ELSE {})
DonationReview(r) == Plain("review", {"donate:pool", "omni:home"}
                                       \cup IF r.key = "pending" THEN {"donate:ok", "donate:no"} ELSE {})

OverviewKeyboard == {"health", "usage", "engine", "deps", "omni:home"} \cup IF admin THEN {"roster"} ELSE {}
Overview(name) == View(name, OverviewKeyboard, "env")

DnsCenter == Plain("dns", {"dns:scan", "dnstest", "dnsb:master", "dnsb:white", "dnsb:slip", "omni:home"})
DnsScanView == Plain("scan", {"dns:scan:new", "dns:scan", "dns", "omni:home"})
DnsTest(step) == Plain("dnstest", {"dns", "omni:home"} \cup
                  CASE step = "isp" -> {"dnstest:isp"} [] step = "city" -> {"dnstest:run", "dnstest"}
                    [] step = "run" -> {"dnstest:isp", "dnstest"})
BuilderPicker(kind, r) ==
  Plain("builders", {"dns", "omni:home", IF r.conns = 0 THEN "dns:connect"
                                        ELSE IF kind = "dnsb:white" THEN "dnsb:white:id" ELSE "dnsb:master:id"})
BuilderCard(kind) ==
  Plain("builder", {kind, "dns", "omni:home"} \cup
    CASE kind = "dnsb:slip" -> {"dnsb:slip:dom", "dns:connect"}
      [] kind = "dnsb:master" -> {"dnsb:master:url", "dnsb:master:cf"}
      [] kind = "dnsb:white" -> {"dnsb:white:dom", "dnsb:white:cf"})

StandaloneConnect == Locked(View("form", {"delmsg"}, "link"))
ConnectPrompt == Locked(View("connect", {"omni:home"}, "link"))

OmniNode == {"kaveh:token", "kaveh:users", "kaveh:vip", "kaveh:recover", "kaveh:del", "kaveh"}
OmniHome(r) == Plain("nodes", {"kaveh:new", "omni:home"} \cup
                                IF r.node THEN {"kaveh:users", "kaveh:token"} ELSE {"omni:connect"})
OmniConnect == Locked(Plain("omniconnect", {"omni:connect:chat", "omni:home"}))

Deletable == {"failed", "revoked"}
DepsList(r) ==
  Plain("deps", {"dep:new", "omni:home"}
    \cup (IF r.dep # "none" THEN {"dep"} ELSE {})
    \cup (IF r.dep \in Deletable THEN {"dep-del"} ELSE {})
    \cup (IF r.panel THEN {"pdel"} ELSE {}))

\* Mutant: a deployment that is being finalized can be retried.
DepButtonsMore(s) ==
  {"dep", "deps", "omni:home"} \cup (IF s \in {"agent_ready", "finalizing", "failed"} THEN {"dep-retry"} ELSE {})

\* The buttons of a deployment by its status.
DepButtons(s) ==
  {"dep", "deps", "omni:home"}
    \cup (IF s = "ready" THEN {"dep-subs", "dep-subrot"} ELSE {})
    \cup (IF s \in {"queued", "preparing", "awaiting_agent", "failed"} THEN {"dep-boot"} ELSE {})
    \cup (IF s \in {"agent_ready", "failed"} THEN {"dep-retry"} ELSE {})
    \cup (IF s \notin {"revoked", "revoking"} THEN {"dep-revoke"} ELSE {})
    \cup (IF s \in Deletable THEN {"dep-del"} ELSE {})
DepDetail(r) == Plain("detail", DepButtons(r.dep))

Bootstrap == View("bootstrap", {"delmsg", "omni:home"}, "secret")
Subscriptions == View("subs", {"delmsg", "omni:home"}, "secret")
MasterConfig == Locked(View("resolvers", {"delmsg", "dns"}, "config"))
WhiteConfig == View("resolvers", {"omni:home"}, "config")
ConnsList(r) == View("conns", {"conn-new", "omni:home"} \cup IF r.conns > 0 THEN {"conn-disc"} ELSE {}, "env")
Question(yes, no) == View("confirm", {yes, no}, "question")
Catalog == Plain("catalog", {"dep-panel", "dep-vps", "omni:home"})
Wizard == Plain("wizard", {"wiz:cancel", "wiz:confirm"})
VpsPicker == Plain("vps", {"dep-vps:id", "wiz:cancel"})

-----------------------------------------------------------------------------
(* What a press of button b can do when the rows are r: the view it edits   *)
(* in or sends ("gone": the message is deleted), the rows after it, and     *)
(* op: "refused", or what it takes away that rows does not show.            *)

Did(how, view, r, op) == [how |-> how, view |-> view, rows |-> r, op |-> op]
Edit(view, r) == {Did("edit", view, r, "none")}
Send(view, r) == {Did("send", view, r, "none")}
Toast(r) == {Did("toast", BackView, r, "none")}
Refuse(r) == {Did("toast", BackView, r, "refused")}

\* showCallbackError and answerError: the reason, or the way to a new connection.
Fails(r) == Toast(r) \cup Send(BackView, r) \cup Send(ConnectPrompt, r)

MenuPress(b, r) ==
  CASE b = "login" -> Send(LoginView, r)
    [] b = "status" -> Edit(StatusView, r)
    [] b = "help" -> Send(HelpIndex, r)
    [] b = "help:topic" -> Send(HelpTopic, r)
    [] b = "omni:home" -> Edit(HomeView, r)
    [] b = "delmsg" -> {Did("gone", HomeView, r, "none")} \cup Toast(r)
    [] b \in {"flow:cancel"} -> Edit(HomeView, r)
    [] b = "wiz:cancel" -> {Did("gone", HomeView, r, "none")}
    [] OTHER -> {}

OmniPress(b, r) ==
  CASE b = "kaveh" -> Edit(OmniHome(r), r)
    [] b = "omni:connect" -> Edit(OmniConnect, r)
    [] b = "omni:connect:chat" -> Edit(Locked(FlowView), r)
    [] b = "kaveh:new" /\ r.conns = 0 -> Send(OmniConnect, r)
    [] b = "kaveh:new" /\ r.conns > 0 ->
         Send(View("node", OmniNode, "secret"), [r EXCEPT !.node = TRUE]) \cup Send(HomeView, r)
           \cup Send(OmniConnect, r)
    [] b = "kaveh:token" ->
         {Did("send", View("password", {"kaveh:users", "omni:home"}, "secret"), r, "password")} \cup Send(HomeView, r)
    [] b = "kaveh:users" -> Send(Plain("users", OmniNode), r) \cup Send(HomeView, r)
    [] b = "kaveh:vip" -> Send(View("vip", OmniNode, "secret"), r) \cup Send(HomeView, r)
    [] b = "kaveh:recover" -> {Did("send", Locked(Plain("recovered", OmniNode)), r, "password")} \cup Send(HomeView, r)
    [] b = "kaveh:del" -> Send(HomeView, [r EXCEPT !.node = FALSE]) \cup Send(HomeView, r)
    [] OTHER -> {}

\* Picking a panel and typing its answers are the dialogs' business; bound: one deployment.
PanelPress(b, r) ==
  CASE b = "deps" -> Edit(DepsList(r), r)
    [] b = "dep:new" -> Edit(Catalog, r)
    [] b = "dep-panel" -> Edit(FlowView, r) \cup Toast(r)
    [] b = "dep-vps" -> IF r.conns = 0 THEN Edit(ConnectPrompt, r)
                        ELSE IF r.conns > 1 THEN Edit(VpsPicker, r) ELSE Edit(Wizard, r) \cup Fails(r)
    [] b = "dep-vps:id" -> Edit(Wizard, r) \cup Fails(r)
    [] b = "wiz:confirm" ->
         IF r.dep # "none" THEN Toast(r)
         ELSE Send(Bootstrap, [r EXCEPT !.dep = "queued"]) \cup Send(ConnectPrompt, r)
                \cup Send(Plain("again", {"dep:new", "omni:home"}), r)
    [] b = "pdel" -> Edit(Question("pdel-yes", "deps"), r)
    [] b = "pdel-yes" -> LET after == [r EXCEPT !.panel = FALSE] IN Edit(DepsList(after), after)
    [] OTHER -> {}

\* Each operation is refused by the status it needs (src/deployments.ts).
DepPress(b, r) ==
  CASE b = "dep" -> IF r.dep = "none" THEN Refuse(r) ELSE Edit(DepDetail(r), r)
    [] b = "dep-retry" -> IF r.dep \in {"agent_ready", "failed"} THEN Edit(DepDetail(r), r) \cup Fails(r)
                          ELSE Refuse(r)
    [] b = "dep-revoke" -> Edit(Question("dep-revoke-yes", "dep"), r)
    [] b = "dep-del" -> Edit(Question("dep-del-yes", "dep"), r)
    [] b = "dep-subrot" -> Edit(Question("dep-subrot-yes", "dep"), r)
    [] b = "dep-revoke-yes" ->
         IF r.dep \in {"none", "revoking"} THEN Refuse(r)
         ELSE IF r.dep = "revoked" THEN Edit(DepDetail(r), r)
         ELSE LET after == [r EXCEPT !.dep = "revoking"]
              IN  Edit(DepDetail(after), after) \cup Fails(r)
    [] b = "dep-del-yes" ->
         IF r.dep \notin Deletable THEN Refuse(r)
         ELSE Edit(Plain("deleted", EnvMenu), [r EXCEPT !.dep = "none"])
    [] b = "dep-boot" -> IF r.dep \in {"queued", "preparing", "awaiting_agent", "failed"}
                         THEN Send(Bootstrap, r) \cup Fails(r) ELSE Refuse(r)
    [] b = "dep-subs" -> IF r.dep = "ready" THEN Send(Subscriptions, r) ELSE Refuse(r)
    [] b = "dep-subrot-yes" -> IF r.dep = "ready" THEN {Did("send", Subscriptions, r, "subscription")} \cup Fails(r)
                               ELSE Refuse(r)
    [] OTHER -> {}

\* Mutant: disconnecting does not ask.
ConnPressAtOnce(b, r) ==
  CASE b = "conns" -> Edit(ConnsList(r), r)
    [] b = "conn-new" -> Edit(ConnectPrompt, r)
    [] b = "conn-disc" -> LET after == [r EXCEPT !.conns = 0] IN Edit(ConnsList(after), after)
    [] OTHER -> {}

\* A connection that a deployment needs is not disconnected; it may need another one.
Busy(s) == s \in {"queued", "preparing", "awaiting_agent", "agent_ready", "finalizing", "revoking"}
ConnPress(b, r) ==
  CASE b = "conns" -> Edit(ConnsList(r), r)
    [] b = "conn-new" -> Edit(ConnectPrompt, r)
    [] b = "conn-disc" -> Edit(Question("conn-disc-yes", "conns"), r)
    [] b = "conn-disc-yes" ->
         IF r.conns = 0 THEN Refuse(r)
         ELSE LET after == [r EXCEPT !.conns = r.conns - 1]
              IN  Edit(ConnsList(after), after) \cup Fails(r) \cup IF Busy(r.dep) THEN Refuse(r) ELSE {}
    [] OTHER -> {}

RadarPress(b, r) ==
  CASE b = "ip" -> Edit(CleanIpView, r)
    [] b = "ip:hint" -> Edit(HintView, r)
    [] b = "ip:report" -> Edit(CleanIpPicker, r)
    [] b \in {"ip:pick", "pack", "dnstt", "dns:scan:new"} -> Edit(FlowView, r)
    [] b = "check" -> Edit(CheckView, r)
    [] b = "map" -> Edit(MapView, r)
    [] b = "map:report" -> Edit(MapStep("map:isp"), r)
    [] b = "map:isp" -> Edit(MapStep("map:tr"), r)
    [] b = "map:tr" -> Edit(MapStep("map:ok"), r)
    [] b = "map:ok" -> Edit(MapStep("map:city"), r)
    [] b = "map:city" -> Edit(FlowView, r)
    [] OTHER -> {}

HolePress(b, r) ==
  CASE b \in {"wh", "wh:cmds"} -> Edit(WhiteHoleView, r)
    [] b = "wh:publish" -> Send(WhiteHoleView, r) \cup Fails(r)
    [] b = "wh:clear" -> {Did("send", WhiteHoleView, r, "drop")} \cup Fails(r)
    [] OTHER -> {}

\* setDonationStatus writes the status of a row that is there, whatever it was.
KeyAs(r, status) == IF r.key = "none" THEN r ELSE [r EXCEPT !.key = status]

DonationPress(b, r) ==
  CASE b = "donate" -> Edit(DonationIntro, r)
    [] b = "donate:agree" -> Edit(FlowView, r)
    [] b = "donate:pool" -> Edit(DonationPool, r)
    [] b = "donate:mine" -> Edit(MyDonations(r), r)
    [] b = "donate:wd" -> LET after == KeyAs(r, "closed") IN Edit(MyDonations(after), after)
    [] b \in {"donate:review", "donate:ok", "donate:no"} ->
         LET after == CASE b = "donate:review" -> r [] b = "donate:ok" -> KeyAs(r, "approved")
                        [] b = "donate:no" -> KeyAs(r, "closed")
         IN  IF admin THEN Edit(DonationReview(after), after) ELSE Refuse(r)
    [] OTHER -> {}

OverviewPress(b, r) ==
  CASE b \in {"health", "usage", "engine"} -> Edit(Overview(b), r)
    [] b = "roster" -> IF admin THEN Edit(Overview(b), r) ELSE Refuse(r)
    [] OTHER -> {}

\* "dnsb:slip:dom" is read as the slip card of a connection "dom": its action is empty.
DnsPress(b, r) ==
  CASE b = "dns" -> Edit(DnsCenter, r)
    [] b = "dns:scan" -> Edit(DnsScanView, r)
    [] b = "dnstest" -> Edit(DnsTest("isp"), r)
    [] b = "dnstest:isp" -> Edit(DnsTest("city"), r)
    [] b = "dnstest:run" -> Edit(DnsTest("run"), r)
    [] b = "dns:connect" -> Edit(StandaloneConnect, r)
    [] b \in {"dnsb:master", "dnsb:white"} -> Edit(BuilderPicker(b, r), r)
    [] b \in {"dnsb:slip", "dnsb:slip:dom"} -> Edit(BuilderCard("dnsb:slip"), r)
    [] b = "dnsb:master:id" -> Edit(BuilderCard("dnsb:master"), r) \cup Send(StandaloneConnect, r)
    [] b = "dnsb:white:id" -> Edit(BuilderCard("dnsb:white"), r) \cup Send(StandaloneConnect, r)
    [] b = "dnsb:master:url" -> Send(MasterConfig, r)
    [] b = "dnsb:white:cf" -> Send(Locked(WhiteConfig), r) \cup Send(StandaloneConnect, r)
    [] b = "dnsb:master:cf" -> Send(BackView, r) \cup Send(StandaloneConnect, r)
    [] b = "dnsb:white:dom" -> Edit(FlowView, r)
    [] OTHER -> {}

Press(b, r) ==
  MenuPress(b, r) \cup OmniPress(b, r) \cup PanelPress(b, r) \cup DepPress(b, r) \cup ConnPress(b, r)
    \cup RadarPress(b, r) \cup HolePress(b, r) \cup DonationPress(b, r) \cup OverviewPress(b, r) \cup DnsPress(b, r)

-----------------------------------------------------------------------------
(* Delivery.                                                                *)

\* Mutant: the plain copy of a view Telegram cannot parse is sent unprotected.
PlainPayloadOpen(view) == FALSE

\* The plain copy of a view whose HTML Telegram does not parse.
PlainPayload(view) == view.protect

\* The rows a view shows were read when it was rendered; a question read none.
Message(view, protected, fresh) == [view |-> view, protected |-> protected, fresh |-> fresh]
Fresh(view) == view.holds # "question" \/ msg.fresh

Sent(view) == {Message(view, p, Fresh(view)) : p \in {view.protect, PlainPayload(view)}}

\* An edit that fails (not modified, too old) sends the view as a message of its own.
Delivered(d) ==
  CASE d.how = "edit" -> {Message(d.view, msg.protected, Fresh(d.view))} \cup Sent(d.view)
    [] d.how \in {"send", "gone"} -> Sent(d.view) \cup IF d.how = "send" THEN {msg} ELSE {}
    [] d.how = "toast" -> {msg}

\* What a press takes away, by the rows before and after it and its op.
Gone(r, q, op) ==
  {x \in {"deployment", "connection", "panel", "subscription", "node", "key", "password", "drop"} :
     CASE x = "deployment" -> q.dep # r.dep /\ q.dep \in {"none", "revoking"}
       [] x = "connection" -> q.conns < r.conns
       [] x = "panel" -> r.panel /\ ~q.panel
       [] x = "node" -> r.node /\ ~q.node
       [] x = "key" -> r.key # q.key /\ q.key = "closed"
       [] OTHER -> x = op}

\* What is remembered: what was taken away from which view, which button was refused
\* and whether its message was up to date.
NoDeed == [gone |-> {}, view |-> "any", refused |-> "none", fresh |-> TRUE]
Deed(b, d) ==
  IF d.op = "refused" THEN [NoDeed EXCEPT !.refused = b, !.fresh = msg.fresh]
  ELSE IF Gone(rows, d.rows, d.op) = {} THEN NoDeed
  ELSE [NoDeed EXCEPT !.gone = Gone(rows, d.rows, d.op), !.view = msg.view.name]

\* The buttons that write another row of telegram_flows, or clear it.
FlowButtons == {"flow:cancel", "wiz:cancel", "donate:agree", "ip:pick", "pack", "dnstt", "dns:scan:new", "map:report",
                "map:isp", "map:tr", "map:ok", "map:city", "dep-panel", "omni:connect:chat"}

PressButton(b) ==
  \E d \in Press(b, rows) :
    /\ rows' = d.rows
    /\ asks' = (b = "dnsb:white:dom" \/ (asks /\ b \notin FlowButtons))
    /\ \E m \in Delivered(d) : msg' = [m EXCEPT !.fresh = m.fresh /\ (m # msg \/ rows' = rows)]
    /\ did' = Deed(b, d)
    /\ UNCHANGED admin

\* Commands and menu texts send a view; the connections' text sends it unprotected.
Command ==
  {HomeView, LoginView, Locked(StatusView), HelpIndex, CleanIpView, MapView, WhiteHoleView, DonationIntro,
   Locked(Overview("health")), Locked(Overview("usage")), FlowView, DepsList(rows), ConnsList(rows), CheckView}
Say ==
  /\ \E view \in Command :
       /\ msg' = Message(view, view.protect, TRUE)
       /\ asks' \in {asks} \cup (IF view \in {HomeView, FlowView} THEN {FALSE} ELSE {})
       /\ view = FlowView => ~asks'
  /\ did' = NoDeed
  /\ UNCHANGED <<admin, rows>>

\* The typed domains of a white list: the configuration of white:cf in a message of its
\* own that is not protected, then the card; a reason instead; or the question again.
WhiteAnswer ==
  /\ asks
  /\ \E view \in {HomeView, FlowView} \cup IF rows.conns > 0 THEN {WhiteConfig, BuilderCard("dnsb:white")} ELSE {} :
       /\ msg' = Message(view, view.protect, TRUE)
       /\ asks' = (view = FlowView)
  /\ did' = NoDeed
  /\ UNCHANGED <<admin, rows>>

\* External to the chat: the workflow, the agent, the web panel and the other answers.
Moves == [none |-> {"queued"}, queued |-> {"preparing", "failed", "revoking"},
          preparing |-> {"awaiting_agent", "failed", "revoking"}, awaiting_agent |-> {"agent_ready", "revoking"},
          agent_ready |-> {"finalizing", "revoking"}, finalizing |-> {"ready", "failed", "revoking"},
          ready |-> {"revoking"}, failed |-> {"preparing", "finalizing", "revoking", "none"},
          revoking |-> {"revoked", "failed"}, revoked |-> {"none"}]
Elsewhere ==
  /\ \/ \E s \in Moves[rows.dep] : rows' = [rows EXCEPT !.dep = s]
     \/ \E c \in {rows.conns - 1, rows.conns + 1} \cap (0..MaxConns) : rows' = [rows EXCEPT !.conns = c]
     \/ ~rows.panel /\ rows' = [rows EXCEPT !.panel = TRUE]
     \/ \E s \in {"none", "pending"} \ {rows.key} : rows' = [rows EXCEPT !.key = s]
  /\ msg' = [msg EXCEPT !.fresh = FALSE]
  /\ did' = NoDeed
  /\ UNCHANGED <<admin, asks>>

ChatInit ==
  /\ admin \in Admins
  /\ rows = [dep |-> "none", conns |-> 0, panel |-> FALSE, node |-> FALSE, key |-> "none"]
  /\ asks = FALSE
  /\ msg = Message(HomeView, FALSE, TRUE)
  /\ did = NoDeed

ChatNext == Say \/ WhiteAnswer \/ Elsewhere \/ \E b \in msg.view.keys : PressButton(b)

ChatSpec == ChatInit /\ [][ChatNext]_chatVars
-----------------------------------------------------------------------------
(* Every button of every message is taken by a branch of the dispatch: none *)
(* falls through to "this button is no longer valid".                       *)
ChatTypeOK ==
  /\ admin \in BOOLEAN /\ asks \in BOOLEAN /\ rows \in Rows
  /\ msg.protected \in BOOLEAN /\ msg.fresh \in BOOLEAN
  /\ \A b \in msg.view.keys : Press(b, rows) # {}

(* Bootstrap commands, subscription links, the node's password and the VIP  *)
(* links are only ever in protected messages, through failed edits and      *)
(* plain copies too. Resolver configurations are not among them:            *)
(* ConfigsProtected.                                                        *)
SecretsProtected == msg.view.holds = "secret" => msg.protected

(* The resolver configurations, which the buttons master:url and white:cf   *)
(* announce as a protected message (telegram.ts:2125, 2162), are in         *)
(* protected messages. The typed white list sends the same one without.     *)
ConfigsProtected == msg.view.holds = "config" => msg.protected

(* A deployment, a connection, a panel record and the subscription links    *)
(* are lost by no press but the yes of a question, whatever the branch of   *)
(* the dispatch that loses them. An OMNI node and its password, a drop and  *)
(* a donated key are not in it: kaveh:del, kaveh:token, kaveh:recover,      *)
(* wh:clear, donate:wd and donate:no act at once (EverythingAsked).         *)
DestroyedAfterQuestion ==
  did.gone \cap {"deployment", "connection", "panel", "subscription"} # {} => did.view = "confirm"

(* The wider claim, which those six buttons break.                          *)
EverythingAsked == did.gone # {} => did.view = "confirm"

(* What a view offers is what src/deployments.ts, src/oauth.ts and the      *)
(* admin checks accept: a press is only refused when the rows changed after *)
(* the message was rendered, or when it disconnects a connection while a    *)
(* deployment is under way, which renderConnsList offers all the same.      *)
OfferedIsAccepted ==
  did.refused # "none" => ~did.fresh \/ (did.refused = "conn-disc-yes" /\ Busy(rows.dep))

(* "This message and all its sections are protected" (ENV_NOTICE): a page   *)
(* of the private environment is only ever in a protected message.          *)
EnvironmentProtected == msg.view.holds = "env" => msg.protected
=============================================================================
