# Verification of the V13 / Omni control plane

TLA+ models of the parts of this repository whose correctness depends on the
order of events: the control plane (`src/src/*.ts`, a Cloudflare Worker with D1
and Workflows, driven through a Telegram bot) and the proxy panel it installs
(`src/omni-panel/src`, a Worker with D1 and two Durable Objects). TLC checks
small instances; TLAPS proves the central invariants for instances of any size.

    tlc -workers 2 -config serial.cfg MCDeployments     # one run
    tlapm DeploymentsInvariants.tla                     # one proof

`PROJECT.json` lists the components, the runs, the source lines behind every
definition, the hazards, the findings and the theorems.

## 1. Inventory

The *control plane* is a multi-tenant Worker driven by a Telegram bot and a
small web app. A tenant connects a Cloudflare API token, creates a deployment
(a subscription Worker in the tenant's zone plus a node run by an agent on a
server), and later rotates its tokens, revokes and deletes it. The
*omni-panel* is a second Worker a tenant may install: an admin panel, user
accounts with quotas, and a VLESS proxy over WebSockets.

| Component | State | Operations | What is hard | What makes it correct |
|---|---|---|---|---|
| Deployment handlers (`deployments.ts`) | `deployments`, `deployment_secrets`, `bootstrap_tokens` | create, rotate bootstrap, rotate subscription, retry, revoke, delete | each is several D1 statements with Cloudflare calls between; nothing is locked | status, served script and credentials agree |
| Provisioning workflow (`workflow.ts`) | the same rows, the Worker script | prepare, finalize, revoke; step retries, catch block | steps repeat after lost answers; several instances run at once | revoked means disabled, ready means published |
| Connections (`api-token.ts`, `oauth.ts`, `cloudflare-api.ts`) | `oauth_connections` | connect, disconnect, erase when idle, erase by cron | count-then-act on rows other requests write | a token is erased when and only when no work needs it |
| Agent bootstrap (`agent.ts`) | the same rows | complete, serve script, report | one-time token used concurrently | accepted once |
| Sleeper (`sleeper.ts`, `v13-sleeper.py` in `agent.ts`) | role, `sleeper_commands`, TXT record | set role, queue command, publish beacon, wake up | read by a node that wakes rarely; one mark consumes every waiting command | a command leaves the queue only for the record |
| Login links and sessions (`auth.ts`, `http.ts`) | `login_links`, `sessions` | issue, log in, log out, connect form | login and form read and consume the same rows | a link opens one session |
| Rate limit and webhook (`db.ts`, `telegram.ts`) | `rate_limits`, `telegram_updates` | count, deliver, admit | updates repeated while the first delivery runs; count and look are two statements | the bot acts once per update, the limit holds |
| DNS scans (`dns-center.ts`, parts of `telegram.ts`) | `dns_scan_ranges`, `dns_scan_results`, a live message | replace, tick, chain, cron scan, resume, purge | tick chain and cron share a cursor; invocations are killed | each address probed once a round, every scan ends |
| Donations (`ai-donate.ts`) | `ai_donations`, secrets | donate, review, withdraw, expire, purge | review, withdrawal and purge race | no ciphertext beside a closed donation |
| WhiteHole (`whitehole.ts`) | TXT shards, `whitehole_drops` | publish, clear, purge, read | shards written one at a time | a drop listed as published is there |
| Panels and Omni nodes (`panel-deploy.ts`, `panel-catalog.ts`, `omni-engine.ts`) | `panel_deployments`, `kaveh_nodes`, scripts, KV, D1 of the account | deploy, repair, delete, create node, seed user, recover | the record and the account are two things; answers get lost | the list tells what is running |
| Telegram bot (`telegram.ts`) | the messages in the chat, rows of every other part | views, callbacks, commands | keyboards outlive the rows they were rendered from; protection is kept by edits | secrets protected, nothing destroyed unasked |
| Telegram wizards and flows (`telegram-wizard.ts`, `panel-flows.ts`) | `telegram_wizards`, `telegram_flows` | start, answer, press, confirm, expire | stale buttons, overtaken handlers, two dialogs at once | an answer reaches the step that asked |
| Bootstrap script (`agent.ts`) | files and units of the VPS | run, complete, set timers, report | every command may be the last one; re-runs make new keys | a finished VPS matches the control plane |
| Network intelligence (`clean-ip.ts`, `domestic-race.ts`, `dns-poison.ts`, `censorship-map.ts`, `net-mode.ts`, `geoip-ir.ts`, `telemetry-routes.ts`) | one table each | report, merge, age, purge, rank, refresh | averages over missing values, overlapping refreshes | nothing is shown beyond what was reported |
| Profiles, packs, pages, DNS tunnel scripts | text | render | little | |
| Panel sign-in (`api/auth.js`, `auth/session.js`, `api/agent.js`) | `settings.admin_hash`, `sessions` | setup, login, change, recover, reset, revoke | slow hashing between read and write | sessions belong to the stored password |
| Guard (`auth/guard.js`) | counters, strikes, bans | hit, reset, unban | windows, strikes and bans overlap | wrong passwords are bounded, bans can be lifted |
| Ledger (`auth/guard.js`) | map of unwritten bytes, alarm | report, flush, alarm | evictions, failing batches, lost answers, overlapping flushes | every byte accounted for |
| Device limit (`auth/guard.js`, `proxy/vless.js`) | map of devices | admit, report, forget | tunnels outlive their entry | no more devices than the limit |
| Tunnel (`proxy/vless.js`, `upstream.js`) | sockets, stream, queue | open, write, pump, finish | callbacks in any order | in order, reported once, nothing left open |
| Users, maintenance, backup (`db/users.js`, `core/maintenance.js`, `api/stats.js`) | `users`, `usage_daily` | edits, expiry policy, import | writers without transactions | |

Interaction: handlers and workflows share only D1 rows and the Worker script at
Cloudflare; a handler starts a workflow by a call that may fail. The panel's
tunnel calls the ledger object twice, at admission and at its end; the ledger,
the admin API and the maintenance cron write the same user rows. The control
plane reaches a panel through `api/agent.js`. The bot's menus read and write the
rows of every part; its dialogs keep only their own two tables. The other parts
share no rows with each other.

The hazards, each with its line and the properties that would catch it, are in
`PROJECT.json`.

## 2. Modules

| Module | Models | Checked by | Proved in |
|---|---|---|---|
| `Deployments` | deployments, workflow, connections, bootstrap, beacon rebinding | `MCDeployments` | `DeploymentsProofs`, `DeploymentsInvariants` |
| `PanelAuth` | panel sign-in and Guard | `MCPanelAuth` | `PanelProofs` |
| `Ledger` | traffic accounting with users and maintenance | `MCLedger` | `LedgerProofs` |
| `Tunnel` | one VLESS tunnel | `MCEndings` | `EndingsProofs` |
| `DnsScan` | resolver scans: ranges, tick chain, cron | `MCEndings` | `EndingsProofs` |
| `Dialogs` | deploy wizard and panel flows of one user | `MCParts` | `BotProofs` |
| `Chat` | views and buttons of the bot | `MCParts` | `BotProofs` |
| `Access` | login links, sessions, connecting an API token | `MCParts` | `OneTimeProofs` |
| `Gate` | webhook admission and rate limit | `MCParts` | `OneTimeProofs` |
| `OneTime` | abstract: a token that is honoured once | refined by `Access` and `Gate` | `OneTimeProofs` |
| `Cloud` | panels and Omni nodes on the tenant's account | `MCParts` | `PartsProofs` |
| `Drops` | WhiteHole drops and donated keys | `MCParts` | `PartsProofs` |
| `Install` | the bootstrap script on the VPS | `MCParts` | `PartsProofs` |
| `Sleeper` | command queue and beacon of a sleeper node | `MCParts` | `PartsProofs` |
| `Devices` | device limit of one user | `MCParts` | `PanelProofs` |
| `Radar` | network measurements and what is said from them | `MCParts` | `PartsProofs` |

`MCEndings` and `MCParts` check several modules in one run: `part`, chosen at the
start, says which component moves and the others keep their initial state. This
loses nothing, because the components share no state in the code (where they do
meet, through a deployment's rows, the shared part is in `Deployments`). A
component whose initial state is a choice makes it only when it is the one that
moves.

Common conventions: an action is what the code does between two awaits that
another process can observe, so one D1 statement or batch, one Durable Object
call or one call to an outside service. Handlers are split into actions named
after the handler (`RotateSubRead`, `RotateSubLoad`, `RotateSubUpload`,
`RotateSubWrite`); `pc` is where a request waits. Variables commented
*history* are not in the code. `MaxX` constants are bounds. Definitions marked
*Mutant* are broken variants used to show that a property can fail.

### Deployments

State: `dep`, `secret`, `boot`, `conn` are the rows of the four tables, `plane`
the script each site serves, `proc` the requests and workflow instances in
flight with their locals. `fresh` numbers random tokens; a token and its SHA-256
are one number.

Handlers of `deployments.ts`, `agent.ts`, `api-token.ts` and `oauth.ts` start in
`Arrive`, continue in `ReqStep`; the workflow is `WfStep`, with every step body
repeated from its start on failure and `WfCatch` for the catch block; `Erase` is
`disconnectConnectionIfIdle`, called at many ends. Outside calls may fail before
or after taking effect: `SpawnUnseen` is `startWorkflow` failing behind a create
that was carried out, after which `CreateFailed` or `RevokeFailed` runs beside the
workflow. `Kill` stops a request at any await (a D1 statement that throws outside
every `try` does the same), `WfLoadFails`, `WfEraseFails` and `WfDies` are the steps
of the workflow whose own failure nothing catches. `cut` and `crossed` are history:
deployments whose revocation lost its process, and those whose revoke workflow was
started by a request that took the start for failed.

Assumed: D1 statements and batches are atomic; foreign keys are enforced; several reads of one
handler before its first write are one action; `workflow_instance_id` is never
read and left out; agents' reports only insert rows.

### PanelAuth

State: the stored password (`hash`), session rows, the Guard's storage by object
and key, requests in flight. A Guard call is one action, because a Durable Object
gets no other event while it waits for its storage. Windows and bans end by
actions of their own. An absent and an empty `admin_hash` are one value: every
reader tests only whether it is truthy.

### Ledger

State: user rows (presence, active, expired, used), `daily` (usage_daily), the
tunnels' counters, and of the object `dirty`, the flushes in flight, `timer`
(`flushTimer`) and the stored `alarm`. Bytes are counted in chunks, upload and
download in one total. Time advances by `Tick`; `flushTimer` clears no later than
the alarm that a flush started with it sets. `conns`, `requests_used`, the day and
the pruning of old days are left out, and so is a replacing backup import. A
request that creates a user may name `used_bytes` (`Given`; numbers below zero,
which the code accepts too, are left out). D1 either refuses a batch, carries it out,
or carries it out and its answer is lost (`FlushAnswerLost`); the object cannot tell
the first from the last and puts the numbers back (`PutBack`). Histories: `relayed`,
what was put back although D1 had it (`again`), what will never be recorded (`gone`:
lost reports, an evicted object, an upload whose write returns after its tunnel's
report), and the usage a row was created with, relative to `usage_daily` (`base`).

### Devices

State for one user: age of each entry of the map, open tunnels, reports on their
way. Ages beyond the window are not told apart.

### Tunnel

State: the WebSocket, the ReadableStream's queue, the sink's pending write,
`openTunnel`'s position, the queue for early frames, the remote socket, the pump
and the report. External behaviour used: a WritableStream calls `write` again only
after the last one settled, and `close`/`abort` only when none is pending. A frame
arrives as a buffer, which enters the stream at once, or as a Blob, which `toBytes`
reads in its own time (`Convert`, `ConvertFails`); `entered` is the history of what
entered the stream, in the order in which it did.
The write branch that queues a frame in `pendingChunks` is modelled and never taken:
the stream itself already serialises writes (proved, as part of `ControlInv`).

### DnsScan

State: the rows of `dns_scan_ranges` (live, cursor, finished, quiet for longer
than the stall time), how often each wave of a range is stored, the range messages,
tick invocations and cron run in flight. A tick is `StartTick`, `Wipe`, then
`StoreWave` and `Mark` per wave, `FinishRound`, `Summary` and `Chain`, the
self-fetch that starts the next tick; `ChainTwice` is a self-fetch that was carried
out with its answer lost, `Kill` an invocation the platform stops. The cron run is
`CronSelect`, `CronProbe`, `CronStore`, `CronPurge`, `CronLive`. `tainted` records
which disturbances a round met, so that the properties can say what each may cost.
The rows a cron query returned are a set of at most `DueLimit` or `LiveLimit` ranges
(`Earliest`), taken oldest first (`Oldest`): the queries order by `created_at`, and ids
are given in that order. Other tenants, whose ranges share the two limits, are left
out.
Addresses of a wave are one unit; parsing of ranges and the probe are left out.

### Dialogs

State: the user's rows of `telegram_wizards` and `telegram_flows`, the prompt shown
last, and one handler that has read its row and not yet written it back
(`Load`/`Resume`), or has saved the firewall choice and not yet shown the summary
with it (`SaveChoice`/`ShowChoice`); other updates are handled meanwhile in one step
(`Overtake`). The history `late` marks rows, prompts and summaries of overtaken
handlers, until the next one in order.
Any button of an earlier message may be pressed at any time, as Telegram keeps
them. Validation is accept or reject. `LaxBind` is how D1 treats `saveWizard`'s
seventh value for six placeholders: TRUE ignores it, FALSE lets every save fail and
there is no wizard to check.

### Chat

State: `rows` (the tenant's deployment, connections, panel, node, donated key),
`asks` (the flow that waits for the domains of a white list), `msg` (the message whose
button is pressed next) and the history `did` (what the last press took away and from
which view, or which button it refused). What a press takes away is read off the rows
before and after it (`Gone`), whichever branch of the dispatch did it; only a changed
password or subscription and a cleared drop, which `rows` does not show, are named by
the branch. A view is the set of its buttons, named as their `callback_data`; one
operator per renderer, one `...Press` operator per branch of the dispatch. The
deployment's guards are those of `deployments.ts`, its progress is
`Elsewhere`, the typed answer that ends a white list `WhiteAnswer`. A disconnect is
refused while a deployment needs the connection (`Busy`), which the list of connections
does not look at. `protect_content` belongs to a message: an edit keeps it, a send sets
it, a failed edit falls back to a send.

### Access, Gate and OneTime

`OneTime` is what a single-use token promises: marked once, granted at most once
and only after the mark, possibly never. `Access` refines it with `marked` = the
`login_links` rows that are used and `grants` = the sessions each link opened;
`Gate` with `marked` = `telegram_updates` and `grants` = how often the bot acted on
an update. In `Access` a request moves from its SELECT to its compare-and-set UPDATE to
its INSERT, or from the verified API token through COUNT to INSERT. In `Gate` an
invocation inserts the update_id, tests the age, upserts and reads the bucket and
acts; Telegram repeats what was not acknowledged. Time is counted in windows.

### Cloud

State: `panel_deployments` with the invocation that works on each row, the scripts
of the account by name with their KV bindings, and the Omni nodes. Every call
may be refused, carried out with its answer lost (`blurred`), or be the last of its
invocation. Deletion of a panel removes the record only, as in the code; deletion
of a node drops worker, database and row in this order.

### Drops

`hole`: TXT records of each zone, publish and clear calls record by record, and
`Fetched`, what the reader's script assembles. `gifts`: donations by fingerprint
with their ciphertext rows; `SelectPurge`/`Purge` and `BeginWithdraw`/`Withdraw` are
the two statements of the code.

### Install

State: the files and units the script leaves on the VPS, the run in progress, and
the deployment as the control plane has it. A generation names the keys of one run.
A step may fail (`set -e` ends the script), be killed, or lose the answer of
`/complete`. One run at a time.

### Sleeper

State: the role, the queued commands in order, the TXT records of the beacon's
name, and the requests between their statements: `InsertCommand`, `SelectPending`
(the newest waiting command), `FindRecord` and `PublishRecord` (`upsertTxtRecord`,
which may create a second record), `ConsumeCommands` (all waiting ones). `WakeUp` is
the script on the node in its window; `Fields` and `Parsed` are how it splits the
record's text.

### Radar

One row of each table: the clean-IP average (`MergeClean`, `Blend`), the race
between tunnel and direct, the crowd's MTU, a cell of the map, the probes and
agent reports of one node, and the registry refresh of overlapping cron runs.
`RankedLatency`, `RankedStatus`, `RoutedDirect`, `MtuSuggestion`, `MapVerdict` and
`NetMode` are what the code says from them. Latencies are small numbers, times are
age classes. What a client sends goes through the parsers: `ParsedPing` and `ParsedOk`
(`Number()` reads null, an empty string and false as 0, which is then a reached
address), `ParsedSide` (a negative number is cut to 0). The histories keep what the
parsers gave (`heard`, `blank`, `won`) apart from what was measured (`pinged`, `timed`).

## 3. Runs

Passing:

| Run | Question |
|---|---|
| `races` | is a bootstrap token accepted at most once, and does a row with an agent keep node credentials, while completions, a new token and a rotation overwrite each other |
| `shared` | is the API token erased by the last of two deployments that need it, and does a retry ever bind a connection of another zone |
| `serial` | do status, script and credential agree when requests come one at a time, with every failure |
| `progress` | do revocations end and are tokens erased in the end |
| `auth` | which sessions can survive a password change (only logins it overtook, or a setup that overwrote it), and how many wrong passwords does the Guard let through |
| `ledger` | where is every relayed byte, after lost answers, reports and evictions; is nothing stuck in the map; do flushes of old traffic, resets, deletions and new rows keep used below recorded usage |
| `ledger_drain` | where is every relayed byte when two users share a flush that fails, and does the object drain |
| `endings` | tunnel: frames leave in the order in which they entered the stream, single report, no socket left, termination; scans: an undisturbed round stores each wave once, a killed one is resumed without a hole, every live scan ends but for one window |
| `parts` | one to three questions for each of eleven components, below |

What `parts` asks: `AnswersAsked`, `ConfirmedWasShown` (a text reaches the step
that asked, a deployment is created from what was shown, behind overtaken handlers
excepted); `SecretsProtected` (bootstrap commands, subscription links, node
passwords, VIP links), `DestroyedAfterQuestion` (deployment, connection, panel record,
subscription links; six other buttons act at once, see below), `OfferedIsAccepted` (a
fresh button is refused only for a connection in use); `LinkOpensOnce`, `UpdateActsOnce` (refinements of `OneTime`); `OverrunByOverlap` (how far overlapping
requests exceed the connection limit); `LimitUnlessReset` (the rate limit holds
unless a late request took the bucket back); `ListTellsTruth` (panels and nodes);
`SecretErased`, `PublishedIsThere` (donations and drops); `MarkedIsWhole` (a VPS with
the marker agrees with the control plane); `ConsumedWasPublished` (refused and lost
writes never cost a sleeper's command); `WindowedLimit` (at most `Limit` devices
are let in within the window); `OnlyReported` (what is shown of the
network stays within what reports gave, as the parsers read them).

Of the type invariants, those of `Deployments` and `Ledger` are invariants of their
runs and proved; those of `Access`, `PanelAuth`, `Tunnel` and `DnsScan` are proved.
The proofs of the other modules carry the types they need in their inductive
invariants; their type invariants hold in the configurations and are not repeated
there as properties.

Violations, each a disagreement between the code and what the repository says of
it (quotes in `PROJECT.json`, "findings"):

| Run | What happens |
|---|---|
| `revoke_race` | finalize publishes after revoke disabled the site: status revoked, profiles served |
| `auth_change` | a login in flight survives a password change |
| `ledger_batches` | a failing second batch charges the first one again |

### Deviations without a run of their own

The modules also state claims of comments and docs that the code does not keep
and that no listed run checks. Each gives a short counterexample when it replaces
the properties of the configuration named here.

| Claim | Start from | What happens |
|---|---|---|
| `Deployments!DeleteSparesLiveNode` (comment, `deployments.ts:378`) | `revoke_race` | a failed revocation leaves a published node `failed`, which may be deleted |
| `Deployments!EraseSparesActive` (error text, `oauth.ts:31`) | `races`, budget: one connect, create, disconnect | a disconnect erases the token of a deployment created after its count |
| `Deployments!WithinConnLimit` (`docs/SECURITY-FA.md:40`) | `races`, four connections, budget: four connects | two connects at count two leave four |
| `Deployments!ShownLinkWorks` (`tests/subscription-rotation.test.ts:139`) | `races` | an upload applied but answered with an error leaves a dead link on display |
| `PanelAuth!SetupNeverOverwrites` (comment, `api/auth.js:15`) | `auth`, budget: two setups | the second of two first-run setups replaces the first |
| `PanelAuth!UnbanLiftsBan` (comment, `auth/guard.js:32`) | `auth` | the unban clears a different object and key than the login's |
| `Ledger!NeverOvercharged` with a single batch (comment, `auth/guard.js:92-93`) | `ledger` | a batch that D1 commits and whose answer is lost is put back and charged again (line 199) |
| `Ledger!NothingLost` (comment, `auth/guard.js:92`) | `ledger` | an eviction loses the in-memory totals; an upload that returns after `finish` is never reported |
| `Ledger!OpensOnlyAdmissible` (`docs/AUDIT.md:85`) | `ledger` | `admit` is never called, so a disabled or expired user opens a tunnel |
| `Devices!ConcurrentLimit` (comment, `auth/guard.js:96`) | `parts` | a device with a tunnel older than five minutes is forgotten |
| `Devices!RefusalMeansFull` (`docs/DEPLOY.md:305`) | `parts`, `Limit = 1` | refused devices occupy the limit |
| `Tunnel!ClosedAlwaysFinishes` (comment, `proxy/vless.js:289`) | `endings` | a silent relay, or a destination that stops reading, keeps a closed tunnel from finishing |
| `Tunnel!InOrder` (comment, `proxy/vless.js:349-350`) | `endings` | each Blob is read for itself (line 363) before it enters the stream, so a frame overtakes the one sent before it |
| `Tunnel!UdpDegrades` (comment, `proxy/udp.js:60`) | `endings` | UDP headers throw: `createUdpForwarder` is not imported |
| `DnsScan!LiveScanEnds` (comment, `dns-center.ts:354-355`) | `endings` | a kill between the last cursor write and `finished_at` leaves a live range no query selects |
| `Dialogs!SummaryIsConfirmed` ("check and confirm", `telegram-wizard.ts:176`) | `parts`, `MaxOvertake = 0` | an old "default SNI" button (`telegram.ts:3037-3047`) changes the SNI behind the summary that is confirmed |
| `Dialogs!TokenReachesAsker` (prompt of `omni:connect:chat`) | `parts` | the wizard is left open and takes the token as its answer |
| `Chat!ConfigsProtected` ("protected message", `telegram.ts:2162`) | `parts` | typed domains of a white list send the resolver configuration unprotected (`telegram.ts:2439`), which the button sends protected |
| `Chat!EverythingAsked` | `parts` | `kaveh:del`, `kaveh:token`, `kaveh:recover`, `wh:clear`, `donate:wd` and `donate:no` act without a question |
| `Chat!EnvironmentProtected` (`telegram.ts:344-345`) | `parts` | a command sends the list of connections, a page of the private environment, unprotected |
| `Cloud!RepairKeepsBindings` (comment, `panel-deploy.ts:449-470`) | `parts` | with one of two bindings missing, the repair writes that one and drops the other |
| `Drops!ReaderDecodes` (`whitehole.ts:11-13`) | `parts` | a shorter drop leaves the old tail; the reader ignores the count, and longer payloads are cut at the last shard |
| `Install!ReportsWhatIsServed` | `parts` | a run repeated after an accepted completion replaces the keys, is refused, and the old timer goes on reporting |
| `Sleeper!BeaconObeyed` (comment, `sleeper.ts:17-18`) | `parts` | the record holds start, end and command behind its mark, and the script takes the fourth field (`agent.ts:624`): no command is ever carried out |
| `Sleeper!ConsumedIsReadable` (comment, `sleeper.ts:12-15`) | `parts` | a refresh of the beacon before the node wakes up overwrites a command that is already consumed |
| `Radar!PingWasMeasured` ("Values are clamped, never invented", `clean-ip.ts:148`) | `parts` | `Number()` reads an empty latency as 0 (line 158): shown as 0 ms, verified |
| `Radar!UnmeasuredIsNoPing` (comment, `clean-ip.ts:181-183`) | `parts` | -1 is averaged into a measured latency |
| `Radar!DirectWasMeasured` (`domestic-race.ts:13`) | `parts` | a negative number counts as 0 ms and wins the race for the direct path |
| `Radar!MtuIsCurrent` | `parts` | the largest MTU ever reported stays for as long as anything is reported |

One more is visible in `PanelAuth!Hit` itself: three refusals in one window ban an
address, where the comment at `auth/guard.js:74` speaks of three windows.

Behaviour the models contain and no property judges, since nothing in the
repository promises otherwise:

* Bot: the update_id is recorded before the update is handled, so a kill loses
  the update; two overlapping presses of confirm create two deployments, and a slow
  handler writes back a wizard row another one cleared, which may then take a
  panel's token or password as a field, or create with a firewall choice that was
  replaced on the screen (the exceptions of `AnswersAsked` and `ConfirmedWasShown`);
  a stale button of the map records defaults; a connection in use is offered for
  disconnection and refused; `v13:dnsb:slip:dom` is read as a connection id.
* Deployments: a deployment that is bound to another connection, or deleted, while
  another process works on it parts that process from its row. The COUNTs of both
  then miss one another, and a token no deployment needs is kept until it expires
  (`abandoned` in `NoIdleCredential` records exactly these, those behind a request
  that failed, and those whose process was killed).
* Deployments: a revocation whose workflow was created although `startWorkflow`
  failed is answered by writing the old status back, so a deployment may show "ready"
  while its site is being disabled (`crossed` in `ReadyIsPublished`); one killed
  between `deployments.ts:415` and 419, or whose catch block cannot write, stays
  "revoking" for ever (`cut` in `RevocationEnds`).
* Access: a connect form posted twice makes two connections; a connect link also
  opens `/login`. In the rate limiter overlapping requests deny one another.
* Cloud: a kill leaves a row `provisioning`; a lost upload answer leaves a `failed`
  row beside a running worker; two panels of one name replace each other; a
  Cloudflare deletion that fails leaves worker and database without a row; a retry
  after a lost answer leaves a node without a VIP link.
* Drops: an approval is not conditional on the status, so a withdrawn donation may
  end approved without a ciphertext; a clear after the zone changed acts on
  the new zone.
* Install: the answer of `/complete` may be lost, and the retry is refused because
  the token is used, so a node that was accepted never reports; a failure leaves
  `complete.json` behind. The MTU probe is called before the script that defines
  it is written.
* DnsScan: a live range is scanned once and not every 30 minutes; a lost self-fetch
  answer starts two chains; between the INSERT and the write of
  `live_message_id` the cron may probe the range too.
* Radar: `samples` of a race counts one-sided reports; refreshes that overlap
  midnight may show a day newer than the ranges they serve.

Bounds. A behaviour is cut by the budget of requests per kind (`MaxReq` in the MC
modules), never by a state constraint. Races in this code involve two requests or a
request and a workflow on one row, so two slots of each and one or two rows suffice
for each of them; `MaxTok` is the number of tokens the budget can draw and never
blocks. `MaxReq["lost"]` bounds kills, lost create answers and final failures of D1:
two where requests do not overlap (`serial`, `progress`), one in `shared`, none in
`races` and `revoke_race`, whose properties a lost process disturbs no further than a
request that stops there. The `serial` run asks a different question: is the
sequential behaviour right.
`auth` has an attempt limit of one and four logins, the fewest that reach a ban.
`ledger` has one user, whose row the administrator and maintenance change twice,
`ledger_drain` two; both have two tunnels and two overlapping flushes. In `ledger` a
batch loses its answer (which puts back more than a failure does), in `ledger_drain`
another fails. `BatchStmts`
4 is "all dirty users fit in one batch" (50 in the code), 2 is "they do not"
(`ledger_batches`). `Devices` has one device more than the limit and a window of two
ticks. `Tunnel` sends four frames, each a buffer or a Blob: header, two forwarded, one
more for the end.
`DnsScan` has a range and its replacement, two waves (one middle and one last), a
cron chunk of one wave so that a range takes two cron runs, two ticks so that a
chain meets its double or the resumed one, and one fault. In `parts`: `Access` has
one request more than the limit of two connections and two links, so login and form
can meet on either; `Gate` has three updates for a limit of one, two invocations and
two windows, the fewest in which a late request takes the bucket back; `Cloud` has
two attempts on two names, so that names are shared or not; `Drops` two zones, two
calls, and payloads below, at and above the number of shards; `Install` three runs
and two tokens (a first run, its repetition, a run with a new token); `Dialogs` the
combinations of dialogs that interact, two of the wizard's five text steps, which
are handled alike, and one overtaking update; `Chat` no bound but
one connection (a second only adds the choice of one; `BotProofs` has any number);
`Sleeper` two requests and two commands, so that one is queued while the other is
published; `Radar` latencies below, at and above the threshold, zero among them, and enough
reports for an average of averages to drift.
`CHECK_DEADLOCK FALSE` is set where the budget is used up and nothing need happen
any more.

Symmetry is used on request and workflow slots, sessions, passwords, tunnels and
flushes in `races`, `shared`, `revoke_race`, `auth`, `auth_change`, `ledger`
and `ledger_batches`, never in runs with liveness and never on sets a `CHOOSE` looks into.

Fairness. `Deployments`: weak fairness of handlers, of the erase, of token expiry
and of the five-minute cron; strong fairness of leaving a workflow step, since
`STEP_CONFIG.retries.limit` bounds the retries. A handler may be killed instead
(`Kill` itself is not fair), and nothing takes up its work. `Ledger`: reports arrive, D1
answers, alarms fire and time passes; nothing is assumed of clients and admins.
`Tunnel`: the stream machinery, DNS (`AbortSignal.timeout`) and `connect` (raced
with a timeout) come to an end, and so do the writes to a socket that was closed.
Nothing is assumed of the client, of the reading of a Blob, of the destination's
answers, of a relay, or of a write to a destination that is open, which all lack a
timeout in the code; `ClosedFinishes` therefore speaks of the tunnels that do not
wait for one of the last two for ever (`Waiting`). `DnsScan`:
an invocation that is not killed runs on (kills are bounded by `MaxFault`), the
cron is triggered every five minutes and its stages run one after the other, and a
range nobody works on becomes quiet as time passes. Nothing is assumed of the user.
The other parts have no liveness property: their requests may be killed anywhere
and nobody takes them up again.

## 4. Proofs

Every safety property of the passing runs is also a theorem, for any sets and
bounds, from the named assumptions of the modules. Each proof has the same shape:
an inductive invariant that contains the property, one lemma per action or group of
actions that preserves it, and a last step that combines them. The strengthening is
where the argument is, so it is given here.

**Deployments** (`DeploymentsProofs`, `DeploymentsInvariants`)

* `TypeCorrect`: inductive because every local a process carries is typed.
* `TokensUsedOnce`: `BootInv` adds that an unconsumed token is a number already
  drawn that was never used, and that undrawn numbers have no uses.
* `ConnectionsStayInBoundary`, `AgentsKeepBundle`: both depend on values read before
  an await and written after it, so `LocalInv` carries the same facts for the locals
  of every process in flight.
* `RevokedStaysDisabled`, `ReadyStaysPublished`: under `Serial`, one request at a
  time with every failure. Without that hypothesis both are false (run
  `revoke_race`). `SerialInv` says what the row and the site are while a process is
  at a label (`Placed`): the status it works under and, where it is about to write
  "ready" or "revoked" or to write a status back, what the site serves. `Alone` says
  that nothing is beside the process but the end of a request that took the start of
  its workflow for failed, which writes no status the workflow relies on.
* `CredentialsDoNotIdle`: for any overlap. `CredInv`: somebody looks after every
  row's connection. It is not live, or abandoned, or an active deployment needs it,
  or some process `Covers` it: one that has yet to read the row's connection, or
  one behind that read which ends in `disconnectConnectionIfIdle`. `Held` ties what
  a process remembers to the row it will write. The attempt to prove the property
  without exceptions for rebinding and deletion under another process failed for a
  reason: those executions do leave a token (section 3, last list).

**Ledger** (`LedgerProofs`)

* `LedgerTypeCorrect`; `PendingAlwaysScheduled` with `TimerCovered`: while
  `flushTimer` keeps reports from starting a flush, one is in flight or an alarm set.
* `ChargesAreRecorded`: inductive with the types and with a bound that is not
  negative (`UsedInv`), since a reset sets `used_bytes` to 0.
* `EveryByteIsAccounted`: conservation, without a condition. `Known(u)` is the sum
  of what is recorded, unwritten, taken by flushes, counted by tunnels and gone; every
  step changes it by what was relayed and by what was put back although committed
  (`Balanced`). The sums are `SumFunction` of the community modules; the lemmas on it
  (adding to one entry adds to the sum) rest on the recursion of its fold, established
  once for finite sets. So a user is overcharged exactly by `again`, which the runs
  `ledger_batches` shows to be reachable, and undercharged exactly
  by `gone`.

**Panel sign-in, Guard, device limit** (`PanelProofs`)

* `PanelTypeCorrect`. `SessionsFollowPassword`: `SessionInv` adds that a request
  between its read of the password and its INSERT carries the stored one unless a
  write overtook it, and that no request carries "no password".
* `GuessesAreBounded`: `GuardInv` adds the attempts that are being verified: wrong
  passwords so far plus these are at most the count, capped at the limit, plus the
  requests already past the Guard when the counter started.
* `DeviceLimitKept`: `DeviceInv` says that the map still holds every device let in
  within the window, so its size bounds theirs. Without an outage of the object.

**Tunnel and scans** (`EndingsProofs`)

* `TunnelTypeCorrect`, `FramesInOrder`, `TunnelReportsOnce`, `SocketsClosed`:
  `ControlInv` relates the positions of `openTunnel`, sink, source, pump and remote
  socket (only one of them can be at work before the first frame is out, and
  `finish` is reached with no open under way); `OrderInv` says that the frames at the
  destination, the one in the sink and the queued ones are, in this order, those
  that entered the stream from the first on; `SentInv` bounds them by what was sent.
* `BuffersInOrder`: for a client without Blobs `BufferInv` adds that every frame
  entered when it was sent, so the order is the client's. With Blobs it is not
  (`InOrder`, section 3).
* `ScanTypesHold`, `RoundsAreExact`, `ResumedRoundsCover`: `ScanInv`. The cursor
  tells what is stored: `StoredTo(r, n)` is "the first n waves, and in an
  undisturbed round once and no others", and `OnTrack` says for each label of a
  tick for which n it holds (the cursor, one more between the insert and the cursor
  write, all at the end), `AtRest` for a range without a tick. `IdsInv`: an id
  belongs to one message, and nothing works on a range before its INSERT.
  `CronInv`: a range the cron selected has cursor 0 unless something disturbed
  it, so its chunk is never empty and its write always follows a wave it stored,
  which is a disturbance itself. A tick's step is first shown to be a step on one
  range (`TickEffect`), so that the rest of the invariant is a frame.

**Bot** (`BotProofs`)

* `TextsReachTheirStep`, `ConfirmedIsShown`: `DialogInv`: the last prompt and the
  last summary belong to the open rows, as long as neither is late, and a waiting
  handler holds rows of which the same was true when it read them; while nothing overtook it (`n = 0`) they are still the rows.
* `NoButtonIsDead`, `SecretsStayProtected`, `DestroyedOnlyWhenAsked`,
  `RefusedOnlyWhenStale`: `ChatInv`: the message pressed next has only buttons the
  dispatch knows, the yes buttons only in question views, protection where it
  holds a secret, and, while it is fresh, only buttons the rows accept (a disconnect
  apart). That a press outside a question leaves deployment, connections, panel and
  subscription as they are is shown of every branch (`Keeps`). One lemma
  per group of the dispatch shows that each press leads to such a message (`Safe`).

**Other parts** (`PartsProofs`)

* `MarkedVpsIsWhole`: `InstallInv` lists, step by step, what the run has brought
  into agreement; the marker is written last.
* `SecretsAreErased`: inductive with the types. `PublishedDropIsThere`: `CallInv`: an
  unmixed publish owns the records it has written so far, and two calls that move in
  one zone are mixed.
* `ConsumedAfterPublication`: `SleeperInv`: a publishing request covers every waiting
  command that was not queued past it, and its command was in the record by the time
  it consumes.
* `ListIsTrue`: `PanelInv` (a script is the work of an attempt that chose its name;
  an attempt past its upload has one, one alone with its name has none before) and
  `NodeInv` (database and worker come before the row and go after it is leaving).
* `NothingBeyondReports`: per table, what its verdict rests on (`CleanInv`, `RaceInv`,
  `CellInv`, `EyesInv`, `RangesInv`); a rounded average of two integers stays between
  them (`BlendBetween`).

**One-time tokens and limits** (`OneTimeProofs`)

* `LinksAreOneTime`, `UpdatesAreOneTime`: `Access` and `Gate` implement `OneTime`.
  `LinkInv`: a request behind its compare-and-set is the only one on its link, which
  is used and has opened nothing; `UpdateInv` the same of an invocation and its
  update. Then every step maps to `Mark`, `Grant` or a stutter.
* `OverrunBounded`: inductive with the types; the COUNT that passes adds one to the
  requests that overlap and to the bound alike.
* `LimitKept`: `LimitInv` keeps, for a window the bucket began once, a hit for every
  request let through and for every one that counted and has not looked yet.

Assumptions on constants, beyond types: the sets of requests, users, tunnels,
flushes and devices are finite where they are counted (at any time there are
finitely many); `Req` of `PanelAuth` is not empty; the name of no attempt is
"nobody", which `Cloud` uses for a script without one; `TextStep` of `Dialogs` lists
distinct text steps of the wizard. Where a loop takes the oldest row or a case
distinction has an order, the model says so with a least element (`Oldest`) or with
exclusive conditions; that there is a least element is proved from the
well-foundedness of `<` (`LeastNatural`).

Checked by TLC only: the liveness properties `RevocationEnds`, `CredentialsErased`,
`Drains`, `ClosedFinishes` and `ScanEndsUnlessCut`, since fairness and `ENABLED` are
outside the prover. The violations are counterexamples and need no proof.

## 5. Plan

1. Abstract specifications: of a deployment (absent, provisioning, served, retired)
   with `Deployments` in its serial form as refinement, from `SerialInv`; of the
   ledger (a counter per user) with `Ledger`, from `Balanced`; of a round of a scan,
   from `ScanInv`.
2. Action properties: a used token, a closed donation and a finished tunnel never
   come back.
3. The replacing backup import and the one-flight schema upgrade of the panel.

## 6. Not modelled

Rendering of scripts, profiles, packs, pages and chat texts, and the panel's
generator of client configurations: text, in which no order of events matters.
Cryptography: a hash is injective, encryption a black box. Parsing of HTTP, VLESS,
DNS and CIDR ranges beyond accept or reject. The records and scripts of the DNS
tunnel helper, loss and poison reports and the hints derived from an address: one
writer each, last write wins. The panel's router, settings, statistics and front
end, the development server and the release scripts. The panel's backup import and
schema upgrade, and adding users to an Omni node
through the agent channel are left for later (Plan). Two runs of the bootstrap
script at once on one VPS are not considered.

Failures of D1 itself stop a handler as a kill does, and are covered where
`Killed`, `Kill` and the like are actions.
