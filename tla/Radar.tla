-------------------------------- MODULE Radar --------------------------------
(***************************************************************************)
(* What the control plane says about the network, and the measurements it  *)
(* says it from: the clean-IP radar, the race between tunnel and direct,   *)
(* the crowd's MTU, the censorship map, the two eyes on a node (edge       *)
(* probes and agent reports) and the national ranges of the registry.      *)
(* Everything is a row that reports are merged into, that ages, and that   *)
(* the cron removes; one row of each table is modelled, and the tables     *)
(* share nothing.  A latency is a small number, a time is an age class.    *)
(***************************************************************************)
EXTENDS Integers, Sequences, FiniteSets, SequencesExt

CONSTANTS Pings,        \* latencies a client may report
          SlowPing,     \* above it an address is degraded
          MaxReports,   \* bound: reports merged into one row
          MaxProbes,    \* bound: probes in the six-hour window
          Ranges,       \* address ranges of the registry
          Crons,        \* scheduled invocations, which may overlap
          MaxDays       \* bound: days

ASSUME RadarAssumption ==
  Pings \subseteq Nat /\ SlowPing \in Nat /\ MaxReports \in Nat /\ MaxProbes \in Nat /\ MaxDays \in Nat

VARIABLES clean,        \* clean_ip_reports of one address, operator and city
          race,         \* race_reports of one domain
          mtu,          \* mtu_reports of one operator and city
          cell,         \* map_reports of one operator and city, in the window
          eyes,         \* edge_probes and agent_reports of one deployment
          registry,     \* geoip_ir_current and rir_ir_snapshots
          refresh       \* refreshGeoipIr of every scheduled invocation
crowdVars == <<clean, race, mtu, cell>>
registryVars == <<registry, refresh>>
radarVars == <<crowdVars, eyes, registryVars>>

Unmeasured == -1
Measures == Pings \union {0, Unmeasured}
Ages == {"fresh", "stale", "expired"}
NoCleanRow == [reports |-> 0, latency |-> Unmeasured, oks |-> 0, age |-> "fresh",
               heard |-> {}, pinged |-> FALSE, blank |-> FALSE]
NoRaceRow == [direct |-> Unmeasured, tunnel |-> Unmeasured, winner |-> "tie", samples |-> 0,
              expired |-> FALSE, won |-> FALSE, timed |-> FALSE]
Quiet == [at |-> "idle", day |-> 0, text |-> {}]

RadarInit ==
  /\ clean = NoCleanRow
  /\ race = NoRaceRow
  /\ mtu = [size |-> 0, samples |-> 0, live |-> {}]
  /\ cell = [up |-> 0, down |-> 0]
  /\ eyes = [ready |-> FALSE, probes |-> <<>>, agent |-> "none", fresh |-> FALSE]
  /\ registry = [current |-> {}, today |-> 1, days |-> {}, last |-> {}]
  /\ refresh = [c \in Crons |-> Quiet]

RadarTypeOK ==
  /\ clean.latency \in Int /\ clean.reports \in 0 .. MaxReports /\ clean.oks \in 0 .. MaxReports
  /\ clean.age \in Ages /\ clean.heard \subseteq Measures
  /\ race \in [direct : Measures, tunnel : Measures, winner : {"direct", "tunnel", "tie"},
               samples : 0 .. MaxReports, expired : BOOLEAN, won : BOOLEAN, timed : BOOLEAN]
  /\ mtu \in [size : Pings \union {0}, samples : 0 .. MaxReports, live : SUBSET Pings]
  /\ cell \in [up : 0 .. MaxReports, down : 0 .. MaxReports]
  /\ eyes.probes \in BoundedSeq({"fast", "slow", "error", "dead"}, MaxProbes)
  /\ eyes.agent \in {"none", "healthy", "degraded", "failed"}
  /\ registry.current \subseteq Ranges /\ registry.days \subseteq 1 .. MaxDays
  /\ \A c \in Crons : refresh[c].at \in {"idle", "fetch", "replace"}

-----------------------------------------------------------------------------
(* The clean-IP radar *)

(* parseCleanIpReport: what the client sent as latency. Number() reads      *)
(* "empty" (null, "" or false under "t") as 0; "none" is a missing value,   *)
(* one that is no number, or a negative one.                                *)
ParsedPing(sent, ms) ==
  CASE sent = "ms" -> ms [] sent = "empty" -> 0 [] sent = "none" -> Unmeasured

(* The ok of the report; one that says nothing is ok if it has a latency.   *)
ParsedOk(said, latency) == said = "yes" \/ (said = "unsaid" /\ latency >= 0)

\* Mutant: weights 0.8 and 0.4, which are more than one.
BlendTooMuch(old, new) == (8 * old + 4 * new + 5) \div 10

(* CAST(ROUND(old * 0.6 + new * 0.4) AS INTEGER), halves away from zero;    *)
(* -1, "could not measure", takes part in the average like any number.      *)
Blend(old, new) ==
  LET tenths == 6 * old + 4 * new
  IN  IF tenths >= 0 THEN (tenths + 5) \div 10 ELSE -((5 - tenths) \div 10)

(* recordCleanIpReport: one upsert, which also renews a row that expired    *)
(* and was not purged yet.  History: heard are the latencies averaged into  *)
(* the row, pinged is whether a client measured one of them, blank whether  *)
(* a report had none.                                                       *)
MergeClean(ping, ok, measured) ==
  /\ clean.reports < MaxReports
  /\ clean' = [reports |-> clean.reports + 1, oks |-> clean.oks + (IF ok THEN 1 ELSE 0), age |-> "fresh",
               latency |-> IF clean.reports = 0 THEN ping ELSE Blend(clean.latency, ping),
               heard |-> clean.heard \union ({ping} \ {Unmeasured}), pinged |-> clean.pinged \/ measured,
               blank |-> clean.blank \/ ping = Unmeasured]
  /\ UNCHANGED <<race, mtu, cell, eyes, registryVars>>

CleanReport(sent, ms, said) ==
  LET ping == ParsedPing(sent, ms)
  IN  MergeClean(ping, ParsedOk(said, ping), sent = "ms")

(* 24 hours make it stale, seven days expired.                              *)
CleanAges ==
  /\ clean.reports > 0
  /\ \/ clean.age = "fresh" /\ clean' = [clean EXCEPT !.age = "stale"]
     \/ clean.age = "stale" /\ clean' = [clean EXCEPT !.age = "expired"]
  /\ UNCHANGED <<race, mtu, cell, eyes, registryVars>>

PurgeClean ==
  /\ clean.age = "expired"
  /\ clean' = NoCleanRow
  /\ UNCHANGED <<race, mtu, cell, eyes, registryVars>>

(* rankCleanIps: latency and status of the row that is shown.  Loss is left *)
(* out: it is clamped to 0 .. 100 and never absent.                         *)
RankedLatency == IF clean.reports > 0 /\ clean.age = "fresh" THEN clean.latency ELSE Unmeasured
RankedStatus ==
  LET shown == clean.reports > 0 /\ clean.age = "fresh"
      risky == 2 * clean.oks < clean.reports
  IN  CASE ~shown -> "nodata"
        [] shown /\ risky -> "risky"
        [] shown /\ ~risky /\ RankedLatency > SlowPing -> "degraded"
        [] OTHER -> "verified"

CleanNext ==
  \/ \E sent \in {"ms", "empty", "none"}, ms \in Pings, said \in {"yes", "no", "unsaid"} : CleanReport(sent, ms, said)
  \/ CleanAges \/ PurgeClean

-----------------------------------------------------------------------------
(* The race between direct and tunnel *)

RaceWinner(direct, tunnel) ==
  IF Unmeasured \in {direct, tunnel} \/ direct = tunnel THEN "tie"
  ELSE IF direct < tunnel THEN "direct" ELSE "tunnel"

(* One side of parseRaceReport, cut at 0 from below; "none" is a value that *)
(* is no number.                                                            *)
ParsedSide(sent, ms) == CASE sent = "ms" -> ms [] sent = "negative" -> 0 [] sent = "none" -> Unmeasured

(* recordRaceReport: the winner is the one of this report, also when one of *)
(* its sides is missing and the stored value of that side stays.  History:  *)
(* won is a report whose parsed sides put direct first, timed one that      *)
(* really measured both.                                                    *)
RaceReport(direct, tunnel, measured) ==
  /\ race.samples < MaxReports
  /\ {direct, tunnel} # {Unmeasured}
  /\ race' = [direct |-> IF direct = Unmeasured THEN race.direct ELSE direct,
              tunnel |-> IF tunnel = Unmeasured THEN race.tunnel ELSE tunnel,
              winner |-> RaceWinner(direct, tunnel), samples |-> race.samples + 1, expired |-> FALSE,
              won |-> race.won \/ RaceWinner(direct, tunnel) = "direct",
              timed |-> race.timed \/ (measured /\ RaceWinner(direct, tunnel) = "direct")]
  /\ UNCHANGED <<clean, mtu, cell, eyes, registryVars>>

RaceExpires ==
  /\ race.samples > 0 /\ ~race.expired
  /\ race' = [race EXCEPT !.expired = TRUE]
  /\ UNCHANGED <<clean, mtu, cell, eyes, registryVars>>

PurgeRace ==
  /\ race.expired
  /\ race' = NoRaceRow
  /\ UNCHANGED <<clean, mtu, cell, eyes, registryVars>>

(* directRaceDomains: the domain is in the rule set that clients load.      *)
RoutedDirect == ~race.expired /\ race.winner = "direct" /\ race.samples >= 2

RaceNext ==
  \/ \E d, t \in {"ms", "negative", "none"}, direct, tunnel \in Pings :
       RaceReport(ParsedSide(d, direct), ParsedSide(t, tunnel), d = "ms" /\ t = "ms")
  \/ RaceExpires \/ PurgeRace

-----------------------------------------------------------------------------
(* The crowd's MTU: the larger one stays, and every report renews the row.  *)
(* live is history: the sizes reported in the last 24 hours; the row has    *)
(* expired when it is empty.                                                *)
MtuReport(size) ==
  /\ mtu.samples < MaxReports
  /\ mtu' = [size |-> IF mtu.samples = 0 \/ size > mtu.size THEN size ELSE mtu.size,
             samples |-> mtu.samples + 1, live |-> mtu.live \union {size}]
  /\ UNCHANGED <<clean, race, cell, eyes, registryVars>>

MtuForgets(size) ==
  /\ size \in mtu.live
  /\ mtu' = [mtu EXCEPT !.live = mtu.live \ {size}]
  /\ UNCHANGED <<clean, race, cell, eyes, registryVars>>

PurgeMtu ==
  /\ mtu.samples > 0 /\ mtu.live = {}
  /\ mtu' = [size |-> 0, samples |-> 0, live |-> {}]
  /\ UNCHANGED <<clean, race, cell, eyes, registryVars>>

MtuSuggestion == IF mtu.live = {} THEN 0 ELSE mtu.size

MtuNext == (\E s \in Pings \ {0} : MtuReport(s) \/ MtuForgets(s)) \/ PurgeMtu

-----------------------------------------------------------------------------
(* The censorship map: reports of one cell, which leave the window in the   *)
(* order they came; which of them leaves is left open.                      *)
MapReport(ok) ==
  /\ cell.up + cell.down < MaxReports
  /\ cell' = IF ok THEN [cell EXCEPT !.up = cell.up + 1] ELSE [cell EXCEPT !.down = cell.down + 1]
  /\ UNCHANGED <<clean, race, mtu, eyes, registryVars>>

MapForgets ==
  /\ \/ cell.up > 0 /\ cell' = [cell EXCEPT !.up = cell.up - 1]
     \/ cell.down > 0 /\ cell' = [cell EXCEPT !.down = cell.down - 1]
  /\ UNCHANGED <<clean, race, mtu, eyes, registryVars>>

(* aggregateMap and verdictFor: the ratio is rounded to hundredths before   *)
(* it is compared.                                                          *)
MapVerdict ==
  LET n == cell.up + cell.down
      percent == (200 * cell.up + n) \div (2 * n)
  IN  CASE n < 3 -> "nodata"
        [] n >= 3 /\ percent >= 80 -> "up"
        [] n >= 3 /\ percent \in 40 .. 79 -> "degraded"
        [] OTHER -> "down"

MapNext == (\E ok \in BOOLEAN : MapReport(ok)) \/ MapForgets

-----------------------------------------------------------------------------
(* The two eyes on a node *)

(* Elsewhere the deployment becomes ready, or stops being it.               *)
NodeChanges ==
  /\ eyes' = [eyes EXCEPT !.ready = ~eyes.ready]
  /\ UNCHANGED <<crowdVars, registryVars>>

(* runEdgeProbes: a cron tick fetches /healthz of every ready deployment;   *)
(* an answer counts with its latency, a timeout without one.                *)
ProbeEdge ==
  /\ eyes.ready /\ Len(eyes.probes) < MaxProbes
  /\ \E seen \in {"fast", "slow", "error", "dead"} : eyes' = [eyes EXCEPT !.probes = <<seen>> \o eyes.probes]
  /\ UNCHANGED <<crowdVars, registryVars>>

ProbeLeaves ==
  /\ eyes.probes # <<>>
  /\ eyes' = [eyes EXCEPT !.probes = Front(eyes.probes)]
  /\ UNCHANGED <<crowdVars, registryVars>>

(* receiveAgentReport, whatever the status of the deployment.               *)
AgentSays ==
  /\ \E status \in {"healthy", "degraded", "failed"} : eyes' = [eyes EXCEPT !.agent = status, !.fresh = TRUE]
  /\ UNCHANGED <<crowdVars, registryVars>>

AgentAges ==
  /\ eyes.fresh
  /\ eyes' = [eyes EXCEPT !.fresh = FALSE]
  /\ UNCHANGED <<crowdVars, registryVars>>

Seen(kinds) == Cardinality({i \in DOMAIN eyes.probes : eyes.probes[i] \in kinds})
OkProbes == Seen({"fast", "slow"})

(* edgeStats: the median is the element at half the length, rounded down.   *)
MedianIsSlow ==
  LET timed == Seen({"fast", "slow", "error"})
  IN  timed > 0 /\ timed - Seen({"slow"}) <= timed \div 2

(* classifyNetMode over edgeStats and innerStats: 0.8 and 0.4 of the probes.*)
NetMode ==
  LET n == Len(eyes.probes)
      edgeOk == 5 * OkProbes >= 4 * n /\ ~MedianIsSlow
      edgeDead == 5 * OkProbes < 2 * n
      alive == eyes.fresh /\ eyes.agent # "failed"
  IN  CASE n = 0 \/ ~eyes.ready -> "nodata"
        [] n > 0 /\ eyes.ready /\ edgeDead -> IF alive THEN "national-only" ELSE "blackout"
        [] n > 0 /\ eyes.ready /\ edgeOk /\ alive /\ eyes.agent # "degraded" -> "open"
        [] OTHER -> "throttled"

EyesNext == NodeChanges \/ ProbeEdge \/ ProbeLeaves \/ AgentSays \/ AgentAges

-----------------------------------------------------------------------------
(* The registry's national ranges *)

(* refreshGeoipIr: once a day, as far as a snapshot of the day exists.      *)
BeginRefresh(c) ==
  /\ refresh[c].at = "idle" /\ registry.today \notin registry.days
  /\ refresh' = [refresh EXCEPT ![c] = [Quiet EXCEPT !.at = "fetch", !.day = registry.today]]
  /\ UNCHANGED <<crowdVars, eyes, registry>>

(* A failed download, or a file without a usable range, keeps the old ones. *)
FetchRegistry(c) ==
  /\ refresh[c].at = "fetch"
  /\ \E text \in SUBSET Ranges :
       refresh' = [refresh EXCEPT ![c] = IF text = {} THEN Quiet ELSE [@ EXCEPT !.at = "replace", !.text = text]]
  /\ UNCHANGED <<crowdVars, eyes, registry>>

(* One batch: ranges deleted, inserted, and the snapshot row of the day,    *)
(* whose day is unique; so the batch of an overtaken invocation fails whole.*)
(* last is history: the ranges of the row written last.  The difference to  *)
(* the ranges before, which the row carries, is left out.                   *)
ReplaceRanges(c) ==
  LET r == refresh[c] IN
  /\ r.at = "replace"
  /\ \/ UNCHANGED registry
     \/ /\ r.day \notin registry.days
        /\ registry' = [registry EXCEPT !.current = r.text, !.last = r.text,
                                        !.days = registry.days \union {r.day}]
  /\ refresh' = [refresh EXCEPT ![c] = Quiet]
  /\ UNCHANGED <<crowdVars, eyes>>

RefreshKilled(c) ==
  /\ refresh[c].at # "idle"
  /\ refresh' = [refresh EXCEPT ![c] = Quiet]
  /\ UNCHANGED <<crowdVars, eyes, registry>>

Midnight ==
  /\ registry.today < MaxDays
  /\ registry' = [registry EXCEPT !.today = registry.today + 1]
  /\ UNCHANGED <<crowdVars, eyes, refresh>>

RegistryNext ==
  \/ Midnight
  \/ \E c \in Crons :
       BeginRefresh(c) \/ FetchRegistry(c) \/ ReplaceRanges(c) \/ RefreshKilled(c)

RadarNext == CleanNext \/ RaceNext \/ MtuNext \/ MapNext \/ EyesNext \/ RegistryNext
RadarSpec == RadarInit /\ [][RadarNext]_radarVars

-----------------------------------------------------------------------------
(* What is shown comes from reports, however they are merged, aged and      *)
(* purged: a latency is at most one that a report gave, and at least one    *)
(* unless a report without any was averaged in; a verified address was said *)
(* to be reached by somebody; a domain is routed directly only after a      *)
(* report whose two numbers put direct first; a cell is open only when over *)
(* three times as many reports say so as say the contrary; an open network  *)
(* has an answered probe and a report of the agent within the window; and   *)
(* the ranges served are those of one whole registry file, the one the last *)
(* snapshot row stands for (net-mode.ts 17-18, clean-ip.ts 6-10). What a    *)
(* report gave is what the parsers made of it: PingWasMeasured.             *)
OnlyReported ==
  /\ RankedLatency # Unmeasured => /\ \E ms \in clean.heard : RankedLatency <= ms
                                   /\ clean.blank \/ \E ms \in clean.heard : RankedLatency >= ms
  /\ RankedStatus = "verified" => clean.oks > 0
  /\ RoutedDirect => race.won /\ Unmeasured \notin {race.direct, race.tunnel}
  /\ MapVerdict = "up" => cell.up > 3 * cell.down
  /\ NetMode = "open" => OkProbes > 0 /\ eyes.fresh /\ eyes.agent = "healthy"
  /\ registry.current = registry.last

(* "The server never invents a latency" (clean-ip.ts 9-10): a latency is    *)
(* shown only where a client measured one. An empty "t" is shown as 0 ms.   *)
PingWasMeasured == RankedLatency # Unmeasured => clean.pinged

(* What does not hold either: that a domain is routed directly only after a *)
(* report that measured both paths (a negative number counts as 0 ms); that *)
(* a report without a measurement leaves the shown latency alone (-1 is     *)
(* averaged in); and that the suggested MTU was reported within the         *)
(* retention (a larger, older one is kept alive by every later report).     *)
DirectWasMeasured == RoutedDirect => race.timed
UnmeasuredIsNoPing ==
  [][\A said \in {"yes", "no", "unsaid"} :
       CleanReport("none", 0, said) /\ RankedLatency # Unmeasured => RankedLatency' = RankedLatency]_radarVars
MtuIsCurrent == MtuSuggestion # 0 => MtuSuggestion \in mtu.live
=============================================================================
