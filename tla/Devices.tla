------------------------------ MODULE Devices ------------------------------
(***************************************************************************)
(* The device limit of one omni-panel user: the map Ledger.devices of      *)
(* omni-panel/src/auth/guard.js and its callers in proxy/vless.js.  A      *)
(* device is touched when it asks to open a tunnel and when a tunnel of it *)
(* reports; touching forgets every device not touched for Window ticks.    *)
(***************************************************************************)
EXTENDS Integers, FiniteSets

CONSTANTS Device,
          Limit,       \* device_limit, at least 1
          Window,      \* five minutes, in ticks
          MaxTunnel,   \* bound: tunnels of one device at once
          MaxOutage    \* bound: failed admit calls and restarts of the object

ASSUME DevicesAssumption ==
  /\ Limit \in Nat \ {0} /\ Window \in Nat \ {0} /\ MaxTunnel \in Nat /\ MaxOutage \in Nat
  /\ IsFiniteSet(Device)

VARIABLES
  lastSeen,      \* devices: ticks since lastSeen, Absent if not in the map
  open,      \* tunnels of each device that are open
  report,    \* devices with a report under way
  granted,   \* history: ticks since a device was last let in by the limit
  outage     \* outages so far (bound)

deviceVars == <<lastSeen, open, report, granted, outage>>

Absent == -1
Old == Window + 1          \* ages are not told apart beyond this

DevicesTypeOK ==
  /\ lastSeen \in [Device -> Absent..Old] /\ granted \in [Device -> 0..Old]
  /\ open \in [Device -> 0..MaxTunnel] /\ report \subseteq Device /\ outage \in 0..MaxOutage

DevicesInit ==
  /\ lastSeen = [d \in Device |-> Absent] /\ granted = [d \in Device |-> Old]
  /\ open = [d \in Device |-> 0] /\ report = {} /\ outage = 0

\* Mutant: a device is forgotten when its five minutes are up, one tick early.
TouchedEarly(d) == [e \in Device |-> IF e = d THEN 0 ELSE IF lastSeen[e] >= Window THEN Absent ELSE lastSeen[e]]

\* touchDevice: the map afterwards.
Touched(d) == [e \in Device |-> IF e = d THEN 0 ELSE IF lastSeen[e] > Window THEN Absent ELSE lastSeen[e]]

Count(m) == Cardinality({e \in Device : m[e] # Absent})

\* admit: the device is touched first, also when it is then refused.
LetIn(d) ==
  /\ open[d] < MaxTunnel
  /\ Count(Touched(d)) <= Limit
  /\ lastSeen' = Touched(d)
  /\ open' = [open EXCEPT ![d] = @ + 1]
  /\ granted' = [granted EXCEPT ![d] = 0]
  /\ UNCHANGED <<report, outage>>

TurnAway(d) ==
  /\ Count(Touched(d)) > Limit
  /\ lastSeen' = Touched(d)
  /\ UNCHANGED <<open, report, granted, outage>>

\* The admit call fails: the tunnel is opened all the same.
FailOpen(d) ==
  /\ outage < MaxOutage /\ outage' = outage + 1
  /\ open[d] < MaxTunnel /\ open' = [open EXCEPT ![d] = @ + 1]
  /\ UNCHANGED <<lastSeen, report, granted>>

\* finish: a tunnel that moved no byte reports nothing.
Close(d) ==
  /\ open[d] > 0 /\ open' = [open EXCEPT ![d] = @ - 1]
  /\ report' \in {report, report \cup {d}}
  /\ UNCHANGED <<lastSeen, granted, outage>>

DeviceReport(d) ==
  /\ d \in report /\ report' = report \ {d}
  /\ lastSeen' = Touched(d)
  /\ UNCHANGED <<open, granted, outage>>

Restart ==
  /\ outage < MaxOutage /\ outage' = outage + 1
  /\ lastSeen' = [d \in Device |-> Absent]
  /\ UNCHANGED <<open, report, granted>>

Older(n) == IF n \in 0..Window THEN n + 1 ELSE n

Minute ==
  /\ lastSeen' = [d \in Device |-> Older(lastSeen[d])]
  /\ granted' = [d \in Device |-> Older(granted[d])]
  /\ UNCHANGED <<open, report, outage>>

DevicesNext ==
  \/ \E d \in Device : LetIn(d) \/ TurnAway(d) \/ FailOpen(d) \/ Close(d) \/ DeviceReport(d)
  \/ Restart \/ Minute

DevicesSpec == DevicesInit /\ [][DevicesNext]_deviceVars

(***************************************************************************)
(* Properties.                                                             *)
(***************************************************************************)

\* While the object is up, no more than Limit devices are let in within any
\* five minutes, however admissions, refusals, reports of finished tunnels and
\* forgetting interleave.
WindowedLimit == outage = 0 => Cardinality({d \in Device : granted[d] <= Window}) <= Limit

\* "concurrent-device limits are enforced globally, not per POP": no more than
\* Limit devices have an open tunnel while the object is up.
ConcurrentLimit == outage = 0 => Cardinality({d \in Device : open[d] > 0}) <= Limit

\* A refusal (429) means that the concurrent devices are at the limit: that
\* many others have an open tunnel or were let in within the window.
RefusalMeansFull ==
  [][\A d \in Device : TurnAway(d) =>
       Cardinality({e \in Device \ {d} : open[e] > 0 \/ granted[e] <= Window}) >= Limit]_deviceVars
=============================================================================
