------------------------------ MODULE MCEndings ------------------------------
(***************************************************************************)
(* The two parts that must come to an end, in one run: a tunnel of the     *)
(* panel, and the resolver scans of one tenant; part says which of them    *)
(* moves.  A tunnel that has not begun enables no fair action, so its      *)
(* fairness asks nothing of the behaviours of the scans.                   *)
(***************************************************************************)
EXTENDS Tunnel, DnsScan

VARIABLE part
endingVars == <<part, tunnelVars, dnsVars>>

EndingsInit == TunnelInit /\ DnsInit /\ part \in {"tunnel", "scans"}

TunnelMoves == part = "tunnel" /\ TunnelNext /\ UNCHANGED <<part, dnsVars>>
ScansMove == part = "scans" /\ DnsNext /\ UNCHANGED <<part, tunnelVars>>
EndingsNext == TunnelMoves \/ ScansMove

(* A scan request that is not killed runs on (Kill is bounded), the cron is *)
(* triggered every five minutes and time passes.                            *)
ScanFairness ==
  /\ \A h \in Handler : WF_dnsVars(part = "scans" /\ Message(h))
  /\ \A t \in Ticks : WF_dnsVars(part = "scans" /\ TickStep(t))
  /\ \A r \in RangeId : WF_dnsVars(part = "scans" /\ GoQuiet(r))
  /\ WF_dnsVars(part = "scans" /\ Cron)

EndingsSpec == EndingsInit /\ [][EndingsNext]_endingVars /\ TunnelFairness /\ ScanFairness
=============================================================================
