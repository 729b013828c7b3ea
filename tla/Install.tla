------------------------------- MODULE Install -------------------------------
(***************************************************************************)
(* The bootstrap script on the VPS (renderBootstrapScript) against the     *)
(* control plane it reports to.  The script runs under set -e: a command   *)
(* that fails ends it where it stands, and until the marker is written it  *)
(* may be run again, with the token it was rendered with.  Every run makes *)
(* new keys, so a generation names the keys, the configuration file and    *)
(* the agent token that belong together.  One run at a time on one VPS;    *)
(* what the control plane does with a token is modelled in Deployments.    *)
(***************************************************************************)
EXTENDS Naturals

CONSTANTS MaxRuns,     \* bound: how often the script gets as far as its keys
          MaxTokens    \* bound: bootstrap tokens issued

ASSUME InstallAssumption == MaxRuns \in Nat /\ MaxTokens \in Nat \ {0}

VARIABLES setup,       \* what the script was rendered for: role, DNS tunnel
          plane,       \* the deployment as the control plane has it
          vps,         \* files and units of the VPS
          run          \* the script: downloaded token, step, generation
installVars == <<setup, plane, vps, run>>

None == 0
Generations == 0 .. MaxRuns

InstallTypeOK ==
  /\ setup \in [role : {"standard", "sleeper"}, tunnel : BOOLEAN]
  /\ plane \in [token : 0 .. MaxTokens, open : BOOLEAN, bundle : Generations, agent : Generations,
                status : {"awaiting", "agent_ready", "ready", "failed"}, reported : Generations]
  /\ vps \in [config : Generations, service : Generations, payload : BOOLEAN, env : Generations,
              timer : BOOLEAN, client : Generations, sleeper : BOOLEAN, marker : BOOLEAN]
  /\ run \in [script : 0 .. MaxTokens, gen : Generations,
              at : {"off", "keys", "service", "complete", "env", "timer", "tunnel", "sleeper", "mark"}]

InstallInit ==
  /\ setup \in [role : {"standard", "sleeper"}, tunnel : BOOLEAN]
  /\ plane = [token |-> 1, open |-> TRUE, bundle |-> None, agent |-> None,
              status |-> "awaiting", reported |-> None]
  /\ vps = [config |-> None, service |-> None, payload |-> FALSE, env |-> None,
            timer |-> FALSE, client |-> None, sleeper |-> FALSE, marker |-> FALSE]
  /\ run = [script |-> 0, gen |-> None, at |-> "off"]

Goes(s) == run' = [run EXCEPT !.at = s]
Exits == Goes("off")

-----------------------------------------------------------------------------
(* The control plane's side *)

RotateToken ==
  /\ plane.status \in {"awaiting", "failed"} /\ plane.token < MaxTokens
  /\ plane' = [plane EXCEPT !.token = plane.token + 1, !.open = TRUE]
  /\ UNCHANGED <<setup, vps, run>>

ExpireToken ==
  /\ plane.open
  /\ plane' = [plane EXCEPT !.open = FALSE]
  /\ UNCHANGED <<setup, vps, run>>

Finalize ==
  /\ plane.status = "agent_ready"
  /\ \E status \in {"ready", "failed"} : plane' = [plane EXCEPT !.status = status]
  /\ UNCHANGED <<setup, vps, run>>

(* serveBootstrap renders the script for a token that is still good.        *)
Download ==
  /\ plane.open /\ run.at = "off" /\ run.script # plane.token
  /\ run' = [run EXCEPT !.script = plane.token]
  /\ UNCHANGED <<setup, plane, vps>>

-----------------------------------------------------------------------------
(* The script *)

(* Prechecks, the marker, and then the service of an interrupted run is     *)
(* stopped before ports, download and checksum are looked at.               *)
StartScript ==
  /\ run.script # 0 /\ run.at = "off" /\ ~vps.marker /\ run.gen < MaxRuns
  /\ vps' = [vps EXCEPT !.service = None]
  /\ Goes("keys") \/ Exits
  /\ UNCHANGED <<setup, plane>>

(* New keys and certificates; the configuration is checked, then moved into *)
(* place, and the unit and the firewall follow.                             *)
WriteConfig ==
  /\ run.at = "keys"
  /\ \/ /\ run' = [run EXCEPT !.gen = run.gen + 1, !.at = "service"]
        /\ vps' = [vps EXCEPT !.config = run.gen + 1]
     \/ Exits /\ UNCHANGED vps
  /\ UNCHANGED <<setup, plane>>

StartService ==
  /\ run.at = "service"
  /\ \/ vps' = [vps EXCEPT !.service = vps.config] /\ Goes("complete")
     \/ Exits /\ UNCHANGED vps
  /\ UNCHANGED <<setup, plane>>

(* completeBootstrap as the script sees it: the token is consumed, then     *)
(* bundle and agent token are stored, unless the handler ends in between.   *)
Accepts == run.script = plane.token /\ plane.open
Completed == [plane EXCEPT !.open = FALSE, !.bundle = run.gen, !.agent = run.gen, !.status = "agent_ready"]

\* Mutant: curl without --fail, so a refusal looks like success.
PostUnchecked ==
  /\ run.at = "complete"
  /\ vps' = [vps EXCEPT !.payload = TRUE]
  /\ Goes("env")
  /\ plane' = IF Accepts THEN Completed ELSE plane
  /\ UNCHANGED setup

(* curl --fail --retry 4: a refusal is final, and after a lost answer the   *)
(* retry is refused because the token is consumed.  complete.json stays.    *)
PostComplete ==
  /\ run.at = "complete"
  /\ vps' = [vps EXCEPT !.payload = TRUE]
  /\ \/ Accepts /\ plane' = Completed /\ Goes("env")
     \/ Accepts /\ plane' \in {Completed, [plane EXCEPT !.open = FALSE]} /\ Exits
     \/ plane' = plane /\ Exits
  /\ UNCHANGED setup

(* complete.json is shredded, then the agent's environment is written.      *)
WriteEnv ==
  /\ run.at = "env"
  /\ vps' = [vps EXCEPT !.payload = FALSE, !.env = run.gen]
  /\ Goes("timer")
  /\ UNCHANGED <<setup, plane>>

(* A report of the agent: accepted when the agent token is the stored one;  *)
(* it carries the configuration's hash, which the control plane stores and  *)
(* compares with nothing.                                                   *)
ReportTaken ==
  /\ vps.env # None /\ vps.env = plane.agent
  /\ plane' = [plane EXCEPT !.reported = vps.config]

(* A sleeper has no periodic reports.                                       *)
SetTimer ==
  /\ run.at = "timer"
  /\ vps' = [vps EXCEPT !.timer = (setup.role = "standard")]
  /\ Goes(IF setup.tunnel THEN "tunnel" ELSE "sleeper")
  /\ UNCHANGED <<setup, plane>>

(* Toolchain, dnstt and slipstream with a local client of this node's own   *)
(* credentials; any of it may fail.  The one tunnel report may get lost.    *)
InstallTunnel ==
  /\ run.at = "tunnel"
  /\ \/ /\ vps' = [vps EXCEPT !.client = run.gen] /\ Goes("sleeper")
        /\ ReportTaken \/ UNCHANGED plane
     \/ Exits /\ UNCHANGED <<plane, vps>>
  /\ UNCHANGED setup

InstallSleeper ==
  /\ run.at = "sleeper"
  /\ vps' = [vps EXCEPT !.sleeper = (setup.role = "sleeper")]
  /\ Goes("mark")
  /\ UNCHANGED <<setup, plane>>

WriteMarker ==
  /\ run.at = "mark"
  /\ vps' = [vps EXCEPT !.marker = TRUE]
  /\ Exits
  /\ UNCHANGED <<setup, plane>>

ScriptKilled ==
  /\ run.at # "off"
  /\ Exits
  /\ UNCHANGED <<setup, plane, vps>>

-----------------------------------------------------------------------------
(* The units it leaves behind *)

(* v13-health-report by its timer.  A sleeper's report-now and wake never   *)
(* get here: the script that reads the beacon takes no command from it      *)
(* (Sleeper).                                                               *)
Report ==
  /\ vps.timer
  /\ ReportTaken
  /\ UNCHANGED <<setup, vps, run>>

InstallNext ==
  \/ RotateToken \/ ExpireToken \/ Finalize \/ Download
  \/ StartScript \/ WriteConfig \/ StartService \/ PostComplete \/ WriteEnv
  \/ SetTimer \/ InstallTunnel \/ InstallSleeper \/ WriteMarker \/ ScriptKilled
  \/ Report

InstallSpec == InstallInit /\ [][InstallNext]_installVars

-----------------------------------------------------------------------------
(* A VPS with the marker is whole, however many runs were interrupted on    *)
(* the way and whichever token each of them had: its configuration, its     *)
(* agent token and its tunnel client are those of the bundle the control    *)
(* plane serves, no payload is left on disk, and its reports or its looks   *)
(* at the beacon are scheduled.                                             *)
MarkedIsWhole ==
  vps.marker =>
    /\ plane.bundle = vps.config /\ plane.agent = vps.env /\ plane.bundle = plane.agent
    /\ setup.tunnel => vps.client = vps.config
    /\ ~vps.payload
    /\ vps.timer \/ vps.sleeper

(* What does not hold: that a node whose reports are accepted runs the      *)
(* configuration subscriptions are made from.  A run cut short after its    *)
(* completion was accepted and started again replaces keys and service and  *)
(* is then refused.                                                         *)
ReportsWhatIsServed == plane.reported # None => plane.reported = plane.bundle
=============================================================================
