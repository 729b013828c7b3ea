------------------------------- MODULE MCParts -------------------------------
(***************************************************************************)
(* The parts around the deployments in one run: the dialogs and the menu   *)
(* of the Telegram bot, the webhook and rate limiter in front of it, the   *)
(* login and connect links, the panels and Omni nodes it deploys, the      *)
(* WhiteHole drops, the donated keys, the agent's install script and the   *)
(* device limit of the panel, the network measurements and the sleeper's   *)
(* commands.  part says which of them moves; the others stay as they were. *)
(***************************************************************************)
EXTENDS MCDialogs, Chat, Access, Gate, Cloud, Drops, Install, Devices, Radar, Sleeper

VARIABLE part
botVars == <<dialogVars, chatVars>>
partsVars == <<part, botVars, accessVars, gateVars, cloudVars, dropVars, installVars, deviceVars, radarVars, sleeperVars>>

OneOf(S) == CHOOSE x \in S : TRUE

PartsInit ==
  /\ DialogInit /\ ChatInit /\ AccessInit /\ GateInit /\ CloudInit /\ DropsInit /\ InstallInit /\ DevicesInit
  /\ RadarInit /\ SleeperInit
  /\ part \in {"dialogs", "chat", "access", "gate", "panels", "nodes", "hole", "gifts", "install", "devices",
             "clean", "race", "mtu", "map", "eyes", "registry", "sleeper"}
  /\ part = "chat" \/ ~admin
  /\ part = "dialogs" \/ started = OneOf(Sessions)
  /\ part = "hole" \/ zone = OneOf(Zones)
  /\ part = "install" \/ setup = [role |-> "standard", tunnel |-> FALSE]

DialogMoves ==
  /\ part = "dialogs" /\ DialogNext
  /\ UNCHANGED <<part, chatVars, accessVars, gateVars, cloudVars, dropVars, installVars, deviceVars, radarVars, sleeperVars>>
ChatMoves ==
  /\ part = "chat" /\ ChatNext
  /\ UNCHANGED <<part, dialogVars, accessVars, gateVars, cloudVars, dropVars, installVars, deviceVars, radarVars, sleeperVars>>
AccessMoves ==
  /\ part = "access" /\ AccessNext
  /\ UNCHANGED <<part, botVars, gateVars, cloudVars, dropVars, installVars, deviceVars, radarVars, sleeperVars>>
GateMoves ==
  /\ part = "gate" /\ GateNext
  /\ UNCHANGED <<part, botVars, accessVars, cloudVars, dropVars, installVars, deviceVars, radarVars, sleeperVars>>
PanelsMove ==
  /\ part = "panels" /\ PanelNext
  /\ UNCHANGED <<part, botVars, accessVars, gateVars, dropVars, installVars, deviceVars, radarVars, sleeperVars>>
NodesMove ==
  /\ part = "nodes" /\ NodeNext
  /\ UNCHANGED <<part, botVars, accessVars, gateVars, dropVars, installVars, deviceVars, radarVars, sleeperVars>>
HoleMoves ==
  /\ part = "hole" /\ HoleNext
  /\ UNCHANGED <<part, botVars, accessVars, gateVars, cloudVars, installVars, deviceVars, radarVars, sleeperVars>>
GiftsMove ==
  /\ part = "gifts" /\ GiftNext
  /\ UNCHANGED <<part, botVars, accessVars, gateVars, cloudVars, installVars, deviceVars, radarVars, sleeperVars>>
InstallMoves ==
  /\ part = "install" /\ InstallNext
  /\ UNCHANGED <<part, botVars, accessVars, gateVars, cloudVars, dropVars, deviceVars, radarVars, sleeperVars>>
DevicesMove ==
  /\ part = "devices" /\ DevicesNext
  /\ UNCHANGED <<part, botVars, accessVars, gateVars, cloudVars, dropVars, installVars, radarVars, sleeperVars>>
RadarMoves ==
  /\ \/ part = "clean" /\ CleanNext
     \/ part = "race" /\ RaceNext
     \/ part = "mtu" /\ MtuNext
     \/ part = "map" /\ MapNext
     \/ part = "eyes" /\ EyesNext
     \/ part = "registry" /\ RegistryNext
  /\ UNCHANGED <<part, botVars, accessVars, gateVars, cloudVars, dropVars, installVars, deviceVars, sleeperVars>>

SleeperMoves ==
  /\ part = "sleeper" /\ SleeperNext
  /\ UNCHANGED <<part, botVars, accessVars, gateVars, cloudVars, dropVars, installVars, deviceVars, radarVars>>

PartsNext ==
  \/ DialogMoves \/ ChatMoves \/ AccessMoves \/ GateMoves \/ PanelsMove \/ NodesMove \/ HoleMoves
  \/ GiftsMove \/ InstallMoves \/ DevicesMove \/ RadarMoves \/ SleeperMoves

PartsSpec == PartsInit /\ [][PartsNext]_partsVars
=============================================================================
