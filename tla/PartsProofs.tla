----------------------------- MODULE PartsProofs -----------------------------
(***************************************************************************)
(* Proofs about the parts around the deployments, each for any number of   *)
(* its runs, calls, requests, scripts and reports: the install script      *)
(* (Install), the WhiteHole drops and donated keys (Drops), the sleeper's  *)
(* commands (Sleeper), the panels and Omni nodes (Cloud) and the network   *)
(* measurements (Radar).                                                   *)
(***************************************************************************)
EXTENDS Install, Drops, Sleeper, Cloud, Radar, SequenceTheorems, FiniteSetTheorems,
        WellFoundedInduction, NaturalsInduction, TLAPS

-----------------------------------------------------------------------------
(* Install: what a run has brought into agreement by the step it is at.     *)

Past(s) == CASE s = "service" -> {"service", "complete", "env", "timer", "tunnel", "sleeper", "mark"}
             [] s = "env" -> {"env", "timer", "tunnel", "sleeper", "mark"}
             [] s = "timer" -> {"timer", "tunnel", "sleeper", "mark"}
             [] s = "tunnel" -> {"tunnel", "sleeper", "mark"}
             [] s = "sleeper" -> {"sleeper", "mark"}
             [] s = "mark" -> {"mark"}

(* The configuration on disk is this run's from the service on, the bundle  *)
(* and agent token of the control plane are from the environment file on,   *)
(* and so are, step by step, the other files; nothing runs behind a marker. *)
InstallInv ==
  /\ InstallTypeOK
  /\ run.at = "keys" => run.gen < MaxRuns
  /\ run.at \in Past("service") => vps.config = run.gen
  /\ run.at \in Past("env") => plane.bundle = run.gen /\ plane.agent = run.gen
  /\ run.at \in Past("timer") => vps.env = run.gen /\ ~vps.payload
  /\ run.at \in Past("tunnel") => vps.timer = (setup.role = "standard")
  /\ run.at \in Past("sleeper") /\ setup.tunnel => vps.client = run.gen
  /\ run.at \in Past("mark") => vps.sleeper = (setup.role = "sleeper")
  /\ vps.marker => run.at = "off"
  /\ MarkedIsWhole

\* Every step of the script, the control plane and the timer keeps them.
LEMMA InstallStep == InstallInv /\ [InstallNext]_installVars => InstallInv'
<1> SUFFICES ASSUME InstallInv, [InstallNext]_installVars PROVE InstallInv'
  OBVIOUS
<1> USE InstallAssumption
    DEF InstallInv, InstallTypeOK, Generations, None, Past, MarkedIsWhole, Goes, Exits
<1> DEFINE PlaneRow ==
      [token : 0 .. MaxTokens, open : BOOLEAN, bundle : Generations, agent : Generations,
       status : {"awaiting", "agent_ready", "ready", "failed"}, reported : Generations]
<1>1. CASE RotateToken
  <2>1. plane' \in PlaneRow
    <3>1. plane.token + 1 \in 0 .. MaxTokens
      BY <1>1 DEF RotateToken
    <3> QED BY <1>1, <3>1 DEF RotateToken
  <2>2. plane'.bundle = plane.bundle /\ plane'.agent = plane.agent
    BY <1>1 DEF RotateToken
  <2> QED BY <1>1, <2>1, <2>2 DEF RotateToken
<1>2. CASE ExpireToken
  <2>1. plane' \in PlaneRow
    BY <1>2 DEF ExpireToken
  <2>2. plane'.bundle = plane.bundle /\ plane'.agent = plane.agent
    BY <1>2 DEF ExpireToken
  <2> QED BY <1>2, <2>1, <2>2 DEF ExpireToken
<1>3. CASE Finalize
  BY <1>3 DEF Finalize
<1>4. CASE Download
  BY <1>4 DEF Download
<1>5. CASE StartScript
  BY <1>5 DEF StartScript
<1>6. CASE WriteConfig
  <2>1. CASE run' = [run EXCEPT !.gen = run.gen + 1, !.at = "service"]
             /\ vps' = [vps EXCEPT !.config = run.gen + 1]
    <3>1. run.gen + 1 \in 0 .. MaxRuns
      BY <1>6 DEF WriteConfig
    <3>2. ~vps.marker
      BY <1>6 DEF WriteConfig
    <3> QED BY <1>6, <2>1, <3>1, <3>2 DEF WriteConfig
  <2>2. CASE Exits /\ UNCHANGED vps
    BY <1>6, <2>2 DEF WriteConfig
  <2> QED BY <1>6, <2>1, <2>2 DEF WriteConfig
<1>7. CASE StartService
  BY <1>7 DEF StartService
<1>8. CASE PostComplete
  <2>1. ~vps.marker /\ vps.config = run.gen /\ UNCHANGED setup
    BY <1>8 DEF PostComplete
  <2>2. vps' = [vps EXCEPT !.payload = TRUE]
    BY <1>8 DEF PostComplete
  <2>3. Completed \in PlaneRow
        /\ Completed.bundle = run.gen /\ Completed.agent = run.gen
    BY DEF Completed
  <2>4. CASE plane' = Completed /\ Goes("env")
    BY <1>8, <2>1, <2>2, <2>3, <2>4
  <2>5. CASE plane' \in {Completed, [plane EXCEPT !.open = FALSE], plane} /\ Exits
    BY <1>8, <2>1, <2>2, <2>3, <2>5
  <2> QED BY <1>8, <2>4, <2>5 DEF PostComplete
<1>9. CASE WriteEnv
  BY <1>9 DEF WriteEnv
<1>10. CASE SetTimer
  BY <1>10 DEF SetTimer
<1>11. CASE InstallTunnel
  BY <1>11 DEF InstallTunnel, ReportTaken
<1>12. CASE InstallSleeper
  BY <1>12 DEF InstallSleeper
<1>13. CASE WriteMarker
  BY <1>13 DEF WriteMarker
<1>14. CASE ScriptKilled
  BY <1>14 DEF ScriptKilled
<1>15. CASE Report
  <2>1. plane' \in PlaneRow
    BY <1>15 DEF Report, ReportTaken
  <2>2. plane'.bundle = plane.bundle /\ plane'.agent = plane.agent
    BY <1>15 DEF Report, ReportTaken
  <2>3. UNCHANGED <<setup, vps, run>>
    BY <1>15 DEF Report
  <2> QED BY <2>1, <2>2, <2>3
<1>16. CASE UNCHANGED installVars
  BY <1>16 DEF installVars
<1> QED
  BY <1>1, <1>2, <1>3, <1>4, <1>5, <1>6, <1>7, <1>8, <1>9, <1>10, <1>11, <1>12, <1>13, <1>14,
     <1>15, <1>16 DEF InstallNext

(* renderBootstrapScript against completeBootstrap: a VPS with the marker   *)
(* has the configuration, agent token and tunnel client of the bundle that  *)
(* is served, however many runs were interrupted before.                    *)
THEOREM MarkedVpsIsWhole == InstallSpec => []MarkedIsWhole
<1>1. InstallInit => InstallInv
  BY InstallAssumption
  DEF InstallInit, InstallInv, InstallTypeOK, Generations, None, Past, MarkedIsWhole
<1>2. InstallInv => MarkedIsWhole
  BY DEF InstallInv
<1> QED BY <1>1, <1>2, InstallStep, PTL DEF InstallSpec

-----------------------------------------------------------------------------
(* Drops: the donations.                                                    *)

GiftTypeOK ==
  /\ donation \in [Keys -> [status : DonationStatuses, expired : BOOLEAN]]
  /\ secret \subseteq Keys /\ withdrawing \subseteq Keys /\ purging \subseteq Keys

\* Every statement of donor, admin and cron erases the ciphertext with the status.
LEMMA GiftStep == GiftTypeOK /\ SecretErased /\ [DropsNext]_dropVars => GiftTypeOK' /\ SecretErased'
<1> SUFFICES ASSUME GiftTypeOK, SecretErased, [DropsNext]_dropVars PROVE GiftTypeOK' /\ SecretErased'
  OBVIOUS
<1> USE DEF GiftTypeOK, SecretErased, DonationStatuses
<1>1. ASSUME NEW k \in Keys, Donate(k) PROVE GiftTypeOK' /\ SecretErased'
  BY <1>1 DEF Donate
<1>2. ASSUME NEW k \in Keys, NEW status \in {"approved", "rejected"}, Review(k, status)
      PROVE GiftTypeOK' /\ SecretErased'
  BY <1>2 DEF Review
<1>3. ASSUME NEW k \in Keys, BeginWithdraw(k) PROVE GiftTypeOK' /\ SecretErased'
  BY <1>3 DEF BeginWithdraw
<1>4. ASSUME NEW k \in Keys, Withdraw(k) PROVE GiftTypeOK' /\ SecretErased'
  BY <1>4 DEF Withdraw
<1>5. ASSUME NEW k \in Keys, ExpireDonation(k) PROVE GiftTypeOK' /\ SecretErased'
  BY <1>5 DEF ExpireDonation
<1>6. CASE SelectPurge
  BY <1>6 DEF SelectPurge
<1>7. CASE Purge
  BY <1>7 DEF Purge
<1>8. CASE UNCHANGED giftVars
  BY <1>8 DEF giftVars
<1>9. HoleNext => UNCHANGED giftVars
  BY DEF HoleNext, Reconnect, Publish, Start, WriteRecord, InsertDrop, Clear, DeleteTxt, MarkCleared,
         DropKilled, PurgeDrop
<1> QED BY <1>1, <1>2, <1>3, <1>4, <1>5, <1>6, <1>7, <1>8, <1>9 DEF DropsNext, GiftNext, dropVars, giftVars

(* setDonationStatus, withdrawDonation and purgeExpiredDonations: a         *)
(* donation that is rejected, withdrawn or purged leaves no ciphertext, in  *)
(* whatever order they come.                                                *)
THEOREM SecretsAreErased == DropsSpec => []SecretErased
<1>1. DropsInit => GiftTypeOK /\ SecretErased
  BY DEF DropsInit, GiftTypeOK, SecretErased, DonationStatuses
<1> QED BY <1>1, GiftStep, PTL DEF DropsSpec

-----------------------------------------------------------------------------
(* Drops: the WhiteHole.                                                    *)

HoleRow == [at : {"new", "write", "insert", "clear", "update", "over"}, zone : Zones \union {"none"},
            size : 0 .. MaxSize, next : 0 .. MaxShards + 1,
            row : {"none", "published", "cleared", "purged"}]

HoleTypeOK ==
  /\ zone \in Zones
  /\ txt \in [Zones -> [Slots -> [of : Calls \union {"none"}, part : 0 .. MaxShards]]]
  /\ drop \in [Calls -> HoleRow]
  /\ mixed \subseteq Calls

Moving(d) == drop[d].at \in {"write", "insert", "clear", "update"}
Owns(d, n) == \A i \in 1 .. n : txt[drop[d].zone][i] = [of |-> d, part |-> i]

(* A call that moves knows its zone, and its next record is one of its own; *)
(* calls that move in one zone are mixed, and so is a published drop with a *)
(* call that moves in its zone; an unmixed publish owns what it has written *)
(* so far, and all its shards from its last record on.                      *)
CallInv(d) ==
  /\ drop[d].at = "new" => drop[d] = NoDrop
  /\ Moving(d) => drop[d].zone \in Zones /\ drop[d].row = "none"
  /\ drop[d].at = "write" => drop[d].next \in 1 .. Shards(d)
  /\ drop[d].at = "clear" => drop[d].next \in 1 .. MaxShards
  /\ drop[d].row = "published" => drop[d].zone \in Zones
  /\ d \notin mixed /\ (Moving(d) \/ drop[d].row = "published")
       => \A e \in Calls \ {d} : Moving(e) => drop[e].zone # drop[d].zone
  /\ d \notin mixed /\ drop[d].at = "write" => Owns(d, drop[d].next - 1)
  /\ d \notin mixed /\ (drop[d].at = "insert" \/ drop[d].row = "published") => Owns(d, Shards(d))

HoleInv == HoleTypeOK /\ \A d \in Calls : CallInv(d)

\* A call that does not move itself is only disturbed by one that moves in its zone.
LEMMA OthersKept ==
  ASSUME HoleInv, NEW d \in Calls, NEW e \in Calls \ {d}, drop'[e] = drop[e],
         mixed \subseteq mixed',
         Moving(d)' => Moving(d) /\ drop'[d].zone = drop[d].zone,
         \A f \in Calls \ {d} : drop'[f].at = drop[f].at /\ drop'[f].zone = drop[f].zone,
         \A y \in Zones : y # drop[d].zone \/ ~Moving(d) => txt'[y] = txt[y]
  PROVE  CallInv(e)'
<1> USE DEF HoleInv, Moving
<1>1. CallInv(e) /\ CallInv(d) /\ HoleTypeOK
  OBVIOUS
<1>2. Shards(e)' = Shards(e)
  BY DEF Shards
<1>3. ASSUME e \notin mixed', Moving(e) \/ drop[e].row = "published"
      PROVE  /\ \A f \in Calls \ {e} : Moving(f)' => drop'[f].zone # drop'[e].zone
             /\ txt'[drop[e].zone] = txt[drop[e].zone]
  BY <1>1, <1>3 DEF CallInv
<1>4. ASSUME e \notin mixed', Moving(e) \/ drop[e].row = "published", NEW n, Owns(e, n)
      PROVE  Owns(e, n)'
  BY <1>3, <1>4 DEF Owns
<1> QED BY <1>1, <1>2, <1>3, <1>4 DEF CallInv

\* A publish or clear that begins makes everything of its zone mixed.
LEMMA StartKeepsHole ==
  ASSUME HoleInv, NEW d \in Calls, NEW size \in 0 .. MaxSize, NEW at \in {"write", "clear"},
         at = "write" => size > 0, Start(d, size, at)
  PROVE  HoleInv'
<1> USE DropsAssumption DEF Moving, HoleRow
<1>1. HoleTypeOK'
  BY DEF Start, Working, Standing, HoleInv, HoleTypeOK
<1>2. /\ drop'[d].at = at /\ drop'[d].size = size /\ drop'[d].next = 1 /\ drop'[d].row = "none"
      /\ \A e \in Calls \ {d} : drop'[e] = drop[e]
      /\ drop[d] = NoDrop /\ txt' = txt /\ zone \in Zones /\ drop'[d].zone = zone
  BY DEF Start, HoleInv, HoleTypeOK
<1>3. /\ mixed \subseteq mixed'
      /\ \A e \in Calls : e \notin mixed' => ~(drop[e].zone = zone /\ (Moving(e) \/ drop[e].row = "published"))
      /\ d \notin mixed' => \A e \in Calls : ~(drop[e].zone = zone /\ Moving(e))
  BY DEF Start, Working, Standing
<1>4. ASSUME NEW e \in Calls \ {d} PROVE CallInv(e)'
  <2>1. drop'[e] = drop[e] /\ Shards(e)' = Shards(e) /\ CallInv(e)
    BY <1>2 DEF Shards, HoleInv
  <2>2. \A n : Owns(e, n) => Owns(e, n)'
    BY <1>2, <2>1 DEF Owns
  <2>3. ASSUME e \notin mixed', Moving(e) \/ drop[e].row = "published", NEW f \in Calls \ {e}, Moving(f)'
        PROVE  drop'[f].zone # drop'[e].zone
    <3>1. CASE f = d
      <4>1. drop[e].zone # zone
        BY <1>3, <2>3
      <4> QED BY <1>2, <2>1, <3>1, <4>1
    <3>2. CASE f # d
      BY <1>2, <1>3, <2>1, <2>3, <3>2 DEF CallInv
    <3> QED BY <3>1, <3>2
  <2> QED BY <1>2, <1>3, <2>1, <2>2, <2>3 DEF CallInv
<1>5. CallInv(d)'
  <2>1. Shards(d)' \in Nat /\ (at = "write" => Shards(d)' >= 1) /\ Owns(d, 0)'
    BY <1>2 DEF Shards, Owns
  <2>2. ASSUME d \notin mixed', NEW f \in Calls \ {d}, Moving(f)' PROVE drop'[f].zone # drop'[d].zone
    <3>1. Moving(f) /\ drop'[f].zone = drop[f].zone
      BY <1>2, <2>2
    <3>2. drop[f].zone # zone
      BY <1>3, <2>2, <3>1
    <3> QED BY <1>2, <3>1, <3>2
  <2> QED BY <1>2, <2>1, <2>2 DEF CallInv
<1> QED BY <1>1, <1>4, <1>5 DEF HoleInv

\* Writing a record touches the call's own zone only.
LEMMA WriteKeepsHole ==
  ASSUME HoleInv, NEW d \in Calls, WriteRecord(d)
  PROVE  HoleInv'
<1> USE DropsAssumption DEF Moving, HoleRow
<1>0. PICK i, z : i = drop[d].next /\ z = drop[d].zone
  OBVIOUS
<1> DEFINE written == [txt EXCEPT ![z][i] = [of |-> d, part |-> i]]
<1>1. drop[d].at = "write" /\ z \in Zones /\ i \in 1 .. Shards(d) /\ drop[d].row = "none"
      /\ zone' = zone /\ mixed' = mixed /\ CallInv(d) /\ HoleTypeOK
  BY <1>0 DEF WriteRecord, HoleInv, CallInv
<1>2. Shards(d) \in 0 .. MaxShards /\ i \in Slots
  BY <1>1 DEF Shards, Slots, HoleTypeOK
<1>3. /\ written \in [Zones -> [Slots -> [of : Calls \union {"none"}, part : 0 .. MaxShards]]]
      /\ written[z][i] = [of |-> d, part |-> i]
      /\ \A j \in Slots \ {i} : written[z][j] = txt[z][j]
      /\ \A y \in Zones \ {z} : written[y] = txt[y]
  BY <1>1, <1>2 DEF Slots, HoleTypeOK
<1>4. txt' \in {txt, written} /\ \A e \in Calls \ {d} : drop'[e] = drop[e]
  BY <1>0, <1>1 DEF WriteRecord, HoleTypeOK
<1>5. CASE /\ txt' = written
           /\ drop' = [drop EXCEPT ![d].next = i + 1, ![d].at = IF i = Shards(d) THEN "insert" ELSE "write"]
  <2>1. /\ drop'[d].at = (IF i = Shards(d) THEN "insert" ELSE "write") /\ drop'[d].next = i + 1
        /\ drop'[d].size = drop[d].size /\ drop'[d].zone = z /\ drop'[d].row = "none"
    BY <1>0, <1>1, <1>5 DEF HoleTypeOK
  <2>2. Shards(d)' = Shards(d)
    BY <2>1 DEF Shards
  <2>3. d \notin mixed => Owns(d, i)'
    <3>1. SUFFICES ASSUME d \notin mixed, NEW j \in 1 .. i PROVE txt'[z][j] = [of |-> d, part |-> j]
      BY <2>1 DEF Owns
    <3>2. j # i => txt[z][j] = [of |-> d, part |-> j]
      BY <1>0, <1>1, <1>2, <3>1 DEF CallInv, Owns
    <3> QED BY <1>2, <1>3, <1>5, <3>1, <3>2 DEF Slots
  <2>4. i + 1 \in 0 .. MaxShards + 1
    BY <1>2 DEF Slots
  <2>5. HoleTypeOK'
    <3>1. [drop[d] EXCEPT !.next = i + 1, !.at = IF i = Shards(d) THEN "insert" ELSE "write"] \in HoleRow
      BY <1>1, <2>4 DEF HoleTypeOK
    <3>2. drop' \in [Calls -> HoleRow]
      BY <1>1, <1>5, <3>1 DEF HoleTypeOK
    <3> QED BY <1>1, <1>3, <1>5, <3>2 DEF HoleTypeOK
  <2>6. CallInv(d)'
    BY <1>0, <1>1, <1>2, <1>4, <2>1, <2>2, <2>3 DEF CallInv
  <2>7. ASSUME NEW e \in Calls \ {d} PROVE CallInv(e)'
    BY <1>0, <1>1, <1>3, <1>4, <2>1, OthersKept
  <2> QED BY <2>5, <2>6, <2>7 DEF HoleInv
<1>6. CASE drop' = [drop EXCEPT ![d].at = "over"]
  <2>1. drop'[d].at = "over" /\ drop'[d].row = "none"
    BY <1>0, <1>1, <1>6 DEF HoleTypeOK
  <2>2. HoleTypeOK'
    <3>1. drop' \in [Calls -> HoleRow]
      BY <1>1, <1>6 DEF HoleTypeOK
    <3> QED BY <1>1, <1>3, <1>4, <3>1 DEF HoleTypeOK
  <2>3. CallInv(d)'
    BY <2>1 DEF CallInv
  <2>4. ASSUME NEW e \in Calls \ {d} PROVE CallInv(e)'
    BY <1>0, <1>1, <1>3, <1>4, <2>1, OthersKept
  <2> QED BY <2>2, <2>3, <2>4 DEF HoleInv
<1> QED BY <1>0, <1>5, <1>6 DEF WriteRecord

\* Deleting one does too.
LEMMA DeleteKeepsHole ==
  ASSUME HoleInv, NEW d \in Calls, DeleteTxt(d)
  PROVE  HoleInv'
<1> USE DropsAssumption DEF Moving, HoleRow
<1>0. PICK i, z : i = drop[d].next /\ z = drop[d].zone
  OBVIOUS
<1> DEFINE deleted == [txt EXCEPT ![z][i] = NoTxt]
<1>1. drop[d].at = "clear" /\ z \in Zones /\ i \in 1 .. MaxShards /\ drop[d].row = "none"
      /\ zone' = zone /\ mixed' = mixed /\ HoleTypeOK
  BY <1>0 DEF DeleteTxt, HoleInv, CallInv
<1>2. deleted \in [Zones -> [Slots -> [of : Calls \union {"none"}, part : 0 .. MaxShards]]]
      /\ \A y \in Zones \ {z} : deleted[y] = txt[y]
  BY <1>1 DEF Slots, NoTxt, HoleTypeOK
<1>3. txt' \in {txt, deleted} /\ \A e \in Calls \ {d} : drop'[e] = drop[e]
  BY <1>0, <1>1 DEF DeleteTxt, HoleTypeOK
<1>4. i + 1 \in 0 .. MaxShards + 1 /\ (i # MaxShards => i + 1 \in 1 .. MaxShards)
  BY <1>1
<1>5. /\ drop' \in {[drop EXCEPT ![d].next = i + 1, ![d].at = IF i = MaxShards THEN "update" ELSE "clear"],
                    [drop EXCEPT ![d].at = "over"]}
  BY <1>0 DEF DeleteTxt
<1>6. /\ drop'[d].zone = z /\ drop'[d].row = "none" /\ drop'[d].at \in {"update", "clear", "over"}
      /\ drop'[d].at = "clear" => drop'[d].next \in 1 .. MaxShards
  BY <1>0, <1>1, <1>4, <1>5 DEF HoleTypeOK
<1>7. HoleTypeOK'
  <2>1. [drop[d] EXCEPT !.next = i + 1, !.at = IF i = MaxShards THEN "update" ELSE "clear"] \in HoleRow
    BY <1>1, <1>4 DEF HoleTypeOK
  <2>2. [drop[d] EXCEPT !.at = "over"] \in HoleRow
    BY <1>1 DEF HoleTypeOK
  <2>3. ASSUME drop' = [drop EXCEPT ![d].next = i + 1, ![d].at = IF i = MaxShards THEN "update" ELSE "clear"]
        PROVE  drop' \in [Calls -> HoleRow]
    BY <1>1, <2>1, <2>3 DEF HoleTypeOK
  <2>4. ASSUME drop' = [drop EXCEPT ![d].at = "over"] PROVE drop' \in [Calls -> HoleRow]
    BY <1>1, <2>2, <2>4 DEF HoleTypeOK
  <2>5. drop' \in [Calls -> HoleRow]
    BY <1>5, <2>3, <2>4
  <2> QED BY <1>1, <1>2, <1>3, <2>5 DEF HoleTypeOK
<1>8. CallInv(d)'
  BY <1>0, <1>1, <1>3, <1>6 DEF CallInv, HoleInv
<1>9. ASSUME NEW e \in Calls \ {d} PROVE CallInv(e)'
  BY <1>0, <1>1, <1>2, <1>3, <1>6, OthersKept
<1> QED BY <1>7, <1>8, <1>9 DEF HoleInv

\* Every step of publishers, clearers and the cron keeps what unmixed drops own.
LEMMA HoleStep == HoleInv /\ [DropsNext]_dropVars => HoleInv'
<1> SUFFICES ASSUME HoleInv, [DropsNext]_dropVars PROVE HoleInv'
  OBVIOUS
<1> USE DropsAssumption DEF Moving, HoleRow
<1>0. HoleTypeOK /\ \A e \in Calls : CallInv(e)
  BY DEF HoleInv
<1>1. ASSUME NEW y \in Zones, Reconnect(y) PROVE HoleInv'
  BY <1>0, <1>1 DEF Reconnect, HoleInv, HoleTypeOK, CallInv, Shards, Owns
<1>2. ASSUME NEW d \in Calls, Publish(d) \/ Clear(d) PROVE HoleInv'
  BY <1>2, StartKeepsHole DEF Publish, Clear
<1>3. ASSUME NEW d \in Calls, InsertDrop(d) PROVE HoleInv'
  <2>1. /\ drop'[d] = [drop[d] EXCEPT !.at = "over", !.row = "published"] /\ drop[d].at = "insert"
        /\ \A e \in Calls \ {d} : drop'[e] = drop[e]
        /\ txt' = txt /\ mixed' = mixed
    BY <1>0, <1>3 DEF InsertDrop, HoleTypeOK
  <2>2. HoleTypeOK'
    <3>1. [drop[d] EXCEPT !.at = "over", !.row = "published"] \in HoleRow
      BY <1>0 DEF HoleTypeOK
    <3>2. drop' \in [Calls -> HoleRow]
      BY <1>0, <1>3, <3>1 DEF InsertDrop, HoleTypeOK
    <3> QED BY <1>0, <1>3, <3>2 DEF InsertDrop, HoleTypeOK
  <2>3. drop'[d].at = "over" /\ drop'[d].row = "published" /\ drop'[d].zone = drop[d].zone
        /\ drop'[d].size = drop[d].size
    BY <1>0, <2>1 DEF HoleTypeOK
  <2>4. CallInv(d)'
    BY <1>0, <2>1, <2>3 DEF CallInv, Shards, Owns
  <2>5. ASSUME NEW e \in Calls \ {d} PROVE CallInv(e)'
    BY <2>1, <2>3, OthersKept
  <2> QED BY <2>2, <2>4, <2>5 DEF HoleInv
<1>4. ASSUME NEW d \in Calls, MarkCleared(d) PROVE HoleInv'
  <2>1. HoleTypeOK'
    BY <1>0, <1>4 DEF MarkCleared, HoleTypeOK
  <2>2. ASSUME NEW e \in Calls
        PROVE  /\ drop'[e].zone = drop[e].zone /\ drop'[e].size = drop[e].size /\ drop'[e].next = drop[e].next
               /\ drop'[e].at = (IF e = d THEN "over" ELSE drop[e].at)
               /\ drop'[e].row \in {drop[e].row, "cleared"}
               /\ e # d /\ drop[e].row = "none" => drop'[e] = drop[e]
    BY <1>0, <1>4, <2>2 DEF MarkCleared, HoleTypeOK
  <2>3. drop[d].row = "none" /\ txt' = txt /\ mixed' = mixed
    BY <1>0, <1>4 DEF MarkCleared, CallInv
  <2>4. ASSUME NEW e \in Calls PROVE CallInv(e)'
    BY <1>0, <2>2, <2>3 DEF CallInv, Shards, Owns, NoDrop
  <2> QED BY <2>1, <2>4 DEF HoleInv
<1>5. ASSUME NEW d \in Calls, DropKilled(d) PROVE HoleInv'
  <2>1. /\ drop'[d] = [drop[d] EXCEPT !.at = "over"] /\ \A e \in Calls \ {d} : drop'[e] = drop[e]
        /\ txt' = txt /\ mixed' = mixed /\ drop[d].row = "none"
    BY <1>0, <1>5 DEF DropKilled, HoleTypeOK, CallInv
  <2>2. HoleTypeOK'
    BY <1>0, <1>5 DEF DropKilled, HoleTypeOK
  <2>3. drop'[d].at = "over" /\ drop'[d].row = "none"
    BY <1>0, <2>1 DEF HoleTypeOK
  <2>4. CallInv(d)'
    BY <2>3 DEF CallInv
  <2>5. ASSUME NEW e \in Calls \ {d} PROVE CallInv(e)'
    BY <2>1, <2>3, OthersKept
  <2> QED BY <2>2, <2>4, <2>5 DEF HoleInv
<1>6. ASSUME NEW d \in Calls, PurgeDrop(d) PROVE HoleInv'
  <2>1. /\ drop'[d] = [drop[d] EXCEPT !.row = "purged"] /\ \A e \in Calls \ {d} : drop'[e] = drop[e]
        /\ txt' = txt /\ mixed' = mixed /\ drop[d].row # "none"
    BY <1>0, <1>6 DEF PurgeDrop, HoleTypeOK
  <2>2. HoleTypeOK'
    BY <1>0, <1>6 DEF PurgeDrop, HoleTypeOK
  <2>3. ~Moving(d) /\ drop[d].at # "new"
    BY <1>0, <2>1 DEF CallInv, NoDrop
  <2>4. drop'[d].at = drop[d].at /\ drop'[d].row = "purged"
    BY <1>0, <2>1 DEF HoleTypeOK
  <2>5. CallInv(d)'
    BY <2>3, <2>4 DEF CallInv
  <2>6. ASSUME NEW e \in Calls \ {d} PROVE CallInv(e)'
    BY <2>1, <2>3, <2>4, OthersKept
  <2> QED BY <2>2, <2>5, <2>6 DEF HoleInv
<1>7. CASE UNCHANGED holeVars
  BY <1>0, <1>7 DEF holeVars, HoleInv, HoleTypeOK, CallInv, Shards, Owns
<1>8. GiftNext => UNCHANGED holeVars
  BY DEF GiftNext, Donate, BeginWithdraw, Withdraw, ExpireDonation, Review, SelectPurge, Purge
<1>9. UNCHANGED dropVars => UNCHANGED holeVars
  BY DEF dropVars, holeVars
<1> QED
  BY <1>1, <1>2, <1>3, <1>4, <1>5, <1>6, <1>7, <1>8, <1>9, WriteKeepsHole, DeleteKeepsHole
  DEF DropsNext, HoleNext

(* publishWhiteHoleDrop and clearWhiteHoleDrop, one record at a time: a     *)
(* drop that is listed as published and was alone in its zone has all its   *)
(* shards there.                                                            *)
THEOREM PublishedDropIsThere == DropsSpec => []PublishedIsThere
<1>1. DropsInit => HoleInv
  BY DropsAssumption DEF DropsInit, HoleInv, HoleTypeOK, HoleRow, CallInv, Moving, NoDrop, NoTxt, Slots
<1>2. HoleInv => PublishedIsThere
  BY DEF HoleInv, CallInv, Owns, PublishedIsThere
<1> QED BY <1>1, <1>2, HoleStep, PTL DEF DropsSpec

-----------------------------------------------------------------------------
(* Sleeper: the newest waiting command.                                     *)

\* A set of naturals that is not empty has a smallest element: < is well-founded.
LEMMA SmallestOfNaturals ==
  ASSUME NEW T \in SUBSET Nat, T # {}
  PROVE  \E m \in T : \A j \in T : m <= j
<1>1. PICK m \in T : \A y \in T : ~(<<y, m>> \in OpToRel(<, Nat))
  BY NatLessThanWellFounded, WFMin, Zenon
<1>2. ASSUME NEW y \in T PROVE ~(y < m)
  <2>1. ~(<<y, m>> \in {ss \in Nat \X Nat : ss[1] < ss[2]})
    BY <1>1, Zenon DEF OpToRel
  <2> QED BY <2>1
<1> QED BY <1>2

\* One of numbers up to n has a largest: the one whose distance to n is the smallest.
LEMMA LargestOfBounded ==
  ASSUME NEW n \in Nat, NEW T \in SUBSET (1 .. n), T # {}
  PROVE  \E m \in T : \A j \in T : j <= m
<1> DEFINE D == {n - i : i \in T}
<1>1. \A i \in T : n - i \in Nat
  OBVIOUS
<1>2. D \in SUBSET Nat /\ D # {}
  BY <1>1
<1>3. PICK x \in D : \A y \in D : x <= y
  <2> HIDE DEF D
  <2> QED BY <1>2, SmallestOfNaturals
<1>4. PICK m \in T : x = n - m
  OBVIOUS
<1>5. \A j \in T : n - j \in D
  OBVIOUS
<1>6. \A j \in T : x <= n - j
  BY <1>3, <1>5
<1> QED BY <1>4, <1>6

\* pendingSleeperCommand finds the newest command that is not consumed.
LEMMA NewestIsLargest ==
  ASSUME commands \in Seq([order : Orders, consumed : BOOLEAN])
  PROVE  /\ Newest \in Nat
         /\ Waiting = {} => Newest = 0
         /\ Waiting # {} => Newest \in Waiting
         /\ \A j \in Waiting : j <= Newest
<1>1. Waiting \in SUBSET (1 .. Len(commands)) /\ Len(commands) \in Nat
  BY DEF Waiting
<1>2. CASE Waiting = {}
  BY <1>2 DEF Newest
<1>3. CASE Waiting # {}
  <2>1. \E m \in Waiting : \A j \in Waiting : j <= m
    BY <1>1, <1>3, LargestOfBounded
  <2>2. Newest \in Waiting /\ \A j \in Waiting : j <= Newest
    BY <1>3, <2>1 DEF Newest
  <2> QED BY <1>1, <1>3, <2>2
<1> QED BY <1>2, <1>3

Publishing(p) == post[p].at \in {"find", "write", "consume"} /\ post[p].pending # 0

SleeperTypes ==
  /\ commands \in Seq([order : Orders, consumed : BOOLEAN])
  /\ post \in [Posts -> [at : {"idle", "insert", "select", "find", "write", "consume"},
                        order : Orders \union {"none"}, pending : Nat, exists : BOOLEAN]]
  /\ \A p \in Posts : PostAt(p, "insert") => post[p].order \in Orders

(* A request that publishes a command covers every waiting one that was not *)
(* queued past it, and by the time it consumes, its command was in the      *)
(* record.                                                                  *)
SleeperInv ==
  /\ SleeperTypes
  /\ \A p \in Posts : Publishing(p) => \A i \in Waiting \ passed : i <= post[p].pending
  /\ \A p \in Posts : PostAt(p, "consume") => Publishing(p) /\ post[p].pending \in published
  /\ ConsumedWasPublished

\* The requests keep the types, however many commands there are.
LEMMA SleeperTypesStep == SleeperTypes /\ [SleeperNext]_sleeperVars => SleeperTypes'
<1> SUFFICES ASSUME SleeperTypes, [SleeperNext]_sleeperVars PROVE SleeperTypes'
  OBVIOUS
<1> USE DEF SleeperTypes, PostAt, PostGoes, PostEnds, NoPost
<1>1. ASSUME NEW to \in {"standard", "sleeper"}, NEW consent \in BOOLEAN, SetDeploymentRole(to, consent)
      PROVE  SleeperTypes'
  BY <1>1 DEF SetDeploymentRole
<1>2. ASSUME NEW p \in Posts, NEW order \in Orders, QueueCommand(p, order) PROVE SleeperTypes'
  BY <1>2 DEF QueueCommand
<1>3. ASSUME NEW p \in Posts, InsertCommand(p) PROVE SleeperTypes'
  <2>1. [order |-> post[p].order, consumed |-> FALSE] \in [order : Orders, consumed : BOOLEAN]
    BY <1>3 DEF InsertCommand
  <2>2. commands' \in Seq([order : Orders, consumed : BOOLEAN])
    BY <1>3, <2>1, AppendProperties DEF InsertCommand
  <2> QED BY <1>3, <2>2 DEF InsertCommand
<1>4. ASSUME NEW p \in Posts, FindRecord(p) PROVE SleeperTypes'
  <2>1. (beacon # <<>>) \in BOOLEAN
    OBVIOUS
  <2> QED BY <1>4, <2>1 DEF FindRecord
<1>8. ASSUME NEW p \in Posts, UNCHANGED commands,
             PostGoes(p, "select") \/ PostGoes(p, "consume") \/ PostEnds(p)
      PROVE  SleeperTypes'
  <2>1. ASSUME NEW s \in {"select", "consume"}, PostGoes(p, s) PROVE SleeperTypes'
    <3>1. [post[p] EXCEPT !.at = s] \in [at : {"idle", "insert", "select", "find", "write", "consume"},
                                         order : Orders \union {"none"}, pending : Nat, exists : BOOLEAN]
      OBVIOUS
    <3> QED BY <1>8, <2>1, <3>1
  <2>2. CASE PostEnds(p)
    <3>1. NoPost \in [at : {"idle", "insert", "select", "find", "write", "consume"},
                      order : Orders \union {"none"}, pending : Nat, exists : BOOLEAN]
      OBVIOUS
    <3> QED BY <1>8, <2>2, <3>1
  <2> QED BY <1>8, <2>1, <2>2
<1>9. ASSUME NEW p \in Posts, RefreshBeacon(p) \/ PublishRecord(p) \/ PostFails(p) PROVE SleeperTypes'
  BY <1>8, <1>9 DEF RefreshBeacon, PublishRecord, PostFails
<1>5. ASSUME NEW p \in Posts, SelectPending(p) PROVE SleeperTypes'
  <2>1. Newest \in Nat
    BY NewestIsLargest
  <2> QED BY <1>5, <2>1 DEF SelectPending
<1>6. ASSUME NEW p \in Posts, ConsumeCommands(p) PROVE SleeperTypes'
  <2>1. /\ DOMAIN commands = 1 .. Len(commands) /\ Len(commands) \in Nat
        /\ \A i \in DOMAIN commands : commands[i] \in [order : Orders, consumed : BOOLEAN]
    BY LenProperties, ElementOfSeq
  <2>2. commands' \in [1 .. Len(commands) -> [order : Orders, consumed : BOOLEAN]]
    BY <1>6, <2>1 DEF ConsumeCommands
  <2>3. commands' \in Seq([order : Orders, consumed : BOOLEAN])
    BY <2>1, <2>2, SeqDef
  <2> QED BY <1>6, <2>3 DEF ConsumeCommands
<1>7. CASE WakeUp \/ UNCHANGED sleeperVars
  BY <1>7 DEF WakeUp, sleeperVars
<1> QED BY <1>1, <1>2, <1>3, <1>4, <1>5, <1>6, <1>7, <1>9 DEF SleeperNext

\* Every statement and call of the requests keeps what publishing covers.
LEMMA SleeperStep == SleeperInv /\ [SleeperNext]_sleeperVars => SleeperInv'
<1> SUFFICES ASSUME SleeperInv, [SleeperNext]_sleeperVars PROVE SleeperInv'
  OBVIOUS
<1>0. SleeperTypes /\ SleeperTypes'
  BY SleeperTypesStep DEF SleeperInv
<1> USE DEF SleeperInv, Publishing, PostAt
<1>1. CASE UNCHANGED <<commands, post, published, passed>>
  BY <1>0, <1>1 DEF Waiting, ConsumedWasPublished
<1>2. ASSUME NEW p \in Posts, UNCHANGED <<commands, published, passed>>,
             \A q \in Posts \ {p} : post'[q] = post[q],
             ~Publishing(p)' \/ (/\ post'[p].pending = post[p].pending /\ Publishing(p)
                                 /\ post'[p].at # "consume"),
             post'[p].at # "consume"
      PROVE  SleeperInv'
  BY <1>0, <1>2 DEF Waiting, ConsumedWasPublished
<1>3. ASSUME NEW p \in Posts, NEW order \in Orders, QueueCommand(p, order) PROVE SleeperInv'
  <2>1. post'[p].at = "insert" /\ \A q \in Posts \ {p} : post'[q] = post[q]
    BY <1>0, <1>3 DEF QueueCommand, SleeperTypes, NoPost
  <2> QED BY <1>2, <1>3, <2>1 DEF QueueCommand
<1>4. ASSUME NEW p \in Posts, RefreshBeacon(p) \/ FindRecord(p) \/ PostFails(p) PROVE SleeperInv'
  <2>1. /\ \A q \in Posts \ {p} : post'[q] = post[q]
        /\ \/ post'[p].at \in {"select", "idle"}
           \/ post[p].at = "find" /\ post'[p].at = "write" /\ post'[p].pending = post[p].pending
    BY <1>0, <1>4 DEF RefreshBeacon, FindRecord, PostFails, PostGoes, PostEnds, SleeperTypes, NoPost
  <2>2. UNCHANGED <<commands, published, passed>>
    BY <1>4 DEF RefreshBeacon, FindRecord, PostFails
  <2> QED BY <1>2, <2>1, <2>2
<1>5. ASSUME NEW p \in Posts, InsertCommand(p) PROVE SleeperInv'
  <2> DEFINE n == Len(commands) + 1
  <2>1. post'[p].at = "select" /\ \A q \in Posts \ {p} : post'[q] = post[q]
    BY <1>0, <1>5 DEF InsertCommand, PostGoes, SleeperTypes
  <2>2. /\ DOMAIN commands = 1 .. Len(commands) /\ Len(commands) \in Nat
        /\ Len(commands') = n /\ DOMAIN commands' = 1 .. n
        /\ \A i \in 1 .. Len(commands) : commands'[i] = commands[i]
        /\ ~commands'[n].consumed
    BY <1>0, <1>5, AppendProperties DEF InsertCommand, SleeperTypes
  <2>3. passed \subseteq passed' /\ published' = published
        /\ ((\E q \in Posts : Publishing(q)) => n \in passed')
    BY <1>5 DEF InsertCommand
  <2>4. Waiting' \ passed' \subseteq (Waiting \ passed) \union ({n} \ passed')
    BY <2>2, <2>3 DEF Waiting
  <2>5. \A q \in Posts : Publishing(q)' => Publishing(q) /\ post'[q].pending = post[q].pending
    BY <2>1
  <2>6. \A q \in Posts : Publishing(q)' => \A i \in Waiting' \ passed' : i <= post'[q].pending
    BY <2>3, <2>4, <2>5
  <2>7. ConsumedWasPublished'
    BY <2>2, <2>3 DEF ConsumedWasPublished
  <2>8. \A q \in Posts : PostAt(q, "consume")' => Publishing(q)' /\ post'[q].pending \in published'
    BY <2>1, <2>3
  <2> QED BY <1>0, <2>6, <2>7, <2>8
<1>6. ASSUME NEW p \in Posts, SelectPending(p) PROVE SleeperInv'
  <2>1. /\ post'[p].at = "find" /\ post'[p].pending = Newest
        /\ \A q \in Posts \ {p} : post'[q] = post[q]
        /\ UNCHANGED <<commands, published, passed>>
    BY <1>0, <1>6 DEF SelectPending, SleeperTypes
  <2>2. \A j \in Waiting : j <= Newest
    BY <1>0, NewestIsLargest DEF SleeperTypes
  <2>3. Waiting' = Waiting
    BY <2>1 DEF Waiting
  <2> QED BY <1>0, <2>1, <2>2, <2>3 DEF ConsumedWasPublished
<1>7. ASSUME NEW p \in Posts, PublishRecord(p) PROVE SleeperInv'
  <2>1. /\ \A q \in Posts \ {p} : post'[q] = post[q]
        /\ \/ post'[p].at = "idle"
           \/ /\ post'[p].at = "consume" /\ post'[p].pending = post[p].pending /\ post[p].pending # 0
              /\ post[p].pending \in published'
    BY <1>0, <1>7 DEF PublishRecord, WriteDone, PostGoes, PostEnds, SleeperTypes, NoPost
  <2>2. UNCHANGED <<commands, passed>> /\ published \subseteq published' /\ post[p].at = "write"
    BY <1>7 DEF PublishRecord, WriteDone
  <2>3. Waiting' = Waiting
    BY <2>2 DEF Waiting
  <2>4. ConsumedWasPublished'
    BY <2>2 DEF ConsumedWasPublished
  <2> QED BY <1>0, <2>1, <2>2, <2>3, <2>4
<1>8. ASSUME NEW p \in Posts, ConsumeCommands(p) PROVE SleeperInv'
  <2>1. /\ post'[p].at = "idle" /\ \A q \in Posts \ {p} : post'[q] = post[q]
        /\ UNCHANGED <<published, passed>> /\ post[p].at = "consume"
    BY <1>0, <1>8 DEF ConsumeCommands, PostEnds, SleeperTypes, NoPost
  <2>2. /\ DOMAIN commands' = DOMAIN commands /\ Len(commands') = Len(commands)
        /\ DOMAIN commands = 1 .. Len(commands)
        /\ \A i \in DOMAIN commands : commands'[i].consumed
    <3>1. /\ DOMAIN commands = 1 .. Len(commands) /\ Len(commands) \in Nat
          /\ \A i \in DOMAIN commands : commands[i] \in [order : Orders, consumed : BOOLEAN]
      <4>1. commands \in Seq([order : Orders, consumed : BOOLEAN])
        BY <1>0 DEF SleeperTypes
      <4> QED BY <4>1, LenProperties, ElementOfSeq
    <3>2. DOMAIN commands' = DOMAIN commands /\ DOMAIN commands' = 1 .. Len(commands')
      BY <1>0, <1>8, LenProperties DEF ConsumeCommands, SleeperTypes
    <3>3. Len(commands') = Len(commands)
      BY <1>0, <3>1, <3>2, LenProperties DEF SleeperTypes
    <3> QED BY <1>8, <3>1, <3>2, <3>3 DEF ConsumeCommands
  <2>3. Waiting' = {}
    BY <2>2 DEF Waiting
  <2>4. ASSUME NEW i \in DOMAIN commands, i \notin passed PROVE \E j \in published : j >= i
    <3>1. CASE commands[i].consumed
      BY <2>4, <3>1 DEF ConsumedWasPublished
    <3>2. CASE ~commands[i].consumed
      <4>1. i \in Waiting \ passed
        BY <2>2, <2>4, <3>2 DEF Waiting
      <4>2. post[p].pending \in published /\ i <= post[p].pending
        BY <2>1, <4>1
      <4> QED BY <1>0, <2>2, <4>2 DEF SleeperTypes
    <3> QED BY <3>1, <3>2
  <2>5. ConsumedWasPublished'
    BY <2>1, <2>2, <2>4 DEF ConsumedWasPublished
  <2> QED BY <1>0, <2>1, <2>3, <2>5
<1>9. (\E to \in {"standard", "sleeper"}, consent \in BOOLEAN : SetDeploymentRole(to, consent)) \/ WakeUp
        \/ UNCHANGED sleeperVars => UNCHANGED <<commands, post, published, passed>>
  BY DEF SetDeploymentRole, WakeUp, sleeperVars
<1> QED BY <1>1, <1>3, <1>4, <1>5, <1>6, <1>7, <1>8, <1>9 DEF SleeperNext

(* publishSleeperBeacon: a command is consumed only after it, or one newer  *)
(* than it, was in the TXT record, unless it was queued between another     *)
(* request's SELECT and its UPDATE.                                         *)
THEOREM ConsumedAfterPublication == SleeperSpec => []ConsumedWasPublished
<1>1. SleeperInit => SleeperInv
  BY EmptySeq
  DEF SleeperInit, SleeperInv, SleeperTypes, Publishing, PostAt, NoPost, Orders, ConsumedWasPublished
<1>2. SleeperInv => ConsumedWasPublished
  BY DEF SleeperInv
<1> QED BY <1>1, <1>2, SleeperStep, PTL DEF SleeperSpec

-----------------------------------------------------------------------------
(* Cloud: the panels.                                                       *)

PanelRow == [status : {"none", "provisioning", "live", "verifying", "failed", "deleted"},
             script : Scripts \union {"none"}, kind : PanelKinds \union {"none"},
             at : {"idle", "store", "source", "upload", "repair", "patch", "finish", "fail"},
             read : SUBSET {"KV", "kv"}]
Account == [by : Attempts \union {"nobody"}, bound : SUBSET {"KV", "kv"}]

PanelTypeOK == panel \in [Attempts -> PanelRow] /\ account \in [Scripts -> Account] /\ blurred \subseteq Attempts

\* No other attempt that has begun uses the name.
Solo(a) == \A b \in Attempts \ {a} : panel[b].status # "none" => ScriptOf(b) # ScriptOf(a)

(* A script is the work of an attempt that chose its name.  An attempt past *)
(* its upload has a script, and one that is alone with its name has none    *)
(* before, nor after a failure in which nothing was lost.                   *)
AttemptInv(a) ==
  /\ panel[a].status # "none" => ScriptOf(a) \in Scripts
  /\ panel[a].at # "idle" => panel[a].status = "provisioning"
  /\ panel[a].status \in {"live", "verifying"} \/ panel[a].at \in {"repair", "patch", "finish"}
       => account[ScriptOf(a)].by # "nobody"
  /\ (panel[a].status \in {"failed", "deleted"} \/ panel[a].at \in {"store", "source", "upload", "fail"})
       /\ Solo(a) /\ a \notin blurred
       => account[ScriptOf(a)] = NoScript
ScriptInv(s) ==
  IF account[s].by = "nobody" THEN account[s] = NoScript
  ELSE panel[account[s].by].status # "none" /\ ScriptOf(account[s].by) = s
PanelInv == PanelTypeOK /\ (\A a \in Attempts : AttemptInv(a)) /\ (\A s \in Scripts : ScriptInv(s))

\* What an attempt does to its own row, with the account as it is, is no concern of others.
LEMMA RowStep ==
  ASSUME PanelInv, NEW a \in Attempts, NEW row \in PanelRow, panel' = [panel EXCEPT ![a] = row],
         row.status # "none", row.script \in Scripts,
         panel[a].status # "none" => row.script = panel[a].script,
         account' = account, blurred' \in SUBSET Attempts, blurred \subseteq blurred',
         AttemptInv(a)'
  PROVE  PanelInv'
<1>0. PanelTypeOK /\ (\A b \in Attempts : AttemptInv(b)) /\ (\A s \in Scripts : ScriptInv(s))
  BY DEF PanelInv
<1>1. PanelTypeOK'
  BY <1>0 DEF PanelTypeOK
<1>2. panel'[a] = row /\ \A b \in Attempts \ {a} : panel'[b] = panel[b]
  BY <1>0 DEF PanelTypeOK
<1>3. ASSUME NEW b \in Attempts \ {a} PROVE AttemptInv(b)'
  <2>1. Solo(b)' => Solo(b)
    BY <1>2 DEF Solo, ScriptOf
  <2> QED BY <1>0, <1>2, <2>1 DEF AttemptInv, ScriptOf
<1>4. ASSUME NEW s \in Scripts PROVE ScriptInv(s)'
  BY <1>0, <1>2 DEF ScriptInv, ScriptOf, PanelTypeOK, Account
<1> QED BY <1>0, <1>1, <1>3, <1>4 DEF PanelInv

\* Nor is what it uploads, except to attempts that share the name.
LEMMA ScriptStep ==
  ASSUME PanelInv, NEW a \in Attempts, NEW at, panel' = [panel EXCEPT ![a].at = at],
         at \in {"repair", "finish", "fail"}, panel[a].at \in {"upload", "patch"}, NEW script \in Account,
         account' = [account EXCEPT ![ScriptOf(a)] = script],
         script.by = a \/ (script.by = account[ScriptOf(a)].by /\ script.by # "nobody"),
         blurred' = IF at = "fail" THEN blurred \union {a} ELSE blurred
  PROVE  PanelInv'
<1>0. PanelTypeOK /\ (\A b \in Attempts : AttemptInv(b)) /\ (\A s \in Scripts : ScriptInv(s))
  BY DEF PanelInv
<1>1. panel[a].status = "provisioning" /\ ScriptOf(a) \in Scripts
  BY <1>0 DEF AttemptInv
<1>2. PanelTypeOK'
  <2>1. [panel[a] EXCEPT !.at = at] \in PanelRow
    BY <1>0 DEF PanelTypeOK, PanelRow
  <2> QED BY <1>0, <1>1, <2>1 DEF PanelTypeOK
<1>3. /\ panel'[a].at = at /\ \A b \in Attempts \ {a} : panel'[b] = panel[b]
      /\ \A b \in Attempts : panel'[b].status = panel[b].status /\ panel'[b].script = panel[b].script
  BY <1>0 DEF PanelTypeOK, PanelRow
<1>4. account'[ScriptOf(a)] = script /\ \A s \in Scripts \ {ScriptOf(a)} : account'[s] = account[s]
  BY <1>0, <1>1 DEF PanelTypeOK
<1>5. script.by # "nobody" /\ script.by \in Attempts
  BY CloudAssumption DEF Account
<1>6. \A b \in Attempts : (Solo(b)' <=> Solo(b)) /\ ScriptOf(b)' = ScriptOf(b)
  BY <1>3 DEF Solo, ScriptOf
<1>7. AttemptInv(a)'
  <2>1. at = "fail" => a \in blurred'
    OBVIOUS
  <2> QED BY <1>1, <1>3, <1>4, <1>5, <1>6, <2>1 DEF AttemptInv
<1>8. ASSUME NEW b \in Attempts \ {a} PROVE AttemptInv(b)'
  <2>1. CASE ScriptOf(b) = ScriptOf(a)
    <3>1. ~Solo(b)
      BY <1>1, <2>1 DEF Solo
    <3> QED BY <1>0, <1>1, <1>3, <1>4, <1>5, <1>6, <2>1, <3>1 DEF AttemptInv
  <2>2. CASE ScriptOf(b) # ScriptOf(a)
    <3>1. ScriptOf(b) \in Scripts => account'[ScriptOf(b)] = account[ScriptOf(b)]
      BY <1>4, <2>2
    <3>2. b \notin blurred' => b \notin blurred
      OBVIOUS
    <3>3. AttemptInv(b)
      BY <1>0
    <3>4. panel[b].status = "none" => panel[b].at = "idle"
      BY <3>3 DEF AttemptInv
    <3> QED BY <1>3, <1>6, <3>1, <3>2, <3>3, <3>4 DEF AttemptInv
  <2> QED BY <2>1, <2>2
<1>9. ASSUME NEW s \in Scripts PROVE ScriptInv(s)'
  <2>1. CASE s = ScriptOf(a)
    <3>1. account[ScriptOf(a)].by # "nobody" =>
            panel[account[s].by].status # "none" /\ ScriptOf(account[s].by) = s
      BY <1>0, <2>1 DEF ScriptInv
    <3> QED BY <1>1, <1>3, <1>4, <1>5, <1>6, <2>1, <3>1 DEF ScriptInv
  <2>2. CASE s # ScriptOf(a)
    <3>1. account'[s] = account[s] /\ account[s].by \in Attempts \union {"nobody"}
      BY <1>0, <1>4, <2>2 DEF PanelTypeOK, Account
    <3>2. ScriptInv(s)
      BY <1>0
    <3> QED BY <1>3, <1>6, <3>1, <3>2 DEF ScriptInv
  <2> QED BY <2>1, <2>2
<1> QED BY <1>2, <1>7, <1>8, <1>9 DEF PanelInv

\* Every step of the attempts keeps the invariant.
LEMMA PanelStep == PanelInv /\ [CloudNext]_cloudVars => PanelInv'
<1> SUFFICES ASSUME PanelInv, [CloudNext]_cloudVars PROVE PanelInv'
  OBVIOUS
<1>0. PanelTypeOK /\ (\A b \in Attempts : AttemptInv(b)) /\ (\A s \in Scripts : ScriptInv(s))
  BY DEF PanelInv
<1>1. ASSUME NEW a \in Attempts, NEW s \in Scripts, NEW k \in PanelKinds, Begin(a, s, k) PROVE PanelInv'
  <2> DEFINE row == [status |-> "provisioning", script |-> s, kind |-> k, at |-> "store", read |-> {}]
  <2>1. row \in PanelRow /\ row.status # "none" /\ row.script \in Scripts
    BY DEF PanelRow
  <2>2. panel' = [panel EXCEPT ![a] = row] /\ panel[a].status = "none" /\ UNCHANGED <<account, blurred>>
    BY <1>1 DEF Begin
  <2>3. panel'[a] = row /\ \A b \in Attempts \ {a} : panel'[b] = panel[b]
    BY <1>0, <2>2 DEF PanelTypeOK
  <2>4. Solo(a)' => account[s] = NoScript
    <3>1. SUFFICES ASSUME Solo(a)', account[s].by # "nobody" PROVE FALSE
      BY <1>0 DEF ScriptInv
    <3>2. PICK b \in Attempts : b = account[s].by
      BY <1>0, <3>1 DEF PanelTypeOK, Account
    <3>3. panel[b].status # "none" /\ panel[b].script = s
      BY <1>0, <3>1, <3>2 DEF ScriptInv, ScriptOf
    <3>4. b # a
      BY <2>2, <3>3
    <3> QED BY <2>3, <3>1, <3>3, <3>4 DEF Solo, ScriptOf
  <2>5. AttemptInv(a)'
    BY <2>2, <2>3, <2>4 DEF AttemptInv, ScriptOf
  <2> HIDE DEF row
  <2>6. blurred' \in SUBSET Attempts
    BY <1>0, <2>2 DEF PanelTypeOK
  <2> QED BY <2>1, <2>2, <2>5, <2>6, RowStep
<1>2. ASSUME NEW a \in Attempts, NEW at \in {"idle", "source", "upload", "finish", "fail"}, panel[a].at # "idle",
             panel' = [panel EXCEPT ![a].at = at], UNCHANGED account,
             blurred' = blurred \/ (at = "fail" /\ blurred' = blurred \union {a}),
             at \in {"source", "upload"} => panel[a].at \in {"store", "source", "upload"},
             at = "finish" => panel[a].at \in {"repair", "patch"},
             at = "fail" => panel[a].at \in {"store", "source", "upload"} \/ a \in blurred'
      PROVE  PanelInv'
  <2> DEFINE row == [panel[a] EXCEPT !.at = at]
  <2>1. row \in PanelRow /\ row.status = panel[a].status /\ row.script = panel[a].script /\ row.at = at
    BY <1>0 DEF PanelTypeOK, PanelRow
  <2>2. panel' = [panel EXCEPT ![a] = row]
    BY <1>0, <1>2 DEF PanelTypeOK
  <2>3. panel'[a] = row /\ \A b \in Attempts \ {a} : panel'[b] = panel[b]
    BY <1>0, <2>2 DEF PanelTypeOK
  <2>4. panel[a].status = "provisioning" /\ panel[a].script \in Scripts /\ AttemptInv(a)
    BY <1>0, <1>2 DEF AttemptInv, ScriptOf
  <2> HIDE DEF row
  <2>5. ScriptOf(a)' = ScriptOf(a) /\ (Solo(a)' <=> Solo(a))
    BY <2>1, <2>3 DEF Solo, ScriptOf
  <2>6. AttemptInv(a)'
    BY <1>2, <2>1, <2>3, <2>4, <2>5 DEF AttemptInv
  <2>7. blurred' \in SUBSET Attempts /\ blurred \subseteq blurred'
    BY <1>0, <1>2 DEF PanelTypeOK
  <2> QED BY <1>2, <2>1, <2>2, <2>4, <2>6, <2>7, RowStep
<1>3. ASSUME NEW a \in Attempts, EnsureStore(a) \/ ResolveSource(a) \/ PanelKilled(a) PROVE PanelInv'
  BY <1>2, <1>3 DEF EnsureStore, ResolveSource, PanelKilled, Step
<1>4. ASSUME NEW a \in Attempts, Upload(a) PROVE PanelInv'
  <2>1. CASE /\ Uploaded(a)
             /\ \/ Step(a, "repair") /\ UNCHANGED blurred
                \/ Step(a, "fail") /\ Blur(a)
    <3>1. PICK kept \in SUBSET KvNames(panel[a].kind) :
            account' = [account EXCEPT ![ScriptOf(a)] = [by |-> a, bound |-> kept]]
      BY <2>1 DEF Uploaded
    <3>2. [by |-> a, bound |-> kept] \in Account /\ [by |-> a, bound |-> kept].by = a
      BY DEF Account, KvNames
    <3>3. PICK at \in {"repair", "fail"} :
            Step(a, at) /\ blurred' = IF at = "fail" THEN blurred \union {a} ELSE blurred
      BY <2>1 DEF Blur
    <3>4. panel[a].at = "upload" /\ panel' = [panel EXCEPT ![a].at = at]
      BY <1>4, <3>3 DEF Upload, Step
    <3> QED BY <3>1, <3>2, <3>3, <3>4, ScriptStep
  <2>2. CASE Step(a, "fail") /\ UNCHANGED <<account, blurred>>
    BY <1>2, <1>4, <2>2 DEF Upload, Step
  <2> QED BY <1>4, <2>1, <2>2 DEF Upload
<1>5. ASSUME NEW a \in Attempts, ReadSettings(a) PROVE PanelInv'
  <2>1. CASE Step(a, "finish")
    BY <1>2, <1>5, <2>1 DEF ReadSettings, Step
  <2>2. CASE panel' = [panel EXCEPT ![a].at = "patch", ![a].read = account[ScriptOf(a)].bound]
    <3> DEFINE row == [panel[a] EXCEPT !.at = "patch", !.read = account[ScriptOf(a)].bound]
    <3>1. panel[a].at = "repair" /\ UNCHANGED <<account, blurred>> /\ AttemptInv(a)
      BY <1>0, <1>5 DEF ReadSettings
    <3>2. panel[a].status = "provisioning" /\ panel[a].script \in Scripts
      BY <3>1 DEF AttemptInv, ScriptOf
    <3>3. account[ScriptOf(a)].bound \in SUBSET {"KV", "kv"}
      BY <1>0, <3>2 DEF PanelTypeOK, Account, ScriptOf
    <3>4. row \in PanelRow /\ row.status = panel[a].status /\ row.script = panel[a].script /\ row.at = "patch"
      BY <1>0, <3>3 DEF PanelTypeOK, PanelRow
    <3>5. panel' = [panel EXCEPT ![a] = row]
      BY <1>0, <2>2 DEF PanelTypeOK
    <3>6. panel'[a] = row
      BY <1>0, <3>5 DEF PanelTypeOK
    <3> HIDE DEF row
    <3>7. AttemptInv(a)'
      BY <3>1, <3>2, <3>4, <3>6 DEF AttemptInv, ScriptOf
    <3>8. blurred' \in SUBSET Attempts
      BY <1>0, <3>1 DEF PanelTypeOK
    <3> QED BY <3>1, <3>2, <3>4, <3>5, <3>7, <3>8, RowStep
  <2> QED BY <1>5, <2>1, <2>2 DEF ReadSettings
<1>6. ASSUME NEW a \in Attempts, PatchSettings(a) PROVE PanelInv'
  <2>1. CASE UNCHANGED account
    BY <1>2, <1>6, <2>1 DEF PatchSettings, Step
  <2>2. CASE account' = [account EXCEPT ![ScriptOf(a)].bound =
                           RepairedBindings(panel[a].read, KvNames(panel[a].kind))]
    <3> DEFINE script == [account[ScriptOf(a)] EXCEPT !.bound =
                            RepairedBindings(panel[a].read, KvNames(panel[a].kind))]
    <3>1. panel[a].at = "patch" /\ Step(a, "finish") /\ UNCHANGED blurred /\ AttemptInv(a)
      BY <1>0, <1>6 DEF PatchSettings
    <3>2. ScriptOf(a) \in Scripts /\ account[ScriptOf(a)].by # "nobody"
      BY <3>1 DEF AttemptInv
    <3>3. RepairedBindings(panel[a].read, KvNames(panel[a].kind)) \in SUBSET {"KV", "kv"}
      BY <1>0 DEF RepairedBindings, KvNames, PanelTypeOK, PanelRow
    <3>4. account' = [account EXCEPT ![ScriptOf(a)] = script]
      BY <1>0, <2>2, <3>2 DEF PanelTypeOK
    <3>5. script \in Account /\ script.by = account[ScriptOf(a)].by
      BY <1>0, <3>2, <3>3 DEF PanelTypeOK, Account
    <3>6. /\ panel' = [panel EXCEPT ![a].at = "finish"]
          /\ blurred' = IF "finish" = "fail" THEN blurred \union {a} ELSE blurred
      BY <3>1 DEF Step
    <3> HIDE DEF script
    <3>7. "finish" \in {"repair", "finish", "fail"} /\ panel[a].at \in {"upload", "patch"}
      BY <3>1
    <3> QED BY <3>2, <3>4, <3>5, <3>6, <3>7, ScriptStep
  <2> QED BY <1>6, <2>1, <2>2 DEF PatchSettings
<1>7. ASSUME NEW a \in Attempts, NEW status \in {"live", "verifying", "failed", "deleted"}, UNCHANGED <<account, blurred>>,
             panel' = [panel EXCEPT ![a].at = "idle", ![a].status = status],
             status \in {"live", "verifying"} => panel[a].at = "finish",
             status = "failed" => panel[a].at = "fail",
             status = "deleted" => panel[a].status = "failed"
      PROVE  PanelInv'
  <2> DEFINE row == [panel[a] EXCEPT !.at = "idle", !.status = status]
  <2>1. row \in PanelRow /\ row.status = status /\ row.script = panel[a].script /\ row.at = "idle"
    BY <1>0 DEF PanelTypeOK, PanelRow
  <2>2. panel' = [panel EXCEPT ![a] = row]
    BY <1>0, <1>7 DEF PanelTypeOK
  <2>3. panel'[a] = row /\ \A b \in Attempts \ {a} : panel'[b] = panel[b]
    BY <1>0, <2>2 DEF PanelTypeOK
  <2>4. panel[a].status # "none" /\ panel[a].script \in Scripts /\ AttemptInv(a)
    BY <1>0, <1>7 DEF AttemptInv, ScriptOf
  <2> HIDE DEF row
  <2>5. ScriptOf(a)' = ScriptOf(a) /\ (Solo(a)' <=> Solo(a))
    BY <2>1, <2>3 DEF Solo, ScriptOf
  <2>6. AttemptInv(a)'
    BY <1>7, <2>1, <2>3, <2>4, <2>5 DEF AttemptInv
  <2>7. blurred' \in SUBSET Attempts
    BY <1>0, <1>7 DEF PanelTypeOK
  <2> QED BY <1>7, <2>1, <2>2, <2>4, <2>6, <2>7, RowStep
<1>8. ASSUME NEW a \in Attempts, Finish(a) PROVE PanelInv'
  BY <1>2, <1>7, <1>8 DEF Finish, Step, Blur
<1>9. ASSUME NEW a \in Attempts, Fail(a) PROVE PanelInv'
  BY <1>7, <1>9 DEF Fail
<1>10. ASSUME NEW a \in Attempts, DeleteRecord(a) PROVE PanelInv'
  <2>1. panel[a].at = "idle"
    BY <1>0, <1>10 DEF DeleteRecord, AttemptInv
  <2>2. panel' = [panel EXCEPT ![a].at = "idle", ![a].status = "deleted"]
    BY <1>0, <1>10, <2>1 DEF DeleteRecord, PanelTypeOK, PanelRow
  <2> QED BY <1>7, <1>10, <2>2 DEF DeleteRecord
<1>11. CASE UNCHANGED <<panel, account, blurred>>
  BY <1>0, <1>11 DEF PanelInv, PanelTypeOK, AttemptInv, ScriptInv, ScriptOf, Solo
<1>12. NodeNext \/ UNCHANGED cloudVars => UNCHANGED <<panel, account, blurred>>
  BY DEF NodeNext, cloudVars, BeginNode, CreateD1, UploadNode, InsertNode, SeedVip, SeedDone, IssueLoginToken,
         Recover, BeginDelete, DropWorker, DropD1, DropRow, NodeKilled
<1> QED BY <1>1, <1>3, <1>4, <1>5, <1>6, <1>8, <1>9, <1>10, <1>11, <1>12 DEF CloudNext, PanelNext

-----------------------------------------------------------------------------
(* Cloud: the Omni nodes.                                                   *)

NodeRow == [row : BOOLEAN, d1 : BOOLEAN, worker : BOOLEAN,
            at : {"idle", "d1", "upload", "insert", "seed", "dropWorker", "dropD1", "dropRow"},
            vip : {"none", "made"}, told : BOOLEAN, tries : 0 .. VipTries,
            admin : {"unset", "known", "unknown"}, leaving : BOOLEAN]

(* Database and worker are there before the row is, and go after leaving is *)
(* said.                                                                    *)
Sound(r) ==
  /\ r \in NodeRow
  /\ r.at = "upload" => r.d1
  /\ r.at \in {"insert", "seed"} => r.d1 /\ r.worker
  /\ r.at \in {"d1", "upload", "insert"} => ~r.row
  /\ r.at \in {"dropWorker", "dropD1", "dropRow"} => r.leaving
  /\ r.row /\ ~r.leaving => r.worker /\ r.d1
NodeInv == DOMAIN node = Nodes /\ \A n \in Nodes : Sound(node[n])

\* A step of one invocation changes the row of its node only.
LEMMA NodeStepSound ==
  ASSUME NodeInv, NEW n \in Nodes, NEW r, Sound(r), node' = [node EXCEPT ![n] = r]
  PROVE  NodeInv'
BY DEF NodeInv

\* Every step of the nodes keeps the invariant.
LEMMA NodesStep == NodeInv /\ [CloudNext]_cloudVars => NodeInv'
<1> SUFFICES ASSUME NodeInv, [CloudNext]_cloudVars PROVE NodeInv'
  OBVIOUS
<1>0. DOMAIN node = Nodes /\ \A n \in Nodes : Sound(node[n])
  BY DEF NodeInv
<1>1. ASSUME NEW n \in Nodes, BeginNode(n) PROVE NodeInv'
  <2>1. Sound([node[n] EXCEPT !.at = "d1"])
    <3>1. Sound(node[n]) /\ node[n] = NoNode
      BY <1>0, <1>1 DEF BeginNode
    <3>2. ~node[n].row
      BY <3>1 DEF NoNode
    <3> QED BY <3>1, <3>2 DEF Sound, NodeRow
  <2> QED BY <1>0, <1>1, <2>1, NodeStepSound DEF BeginNode, NodeStep
<1>2. ASSUME NEW n \in Nodes, CreateD1(n) PROVE NodeInv'
  <2>1. CASE node' = [node EXCEPT ![n].d1 = TRUE, ![n].at = "upload"]
    <3>1. Sound([node[n] EXCEPT !.d1 = TRUE, !.at = "upload"])
      BY <1>0, <1>2 DEF CreateD1, Sound, NodeRow
    <3>2. node' = [node EXCEPT ![n] = [node[n] EXCEPT !.d1 = TRUE, !.at = "upload"]]
      BY <1>0, <2>1
    <3> QED BY <3>1, <3>2, NodeStepSound
  <2>2. ASSUME NEW made \in BOOLEAN, node' = [node EXCEPT ![n].d1 = made, ![n].at = "idle", ![n].leaving = TRUE]
        PROVE  NodeInv'
    <3>1. Sound([node[n] EXCEPT !.d1 = made, !.at = "idle", !.leaving = TRUE])
      BY <1>0, <1>2 DEF CreateD1, Sound, NodeRow
    <3>2. node' = [node EXCEPT ![n] = [node[n] EXCEPT !.d1 = made, !.at = "idle", !.leaving = TRUE]]
      BY <1>0, <2>2
    <3> QED BY <3>1, <3>2, NodeStepSound
  <2> QED BY <1>2, <2>1, <2>2 DEF CreateD1
<1>3. ASSUME NEW n \in Nodes, UploadNode(n) PROVE NodeInv'
  <2>1. CASE node' = [node EXCEPT ![n].worker = TRUE, ![n].at = "insert"]
    <3>1. Sound([node[n] EXCEPT !.worker = TRUE, !.at = "insert"])
      BY <1>0, <1>3 DEF UploadNode, Sound, NodeRow
    <3>2. node' = [node EXCEPT ![n] = [node[n] EXCEPT !.worker = TRUE, !.at = "insert"]]
      BY <1>0, <2>1
    <3> QED BY <3>1, <3>2, NodeStepSound
  <2>2. ASSUME NEW made \in BOOLEAN,
               node' = [node EXCEPT ![n].worker = made, ![n].at = "idle", ![n].leaving = TRUE]
        PROVE  NodeInv'
    <3>1. Sound([node[n] EXCEPT !.worker = made, !.at = "idle", !.leaving = TRUE])
      BY <1>0, <1>3 DEF UploadNode, Sound, NodeRow
    <3>2. node' = [node EXCEPT ![n] = [node[n] EXCEPT !.worker = made, !.at = "idle", !.leaving = TRUE]]
      BY <1>0, <2>2
    <3> QED BY <3>1, <3>2, NodeStepSound
  <2> QED BY <1>3, <2>1, <2>2 DEF UploadNode
<1>4. ASSUME NEW n \in Nodes, InsertNode(n) PROVE NodeInv'
  <2>1. CASE node' = [node EXCEPT ![n].row = TRUE, ![n].at = "seed"]
    <3>1. Sound([node[n] EXCEPT !.row = TRUE, !.at = "seed"])
      BY <1>0, <1>4 DEF InsertNode, Sound, NodeRow
    <3>2. node' = [node EXCEPT ![n] = [node[n] EXCEPT !.row = TRUE, !.at = "seed"]]
      BY <1>0, <2>1
    <3> QED BY <3>1, <3>2, NodeStepSound
  <2>2. ASSUME NEW wrote \in BOOLEAN,
               node' = [node EXCEPT ![n].row = wrote, ![n].at = "idle", ![n].leaving = ~wrote]
        PROVE  NodeInv'
    <3>1. Sound([node[n] EXCEPT !.row = wrote, !.at = "idle", !.leaving = ~wrote])
      <4>0. Sound(node[n]) /\ node[n].d1 /\ node[n].worker
        BY <1>0, <1>4 DEF InsertNode, Sound
      <4>1. CASE wrote = TRUE
        BY <4>0, <4>1 DEF Sound, NodeRow
      <4>2. CASE wrote = FALSE
        BY <4>0, <4>2 DEF Sound, NodeRow
      <4> QED BY <4>1, <4>2
    <3>2. node' = [node EXCEPT ![n] = [node[n] EXCEPT !.row = wrote, !.at = "idle", !.leaving = ~wrote]]
      BY <1>0, <2>2
    <3> QED BY <3>1, <3>2, NodeStepSound
  <2> QED BY <1>4, <2>1, <2>2 DEF InsertNode
<1>5. ASSUME NEW n \in Nodes, SeedVip(n) PROVE NodeInv'
  <2>1. PICK vip \in {"none", "made"}, told \in BOOLEAN :
          node' = [node EXCEPT ![n].tries = node[n].tries + 1, ![n].vip = vip, ![n].told = told]
    BY <1>0, <1>5 DEF SeedVip, Sound, NodeRow
  <2>2. node[n].tries + 1 \in 0 .. VipTries
    BY <1>0, <1>5, CloudAssumption DEF SeedVip, Sound, NodeRow
  <2>3. Sound([node[n] EXCEPT !.tries = node[n].tries + 1, !.vip = vip, !.told = told])
    BY <1>0, <2>2 DEF Sound, NodeRow
  <2>4. node' = [node EXCEPT ![n] = [node[n] EXCEPT !.tries = node[n].tries + 1, !.vip = vip, !.told = told]]
    BY <1>0, <2>1
  <2> QED BY <2>3, <2>4, NodeStepSound
<1>6. ASSUME NEW n \in Nodes, SeedDone(n) PROVE NodeInv'
  <2>1. Sound([node[n] EXCEPT !.at = "idle"])
    BY <1>0, <1>6 DEF SeedDone, Sound, NodeRow
  <2> QED BY <1>0, <1>6, <2>1, NodeStepSound DEF SeedDone, NodeStep
<1>7. ASSUME NEW n \in Nodes, IssueLoginToken(n) \/ Recover(n) PROVE NodeInv'
  <2>1. PICK to \in {"unset", "known", "unknown"} : node' = [node EXCEPT ![n].admin = to]
    BY <1>7 DEF IssueLoginToken, Recover
  <2>2. Sound([node[n] EXCEPT !.admin = to])
    BY <1>0 DEF Sound, NodeRow
  <2> QED BY <1>0, <2>1, <2>2, NodeStepSound
<1>8. ASSUME NEW n \in Nodes, BeginDelete(n) PROVE NodeInv'
  <2>1. Sound([node[n] EXCEPT !.at = "dropWorker", !.leaving = TRUE])
    BY <1>0, <1>8 DEF BeginDelete, Sound, NodeRow
  <2>2. node' = [node EXCEPT ![n] = [node[n] EXCEPT !.at = "dropWorker", !.leaving = TRUE]]
    BY <1>0, <1>8 DEF BeginDelete
  <2> QED BY <2>1, <2>2, NodeStepSound
<1>9. ASSUME NEW n \in Nodes, DropWorker(n) PROVE NodeInv'
  <2>1. PICK left \in BOOLEAN : node' = [node EXCEPT ![n].worker = left, ![n].at = "dropD1"]
    BY <1>0, <1>9 DEF DropWorker, Sound, NodeRow
  <2>2. Sound([node[n] EXCEPT !.worker = left, !.at = "dropD1"])
    BY <1>0, <1>9 DEF DropWorker, Sound, NodeRow
  <2>3. node' = [node EXCEPT ![n] = [node[n] EXCEPT !.worker = left, !.at = "dropD1"]]
    BY <1>0, <2>1
  <2> QED BY <2>2, <2>3, NodeStepSound
<1>10. ASSUME NEW n \in Nodes, DropD1(n) PROVE NodeInv'
  <2>1. PICK left \in BOOLEAN : node' = [node EXCEPT ![n].d1 = left, ![n].at = "dropRow"]
    BY <1>0, <1>10 DEF DropD1, Sound, NodeRow
  <2>2. Sound([node[n] EXCEPT !.d1 = left, !.at = "dropRow"])
    BY <1>0, <1>10 DEF DropD1, Sound, NodeRow
  <2>3. node' = [node EXCEPT ![n] = [node[n] EXCEPT !.d1 = left, !.at = "dropRow"]]
    BY <1>0, <2>1
  <2> QED BY <2>2, <2>3, NodeStepSound
<1>11. ASSUME NEW n \in Nodes, DropRow(n) PROVE NodeInv'
  <2>1. Sound([node[n] EXCEPT !.row = FALSE, !.at = "idle"])
    BY <1>0, <1>11 DEF DropRow, Sound, NodeRow
  <2>2. node' = [node EXCEPT ![n] = [node[n] EXCEPT !.row = FALSE, !.at = "idle"]]
    BY <1>0, <1>11 DEF DropRow
  <2> QED BY <2>1, <2>2, NodeStepSound
<1>12. ASSUME NEW n \in Nodes, NodeKilled(n) PROVE NodeInv'
  <2>1. Sound([node[n] EXCEPT !.at = "idle", !.leaving = node[n].leaving \/ ~node[n].row])
    BY <1>0, <1>12 DEF NodeKilled, Sound, NodeRow
  <2>2. node' = [node EXCEPT ![n] = [node[n] EXCEPT !.at = "idle", !.leaving = node[n].leaving \/ ~node[n].row]]
    BY <1>0, <1>12 DEF NodeKilled
  <2> QED BY <2>1, <2>2, NodeStepSound
<1>13. CASE UNCHANGED node
  BY <1>0, <1>13 DEF NodeInv
<1>14. PanelNext \/ UNCHANGED cloudVars => UNCHANGED node
  BY DEF PanelNext, cloudVars, Begin, EnsureStore, ResolveSource, Upload, ReadSettings, PatchSettings, Finish,
         Fail, DeleteRecord, PanelKilled
<1> QED
  BY <1>1, <1>2, <1>3, <1>4, <1>5, <1>6, <1>7, <1>8, <1>9, <1>10, <1>11, <1>12, <1>13, <1>14
  DEF CloudNext, NodeNext

(* deployPanel, createOmniNode and their deletes: what the list shows as    *)
(* live or verifying has a script, a failure in which nothing was lost left *)
(* none, and a node's row stands for a worker and its database until the    *)
(* deletion begins; however many attempts share names and are killed.       *)
THEOREM ListIsTrue == CloudSpec => []ListTellsTruth
<1>1. CloudInit => PanelInv /\ NodeInv
  BY CloudAssumption
  DEF CloudInit, PanelInv, PanelTypeOK, PanelRow, Account, AttemptInv, ScriptInv, NoScript, NodeInv, Sound,
      NodeRow, NoNode
<1>2. PanelInv /\ NodeInv => ListTellsTruth
  <2> SUFFICES ASSUME PanelInv, NodeInv PROVE ListTellsTruth
    OBVIOUS
  <2>1. ASSUME NEW a \in Attempts
        PROVE  /\ panel[a].status \in {"live", "verifying"} => account[ScriptOf(a)] # NoScript
               /\ panel[a].status \in {"failed", "deleted"} /\ Alone(a) /\ a \notin blurred
                    => account[ScriptOf(a)] = NoScript
    <3>1. Alone(a) => Solo(a)
      BY DEF Alone, Solo
    <3> QED BY <3>1 DEF PanelInv, AttemptInv, NoScript
  <2>2. ASSUME NEW n \in Nodes PROVE node[n].row /\ ~node[n].leaving => node[n].worker /\ node[n].d1
    BY DEF NodeInv, Sound
  <2> QED BY <2>1, <2>2 DEF ListTellsTruth
<1> QED BY <1>1, <1>2, PanelStep, NodesStep, PTL DEF CloudSpec

-----------------------------------------------------------------------------
(* Radar: one row of each table, each with what its verdict rests on.       *)

CleanInv ==
  /\ clean \in [reports : Nat, latency : Int, oks : Nat, age : Ages, heard : SUBSET Nat,
                pinged : BOOLEAN, blank : BOOLEAN]
  /\ clean.latency >= Unmeasured
  /\ clean.latency # Unmeasured => \E ms \in clean.heard : clean.latency <= ms
  /\ clean.blank \/ clean.reports = 0 \/ \E ms \in clean.heard : clean.latency >= ms
RaceInv ==
  /\ race \in [direct : Measures, tunnel : Measures, winner : {"direct", "tunnel", "tie"},
               samples : Nat, expired : BOOLEAN, won : BOOLEAN, timed : BOOLEAN]
  /\ race.winner = "direct" => race.won /\ Unmeasured \notin {race.direct, race.tunnel}
CellInv == cell \in [up : Nat, down : Nat]
EyesInv ==
  /\ eyes \in [ready : BOOLEAN, probes : Seq({"fast", "slow", "error", "dead"}),
               agent : {"none", "healthy", "degraded", "failed"}, fresh : BOOLEAN]
  /\ eyes.fresh => eyes.agent # "none"
RefreshRow == [at : {"idle", "fetch", "replace"}, day : Nat, text : SUBSET Ranges]
RangesInv ==
  /\ registry \in [current : SUBSET Ranges, today : Nat, days : SUBSET Nat, last : SUBSET Ranges]
  /\ refresh \in [Crons -> RefreshRow]
  /\ registry.current = registry.last

\* An average lies between the two numbers, the missing latency included.
LEMMA BlendBetween ==
  ASSUME NEW old \in Int, NEW new \in Int
  PROVE  /\ Blend(old, new) \in Int
         /\ Blend(old, new) <= old \/ Blend(old, new) <= new
         /\ Blend(old, new) >= old \/ Blend(old, new) >= new
<1> DEFINE tenths == 6 * old + 4 * new
<1>1. CASE tenths >= 0
  <2>1. PICK q \in Int : q = (tenths + 5) \div 10 /\ 10 * q <= tenths + 5 /\ tenths + 5 < 10 * q + 10
    OBVIOUS
  <2>2. Blend(old, new) = q
    BY <1>1, <2>1 DEF Blend
  <2> QED BY <2>1, <2>2
<1>2. CASE tenths < 0
  <2>1. PICK q \in Int : q = (5 - tenths) \div 10 /\ 10 * q <= 5 - tenths /\ 5 - tenths < 10 * q + 10
    OBVIOUS
  <2>2. Blend(old, new) = -q
    BY <1>2, <2>1 DEF Blend
  <2> QED BY <2>1, <2>2
<1> QED BY <1>1, <1>2

\* What the parsers make of a value is a latency or its absence.
LEMMA ParsedType ==
  /\ \A sent \in {"ms", "empty", "none"}, ms \in Pings : ParsedPing(sent, ms) \in Nat \union {Unmeasured}
  /\ \A sent \in {"ms", "negative", "none"}, ms \in Pings : ParsedSide(sent, ms) \in Measures
BY RadarAssumption DEF ParsedPing, ParsedSide, Measures, Unmeasured

\* The kinds of steps of the clean-IP row.
LEMMA CleanStep == CleanInv /\ [RadarNext]_radarVars => CleanInv'
<1> SUFFICES ASSUME CleanInv, [RadarNext]_radarVars PROVE CleanInv'
  OBVIOUS
<1>0. Unmeasured = -1
  BY DEF Unmeasured
<1>1. ASSUME NEW sent \in {"ms", "empty", "none"}, NEW ms \in Pings, NEW said \in {"yes", "no", "unsaid"},
             CleanReport(sent, ms, said) PROVE CleanInv'
  <2>1. PICK ping : ping = ParsedPing(sent, ms) /\ ping \in Nat \union {Unmeasured}
    BY ParsedType
  <2>2. PICK ok \in BOOLEAN : ok = ParsedOk(said, ping)
    BY DEF ParsedOk
  <2>3. MergeClean(ping, ok, sent = "ms")
    BY <1>1, <2>1, <2>2 DEF CleanReport
  <2>4. ping \in Int /\ ping >= -1 /\ clean.latency \in Int /\ clean.reports \in Nat
    BY <1>0, <2>1 DEF CleanInv
  <2>5. PICK avg : avg = Blend(clean.latency, ping)
    OBVIOUS
  <2>6. avg \in Int /\ (avg <= clean.latency \/ avg <= ping) /\ (avg >= clean.latency \/ avg >= ping)
    BY <2>4, <2>5, BlendBetween
  <2>7. /\ clean'.latency = (IF clean.reports = 0 THEN ping ELSE avg)
        /\ clean'.heard = clean.heard \union ({ping} \ {Unmeasured})
        /\ clean'.blank = (clean.blank \/ ping = Unmeasured)
        /\ clean'.reports = clean.reports + 1
    BY <2>3, <2>5 DEF MergeClean
  <2>8. clean' \in [reports : Nat, latency : Int, oks : Nat, age : Ages, heard : SUBSET Nat,
                    pinged : BOOLEAN, blank : BOOLEAN]
    <3>1. clean.oks + (IF ok THEN 1 ELSE 0) \in Nat /\ clean.reports + 1 \in Nat
      BY DEF CleanInv
    <3>2. (IF clean.reports = 0 THEN ping ELSE Blend(clean.latency, ping)) \in Int
      BY <2>4, <2>5, <2>6
    <3>3. clean.heard \union ({ping} \ {Unmeasured}) \in SUBSET Nat
      BY <2>1 DEF CleanInv
    <3> QED BY <2>3, <3>1, <3>2, <3>3 DEF MergeClean, Ages, CleanInv
  <2>9. clean'.latency >= Unmeasured
    BY <1>0, <2>4, <2>6, <2>7 DEF CleanInv
  <2>10. ASSUME clean'.latency # Unmeasured PROVE \E q \in clean'.heard : clean'.latency <= q
    <3>1. CASE clean'.latency <= ping
      <4>1. ping # Unmeasured
        BY <1>0, <2>4, <2>8, <2>9, <2>10, <3>1
      <4> QED BY <2>7, <3>1, <4>1
    <3>2. CASE ~(clean'.latency <= ping)
      <4>1. clean'.latency = avg /\ avg <= clean.latency
        BY <2>4, <2>6, <2>7, <3>2
      <4>2. clean.latency # Unmeasured
        BY <1>0, <2>4, <2>6, <2>9, <2>10, <4>1
      <4>3. PICK q \in clean.heard : clean.latency <= q
        BY <4>2 DEF CleanInv
      <4>4. q \in Nat /\ avg <= q
        BY <2>4, <2>6, <4>1, <4>3 DEF CleanInv
      <4> QED BY <2>7, <4>1, <4>3, <4>4
    <3> QED BY <3>1, <3>2
  <2>11. ASSUME ~clean'.blank PROVE \E q \in clean'.heard : clean'.latency >= q
    <3>1. ping \in clean'.heard /\ ~clean.blank
      BY <2>7, <2>11
    <3>2. CASE clean'.latency >= ping
      BY <3>1, <3>2
    <3>3. CASE ~(clean'.latency >= ping)
      <4>1. clean.reports # 0 /\ clean'.latency = avg /\ avg >= clean.latency
        BY <2>4, <2>6, <2>7, <3>3
      <4>2. PICK q \in clean.heard : clean.latency >= q
        BY <3>1, <4>1 DEF CleanInv
      <4>3. q \in Nat /\ avg >= q
        BY <2>4, <2>6, <4>1, <4>2 DEF CleanInv
      <4> QED BY <2>7, <4>1, <4>2, <4>3
    <3> QED BY <3>2, <3>3
  <2> QED BY <2>8, <2>9, <2>10, <2>11 DEF CleanInv
<1>2. CASE CleanAges
  BY <1>2 DEF CleanAges, CleanInv, Ages
<1>3. CASE PurgeClean
  BY <1>3 DEF PurgeClean, NoCleanRow, CleanInv, Unmeasured, Ages
<1>4. CASE UNCHANGED clean
  BY <1>4 DEF CleanInv
<1>5. RaceNext \/ MtuNext \/ MapNext \/ EyesNext \/ RegistryNext \/ UNCHANGED radarVars => UNCHANGED clean
  BY DEF RaceNext, RaceReport, RaceExpires, PurgeRace, MtuNext, MtuReport, MtuForgets, PurgeMtu, MapNext,
         MapReport, MapForgets, EyesNext, NodeChanges, ProbeEdge, ProbeLeaves, AgentSays, AgentAges,
         RegistryNext, BeginRefresh, FetchRegistry, ReplaceRanges, RefreshKilled, Midnight, crowdVars, radarVars
<1> QED BY <1>1, <1>2, <1>3, <1>4, <1>5 DEF RadarNext, CleanNext

\* The race row.
LEMMA RaceStep == RaceInv /\ [RadarNext]_radarVars => RaceInv'
<1> SUFFICES ASSUME RaceInv, [RadarNext]_radarVars PROVE RaceInv'
  OBVIOUS
<1>1. ASSUME NEW direct \in Measures, NEW tunnel \in Measures, NEW measured \in BOOLEAN,
             RaceReport(direct, tunnel, measured)
      PROVE  RaceInv'
  <2>1. RaceWinner(direct, tunnel) = "direct" => direct # Unmeasured /\ tunnel # Unmeasured
    BY DEF RaceWinner
  <2>2. RaceWinner(direct, tunnel) \in {"direct", "tunnel", "tie"}
    BY DEF RaceWinner
  <2>3. /\ race'.direct = (IF direct = Unmeasured THEN race.direct ELSE direct)
        /\ race'.tunnel = (IF tunnel = Unmeasured THEN race.tunnel ELSE tunnel)
        /\ race'.winner = RaceWinner(direct, tunnel)
        /\ race'.won = (race.won \/ RaceWinner(direct, tunnel) = "direct")
    BY <1>1 DEF RaceReport
  <2>4. race' \in [direct : Measures, tunnel : Measures, winner : {"direct", "tunnel", "tie"},
                   samples : Nat, expired : BOOLEAN, won : BOOLEAN, timed : BOOLEAN]
    BY <1>1, <2>2 DEF RaceReport, RaceInv
  <2>5. race'.winner = "direct" => race'.won /\ race'.direct # Unmeasured /\ race'.tunnel # Unmeasured
    BY <2>1, <2>3
  <2> QED BY <2>4, <2>5 DEF RaceInv
<1>2. CASE RaceExpires
  BY <1>2 DEF RaceExpires, RaceInv
<1>3. CASE PurgeRace
  BY <1>3 DEF PurgeRace, RaceInv, NoRaceRow, Measures
<1>4. CASE UNCHANGED race
  BY <1>4 DEF RaceInv
<1>5. CleanNext \/ MtuNext \/ MapNext \/ EyesNext \/ RegistryNext \/ UNCHANGED radarVars => UNCHANGED race
  BY DEF CleanNext, CleanReport, MergeClean, CleanAges, PurgeClean, MtuNext, MtuReport, MtuForgets, PurgeMtu, MapNext,
         MapReport, MapForgets, EyesNext, NodeChanges, ProbeEdge, ProbeLeaves, AgentSays, AgentAges,
         RegistryNext, BeginRefresh, FetchRegistry, ReplaceRanges, RefreshKilled, Midnight, crowdVars, radarVars
<1>6. ASSUME NEW d \in {"ms", "negative", "none"}, NEW t \in {"ms", "negative", "none"}, NEW direct \in Pings,
             NEW tunnel \in Pings, RaceReport(ParsedSide(d, direct), ParsedSide(t, tunnel), d = "ms" /\ t = "ms")
      PROVE  RaceInv'
  BY <1>1, <1>6, ParsedType
<1> QED BY <1>2, <1>3, <1>4, <1>5, <1>6 DEF RadarNext, RaceNext

\* The cell of the map.
LEMMA CellStep == CellInv /\ [RadarNext]_radarVars => CellInv'
<1> SUFFICES ASSUME CellInv, [RadarNext]_radarVars PROVE CellInv'
  OBVIOUS
<1>1. ASSUME NEW ok \in BOOLEAN, MapReport(ok) PROVE CellInv'
  BY <1>1 DEF MapReport, CellInv
<1>2. CASE MapForgets
  BY <1>2 DEF MapForgets, CellInv
<1>3. CASE UNCHANGED cell
  BY <1>3 DEF CellInv
<1>4. CleanNext \/ RaceNext \/ MtuNext \/ EyesNext \/ RegistryNext \/ UNCHANGED radarVars => UNCHANGED cell
  BY DEF CleanNext, CleanReport, MergeClean, CleanAges, PurgeClean, RaceNext, RaceReport, RaceExpires, PurgeRace,
         MtuNext, MtuReport, MtuForgets, PurgeMtu, EyesNext, NodeChanges, ProbeEdge, ProbeLeaves, AgentSays,
         AgentAges, RegistryNext, BeginRefresh, FetchRegistry, ReplaceRanges, RefreshKilled, Midnight,
         crowdVars, radarVars
<1> QED BY <1>1, <1>2, <1>3, <1>4 DEF RadarNext, MapNext

\* The two eyes.
LEMMA EyesStep == EyesInv /\ [RadarNext]_radarVars => EyesInv'
<1> SUFFICES ASSUME EyesInv, [RadarNext]_radarVars PROVE EyesInv'
  OBVIOUS
<1>1. CASE NodeChanges
  BY <1>1 DEF NodeChanges, EyesInv
<1>2. CASE ProbeEdge
  <2>1. PICK seen \in {"fast", "slow", "error", "dead"} : eyes' = [eyes EXCEPT !.probes = <<seen>> \o eyes.probes]
    BY <1>2 DEF ProbeEdge
  <2>2. <<seen>> \o eyes.probes \in Seq({"fast", "slow", "error", "dead"})
    BY ConcatProperties DEF EyesInv
  <2> QED BY <2>1, <2>2 DEF EyesInv
<1>3. CASE ProbeLeaves
  <2>1. Front(eyes.probes) \in Seq({"fast", "slow", "error", "dead"})
    BY <1>3, SubSeqProperties DEF ProbeLeaves, EyesInv, Front
  <2> QED BY <1>3, <2>1 DEF ProbeLeaves, EyesInv
<1>4. CASE AgentSays \/ AgentAges
  BY <1>4 DEF AgentSays, AgentAges, EyesInv
<1>5. CASE UNCHANGED eyes
  BY <1>5 DEF EyesInv
<1>6. CleanNext \/ RaceNext \/ MtuNext \/ MapNext \/ RegistryNext \/ UNCHANGED radarVars => UNCHANGED eyes
  BY DEF CleanNext, CleanReport, MergeClean, CleanAges, PurgeClean, RaceNext, RaceReport, RaceExpires, PurgeRace,
         MtuNext, MtuReport, MtuForgets, PurgeMtu, MapNext, MapReport, MapForgets, RegistryNext, BeginRefresh,
         FetchRegistry, ReplaceRanges, RefreshKilled, Midnight, radarVars
<1> QED BY <1>1, <1>2, <1>3, <1>4, <1>5, <1>6 DEF RadarNext, EyesNext

\* The ranges, whichever overlapping cron invocation replaces them.
LEMMA RangesStep ==
  RangesInv /\ [RadarNext]_radarVars => RangesInv'
<1> SUFFICES ASSUME RangesInv, [RadarNext]_radarVars PROVE RangesInv'
  OBVIOUS
<1>0. Quiet \in RefreshRow
  BY DEF Quiet, RefreshRow
<1>1. ASSUME NEW c \in Crons, ReplaceRanges(c) PROVE RangesInv'
  <2>1. /\ registry' = registry
           \/ registry' = [registry EXCEPT !.current = refresh[c].text, !.last = refresh[c].text,
                                           !.days = registry.days \union {refresh[c].day}]
        /\ refresh' = [refresh EXCEPT ![c] = Quiet]
    BY <1>1 DEF ReplaceRanges
  <2>2. refresh[c].text \in SUBSET Ranges /\ refresh[c].day \in Nat
    BY DEF RangesInv, RefreshRow
  <2>3. refresh' \in [Crons -> RefreshRow]
    BY <1>0, <2>1 DEF RangesInv
  <2>4. registry' \in [current : SUBSET Ranges, today : Nat, days : SUBSET Nat, last : SUBSET Ranges]
        /\ registry'.current = registry'.last
    <3>1. registry.days \union {refresh[c].day} \in SUBSET Nat
      BY <2>2 DEF RangesInv
    <3>2. CASE registry' = [registry EXCEPT !.current = refresh[c].text, !.last = refresh[c].text,
                                            !.days = registry.days \union {refresh[c].day}]
      BY <2>2, <3>1, <3>2 DEF RangesInv
    <3>3. CASE registry' = registry
      BY <3>3 DEF RangesInv
    <3> QED BY <2>1, <3>2, <3>3
  <2> QED BY <2>3, <2>4 DEF RangesInv
<1>2. CASE Midnight
  BY <1>2 DEF Midnight, RangesInv
<1>3. CASE UNCHANGED <<registry, refresh>>
  BY <1>3 DEF RangesInv
<1>4. ASSUME NEW c \in Crons, BeginRefresh(c) \/ RefreshKilled(c) PROVE RangesInv'
  <2>1. [Quiet EXCEPT !.at = "fetch", !.day = registry.today] \in RefreshRow
    BY DEF Quiet, RangesInv, RefreshRow
  <2> QED BY <1>0, <1>4, <2>1 DEF BeginRefresh, RefreshKilled, RangesInv
<1>6. ASSUME NEW c \in Crons, FetchRegistry(c) PROVE RangesInv'
  <2>1. PICK text \in SUBSET Ranges :
          refresh' = [refresh EXCEPT ![c] = IF text = {} THEN Quiet
                                            ELSE [refresh[c] EXCEPT !.at = "replace", !.text = text]]
    BY <1>6 DEF FetchRegistry, RangesInv
  <2>2. [refresh[c] EXCEPT !.at = "replace", !.text = text] \in RefreshRow
    <3>1. refresh[c] \in RefreshRow
      BY DEF RangesInv
    <3> QED BY <3>1 DEF RefreshRow
  <2>3. UNCHANGED registry
    BY <1>6 DEF FetchRegistry
  <2> QED BY <1>0, <2>1, <2>2, <2>3 DEF RangesInv
<1>5. CleanNext \/ RaceNext \/ MtuNext \/ MapNext \/ EyesNext \/ UNCHANGED radarVars
        => UNCHANGED <<registry, refresh>>
  BY DEF CleanNext, CleanReport, MergeClean, CleanAges, PurgeClean, RaceNext, RaceReport, RaceExpires, PurgeRace,
         MtuNext, MtuReport, MtuForgets, PurgeMtu, MapNext, MapReport, MapForgets, EyesNext, NodeChanges,
         ProbeEdge, ProbeLeaves, AgentSays, AgentAges, registryVars, radarVars
<1> QED BY <1>1, <1>2, <1>3, <1>4, <1>5, <1>6 DEF RadarNext, RegistryNext

\* A rounded share of 80 or more hundredths is a share of more than three quarters.
LEMMA RoundedShare ==
  ASSUME NEW up \in Nat, NEW down \in Nat, up + down >= 3,
         (200 * up + (up + down)) \div (2 * (up + down)) >= 80
  PROVE  up > 3 * down
<1> DEFINE x == 200 * up + (up + down)
           y == 2 * (up + down)
           q == x \div y
<1>1. x \in Nat /\ y \in Nat \ {0} /\ q \in Int
  OBVIOUS
<1>2. x >= y * q
  OBVIOUS
<1>3. y * q >= y * 80
  OBVIOUS
<1> QED BY <1>1, <1>2, <1>3

\* The verdict of the map.
LEMMA OpenCell == CellInv /\ MapVerdict = "up" => cell.up > 3 * cell.down
BY RoundedShare DEF CellInv, MapVerdict

\* The verdict on a node.
LEMMA OpenNode == EyesInv /\ NetMode = "open" => OkProbes > 0 /\ eyes.fresh /\ eyes.agent = "healthy"
<1> SUFFICES ASSUME EyesInv, NetMode = "open" PROVE OkProbes > 0 /\ eyes.fresh /\ eyes.agent = "healthy"
  OBVIOUS
<1>1. Len(eyes.probes) \in Nat /\ DOMAIN eyes.probes = 1 .. Len(eyes.probes)
  BY DEF EyesInv
<1>2. OkProbes \in Nat
  <2>1. IsFiniteSet(1 .. Len(eyes.probes))
    BY <1>1, FS_Interval
  <2>2. IsFiniteSet({i \in DOMAIN eyes.probes : eyes.probes[i] \in {"fast", "slow"}})
    BY <1>1, <2>1, FS_Subset
  <2> QED BY <2>2, FS_CardinalityType DEF OkProbes, Seen
<1>3. /\ Len(eyes.probes) > 0 /\ 5 * OkProbes >= 4 * Len(eyes.probes)
      /\ eyes.fresh /\ eyes.agent # "failed" /\ eyes.agent # "degraded"
  BY <1>1, <1>2 DEF NetMode
<1> QED BY <1>1, <1>2, <1>3 DEF EyesInv

(* For any number of reports, probes and overlapping refreshes, every       *)
(* latency, verdict, route and range that is shown comes from what reports  *)
(* gave, and an average never leaves the range of the latencies in it but   *)
(* for reports that had none. An empty latency counts as 0 ms in it.        *)
THEOREM NothingBeyondReports == RadarSpec => []OnlyReported
<1> DEFINE Inv == CleanInv /\ RaceInv /\ CellInv /\ EyesInv /\ RangesInv
<1>1. RadarInit => Inv
  BY EmptySeq
  DEF RadarInit, NoCleanRow, CleanInv, RaceInv, CellInv, EyesInv, RangesInv, NoRaceRow, Unmeasured, Measures, Ages,
      Quiet, RefreshRow
<1>2. Inv /\ [RadarNext]_radarVars => Inv'
  BY CleanStep, RaceStep, CellStep, EyesStep, RangesStep
<1>3. Inv => OnlyReported
  <2> SUFFICES ASSUME Inv PROVE OnlyReported
    OBVIOUS
  <2>1. RankedLatency # Unmeasured => /\ \E ms \in clean.heard : RankedLatency <= ms
                                      /\ clean.blank \/ \E ms \in clean.heard : RankedLatency >= ms
    BY DEF RankedLatency, CleanInv
  <2>2. RankedStatus = "verified" => clean.oks > 0
    BY DEF RankedStatus, CleanInv
  <2>3. RoutedDirect => race.won /\ Unmeasured \notin {race.direct, race.tunnel}
    BY DEF RoutedDirect, RaceInv
  <2>4. MapVerdict = "up" => cell.up > 3 * cell.down
    BY OpenCell
  <2>5. NetMode = "open" => OkProbes > 0 /\ eyes.fresh /\ eyes.agent = "healthy"
    BY OpenNode
  <2>6. registry.current = registry.last
    BY DEF RangesInv
  <2> QED BY <2>1, <2>2, <2>3, <2>4, <2>5, <2>6 DEF OnlyReported
<1> QED BY <1>1, <1>2, <1>3, PTL DEF RadarSpec

=============================================================================
