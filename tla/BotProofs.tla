------------------------------ MODULE BotProofs ------------------------------
(***************************************************************************)
(* Proofs about the Telegram bot: the conversations (Dialogs), for any     *)
(* number of wizard fields and of updates that overtake a handler, and the *)
(* messages and their buttons (Chat).                                      *)
(***************************************************************************)
EXTENDS Dialogs, Chat, SequenceTheorems, TLAPS

-----------------------------------------------------------------------------
(* Dialogs: the steps.                                                      *)

MapSteps == ButtonOnly \cup {"map:rtt"}
AllFlowSteps ==
  {"rum:ping", "rum:loss", "donate:key", "pack:domain", "pack:uuid", "dnsrange:cidr", "white:domains",
   "dnstt:vps", "dnstt:domain", "omni:token", "panel:token", "panel:name", "panel:pass",
   "map:isp", "map:transport", "map:verdict", "map:city", "map:rtt"}

\* The steps of the flows, one by one.
LEMMA FlowStepsAre ==
  /\ DOMAIN FirstOf = {"rum", "map", "donate", "pack", "dnsrange", "white", "dnstt", "omni"}
  /\ DOMAIN After = {"rum:ping", "pack:domain", "dnstt:vps", "panel:token", "panel:name"}
  /\ DOMAIN MapButton = {"transport", "ok", "city"}
  /\ FlowSteps = AllFlowSteps
<1>1. DOMAIN FirstOf = {"rum", "map", "donate", "pack", "dnsrange", "white", "dnstt", "omni"}
      /\ DOMAIN MapButton = {"transport", "ok", "city"}
  BY DEF FirstOf, MapButton
<1>2. DOMAIN After = {"rum:ping", "pack:domain", "dnstt:vps", "panel:token", "panel:name"}
  BY DEF After
<1>3. {FirstOf[k] : k \in DOMAIN FirstOf} =
        {"rum:ping", "map:isp", "donate:key", "pack:domain", "dnsrange:cidr", "white:domains", "dnstt:vps", "omni:token"}
  BY <1>1 DEF FirstOf
<1>4. {After[s] : s \in DOMAIN After} = {"rum:loss", "pack:uuid", "dnstt:domain", "panel:name", "panel:pass"}
  BY <1>2 DEF After
<1> QED BY <1>1, <1>2, <1>3, <1>4 DEF FlowSteps, ButtonOnly, AllFlowSteps

\* The steps of the wizard are none of the flows', and the last two are asked by buttons.
LEMMA WizStepsAre ==
  /\ Len(WizStep) = TextFields + 3 /\ TextFields \in Nat \ {0}
  /\ WizStep[Len(WizStep)] = "confirm"
  /\ WizStep[1] \in WizSteps \ {"ufw", "confirm"} /\ {"realitySni", "ufw", "confirm"} \subseteq WizSteps
  /\ WizSteps \cap (FlowSteps \cup {"none"}) = {}
<1> DEFINE Texts == {"workerName", "workerHostname", "nodeHostname", "vpsIpv4", "acmeEmail"}
           Last == <<"realitySni", "ufw", "confirm">>
<1>1. TextStep \in Seq(Texts) /\ TextStep # <<>>
  BY DialogAssumption
<1>2. TextFields \in Nat \ {0}
  BY <1>1, EmptySeq, LenProperties DEF TextFields
<1>3. /\ Len(WizStep) = TextFields + 3
      /\ \A i \in 1 .. TextFields : WizStep[i] = TextStep[i] /\ TextStep[i] \in Texts
      /\ WizStep[TextFields + 1] = "realitySni" /\ WizStep[TextFields + 2] = "ufw"
      /\ WizStep[TextFields + 3] = "confirm"
  BY <1>1, <1>2 DEF WizStep, TextFields
<1>4. \A i \in 1 .. Len(WizStep) : WizStep[i] \in Texts \cup {"realitySni", "ufw", "confirm"}
  BY <1>2, <1>3
<1>5. WizSteps \subseteq Texts \cup {"realitySni", "ufw", "confirm"}
  BY <1>4 DEF WizSteps
<1>6. {"realitySni", "ufw", "confirm"} \subseteq WizSteps
  BY <1>2, <1>3 DEF WizSteps
<1>7. WizStep[1] \in WizSteps \ {"ufw", "confirm"}
  BY <1>2, <1>3 DEF WizSteps
<1> QED BY <1>2, <1>3, <1>5, <1>6, <1>7, FlowStepsAre DEF AllFlowSteps

\* The step after one that is not the last.
LEMMA NextWizStep ==
  ASSUME NEW s \in WizSteps \ {"confirm"} PROVE WizStep[Index(s) + 1] \in WizSteps
<1>1. PICK i \in 1 .. Len(WizStep) : WizStep[i] = s
  BY DEF WizSteps
<1>2. Index(s) \in 1 .. Len(WizStep) /\ WizStep[Index(s)] = s
  BY <1>1 DEF Index
<1>3. Len(WizStep) \in Nat /\ Index(s) # Len(WizStep)
  BY <1>2, WizStepsAre
<1>4. Index(s) + 1 \in 1 .. Len(WizStep)
  BY <1>2, <1>3
<1> QED BY <1>4 DEF WizSteps

-----------------------------------------------------------------------------
(* Dialogs: the rows, and the prompt and the summary that belong to them.   *)

\* The answers a map report has at each step when its buttons are pressed in order.
Pressed == [s \in MapSteps |->
              CASE s = "map:isp" -> {} [] s = "map:transport" -> {"isp"} [] s = "map:verdict" -> {"isp", "transport"}
                [] s = "map:city" -> {"isp", "transport", "ok"} [] s = "map:rtt" -> MapData]

(* A firewall choice is only in a row that has left its text steps; a map   *)
(* report that is whole has the answers of its step.                        *)
WizardOK(w) ==
  /\ w \in WizardRow
  /\ w.step = "none" => w = NoWizard
  /\ w.ufw # "none" => w.step \in {"ufw", "confirm"}
FlowOK(f) ==
  /\ f \in FlowRow
  /\ f.step = "none" => f = NoFlow
  /\ f.whole => f.step \in MapSteps /\ f.data = Pressed[f.step]

(* The last prompt is the open dialog's own, as far as it is of its kind,   *)
(* and it is never a panel's secret while a wizard is open; the last        *)
(* summary shows the fields and the firewall choice of the row.  All three  *)
(* only while neither side is late.                                         *)
WizardAsked(w, a) == w # NoWizard /\ ~w.late /\ ~a.late => a.at \notin PanelSecret /\ (a.at \in WizSteps => a.at = w.step)
FlowAsked(f, a) == f # NoFlow /\ ~f.late /\ ~a.late => (a.at \in FlowSteps => a.at = f.step)
Summed(w, s) == w.ufw # "none" /\ ~w.late /\ ~s.late => s.have = w.have /\ s.ufw = w.ufw

RowsInv ==
  /\ WizardOK(wizard) /\ FlowOK(flow) /\ asked \in Prompt /\ summary \in WizardRow
  /\ WizardAsked(wizard, asked) /\ FlowAsked(flow, asked) /\ Summed(wizard, summary)

\* What a handler holds of what it read.
Read(kind, w, f, a, s) ==
  /\ WizardOK(w) /\ FlowOK(f) /\ a \in Prompt /\ s \in WizardRow
  /\ kind = "text" => WizardAsked(w, a) /\ FlowAsked(f, a)
  /\ kind = "confirm" => Summed(w, s)
  /\ kind = "show" => w.step = "confirm"
Current(kind, w, f) ==
  /\ kind \notin DOMAIN MapButton => w = wizard
  /\ kind \in DOMAIN MapButton \/ (kind = "text" /\ w = NoWizard) => f = flow

Waiting == [kind : Kinds \cup {"none"}, w : WizardRow, f : FlowRow, a : Prompt, s : WizardRow, n : Nat]
BadEvents == {"secret", "other", "broken", "unseen"}

DialogInv ==
  /\ RowsInv
  /\ slow \in Waiting
  /\ slow # NotWaiting => slow.kind \in Kinds /\ Read(slow.kind, slow.w, slow.f, slow.a, slow.s)
  /\ slow # NotWaiting /\ slow.n = 0 => Current(slow.kind, slow.w, slow.f)
  /\ event \notin BadEvents

\* A text for the wizard.
LEMMA WizardTextKeeps ==
  ASSUME RowsInv, NEW w, NEW f, NEW a, NEW s, Read("text", w, f, a, s), w # NoWizard,
         NEW late \in BOOLEAN, ~late => w = wizard, NEW valid \in BOOLEAN, WizardText(w, a, valid, late)
  PROVE  RowsInv' /\ event' \notin BadEvents
<1>1. /\ WizardOK(w) /\ WizardAsked(w, a) /\ a \in Prompt /\ w.step \in WizSteps /\ w \in WizardRow
      /\ w.late \in BOOLEAN /\ a.late \in BOOLEAN
  BY DEF Read, WizardOK, WizardRow, Prompt
<1>2. event' \notin BadEvents
  <2>1. PanelSecret \cap WizSteps = {} /\ PanelSecret \subseteq FlowSteps
    BY WizStepsAre, FlowStepsAre DEF PanelSecret, AllFlowSteps
  <2>2. event' = Taken(w.step, a, w.late)
    BY DEF WizardText
  <2> QED BY <1>1, <2>1, <2>2 DEF Taken, WizardAsked, BadEvents
<1>3. CASE w.step \in {"ufw", "confirm"} \/ ~valid
  <2>1. wizard' = wizard /\ flow' = flow /\ asked' = [at |-> w.step, late |-> late]
    BY <1>3 DEF WizardText, AsksWizard
  <2>2. summary' = (IF w.step = "confirm" THEN [w EXCEPT !.step = "none", !.late = late] ELSE summary)
    BY DEF WizardText, Shown
  <2>3. asked' \in Prompt /\ asked'.at = w.step /\ asked'.late = late
    BY <1>1, <2>1 DEF Prompt
  <2>4. w.step \notin PanelSecret /\ w.step \notin FlowSteps
    BY <1>1, WizStepsAre, FlowStepsAre DEF PanelSecret, AllFlowSteps
  <2>5. WizardAsked(wizard, asked)' /\ FlowAsked(flow, asked)'
    BY <2>1, <2>3, <2>4 DEF WizardAsked, FlowAsked
  <2>6. summary' \in WizardRow /\ Summed(wizard, summary)'
    <3>1. CASE w.step = "confirm"
      <4>1. /\ summary' \in WizardRow /\ summary'.late = late
            /\ summary'.have = w.have /\ summary'.ufw = w.ufw
        BY <1>1, <2>2, <3>1 DEF WizardRow
      <4> QED BY <2>1, <4>1 DEF Summed
    <3>2. CASE w.step # "confirm"
      BY <2>1, <2>2, <3>2 DEF Summed, RowsInv
    <3> QED BY <3>1, <3>2
  <2> QED BY <1>2, <2>1, <2>3, <2>5, <2>6 DEF RowsInv
<1>4. CASE w.step \notin {"ufw", "confirm"} /\ valid
  <2> DEFINE next == WizStep[Index(w.step) + 1]
             row == [w EXCEPT !.step = next, !.have = IF w.have < TextFields THEN w.have + 1 ELSE w.have,
                              !.sni = IF w.step = "realitySni" THEN "typed" ELSE w.sni]
  <2>1. wizard' = [row EXCEPT !.late = late] /\ flow' = flow /\ summary' = summary
        /\ asked' = [at |-> next, late |-> late]
    BY <1>4 DEF WizardText, AsksWizard, SaveWizard
  <2>2. next \in WizSteps
    BY <1>1, <1>4, NextWizStep
  <2> HIDE DEF next
  <2>3. next \notin PanelSecret /\ next \notin FlowSteps /\ next # "none"
    BY <2>2, WizStepsAre, FlowStepsAre DEF PanelSecret, AllFlowSteps
  <2>4. w.ufw = "none"
    BY <1>1, <1>4 DEF WizardOK
  <2>5. row \in WizardRow /\ row.step = next /\ row.ufw = "none" /\ row.late = w.late
    <3>1. (IF w.have < TextFields THEN w.have + 1 ELSE w.have) \in 0 .. TextFields
      BY <1>1, WizStepsAre DEF WizardRow
    <3> QED BY <1>1, <2>2, <2>4, <3>1 DEF WizardRow
  <2> HIDE DEF row
  <2>6. wizard' \in WizardRow /\ wizard'.step = next /\ wizard'.ufw = "none"
    BY <1>1, <2>1, <2>5 DEF WizardRow
  <2>7. asked' \in Prompt /\ asked'.at = next
    BY <2>1, <2>2 DEF Prompt
  <2>8. WizardOK(wizard)' /\ WizardAsked(wizard, asked)' /\ FlowAsked(flow, asked)' /\ Summed(wizard, summary)'
    BY <2>3, <2>6, <2>7 DEF WizardOK, WizardAsked, FlowAsked, Summed
  <2> QED BY <1>2, <2>1, <2>7, <2>8 DEF RowsInv
<1> QED BY <1>3, <1>4

\* A text for a flow, the panel's deployment included; no wizard was read.
LEMMA FlowTextKeeps ==
  ASSUME RowsInv, NEW f, NEW a, NEW s, Read("text", NoWizard, f, a, s), f # NoFlow,
         NEW late \in BOOLEAN, ~late => NoWizard = wizard /\ f = flow,
         NEW out \in {"valid", "refused", "error"}, PanelDeployText(f, a, out, late) \/ FlowText(f, a, out, late)
  PROVE  RowsInv' /\ event' \notin BadEvents
<1>1. /\ FlowOK(f) /\ FlowAsked(f, a) /\ a \in Prompt /\ f.step \in FlowSteps /\ f \in FlowRow
      /\ f.late \in BOOLEAN /\ a.late \in BOOLEAN
  BY DEF Read, FlowOK, FlowRow, Prompt
<1>2. f.step \notin WizSteps /\ f.step # "none"
  BY <1>1, WizStepsAre, FlowStepsAre DEF AllFlowSteps
<1>3. Taken(f.step, a, f.late) \notin BadEvents
  <2>1. a.at \in WizSteps \cup FlowSteps \cup {"none"}
    BY <1>1 DEF Prompt
  <2> QED BY <1>1, <1>2, <2>1 DEF Taken, FlowAsked, BadEvents
<1>4. event' \notin BadEvents
  <2>1. f.step = "map:rtt" => Reported(f) = "none"
    BY <1>1, <1>2 DEF Reported, FlowOK, MapSteps, Pressed, FlowRow
  <2> QED BY <1>3, <2>1 DEF FlowText, PanelDeployText, BadEvents
<1>5. /\ wizard' \in {NoWizard, wizard} /\ summary' = summary
      /\ Proceed(f, out, late)
  BY DEF FlowText, PanelDeployText
<1>6. WizardOK(wizard)' /\ Summed(wizard, summary)' /\ (~late => wizard' = NoWizard)
  <2>1. WizardOK(NoWizard) /\ NoWizard.ufw = "none"
    BY WizStepsAre DEF WizardOK, WizardRow, NoWizard
  <2> QED BY <1>5, <2>1 DEF RowsInv, Summed, WizardOK
<1>7. CASE flow' = flow /\ asked' = [at |-> f.step, late |-> late]
  <2>1. asked' \in Prompt /\ asked'.at = f.step /\ asked'.late = late
    BY <1>1, <1>7 DEF Prompt
  <2>2. WizardAsked(wizard, asked)' /\ FlowAsked(flow, asked)'
    BY <1>1, <1>6, <1>7, <2>1 DEF WizardAsked, FlowAsked
  <2> QED BY <1>4, <1>5, <1>6, <1>7, <2>1, <2>2 DEF RowsInv
<1>8. CASE f.step \in DOMAIN After /\ flow' = [f EXCEPT !.step = After[f.step], !.late = late]
           /\ asked' = [at |-> After[f.step], late |-> late]
  <2>1. After[f.step] \in FlowSteps /\ After[f.step] # "none" /\ f.step \notin MapSteps
    BY <1>8, FlowStepsAre DEF FlowSteps, AllFlowSteps, MapSteps, ButtonOnly
  <2>2. asked' \in Prompt /\ asked'.at = After[f.step] /\ asked'.late = late
    BY <1>8, <2>1 DEF Prompt
  <2>3. flow' \in FlowRow /\ flow'.step = After[f.step] /\ flow'.whole = f.whole
    BY <1>1, <1>8, <2>1 DEF FlowRow
  <2>4. FlowOK(flow)'
    BY <1>1, <2>1, <2>3 DEF FlowOK
  <2>5. WizardAsked(wizard, asked)' /\ FlowAsked(flow, asked)'
    BY <1>6, <2>2, <2>3 DEF WizardAsked, FlowAsked
  <2> QED BY <1>4, <1>5, <1>6, <2>2, <2>4, <2>5 DEF RowsInv
<1>9. CASE flow' = NoFlow /\ asked' = Nothing
  <2>1. FlowOK(flow)' /\ asked' \in Prompt /\ asked'.at = "none"
    BY <1>9 DEF FlowOK, NoFlow, FlowRow, Prompt, Nothing
  <2>2. WizardAsked(wizard, asked)' /\ FlowAsked(flow, asked)'
    BY <1>9, <2>1, WizStepsAre DEF WizardAsked, FlowAsked, PanelSecret
  <2> QED BY <1>4, <1>5, <1>6, <2>1, <2>2 DEF RowsInv
<1> QED BY <1>5, <1>7, <1>8, <1>9 DEF Proceed, AsksFlow

\* The wizard's buttons: they write the row they read, at the step they name.
LEMMA SavedByButton ==
  ASSUME RowsInv, NEW late \in BOOLEAN, NEW l \in BOOLEAN, NEW row, row \in WizardRow,
         row.step \in {"ufw", "confirm"}, SaveWizard(row, l), AsksWizard(row.step, late), flow' = flow,
         event' = "none", summary' \in WizardRow,
         l \/ Summed([row EXCEPT !.late = FALSE], summary')
  PROVE  RowsInv' /\ event' \notin BadEvents
<1>1. /\ wizard' = [row EXCEPT !.late = l]
      /\ asked' = [at |-> row.step, late |-> late]
  BY DEF SaveWizard, AsksWizard
<1>2. /\ wizard' \in WizardRow /\ wizard'.step = row.step /\ wizard'.late = l
      /\ wizard'.ufw = row.ufw /\ wizard'.have = row.have
  BY <1>1 DEF WizardRow
<1>3. row.step \in WizSteps /\ row.step \notin FlowSteps /\ row.step # "none" /\ row.step \notin PanelSecret
  BY WizStepsAre, FlowStepsAre DEF PanelSecret, AllFlowSteps
<1>4. asked' \in Prompt /\ asked'.at = row.step
  BY <1>1, <1>3 DEF Prompt
<1>5. WizardOK(wizard)' /\ WizardAsked(wizard, asked)' /\ FlowAsked(flow, asked)'
  BY <1>2, <1>3, <1>4 DEF WizardOK, WizardAsked, FlowAsked
<1>6. Summed(wizard, summary)'
  <2>1. [row EXCEPT !.late = FALSE].ufw = row.ufw /\ [row EXCEPT !.late = FALSE].have = row.have
        /\ [row EXCEPT !.late = FALSE].late = FALSE
    BY DEF WizardRow
  <2> QED BY <1>2, <2>1 DEF Summed
<1> QED BY <1>2, <1>4, <1>5, <1>6 DEF RowsInv, BadEvents

\* wiz:sni-def: a row that is late stays so, since the summary is not shown again.
LEMMA SniDefaultKeeps ==
  ASSUME RowsInv, NEW w, WizardOK(w), NEW late \in BOOLEAN, ~late => w = wizard, ApplySniDefault(w, late)
  PROVE  RowsInv' /\ event' \notin BadEvents
<1>1. CASE w = NoWizard
  BY <1>1 DEF ApplySniDefault, RowsInv, BadEvents, WizardOK, FlowOK, WizardAsked, FlowAsked, Summed
<1>2. CASE w # NoWizard
  <2> DEFINE row == [w EXCEPT !.sni = "default", !.step = "ufw"]
             l   == late \/ w.late
  <2>1. /\ row \in WizardRow /\ row.step = "ufw" /\ row.ufw = w.ufw /\ row.have = w.have
        /\ w.late \in BOOLEAN /\ l \in BOOLEAN
    BY WizStepsAre DEF WizardOK, WizardRow
  <2>2. SaveWizard(row, l) /\ AsksWizard("ufw", late) /\ flow' = flow /\ event' = "none" /\ summary' = summary
    BY <1>2 DEF ApplySniDefault
  <2> HIDE DEF row
  <2>3. /\ [row EXCEPT !.late = FALSE].ufw = w.ufw /\ [row EXCEPT !.late = FALSE].have = w.have
        /\ [row EXCEPT !.late = FALSE].late = FALSE
    BY <2>1 DEF WizardRow
  <2>4. l \/ Summed([row EXCEPT !.late = FALSE], summary')
    BY <2>2, <2>3 DEF Summed, RowsInv
  <2> HIDE DEF l
  <2>5. summary' \in WizardRow
    BY <2>2 DEF RowsInv
  <2> QED BY <2>1, <2>2, <2>4, <2>5, SavedByButton
<1> QED BY <1>1, <1>2

\* The row with a firewall choice.
LEMMA ChosenIs ==
  ASSUME NEW w, WizardOK(w), w # NoWizard, NEW kind \in {"ufw:yes", "ufw:no"}
  PROVE  /\ Chosen(w, kind) \in WizardRow /\ Chosen(w, kind).step = "confirm" /\ Chosen(w, kind).have = w.have
         /\ Chosen(w, kind).ufw \in {"yes", "no"}
BY WizStepsAre DEF Chosen, WizardOK, WizardRow

\* wiz:ufw, when nothing comes between: what is saved is shown.
LEMMA UfwChoiceKeeps ==
  ASSUME RowsInv, NEW w, WizardOK(w), NEW kind \in {"ufw:yes", "ufw:no"}, ApplyUfwChoice(w, kind)
  PROVE  RowsInv' /\ event' \notin BadEvents
<1>1. CASE w = NoWizard
  BY <1>1 DEF ApplyUfwChoice, RowsInv, BadEvents, WizardOK, FlowOK, WizardAsked, FlowAsked, Summed
<1>2. CASE w # NoWizard
  <2> DEFINE row == Chosen(w, kind)
  <2>1. row \in WizardRow /\ row.step = "confirm"
    BY <1>2, ChosenIs
  <2>2. /\ SaveWizard(row, FALSE) /\ AsksWizard("confirm", FALSE) /\ flow' = flow /\ event' = "none"
        /\ summary' = [row EXCEPT !.step = "none", !.late = FALSE]
    BY <1>2 DEF ApplyUfwChoice, ShowSummary, Shown
  <2> HIDE DEF row
  <2>3. summary' \in WizardRow /\ summary'.have = row.have /\ summary'.ufw = row.ufw
    BY <2>1, <2>2 DEF WizardRow
  <2>4. [row EXCEPT !.late = FALSE].ufw = row.ufw /\ [row EXCEPT !.late = FALSE].have = row.have
    BY <2>1 DEF WizardRow
  <2>5. FALSE \/ Summed([row EXCEPT !.late = FALSE], summary')
    BY <2>3, <2>4 DEF Summed
  <2> DEFINE l == FALSE
  <2>6. l \in BOOLEAN /\ SaveWizard(row, l) /\ AsksWizard(row.step, l)
        /\ (l \/ Summed([row EXCEPT !.late = FALSE], summary'))
    BY <2>1, <2>2, <2>5
  <2> HIDE DEF l
  <2> QED BY <2>1, <2>2, <2>3, <2>6, SavedByButton
<1> QED BY <1>1, <1>2

\* wiz:ufw, first half: the row is late until its summary is shown.
LEMMA SaveChoiceKeeps ==
  ASSUME RowsInv, SaveChoice, WizardOK(slow.w)
  PROVE  RowsInv' /\ event' \notin BadEvents /\ WizardOK(wizard') /\ wizard'.step = "confirm"
<1> DEFINE row == Chosen(slow.w, slow.kind)
<1>1. row \in WizardRow /\ row.step = "confirm"
  BY ChosenIs DEF SaveChoice
<1>2. /\ wizard' = [row EXCEPT !.late = TRUE] /\ flow' = flow /\ asked' = asked /\ summary' = summary
      /\ event' = "none"
  BY DEF SaveChoice, SaveWizard
<1> HIDE DEF row
<1>3. wizard' \in WizardRow /\ wizard'.step = "confirm" /\ wizard'.late = TRUE
  BY <1>1, <1>2 DEF WizardRow
<1>4. WizardOK(wizard')
  BY <1>3 DEF WizardOK
<1>5. WizardAsked(wizard', asked) /\ Summed(wizard', summary)
  BY <1>3 DEF WizardAsked, Summed
<1> QED BY <1>2, <1>3, <1>4, <1>5 DEF RowsInv, BadEvents

\* Second half: shown in order, the summary is that of the row.
LEMMA ShowChoiceKeeps ==
  ASSUME RowsInv, ShowChoice, WizardOK(slow.w), slow.n \in Nat, slow.n = 0 => wizard = slow.w /\ slow.w.step = "confirm"
  PROVE  RowsInv' /\ event' \notin BadEvents
<1> DEFINE late == slow.n > 0
<1>1. /\ asked' = [at |-> "confirm", late |-> late] /\ flow' = flow /\ event' = "none"
      /\ summary' = [slow.w EXCEPT !.step = "none", !.late = late]
      /\ wizard' = IF slow.n = 0 THEN [wizard EXCEPT !.late = FALSE] ELSE wizard
  BY DEF ShowChoice, ShowSummary, Shown, AsksWizard
<1>2. "confirm" \in WizSteps /\ "confirm" \notin FlowSteps \cup PanelSecret /\ late \in BOOLEAN
  BY WizStepsAre, FlowStepsAre DEF PanelSecret, AllFlowSteps
<1>3. /\ asked' \in Prompt /\ asked'.at = "confirm" /\ asked'.late = late
      /\ summary' \in WizardRow /\ summary'.late = late /\ summary'.have = slow.w.have /\ summary'.ufw = slow.w.ufw
  BY <1>1, <1>2 DEF Prompt, WizardOK, WizardRow
<1>4. FlowAsked(flow', asked')
  BY <1>2, <1>3 DEF FlowAsked
<1>5. CASE slow.n = 0
  <2>1. /\ wizard' \in WizardRow /\ wizard'.step = "confirm" /\ wizard'.have = slow.w.have
        /\ wizard'.ufw = slow.w.ufw
    BY <1>1, <1>5 DEF WizardOK, WizardRow
  <2>2. WizardOK(wizard') /\ WizardAsked(wizard', asked') /\ Summed(wizard', summary')
    BY <1>2, <1>3, <2>1 DEF WizardOK, WizardAsked, Summed
  <2> QED BY <1>1, <1>3, <1>4, <2>2 DEF RowsInv, BadEvents
<1>6. CASE slow.n # 0
  <2>a. late
    BY <1>6
  <2> HIDE DEF late
  <2>1. wizard' = wizard /\ asked'.late /\ summary'.late
    BY <1>1, <1>3, <1>6, <2>a
  <2>2. WizardAsked(wizard', asked') /\ Summed(wizard', summary')
    BY <2>1 DEF WizardAsked, Summed
  <2> QED BY <1>1, <1>3, <1>4, <2>1, <2>2 DEF RowsInv, BadEvents
<1> QED BY <1>5, <1>6

\* wiz:confirm: the fields and the firewall choice were shown.
LEMMA ConfirmKeeps ==
  ASSUME RowsInv, NEW w, NEW s, WizardOK(w), s \in WizardRow, Summed(w, s), Confirm(w, s)
  PROVE  RowsInv' /\ event' \notin BadEvents
<1>1. CASE w = NoWizard
  BY <1>1 DEF Confirm, RowsInv, BadEvents, WizardOK, FlowOK, WizardAsked, FlowAsked, Summed
<1>2. CASE w # NoWizard
  <2>1. wizard' = NoWizard /\ asked' = Nothing /\ flow' = flow /\ summary' = summary
    BY <1>2 DEF Confirm
  <2>2. Complete(w) => Created(w, s) \in {"none", "changed", "overtaken"}
    BY DEF Complete, Created, Summed, WizardRow
  <2>3. event' \notin BadEvents
    BY <1>2, <2>2 DEF Confirm, BadEvents
  <2>4. WizardOK(NoWizard) /\ NoWizard.ufw = "none" /\ Nothing \in Prompt /\ Nothing.at = "none"
    BY WizStepsAre DEF WizardOK, WizardRow, NoWizard, Nothing, Prompt
  <2>5. FlowAsked(flow, Nothing)
    BY <2>4, FlowStepsAre DEF FlowAsked, AllFlowSteps
  <2>6. WizardAsked(NoWizard, Nothing) /\ Summed(NoWizard, summary)
    BY <2>4 DEF WizardAsked, Summed
  <2> QED BY <2>1, <2>3, <2>4, <2>5, <2>6 DEF RowsInv
<1> QED BY <1>1, <1>2

\* v13:map:tr, :ok and :city
LEMMA AnswerMapKeeps ==
  ASSUME RowsInv, NEW f, FlowOK(f), NEW late \in BOOLEAN, NEW k \in DOMAIN MapButton, AnswerMap(k, f, late)
  PROVE  RowsInv' /\ event' \notin BadEvents
<1> DEFINE step == MapButton[k]
<1>1. /\ flow' = [step |-> step[2], data |-> f.data \cup {k},
                  whole |-> f.whole /\ f.step = step[1] /\ ~late, late |-> late]
      /\ asked' = [at |-> step[2], late |-> late] /\ wizard' = wizard /\ summary' = summary /\ event' = "none"
  BY DEF AnswerMap, AsksFlow
<1>2. /\ step[1] \in MapSteps /\ step[2] \in MapSteps \cap FlowSteps /\ step[2] \notin PanelSecret /\ step[2] # "none"
      /\ step[2] \notin WizSteps /\ k \in MapData
      /\ Pressed[step[2]] = Pressed[step[1]] \cup {k}
  BY FlowStepsAre, WizStepsAre DEF MapButton, MapSteps, ButtonOnly, AllFlowSteps, PanelSecret, Pressed, MapData
<1> HIDE DEF step
<1>3. flow' \in FlowRow /\ flow'.step = step[2] /\ (flow'.whole => f.whole /\ f.step = step[1])
      /\ flow'.data = f.data \cup {k}
  BY <1>1, <1>2 DEF FlowOK, FlowRow
<1>4. FlowOK(flow)'
  BY <1>2, <1>3 DEF FlowOK
<1>5. asked' \in Prompt /\ asked'.at = step[2] /\ asked'.late = late
  BY <1>1, <1>2 DEF Prompt
<1>6. WizardAsked(wizard, asked)' /\ FlowAsked(flow, asked)'
  BY <1>2, <1>3, <1>5 DEF WizardAsked, FlowAsked
<1> QED BY <1>1, <1>4, <1>5, <1>6 DEF RowsInv, BadEvents, WizardOK, Summed

\* Every handler, overtaken or not.
LEMMA HandleKeeps ==
  ASSUME RowsInv, NEW kind \in Kinds \ {"show"}, NEW w, NEW f, NEW a, NEW s, Read(kind, w, f, a, s),
         NEW late \in BOOLEAN, ~late => Current(kind, w, f), Handle(kind, w, f, a, s, late)
  PROVE  RowsInv' /\ event' \notin BadEvents
<1>1. WizardOK(w) /\ FlowOK(f) /\ s \in WizardRow
  BY DEF Read
<1>2. CASE kind = "text"
  <2>1. Text(w, f, a, late) /\ Read("text", w, f, a, s)
    BY <1>2, FlowStepsAre DEF Handle
  <2>2. ~late => w = wizard /\ (w = NoWizard => f = flow)
    BY <1>2, FlowStepsAre DEF Current
  <2>3. CASE w # NoWizard
    <3>1. PICK valid \in BOOLEAN : WizardText(w, a, valid, late)
      BY <2>1, <2>3 DEF Text, Verdict
    <3> QED BY <2>1, <2>2, <2>3, <3>1, WizardTextKeeps
  <2>4. CASE w = NoWizard /\ f = NoFlow
    <3>1. asked' = Nothing /\ event' = "none" /\ wizard' = wizard /\ flow' = flow /\ summary' = summary
      BY <2>1, <2>4 DEF Text
    <3>2. Nothing \in Prompt /\ Nothing.at \notin PanelSecret \cup WizSteps \cup FlowSteps
      BY WizStepsAre, FlowStepsAre DEF Nothing, Prompt, PanelSecret, AllFlowSteps
    <3>3. WizardAsked(wizard, Nothing) /\ FlowAsked(flow, Nothing)
      BY <3>2 DEF WizardAsked, FlowAsked
    <3> QED BY <3>1, <3>2, <3>3 DEF RowsInv, BadEvents, WizardOK, FlowOK, Summed
  <2>5. CASE w = NoWizard /\ f # NoFlow
    <3>1. PICK out \in {"valid", "refused", "error"} :
            PanelDeployText(f, a, out, late) \/ FlowText(f, a, out, late)
      BY <2>1, <2>5 DEF Text
    <3>2. Read("text", NoWizard, f, a, s)
      BY <2>1, <2>5
    <3> QED BY <2>2, <2>5, <3>1, <3>2, FlowTextKeeps
  <2> QED BY <2>3, <2>4, <2>5
<1>3. CASE kind = "sni"
  <2>1. ApplySniDefault(w, late) /\ (~late => w = wizard)
    BY <1>3, FlowStepsAre DEF Handle, Current
  <2> QED BY <1>1, <2>1, SniDefaultKeeps
<1>4. CASE kind \in {"ufw:yes", "ufw:no"}
  <2>1. ApplyUfwChoice(w, kind)
    BY <1>4, FlowStepsAre DEF Handle
  <2> QED BY <1>1, <1>4, <2>1, UfwChoiceKeeps
<1>5. CASE kind = "confirm"
  <2>1. Confirm(w, s) /\ Summed(w, s)
    BY <1>5, FlowStepsAre DEF Handle, Read
  <2> QED BY <1>1, <2>1, ConfirmKeeps
<1>6. CASE kind \in DOMAIN MapButton
  <2>1. AnswerMap(kind, f, late)
    BY <1>6, FlowStepsAre DEF Handle
  <2> QED BY <1>1, <1>6, <2>1, AnswerMapKeeps
<1> QED BY <1>2, <1>3, <1>4, <1>5, <1>6 DEF Kinds, WizardButton

\* Commands and buttons that read no row.
LEMMA CommandKeeps ==
  ASSUME RowsInv,
         \/ BeginDeployWizard \/ PickPanel \/ PickIsp \/ ClearWizard \/ CancelBoth \/ CancelFlow
         \/ WizardExpires \/ FlowExpires \/ \E k \in DOMAIN FirstOf : StartFlow(k)
  PROVE  RowsInv' /\ event' \notin BadEvents
<1>1. /\ WizardOK(NoWizard) /\ NoWizard.ufw = "none" /\ FlowOK(NoFlow) /\ NoWizard \in WizardRow
      /\ Nothing \in Prompt /\ Nothing.at \notin PanelSecret \cup WizSteps \cup FlowSteps
  BY WizStepsAre, FlowStepsAre
  DEF Nothing, Prompt, PanelSecret, AllFlowSteps, WizardOK, FlowOK, WizardRow, FlowRow, NoWizard, NoFlow
<1>2. \A a : WizardAsked(NoWizard, a) /\ FlowAsked(NoFlow, a)
  BY DEF WizardAsked, FlowAsked
<1>3. \A w, f : WizardAsked(w, Nothing) /\ FlowAsked(f, Nothing)
  BY <1>1 DEF WizardAsked, FlowAsked
<1>4. \A s : Summed(NoWizard, s)
  BY <1>1 DEF Summed
<1>5. CASE BeginDeployWizard
  <2>1. /\ wizard' = [NoWizard EXCEPT !.step = WizStep[1]] /\ flow' = flow /\ summary' = NoWizard
        /\ asked' = [at |-> WizStep[1], late |-> FALSE] /\ event' = "none"
    BY <1>5 DEF BeginDeployWizard, AsksWizard
  <2>2. /\ wizard' \in WizardRow /\ wizard'.step = WizStep[1] /\ wizard'.ufw = "none"
        /\ asked' \in Prompt /\ asked'.at = WizStep[1]
    <3>1. WizStep[1] \in WizSteps /\ TextFields \in Nat
      BY WizStepsAre
    <3>2. \A first \in WizSteps : [NoWizard EXCEPT !.step = first] \in WizardRow
          /\ [NoWizard EXCEPT !.step = first].step = first /\ [NoWizard EXCEPT !.step = first].ufw = "none"
      BY <1>1 DEF WizardRow
    <3> QED BY <2>1, <3>1, <3>2 DEF Prompt
  <2>3. WizStep[1] \notin PanelSecret \cup FlowSteps \cup {"none"}
    BY WizStepsAre, FlowStepsAre DEF PanelSecret, AllFlowSteps
  <2>4. WizardOK(wizard)' /\ WizardAsked(wizard, asked)' /\ FlowAsked(flow, asked)' /\ Summed(wizard, summary)'
    BY <2>2, <2>3 DEF WizardOK, WizardAsked, FlowAsked, Summed
  <2> QED BY <1>1, <2>1, <2>2, <2>4 DEF RowsInv, BadEvents, FlowOK
<1>6. ASSUME NEW step \in FlowSteps, flow' \in FlowRow, flow'.step = step, asked' = [at |-> step, late |-> FALSE],
             flow'.whole => step \in MapSteps /\ flow'.data = Pressed[step],
             step \in PanelSecret => wizard' = NoWizard, wizard' \in {wizard, NoWizard}, summary' = summary,
             event' = "none"
      PROVE  RowsInv' /\ event' \notin BadEvents
  <2>1. step # "none" /\ step \notin WizSteps
    BY <1>6, WizStepsAre, FlowStepsAre DEF AllFlowSteps
  <2>2. FlowOK(flow)' /\ FlowAsked(flow, asked)' /\ asked' \in Prompt
    BY <1>6, <2>1 DEF FlowOK, FlowAsked, Prompt
  <2>3. WizardAsked(wizard, asked)'
    BY <1>6, <2>1 DEF WizardAsked
  <2>4. WizardOK(wizard)' /\ Summed(wizard, summary)'
    BY <1>1, <1>4, <1>6 DEF RowsInv, WizardOK, Summed
  <2> QED BY <1>6, <2>2, <2>3, <2>4 DEF RowsInv, BadEvents
<1>7. CASE PickPanel
  <2>1. PICK step \in {"panel:token", "panel:name"} :
          flow' = [NoFlow EXCEPT !.step = step] /\ asked' = [at |-> step, late |-> FALSE]
    BY <1>7 DEF PickPanel, AsksFlow
  <2>2. wizard' = NoWizard /\ summary' = summary /\ event' = "none"
    BY <1>7 DEF PickPanel
  <2>3. step \in FlowSteps
    BY FlowStepsAre DEF AllFlowSteps
  <2>4. flow' \in FlowRow /\ flow'.step = step /\ ~flow'.whole
    BY <2>1, <2>3 DEF NoFlow, FlowRow
  <2> QED BY <1>6, <2>1, <2>2, <2>3, <2>4
<1>8. CASE PickIsp
  <2>1. /\ flow' = [NoFlow EXCEPT !.step = "map:transport", !.data = {"isp"}, !.whole = TRUE]
        /\ asked' = [at |-> "map:transport", late |-> FALSE] /\ wizard' = wizard /\ summary' = summary /\ event' = "none"
    BY <1>8 DEF PickIsp, AsksFlow
  <2>2. /\ "map:transport" \in FlowSteps \cap MapSteps /\ "map:transport" \notin PanelSecret
        /\ Pressed["map:transport"] = {"isp"}
    BY FlowStepsAre DEF AllFlowSteps, MapSteps, ButtonOnly, PanelSecret, Pressed
  <2>3. flow' \in FlowRow /\ flow'.step = "map:transport" /\ flow'.data = {"isp"}
    BY <2>1, <2>2 DEF NoFlow, FlowRow, MapData
  <2> QED BY <1>6, <2>1, <2>2, <2>3
<1>9. CASE \E k \in DOMAIN FirstOf : StartFlow(k)
  <2>1. PICK k \in DOMAIN FirstOf : StartFlow(k)
    BY <1>9
  <2>2. /\ flow' = [NoFlow EXCEPT !.step = FirstOf[k], !.whole = k = "map", !.data = IF k = "rum" THEN {"city"} ELSE {}]
        /\ asked' = [at |-> FirstOf[k], late |-> FALSE] /\ wizard' = wizard /\ summary' = summary /\ event' = "none"
    BY <2>1 DEF StartFlow, AsksFlow
  <2>3. /\ FirstOf[k] \in FlowSteps /\ FirstOf[k] \notin PanelSecret
        /\ k = "map" => FirstOf[k] \in MapSteps /\ Pressed[FirstOf[k]] = {}
    BY FlowStepsAre DEF FlowSteps, FirstOf, MapSteps, ButtonOnly, PanelSecret, Pressed
  <2>4. /\ flow' \in FlowRow /\ flow'.step = FirstOf[k] /\ flow'.whole = (k = "map")
        /\ flow'.data = IF k = "rum" THEN {"city"} ELSE {}
    BY <2>2, <2>3 DEF NoFlow, FlowRow, MapData
  <2>5. flow'.whole => FirstOf[k] \in MapSteps /\ flow'.data = Pressed[FirstOf[k]]
    BY <2>3, <2>4
  <2> QED BY <1>6, <2>2, <2>3, <2>4, <2>5
<1>10. CASE ClearWizard \/ CancelBoth \/ CancelFlow \/ WizardExpires \/ FlowExpires
  <2>1. /\ wizard' \in {wizard, NoWizard} /\ flow' \in {flow, NoFlow} /\ asked' \in {asked, Nothing}
        /\ summary' = summary /\ event' = "none"
    BY <1>10 DEF ClearWizard, CancelBoth, CancelFlow, WizardExpires, FlowExpires
  <2>2. WizardAsked(wizard, asked)' /\ FlowAsked(flow, asked)'
    <3>1. WizardAsked(wizard', asked')
      BY <1>2, <1>3, <2>1 DEF RowsInv
    <3>2. FlowAsked(flow', asked')
      BY <1>2, <1>3, <2>1 DEF RowsInv
    <3> QED BY <3>1, <3>2
  <2>3. WizardOK(wizard') /\ FlowOK(flow') /\ Summed(wizard', summary')
    BY <1>1, <1>4, <2>1 DEF RowsInv
  <2> QED BY <1>1, <2>1, <2>2, <2>3 DEF RowsInv, BadEvents
<1> QED BY <1>5, <1>7, <1>8, <1>9, <1>10

-----------------------------------------------------------------------------
(* Dialogs: the steps and the theorems.                                     *)

\* What the rows hold now can be read.
LEMMA ReadNow ==
  ASSUME RowsInv, NEW kind \in Kinds \ {"show"} PROVE Read(kind, wizard, flow, asked, summary)
BY DEF RowsInv, Read

LEMMA OfferedAreKinds == Offered \subseteq Kinds \ {"show"} /\ "none" \notin Kinds
BY FlowStepsAre DEF Offered, Kinds, WizardButton

LEMMA NotWaitingIsOne == NotWaiting \in Waiting
BY WizStepsAre
DEF NotWaiting, Waiting, Nothing, Prompt, WizardRow, FlowRow, NoWizard, NoFlow

LEMMA DialogStep ==
  ASSUME DialogInv, [DialogNext]_dialogVars PROVE DialogInv'
<1>1. CASE Overtake
  <2>1. RowsInv' /\ event' \notin BadEvents
    <3>1. CASE \E kind \in Offered : Handle(kind, wizard, flow, asked, summary, FALSE)
      <4>1. PICK kind \in Offered : Handle(kind, wizard, flow, asked, summary, FALSE)
        BY <3>1
      <4>2. Current(kind, wizard, flow) /\ kind \in Kinds
        BY <4>1, OfferedAreKinds DEF Current
      <4>3. RowsInv
        BY DEF DialogInv
      <4>4. Read(kind, wizard, flow, asked, summary)
        BY <4>1, <4>3, ReadNow, OfferedAreKinds
      <4> QED BY <4>1, <4>3, <4>4, OfferedAreKinds, HandleKeeps DEF Current
    <3>2. CASE ~\E kind \in Offered : Handle(kind, wizard, flow, asked, summary, FALSE)
      BY <1>1, <3>2, CommandKeeps DEF Overtake, Update, DialogInv
    <3> QED BY <3>1, <3>2
  <2>2. CASE slow = NotWaiting
    <3>1. slow' = slow
      BY <1>1, <2>2 DEF Overtake
    <3> QED BY <2>1, <2>2, <3>1 DEF DialogInv
  <2>3. CASE slow # NotWaiting
    <3>1. slow' = [slow EXCEPT !.n = slow.n + 1]
      BY <1>1, <2>3 DEF Overtake
    <3>2. /\ slow' \in Waiting /\ slow'.n # 0 /\ slow'.kind = slow.kind /\ slow'.w = slow.w /\ slow'.f = slow.f
          /\ slow'.a = slow.a /\ slow'.s = slow.s
      BY <3>1 DEF DialogInv, Waiting
    <3>3. slow'.kind \in Kinds /\ Read(slow'.kind, slow'.w, slow'.f, slow'.a, slow'.s)
      BY <2>3, <3>2 DEF DialogInv
    <3>4. Read(slow.kind, slow.w, slow.f, slow.a, slow.s)'
      BY <3>3 DEF Read, WizardOK, FlowOK, WizardAsked, FlowAsked, Summed
    <3> QED BY <2>1, <3>2, <3>3, <3>4 DEF DialogInv
  <2> QED BY <2>2, <2>3
<1>2. CASE Resume
  <2>1. /\ slow # NotWaiting /\ slow' = NotWaiting
        /\ Handle(slow.kind, slow.w, slow.f, slow.a, slow.s, slow.n > 0)
    BY <1>2 DEF Resume
  <2>2. slow.n \in Nat /\ slow.kind \in Kinds \ {"show"} /\ Read(slow.kind, slow.w, slow.f, slow.a, slow.s) /\ RowsInv
    BY <1>2, <2>1 DEF DialogInv, Waiting, Resume
  <2>3. ~(slow.n > 0) => Current(slow.kind, slow.w, slow.f)
    BY <2>1, <2>2 DEF DialogInv
  <2>4. (slow.n > 0) \in BOOLEAN
    OBVIOUS
  <2>5. RowsInv' /\ event' \notin BadEvents
    BY <2>1, <2>2, <2>3, <2>4, HandleKeeps
  <2> QED BY <2>1, <2>5, NotWaitingIsOne DEF DialogInv
<1>3. CASE \E kind \in Offered : Load(kind)
  <2>1. PICK kind \in Offered : Load(kind)
    BY <1>3
  <2>2. kind \in Kinds
    BY OfferedAreKinds
  <2>3. /\ wizard' = wizard /\ flow' = flow /\ asked' = asked /\ summary' = summary /\ event' = "none"
        /\ slow' = [kind |-> kind, n |-> 0,
                    w |-> IF kind \in DOMAIN MapButton THEN NoWizard ELSE wizard,
                    f |-> IF kind \in DOMAIN MapButton \/ (kind = "text" /\ wizard = NoWizard) THEN flow ELSE NoFlow,
                    a |-> IF kind = "text" THEN asked ELSE Nothing,
                    s |-> IF kind = "confirm" THEN summary ELSE NoWizard]
    BY <2>1 DEF Load
  <2>4. RowsInv /\ RowsInv'
    BY <2>3 DEF DialogInv, RowsInv, WizardOK, FlowOK, WizardAsked, FlowAsked, Summed
  <2>5. /\ WizardOK(NoWizard) /\ FlowOK(NoFlow) /\ Nothing \in Prompt /\ NoWizard \in WizardRow /\ NoFlow \in FlowRow
    BY WizStepsAre DEF Nothing, Prompt, WizardOK, FlowOK, WizardRow, FlowRow, NoWizard, NoFlow
  <2>6. \A a : FlowAsked(NoFlow, a)
    BY DEF FlowAsked
  <2>7. slow' \in Waiting /\ slow'.kind = kind
    BY <2>2, <2>3, <2>4, <2>5 DEF Waiting, RowsInv, WizardOK, FlowOK
  <2>8. Read(slow'.kind, slow'.w, slow'.f, slow'.a, slow'.s)
    <3>1. WizardOK(slow'.w) /\ FlowOK(slow'.f) /\ slow'.a \in Prompt /\ slow'.s \in WizardRow
      BY <2>3, <2>4, <2>5 DEF RowsInv
    <3>2. kind = "text" => WizardAsked(slow'.w, slow'.a) /\ FlowAsked(slow'.f, slow'.a)
      BY <2>3, <2>4, <2>6, FlowStepsAre DEF RowsInv
    <3>3. kind = "confirm" => Summed(slow'.w, slow'.s)
      BY <2>3, <2>4, FlowStepsAre DEF RowsInv
    <3> QED BY <2>1, <2>7, <3>1, <3>2, <3>3, OfferedAreKinds DEF Read
  <2>9. Read(slow.kind, slow.w, slow.f, slow.a, slow.s)'
    BY <2>8 DEF Read, WizardOK, FlowOK, WizardAsked, FlowAsked, Summed
  <2>10. Current(slow.kind, slow.w, slow.f)'
    BY <2>3 DEF Current
  <2> QED BY <2>2, <2>3, <2>4, <2>7, <2>9, <2>10 DEF DialogInv, BadEvents
<1>4. CASE SaveChoice
  <2>1. slow # NotWaiting /\ WizardOK(slow.w) /\ RowsInv /\ slow \in Waiting
    BY <1>4, FlowStepsAre DEF SaveChoice, DialogInv, Read, NotWaiting
  <2>2. RowsInv' /\ event' \notin BadEvents /\ WizardOK(wizard') /\ wizard'.step = "confirm"
    BY <1>4, <2>1, SaveChoiceKeeps
  <2>3. slow' = [slow EXCEPT !.kind = "show", !.w = wizard']
    BY <1>4 DEF SaveChoice
  <2>4. wizard' \in WizardRow
    BY <2>2 DEF WizardOK
  <2>5. /\ slow' \in Waiting /\ slow'.kind = "show" /\ slow'.w = wizard' /\ slow'.f = slow.f /\ slow'.a = slow.a
        /\ slow'.s = slow.s /\ slow'.n = slow.n
    BY <2>1, <2>3, <2>4 DEF Waiting, Kinds
  <2>6. Read(slow'.kind, slow'.w, slow'.f, slow'.a, slow'.s)
    BY <2>1, <2>2, <2>5 DEF DialogInv, Read
  <2>7. Read(slow.kind, slow.w, slow.f, slow.a, slow.s)'
    BY <2>6 DEF Read, WizardOK, FlowOK, WizardAsked, FlowAsked, Summed
  <2>8. Current(slow.kind, slow.w, slow.f)'
    BY <2>5, FlowStepsAre DEF Current
  <2> QED BY <2>2, <2>5, <2>7, <2>8 DEF DialogInv, Kinds
<1>5. CASE ShowChoice
  <2>1. slow # NotWaiting /\ WizardOK(slow.w) /\ RowsInv /\ slow \in Waiting /\ slow' = NotWaiting
    BY <1>5 DEF ShowChoice, DialogInv, Read, NotWaiting
  <2>2. slow.n \in Nat /\ (slow.n = 0 => wizard = slow.w /\ slow.w.step = "confirm")
    BY <1>5, <2>1, FlowStepsAre DEF ShowChoice, DialogInv, Current, Waiting, Read
  <2>3. RowsInv' /\ event' \notin BadEvents
    BY <1>5, <2>1, <2>2, ShowChoiceKeeps
  <2> QED BY <2>1, <2>3, NotWaitingIsOne DEF DialogInv
<1>6. CASE UNCHANGED dialogVars
  BY <1>6 DEF dialogVars, DialogInv, RowsInv, WizardOK, FlowOK, WizardAsked, FlowAsked, Summed, Read, Current
<1> QED BY <1>1, <1>2, <1>3, <1>4, <1>5, <1>6 DEF DialogNext

LEMMA DialogStart == DialogInit => DialogInv
<1> SUFFICES ASSUME DialogInit PROVE DialogInv
  OBVIOUS
<1>1. RowsInv
  BY WizStepsAre DEF DialogInit, RowsInv, Nothing, Prompt, WizardOK, FlowOK, WizardRow, FlowRow, NoWizard, NoFlow,
                     WizardAsked, FlowAsked, Summed
<1> QED BY <1>1, NotWaitingIsOne DEF DialogInit, DialogInv, BadEvents

(* Whatever is typed and pressed while handlers are overtaken, a text is    *)
(* taken by the step that asked last, never a panel's token or password by  *)
(* the wizard, and a report whose buttons were pressed in order is whole    *)
(* (v13:map:* in src/telegram.ts, processWizardText and                     *)
(* processPanelFlowText): with the exceptions AnswersAsked names, for texts *)
(* met by a row or a prompt an overtaken handler wrote last above all.      *)
THEOREM TextsReachTheirStep == DialogSpec => []AnswersAsked
<1>1. DialogInv => AnswersAsked
  BY DEF DialogInv, AnswersAsked, BadEvents
<1> QED BY <1>1, DialogStart, DialogStep, PTL DEF DialogSpec

(* wiz:confirm creates a deployment only from fields and a firewall choice  *)
(* the last summary showed, for any number of fields and of updates that    *)
(* overtake a handler, unless the row or its summary is late: written by an *)
(* overtaken handler since the last choice shown in order, or not shown yet *)
(* (callback wiz:confirm in src/telegram.ts).                               *)
THEOREM ConfirmedIsShown == DialogSpec => []ConfirmedWasShown
<1>1. DialogInv => ConfirmedWasShown
  BY DEF DialogInv, ConfirmedWasShown, BadEvents
<1> QED BY <1>1, DialogStart, DialogStep, PTL DEF DialogSpec

-----------------------------------------------------------------------------
(* Chat: buttons.                                                           *)

\* The buttons each part of the dispatch takes.
MenuButtons == {"login", "status", "help", "help:topic", "omni:home", "delmsg", "flow:cancel", "wiz:cancel"}
OmniButtons == {"kaveh", "omni:connect", "omni:connect:chat", "kaveh:new", "kaveh:token", "kaveh:users",
                "kaveh:vip", "kaveh:recover", "kaveh:del"}
PanelButtons == {"deps", "dep:new", "dep-panel", "dep-vps", "dep-vps:id", "wiz:confirm", "pdel", "pdel-yes"}
DeployButtons == {"dep", "dep-retry", "dep-revoke", "dep-del", "dep-subrot", "dep-revoke-yes", "dep-del-yes",
                  "dep-boot", "dep-subs", "dep-subrot-yes"}
ConnButtons == {"conns", "conn-new", "conn-disc", "conn-disc-yes"}
RadarButtons == {"ip", "ip:hint", "ip:report", "ip:pick", "pack", "dnstt", "dns:scan:new", "check", "map",
                 "map:report", "map:isp", "map:tr", "map:ok", "map:city"}
HoleButtons == {"wh", "wh:cmds", "wh:publish", "wh:clear"}
DonationButtons == {"donate", "donate:agree", "donate:pool", "donate:mine", "donate:wd", "donate:review",
                    "donate:ok", "donate:no"}
OverviewButtons == {"health", "usage", "engine", "roster"}
DnsButtons == {"dns", "dns:scan", "dnstest", "dnstest:isp", "dnstest:run", "dns:connect", "dnsb:master", "dnsb:white",
               "dnsb:slip", "dnsb:slip:dom", "dnsb:master:id", "dnsb:white:id", "dnsb:master:url", "dnsb:white:cf",
               "dnsb:master:cf", "dnsb:white:dom"}
Buttons == MenuButtons \cup OmniButtons \cup PanelButtons \cup DeployButtons \cup ConnButtons \cup RadarButtons
             \cup HoleButtons \cup DonationButtons \cup OverviewButtons \cup DnsButtons

\* The answers of the questions, and the rows under which a button is not refused.
YesKeys == {"pdel-yes", "dep-revoke-yes", "dep-del-yes", "dep-subrot-yes", "conn-disc-yes"}
Accepts(b, r) ==
  /\ b = "dep" => r.dep # "none"
  /\ b \in {"dep-revoke", "dep-revoke-yes"} => r.dep \notin {"none", "revoking"}
  /\ b \in {"dep-del", "dep-del-yes"} => r.dep \in Deletable
  /\ b \in {"dep-subs", "dep-subrot", "dep-subrot-yes"} => r.dep = "ready"
  /\ b = "dep-retry" => r.dep \in {"agent_ready", "failed"}
  /\ b = "dep-boot" => r.dep \in {"queued", "preparing", "awaiting_agent", "failed"}
  /\ b \in {"conn-disc", "conn-disc-yes"} => r.conns # 0
  /\ b \in {"roster", "donate:review", "donate:ok", "donate:no"} => admin

(* A view that reads the rows r: every button is one the dispatch takes and *)
(* r accepts, none answers a question, and a secret is protected.           *)
Guarded == {"dep", "dep-revoke", "dep-del", "dep-subs", "dep-subrot", "dep-retry", "dep-boot", "conn-disc", "roster",
            "donate:review", "donate:ok", "donate:no"}
Renders(v, r) ==
  /\ v.protect \in BOOLEAN
  /\ v.keys \subseteq Buttons \ YesKeys
  /\ v.holds # "question"
  /\ v.holds = "secret" => v.protect
  /\ \A k \in v.keys : Accepts(k, r)

LEMMA UnguardedAccepted == \A b \in Buttons \ (Guarded \cup YesKeys) : \A r : Accepts(b, r)
BY DEF Guarded, Accepts, YesKeys

LEMMA UnguardedRenders ==
  ASSUME NEW name, NEW keys \in SUBSET (Buttons \ (Guarded \cup YesKeys)), NEW holds, holds # "question", NEW r
  PROVE  /\ Renders(View(name, keys, holds), r) /\ Renders(Locked(View(name, keys, holds)), r)
         /\ View(name, keys, holds).holds = holds /\ Locked(View(name, keys, holds)).holds = holds
         /\ Renders(Plain(name, keys), r) /\ Renders(Locked(Plain(name, keys)), r)
         /\ Plain(name, keys).holds = "text" /\ Locked(Plain(name, keys)).holds = "text"
<1>1. \A k \in keys : Accepts(k, r)
  BY UnguardedAccepted
<1>2. ASSUME NEW h, h # "question"
      PROVE  /\ Renders(View(name, keys, h), r) /\ Renders(Locked(View(name, keys, h)), r)
             /\ View(name, keys, h).holds = h /\ Locked(View(name, keys, h)).holds = h
  BY <1>1, <1>2 DEF Renders, View, Locked
<1> QED BY <1>2 DEF Plain

\* The views whose buttons depend on no row.
PlainViews ==
  {HomeView, BackView, HelpIndex, HelpTopic, FlowView, Locked(FlowView), CheckView, CleanIpView, CleanIpPicker,
   HintView, MapView, WhiteHoleView, DonationPool, DnsCenter, DnsScanView, StandaloneConnect, ConnectPrompt,
   OmniConnect, Catalog, Wizard, VpsPicker, LoginView, StatusView, Locked(StatusView),
   MasterConfig, WhiteConfig, Locked(WhiteConfig)}
SecretViews ==
  {Bootstrap, Subscriptions, View("node", OmniNode, "secret"),
   View("password", {"kaveh:users", "omni:home"}, "secret"), View("vip", OmniNode, "secret")}

LEMMA PlainRender ==
  /\ \A v \in PlainViews : v.holds # "secret" /\ \A r : Renders(v, r)
  /\ \A v \in SecretViews : \A r : Renders(v, r)
<1> DEFINE Free == Buttons \ (Guarded \cup YesKeys)
<1>1. /\ MenuRows \subseteq Free /\ EnvMenu \subseteq Free /\ OmniNode \subseteq Free
      /\ (MenuRows \ EnvCallbacks) \cup {"kaveh"} \subseteq Free
      /\ DonationKeyboard(FALSE) \subseteq Free
  BY DEF MenuRows, EnvMenu, EnvCallbacks, OmniNode, DonationKeyboard, Buttons, Guarded, YesKeys, MenuButtons, OmniButtons,
         PanelButtons, DeployButtons, ConnButtons, RadarButtons, HoleButtons, DonationButtons, OverviewButtons, DnsButtons
<1>2. {"omni:home", "help:topic", "help", "flow:cancel", "check", "ip:report", "ip", "ip:hint", "wh", "ip:pick",
       "map", "map:report", "wh:publish", "wh:clear", "wh:cmds", "dns:scan", "dnstest", "dnsb:master", "dnsb:white",
       "dnsb:slip", "dns:scan:new", "dns", "delmsg", "omni:connect:chat", "dep-panel", "dep-vps", "dep-vps:id",
       "wiz:cancel", "wiz:confirm", "kaveh:users"} \subseteq Free
  BY DEF Buttons, Guarded, YesKeys, MenuButtons, OmniButtons,
         PanelButtons, DeployButtons, ConnButtons, RadarButtons, HoleButtons, DonationButtons, OverviewButtons, DnsButtons
<1> HIDE DEF Free
<1>3. ASSUME NEW name, NEW keys \in SUBSET Free, NEW r
      PROVE  /\ Renders(Plain(name, keys), r) /\ Renders(Locked(Plain(name, keys)), r)
             /\ Plain(name, keys).holds # "secret" /\ Locked(Plain(name, keys)).holds # "secret"
  BY UnguardedRenders DEF Free
<1>4. ASSUME NEW name, NEW keys \in SUBSET Free, NEW r, NEW holds \in {"link", "env", "config", "secret"}
      PROVE  /\ Renders(View(name, keys, holds), r) /\ Renders(Locked(View(name, keys, holds)), r)
             /\ View(name, keys, holds).holds = holds /\ Locked(View(name, keys, holds)).holds = holds
  <2>1. keys \in SUBSET (Buttons \ (Guarded \cup YesKeys)) /\ holds # "question"
    BY DEF Free
  <2> QED BY ONLY <2>1, UnguardedRenders
<1>5. ASSUME NEW v \in PlainViews, NEW r PROVE v.holds # "secret" /\ Renders(v, r)
  <2>1. CASE v \in {HomeView, BackView, HelpIndex, HelpTopic}
    BY <1>1, <1>2, <1>3, <2>1 DEF HomeView, BackView, HelpIndex, HelpTopic
  <2>8. CASE v \in {FlowView, Locked(FlowView), CheckView, CleanIpView}
    BY <1>2, <1>3, <2>8 DEF FlowView, CheckView, CleanIpView
  <2>2. CASE v \in {CleanIpPicker, HintView, MapView, WhiteHoleView}
    BY <1>1, <1>2, <1>3, <2>2 DEF CleanIpPicker, HintView, MapView, WhiteHoleView
  <2>3. CASE v \in {OmniConnect, Catalog, Wizard, VpsPicker}
    BY <1>2, <1>3, <2>3 DEF OmniConnect, Catalog, Wizard, VpsPicker
  <2>6. CASE v \in {DnsCenter, DnsScanView}
    BY <1>2, <1>3, <2>6 DEF DnsCenter, DnsScanView
  <2>5. CASE v = DonationPool
    <3>1. PICK keys \in SUBSET Free : keys = DonationKeyboard(FALSE)
      BY <1>1
    <3>2. v = Plain("pool", keys)
      BY <2>5, <3>1 DEF DonationPool
    <3> QED BY <1>3, <3>2
  <2>4. CASE v \in {StandaloneConnect, ConnectPrompt}
    BY <1>2, <1>4, <2>4 DEF StandaloneConnect, ConnectPrompt
  <2>9. CASE v \in {LoginView, StatusView, Locked(StatusView)}
    BY <1>1, <1>4, <2>9 DEF LoginView, StatusView
  <2>7. CASE v \in {MasterConfig, WhiteConfig, Locked(WhiteConfig)}
    BY <1>2, <1>4, <2>7 DEF MasterConfig, WhiteConfig
  <2> QED BY <2>1, <2>2, <2>3, <2>4, <2>5, <2>6, <2>7, <2>8, <2>9 DEF PlainViews
<1>6. ASSUME NEW v \in SecretViews, NEW r PROVE Renders(v, r)
  BY <1>1, <1>2, <1>4, <1>6 DEF SecretViews, Bootstrap, Subscriptions
<1> QED BY <1>5, <1>6

\* A view of given buttons renders rows that accept them all.
LEMMA ViewRenders ==
  ASSUME NEW name, NEW keys \in SUBSET (Buttons \ YesKeys), NEW holds \in {"text", "env"}, NEW r,
         \A k \in keys : Accepts(k, r)
  PROVE  /\ Renders(View(name, keys, holds), r) /\ Renders(Locked(View(name, keys, holds)), r)
         /\ View(name, keys, holds).holds # "secret"
BY DEF Renders, View, Locked

\* The views whose buttons depend on the rows or on who reads them.
LEMMA RowsRender ==
  ASSUME NEW r
  PROVE  /\ Renders(OmniHome(r), r) /\ OmniHome(r).holds # "secret"
         /\ Renders(DepsList(r), r) /\ DepsList(r).holds # "secret"
         /\ r.dep # "none" => Renders(DepDetail(r), r)
         /\ DepDetail(r).holds # "secret"
         /\ Renders(ConnsList(r), r) /\ ConnsList(r).holds # "secret"
<1>1. ASSUME NEW name, NEW keys \in SUBSET (Buttons \ YesKeys), \A k \in keys : Accepts(k, r)
      PROVE  Renders(Plain(name, keys), r) /\ Plain(name, keys).holds # "secret"
  BY <1>1, ViewRenders DEF Plain
<1> DEFINE homeKeys == {"kaveh:new", "omni:home"} \cup IF r.node THEN {"kaveh:users", "kaveh:token"} ELSE {"omni:connect"}
           connKeys == {"conn-new", "omni:home"} \cup IF r.conns > 0 THEN {"conn-disc"} ELSE {}
           depsKeys == {"dep:new", "omni:home"}
                         \cup (IF r.dep # "none" THEN {"dep"} ELSE {})
                         \cup (IF r.dep \in Deletable THEN {"dep-del"} ELSE {})
                         \cup (IF r.panel THEN {"pdel"} ELSE {})
<1>2. homeKeys \subseteq Buttons \ YesKeys /\ \A k \in homeKeys : Accepts(k, r)
  BY DEF Buttons, YesKeys, MenuButtons, OmniButtons, Accepts
<1>3. connKeys \subseteq Buttons \ YesKeys /\ \A k \in connKeys : Accepts(k, r)
  BY DEF Buttons, YesKeys, MenuButtons, ConnButtons, Accepts
<1>4. depsKeys \subseteq Buttons \ YesKeys /\ \A k \in depsKeys : Accepts(k, r)
  BY DEF Buttons, YesKeys, MenuButtons, PanelButtons, DeployButtons, Accepts
<1>5. /\ DepButtons(r.dep) \subseteq Buttons \ YesKeys
      /\ r.dep # "none" => \A k \in DepButtons(r.dep) : Accepts(k, r)
  <2>1. DepButtons(r.dep) \subseteq {"dep", "deps", "omni:home", "dep-subs", "dep-subrot", "dep-boot", "dep-retry",
                                    "dep-revoke", "dep-del"}
    BY DEF DepButtons
  <2>2. {"dep", "deps", "omni:home", "dep-subs", "dep-subrot", "dep-boot", "dep-retry",
         "dep-revoke", "dep-del"} \subseteq Buttons \ YesKeys
    BY DEF Buttons, YesKeys, MenuButtons, PanelButtons, DeployButtons
  <2>3. ASSUME r.dep # "none", NEW k \in DepButtons(r.dep) PROVE Accepts(k, r)
    BY <2>3 DEF DepButtons, Accepts, Deletable
  <2> QED BY <2>1, <2>2, <2>3
<1> HIDE DEF homeKeys, connKeys, depsKeys
<1>6. OmniHome(r) = Plain("nodes", homeKeys) /\ DepsList(r) = Plain("deps", depsKeys)
      /\ DepDetail(r) = Plain("detail", DepButtons(r.dep)) /\ ConnsList(r) = View("conns", connKeys, "env")
  BY DEF OmniHome, DepsList, DepDetail, ConnsList, homeKeys, connKeys, depsKeys
<1>7. Renders(ConnsList(r), r) /\ ConnsList(r).holds # "secret"
  BY <1>3, <1>6, ViewRenders
<1>8. DepDetail(r).holds # "secret"
  BY DEF DepDetail, Plain, View
<1> QED BY <1>1, <1>2, <1>4, <1>5, <1>6, <1>7, <1>8

LEMMA DonationsRender ==
  ASSUME NEW r
  PROVE  /\ Renders(DonationIntro, r) /\ DonationIntro.holds # "secret"
         /\ Renders(MyDonations(r), r) /\ MyDonations(r).holds # "secret"
         /\ admin => Renders(DonationReview(r), r)
         /\ DonationReview(r).holds # "secret"
<1>1. ASSUME NEW name, NEW keys \in SUBSET (Buttons \ YesKeys), \A k \in keys : Accepts(k, r)
      PROVE  Renders(Plain(name, keys), r) /\ Plain(name, keys).holds # "secret"
  BY <1>1, ViewRenders DEF Plain
<1> DEFINE mine == {"donate:agree", "donate:pool", "omni:home"}
                     \cup IF r.key \in {"pending", "approved"} THEN {"donate:wd"} ELSE {}
           review == {"donate:pool", "omni:home"} \cup IF r.key = "pending" THEN {"donate:ok", "donate:no"} ELSE {}
<1>2. mine \subseteq Buttons \ YesKeys /\ \A k \in mine : Accepts(k, r)
  BY DEF Buttons, YesKeys, MenuButtons, DonationButtons, Accepts
<1>3. review \subseteq Buttons \ YesKeys /\ (admin => \A k \in review : Accepts(k, r))
  BY DEF Buttons, YesKeys, MenuButtons, DonationButtons, Accepts
<1>4. DonationKeyboard(admin) \subseteq Buttons \ YesKeys /\ \A k \in DonationKeyboard(admin) : Accepts(k, r)
  BY DEF DonationKeyboard, Buttons, YesKeys, MenuButtons, DonationButtons, Accepts
<1> HIDE DEF mine, review
<1>5. MyDonations(r) = Plain("mine", mine) /\ DonationReview(r) = Plain("review", review)
      /\ DonationIntro = Plain("donation", DonationKeyboard(admin))
  BY DEF MyDonations, DonationReview, DonationIntro, mine, review
<1>6. DonationReview(r).holds # "secret"
  BY DEF DonationReview, Plain, View
<1> QED BY <1>1, <1>2, <1>3, <1>4, <1>5, <1>6

LEMMA OtherRender ==
  ASSUME NEW r
  PROVE  /\ \A name : /\ Renders(Overview(name), r) /\ Renders(Locked(Overview(name)), r)
                      /\ Overview(name).holds # "secret"
         /\ \A key \in {"map:isp", "map:tr", "map:ok", "map:city"} :
              Renders(MapStep(key), r) /\ MapStep(key).holds # "secret"
         /\ \A s \in {"isp", "city", "run"} : Renders(DnsTest(s), r) /\ DnsTest(s).holds # "secret"
         /\ \A kind : Renders(BuilderPicker(kind, r), r) /\ BuilderPicker(kind, r).holds # "secret"
         /\ \A kind \in {"dnsb:slip", "dnsb:master", "dnsb:white"} :
              Renders(BuilderCard(kind), r) /\ BuilderCard(kind).holds # "secret"
         /\ \A v \in {Plain("again", {"dep:new", "omni:home"}), Plain("deleted", EnvMenu), Plain("users", OmniNode),
                      Locked(Plain("recovered", OmniNode))} : Renders(v, r) /\ v.holds # "secret"
<1>1. ASSUME NEW name, NEW keys \in SUBSET (Buttons \ (Guarded \cup YesKeys))
      PROVE  /\ Renders(Plain(name, keys), r) /\ Plain(name, keys).holds # "secret"
             /\ Renders(Locked(Plain(name, keys)), r) /\ Locked(Plain(name, keys)).holds # "secret"
  BY UnguardedRenders
<1> USE DEF Buttons, Guarded, YesKeys, MenuButtons, OmniButtons, PanelButtons, DeployButtons, ConnButtons, RadarButtons, HoleButtons,
            DonationButtons, OverviewButtons, DnsButtons
<1>2. ASSUME NEW name PROVE Renders(Overview(name), r) /\ Renders(Locked(Overview(name)), r) /\ Overview(name).holds # "secret"
  <2>1. OverviewKeyboard \subseteq Buttons \ YesKeys /\ \A k \in OverviewKeyboard : Accepts(k, r)
    BY DEF OverviewKeyboard, Accepts
  <2> QED BY ONLY <2>1, ViewRenders DEF Overview
<1>3. ASSUME NEW key \in {"map:isp", "map:tr", "map:ok", "map:city"} PROVE Renders(MapStep(key), r) /\ MapStep(key).holds # "secret"
  <2>1. {key, "flow:cancel"} \subseteq Buttons \ (Guarded \cup YesKeys)
    OBVIOUS
  <2> QED BY ONLY <1>1, <2>1 DEF MapStep
<1>4. ASSUME NEW s \in {"isp", "city", "run"} PROVE Renders(DnsTest(s), r) /\ DnsTest(s).holds # "secret"
  <2>1. PICK keys \in SUBSET (Buttons \ (Guarded \cup YesKeys)) : DnsTest(s) = Plain("dnstest", keys)
    <3>1. {"dns", "omni:home", "dnstest:isp", "dnstest:run", "dnstest"} \subseteq Buttons \ (Guarded \cup YesKeys)
      OBVIOUS
    <3>2. ({"dns", "omni:home"} \cup
            CASE s = "isp" -> {"dnstest:isp"} [] s = "city" -> {"dnstest:run", "dnstest"}
              [] s = "run" -> {"dnstest:isp", "dnstest"})
            \subseteq {"dns", "omni:home", "dnstest:isp", "dnstest:run", "dnstest"}
      BY ONLY s \in {"isp", "city", "run"}
    <3> QED BY ONLY <3>1, <3>2 DEF DnsTest
  <2> QED BY ONLY <1>1, <2>1
<1>5. ASSUME NEW kind PROVE Renders(BuilderPicker(kind, r), r) /\ BuilderPicker(kind, r).holds # "secret"
  <2>1. {"dns", "omni:home", IF r.conns = 0 THEN "dns:connect"
                             ELSE IF kind = "dnsb:white" THEN "dnsb:white:id" ELSE "dnsb:master:id"}
          \subseteq Buttons \ (Guarded \cup YesKeys)
    OBVIOUS
  <2> QED BY ONLY <1>1, <2>1 DEF BuilderPicker
<1>6. ASSUME NEW kind \in {"dnsb:slip", "dnsb:master", "dnsb:white"}
      PROVE  Renders(BuilderCard(kind), r) /\ BuilderCard(kind).holds # "secret"
  <2>1. PICK keys \in SUBSET (Buttons \ (Guarded \cup YesKeys)) : BuilderCard(kind) = Plain("builder", keys)
    <3>1. {kind, "dns", "omni:home", "dnsb:slip:dom", "dns:connect", "dnsb:master:url", "dnsb:master:cf",
           "dnsb:white:dom", "dnsb:white:cf"} \subseteq Buttons \ (Guarded \cup YesKeys)
      OBVIOUS
    <3>2. ({kind, "dns", "omni:home"} \cup
            CASE kind = "dnsb:slip" -> {"dnsb:slip:dom", "dns:connect"}
              [] kind = "dnsb:master" -> {"dnsb:master:url", "dnsb:master:cf"}
              [] kind = "dnsb:white" -> {"dnsb:white:dom", "dnsb:white:cf"})
            \subseteq {kind, "dns", "omni:home", "dnsb:slip:dom", "dns:connect", "dnsb:master:url", "dnsb:master:cf",
                       "dnsb:white:dom", "dnsb:white:cf"}
      BY ONLY kind \in {"dnsb:slip", "dnsb:master", "dnsb:white"}
    <3> QED BY ONLY <3>1, <3>2 DEF BuilderCard
  <2> QED BY ONLY <1>1, <2>1
<1>7. ASSUME NEW v \in {Plain("again", {"dep:new", "omni:home"}), Plain("deleted", EnvMenu), Plain("users", OmniNode),
                        Locked(Plain("recovered", OmniNode))} PROVE Renders(v, r) /\ v.holds # "secret"
  <2>1. {{"dep:new", "omni:home"}, EnvMenu, OmniNode} \subseteq SUBSET (Buttons \ (Guarded \cup YesKeys))
    BY DEF EnvMenu, EnvCallbacks, MenuRows, OmniNode
  <2> QED BY ONLY <1>1, <1>7, <2>1
<1> QED BY ONLY <1>2, <1>3, <1>4, <1>5, <1>6, <1>7

-----------------------------------------------------------------------------
(* Chat: what a press may do.                                               *)

\* What only a question takes away, and when nothing of it goes.
Asked == {"deployment", "connection", "panel", "subscription"}
Keeps(r, q) ==
  /\ q.dep # r.dep => q.dep \notin {"none", "revoking"}
  /\ ~(q.conns < r.conns)
  /\ r.panel => q.panel

LEMMA NothingGone ==
  ASSUME NEW r, NEW q, Keeps(r, q), NEW op, op # "subscription"
  PROVE  Gone(r, q, op) \cap Asked = {}
BY DEF Keeps, Gone, Asked

LEMMA KeepsSame == \A r \in Rows : Keeps(r, r)
<1> SUFFICES ASSUME NEW r \in Rows PROVE Keeps(r, r)
  OBVIOUS
<1>1. r.conns \in Nat
  BY ChatAssumption DEF Rows
<1> QED BY <1>1 DEF Keeps

(* A press of b under the rows r takes away what is asked about only as the *)
(* answer of a question, is refused only by rows that do not accept b or by *)
(* a busy connection, and shows a view that fits the rows it leaves, or a   *)
(* question about rows it leaves alone.                                     *)
Asks(d, b, r) ==
  /\ d.view.name = "confirm" /\ d.view.holds = "question" /\ d.view.keys \subseteq Buttons /\ d.view.protect \in BOOLEAN
  /\ d.rows = r
  /\ Accepts(b, r) => \A k \in d.view.keys : Accepts(k, r)
BusyRefusal(d, b, r) == b = "conn-disc-yes" /\ Busy(r.dep) /\ d.rows = r
Safe(d, b, r) ==
  /\ d.how \in {"edit", "send", "gone", "toast"}
  /\ r \in Rows /\ Gone(r, d.rows, d.op) \cap Asked # {} => b \in YesKeys
  /\ d.op = "refused" => ~Accepts(b, r) \/ BusyRefusal(d, b, r)
  /\ d.how # "toast" => Renders(d.view, d.rows) \/ Asks(d, b, r)
  /\ d.how = "edit" => d.view.holds # "secret"
  /\ r \in Rows => d.rows \in Rows
AllSafe(S, b, r) == \A d \in S : Safe(d, b, r)

LEMMA SafelyChanged ==
  ASSUME NEW b, NEW r, NEW after, r \in Rows => after \in Rows /\ Keeps(r, after)
  PROVE  /\ \A v : Renders(v, after) /\ v.holds # "secret" => AllSafe(Edit(v, after), b, r)
         /\ \A v : Renders(v, after) => AllSafe(Send(v, after), b, r)
         /\ AllSafe(Toast(after), b, r)
         /\ ~Accepts(b, r) \/ (b = "conn-disc-yes" /\ Busy(r.dep) /\ after = r) => AllSafe(Refuse(after), b, r)
         /\ \A v, op : op \notin {"subscription", "refused"} /\ Renders(v, after) => AllSafe({Did("send", v, after, op)}, b, r)
<1>1. \A op : op # "subscription" /\ r \in Rows => Gone(r, after, op) \cap Asked = {}
  BY NothingGone
<1>2. \A v, op : /\ Renders(v, after) /\ v.holds # "secret" /\ op \notin {"subscription", "refused"}
                 => AllSafe({Did("edit", v, after, op)}, b, r)
  BY <1>1 DEF AllSafe, Safe, Did
<1>3. \A v, op : Renders(v, after) /\ op \notin {"subscription", "refused"} => AllSafe({Did("send", v, after, op)}, b, r)
  BY <1>1 DEF AllSafe, Safe, Did
<1>4. AllSafe(Toast(after), b, r)
  BY <1>1 DEF AllSafe, Safe, Did, Toast
<1>5. ~Accepts(b, r) \/ (b = "conn-disc-yes" /\ Busy(r.dep) /\ after = r) => AllSafe(Refuse(after), b, r)
  BY <1>1 DEF AllSafe, Safe, BusyRefusal, Did, Refuse
<1> QED BY <1>2, <1>3, <1>4, <1>5 DEF Edit, Send

LEMMA Safely ==
  ASSUME NEW b, NEW r
  PROVE  /\ \A v : Renders(v, r) /\ v.holds # "secret" => AllSafe(Edit(v, r), b, r)
         /\ \A v : Renders(v, r) => AllSafe(Send(v, r), b, r)
         /\ AllSafe(Toast(r), b, r)
         /\ ~Accepts(b, r) \/ (b = "conn-disc-yes" /\ Busy(r.dep)) => AllSafe(Refuse(r), b, r)
         /\ AllSafe(Fails(r), b, r)
         /\ AllSafe({Did("gone", HomeView, r, "none")}, b, r)
         /\ \A v, op : op \notin {"subscription", "refused"} /\ Renders(v, r) => AllSafe({Did("send", v, r, op)}, b, r)
<1>1. r \in Rows => Keeps(r, r)
  BY KeepsSame
<1>2. Renders(BackView, r) /\ Renders(ConnectPrompt, r) /\ Renders(HomeView, r)
  BY PlainRender DEF PlainViews
<1>3. AllSafe(Toast(r), b, r) /\ AllSafe(Send(BackView, r), b, r) /\ AllSafe(Send(ConnectPrompt, r), b, r)
  BY <1>1, <1>2, SafelyChanged
<1>4. AllSafe(Fails(r), b, r)
  BY <1>3 DEF Fails, AllSafe
<1>5. AllSafe({Did("gone", HomeView, r, "none")}, b, r)
  <2>1. r \in Rows => Gone(r, r, "none") \cap Asked = {}
    BY <1>1, NothingGone
  <2> QED BY <1>2, <2>1 DEF AllSafe, Safe, Did
<1> QED BY <1>1, <1>4, <1>5, SafelyChanged

LEMMA DestroySafely ==
  ASSUME NEW b \in YesKeys, NEW r, NEW after, r \in Rows => after \in Rows, NEW v, Renders(v, after), NEW op, op # "refused"
  PROVE  /\ v.holds # "secret" => AllSafe({Did("edit", v, after, op)}, b, r) /\ AllSafe(Edit(v, after), b, r)
         /\ AllSafe({Did("send", v, after, op)}, b, r)
BY DEF AllSafe, Safe, Did, Edit

LEMMA QuestionSafely ==
  ASSUME NEW b, NEW r, NEW yes \in Buttons, NEW no \in Buttons, Accepts(b, r) => Accepts(yes, r) /\ Accepts(no, r)
  PROVE  AllSafe(Edit(Question(yes, no), r), b, r)
<1> DEFINE v == Question(yes, no)
<1>1. v.name = "confirm" /\ v.holds = "question" /\ v.keys = {yes, no} /\ v.protect \in BOOLEAN
  BY DEF Question, View
<1> HIDE DEF v
<1>2. ASSUME NEW d \in Edit(v, r) PROVE Safe(d, b, r)
  <2>1. d.how = "edit" /\ d.view = v /\ d.rows = r /\ d.op = "none"
    BY DEF Edit, Did
  <2>2. Asks(d, b, r)
    BY <1>1, <2>1 DEF Asks
  <2>3. r \in Rows => Gone(r, r, "none") \cap Asked = {}
    BY KeepsSame, NothingGone
  <2> QED BY <1>1, <2>1, <2>2, <2>3 DEF Safe
<1> QED BY <1>2 DEF AllSafe, v

LEMMA UnionSafe ==
  ASSUME NEW b, NEW r, NEW S, NEW T, AllSafe(S, b, r), AllSafe(T, b, r) PROVE AllSafe(S \cup T, b, r)
BY DEF AllSafe

LEMMA MenuSafe == ASSUME NEW b, NEW r PROVE AllSafe(MenuPress(b, r), b, r)
<1>1. \A v \in PlainViews : AllSafe(Edit(v, r), b, r) /\ AllSafe(Send(v, r), b, r)
  BY Safely, PlainRender
<1>2. AllSafe(Toast(r), b, r) /\ AllSafe({Did("gone", HomeView, r, "none")}, b, r) /\ AllSafe({}, b, r)
  BY Safely DEF AllSafe
<1>3. AllSafe({Did("gone", HomeView, r, "none")} \cup Toast(r), b, r)
  BY <1>2, UnionSafe
<1>4. {LoginView, StatusView, HelpIndex, HelpTopic, HomeView} \subseteq PlainViews
  BY DEF PlainViews
<1> QED BY <1>1, <1>2, <1>3, <1>4 DEF MenuPress

LEMMA RadarSafe == ASSUME NEW b, NEW r PROVE AllSafe(RadarPress(b, r), b, r)
<1>1. \A v \in PlainViews : AllSafe(Edit(v, r), b, r)
  BY Safely, PlainRender
<1>2. \A key \in {"map:isp", "map:tr", "map:ok", "map:city"} : AllSafe(Edit(MapStep(key), r), b, r)
  BY Safely, OtherRender
<1>3. {CleanIpView, HintView, CleanIpPicker, FlowView, CheckView, MapView} \subseteq PlainViews /\ AllSafe({}, b, r)
  BY DEF PlainViews, AllSafe
<1> QED BY <1>1, <1>2, <1>3 DEF RadarPress

LEMMA HoleSafe == ASSUME NEW b, NEW r PROVE AllSafe(HolePress(b, r), b, r)
<1>1. WhiteHoleView \in PlainViews /\ AllSafe({}, b, r)
  BY DEF PlainViews, AllSafe
<1>2. AllSafe(Edit(WhiteHoleView, r), b, r) /\ AllSafe(Send(WhiteHoleView, r), b, r) /\ AllSafe(Fails(r), b, r)
  BY <1>1, Safely, PlainRender
<1>3. AllSafe(Send(WhiteHoleView, r) \cup Fails(r), b, r)
      /\ AllSafe({Did("send", WhiteHoleView, r, "drop")} \cup Fails(r), b, r)
  <2>1. Renders(WhiteHoleView, r)
    BY <1>1, PlainRender
  <2>2. AllSafe({Did("send", WhiteHoleView, r, "drop")}, b, r)
    BY <2>1, Safely
  <2> QED BY <1>2, <2>2, UnionSafe
<1> QED BY <1>1, <1>2, <1>3 DEF HolePress

LEMMA OverviewSafe == ASSUME NEW b, NEW r PROVE AllSafe(OverviewPress(b, r), b, r)
<1>1. AllSafe(Edit(Overview(b), r), b, r) /\ AllSafe({}, b, r)
  BY Safely, OtherRender DEF AllSafe
<1>2. b = "roster" /\ ~admin => AllSafe(Refuse(r), b, r)
  BY Safely DEF Accepts
<1> QED BY <1>1, <1>2 DEF OverviewPress

LEMMA DnsSafe == ASSUME NEW b, NEW r PROVE AllSafe(DnsPress(b, r), b, r)
<1>1. \A v \in PlainViews : AllSafe(Edit(v, r), b, r) /\ AllSafe(Send(v, r), b, r)
  BY Safely, PlainRender
<1>3. \A s \in {"isp", "city", "run"} : AllSafe(Edit(DnsTest(s), r), b, r)
  BY Safely, OtherRender
<1>4. AllSafe(Edit(BuilderPicker(b, r), r), b, r)
  BY Safely, OtherRender
<1>5. \A kind \in {"dnsb:slip", "dnsb:master", "dnsb:white"} :
        AllSafe(Edit(BuilderCard(kind), r), b, r) /\ AllSafe(Edit(BuilderCard(kind), r) \cup Send(StandaloneConnect, r), b, r)
  <2>1. \A kind \in {"dnsb:slip", "dnsb:master", "dnsb:white"} : AllSafe(Edit(BuilderCard(kind), r), b, r)
    BY Safely, OtherRender
  <2>2. AllSafe(Send(StandaloneConnect, r), b, r)
    BY <1>1 DEF PlainViews
  <2> QED BY <2>1, <2>2, UnionSafe
<1>6. {DnsCenter, DnsScanView, StandaloneConnect, BackView, FlowView, MasterConfig, Locked(WhiteConfig)} \subseteq PlainViews
      /\ AllSafe({}, b, r)
  BY DEF PlainViews, AllSafe
<1>7. AllSafe(Send(Locked(WhiteConfig), r) \cup Send(StandaloneConnect, r), b, r)
      /\ AllSafe(Send(BackView, r) \cup Send(StandaloneConnect, r), b, r)
  BY <1>1, <1>6, UnionSafe
<1> QED BY <1>1, <1>3, <1>4, <1>5, <1>6, <1>7 DEF DnsPress

LEMMA OmniSafe == ASSUME NEW b, NEW r PROVE AllSafe(OmniPress(b, r), b, r)
<1>1. \A v \in PlainViews : AllSafe(Edit(v, r), b, r) /\ AllSafe(Send(v, r), b, r)
  BY Safely, PlainRender
<1>2. \A v \in SecretViews : AllSafe(Send(v, r), b, r)
  BY Safely, PlainRender
<1>3. {HomeView, OmniConnect, Locked(FlowView)} \subseteq PlainViews
      /\ {View("node", OmniNode, "secret"), View("password", {"kaveh:users", "omni:home"}, "secret"),
          View("vip", OmniNode, "secret")} \subseteq SecretViews
      /\ AllSafe({}, b, r)
  BY DEF PlainViews, SecretViews, AllSafe
<1>4. AllSafe(Edit(OmniHome(r), r), b, r)
  BY Safely, RowsRender
<1>5. /\ AllSafe(Send(View("node", OmniNode, "secret"), [r EXCEPT !.node = TRUE]), b, r)
      /\ AllSafe(Send(HomeView, [r EXCEPT !.node = FALSE]), b, r)
  <2>1. ASSUME NEW there \in BOOLEAN, r \in Rows
        PROVE  [r EXCEPT !.node = there] \in Rows /\ Keeps(r, [r EXCEPT !.node = there])
    <3>1. r.conns \in Nat
      BY <2>1, ChatAssumption DEF Rows
    <3> QED BY <2>1, <3>1 DEF Rows, Keeps
  <2>2. \A q : Renders(View("node", OmniNode, "secret"), q) /\ Renders(HomeView, q)
    BY <1>3, PlainRender
  <2> QED BY <2>1, <2>2, SafelyChanged
<1>6. AllSafe(Send(View("node", OmniNode, "secret"), [r EXCEPT !.node = TRUE]) \cup Send(HomeView, r)
                \cup Send(OmniConnect, r), b, r)
  <2>1. AllSafe(Send(View("node", OmniNode, "secret"), [r EXCEPT !.node = TRUE]) \cup Send(HomeView, r), b, r)
    BY <1>1, <1>3, <1>5, UnionSafe
  <2> QED BY <1>1, <1>3, <2>1, UnionSafe
<1>7. \A v \in SecretViews : AllSafe(Send(v, r) \cup Send(HomeView, r), b, r)
  BY <1>1, <1>2, <1>3, UnionSafe
<1>8. AllSafe(Send(Plain("users", OmniNode), r) \cup Send(HomeView, r), b, r)
  <2>1. AllSafe(Send(Plain("users", OmniNode), r), b, r)
    BY OtherRender, Safely
  <2> QED BY <1>1, <1>3, <2>1, UnionSafe
<1>9. AllSafe({Did("send", Locked(Plain("recovered", OmniNode)), r, "password")} \cup Send(HomeView, r), b, r)
  <2>1. Renders(Locked(Plain("recovered", OmniNode)), r)
    BY OtherRender
  <2>2. AllSafe({Did("send", Locked(Plain("recovered", OmniNode)), r, "password")}, b, r)
    BY <2>1, Safely
  <2> QED BY <1>1, <1>3, <2>2, UnionSafe
<1>10. AllSafe(Send(HomeView, [r EXCEPT !.node = FALSE]) \cup Send(HomeView, r), b, r)
  BY <1>1, <1>3, <1>5, UnionSafe
<1>11. AllSafe({Did("send", View("password", {"kaveh:users", "omni:home"}, "secret"), r, "password")}
                 \cup Send(HomeView, r), b, r)
  <2>1. Renders(View("password", {"kaveh:users", "omni:home"}, "secret"), r)
    BY <1>3, PlainRender
  <2>2. AllSafe({Did("send", View("password", {"kaveh:users", "omni:home"}, "secret"), r, "password")}, b, r)
    BY <2>1, Safely
  <2> QED BY <1>1, <1>3, <2>2, UnionSafe
<1> QED BY <1>1, <1>3, <1>4, <1>6, <1>7, <1>8, <1>9, <1>10, <1>11 DEF OmniPress

LEMMA ConnSafe == ASSUME NEW b, NEW r, r \in Rows PROVE AllSafe(ConnPress(b, r), b, r)
<1>1. /\ AllSafe(Edit(ConnsList(r), r), b, r) /\ AllSafe(Edit(ConnectPrompt, r), b, r) /\ AllSafe(Toast(r), b, r)
      /\ AllSafe(Fails(r), b, r) /\ AllSafe({}, b, r)
  BY Safely, RowsRender, PlainRender DEF PlainViews, AllSafe
<1>2. b = "conn-disc" => AllSafe(Edit(Question("conn-disc-yes", "conns"), r), b, r)
  <2>1. {"conn-disc-yes", "conns"} \subseteq Buttons /\ Accepts("conns", r)
    BY DEF Buttons, ConnButtons, Accepts
  <2>2. Accepts("conn-disc", r) => Accepts("conn-disc-yes", r)
    BY DEF Accepts
  <2> QED BY <2>1, <2>2, QuestionSafely
<1>3. b = "conn-disc-yes" /\ r.conns # 0 =>
        AllSafe(Edit(ConnsList([r EXCEPT !.conns = r.conns - 1]), [r EXCEPT !.conns = r.conns - 1])
                  \cup Fails(r) \cup IF Busy(r.dep) THEN Refuse(r) ELSE {}, b, r)
  <2> SUFFICES ASSUME b = "conn-disc-yes", r.conns # 0
               PROVE  AllSafe(Edit(ConnsList([r EXCEPT !.conns = r.conns - 1]), [r EXCEPT !.conns = r.conns - 1])
                                \cup Fails(r) \cup IF Busy(r.dep) THEN Refuse(r) ELSE {}, b, r)
    OBVIOUS
  <2>1. PICK after : after = [r EXCEPT !.conns = r.conns - 1]
    OBVIOUS
  <2>2. r.conns - 1 \in 0 .. MaxConns
    BY ChatAssumption DEF Rows
  <2>3. after \in Rows
    BY <2>1, <2>2 DEF Rows
  <2>4. Renders(ConnsList(after), after) /\ ConnsList(after).holds # "secret" /\ b \in YesKeys
    BY RowsRender DEF YesKeys
  <2>5. AllSafe(Edit(ConnsList(after), after), b, r)
    BY <2>3, <2>4, DestroySafely
  <2>6. AllSafe(IF Busy(r.dep) THEN Refuse(r) ELSE {}, b, r)
    BY <1>1, Safely
  <2>7. AllSafe(Edit(ConnsList(after), after) \cup Fails(r), b, r)
    BY <1>1, <2>5, UnionSafe
  <2> QED BY <2>1, <2>6, <2>7, UnionSafe
<1>4. b = "conn-disc-yes" /\ r.conns = 0 => AllSafe(Refuse(r), b, r)
  BY Safely DEF Accepts
<1> QED BY <1>1, <1>2, <1>3, <1>4 DEF ConnPress

LEMMA DonationSafe == ASSUME NEW b, NEW r PROVE AllSafe(DonationPress(b, r), b, r)
<1>1. /\ AllSafe(Edit(DonationIntro, r), b, r) /\ AllSafe(Edit(FlowView, r), b, r) /\ AllSafe(Edit(DonationPool, r), b, r)
      /\ AllSafe(Edit(MyDonations(r), r), b, r) /\ AllSafe({}, b, r)
  BY Safely, DonationsRender, PlainRender DEF PlainViews, AllSafe
<1>2. ASSUME NEW status \in {"approved", "closed"}, r \in Rows
      PROVE  KeyAs(r, status) \in Rows /\ Keeps(r, KeyAs(r, status))
  <2>1. r.conns \in Nat
    BY <1>2, ChatAssumption DEF Rows
  <2> QED BY <1>2, <2>1 DEF KeyAs, Rows, Keeps
<1>3. AllSafe(Edit(MyDonations(KeyAs(r, "closed")), KeyAs(r, "closed")), b, r)
  BY <1>2, SafelyChanged, DonationsRender
<1>4. b \in {"donate:review", "donate:ok", "donate:no"} /\ ~admin => AllSafe(Refuse(r), b, r)
  BY Safely DEF Accepts
<1>5. ASSUME admin, NEW after \in {r, KeyAs(r, "approved"), KeyAs(r, "closed")}
      PROVE  AllSafe(Edit(DonationReview(after), after), b, r)
  BY <1>2, <1>5, KeepsSame, SafelyChanged, DonationsRender
<1>6. CASE b \in {"donate:review", "donate:ok", "donate:no"}
  <2>1. PICK after : after = CASE b = "donate:review" -> r [] b = "donate:ok" -> KeyAs(r, "approved")
                                [] b = "donate:no" -> KeyAs(r, "closed")
    OBVIOUS
  <2>2. after \in {r, KeyAs(r, "approved"), KeyAs(r, "closed")}
    BY <1>6, <2>1
  <2>3. DonationPress(b, r) = IF admin THEN Edit(DonationReview(after), after) ELSE Refuse(r)
    BY <1>6, <2>1 DEF DonationPress
  <2> QED BY <1>4, <1>5, <1>6, <2>2, <2>3
<1>7. CASE b \notin {"donate:review", "donate:ok", "donate:no"}
  BY <1>1, <1>3, <1>7 DEF DonationPress
<1> QED BY <1>6, <1>7

LEMMA PanelSafe == ASSUME NEW b, NEW r PROVE AllSafe(PanelPress(b, r), b, r)
<1>1. /\ AllSafe(Edit(DepsList(r), r), b, r) /\ AllSafe(Edit(Catalog, r), b, r) /\ AllSafe(Edit(FlowView, r), b, r)
      /\ AllSafe(Toast(r), b, r) /\ AllSafe(Edit(ConnectPrompt, r), b, r) /\ AllSafe(Edit(VpsPicker, r), b, r)
      /\ AllSafe(Edit(Wizard, r), b, r) /\ AllSafe(Fails(r), b, r) /\ AllSafe(Send(ConnectPrompt, r), b, r)
      /\ AllSafe({}, b, r)
  BY Safely, RowsRender, PlainRender DEF PlainViews, AllSafe
<1>2. AllSafe(Edit(FlowView, r) \cup Toast(r), b, r) /\ AllSafe(Edit(Wizard, r) \cup Fails(r), b, r)
  BY <1>1, UnionSafe
<1>3. AllSafe(Send(Bootstrap, [r EXCEPT !.dep = "queued"]) \cup Send(ConnectPrompt, r)
                \cup Send(Plain("again", {"dep:new", "omni:home"}), r), b, r)
  <2>1. r \in Rows => [r EXCEPT !.dep = "queued"] \in Rows /\ Keeps(r, [r EXCEPT !.dep = "queued"])
    BY KeepsSame DEF Rows, Statuses, Keeps
  <2>2. \A q : Renders(Bootstrap, q)
    BY PlainRender DEF SecretViews
  <2>3. AllSafe(Send(Bootstrap, [r EXCEPT !.dep = "queued"]), b, r)
    BY <2>1, <2>2, SafelyChanged
  <2>4. AllSafe(Send(Plain("again", {"dep:new", "omni:home"}), r), b, r)
    BY OtherRender, Safely
  <2>5. AllSafe(Send(Bootstrap, [r EXCEPT !.dep = "queued"]) \cup Send(ConnectPrompt, r), b, r)
    BY <1>1, <2>3, UnionSafe
  <2> QED BY <2>4, <2>5, UnionSafe
<1>4. AllSafe(Edit(Question("pdel-yes", "deps"), r), b, r)
  <2>1. {"pdel-yes", "deps"} \subseteq Buttons /\ Accepts("pdel-yes", r) /\ Accepts("deps", r)
    BY DEF Buttons, PanelButtons, Accepts
  <2> QED BY <2>1, QuestionSafely
<1>5. b = "pdel-yes" => AllSafe(Edit(DepsList([r EXCEPT !.panel = FALSE]), [r EXCEPT !.panel = FALSE]), b, r)
  <2>1. PICK after : after = [r EXCEPT !.panel = FALSE]
    OBVIOUS
  <2>2. r \in Rows => after \in Rows
    BY <2>1 DEF Rows
  <2>3. b = "pdel-yes" => b \in YesKeys
    BY DEF YesKeys
  <2>4. b = "pdel-yes" => AllSafe(Edit(DepsList(after), after), b, r)
    BY <2>2, <2>3, RowsRender, DestroySafely
  <2> QED BY <2>1, <2>4
<1> QED BY <1>1, <1>2, <1>3, <1>4, <1>5 DEF PanelPress

LEMMA DepSafe == ASSUME NEW b, NEW r, r \in Rows PROVE AllSafe(DepPress(b, r), b, r)
<1>1. /\ AllSafe(Fails(r), b, r) /\ AllSafe(Send(Bootstrap, r), b, r) /\ AllSafe(Send(Subscriptions, r), b, r)
      /\ AllSafe({}, b, r)
  BY Safely, PlainRender DEF SecretViews, AllSafe
<1>2. r.dep # "none" => AllSafe(Edit(DepDetail(r), r), b, r) /\ AllSafe(Edit(DepDetail(r), r) \cup Fails(r), b, r)
  BY <1>1, Safely, RowsRender, UnionSafe
<1>3. ~Accepts(b, r) => AllSafe(Refuse(r), b, r)
  BY Safely
<1>4. AllSafe(Send(Bootstrap, r) \cup Fails(r), b, r)
  BY <1>1, UnionSafe
<1>5. {"dep", "dep-revoke-yes", "dep-del-yes", "dep-subrot-yes"} \subseteq Buttons
  BY DEF Buttons, DeployButtons
<1>6. b = "dep-revoke" => AllSafe(Edit(Question("dep-revoke-yes", "dep"), r), b, r)
  BY <1>5, QuestionSafely DEF Accepts
<1>7. b = "dep-del" => AllSafe(Edit(Question("dep-del-yes", "dep"), r), b, r)
  BY <1>5, QuestionSafely DEF Accepts, Deletable
<1>8. b = "dep-subrot" => AllSafe(Edit(Question("dep-subrot-yes", "dep"), r), b, r)
  BY <1>5, QuestionSafely DEF Accepts
<1>9. CASE b = "dep-revoke-yes"
  <2>1. CASE r.dep \in {"none", "revoking"}
    <3>1. DepPress(b, r) = Refuse(r) /\ ~Accepts(b, r)
      BY <1>9, <2>1 DEF DepPress, Accepts
    <3> QED BY <1>3, <3>1
  <2>2. CASE r.dep = "revoked"
    <3>1. DepPress(b, r) = Edit(DepDetail(r), r)
      BY <1>9, <2>2 DEF DepPress
    <3> QED BY <1>2, <2>2, <3>1
  <2>3. CASE r.dep \notin {"none", "revoking", "revoked"}
    <3>1. PICK after : after = [r EXCEPT !.dep = "revoking"]
      OBVIOUS
    <3>2. DepPress(b, r) = Edit(DepDetail(after), after) \cup Fails(r)
      BY <1>9, <2>3, <3>1 DEF DepPress
    <3>3. after \in Rows /\ after.dep # "none" /\ b \in YesKeys
      BY <1>9, <3>1 DEF Rows, Statuses, YesKeys
    <3>4. Renders(DepDetail(after), after) /\ DepDetail(after).holds # "secret"
      BY <3>3, RowsRender
    <3>5. AllSafe(Edit(DepDetail(after), after), b, r)
      BY <3>3, <3>4, DestroySafely
    <3> QED BY <1>1, <3>2, <3>5, UnionSafe
  <2> QED BY <2>1, <2>2, <2>3
<1>10. CASE b = "dep-del-yes"
  <2>1. CASE r.dep \notin Deletable
    <3>1. DepPress(b, r) = Refuse(r) /\ ~Accepts(b, r)
      BY <1>10, <2>1 DEF DepPress, Accepts
    <3> QED BY <1>3, <3>1
  <2>2. CASE r.dep \in Deletable
    <3>1. PICK after : after = [r EXCEPT !.dep = "none"]
      OBVIOUS
    <3>2. DepPress(b, r) = Edit(Plain("deleted", EnvMenu), after)
      BY <1>10, <2>2, <3>1 DEF DepPress
    <3>3. after \in Rows /\ b \in YesKeys
      BY <1>10, <3>1 DEF Rows, Statuses, YesKeys
    <3>4. Renders(Plain("deleted", EnvMenu), after) /\ Plain("deleted", EnvMenu).holds # "secret"
      BY OtherRender
    <3>5. AllSafe(Edit(Plain("deleted", EnvMenu), after), b, r)
      BY <3>3, <3>4, DestroySafely
    <3> QED BY <3>2, <3>5
  <2> QED BY <2>1, <2>2
<1>11. CASE b = "dep-subrot-yes"
  <2>1. Renders(Subscriptions, r) /\ b \in YesKeys
    BY <1>11, PlainRender DEF SecretViews, YesKeys
  <2>2. AllSafe({Did("send", Subscriptions, r, "subscription")}, b, r)
    BY <2>1, DestroySafely
  <2>3. AllSafe({Did("send", Subscriptions, r, "subscription")} \cup Fails(r), b, r)
    BY <1>1, <2>2, UnionSafe
  <2>4. r.dep # "ready" => ~Accepts(b, r)
    BY <1>11 DEF Accepts
  <2> QED BY <1>3, <1>11, <2>3, <2>4 DEF DepPress
<1>12. CASE b \in {"dep", "dep-retry", "dep-boot", "dep-subs"}
  <2>1. CASE b = "dep"
    <3>1. r.dep = "none" => ~Accepts(b, r)
      BY <2>1 DEF Accepts
    <3> QED BY <1>2, <1>3, <2>1, <3>1 DEF DepPress
  <2>2. CASE b = "dep-retry"
    <3>1. r.dep \notin {"agent_ready", "failed"} => ~Accepts(b, r)
      BY <2>2 DEF Accepts
    <3> QED BY <1>2, <1>3, <2>2, <3>1 DEF DepPress
  <2>3. CASE b = "dep-boot"
    <3>1. r.dep \notin {"queued", "preparing", "awaiting_agent", "failed"} => ~Accepts(b, r)
      BY <2>3 DEF Accepts
    <3> QED BY <1>3, <1>4, <2>3, <3>1 DEF DepPress
  <2>4. CASE b = "dep-subs"
    <3>1. r.dep # "ready" => ~Accepts(b, r)
      BY <2>4 DEF Accepts
    <3> QED BY <1>1, <1>3, <2>4, <3>1 DEF DepPress
  <2> QED BY <1>12, <2>1, <2>2, <2>3, <2>4
<1>13. CASE b \notin {"dep-revoke-yes", "dep-del-yes", "dep-subrot-yes", "dep", "dep-retry", "dep-boot", "dep-subs"}
  BY <1>1, <1>6, <1>7, <1>8, <1>13 DEF DepPress
<1> QED BY <1>9, <1>10, <1>11, <1>12, <1>13

LEMMA PressSafe == ASSUME NEW b, NEW r, r \in Rows, NEW d \in Press(b, r) PROVE Safe(d, b, r)
BY MenuSafe, OmniSafe, PanelSafe, DepSafe, ConnSafe, RadarSafe, HoleSafe, DonationSafe, OverviewSafe, DnsSafe
DEF Press, AllSafe

-----------------------------------------------------------------------------
(* Chat: the message pressed next, and the theorems.                        *)

MessageOK(m, r) ==
  /\ m = Message(m.view, m.protected, m.fresh) /\ m.protected \in BOOLEAN /\ m.fresh \in BOOLEAN
  /\ m.view.keys \subseteq Buttons
  /\ \A k \in m.view.keys : k \in YesKeys => m.view.name = "confirm"
  /\ m.view.holds = "secret" => m.protected
  /\ m.fresh => \A k \in m.view.keys : Accepts(k, r)
ChatInv ==
  /\ rows \in Rows /\ MessageOK(msg, rows)
  /\ DestroyedAfterQuestion /\ OfferedIsAccepted

\* What is delivered of a safe press is a message that fits the rows.
LEMMA DeliveredOK ==
  ASSUME ChatInv, NEW b \in msg.view.keys, NEW d, Safe(d, b, rows), NEW m \in Delivered(d), m # msg
  PROVE  MessageOK(m, d.rows)
<1>1. d.how \in {"edit", "send", "gone"}
  BY DEF Safe, Delivered
<1>2. Renders(d.view, d.rows) \/ Asks(d, b, rows)
  BY <1>1 DEF Safe
<1>3. PICK p : /\ m = Message(d.view, p, Fresh(d.view)) /\ p \in BOOLEAN
               /\ d.view.holds = "secret" => p
  <2>1. CASE d.how = "edit"
    <3>1. m \in {Message(d.view, msg.protected, Fresh(d.view))} \cup Sent(d.view)
      BY <2>1 DEF Delivered
    <3> QED BY <1>2, <2>1, <3>1 DEF Sent, PlainPayload, Safe, Renders, Asks, ChatInv, MessageOK
  <2>2. CASE d.how \in {"send", "gone"}
    <3>1. m \in Sent(d.view)
      BY <2>2 DEF Delivered
    <3> QED BY <1>2, <3>1 DEF Sent, PlainPayload, Renders, Asks
  <2> QED BY <1>1, <2>1, <2>2
<1>4. m.view = d.view /\ m.protected = p /\ m.fresh = Fresh(d.view)
  BY <1>3 DEF Message
<1>5. Fresh(d.view) \in BOOLEAN
  BY DEF Fresh, ChatInv, MessageOK
<1>6. CASE Renders(d.view, d.rows)
  BY <1>3, <1>4, <1>5, <1>6 DEF Renders, MessageOK
<1>7. CASE Asks(d, b, rows)
  <2>1. Fresh(d.view) => Accepts(b, rows)
    BY <1>7 DEF Asks, Fresh, ChatInv, MessageOK
  <2> QED BY <1>3, <1>4, <1>5, <1>7, <2>1 DEF Asks, MessageOK
<1> QED BY <1>2, <1>6, <1>7

LEMMA PressKeeps ==
  ASSUME ChatInv, NEW b \in msg.view.keys, PressButton(b) PROVE ChatInv'
<1>1. PICK d \in Press(b, rows) :
        /\ rows' = d.rows /\ did' = Deed(b, d) /\ admin' = admin
        /\ \E m \in Delivered(d) : msg' = [m EXCEPT !.fresh = m.fresh /\ (m # msg \/ rows' = rows)]
  BY DEF PressButton
<1>2. Safe(d, b, rows)
  BY <1>1, PressSafe DEF ChatInv
<1>3. PICK m \in Delivered(d) : msg' = [m EXCEPT !.fresh = m.fresh /\ (m # msg \/ rows' = rows)]
  BY <1>1
<1>4. m = msg \/ MessageOK(m, rows')
  BY <1>1, <1>2, DeliveredOK
<1>5. /\ m = Message(m.view, m.protected, m.fresh) /\ m.protected \in BOOLEAN /\ m.fresh \in BOOLEAN
      /\ m.view.keys \subseteq Buttons
      /\ \A k \in m.view.keys : k \in YesKeys => m.view.name = "confirm"
      /\ m.view.holds = "secret" => m.protected
      /\ m.fresh /\ (m # msg \/ rows' = rows) => \A k \in m.view.keys : Accepts(k, rows')
  BY <1>4 DEF MessageOK, ChatInv
<1>6. /\ msg' = Message(m.view, m.protected, m.fresh /\ (m # msg \/ rows' = rows))
      /\ msg'.view = m.view /\ msg'.protected = m.protected /\ msg'.fresh = (m.fresh /\ (m # msg \/ rows' = rows))
  BY <1>3, <1>5 DEF Message
<1>7. \A k \in m.view.keys : Accepts(k, rows') => Accepts(k, rows)'
  BY <1>1 DEF Accepts
<1>8. MessageOK(msg, rows)'
  BY <1>5, <1>6, <1>7 DEF MessageOK
<1>9. rows' \in Rows
  BY <1>1, <1>2 DEF Safe, ChatInv
<1>10. DestroyedAfterQuestion' /\ OfferedIsAccepted'
  <2>1. Gone(rows, d.rows, d.op) \cap Asked # {} => msg.view.name = "confirm"
    BY <1>2 DEF Safe, ChatInv, MessageOK
  <2>2. d.op = "refused" => ~msg.fresh \/ (b = "conn-disc-yes" /\ Busy(rows.dep) /\ rows' = rows)
    BY <1>1, <1>2 DEF Safe, BusyRefusal, ChatInv, MessageOK
  <2>3. CASE d.op = "refused"
    <3>1. did' = [NoDeed EXCEPT !.refused = b, !.fresh = msg.fresh]
      BY <1>1, <2>3 DEF Deed
    <3>2. did'.gone = {} /\ did'.refused = b /\ did'.fresh = msg.fresh
      BY <3>1 DEF NoDeed
    <3>3. ~did'.fresh \/ (did'.refused = "conn-disc-yes" /\ Busy(rows'.dep))
      BY <2>2, <2>3, <3>2
    <3> QED BY <3>2, <3>3 DEF DestroyedAfterQuestion, OfferedIsAccepted, Busy
  <2>4. CASE d.op # "refused" /\ Gone(rows, d.rows, d.op) = {}
    BY <1>1, <2>4 DEF Deed, NoDeed, DestroyedAfterQuestion, OfferedIsAccepted
  <2>5. CASE d.op # "refused" /\ Gone(rows, d.rows, d.op) # {}
    <3>1. did' = [NoDeed EXCEPT !.gone = Gone(rows, d.rows, d.op), !.view = msg.view.name]
      BY <1>1, <2>5 DEF Deed
    <3>2. did'.gone = Gone(rows, d.rows, d.op) /\ did'.view = msg.view.name /\ did'.refused = "none"
      BY <3>1 DEF NoDeed
    <3> QED BY <2>1, <3>2 DEF DestroyedAfterQuestion, OfferedIsAccepted, Asked
  <2> QED BY <2>3, <2>4, <2>5
<1> QED BY <1>8, <1>9, <1>10 DEF ChatInv

LEMMA ChatStep == ASSUME ChatInv, [ChatNext]_chatVars PROVE ChatInv'
<1>1. CASE Say
  <2>1. PICK v \in Command : msg' = Message(v, v.protect, TRUE)
    BY <1>1 DEF Say
  <2>2. rows' = rows /\ did' = NoDeed /\ admin' = admin
    BY <1>1 DEF Say
  <2>3. Renders(v, rows)
    <3>1. CASE v \in {DonationIntro, Locked(Overview("health")), Locked(Overview("usage")), DepsList(rows), ConnsList(rows)}
      BY <3>1, DonationsRender, OtherRender, RowsRender
    <3>2. CASE v \in PlainViews
      BY <3>2, PlainRender
    <3> QED BY <3>1, <3>2 DEF Command, PlainViews
  <2>4. msg'.view = v /\ msg'.protected = v.protect /\ msg'.fresh = TRUE
    BY <2>1 DEF Message
  <2>5. \A k \in v.keys : Accepts(k, rows)'
    BY <2>2, <2>3 DEF Renders, Accepts
  <2>6. MessageOK(msg, rows)'
    BY <2>1, <2>3, <2>4, <2>5 DEF MessageOK, Renders
  <2> QED BY <2>2, <2>6 DEF ChatInv, NoDeed, DestroyedAfterQuestion, OfferedIsAccepted
<1>2. CASE Elsewhere
  <2>1. rows' \in Rows
    <3>1. CASE \E s \in Moves[rows.dep] : rows' = [rows EXCEPT !.dep = s]
      <4>1. rows \in Rows /\ rows.dep \in Statuses
        BY DEF ChatInv, Rows
      <4>2. Moves[rows.dep] \subseteq Statuses
        BY <4>1 DEF Moves, Statuses
      <4> QED BY <3>1, <4>1, <4>2 DEF Rows
    <3>2. CASE \E c \in {rows.conns - 1, rows.conns + 1} \cap (0..MaxConns) : rows' = [rows EXCEPT !.conns = c]
      BY <3>2 DEF ChatInv, Rows
    <3>3. CASE rows' = [rows EXCEPT !.panel = TRUE]
      BY <3>3 DEF ChatInv, Rows
    <3>4. CASE \E s \in {"none", "pending"} \ {rows.key} : rows' = [rows EXCEPT !.key = s]
      BY <3>4 DEF ChatInv, Rows
    <3> QED BY <1>2, <3>1, <3>2, <3>3, <3>4 DEF Elsewhere
  <2>2. msg' = [msg EXCEPT !.fresh = FALSE] /\ did' = NoDeed
    BY <1>2 DEF Elsewhere
  <2>3. msg' = Message(msg.view, msg.protected, FALSE)
    BY <2>2 DEF ChatInv, MessageOK, Message
  <2>4. msg'.view = msg.view /\ msg'.protected = msg.protected /\ msg'.fresh = FALSE
    BY <2>3 DEF Message
  <2>5. MessageOK(msg, rows)'
    BY <2>3, <2>4 DEF MessageOK, ChatInv
  <2> QED BY <2>1, <2>2, <2>5 DEF ChatInv, NoDeed, DestroyedAfterQuestion, OfferedIsAccepted
<1>3. CASE \E b \in msg.view.keys : PressButton(b)
  BY <1>3, PressKeeps
<1>4. CASE UNCHANGED chatVars
  BY <1>4 DEF chatVars, ChatInv, MessageOK, Accepts, DestroyedAfterQuestion, OfferedIsAccepted, Busy
<1>5. CASE WhiteAnswer
  <2>1. PICK v \in {HomeView, FlowView, WhiteConfig, BuilderCard("dnsb:white")} : msg' = Message(v, v.protect, TRUE)
    BY <1>5 DEF WhiteAnswer
  <2>2. rows' = rows /\ did' = NoDeed /\ admin' = admin
    BY <1>5 DEF WhiteAnswer
  <2>3. Renders(v, rows)
    BY PlainRender, OtherRender DEF PlainViews
  <2>4. msg'.view = v /\ msg'.protected = v.protect /\ msg'.fresh = TRUE
    BY <2>1 DEF Message
  <2>5. \A k \in v.keys : Accepts(k, rows)'
    BY <2>2, <2>3 DEF Renders, Accepts
  <2>6. MessageOK(msg, rows)'
    BY <2>1, <2>3, <2>4, <2>5 DEF MessageOK, Renders
  <2> QED BY <2>2, <2>6 DEF ChatInv, NoDeed, DestroyedAfterQuestion, OfferedIsAccepted
<1> QED BY <1>1, <1>2, <1>3, <1>4, <1>5 DEF ChatNext

LEMMA ChatStart == ChatInit => ChatInv
<1> SUFFICES ASSUME ChatInit PROVE ChatInv
  OBVIOUS
<1>1. rows \in Rows
  BY ChatAssumption DEF ChatInit, Rows, Statuses
<1>2. Renders(HomeView, rows) /\ HomeView.holds # "secret"
  BY PlainRender DEF PlainViews
<1>3. msg = Message(HomeView, FALSE, TRUE) /\ msg.view = HomeView /\ msg.protected = FALSE /\ msg.fresh = TRUE
  BY DEF ChatInit, Message
<1>4. MessageOK(msg, rows)
  BY <1>2, <1>3 DEF MessageOK, Renders
<1> QED BY <1>1, <1>4 DEF ChatInv, ChatInit, NoDeed, DestroyedAfterQuestion, OfferedIsAccepted

\* Every button has a branch of the dispatch.
LEMMA EveryButtonTaken == ASSUME NEW b \in Buttons, NEW r, r \in Rows PROVE Press(b, r) # {}
<1>1. \A v, q : Edit(v, q) # {} /\ Send(v, q) # {} /\ Toast(q) # {} /\ Refuse(q) # {}
  BY DEF Edit, Send, Toast, Refuse
<1>2. b \in MenuButtons => MenuPress(b, r) # {}
  BY <1>1 DEF MenuButtons, MenuPress
<1>3. b \in OmniButtons => OmniPress(b, r) # {}
  <2>1. r.conns \in Nat
    BY ChatAssumption DEF Rows
  <2> QED BY <1>1, <2>1 DEF OmniButtons, OmniPress
<1>4. b \in PanelButtons => PanelPress(b, r) # {}
  BY <1>1 DEF PanelButtons, PanelPress
<1>5. b \in DeployButtons => DepPress(b, r) # {}
  BY <1>1 DEF DeployButtons, DepPress
<1>6. b \in ConnButtons => ConnPress(b, r) # {}
  BY <1>1 DEF ConnButtons, ConnPress
<1>7. b \in RadarButtons => RadarPress(b, r) # {}
  BY <1>1 DEF RadarButtons, RadarPress
<1>8. b \in HoleButtons => HolePress(b, r) # {}
  BY <1>1 DEF HoleButtons, HolePress
<1>9. b \in DonationButtons => DonationPress(b, r) # {}
  BY <1>1 DEF DonationButtons, DonationPress
<1>10. b \in OverviewButtons => OverviewPress(b, r) # {}
  BY <1>1 DEF OverviewButtons, OverviewPress
<1>11. b \in DnsButtons => DnsPress(b, r) # {}
  BY <1>1 DEF DnsButtons, DnsPress
<1> QED BY <1>2, <1>3, <1>4, <1>5, <1>6, <1>7, <1>8, <1>9, <1>10, <1>11 DEF Buttons, Press

(* No button of any message the bot leaves in the chat falls through the    *)
(* callback dispatch of src/telegram.ts to "this button is no longer        *)
(* valid", whatever the tenant's rows are by then.                          *)
THEOREM NoButtonIsDead == ChatSpec => []ChatTypeOK
<1>1. ChatInv /\ admin \in BOOLEAN /\ asks \in BOOLEAN => ChatTypeOK
  BY EveryButtonTaken DEF ChatInv, MessageOK, ChatTypeOK
<1>2. ChatInit => admin \in BOOLEAN /\ asks \in BOOLEAN
  BY ChatAssumption DEF ChatInit
<1>3. admin \in BOOLEAN /\ asks \in BOOLEAN /\ [ChatNext]_chatVars => (admin \in BOOLEAN /\ asks \in BOOLEAN)'
  BY DEF ChatNext, Say, WhiteAnswer, Elsewhere, PressButton, chatVars
<1> QED BY <1>1, <1>2, <1>3, ChatStart, ChatStep, PTL DEF ChatSpec

(* Bootstrap commands, subscription links, node passwords and VIP links are *)
(* only ever in protected messages: no edit puts one into an unprotected    *)
(* message, no plain copy drops the flag. Resolver configurations are not   *)
(* in it: the typed white list sends one unprotected.                       *)
THEOREM SecretsStayProtected == ChatSpec => []SecretsProtected
<1>1. ChatInv => SecretsProtected
  BY DEF ChatInv, MessageOK, SecretsProtected
<1> QED BY <1>1, ChatStart, ChatStep, PTL DEF ChatSpec

(* No press but the yes of a question takes away a deployment, a            *)
(* connection, a panel record or the subscription links, by any branch of   *)
(* the dispatch and however old the message pressed is. OMNI nodes, their   *)
(* passwords, drops and donated keys go at once.                            *)
THEOREM DestroyedOnlyWhenAsked == ChatSpec => []DestroyedAfterQuestion
<1>1. ChatInv => DestroyedAfterQuestion
  BY DEF ChatInv
<1> QED BY <1>1, ChatStart, ChatStep, PTL DEF ChatSpec

(* The buttons a view offers are those src/deployments.ts, src/oauth.ts and *)
(* the admin checks accept for the rows it was rendered from: a refusal     *)
(* means that the rows have changed since, or that a connection is          *)
(* disconnected while a deployment is under way.                            *)
THEOREM RefusedOnlyWhenStale == ChatSpec => []OfferedIsAccepted
<1>1. ChatInv => OfferedIsAccepted
  BY DEF ChatInv
<1> QED BY <1>1, ChatStart, ChatStep, PTL DEF ChatSpec

=============================================================================
