------------------------------ MODULE Dialogs ------------------------------
(***************************************************************************)
(* The conversations of one Telegram user with the bot: the deployment     *)
(* wizard (src/telegram-wizard.ts, table telegram_wizards), the panel      *)
(* flows (src/panel-flows.ts, table telegram_flows) and the dispatch of    *)
(* texts and buttons to them in src/telegram.ts.                           *)
(*                                                                         *)
(* Telegram delivers updates over several connections, and a handler reads *)
(* its row, waits for D1, Telegram or Cloudflare, and writes the row back. *)
(* One handler may be overtaken by others between its read and its write,  *)
(* and between saving a firewall choice and showing the summary with it;   *)
(* the others run in one step.  Buttons of old messages stay in the chat,  *)
(* so every button can be pressed at any time.  What is typed is only      *)
(* valid or not valid for the step that takes it.                          *)
(*                                                                         *)
(* A row, a prompt or a summary is "late" when the handler that wrote or   *)
(* sent it was overtaken, and a row also until its summary is shown.       *)
(***************************************************************************)
EXTENDS Naturals, Sequences

CONSTANTS Sessions,      \* the sets of dialogs a user has open buttons for
          TextStep,      \* the wizard's first steps, each filling a field with a text: workerName,
                         \* workerHostname, nodeHostname, vpsIpv4 and acmeEmail, or fewer of them
          LaxBind,       \* saveWizard's seventh value for six placeholders is ignored
          MaxOvertake    \* bound: updates handled while one handler waits

WizStep == TextStep \o <<"realitySni", "ufw", "confirm">>
WizSteps == {WizStep[i] : i \in 1..Len(WizStep)}
TextFields == Len(TextStep)

\* The first step of each flow, the step after each one and those a button answers.
FirstOf == [rum |-> "rum:ping", map |-> "map:isp", donate |-> "donate:key", pack |-> "pack:domain",
            dnsrange |-> "dnsrange:cidr", white |-> "white:domains", dnstt |-> "dnstt:vps",
            omni |-> "omni:token"]
Dialog == DOMAIN FirstOf \cup {"wizard", "panel"}
After == [s \in {"rum:ping", "pack:domain", "dnstt:vps", "panel:token", "panel:name"} |->
            CASE s = "rum:ping" -> "rum:loss" [] s = "pack:domain" -> "pack:uuid"
              [] s = "dnstt:vps" -> "dnstt:domain" [] s = "panel:token" -> "panel:name"
              [] s = "panel:name" -> "panel:pass"]
ButtonOnly == {"map:isp", "map:transport", "map:verdict", "map:city"}
PanelSecret == {"panel:token", "panel:pass"}
PanelSteps == PanelSecret \cup {"panel:name"}
FlowSteps == {FirstOf[k] : k \in DOMAIN FirstOf} \cup DOMAIN After \cup {After[s] : s \in DOMAIN After}
               \cup ButtonOnly \cup {"map:rtt"}

\* The map's buttons: the step that shows them, the answer they add, the step after.
MapButton == [transport |-> <<"map:transport", "map:verdict">>, ok |-> <<"map:verdict", "map:city">>,
              city |-> <<"map:city", "map:rtt">>]
MapData == {"isp", "transport", "ok", "city"}

ASSUME DialogAssumption ==
  /\ LaxBind \in BOOLEAN /\ MaxOvertake \in Nat /\ Sessions \subseteq SUBSET Dialog
  /\ TextStep \in Seq({"workerName", "workerHostname", "nodeHostname", "vpsIpv4", "acmeEmail"}) \ {<<>>}
  /\ \A i, j \in DOMAIN TextStep : TextStep[i] = TextStep[j] => i = j

VARIABLES
  wizard,    \* the row of telegram_wizards
  flow,      \* the row of telegram_flows
  asked,     \* the step the last prompt asked for
  summary,   \* the wizard's data in the last summary shown since the wizard began
  slow,      \* the handler that waits between its read and its write
  started,   \* the dialogs of this session
  event      \* what the last step did wrong, in the sense of the properties

dialogVars == <<wizard, flow, asked, summary, slow, started, event>>

NoWizard == [step |-> "none", have |-> 0, sni |-> "none", ufw |-> "none", late |-> FALSE]
NoFlow == [step |-> "none", data |-> {}, whole |-> FALSE, late |-> FALSE]
Nothing == [at |-> "none", late |-> FALSE]
NotWaiting == [kind |-> "none", w |-> NoWizard, f |-> NoFlow, a |-> Nothing, s |-> NoWizard, n |-> 0]
WizardButton == {"sni", "ufw:yes", "ufw:no", "confirm"}
Kinds == {"text", "show"} \cup WizardButton \cup DOMAIN MapButton

WizardRow == [step : WizSteps \cup {"none"}, have : 0..TextFields, sni : {"none", "typed", "default"},
              ufw : {"none", "yes", "no"}, late : BOOLEAN]
FlowRow == [step : FlowSteps \cup {"none"}, data : SUBSET MapData, whole : BOOLEAN, late : BOOLEAN]
Prompt == [at : WizSteps \cup FlowSteps \cup {"none"}, late : BOOLEAN]

DialogTypeOK ==
  /\ \A i \in 1..TextFields : wizard.step = WizStep[i] => wizard.have = i - 1
  /\ wizard \in WizardRow /\ flow \in FlowRow /\ asked \in Prompt /\ summary \in WizardRow
  /\ slow.kind \in Kinds \cup {"none"} /\ slow.w \in WizardRow /\ slow.f \in FlowRow
  /\ slow.a \in Prompt /\ slow.s \in WizardRow /\ slow.n \in 0..MaxOvertake
  /\ started \in Sessions
  /\ event \in {"none", "token", "secret", "other", "changed", "unseen", "overtaken", "broken"}

DialogInit ==
  /\ wizard = NoWizard /\ flow = NoFlow /\ asked = Nothing /\ summary = NoWizard
  /\ slow = NotWaiting /\ started \in Sessions /\ event = "none"

AsksWizard(step, late) == asked' = [at |-> step, late |-> late]
AsksFlow(step, late) == asked' = [at |-> step, late |-> late]

-----------------------------------------------------------------------------
(* Commands and buttons that read no row.                                  *)

\* v13:dep-vps: a flow that is open stays open.
BeginDeployWizard ==
  /\ LaxBind
  /\ wizard' = [NoWizard EXCEPT !.step = WizStep[1]]
  /\ summary' = NoWizard /\ AsksWizard(WizStep[1], FALSE) /\ event' = "none"
  /\ UNCHANGED flow

\* The buttons and commands that open a flow leave an open wizard alone.
StartFlow(k) ==
  /\ flow' = [NoFlow EXCEPT !.step = FirstOf[k], !.whole = k = "map",
                            !.data = IF k = "rum" THEN {"city"} ELSE {}]
  /\ AsksFlow(FirstOf[k], FALSE) /\ event' = "none"
  /\ UNCHANGED <<wizard, summary>>

\* Mutant: an open wizard is not cleared.
PickPanelOnly ==
  /\ \E step \in {"panel:token", "panel:name"} :
       flow' = [NoFlow EXCEPT !.step = step] /\ AsksFlow(step, FALSE)
  /\ event' = "none" /\ UNCHANGED <<wizard, summary>>

\* v13:dep-panel: with a connection in the button the token step is left out.
PickPanel ==
  /\ wizard' = NoWizard
  /\ \E step \in {"panel:token", "panel:name"} :
       flow' = [NoFlow EXCEPT !.step = step] /\ AsksFlow(step, FALSE)
  /\ event' = "none" /\ UNCHANGED summary

\* v13:map:isp starts the report's data again, whatever flow is open.
PickIsp ==
  /\ flow' = [NoFlow EXCEPT !.step = "map:transport", !.data = {"isp"}, !.whole = TRUE]
  /\ AsksFlow("map:transport", FALSE) /\ event' = "none"
  /\ UNCHANGED <<wizard, summary>>

\* omni:home and the menu texts for home, deployments and connections.
ClearWizard ==
  /\ wizard' = NoWizard /\ asked' = Nothing /\ event' = "none"
  /\ UNCHANGED <<flow, summary>>

\* /cancel and wiz:cancel
CancelBoth ==
  /\ wizard' = NoWizard /\ flow' = NoFlow /\ asked' = Nothing /\ event' = "none"
  /\ UNCHANGED summary

\* v13:flow:cancel
CancelFlow ==
  /\ flow' = NoFlow /\ asked' = Nothing /\ event' = "none"
  /\ UNCHANGED <<wizard, summary>>

\* loadWizard and loadPanelFlow delete a row they find expired.
WizardExpires ==
  /\ wizard # NoWizard /\ wizard' = NoWizard /\ event' = "none"
  /\ UNCHANGED <<flow, asked, summary>>
FlowExpires ==
  /\ flow # NoFlow /\ flow' = NoFlow /\ event' = "none"
  /\ UNCHANGED <<wizard, asked, summary>>

-----------------------------------------------------------------------------
(* Handlers that read a row: w and f are the rows they read, a the prompt   *)
(* and s the summary the user had before them, late whether others ran past *)
(* them.                                                                    *)

\* A text that another step ("by") took than the one it was typed for: "none" as well
\* when the row that took it or the prompt is late, when a wizard left open takes the
\* answer of a later flow, and when the dialog of the last prompt has ended.
Taken(by, a, stale) ==
  LET crossed == by # a.at /\ a.at # "none" /\ ~stale /\ ~a.late
  IN  CASE crossed /\ by \in WizSteps /\ a.at \in PanelSecret -> "secret"
        [] crossed /\ by \in WizSteps /\ a.at = "omni:token" -> "token"
        [] crossed /\ (by \in WizSteps <=> a.at \in WizSteps) -> "other"
        [] OTHER -> "none"

\* The fields confirmSummary shows.
Shown(w, late) == [w EXCEPT !.step = "none", !.late = late]

\* What the step's validator says of a text.
Verdict == BOOLEAN

Index(step) == CHOOSE i \in 1..Len(WizStep) : WizStep[i] = step

\* saveWizard writes the whole row back, over whatever was written meanwhile.
SaveWizard(row, late) == wizard' = [row EXCEPT !.late = late]

\* processWizardText
WizardText(w, a, valid, late) ==
  LET next == WizStep[Index(w.step) + 1]
  IN  /\ event' = Taken(w.step, a, w.late)
      /\ IF w.step \in {"ufw", "confirm"} \/ ~valid
         THEN UNCHANGED wizard /\ AsksWizard(w.step, late)
         ELSE /\ SaveWizard([w EXCEPT !.step = next,
                                         !.have = IF w.have < TextFields THEN w.have + 1 ELSE w.have,
                                         !.sni = IF w.step = "realitySni" THEN "typed" ELSE w.sni], late)
              /\ AsksWizard(next, late)
      /\ summary' = IF w.step = "confirm" THEN Shown(w, late) ELSE summary
      /\ UNCHANGED flow

\* What the report of a finished map flow holds: answers that are missing are replaced
\* by defaults (another operator, another transport, not connected).
Reported(f) == IF f.whole /\ f.data # MapData THEN "broken" ELSE "none"

\* Steps with a successor are saved there, the others clear the row when their work is
\* done.  A text that is refused asks again, an unexpected error clears the row.
Proceed(f, out, late) ==
  CASE out = "refused" \/ f.step \in ButtonOnly -> UNCHANGED flow /\ AsksFlow(f.step, late)
    [] out = "valid" /\ f.step \in DOMAIN After ->
         /\ flow' = [f EXCEPT !.step = After[f.step], !.late = late]
         /\ AsksFlow(After[f.step], late)
    [] OTHER -> flow' = NoFlow /\ asked' = Nothing

\* processPanelFlowText
FlowText(f, a, out, late) ==
  /\ event' = IF f.step = "map:rtt" /\ out = "valid" THEN Reported(f) ELSE Taken(f.step, a, f.late)
  /\ Proceed(f, out, late)
  /\ UNCHANGED <<wizard, summary>>

\* handlePanelDeployText: a deployment that fails clears the wizard, not only the flow.
PanelDeployText(f, a, out, late) ==
  /\ event' = Taken(f.step, a, f.late)
  /\ Proceed(f, out, late)
  /\ wizard' = IF f.step = "panel:pass" /\ out = "error" THEN NoWizard ELSE wizard
  /\ UNCHANGED summary

\* The wizard takes a text before the flow does; without both it is answered or forwarded.
Text(w, f, a, late) ==
  IF w # NoWizard THEN \E valid \in Verdict : WizardText(w, a, valid, late)
  ELSE IF f = NoFlow THEN asked' = Nothing /\ event' = "none" /\ UNCHANGED <<wizard, flow, summary>>
  ELSE \E out \in {"valid", "refused", "error"} :
         IF f.step \in PanelSteps THEN PanelDeployText(f, a, out, late) ELSE FlowText(f, a, out, late)

\* wiz:sni-def, whatever step the wizard is at
ApplySniDefault(w, late) ==
  /\ IF w = NoWizard THEN UNCHANGED <<wizard, asked>>
     ELSE /\ SaveWizard([w EXCEPT !.sni = "default", !.step = "ufw"], late \/ w.late)
          /\ AsksWizard("ufw", late)
  /\ event' = "none" /\ UNCHANGED <<flow, summary>>

\* wiz:ufw:1 and wiz:ufw:0, whatever step the wizard is at, of a handler nothing comes
\* between.
Chosen(w, kind) == [w EXCEPT !.ufw = IF kind = "ufw:yes" THEN "yes" ELSE "no", !.step = "confirm"]

ShowSummary(w, late) == AsksWizard("confirm", late) /\ summary' = Shown(w, late)

ApplyUfwChoice(w, kind) ==
  /\ IF w = NoWizard THEN UNCHANGED <<wizard, asked, summary>>
     ELSE SaveWizard(Chosen(w, kind), FALSE) /\ ShowSummary(Chosen(w, kind), FALSE)
  /\ event' = "none" /\ UNCHANGED flow

Complete(w) == w.have = TextFields /\ w.sni # "none" /\ w.ufw # "none"

\* A deployment is created from w when s was the last summary shown.
Created(w, s) ==
  IF Shown(w, s.late) = s THEN "none"
  ELSE IF w.late \/ s.late THEN "overtaken"
  ELSE IF w.have = s.have /\ w.ufw = s.ufw THEN "changed" ELSE "unseen"

\* Mutant: the fields are not checked.
ConfirmUnchecked(w, s) ==
  /\ IF w = NoWizard THEN event' = "none" /\ UNCHANGED <<wizard, asked>>
     ELSE /\ wizard' = NoWizard /\ asked' = Nothing
          /\ event' = Created(w, s)
  /\ UNCHANGED <<flow, summary>>

\* wiz:confirm: the wizard is cleared in every case, what was saved meanwhile included.
Confirm(w, s) ==
  /\ IF w = NoWizard THEN event' = "none" /\ UNCHANGED <<wizard, asked>>
     ELSE /\ wizard' = NoWizard /\ asked' = Nothing
          /\ event' \in IF Complete(w) THEN {Created(w, s), "none"} ELSE {"none"}
  /\ UNCHANGED <<flow, summary>>

\* v13:map:tr, :ok and :city add their answer to the data of whatever flow is open.
AnswerMap(k, f, late) ==
  LET step == MapButton[k]
  IN  /\ flow' = [step |-> step[2], data |-> f.data \cup {k},
                  whole |-> f.whole /\ f.step = step[1] /\ ~late, late |-> late]
      /\ AsksFlow(step[2], late) /\ event' = "none"
      /\ UNCHANGED <<wizard, summary>>

Handle(kind, w, f, a, s, late) ==
  CASE kind = "text" -> Text(w, f, a, late)
    [] kind = "sni" -> ApplySniDefault(w, late)
    [] kind \in {"ufw:yes", "ufw:no"} -> ApplyUfwChoice(w, kind)
    [] kind = "confirm" -> Confirm(w, s)
    [] kind \in DOMAIN MapButton -> AnswerMap(kind, f, late)

-----------------------------------------------------------------------------
Offered == {"text"} \cup (IF "wizard" \in started THEN WizardButton ELSE {})
                    \cup (IF "map" \in started THEN DOMAIN MapButton ELSE {})

\* Only what the handler will use is kept of what it read.
Load(kind) ==
  /\ slow = NotWaiting /\ MaxOvertake > 0
  /\ slow' = [kind |-> kind, n |-> 0,
              w |-> IF kind \in DOMAIN MapButton THEN NoWizard ELSE wizard,
              f |-> IF kind \in DOMAIN MapButton \/ (kind = "text" /\ wizard = NoWizard)
                    THEN flow ELSE NoFlow,
              a |-> IF kind = "text" THEN asked ELSE Nothing,
              s |-> IF kind = "confirm" THEN summary ELSE NoWizard]
  /\ event' = "none" /\ UNCHANGED <<wizard, flow, asked, summary, started>>

\* applyUfwChoice saves the choice; the message is edited when D1 has answered.
SaveChoice ==
  /\ slow.kind \in {"ufw:yes", "ufw:no"} /\ slow.w # NoWizard
  /\ SaveWizard(Chosen(slow.w, slow.kind), TRUE)
  /\ slow' = [slow EXCEPT !.kind = "show", !.w = wizard']
  /\ event' = "none" /\ UNCHANGED <<flow, asked, summary, started>>

ShowChoice ==
  /\ slow.kind = "show"
  /\ ShowSummary(slow.w, slow.n > 0)
  /\ wizard' = IF slow.n = 0 THEN [wizard EXCEPT !.late = FALSE] ELSE wizard
  /\ slow' = NotWaiting /\ event' = "none" /\ UNCHANGED <<flow, started>>

Resume ==
  /\ slow # NotWaiting /\ slow.kind # "show"
  /\ slow.kind \in {"ufw:yes", "ufw:no"} => slow.w = NoWizard
  /\ Handle(slow.kind, slow.w, slow.f, slow.a, slow.s, slow.n > 0)
  /\ slow' = NotWaiting /\ UNCHANGED started

\* Everything else runs in one step, past a handler that waits.
Update ==
  \/ "wizard" \in started /\ BeginDeployWizard
  \/ "panel" \in started /\ PickPanel
  \/ "map" \in started /\ PickIsp
  \/ ClearWizard \/ CancelBoth \/ CancelFlow \/ WizardExpires \/ FlowExpires
  \/ \E k \in started \cap DOMAIN FirstOf : StartFlow(k)
  \/ \E kind \in Offered : Handle(kind, wizard, flow, asked, summary, FALSE)

Overtake ==
  /\ slow = NotWaiting \/ slow.n < MaxOvertake
  /\ Update
  /\ slow' = IF slow = NotWaiting THEN slow ELSE [slow EXCEPT !.n = slow.n + 1]
  /\ UNCHANGED started

DialogNext == Overtake \/ Resume \/ SaveChoice \/ ShowChoice \/ \E kind \in Offered : Load(kind)

DialogSpec == DialogInit /\ [][DialogNext]_dialogVars
-----------------------------------------------------------------------------
(* Every text is taken by the step that asked last: a panel's token or      *)
(* password never enters the wizard, which would store it as a plain field, *)
(* and a map report whose buttons were pressed in order holds what was      *)
(* pressed.  Excepted, of texts: one taken by a row, or asked for by a      *)
(* prompt, that an overtaken handler wrote last, and one that a wizard left *)
(* open when a flow was started, or a dialog older than one that has ended, *)
(* takes for another dialog than panel's.                                   *)
AnswersAsked == event \notin {"secret", "other", "broken"}

(* A deployment is created from fields and a firewall choice the last       *)
(* summary showed, whatever old buttons are pressed.  Excepted is one       *)
(* created while the row is written by an overtaken handler, or not shown   *)
(* yet, or after an overtaken handler showed its summary; what overlapped   *)
(* before the last firewall choice that was shown in order does no harm.    *)
ConfirmedWasShown == event # "unseen"

(* "Check and confirm" (confirmSummary): the deployment is the one shown,   *)
(* in every field and without exception.                                    *)
SummaryIsConfirmed == event \notin {"changed", "unseen", "overtaken"}

(* The token the bot asks for "right here" (omni:connect:chat) goes to the  *)
(* connection, never to the wizard.                                         *)
TokenReachesAsker == event # "token"
=============================================================================
