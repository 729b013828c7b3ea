------------------------------ MODULE MCDialogs ------------------------------
(***************************************************************************)
(* Values for the conversations with the bot: the sets of dialogs that     *)
(* meet, and a wizard of two text steps.                                   *)
(***************************************************************************)
EXTENDS Dialogs

DialogSessions == {{"wizard", "panel"}, {"wizard", "omni"}, {"map", "panel"},
                   {"rum", "pack", "dnstt", "donate", "white", "dnsrange"}}
WizardTexts == <<"workerName", "acmeEmail">>
=============================================================================
