---------------------------- MODULE MCPanelAuth ----------------------------
(***************************************************************************)
(* Instances of PanelAuth for TLC.                                         *)
(***************************************************************************)
EXTENDS PanelAuth, TLC

Slots == Permutations(Req) \cup Permutations(Sess) \cup Permutations(Pw)

NoRequests == [k \in Kind |-> 0]

\* Four logins reach a ban; they race a setup, two changes of the password and
\* everything that ends a session.
Budget == [NoRequests EXCEPT !["setup"] = 1, !["login"] = 4, !["change"] = 1,
             !["adminReset"] = 1, !["revoke"] = 1, !["logout"] = 1, !["unban"] = 1]

\* Logins race the recovery code and the control plane's password.
ChangeBudget == [NoRequests EXCEPT !["login"] = 2, !["change"] = 1, !["recover"] = 1,
                   !["agentPassword"] = 1]
=============================================================================
