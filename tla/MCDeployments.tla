--------------------------- MODULE MCDeployments ---------------------------
(***************************************************************************)
(* Instances of Deployments for TLC.  A budget says how often each kind of *)
(* request is made and how often a process or an answer is lost.           *)
(***************************************************************************)
EXTENDS Deployments, TLC

Slots == Permutations(Req) \cup Permutations(Wf)

\* One tenant, one zone, a site of its own for each deployment.
OneDepTenant == [d \in Dep |-> "t1"]
OneDepZone == [d \in Dep |-> "z1"]
OwnSite == [d \in Dep |-> d]
OneConnTenant == [c \in Conn |-> "t1"]
OneConnZone == [c \in Conn |-> "z1"]

NoRequests == [k \in Kind |-> 0]

\* Two completions of the bootstrap meet a new bootstrap token and a rotation
\* of the subscription.
RotationBudget == [NoRequests EXCEPT !["connect"] = 1, !["create"] = 1,
                     !["rotateBoot"] = 1, !["complete"] = 2, !["rotateSub"] = 1]

\* Two deployments share connections; c2 is bound to another zone.
OtherZone == [c \in Conn |-> IF c = "c2" THEN "z2" ELSE "z1"]
SharedBudget == [NoRequests EXCEPT !["connect"] = 2, !["create"] = 2, !["retry"] = 1,
                   !["lost"] = 1]

\* Everything, one request and one workflow at a time.
SerialBudget == [NoRequests EXCEPT !["connect"] = 2, !["create"] = 1, !["complete"] = 1,
                   !["rotateSub"] = 1, !["retry"] = 1, !["revoke"] = 1, !["delete"] = 1,
                   !["disconnect"] = 1, !["beacon"] = 1, !["lost"] = 2]

\* A deployment is revoked while it is still being prepared; processes are lost.
LiveBudget == [NoRequests EXCEPT !["connect"] = 1, !["create"] = 1, !["revoke"] = 1,
                 !["lost"] = 2]

\* A deployment is revoked, then deleted, while its workflows run.
DeleteBudget == [NoRequests EXCEPT !["connect"] = 1, !["create"] = 1, !["complete"] = 1,
                   !["revoke"] = 1, !["delete"] = 1]
=============================================================================
