------------------------------- MODULE OneTime -------------------------------
(***************************************************************************)
(* What a single-use token promises, whoever redeems it: it is marked used *)
(* once, and what it is good for is granted at most once, and only after   *)
(* it was marked.  The mark may be all that ever happens: the one who      *)
(* marked it can stop before the grant, and nobody grants it afterwards.   *)
(* Access implements it with login links and sessions, Gate with the       *)
(* update_ids of Telegram and the updates the bot acts on.                 *)
(***************************************************************************)
EXTENDS Naturals

CONSTANT Tokens

VARIABLES marked,   \* the tokens whose use is recorded
          grants    \* how often each token was honoured
onceVars == <<marked, grants>>

OnceInit ==
  /\ marked = {}
  /\ grants = [t \in Tokens |-> 0]

Mark(t) ==
  /\ t \notin marked
  /\ marked' = marked \union {t}
  /\ UNCHANGED grants

Grant(t) ==
  /\ t \in marked /\ grants[t] = 0
  /\ grants' = [grants EXCEPT ![t] = 1]
  /\ UNCHANGED marked

OnceNext == \E t \in Tokens : Mark(t) \/ Grant(t)
OnceSpec == OnceInit /\ [][OnceNext]_onceVars
=============================================================================
