----------------------------- MODULE PanelAuth -----------------------------
(***************************************************************************)
(* Signing in to an omni-panel: the admin password and the sessions of     *)
(* omni-panel/src/api/auth.js, auth/session.js and api/agent.js, and the   *)
(* Guard Durable Object of auth/guard.js that limits login attempts.       *)
(*                                                                         *)
(* An action is what a handler does between two awaits: one statement or   *)
(* batch on D1, or one call of the Guard.  A Guard call is atomic: no      *)
(* other event is delivered to a Durable Object waiting for its storage.   *)
(* A password and its PBKDF2 hash are one value; an absent and an empty    *)
(* admin_hash are both NoPw, since every reader only tests its truth.      *)
(***************************************************************************)
EXTENDS Naturals, FiniteSets

CONSTANTS Pw, NoPw,     \* passwords; no admin_hash stored
          Subject,      \* user names a login may give
          Ip,           \* client addresses
          Sess,         \* session ids, each drawn at most once (bound)
          Req,          \* slots for requests in flight
          MaxAttempts,  \* MAX_LOGIN_ATTEMPTS
          MaxReq        \* bound: how often each kind of request is made

Kind == {"setup", "login", "change", "recover", "agentPassword", "adminReset",
         "revoke", "logout", "unban"}

ASSUME ConstantsAssumption ==
  /\ Pw # {} /\ NoPw \notin Pw /\ Subject # {} /\ Ip # {}
  /\ MaxAttempts \in Nat \ {0}
  /\ Req # {} /\ IsFiniteSet(Req)
  /\ MaxReq \in [Kind -> Nat]

VARIABLES
  hash,     \* settings.admin_hash
  sess,     \* sessions: life, subject; history: the password it was opened
            \* with, and whether that password changed meanwhile or a setup
            \* that had found none replaced it
  guard,    \* storage of the Guard objects, by object and address
  proc,     \* requests in flight
  issued    \* requests made so far, by kind (bound)

vars == <<hash, sess, guard, proc, issued>>

MaxStrikes == 3

\* The object and key a login counts in, and those an unban clears: the
\* object "login" holds the bare address, "guard" the key "login:<address>".
Cell == {"login", "guard"} \X Ip
LoginCell(ip) == <<"login", ip>>
UnbanCell(ip) == <<"guard", ip>>

\* rl: (count, and whether its window is over), strike:, ban:; history: the wrong
\* passwords that were verified since the count last started.
FreshCell == [count |-> 0, over |-> FALSE, strikes |-> 0, banned |-> FALSE, wrong |-> 0]

AnyIp == CHOOSE i \in Ip : TRUE
AnySubject == CHOOSE s \in Subject : TRUE
IdleProc == [pc |-> "idle", pw |-> NoPw, ip |-> AnyIp, raced |-> FALSE]

PC == {"idle", "setupWrite", "setupSession", "loginGuard", "loginVerify",
       "loginReset", "loginSession", "setHash", "wipe"}

SessRow == [st : {"none", "live", "expired", "gone"}, sub : Subject,
            pw : Pw \cup {NoPw}, raced : BOOLEAN]

TypeOK ==
  /\ hash \in Pw \cup {NoPw}
  /\ sess \in [Sess -> SessRow]
  /\ guard \in [Cell -> [count : Nat, over : BOOLEAN, strikes : 0..(MaxStrikes - 1),
                         banned : BOOLEAN, wrong : Nat]]
  /\ proc \in [Req -> [pc : PC, pw : Pw \cup {NoPw}, ip : Ip, raced : BOOLEAN]]
  /\ issued \in [Kind -> Nat]

Init ==
  /\ hash \in Pw \cup {NoPw}
  /\ sess = [s \in Sess |-> [st |-> "none", sub |-> AnySubject, pw |-> NoPw, raced |-> FALSE]]
  /\ guard = [c \in Cell |-> FreshCell]
  /\ proc = [r \in Req |-> IdleProc]
  /\ issued = [k \in Kind |-> 0]

At(r, l) == proc[r].pc = l
Go(r, l) == proc' = [proc EXCEPT ![r].pc = l]
Done(r) == proc' = [proc EXCEPT ![r] = IdleProc]

Begin(r, k) ==
  /\ At(r, "idle") /\ issued[k] < MaxReq[k]
  /\ issued' = [issued EXCEPT ![k] = @ + 1]

\* verifySession: the row is there and has not expired.
Live(s) == sess[s].st = "live"

\* createSession inserts a row with a random id.
CreateSession(r, sub) ==
  /\ \E s \in Sess :
       /\ sess[s].st = "none"
       /\ sess' = [sess EXCEPT ![s] = [st |-> "live", sub |-> sub, pw |-> proc[r].pw,
                                       raced |-> proc[r].raced]]
  /\ Done(r)
  /\ UNCHANGED <<hash, guard, issued>>

\* The rows a DELETE removes.
Delete(S) == sess' = [s \in Sess |-> IF s \in S /\ sess[s].st \in {"live", "expired"}
                                     THEN [sess[s] EXCEPT !.st = "gone"] ELSE sess[s]]

(***************************************************************************)
(* The Guard: hit counts an attempt in a window that starts with the first *)
(* one; a cell whose window is over starts a new one.                      *)
(***************************************************************************)
Counted(c) == IF guard[c].over THEN 1 ELSE guard[c].count + 1

\* Mutant: the attempt itself is not counted.
AllowedBefore(c) == ~guard[c].banned /\ Counted(c) <= MaxAttempts + 1

Allowed(c) == ~guard[c].banned /\ Counted(c) <= MaxAttempts

Hit(c) ==
  LET old == guard[c]
      strikes == old.strikes + 1
      next == [old EXCEPT !.count = Counted(c), !.over = FALSE,
                          !.wrong = IF Counted(c) = 1 THEN 0 ELSE @]
  IN  guard' = [guard EXCEPT ![c] =
        IF old.banned THEN old
        ELSE IF Allowed(c) THEN [next EXCEPT !.strikes = 0]
        ELSE [next EXCEPT !.strikes = IF strikes >= MaxStrikes THEN 0 ELSE strikes,
                          !.banned = strikes >= MaxStrikes]]

\* The window of a counting cell, or a ban, runs out.
WindowEnds(c) ==
  /\ guard[c].count > 0 /\ ~guard[c].over
  /\ guard' = [guard EXCEPT ![c].over = TRUE]
  /\ UNCHANGED <<hash, sess, proc, issued>>

BanEnds(c) ==
  /\ guard[c].banned
  /\ guard' = [guard EXCEPT ![c].banned = FALSE]
  /\ UNCHANGED <<hash, sess, proc, issued>>

(***************************************************************************)
(* POST /api/setup: allowed while no password is stored; the password is   *)
(* hashed (an await) before it is written.                                 *)
(***************************************************************************)
SetupRead(r) ==
  /\ Begin(r, "setup") /\ hash = NoPw
  /\ \E p \in Pw : proc' = [proc EXCEPT ![r] = [@ EXCEPT !.pc = "setupWrite", !.pw = p]]
  /\ UNCHANGED <<hash, sess, guard>>

\* Every request that already read the old password is overtaken by the new one.
Overtaken == {q \in Req : proc[q].pc \in {"setupSession", "loginGuard", "loginVerify",
                                          "loginReset", "loginSession"}}

Overtake(r, l) ==
  proc' = [q \in Req |-> IF q = r THEN [proc[q] EXCEPT !.pc = l]
                         ELSE IF q \in Overtaken THEN [proc[q] EXCEPT !.raced = TRUE]
                         ELSE proc[q]]

SetupWrite(r) ==
  /\ At(r, "setupWrite")
  /\ hash' = proc[r].pw
  /\ Overtake(r, "setupSession")
  /\ sess' = [s \in Sess |-> IF Live(s) /\ hash # NoPw
                           THEN [sess[s] EXCEPT !.raced = TRUE] ELSE sess[s]]
  /\ UNCHANGED <<guard, issued>>

SetupSession(r) ==
  /\ At(r, "setupSession")
  /\ \E sub \in Subject : CreateSession(r, sub)

(***************************************************************************)
(* POST /api/login: the stored hash is read first, then the Guard is asked,*)
(* then the password is verified against what was read.                    *)
(***************************************************************************)
LoginRead(r) ==
  /\ Begin(r, "login") /\ hash # NoPw
  /\ \E ip \in Ip : proc' = [proc EXCEPT ![r] = [@ EXCEPT !.pc = "loginGuard", !.pw = hash,
                                                         !.ip = ip]]
  /\ UNCHANGED <<hash, sess, guard>>

LoginGuard(r) ==
  LET c == LoginCell(proc[r].ip)
  IN  /\ At(r, "loginGuard")
      /\ Hit(c)
      /\ IF Allowed(c) THEN Go(r, "loginVerify") ELSE Done(r)
      /\ UNCHANGED <<hash, sess, issued>>

LoginVerify(r) ==
  /\ At(r, "loginVerify")
  /\ \/ Go(r, "loginReset") /\ UNCHANGED guard
     \/ Done(r) /\ guard' = [guard EXCEPT ![LoginCell(proc[r].ip)].wrong = @ + 1]
  /\ UNCHANGED <<hash, sess, issued>>

\* guard/reset deletes the counter; strikes and a ban stay.
LoginReset(r) ==
  /\ At(r, "loginReset")
  /\ guard' = [guard EXCEPT ![LoginCell(proc[r].ip)] = [@ EXCEPT !.count = 0, !.over = FALSE,
                                                                    !.wrong = 0]]
  /\ Go(r, "loginSession")
  /\ UNCHANGED <<hash, sess, issued>>

LoginSession(r) ==
  /\ At(r, "loginSession")
  /\ \E sub \in Subject : CreateSession(r, sub)

(***************************************************************************)
(* The four ways to change the stored password: a signed-in change, the    *)
(* recovery code, a token issued by the control plane, and the reset that  *)
(* hands the panel back to first-run setup.  Each hashes (an await),       *)
(* writes the setting, then deletes every session.                         *)
(***************************************************************************)
ChangeCheck(r) ==
  /\ Begin(r, "change")
  /\ \E s \in Sess : Live(s)
  /\ hash # NoPw
  /\ \E p \in Pw : proc' = [proc EXCEPT ![r] = [@ EXCEPT !.pc = "setHash", !.pw = p]]
  /\ UNCHANGED <<hash, sess, guard>>

ForceCheck(r, k) ==
  /\ k \in {"recover", "agentPassword", "adminReset"} /\ Begin(r, k)
  /\ \E p \in IF k = "adminReset" THEN {NoPw} ELSE Pw :
       proc' = [proc EXCEPT ![r] = [@ EXCEPT !.pc = "setHash", !.pw = p]]
  /\ UNCHANGED <<hash, sess, guard>>

\* Mutant: the sessions are not deleted.
SetHashOnly(r) ==
  /\ At(r, "setHash")
  /\ hash' = proc[r].pw
  /\ Overtake(r, "idle")
  /\ UNCHANGED <<sess, guard, issued>>

SetHash(r) ==
  /\ At(r, "setHash")
  /\ hash' = proc[r].pw
  /\ Overtake(r, "wipe")
  /\ UNCHANGED <<sess, guard, issued>>

Wipe(r) ==
  /\ At(r, "wipe")
  /\ Delete(Sess)
  /\ Done(r)
  /\ UNCHANGED <<hash, guard, issued>>

(***************************************************************************)
(* Sessions end by logout, revocation (one, or all of the caller's subject *)
(* and every expired one), expiry and the maintenance purge.               *)
(***************************************************************************)
Expired == {s \in Sess : sess[s].st = "expired"}

Logout(r) ==
  /\ Begin(r, "logout")
  /\ \E s \in Sess : Live(s) /\ Delete({s})
  /\ UNCHANGED <<hash, guard, proc>>

RevokeSession(r) ==
  /\ Begin(r, "revoke")
  /\ \E s \in Sess :
       /\ Live(s)
       /\ \/ \E t \in Sess : Delete({t})
          \/ Delete({t \in Sess : sess[t].sub = sess[s].sub} \cup Expired)
  /\ UNCHANGED <<hash, guard, proc>>

Expire(s) ==
  /\ Live(s)
  /\ sess' = [sess EXCEPT ![s].st = "expired"]
  /\ UNCHANGED <<hash, guard, proc, issued>>

Purge ==
  /\ Expired # {}
  /\ Delete(Expired)
  /\ UNCHANGED <<hash, guard, proc, issued>>

\* POST /api/diag/unban, by somebody signed in.
Unban(r, ip) ==
  /\ Begin(r, "unban")
  /\ \E s \in Sess : Live(s)
  /\ guard' = [guard EXCEPT ![UnbanCell(ip)] = [@ EXCEPT !.count = 0, !.over = FALSE,
                                                      !.banned = FALSE]]
  /\ UNCHANGED <<hash, sess, proc>>

Step(r) ==
  \/ SetupRead(r) \/ SetupWrite(r) \/ SetupSession(r)
  \/ LoginRead(r) \/ LoginGuard(r) \/ LoginVerify(r) \/ LoginReset(r) \/ LoginSession(r)
  \/ ChangeCheck(r) \/ (\E k \in Kind : ForceCheck(r, k)) \/ SetHash(r) \/ Wipe(r)
  \/ Logout(r) \/ RevokeSession(r)
  \/ \E ip \in Ip : Unban(r, ip)

Next ==
  \/ \E r \in Req : Step(r)
  \/ \E c \in Cell : WindowEnds(c) \/ BanEnds(c)
  \/ \E s \in Sess : Expire(s)
  \/ Purge

Spec == Init /\ [][Next]_vars

(***************************************************************************)
(* Properties.                                                             *)
(***************************************************************************)

\* Once no password change is half done, a session that is accepted was
\* opened with the password that is stored, unless the password changed
\* while the login that opened it was in flight, or a setup that had found no
\* password stored its own over a later one: changePassword, recover,
\* adminPassword and adminReset leave no other session behind, in whatever
\* order they, logins, revocations and expiries meet.
OnlyOvertakenSurvive ==
  (\A r \in Req : ~At(r, "wipe")) =>
    \A s \in Sess : Live(s) /\ ~sess[s].raced => sess[s].pw = hash

\* What the Guard is for: between two starts of its counter (a new window, or
\* the reset after a good password) no more wrong passwords are verified for an
\* address than MAX_LOGIN_ATTEMPTS, plus the attempts that had passed the Guard
\* before the start and are still being verified.
GuessesBounded ==
  \A c \in Cell : guard[c].wrong <= MaxAttempts + Cardinality(Req) - 1

\* The claim of changePassword: "Every existing session is invalidated".
\* Once no password change is half done, every session that is accepted was
\* opened with the stored password.
SessionsAreCurrent ==
  (\A r \in Req : ~At(r, "wipe")) => \A s \in Sess : Live(s) => sess[s].pw = hash

\* "One-shot, then disabled": setup never replaces a stored password.
SetupNeverOverwrites ==
  [][\A r \in Req : SetupWrite(r) => hash = NoPw]_vars

\* "This is the way back in": after an unban of an address its login counter
\* is no longer banned.
UnbanLiftsBan ==
  [][\A r \in Req, ip \in Ip : Unban(r, ip) => ~guard'[LoginCell(ip)].banned]_vars
=============================================================================
