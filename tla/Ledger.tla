------------------------------- MODULE Ledger -------------------------------
(***************************************************************************)
(* Traffic accounting of an omni-panel: the bytes a tunnel counts          *)
(* (proxy/vless.js), the Ledger Durable Object that adds them up and       *)
(* flushes them to D1 (auth/guard.js), and the writers of the same user    *)
(* rows: the admin API (db/users.js, api/users.js) and the maintenance     *)
(* pass (core/maintenance.js).                                             *)
(*                                                                         *)
(* Bytes are counted in chunks; upload and download are one total, as in   *)
(* users.used_bytes.  A D1 batch is atomic, but a call may be rejected     *)
(* although it was committed.  The Durable Object runs one event at a time *)
(* and yields at every await of D1, so several flushes may be in flight.   *)
(***************************************************************************)
EXTENDS Integers, FiniteSets, FiniteSetsExt, Functions

CONSTANTS User, Tun,     \* user names; tunnels, each opened once (bound)
          Slot,          \* flushes in flight at once (bound)
          BatchStmts,    \* statements in one D1 batch (100)
          Interval,      \* FLUSH_INTERVAL_MS in ticks
          Quota,         \* quota_bytes of every user, in chunks
          Given,         \* values of used_bytes a request to create a user may name
          MaxUp, MaxDown,   \* bounds: chunks a tunnel sends up and down
          MaxFault,      \* bound: D1 batches that fail
          MaxAnswer,     \* bound: D1 batches that commit and whose answer is lost
          MaxLost,       \* bound: report calls that fail
          MaxCrash,      \* bound: evictions of the Durable Object
          MaxAdmin       \* bound: admin operations and maintenance passes

ASSUME ConstantsAssumption ==
  /\ User # {} /\ IsFiniteSet(User) /\ IsFiniteSet(Tun) /\ IsFiniteSet(Slot)
  /\ BatchStmts \in Nat /\ BatchStmts >= 2 /\ Given \subseteq Nat
  /\ Interval \in Nat \ {0} /\ Quota \in Nat
  /\ MaxUp \in Nat /\ MaxDown \in Nat /\ MaxFault \in Nat
  /\ MaxAnswer \in Nat /\ MaxLost \in Nat /\ MaxCrash \in Nat /\ MaxAdmin \in Nat

VARIABLES
  row,      \* users: presence, is_active, whether expires_at passed, used_bytes
  daily,    \* usage_daily, summed over all days, also those pruned after 90
  tun,      \* tunnels: user, state, counted chunks, write in flight, report
  dirty,    \* Ledger.dirty
  flight,   \* flush() calls waiting for D1
  timer,    \* ticks until flushTimer clears, 0 when it is null
  alarm,    \* ticks until the storage alarm, NoAlarm when none is set
  maint,    \* the maintenance pass: where it is and the users it found due
  relayed,  \* history: chunks really relayed, by user
  again,    \* history: chunks in D1 that a flush put back into the map
  gone,     \* history: chunks relayed and never to reach the map or D1
  base,     \* history: used_bytes less usage_daily when the row was created
  spent     \* faults, lost reports, crashes and admin operations so far (bound)

ledger == <<dirty, flight, timer, alarm>>
amounts == <<relayed, again, gone>>
vars == <<row, daily, tun, dirty, flight, timer, alarm, maint, relayed, again, gone, base, spent>>

NoAlarm == -1
NoBytes == [u \in User |-> 0]
NoFlush == [entries |-> NoBytes, rest |-> {}]
Policy == {"disable", "renew", "delete"}
Kind == {"fault", "answer", "lost", "crash", "admin"}

\* The map holds exactly the users with something to write: a tunnel only
\* reports when it counted at least one byte.
Keys(m) == {u \in User : m[u] > 0}
Plus(m, n) == [u \in User |-> m[u] + n[u]]

UsersPerBatch == BatchStmts \div 2

TypeOK ==
  /\ row \in [User -> [there : BOOLEAN, active : BOOLEAN, expired : BOOLEAN, used : Nat]]
  /\ daily \in [User -> Nat] /\ relayed \in [User -> Nat] /\ dirty \in [User -> Nat]
  /\ again \in [User -> Nat] /\ gone \in [User -> Nat] /\ base \in [User -> Int]
  /\ tun \in [Tun -> [pc : {"new", "open", "finished"}, user : User, up : Nat, down : Nat,
                      writing : BOOLEAN, count : Nat, report : Nat]]
  /\ flight \in [Slot -> [entries : [User -> Nat], rest : SUBSET User]]
  /\ timer \in 0..Interval /\ alarm \in NoAlarm..Interval
  /\ maint \in [pc : {"idle", "expiry", "flush"}, policy : Policy, due : SUBSET User]
  /\ spent \in [Kind -> Nat]

AnyUser == CHOOSE u \in User : TRUE

Init ==
  /\ row = [u \in User |-> [there |-> TRUE, active |-> TRUE, expired |-> FALSE, used |-> 0]]
  /\ daily = NoBytes /\ dirty = NoBytes
  /\ relayed = NoBytes /\ again = NoBytes /\ gone = NoBytes /\ base = NoBytes
  /\ tun = [t \in Tun |-> [pc |-> "new", user |-> AnyUser, up |-> 0, down |-> 0,
                           writing |-> FALSE, count |-> 0, report |-> 0]]
  /\ flight = [f \in Slot |-> NoFlush]
  /\ timer = 0 /\ alarm = NoAlarm
  /\ maint = [pc |-> "idle", policy |-> "disable", due |-> {}]
  /\ spent = [k \in Kind |-> 0]

Spend(k, max) == spent[k] < max /\ spent' = [spent EXCEPT ![k] = @ + 1]

\* Bytes the object holds for u: in the map, or taken by a flush and not yet
\* committed.
Taken(u) == [f \in Slot |-> IF u \in flight[f].rest THEN flight[f].entries[u] ELSE 0]
Held(u) == dirty[u] + SumFunction(Taken(u))

(***************************************************************************)
(* A tunnel.  A download chunk is counted when it is read and sent to the  *)
(* client, an upload chunk once its write to the upstream has returned.    *)
(***************************************************************************)

\* admit: is_active, not expired, quota left.
Admissible(u) == row[u].there /\ row[u].active /\ ~row[u].expired /\ row[u].used < Quota

\* getUserByUuid found a row; nothing else of it is looked at.
Open(t, u) ==
  /\ tun[t].pc = "new" /\ row[u].there
  /\ tun' = [tun EXCEPT ![t] = [tun[t] EXCEPT !.pc = "open", !.user = u]]
  /\ UNCHANGED <<row, daily, ledger, maint, amounts, base, spent>>

Download(t) ==
  /\ tun[t].pc = "open" /\ tun[t].down < MaxDown
  /\ tun' = [tun EXCEPT ![t] = [tun[t] EXCEPT !.down = tun[t].down + 1, !.count = tun[t].count + 1]]
  /\ relayed' = [relayed EXCEPT ![tun[t].user] = @ + 1]
  /\ UNCHANGED <<row, daily, ledger, maint, again, gone, base, spent>>

UploadStart(t) ==
  /\ tun[t].pc = "open" /\ ~tun[t].writing /\ tun[t].up < MaxUp
  /\ tun' = [tun EXCEPT ![t] = [tun[t] EXCEPT !.up = tun[t].up + 1, !.writing = TRUE]]
  /\ UNCHANGED <<row, daily, ledger, maint, amounts, base, spent>>

\* The write returns, maybe after finish sent the report: up is counted in a
\* variable nobody reads again.
UploadDone(t) ==
  /\ tun[t].writing
  /\ tun' = [tun EXCEPT ![t] = [tun[t] EXCEPT !.writing = FALSE, !.count = tun[t].count + 1]]
  /\ relayed' = [relayed EXCEPT ![tun[t].user] = @ + 1]
  /\ gone' = IF tun[t].pc = "open" THEN gone ELSE [gone EXCEPT ![tun[t].user] = @ + 1]
  /\ UNCHANGED <<row, daily, ledger, maint, again, base, spent>>

UploadFails(t) ==
  /\ tun[t].writing
  /\ tun' = [tun EXCEPT ![t].writing = FALSE]
  /\ UNCHANGED <<row, daily, ledger, maint, amounts, base, spent>>

\* Mutant: finish without its guard.
FinishAgain(t) ==
  /\ tun[t].pc # "new"
  /\ tun' = [tun EXCEPT ![t] = [tun[t] EXCEPT !.pc = "finished", !.report = tun[t].count]]
  /\ UNCHANGED <<row, daily, ledger, maint, amounts, base, spent>>

\* finish, from the close, abort, error or end-of-stream path: the first one
\* sends what was counted so far, if anything.
Finish(t) ==
  /\ tun[t].pc = "open"
  /\ tun' = [tun EXCEPT ![t] = [tun[t] EXCEPT !.pc = "finished", !.report = tun[t].count]]
  /\ UNCHANGED <<row, daily, ledger, maint, amounts, base, spent>>

\* .catch(() => {}) on the report call.
ReportLost(t) ==
  /\ tun[t].report > 0 /\ Spend("lost", MaxLost)
  /\ tun' = [tun EXCEPT ![t].report = 0]
  /\ gone' = [gone EXCEPT ![tun[t].user] = @ + tun[t].report]
  /\ UNCHANGED <<row, daily, ledger, maint, relayed, again, base>>

(***************************************************************************)
(* The Ledger object.                                                      *)
(***************************************************************************)

\* The synchronous start of flush, with m in the map: it takes everything.
\* A flush of an empty map returns without setting an alarm.
StartFlush(m) ==
  IF Keys(m) = {} THEN dirty' = m /\ UNCHANGED flight
  ELSE \E f \in Slot : /\ flight[f] = NoFlush
                       /\ flight' = [flight EXCEPT ![f] = [entries |-> m, rest |-> Keys(m)]]
                       /\ dirty' = NoBytes

\* report: add to the map; scheduleFlush starts the timer and a flush unless
\* the timer is running.
Report(t) ==
  LET m == [dirty EXCEPT ![tun[t].user] = @ + tun[t].report]
  IN  /\ tun[t].report > 0
      /\ tun' = [tun EXCEPT ![t].report = 0]
      /\ IF timer > 0 THEN dirty' = m /\ UNCHANGED <<flight, timer>>
         ELSE StartFlush(m) /\ timer' = Interval
      /\ UNCHANGED <<row, daily, alarm, maint, amounts, base, spent>>

\* The users of the next batch: two statements for each of them.
NextBatch(f) == kSubset(Min({UsersPerBatch, Cardinality(flight[f].rest)}), flight[f].rest)

\* Mutant: the upsert of usage_daily replaces the row instead of adding to it.
CommitReplaces(f, S) ==
  /\ daily' = [u \in User |-> IF u \in S THEN flight[f].entries[u] ELSE daily[u]]
  /\ row' = [u \in User |-> IF u \in S /\ row[u].there
                            THEN [row[u] EXCEPT !.used = @ + flight[f].entries[u]] ELSE row[u]]

\* D1 carries out a batch: used_bytes of the rows that exist, and usage_daily.
Commit(f, S) ==
  /\ daily' = [u \in User |-> daily[u] + (IF u \in S THEN flight[f].entries[u] ELSE 0)]
  /\ row' = [u \in User |-> IF u \in S /\ row[u].there
                            THEN [row[u] EXCEPT !.used = @ + flight[f].entries[u]] ELSE row[u]]

\* Mutant: a flush that succeeds sets no alarm.
FlushBatchSilent(f) ==
  /\ \E S \in NextBatch(f) :
       /\ S # {} /\ Commit(f, S)
       /\ flight' = [flight EXCEPT ![f] = IF flight[f].rest \subseteq S THEN NoFlush
                                          ELSE [flight[f] EXCEPT !.rest = flight[f].rest \ S]]
       /\ alarm' = alarm
  /\ UNCHANGED <<tun, dirty, timer, maint, amounts, base, spent>>

\* One batch is committed.  After the last one the next alarm is set.
FlushBatch(f) ==
  /\ \E S \in NextBatch(f) :
       /\ S # {} /\ Commit(f, S)
       /\ flight' = [flight EXCEPT ![f] = IF flight[f].rest \subseteq S THEN NoFlush
                                          ELSE [flight[f] EXCEPT !.rest = flight[f].rest \ S]]
       /\ alarm' = IF flight[f].rest \subseteq S THEN Interval ELSE alarm
  /\ UNCHANGED <<tun, dirty, timer, maint, amounts, base, spent>>

\* Mutant: a failed flush sets no alarm.
PutBackSilent(f, left) ==
  /\ dirty' = Plus(dirty, flight[f].entries)
  /\ flight' = [flight EXCEPT ![f] = NoFlush]
  /\ alarm' = alarm
  /\ again' = [u \in User |-> again[u] + (IF u \in left THEN 0 ELSE flight[f].entries[u])]

\* Mutant: the numbers of a failed batch are dropped.
PutBackDrops(f, left) ==
  /\ dirty' = dirty
  /\ flight' = [flight EXCEPT ![f] = NoFlush]
  /\ alarm' = Interval
  /\ again' = [u \in User |-> again[u] + (IF u \in left THEN 0 ELSE flight[f].entries[u])]

\* A batch was rejected: the numbers of all entries go back, also of those whose
\* batch was committed (all but left); the retry alarm is set and at once
\* replaced by the regular one.
PutBack(f, left) ==
  /\ dirty' = Plus(dirty, flight[f].entries)
  /\ flight' = [flight EXCEPT ![f] = NoFlush]
  /\ alarm' = Interval
  /\ again' = [u \in User |-> again[u] + (IF u \in left THEN 0 ELSE flight[f].entries[u])]

\* A batch fails and changes nothing in D1.
FlushFails(f) ==
  /\ flight[f] # NoFlush /\ Spend("fault", MaxFault)
  /\ PutBack(f, flight[f].rest)
  /\ UNCHANGED <<row, daily, tun, timer, maint, relayed, gone, base>>

\* A batch is committed and its answer is lost: the flush sees a rejected call.
FlushAnswerLost(f) ==
  /\ flight[f] # NoFlush /\ Spend("answer", MaxAnswer)
  /\ \E S \in NextBatch(f) : Commit(f, S) /\ PutBack(f, flight[f].rest \ S)
  /\ UNCHANGED <<tun, timer, maint, relayed, gone, base>>

Alarm ==
  /\ alarm = 0 /\ alarm' = NoAlarm
  /\ StartFlush(dirty)
  /\ UNCHANGED <<row, daily, tun, timer, maint, amounts, base, spent>>

\* Time passes: flushTimer clears, the alarm comes nearer.
Tick ==
  /\ timer > 0 \/ alarm > 0
  /\ timer' = IF timer > 0 THEN timer - 1 ELSE 0
  /\ alarm' = IF alarm > 0 THEN alarm - 1 ELSE alarm
  /\ UNCHANGED <<row, daily, tun, dirty, flight, maint, amounts, base, spent>>

\* The object is evicted: its memory is gone, the stored alarm is not.
Crash ==
  /\ Spend("crash", MaxCrash)
  /\ gone' = [u \in User |-> gone[u] + Held(u)]
  /\ dirty' = NoBytes /\ flight' = [f \in Slot |-> NoFlush] /\ timer' = 0
  /\ UNCHANGED <<row, daily, tun, alarm, maint, relayed, again, base>>

(***************************************************************************)
(* The other writers of the user rows.                                     *)
(***************************************************************************)
AdminWrite(u, new) ==
  /\ Spend("admin", MaxAdmin)
  /\ row' = [row EXCEPT ![u] = new]
  /\ UNCHANGED <<daily, tun, ledger, maint, amounts>>

\* The request names used_bytes, 0 by default, and is_active; the deadline lies
\* in the future or starts with the first connection.
CreateUser(u, n, b) ==
  /\ ~row[u].there
  /\ AdminWrite(u, [there |-> TRUE, active |-> b, expired |-> FALSE, used |-> n])
  /\ base' = [base EXCEPT ![u] = n - daily[u]]

DeleteUser(u) == row[u].there /\ AdminWrite(u, [row[u] EXCEPT !.there = FALSE]) /\ UNCHANGED base

\* updateUser and bulk enable or disable.
SetActive(u, b) == row[u].there /\ AdminWrite(u, [row[u] EXCEPT !.active = b]) /\ UNCHANGED base

\* Mutant: a reset gives back the quota instead of clearing what was used.
ResetTrafficCredits(u) ==
  row[u].there /\ AdminWrite(u, [row[u] EXCEPT !.used = @ - Quota]) /\ UNCHANGED base

\* api reset and bulk reset_traffic.
ResetTraffic(u) == row[u].there /\ AdminWrite(u, [row[u] EXCEPT !.used = 0]) /\ UNCHANGED base

\* updateUser with expiry_days counts from now; bulk extend adds to the old
\* deadline, which may still lie in the past.
Extend(u, b) == row[u].there /\ AdminWrite(u, [row[u] EXCEPT !.expired = b /\ @]) /\ UNCHANGED base

Expire(u) ==
  /\ row[u].there /\ ~row[u].expired
  /\ row' = [row EXCEPT ![u].expired = TRUE]
  /\ UNCHANGED <<daily, tun, ledger, maint, amounts, base, spent>>

\* runMaintenance: find the expired users, act on them, ask for a flush.
MaintSelect ==
  /\ maint.pc = "idle" /\ Spend("admin", MaxAdmin)
  /\ \E p \in Policy :
       maint' = [pc |-> "expiry", policy |-> p,
                 due |-> {u \in User : row[u].there /\ row[u].active /\ row[u].expired}]
  /\ UNCHANGED <<row, daily, tun, ledger, amounts, base>>

Maintained(u) ==
  CASE maint.policy = "disable" -> [row[u] EXCEPT !.active = FALSE]
    [] maint.policy = "renew"   -> [row[u] EXCEPT !.expired = FALSE, !.used = 0]
    [] maint.policy = "delete"  -> [row[u] EXCEPT !.there = FALSE]

\* One batch of at most BatchStmts updates, by the user names found before.
MaintExpiry ==
  /\ maint.pc = "expiry"
  /\ \E S \in kSubset(Min({BatchStmts, Cardinality(maint.due)}), maint.due) :
       /\ row' = [u \in User |-> IF u \in S /\ row[u].there THEN Maintained(u) ELSE row[u]]
       /\ maint' = [maint EXCEPT !.due = @ \ S, !.pc = IF maint.due \subseteq S THEN "flush" ELSE @]
  /\ UNCHANGED <<daily, tun, ledger, amounts, base, spent>>

MaintFlush ==
  /\ maint.pc = "flush"
  /\ StartFlush(dirty)
  /\ maint' = [maint EXCEPT !.pc = "idle"]
  /\ UNCHANGED <<row, daily, tun, timer, alarm, amounts, base, spent>>

Admin ==
  \/ \E u \in User, n \in Given, b \in BOOLEAN : CreateUser(u, n, b)
  \/ \E u \in User : DeleteUser(u) \/ ResetTraffic(u)
  \/ \E u \in User, b \in BOOLEAN : SetActive(u, b) \/ Extend(u, b)

Traffic(t) ==
  \/ \E u \in User : Open(t, u)
  \/ Download(t) \/ UploadStart(t) \/ UploadDone(t) \/ UploadFails(t)
  \/ Finish(t) \/ ReportLost(t) \/ Report(t)

Flush == \E f \in Slot : FlushBatch(f) \/ FlushFails(f) \/ FlushAnswerLost(f)

Next ==
  \/ \E t \in Tun : Traffic(t)
  \/ Flush \/ Alarm \/ Tick \/ Crash
  \/ Admin
  \/ \E u \in User : Expire(u)
  \/ MaintSelect \/ MaintExpiry \/ MaintFlush

\* A report reaches the object, D1 answers a batch, alarms fire and time
\* passes; a tunnel may stay open and an administrator may stay idle.
Fairness ==
  /\ WF_vars(Tick) /\ WF_vars(Alarm)
  /\ \A t \in Tun : WF_vars(Report(t))
  /\ \A f \in Slot : WF_vars(FlushBatch(f))

Spec == Init /\ [][Next]_vars
FairSpec == Spec /\ Fairness

(***************************************************************************)
(* Properties.                                                             *)
(***************************************************************************)

\* Bytes counted by tunnels of u and not yet handed to the object.
Counted(u) == [t \in Tun |-> IF tun[t].user # u THEN 0
                             ELSE IF tun[t].pc = "open" THEN tun[t].count ELSE tun[t].report]
Unreported(u) == SumFunction(Counted(u))

\* Every byte relayed is accounted for, through failed batches, lost answers and
\* reports, evictions, overlapping flushes, deletions and late writes: it is in
\* D1, in the object or still to be reported, once, but for the bytes in D1 that
\* a rejected batch put back into the map (again) and those of a lost report, of
\* an evicted object or of an upload that ends after its tunnel (gone).
Accounted ==
  \A u \in User : daily[u] + Held(u) + Unreported(u) + gone[u] = relayed[u] + again[u]

\* "The DO keeps exact per-user totals": nobody is charged for more than was
\* relayed.  What D1 has, what the object holds and what tunnels have still to
\* report never exceed it.
NeverOvercharged == \A u \in User : daily[u] + Held(u) + Unreported(u) <= relayed[u]

Settled ==
  /\ \A t \in Tun : tun[t].pc # "open" /\ ~tun[t].writing /\ tun[t].report = 0
  /\ \A u \in User : Held(u) = 0

\* "Every byte of every tunnel is reported here" and "nothing is lost when an
\* isolate dies": when no tunnel is open and the object holds nothing, D1 has
\* every byte that was relayed.
NothingLost == Settled => \A u \in User : daily[u] = relayed[u]

\* A user is never charged for more than the usage recorded for them since the
\* row was created with what the request said: resets, renewals, deletions and
\* new rows of the same name only ever lower used_bytes below it, also while
\* flushes of older traffic are in flight.  (An imported backup, which sets
\* used_bytes to any value, is not modelled.)
UsedWithinDaily == \A u \in User : row[u].there => row[u].used <= daily[u] + base[u]

\* Bytes in the map are on their way to D1: a flush is in flight, whose end
\* sets the alarm, or the alarm is set.  Otherwise they would wait for a later
\* report to start a flush, for as long as nobody sends one.
PendingIsScheduled ==
  (\E u \in User : dirty[u] > 0) => alarm # NoAlarm \/ \E f \in Slot : flight[f] # NoFlush

\* Everything reported is written: once tunnels stop reporting, the object
\* drains, although a flush that finds the map empty sets no alarm and a
\* failed batch puts its numbers back.
Drains == <>[](\A t \in Tun : tun[t].report = 0) => []<>(\A u \in User : Held(u) = 0)

\* "Admission control": a tunnel opens only for a user who is active, not
\* expired and below the quota.
OpensOnlyAdmissible ==
  [][\A t \in Tun, u \in User : Open(t, u) => Admissible(u)]_vars
=============================================================================
