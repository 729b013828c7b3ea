------------------------------ MODULE DnsScan ------------------------------
(***************************************************************************)
(* The resolver scans of one tenant: the range handler and the live tick   *)
(* chain of src/telegram.ts, runScanTick, scanDueRanges and                *)
(* stalledLiveScanRangeIds of src/dns-center.ts, and the cron stages of    *)
(* src/index.ts, all advancing one cursor per range by read and write.     *)
(*                                                                         *)
(* An action ends at an await another invocation can slip into: one D1     *)
(* statement or batch.  A wave is the unit of the cursor: the 16 addresses *)
(* a tick probes and stores at once (eight waves are a cron chunk).  Time  *)
(* is one bit per range, "quiet": last_scan_at is older than the threshold *)
(* (two minutes for a live range, thirty for the others).                  *)
(***************************************************************************)
EXTENDS Naturals, FiniteSets

CONSTANTS MaxRange,   \* bound: ranges the tenant submits
          Waves,      \* waves in a range
          Chunk,      \* waves a cron run takes of a range
          Handler,    \* slots for range messages being handled
          Ticks,      \* slots for tick invocations
          MaxFault    \* bound: killed invocations and lost answers

ASSUME DnsAssumption ==
  /\ {MaxRange, Waves, Chunk} \subseteq Nat \ {0} /\ MaxFault \in Nat
  /\ IsFiniteSet(Handler) /\ IsFiniteSet(Ticks)

RangeId == 1..MaxRange
Wave == 1..Waves
Many == 2     \* stored results of a wave are counted up to here

VARIABLES
  row,       \* dns_scan_ranges, in order of creation
  results,   \* dns_scan_results: rounds stored of each wave of a range
  msg,       \* range messages being handled
  tick,      \* invocations of advanceLiveScan
  cron,      \* the scheduled handler's dns_scan and live_scans stages
  card,      \* what the live message of a range shows, while the range is there
  next,      \* the next range id
  faults,    \* faults so far (bound)
  tainted    \* history: 0, 1 after a kill, 2 when something else disturbed the range's round

dnsVars == <<row, results, msg, tick, cron, card, next, faults, tainted>>

NoRow == [st |-> "absent", live |-> FALSE, cursor |-> 0, finished |-> FALSE, quiet |-> FALSE]
Fresh == [NoRow EXCEPT !.st = "here"]
NoResults == [w \in Wave |-> 0]
IdleMsg == [pc |-> "idle", old |-> {}, r |-> 0]
IdleTick == [pc |-> "idle", r |-> 0, at |-> 0]
IdleCron == [pc |-> "idle", due |-> {}, at |-> 0]

Here(r) == row[r].st = "here"

\* A range is disturbed, at a level: 1 by a killed invocation, 2 by another chain,
\* the cron, a purge or its replacement.
Taint(r, level) == [tainted EXCEPT ![r] = IF Here(r) /\ @ < level THEN level ELSE @]

\* The invocations working on a range.
OnRange(r) == {t \in Ticks : tick[t].pc # "idle" /\ tick[t].r = r}

DnsTypeOK ==
  /\ row \in [RangeId -> [st : {"absent", "here", "gone"}, live : BOOLEAN, cursor : 0..Waves,
                        finished : BOOLEAN, quiet : BOOLEAN]]
  /\ results \in [RangeId -> [Wave -> 0..Many]]
  /\ msg \in [Handler -> [pc : {"idle", "results", "range", "insert", "send", "live"},
                          old : SUBSET RangeId, r : 0..MaxRange]]
  /\ tick \in [Ticks -> [pc : {"idle", "start", "wipe", "loop", "mark", "finish", "summary", "chain"},
                        r : 0..MaxRange, at : 0..Waves]]
  /\ cron \in [pc : {"idle", "probe", "store", "purge", "live"},
               due : SUBSET [r : RangeId, cursor : 0..Waves], at : 0..Waves]
  /\ card \in [RangeId -> {"none", "progress", "error", "incomplete", "complete"}]
  /\ next \in 1..MaxRange + 1 /\ faults \in 0..MaxFault
  /\ tainted \in [RangeId -> 0..2]

DnsInit ==
  /\ row = [r \in RangeId |-> NoRow] /\ results = [r \in RangeId |-> NoResults]
  /\ msg = [h \in Handler |-> IdleMsg] /\ tick = [t \in Ticks |-> IdleTick]
  /\ cron = IdleCron /\ card = [r \in RangeId |-> "none"]
  /\ next = 1 /\ faults = 0 /\ tainted = [r \in RangeId |-> 0]

-----------------------------------------------------------------------------
(* The range message of the flow "dnsrange".                               *)

\* replaceScanRange: the ranges to delete are read first.
Submit(h) ==
  /\ msg[h].pc = "idle" /\ next <= MaxRange
  /\ next' = next + 1
  /\ LET old == {r \in RangeId : Here(r)}
     IN  msg' = [msg EXCEPT ![h] = [pc |-> IF old = {} THEN "insert" ELSE "results", old |-> old, r |-> next]]
  /\ UNCHANGED <<row, results, tick, cron, card, faults, tainted>>

\* The results of the oldest range of the list are deleted.
DeleteResults(h) ==
  /\ msg[h].pc = "results"
  /\ LET r == CHOOSE r \in msg[h].old : \A q \in msg[h].old : r <= q
     IN  /\ results' = [results EXCEPT ![r] = NoResults]
         /\ tainted' = Taint(r, 2)
  /\ msg' = [msg EXCEPT ![h].pc = "range"]
  /\ UNCHANGED <<row, tick, cron, card, next, faults>>

\* Then the range itself, and with it (ON DELETE CASCADE) the results stored since.
DeleteRange(h) ==
  /\ msg[h].pc = "range"
  /\ LET r == CHOOSE r \in msg[h].old : \A q \in msg[h].old : r <= q
         old == msg[h].old \ {r}
     IN  /\ row' = [row EXCEPT ![r] = [NoRow EXCEPT !.st = "gone"]]
         /\ results' = [results EXCEPT ![r] = NoResults]
         /\ tainted' = [tainted EXCEPT ![r] = 0] /\ card' = [card EXCEPT ![r] = "none"]
         /\ msg' = [msg EXCEPT ![h].old = old, ![h].pc = IF old = {} THEN "insert" ELSE "results"]
  /\ UNCHANGED <<tick, cron, next, faults>>

\* The new range has no live message yet.
Insert(h) ==
  /\ msg[h].pc = "insert"
  /\ row' = [row EXCEPT ![msg[h].r] = Fresh]
  /\ msg' = [msg EXCEPT ![h].pc = "send"]
  /\ UNCHANGED <<results, tick, cron, card, next, faults, tainted>>

\* sendMessage: when it throws, the range stays behind without a live message.
SendCard(h) ==
  /\ msg[h].pc = "send"
  /\ \/ msg' = [msg EXCEPT ![h].pc = "live"] /\ card' = [card EXCEPT ![msg[h].r] = "progress"]
     \/ msg' = [msg EXCEPT ![h] = IdleMsg] /\ UNCHANGED card
  /\ UNCHANGED <<row, results, tick, cron, next, faults, tainted>>

\* An invocation begins: the range is tainted when another one works on it.
Begin(t, r) ==
  /\ tick' = [tick EXCEPT ![t] = [IdleTick EXCEPT !.pc = "start", !.r = r]]
  /\ tainted' = IF OnRange(r) \ {t} # {} THEN Taint(r, 2) ELSE tainted

\* The live message is recorded and the chain of ticks armed.
GoLive(h) ==
  /\ msg[h].pc = "live"
  /\ \E t \in Ticks : tick[t].pc = "idle" /\ Begin(t, msg[h].r)
  /\ row' = IF Here(msg[h].r) THEN [row EXCEPT ![msg[h].r].live = TRUE] ELSE row
  /\ msg' = [msg EXCEPT ![h] = IdleMsg]
  /\ UNCHANGED <<results, cron, card, next, faults>>

-----------------------------------------------------------------------------
(* runScanTick, as advanceLiveScan calls it.                               *)

\* The catch of advanceLiveScan: the live message, if the range had one, shows the error.
Fail(t) ==
  /\ card' = [card EXCEPT ![tick[t].r] = IF @ = "none" THEN @ ELSE "error"]
  /\ tick' = [tick EXCEPT ![t] = IdleTick]

StartTick(t) ==
  /\ tick[t].pc = "start"
  /\ IF Here(tick[t].r)
     THEN LET at == row[tick[t].r].cursor
          IN  /\ tick' = [tick EXCEPT ![t].at = at, ![t].pc = IF at = 0 THEN "wipe"
                                                           ELSE IF at < Waves THEN "loop" ELSE "finish"]
              /\ UNCHANGED card
     ELSE Fail(t)
  /\ UNCHANGED <<row, results, msg, cron, next, faults, tainted>>

\* Mutant: the results of the round before are kept.
WipeNothing(t) ==
  /\ tick[t].pc = "wipe"
  /\ tick' = [tick EXCEPT ![t].pc = "loop"]
  /\ UNCHANGED <<row, results, msg, cron, card, next, faults, tainted>>

\* A round that starts at cursor 0 deletes what is stored of the range.
Wipe(t) ==
  /\ tick[t].pc = "wipe"
  /\ results' = [results EXCEPT ![tick[t].r] = NoResults]
  /\ tick' = [tick EXCEPT ![t].pc = "loop"]
  /\ UNCHANGED <<row, msg, cron, card, next, faults, tainted>>

Stored(r, w) == [results EXCEPT ![r][w] = IF @ = Many THEN Many ELSE @ + 1]

\* A wave is probed and its results stored in one batch: the foreign key fails
\* the batch when the range is gone.
StoreWave(t) ==
  /\ tick[t].pc = "loop"
  /\ IF Here(tick[t].r)
     THEN /\ results' = Stored(tick[t].r, tick[t].at + 1)
          /\ tick' = [tick EXCEPT ![t].pc = "mark"]
          /\ UNCHANGED card
     ELSE Fail(t) /\ UNCHANGED results
  /\ UNCHANGED <<row, msg, cron, next, faults, tainted>>

\* After a wave: the range is through, or the loop goes on until its eight seconds are over.
AfterWave(at) == IF at < Waves THEN {"loop", "chain"} ELSE {"finish"}

\* Mutant: the cursor is written one wave ahead of what was stored.
MarkAhead(t) ==
  /\ tick[t].pc = "mark"
  /\ LET at == tick[t].at + 1
         skip == IF at < Waves THEN at + 1 ELSE at
     IN  /\ row' = IF Here(tick[t].r)
                   THEN [row EXCEPT ![tick[t].r].cursor = skip, ![tick[t].r].quiet = FALSE] ELSE row
         /\ \E pc \in AfterWave(skip) : tick' = [tick EXCEPT ![t].at = skip, ![t].pc = pc]
  /\ UNCHANGED <<results, msg, cron, card, next, faults, tainted>>

\* The cursor is written, last_scan_at with it, and the live message edited.
Mark(t) ==
  /\ tick[t].pc = "mark"
  /\ LET at == tick[t].at + 1
     IN  /\ row' = IF Here(tick[t].r)
                   THEN [row EXCEPT ![tick[t].r].cursor = at, ![tick[t].r].quiet = FALSE] ELSE row
         /\ \E pc \in AfterWave(at) : tick' = [tick EXCEPT ![t].at = at, ![t].pc = pc]
  /\ card' = [card EXCEPT ![tick[t].r] = IF @ = "none" THEN @ ELSE "progress"]
  /\ UNCHANGED <<results, msg, cron, next, faults, tainted>>

FinishRound(t) ==
  /\ tick[t].pc = "finish"
  /\ row' = IF Here(tick[t].r)
            THEN [row EXCEPT ![tick[t].r].cursor = 0, ![tick[t].r].finished = TRUE, ![tick[t].r].quiet = FALSE]
            ELSE row
  /\ tick' = [tick EXCEPT ![t].pc = "summary"]
  /\ UNCHANGED <<results, msg, cron, card, next, faults, tainted>>

\* rangeRoundSummary: the final card counts the rows that are stored.
Summary(t) ==
  /\ tick[t].pc = "summary"
  /\ LET r == tick[t].r
     IN  card' = [card EXCEPT ![r] = IF @ = "none" THEN @
                                     ELSE IF \A w \in Wave : results[r][w] > 0 THEN "complete" ELSE "incomplete"]
  /\ tick' = [tick EXCEPT ![t] = IdleTick]
  /\ UNCHANGED <<row, results, msg, cron, next, faults, tainted>>

\* chainNextTick: the next tick runs in the invocation that /internal/scan-tick
\* starts or, when the self-fetch fails, in this one.
Chain(t) ==
  /\ tick[t].pc = "chain"
  /\ Begin(t, tick[t].r)
  /\ UNCHANGED <<row, results, msg, cron, card, next, faults>>

\* The self-fetch started the next tick and its answer was lost: both go on.
ChainTwice(t) ==
  /\ tick[t].pc = "chain" /\ faults < MaxFault
  /\ \E u \in Ticks : /\ tick[u].pc = "idle"
                     /\ tick' = [tick EXCEPT ![t] = [IdleTick EXCEPT !.pc = "start", !.r = tick[t].r],
                                             ![u] = [IdleTick EXCEPT !.pc = "start", !.r = tick[t].r]]
  /\ tainted' = Taint(tick[t].r, 2)
  /\ faults' = faults + 1
  /\ UNCHANGED <<row, results, msg, cron, card, next>>

\* The invocation is killed; in a round of a range already finished, which a stale
\* answer of stalledLiveScanRangeIds starts, nothing would resume it.
Kill(t) ==
  /\ tick[t].pc # "idle" /\ faults < MaxFault
  /\ faults' = faults + 1
  /\ tainted' = Taint(tick[t].r, IF row[tick[t].r].finished THEN 2 ELSE 1)
  /\ tick' = [tick EXCEPT ![t] = IdleTick]
  /\ UNCHANGED <<row, results, msg, cron, card, next>>

-----------------------------------------------------------------------------
(* The five-minute cron.                                                   *)

\* Nothing has advanced the range for its threshold (asked of a live range until it
\* is finished, of the others afterwards).
GoQuiet(r) ==
  /\ Here(r) /\ ~row[r].quiet /\ row[r].live # row[r].finished
  /\ row' = [row EXCEPT ![r].quiet = TRUE]
  /\ UNCHANGED <<results, msg, tick, cron, card, next, faults, tainted>>

\* The rows a query returned are taken in order of creation.
Oldest(due) == CHOOSE d \in due : \A e \in due : d.r <= e.r

\* The cron's place in the rows that are left, the oldest of them at a wave.
ChunkEnd(d) == IF d.cursor + Chunk < Waves THEN d.cursor + Chunk ELSE Waves
CronIn(due, at) == [pc |-> IF at < ChunkEnd(Oldest(due)) THEN "probe" ELSE "store", due |-> due, at |-> at]
CronAt(due) == IF due = {} THEN [IdleCron EXCEPT !.pc = "purge"] ELSE CronIn(due, Oldest(due).cursor)

\* ORDER BY created_at ASC LIMIT n.
Earliest(S, n) == {r \in S : Cardinality({q \in S : q < r}) < n}
DueLimit == 4    \* DNS_SCAN_MAX_RANGES_PER_TICK
LiveLimit == 3   \* the limit of stalledLiveScanRangeIds

\* scanDueRanges: the ranges without a live message that are not scanned yet, or
\* long ago, are read with their cursors.
CronSelect ==
  /\ cron.pc = "idle"
  /\ LET due == Earliest({r \in RangeId : Here(r) /\ ~row[r].live /\ (~row[r].finished \/ row[r].quiet)}, DueLimit)
     IN  cron' = CronAt({[r |-> r, cursor |-> row[r].cursor] : r \in due})
  /\ UNCHANGED <<row, results, msg, tick, card, next, faults, tainted>>

\* A wave of the chunk; a failing insert ends the stage for the ranges after it too.
CronProbe ==
  /\ cron.pc = "probe"
  /\ LET r == Oldest(cron.due).r
     IN  IF Here(r)
         THEN /\ results' = Stored(r, cron.at + 1)
              /\ cron' = CronIn(cron.due, cron.at + 1)
              /\ tainted' = Taint(r, 2)
         ELSE cron' = [IdleCron EXCEPT !.pc = "purge"] /\ UNCHANGED <<results, tainted>>
  /\ UNCHANGED <<row, msg, tick, card, next, faults>>

CronStore ==
  /\ cron.pc = "store"
  /\ LET r == Oldest(cron.due).r
     IN  row' = IF ~Here(r) THEN row
                ELSE IF cron.at >= Waves
                THEN [row EXCEPT ![r].cursor = 0, ![r].finished = TRUE, ![r].quiet = FALSE]
                ELSE [row EXCEPT ![r].cursor = cron.at]
  /\ cron' = CronAt(cron.due \ {Oldest(cron.due)})
  /\ UNCHANGED <<results, msg, tick, card, next, faults, tainted>>

\* Mutant: a range whose chain was resumed before is not resumed again.
StalledAtStart ==
  {r \in RangeId : Here(r) /\ row[r].live /\ ~row[r].finished /\ row[r].cursor = 0 /\ row[r].quiet}

\* stalledLiveScanRangeIds: live ranges nothing has advanced for two minutes.
Stalled ==
  Earliest({r \in RangeId : Here(r) /\ row[r].live /\ ~row[r].finished /\ row[r].cursor < Waves /\ row[r].quiet}, LiveLimit)

\* purgeOldDnsScans deletes what was stored a day ago; then the stalled ranges are read.
CronPurge ==
  /\ cron.pc = "purge"
  /\ \E old \in SUBSET {r \in RangeId : row[r].finished} :
       /\ results' = [r \in RangeId |-> IF r \in old THEN NoResults ELSE results[r]]
       /\ tainted' = [r \in RangeId |-> IF r \in old THEN 2 ELSE tainted[r]]
  /\ cron' = [IdleCron EXCEPT !.pc = IF Stalled = {} THEN "idle" ELSE "live",
                              !.due = {[r |-> r, cursor |-> 0] : r \in Stalled}]
  /\ UNCHANGED <<row, msg, tick, card, next, faults>>

\* Each of them gets a tick, from which its chain goes on.
CronLive ==
  /\ cron.pc = "live"
  /\ \E t \in Ticks : tick[t].pc = "idle" /\ Begin(t, Oldest(cron.due).r)
  /\ LET due == cron.due \ {Oldest(cron.due)}
     IN  cron' = IF due = {} THEN IdleCron ELSE [cron EXCEPT !.due = due]
  /\ UNCHANGED <<row, results, msg, card, next, faults>>

-----------------------------------------------------------------------------
Message(h) == DeleteResults(h) \/ DeleteRange(h) \/ Insert(h) \/ SendCard(h) \/ GoLive(h)
TickStep(t) ==
  \/ StartTick(t) \/ Wipe(t) \/ StoreWave(t) \/ Mark(t) \/ FinishRound(t) \/ Summary(t)
  \/ Chain(t)
Cron == CronSelect \/ CronProbe \/ CronStore \/ CronPurge \/ CronLive

DnsNext ==
  \/ \E h \in Handler : Submit(h) \/ Message(h)
  \/ \E t \in Ticks : TickStep(t) \/ ChainTwice(t) \/ Kill(t)
  \/ \E r \in RangeId : GoQuiet(r)
  \/ Cron

DnsSpec == DnsInit /\ [][DnsNext]_dnsVars
-----------------------------------------------------------------------------
\* The range is stored and no tick works on it.
Idle(r) == Here(r) /\ OnRange(r) = {}

(* A round ends with every wave stored, exactly once, when one chain of     *)
(* ticks ran it undisturbed: runScanTick deletes the rows of the round      *)
(* before and writes the cursor behind the rows.                            *)
RoundIsExact ==
  \A r \in RangeId : Idle(r) /\ row[r].finished /\ tainted[r] = 0 => \A w \in Wave : results[r][w] = 1

(* Killed invocations never leave a hole: whatever a tick stored before it  *)
(* was killed, the resumed chain ends with every wave stored, and the final *)
(* card counts the whole range.                                             *)
ResumedRoundCovers ==
  \A r \in RangeId : tainted[r] <= 1 =>
    /\ Idle(r) /\ row[r].finished => \A w \in Wave : results[r][w] > 0
    /\ Here(r) => card[r] # "incomplete"

(* "Cron resumes them so the progress card always moves" (dns-center.ts):   *)
(* a live scan ends, or its range is replaced.                              *)
LiveScanEnds == \A r \in RangeId : (Here(r) /\ row[r].live) ~> (row[r].finished \/ ~Here(r))

(* The same but for one window: an invocation killed between the last       *)
(* write of the cursor and the write of finished_at.                        *)
Cut(r) == row[r].cursor = Waves /\ OnRange(r) = {}
ScanEndsUnlessCut == \A r \in RangeId : (Here(r) /\ row[r].live) ~> (row[r].finished \/ ~Here(r) \/ Cut(r))

=============================================================================
