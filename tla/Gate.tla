-------------------------------- MODULE Gate ---------------------------------
(***************************************************************************)
(* Admission of Telegram updates: the webhook's table of update_ids, the   *)
(* test of a message's age, and rateLimit, the bucket every limited route  *)
(* of the control plane goes through.  Telegram repeats an update until it *)
(* is acknowledged, also while an earlier delivery is still running; the   *)
(* invocations interleave at every D1 statement.  Time is counted in       *)
(* windows of the bucket.                                                  *)
(***************************************************************************)
EXTENDS Naturals, FiniteSets

CONSTANTS Updates,    \* update_ids of one user
          Handlers,   \* invocations that can run at once
          Hits,       \* the limit of the bucket
          MaxAge,     \* TELEGRAM_MAX_UPDATE_AGE_SECONDS, in windows
          Horizon     \* bound: windows a behaviour lasts

ASSUME GateAssumption ==
  Hits \in Nat \ {0} /\ MaxAge \in Nat /\ Horizon \in Nat \ {0} /\ IsFiniteSet(Handlers)

VARIABLES clock,      \* the window the present lies in
          sent,       \* the window each update was sent in, or Unsent
          seen,       \* telegram_updates
          acked,      \* updates Telegram holds for delivered
          handler,    \* the invocations
          bucket,     \* the row of rate_limits; window 0 when there is none
          acted,      \* history: how often the bot acted on each update
          allowed,    \* history: requests let through, by their window
          resets      \* history: how often the bucket began each window
gateVars == <<clock, sent, seen, acked, handler, bucket, acted, allowed, resets>>

Windows == 1 .. Horizon
Unsent == 0
Idle == [at |-> "idle", update |-> 0, window |-> 0]

GateTypeOK ==
  /\ clock \in Windows /\ sent \in [Updates -> 0 .. Horizon]
  /\ seen \subseteq Updates /\ acked \subseteq Updates
  /\ handler \in [Handlers -> [at : {"idle", "new", "upsert", "select", "act"},
                              update : Updates \union {0}, window : 0 .. Horizon]]
  /\ bucket \in [window : 0 .. Horizon, hits : Nat]
  /\ acted \in [Updates -> Nat]
  /\ allowed \in [Windows -> Nat] /\ resets \in [Windows -> Nat]

GateInit ==
  /\ clock = 1 /\ sent = [u \in Updates |-> Unsent]
  /\ seen = {} /\ acked = {}
  /\ handler = [h \in Handlers |-> Idle]
  /\ bucket = [window |-> 0, hits |-> 0]
  /\ acted = [u \in Updates |-> 0]
  /\ allowed = [w \in Windows |-> 0] /\ resets = [w \in Windows |-> 0]

UserWrites(u) ==
  /\ sent[u] = Unsent
  /\ sent' = [sent EXCEPT ![u] = clock]
  /\ UNCHANGED <<clock, seen, acked, handler, bucket, acted, allowed, resets>>

\* Mutant: the update is not recorded before it is handled.
DeliverUnrecorded(h, u) ==
  /\ handler[h] = Idle /\ sent[u] # Unsent /\ u \notin acked
  /\ handler' = [handler EXCEPT ![h] = [at |-> "new", update |-> u, window |-> 0]]
  /\ UNCHANGED <<clock, sent, seen, acked, bucket, acted, allowed, resets>>

(* INSERT OR IGNORE INTO telegram_updates: an update seen before is         *)
(* acknowledged and dropped, whatever became of the first delivery.         *)
Deliver(h, u) ==
  /\ handler[h] = Idle /\ sent[u] # Unsent /\ u \notin acked
  /\ IF u \in seen
       THEN acked' = acked \union {u} /\ UNCHANGED <<seen, handler>>
       ELSE /\ seen' = seen \union {u}
            /\ handler' = [handler EXCEPT ![h] = [at |-> "new", update |-> u, window |-> 0]]
            /\ UNCHANGED acked
  /\ UNCHANGED <<clock, sent, bucket, acted, allowed, resets>>

Answer(h) ==
  /\ acked' = acked \union {handler[h].update}
  /\ handler' = [handler EXCEPT ![h] = Idle]

(* The guards of handleMessageUpdate: a message that is too old is only     *)
(* acknowledged; otherwise rateLimit computes its window, once.             *)
TooOld(u) == clock > sent[u] + MaxAge
Admit(h) ==
  LET u == handler[h].update IN
  /\ handler[h].at = "new"
  /\ \/ TooOld(u) /\ Answer(h)
     \/ /\ ~TooOld(u) /\ UNCHANGED acked
        /\ handler' = [handler EXCEPT ![h] = [at |-> "upsert", update |-> u, window |-> clock]]
  /\ UNCHANGED <<clock, sent, seen, bucket, acted, allowed, resets>>

(* INSERT ... ON CONFLICT DO UPDATE: any other window starts from one hit,  *)
(* a later one that the row already holds included.                         *)
CountHit(w) ==
  IF bucket.window = w THEN [bucket EXCEPT !.hits = bucket.hits + 1] ELSE [window |-> w, hits |-> 1]

Upsert(h) ==
  LET w == handler[h].window IN
  /\ handler[h].at = "upsert"
  /\ bucket' = CountHit(w)
  /\ resets' = IF bucket.window = w THEN resets ELSE [resets EXCEPT ![w] = resets[w] + 1]
  /\ handler' = [handler EXCEPT ![h].at = "select"]
  /\ UNCHANGED <<clock, sent, seen, acked, acted, allowed>>

(* The separate SELECT, on what others have made of the row meanwhile.      *)
\* Mutant: one request too many.
PassesOneMore(w) == bucket.window = w /\ bucket.hits <= Hits + 1
Passes(w) == bucket.window = w /\ bucket.hits <= Hits

Select(h) ==
  LET w == handler[h].window IN
  /\ handler[h].at = "select"
  /\ \/ /\ Passes(w)
        /\ allowed' = [allowed EXCEPT ![w] = allowed[w] + 1]
        /\ handler' = [handler EXCEPT ![h].at = "act"]
        /\ UNCHANGED acked
     \/ ~Passes(w) /\ Answer(h) /\ UNCHANGED allowed
  /\ UNCHANGED <<clock, sent, seen, bucket, acted, resets>>

(* The handler proper, with the answer to the webhook call.                 *)
Act(h) ==
  LET u == handler[h].update IN
  /\ handler[h].at = "act"
  /\ acted' = [acted EXCEPT ![u] = acted[u] + 1]
  /\ Answer(h)
  /\ UNCHANGED <<clock, sent, seen, bucket, allowed, resets>>

(* The invocation is killed or throws: no answer, so Telegram repeats.      *)
Drop(h) ==
  /\ handler[h] # Idle
  /\ handler' = [handler EXCEPT ![h] = Idle]
  /\ UNCHANGED <<clock, sent, seen, acked, bucket, acted, allowed, resets>>

Tick ==
  /\ clock < Horizon
  /\ clock' = clock + 1
  /\ UNCHANGED <<sent, seen, acked, handler, bucket, acted, allowed, resets>>

GateNext ==
  \/ \E u \in Updates : UserWrites(u)
  \/ \E h \in Handlers : \/ \E u \in Updates : Deliver(h, u)
                         \/ Admit(h) \/ Upsert(h) \/ Select(h) \/ Act(h) \/ Drop(h)
  \/ Tick

GateSpec == GateInit /\ [][GateNext]_gateVars

-----------------------------------------------------------------------------
(* An update_id is a single-use token: however often Telegram repeats an    *)
(* update, and although deliveries overlap, the bot acts on it at most      *)
(* once.                                                                    *)
UpdateOnce == INSTANCE OneTime WITH Tokens <- Updates, marked <- seen, grants <- acted
UpdateActsOnce == UpdateOnce!OnceSpec

(* rateLimit lets at most Hits requests of a window through, although the   *)
(* count and the look at it are two statements, unless the bucket was taken *)
(* back by a request of another window that was late and then began that    *)
(* window again.                                                            *)
LimitUnlessReset == \A w \in Windows : resets[w] <= 1 => allowed[w] <= Hits
=============================================================================
