---------------------------- MODULE LedgerProofs ----------------------------
(***************************************************************************)
(* Proofs about Ledger: type correctness; that bytes in the map of the     *)
(* Durable Object always have a flush or an alarm to take them to D1; that *)
(* charges stay within recorded usage; and that every byte relayed is      *)
(* accounted for, which rests on a small theory of sums over tunnels and   *)
(* flushes.                                                                *)
(***************************************************************************)
EXTENDS Ledger, FiniteSetTheorems, WellFoundedInduction, NaturalsInduction, TLAPS

(***************************************************************************)
(* Sums.  SumFunction takes the elements of the domain in the order CHOOSE *)
(* gives them; a function that computes the sum of every subset exists,    *)
(* since the domain is finite, and the sum does not depend on the order.   *)
(***************************************************************************)
One(s) == CHOOSE x \in s : TRUE
SumOf(it, g, s) == IF s = {} THEN 0 ELSE g[One(s)] + it[s \ {One(s)}]
Sums(it, g, S) == it = [s \in SUBSET S |-> SumOf(it, g, s)]

\* A set of naturals with an element has a smallest one.
LEMMA LeastNatural ==
  ASSUME NEW T \in SUBSET Nat, T # {}
  PROVE  \E m \in T : \A j \in T : m <= j
<1>1. PICK m \in T : \A y \in T : ~(<<y, m>> \in OpToRel(<, Nat))
  BY NatLessThanWellFounded, WFMin, Zenon
<1>2. ASSUME NEW y \in T PROVE ~(y < m)
  <2>1. ~(<<y, m>> \in {ss \in Nat \X Nat : ss[1] < ss[2]})
    BY <1>1, Zenon DEF OpToRel
  <2> QED BY <2>1
<1> QED BY <1>2

\* The element taken out of a set, and what is left.
LEMMA OneLess ==
  ASSUME NEW S, IsFiniteSet(S), NEW s \in SUBSET S, s # {}
  PROVE  /\ One(s) \in s /\ s \ {One(s)} \in SUBSET S
         /\ Cardinality(s) \in Nat /\ Cardinality(s \ {One(s)}) = Cardinality(s) - 1
         /\ Cardinality(s \ {One(s)}) \in Nat
<1>1. One(s) \in s
  BY DEF One
<1>2. IsFiniteSet(s) /\ IsFiniteSet(s \ {One(s)})
  BY FS_Subset
<1>3. Cardinality(s) \in Nat /\ Cardinality(s \ {One(s)}) \in Nat
  BY <1>2, FS_CardinalityType
<1> QED BY <1>1, <1>2, <1>3, FS_RemoveElement

\* Induction over the subsets of a finite set, by their size, for a set of good ones.
LEMMA SubsetInduction ==
  ASSUME NEW S, IsFiniteSet(S), NEW G \in SUBSET (SUBSET S), {} \in G,
         \A s \in SUBSET S : s # {} /\ s \ {One(s)} \in G => s \in G
  PROVE  G = SUBSET S
<1> DEFINE B == {Cardinality(s) : s \in (SUBSET S) \ G}
<1>1. \A s \in SUBSET S : Cardinality(s) \in Nat
  BY FS_Subset, FS_CardinalityType
<1>2. B \in SUBSET Nat
  BY <1>1
<1>3. CASE B # {}
  <2>1. PICK m \in B : \A j \in B : m <= j
    <3> HIDE DEF B
    <3> QED BY <1>2, <1>3, LeastNatural
  <2>2. PICK s \in (SUBSET S) \ G : m = Cardinality(s)
    OBVIOUS
  <2>3. s # {}
    BY <2>2
  <2>4. s \ {One(s)} \in (SUBSET S) \ G
    BY <2>2, <2>3, OneLess
  <2>5. Cardinality(s \ {One(s)}) \in B
    BY <2>4
  <2>6. m <= Cardinality(s \ {One(s)})
    BY <2>1, <2>5
  <2> QED BY <2>2, <2>3, <2>6, OneLess
<1>4. CASE B = {}
  BY <1>4
<1> QED BY <1>3, <1>4

\* The sums of all subsets exist.
LEMMA SumsExist ==
  ASSUME NEW S, IsFiniteSet(S), NEW g \in [S -> Int] PROVE \E it : Sums(it, g, S)
<1> DEFINE Upto(n) == \E it \in [SUBSET S -> Int] : \A s \in SUBSET S : Cardinality(s) <= n => it[s] = SumOf(it, g, s)
           B == {n \in Nat : ~Upto(n)}
<1>1. Upto(0)
  <2> DEFINE it == [s \in SUBSET S |-> 0]
  <2>1. ASSUME NEW s \in SUBSET S, Cardinality(s) <= 0 PROVE s = {}
    <3>1. CASE s # {}
      <4>1. Cardinality(s) \in Nat /\ Cardinality(s) - 1 \in Nat
        BY <3>1, OneLess
      <4> QED BY <2>1, <4>1
    <3> QED BY <3>1
  <2>2. \A s \in SUBSET S : Cardinality(s) <= 0 => it[s] = SumOf(it, g, s)
    BY <2>1 DEF SumOf
  <2>3. it \in [SUBSET S -> Int]
    OBVIOUS
  <2> QED BY <2>2, <2>3
<1>2. ASSUME NEW n \in Nat, Upto(n) PROVE Upto(n + 1)
  <2>1. PICK it \in [SUBSET S -> Int] : \A s \in SUBSET S : Cardinality(s) <= n => it[s] = SumOf(it, g, s)
    BY <1>2
  <2>2. ASSUME NEW s \in SUBSET S PROVE SumOf(it, g, s) \in Int
    <3>1. CASE s # {}
      <4>1. One(s) \in S /\ s \ {One(s)} \in SUBSET S
        BY <3>1, OneLess
      <4>2. g[One(s)] \in Int /\ it[s \ {One(s)}] \in Int
        BY <4>1
      <4> QED BY <3>1, <4>2 DEF SumOf
    <3> QED BY <3>1 DEF SumOf
  <2> DEFINE jt == [s \in SUBSET S |-> SumOf(it, g, s)]
  <2>3. jt \in [SUBSET S -> Int]
    BY <2>2
  <2>4. ASSUME NEW s \in SUBSET S, Cardinality(s) <= n + 1 PROVE jt[s] = SumOf(jt, g, s)
    <3>1. CASE s = {}
      BY <3>1 DEF SumOf
    <3>2. CASE s # {}
      <4>1. /\ s \ {One(s)} \in SUBSET S /\ Cardinality(s \ {One(s)}) = Cardinality(s) - 1 /\ Cardinality(s) \in Nat
        BY <3>2, OneLess
      <4>2. Cardinality(s \ {One(s)}) <= n
        BY <2>4, <4>1
      <4>3. it[s \ {One(s)}] = SumOf(it, g, s \ {One(s)})
        BY <2>1, <4>1, <4>2
      <4>4. jt[s \ {One(s)}] = it[s \ {One(s)}]
        BY <4>1, <4>3
      <4>5. jt[s] = SumOf(it, g, s)
        OBVIOUS
      <4> HIDE DEF jt
      <4> QED BY <3>2, <4>4, <4>5 DEF SumOf
    <3> QED BY <3>1, <3>2
  <2> HIDE DEF jt
  <2> QED BY <2>3, <2>4
<1> HIDE DEF Upto
<1>3. \A n \in Nat : Upto(n)
  <2>1. CASE B # {}
    <3>1. PICK m \in B : \A j \in B : m <= j
      <4>1. B \in SUBSET Nat
        OBVIOUS
      <4> HIDE DEF B
      <4> QED BY <2>1, <4>1, LeastNatural
    <3>2. m # 0 /\ m \in Nat /\ ~Upto(m)
      BY <1>1
    <3>3. m - 1 \in Nat /\ m - 1 \notin B
      BY <3>1, <3>2
    <3>4. Upto(m - 1)
      BY <3>3
    <3>5. Upto((m - 1) + 1)
      BY <1>2, <3>3, <3>4
    <3>6. (m - 1) + 1 = m
      BY <3>2
    <3> QED BY <3>2, <3>5, <3>6
  <2> QED BY <2>1
<1>4. Cardinality(S) \in Nat /\ \A s \in SUBSET S : Cardinality(s) <= Cardinality(S)
  BY FS_CardinalityType, FS_Subset
<1>5. PICK it \in [SUBSET S -> Int] :
        \A s \in SUBSET S : Cardinality(s) <= Cardinality(S) => it[s] = SumOf(it, g, s)
  BY <1>3, <1>4 DEF Upto
<1>6. it = [s \in SUBSET S |-> SumOf(it, g, s)]
  BY <1>4, <1>5
<1> QED BY <1>6 DEF Sums

\* SumFunction is the sum of the whole domain.
LEMMA SumIs ==
  ASSUME NEW S, IsFiniteSet(S), NEW g \in [S -> Int]
  PROVE  \E it : Sums(it, g, S) /\ SumFunction(g) = it[S]
<1> DEFINE it == CHOOSE i : Sums(i, g, S)
<1>1. Sums(it, g, S)
  BY SumsExist
<1>2. DOMAIN g = S
  OBVIOUS
<1>3. SumFunction(g) = it[S]
  BY <1>2 DEF SumFunction, SumFunctionOnSet, FoldFunctionOnSet, MapThenFoldSet, Sums, SumOf, One
<1> QED BY <1>1, <1>3

\* The sums of a function to the integers are integers, and naturals when its values are.
LEMMA SumType ==
  ASSUME NEW S, IsFiniteSet(S), NEW g \in [S -> Int], NEW it, Sums(it, g, S)
  PROVE  /\ \A s \in SUBSET S : it[s] \in Int
         /\ g \in [S -> Nat] => \A s \in SUBSET S : it[s] \in Nat
         /\ (\A x \in S : g[x] = 0) => \A s \in SUBSET S : it[s] = 0
<1> DEFINE G == {s \in SUBSET S : /\ it[s] \in Int
                                  /\ g \in [S -> Nat] => it[s] \in Nat
                                  /\ (\A x \in S : g[x] = 0) => it[s] = 0}
<1>1. \A s \in SUBSET S : it[s] = SumOf(it, g, s)
  BY DEF Sums
<1>2. it[{}] = 0 /\ {} \in SUBSET S
  BY <1>1 DEF SumOf
<1>3. {} \in G /\ G \in SUBSET (SUBSET S)
  BY <1>2
<1>4. ASSUME NEW s \in SUBSET S, s # {}, s \ {One(s)} \in G PROVE s \in G
  <2>1. it[s] = g[One(s)] + it[s \ {One(s)}]
    BY <1>1, <1>4 DEF SumOf
  <2>2. One(s) \in S
    BY <1>4, OneLess
  <2>3. g[One(s)] \in Int
    BY <2>2
  <2>4. it[s] \in Int
    BY <1>4, <2>1, <2>3
  <2>5. g \in [S -> Nat] => it[s] \in Nat
    BY <1>4, <2>1, <2>2
  <2>6. (\A x \in S : g[x] = 0) => it[s] = 0
    BY <1>4, <2>1, <2>2
  <2> QED BY <2>4, <2>5, <2>6
<1>5. G = SUBSET S
  <2> HIDE DEF G
  <2> QED BY <1>3, <1>4, SubsetInduction
<1> QED BY <1>5

\* A sum of naturals is a natural, a sum of zeros is zero.
LEMMA SumNatural ==
  ASSUME NEW S, IsFiniteSet(S), NEW g \in [S -> Nat]
  PROVE  SumFunction(g) \in Nat /\ ((\A x \in S : g[x] = 0) => SumFunction(g) = 0)
<1>1. g \in [S -> Int]
  OBVIOUS
<1>2. PICK it : Sums(it, g, S) /\ SumFunction(g) = it[S]
  BY <1>1, SumIs
<1> QED BY <1>1, <1>2, SumType

\* Changing one value changes the sum by the difference.
LEMMA SumChange ==
  ASSUME NEW S, IsFiniteSet(S), NEW g \in [S -> Int], NEW h \in [S -> Int], NEW x \in S,
         \A y \in S : y # x => h[y] = g[y]
  PROVE  SumFunction(h) = SumFunction(g) + (h[x] - g[x])
<1>1. PICK it : Sums(it, g, S) /\ SumFunction(g) = it[S]
  BY SumIs
<1>2. PICK jt : Sums(jt, h, S) /\ SumFunction(h) = jt[S]
  BY SumIs
<1> DEFINE G == {s \in SUBSET S : jt[s] = it[s] + (IF x \in s THEN h[x] - g[x] ELSE 0)}
<1>3. /\ \A s \in SUBSET S : it[s] = SumOf(it, g, s) /\ jt[s] = SumOf(jt, h, s)
      /\ \A s \in SUBSET S : it[s] \in Int /\ jt[s] \in Int
  BY <1>1, <1>2, SumType DEF Sums
<1>4. {} \in G /\ G \in SUBSET (SUBSET S)
  <2>1. {} \in SUBSET S
    OBVIOUS
  <2>2. it[{}] = 0 /\ jt[{}] = 0
    BY <1>3, <2>1 DEF SumOf
  <2> QED BY <2>1, <2>2
<1>5. ASSUME NEW s \in SUBSET S, s # {}, s \ {One(s)} \in G PROVE s \in G
  <2>1. PICK r : r = s \ {One(s)}
    OBVIOUS
  <2>2. r \in SUBSET S /\ One(s) \in s /\ One(s) \in S
    BY <1>5, <2>1, OneLess
  <2>3. it[s] = g[One(s)] + it[r] /\ jt[s] = h[One(s)] + jt[r]
    BY <1>3, <1>5, <2>1 DEF SumOf
  <2>4. jt[r] = it[r] + (IF x \in r THEN h[x] - g[x] ELSE 0)
    BY <1>5, <2>1
  <2>5. it[r] \in Int /\ g[x] \in Int /\ h[x] \in Int /\ g[One(s)] \in Int /\ h[One(s)] \in Int
    BY <1>3, <2>2
  <2>6. CASE One(s) = x
    <3>1. x \notin r /\ x \in s
      BY <2>1, <2>2, <2>6
    <3> QED BY <2>3, <2>4, <2>5, <2>6, <3>1
  <2>7. CASE One(s) # x
    <3>1. (x \in r <=> x \in s) /\ h[One(s)] = g[One(s)]
      BY <2>1, <2>2, <2>7
    <3> QED BY <2>3, <2>4, <2>5, <3>1
  <2> QED BY <2>6, <2>7
<1>6. G = SUBSET S
  <2> HIDE DEF G
  <2> QED BY <1>4, <1>5, SubsetInduction
<1>7. jt[S] = it[S] + (h[x] - g[x])
  BY <1>6
<1> QED BY <1>1, <1>2, <1>7

\* The types of the parts each action changes.
RowOK == row \in [User -> [there : BOOLEAN, active : BOOLEAN, expired : BOOLEAN, used : Nat]]
TunRec == [pc : {"new", "open", "finished"}, user : User, up : Nat, down : Nat,
           writing : BOOLEAN, count : Nat, report : Nat]
TunOK == tun \in [Tun -> TunRec]
FlightOK == flight \in [Slot -> [entries : [User -> Nat], rest : SUBSET User]]
ClockOK == timer \in 0..Interval /\ alarm \in NoAlarm..Interval
MaintOK == maint \in [pc : {"idle", "expiry", "flush"}, policy : Policy, due : SUBSET User]
SpentOK == spent \in [Kind -> Nat]
BytesOK == /\ daily \in [User -> Nat] /\ relayed \in [User -> Nat] /\ dirty \in [User -> Nat]
           /\ again \in [User -> Nat] /\ gone \in [User -> Nat] /\ base \in [User -> Int]

\* The parts above are the type invariant.
LEMMA TypeParts ==
  /\ TypeOK <=> RowOK /\ TunOK /\ FlightOK /\ ClockOK /\ MaintOK /\ SpentOK /\ BytesOK
  /\ TypeOK' <=> RowOK' /\ TunOK' /\ FlightOK' /\ ClockOK' /\ MaintOK' /\ SpentOK' /\ BytesOK'
BY DEF TypeOK, RowOK, TunRec, TunOK, FlightOK, ClockOK, MaintOK, SpentOK, BytesOK

\* The empty map, and a slot without a flush, have their types.
LEMMA EmptyType ==
  /\ NoBytes \in [User -> Nat]
  /\ NoFlush \in [entries : [User -> Nat], rest : SUBSET User]
BY DEF NoBytes, NoFlush

\* What the object holds for a user is a number.
LEMMA HeldType ==
  ASSUME FlightOK, dirty \in [User -> Nat], NEW u \in User
  PROVE  Held(u) \in Nat
<1>1. \A f \in Slot : flight[f].entries[u] \in Nat
  BY DEF FlightOK
<1>2. Taken(u) \in [Slot -> Nat]
  BY <1>1 DEF Taken
<1>3. SumFunction(Taken(u)) \in Nat
  BY <1>2, SumNatural, ConstantsAssumption
<1> QED BY <1>3 DEF Held

\* Replacing the record of one tunnel by a well-typed one.
LEMMA TunWrite ==
  ASSUME TunOK, NEW t \in Tun, NEW v \in TunRec, tun' = [tun EXCEPT ![t] = v]
  PROVE  TunOK'
BY DEF TunOK

\* Counting a bounded event keeps the counters natural.
LEMMA SpendType ==
  ASSUME SpentOK, NEW k \in Kind, NEW max, Spend(k, max)
  PROVE  SpentOK'
BY DEF SpentOK, Spend

\* What flush does to the map and the slots, started with m in the map: either
\* the map was empty and nothing changes, or one slot holds everything.
LEMMA StartFlushFacts ==
  ASSUME FlightOK, NEW m \in [User -> Nat], StartFlush(m)
  PROVE  /\ dirty' \in [User -> Nat] /\ FlightOK'
         /\ \A u \in User : dirty'[u] = 0
         /\ \A f \in Slot : flight[f] # NoFlush => flight'[f] # NoFlush
         /\ (\E u \in User : m[u] > 0) => \E f \in Slot : flight'[f] # NoFlush
<1>1. CASE Keys(m) = {}
  <2>1. \A u \in User : m[u] = 0
    BY <1>1 DEF Keys
  <2>2. dirty' = m /\ flight' = flight
    BY <1>1 DEF StartFlush
  <2> QED BY <2>1, <2>2 DEF FlightOK
<1>2. CASE Keys(m) # {}
  <2>1. PICK f \in Slot : /\ flight[f] = NoFlush
                          /\ flight' = [flight EXCEPT ![f] = [entries |-> m, rest |-> Keys(m)]]
                          /\ dirty' = NoBytes
    BY <1>2 DEF StartFlush
  <2>2. Keys(m) \in SUBSET User
    BY DEF Keys
  <2>3. [entries |-> m, rest |-> Keys(m)] # NoFlush
    BY <1>2 DEF NoFlush
  <2>4. flight'[f] # NoFlush
    BY <2>1, <2>3 DEF FlightOK
  <2>5. FlightOK'
    BY <2>1, <2>2 DEF FlightOK
  <2>6. \A g \in Slot : flight[g] # NoFlush => flight'[g] # NoFlush
    BY <2>1, <2>4 DEF FlightOK
  <2>7. dirty' \in [User -> Nat] /\ \A u \in User : dirty'[u] = 0
    BY <2>1, EmptyType DEF NoBytes
  <2> QED BY <2>4, <2>5, <2>6, <2>7
<1> QED BY <1>1, <1>2

\* The initial state has the types.
LEMMA InitType == Init => TypeOK
<1> SUFFICES ASSUME Init PROVE TypeOK
  OBVIOUS
<1>1. AnyUser \in User
  BY ConstantsAssumption DEF AnyUser
<1>2. RowOK /\ BytesOK
  BY EmptyType DEF Init, RowOK, BytesOK
<1>3. TunOK
  BY <1>1 DEF Init, TunOK, TunRec
<1>4. FlightOK
  BY EmptyType DEF Init, FlightOK
<1>5. ClockOK
  BY ConstantsAssumption DEF Init, ClockOK, NoAlarm
<1>6. MaintOK
  BY DEF Init, MaintOK, Policy
<1>7. SpentOK
  BY DEF Init, SpentOK
<1> QED BY <1>2, <1>3, <1>4, <1>5, <1>6, <1>7, TypeParts

\* A tunnel's own steps keep the types.
LEMMA TrafficType ==
  ASSUME TypeOK, NEW t \in Tun, Traffic(t)
  PROVE  TypeOK'
<1> USE TypeParts
<1>0. /\ tun[t] \in TunRec
      /\ tun[t].up + 1 \in Nat /\ tun[t].down + 1 \in Nat /\ tun[t].count + 1 \in Nat
  BY DEF TunOK, TunRec
<1>1. ASSUME NEW u \in User, Open(t, u) PROVE TypeOK'
  <2>1. [tun[t] EXCEPT !.pc = "open", !.user = u] \in TunRec
    BY <1>0 DEF TunRec
  <2>2. TunOK'
    BY <1>1, <2>1, TunWrite DEF Open
  <2> QED BY <1>1, <2>2 DEF Open, ledger, amounts, RowOK, FlightOK, ClockOK, MaintOK, SpentOK, BytesOK
<1>2. CASE Download(t)
  <2>1. [tun[t] EXCEPT !.down = tun[t].down + 1, !.count = tun[t].count + 1] \in TunRec
    BY <1>0 DEF TunRec
  <2>2. TunOK'
    BY <1>2, <2>1, TunWrite DEF Download
  <2>3. relayed' \in [User -> Nat]
    BY <1>2, <1>0 DEF Download, TunRec, BytesOK
  <2> QED BY <1>2, <2>2, <2>3 DEF Download, ledger, amounts, RowOK, FlightOK, ClockOK, MaintOK, SpentOK, BytesOK
<1>3. CASE UploadStart(t)
  <2>1. [tun[t] EXCEPT !.up = tun[t].up + 1, !.writing = TRUE] \in TunRec
    BY <1>0 DEF TunRec
  <2>2. TunOK'
    BY <1>3, <2>1, TunWrite DEF UploadStart
  <2> QED BY <1>3, <2>2 DEF UploadStart, ledger, amounts, RowOK, FlightOK, ClockOK, MaintOK, SpentOK, BytesOK
<1>4. CASE UploadDone(t)
  <2>1. [tun[t] EXCEPT !.writing = FALSE, !.count = tun[t].count + 1] \in TunRec
    BY <1>0 DEF TunRec
  <2>2. TunOK'
    BY <1>4, <2>1, TunWrite DEF UploadDone
  <2>3. relayed' \in [User -> Nat] /\ gone' \in [User -> Nat]
    BY <1>4, <1>0 DEF UploadDone, TunRec, BytesOK
  <2> QED BY <1>4, <2>2, <2>3 DEF UploadDone, ledger, amounts, RowOK, FlightOK, ClockOK, MaintOK, SpentOK, BytesOK
<1>5. CASE UploadFails(t)
  <2>1. [tun[t] EXCEPT !.writing = FALSE] \in TunRec
    BY <1>0 DEF TunRec
  <2>2. TunOK'
    BY <1>5, <2>1, TunWrite DEF UploadFails
  <2> QED BY <1>5, <2>2 DEF UploadFails, ledger, amounts, RowOK, FlightOK, ClockOK, MaintOK, SpentOK, BytesOK
<1>6. CASE Finish(t)
  <2>1. [tun[t] EXCEPT !.pc = "finished", !.report = tun[t].count] \in TunRec
    BY <1>0 DEF TunRec
  <2>2. TunOK'
    BY <1>6, <2>1, TunWrite DEF Finish
  <2> QED BY <1>6, <2>2 DEF Finish, ledger, amounts, RowOK, FlightOK, ClockOK, MaintOK, SpentOK, BytesOK
<1>7. CASE ReportLost(t)
  <2>1. SpentOK'
    BY <1>7, SpendType DEF Kind, ReportLost
  <2>2. [tun[t] EXCEPT !.report = 0] \in TunRec
    BY <1>0 DEF TunRec
  <2>3. TunOK'
    BY <1>7, <2>2, TunWrite DEF ReportLost
  <2>4. gone' \in [User -> Nat]
    BY <1>7, <1>0 DEF ReportLost, TunRec, BytesOK
  <2> QED BY <1>7, <2>1, <2>3, <2>4 DEF ReportLost, ledger, amounts, RowOK, FlightOK, ClockOK, MaintOK, BytesOK
<1>8. CASE Report(t)
  <2> DEFINE m == [dirty EXCEPT ![tun[t].user] = @ + tun[t].report]
  <2>1. m \in [User -> Nat]
    BY <1>0 DEF TunRec, BytesOK
  <2>2. /\ tun' = [tun EXCEPT ![t].report = 0]
        /\ IF timer > 0 THEN dirty' = m /\ UNCHANGED <<flight, timer>>
           ELSE StartFlush(m) /\ timer' = Interval
        /\ UNCHANGED <<row, daily, alarm, maint, amounts, base, spent>>
    BY <1>8 DEF Report
  <2> HIDE DEF m
  <2>3. dirty' \in [User -> Nat] /\ FlightOK'
    <3>1. CASE timer > 0
      BY <3>1, <2>1, <2>2 DEF FlightOK
    <3>2. CASE ~(timer > 0)
      BY <3>2, <2>1, <2>2, StartFlushFacts
    <3> QED BY <3>1, <3>2
  <2>4. ClockOK'
    BY <2>2, ConstantsAssumption DEF ClockOK
  <2>5. [tun[t] EXCEPT !.report = 0] \in TunRec
    BY <1>0 DEF TunRec
  <2>6. TunOK'
    BY <2>2, <2>5, TunWrite
  <2> QED BY <2>2, <2>3, <2>4, <2>6 DEF RowOK, MaintOK, SpentOK, BytesOK, amounts
<1> QED BY <1>1, <1>2, <1>3, <1>4, <1>5, <1>6, <1>7, <1>8 DEF Traffic

\* What D1 writes, and what a rejected batch puts back, have their types.
LEMMA CommitType ==
  ASSUME RowOK, FlightOK, daily \in [User -> Nat], NEW f \in Slot, NEW S, Commit(f, S)
  PROVE  RowOK' /\ daily' \in [User -> Nat]
<1>1. flight[f].entries \in [User -> Nat]
  BY DEF FlightOK
<1> QED BY <1>1 DEF Commit, RowOK

LEMMA PutBackType ==
  ASSUME FlightOK, ClockOK, BytesOK, NEW f \in Slot, NEW left, PutBack(f, left)
  PROVE  FlightOK' /\ dirty' \in [User -> Nat] /\ again' \in [User -> Nat] /\ alarm' \in NoAlarm..Interval
<1>1. flight[f].entries \in [User -> Nat]
  BY DEF FlightOK
<1>2. FlightOK'
  BY EmptyType DEF PutBack, FlightOK
<1> QED BY <1>1, <1>2, ConstantsAssumption DEF PutBack, Plus, BytesOK, NoAlarm

\* The steps of the Durable Object and of time keep the types.
LEMMA ObjectType ==
  ASSUME TypeOK, Flush \/ Alarm \/ Tick \/ Crash
  PROVE  TypeOK'
<1> USE TypeParts
<1>1. ASSUME NEW f \in Slot, FlushBatch(f) PROVE TypeOK'
  <2>1. PICK S \in NextBatch(f) :
          /\ Commit(f, S)
          /\ flight' = [flight EXCEPT ![f] = IF flight[f].rest \subseteq S THEN NoFlush
                                             ELSE [flight[f] EXCEPT !.rest = flight[f].rest \ S]]
          /\ alarm' = IF flight[f].rest \subseteq S THEN Interval ELSE alarm
    BY <1>1 DEF FlushBatch
  <2>2. RowOK' /\ daily' \in [User -> Nat]
    BY <2>1, CommitType DEF BytesOK
  <2>3. FlightOK'
    BY <2>1, EmptyType DEF FlightOK
  <2>4. ClockOK'
    BY <1>1, <2>1, ConstantsAssumption DEF FlushBatch, ClockOK, NoAlarm
  <2> QED BY <1>1, <2>2, <2>3, <2>4 DEF FlushBatch, TunOK, MaintOK, SpentOK, BytesOK, amounts
<1>2. ASSUME NEW f \in Slot, FlushFails(f) PROVE TypeOK'
  <2>1. SpentOK'
    BY <1>2, SpendType DEF Kind, FlushFails
  <2>2. FlightOK' /\ dirty' \in [User -> Nat] /\ again' \in [User -> Nat] /\ alarm' \in NoAlarm..Interval
    BY <1>2, PutBackType DEF FlushFails
  <2> QED BY <1>2, <2>1, <2>2 DEF FlushFails, RowOK, TunOK, ClockOK, MaintOK, BytesOK
<1>6. ASSUME NEW f \in Slot, FlushAnswerLost(f) PROVE TypeOK'
  <2>1. SpentOK'
    BY <1>6, SpendType DEF Kind, FlushAnswerLost
  <2>2. PICK S \in NextBatch(f) : Commit(f, S) /\ PutBack(f, flight[f].rest \ S)
    BY <1>6 DEF FlushAnswerLost
  <2>3. FlightOK' /\ dirty' \in [User -> Nat] /\ again' \in [User -> Nat] /\ alarm' \in NoAlarm..Interval
    BY <2>2, PutBackType
  <2>4. RowOK' /\ daily' \in [User -> Nat]
    BY <2>2, CommitType DEF BytesOK
  <2> QED BY <1>6, <2>1, <2>3, <2>4 DEF FlushAnswerLost, TunOK, ClockOK, MaintOK, BytesOK
<1>3. CASE Alarm
  <2>1. dirty' \in [User -> Nat] /\ FlightOK'
    BY <1>3, StartFlushFacts DEF Alarm, BytesOK
  <2> QED BY <1>3, <2>1, ConstantsAssumption
          DEF Alarm, RowOK, TunOK, ClockOK, NoAlarm, MaintOK, SpentOK, BytesOK, amounts
<1>4. CASE Tick
  BY <1>4, ConstantsAssumption
     DEF Tick, RowOK, TunOK, FlightOK, ClockOK, NoAlarm, MaintOK, SpentOK, BytesOK, amounts
<1>5. CASE Crash
  <2>1. SpentOK'
    BY <1>5, SpendType DEF Kind, Crash
  <2>2. gone' \in [User -> Nat]
    BY <1>5, HeldType DEF Crash, BytesOK
  <2> QED BY <1>5, <2>1, <2>2, EmptyType, ConstantsAssumption
          DEF Crash, RowOK, TunOK, FlightOK, ClockOK, MaintOK, BytesOK
<1> QED BY <1>1, <1>2, <1>3, <1>4, <1>5, <1>6 DEF Flush

\* Writing a well-typed user row keeps the types.
LEMMA AdminWriteType ==
  ASSUME TypeOK, NEW u \in User,
         NEW new \in [there : BOOLEAN, active : BOOLEAN, expired : BOOLEAN, used : Nat],
         AdminWrite(u, new)
  PROVE  base' \in [User -> Int] => TypeOK'
<1> USE TypeParts
<1>1. SpentOK'
  BY SpendType DEF Kind, AdminWrite
<1>2. RowOK'
  BY DEF AdminWrite, RowOK
<1> QED BY <1>1, <1>2 DEF AdminWrite, ledger, amounts, TunOK, FlightOK, ClockOK, MaintOK, BytesOK

\* The admin API, expiry and the maintenance pass keep the types.
LEMMA WritersType ==
  ASSUME TypeOK, Admin \/ (\E u \in User : Expire(u)) \/ MaintSelect \/ MaintExpiry \/ MaintFlush
  PROVE  TypeOK'
<1> USE TypeParts
<1> DEFINE Row == [there : BOOLEAN, active : BOOLEAN, expired : BOOLEAN, used : Nat]
<1>0. \A u \in User : row[u] \in Row
  BY DEF RowOK
<1>00. base \in [User -> Int] /\ daily \in [User -> Nat]
  BY DEF BytesOK
<1>1. ASSUME NEW u \in User, NEW n \in Given, NEW b \in BOOLEAN, CreateUser(u, n, b) PROVE TypeOK'
  <2>1. n \in Nat
    BY ConstantsAssumption
  <2>2. [there |-> TRUE, active |-> b, expired |-> FALSE, used |-> n] \in Row
    BY <2>1
  <2>3. base' \in [User -> Int]
    BY <1>00, <1>1, <2>1 DEF CreateUser
  <2> QED BY <1>1, <2>2, <2>3, AdminWriteType DEF CreateUser
<1>2. ASSUME NEW u \in User, DeleteUser(u) PROVE TypeOK'
  <2>1. [row[u] EXCEPT !.there = FALSE] \in Row
    BY <1>0
  <2> QED BY <1>2, <1>00, <2>1, AdminWriteType DEF DeleteUser
<1>3. ASSUME NEW u \in User, ResetTraffic(u) PROVE TypeOK'
  <2>1. [row[u] EXCEPT !.used = 0] \in Row
    BY <1>0
  <2> QED BY <1>3, <1>00, <2>1, AdminWriteType DEF ResetTraffic
<1>4. ASSUME NEW u \in User, NEW b \in BOOLEAN, SetActive(u, b) PROVE TypeOK'
  <2>1. [row[u] EXCEPT !.active = b] \in Row
    BY <1>0
  <2> QED BY <1>4, <1>00, <2>1, AdminWriteType DEF SetActive
<1>5. ASSUME NEW u \in User, NEW b \in BOOLEAN, Extend(u, b) PROVE TypeOK'
  <2>1. [row[u] EXCEPT !.expired = b /\ @] \in Row
    BY <1>0
  <2> QED BY <1>5, <1>00, <2>1, AdminWriteType DEF Extend
<1>6. ASSUME NEW u \in User, Expire(u) PROVE TypeOK'
  <2>1. [row[u] EXCEPT !.expired = TRUE] \in Row
    BY <1>0
  <2>2. RowOK'
    BY <1>6, <2>1 DEF Expire, RowOK
  <2> QED BY <1>6, <2>2 DEF Expire, ledger, amounts, TunOK, FlightOK, ClockOK, MaintOK, SpentOK, BytesOK
<1>7. CASE MaintSelect
  <2>1. SpentOK'
    BY <1>7, SpendType DEF Kind, MaintSelect
  <2>2. MaintOK'
    BY <1>7 DEF MaintSelect, MaintOK
  <2> QED BY <1>7, <2>1, <2>2 DEF MaintSelect, ledger, amounts, RowOK, TunOK, FlightOK, ClockOK, BytesOK
<1>8. CASE MaintExpiry
  <2>1. PICK S \in SUBSET maint.due :
          /\ row' = [u \in User |-> IF u \in S /\ row[u].there THEN Maintained(u) ELSE row[u]]
          /\ maint' = [maint EXCEPT !.due = @ \ S, !.pc = IF maint.due \subseteq S THEN "flush" ELSE @]
    BY <1>8 DEF MaintExpiry, kSubset
  <2>2. \A u \in User : Maintained(u) \in Row
    BY <1>0 DEF Maintained, MaintOK, Policy
  <2>3. RowOK'
    BY <1>0, <2>1, <2>2 DEF RowOK
  <2>4. MaintOK'
    BY <2>1 DEF MaintOK
  <2> QED BY <1>8, <2>3, <2>4 DEF MaintExpiry, ledger, amounts, TunOK, FlightOK, ClockOK, SpentOK, BytesOK
<1>9. CASE MaintFlush
  <2>1. dirty' \in [User -> Nat] /\ FlightOK'
    BY <1>9, StartFlushFacts DEF MaintFlush, BytesOK
  <2> QED BY <1>9, <2>1 DEF MaintFlush, RowOK, TunOK, ClockOK, MaintOK, SpentOK, BytesOK, amounts
<1> QED BY <1>1, <1>2, <1>3, <1>4, <1>5, <1>6, <1>7, <1>8, <1>9 DEF Admin

\* Every step keeps the types.
LEMMA NextType == TypeOK /\ [Next]_vars => TypeOK'
<1> SUFFICES ASSUME TypeOK, [Next]_vars PROVE TypeOK'
  OBVIOUS
<1>1. CASE \E t \in Tun : Traffic(t)
  BY <1>1, TrafficType
<1>2. CASE Flush \/ Alarm \/ Tick \/ Crash
  BY <1>2, ObjectType
<1>3. CASE Admin \/ (\E u \in User : Expire(u)) \/ MaintSelect \/ MaintExpiry \/ MaintFlush
  BY <1>3, WritersType
<1>4. CASE UNCHANGED vars
  BY <1>4 DEF vars, TypeOK
<1> QED BY <1>1, <1>2, <1>3, <1>4 DEF Next

\* Type correctness of the accounting, for every number of users, tunnels and
\* flushes in flight and every batch size.
THEOREM LedgerTypeCorrect == Spec => []TypeOK
<1> QED BY InitType, NextType, PTL DEF Spec

(***************************************************************************)
(* Bytes in the map are scheduled.  The invariant is not inductive alone:  *)
(* a report that finds the timer running starts no flush and relies on the *)
(* one the timer was started with.  Busy: that flush, or another, is still *)
(* in flight and will set the alarm at its end; otherwise the alarm it set *)
(* comes no earlier than the timer clears.                                 *)
(***************************************************************************)
Busy == \E f \in Slot : flight[f] # NoFlush
TimerCovered == timer > 0 => alarm >= timer \/ Busy
ScheduleInv == PendingIsScheduled /\ TimerCovered

\* A flush in flight, or an alarm at the full interval, covers everything.
LEMMA Covered ==
  ASSUME TypeOK', Busy' \/ alarm' = Interval
  PROVE  ScheduleInv'
BY ConstantsAssumption
   DEF TypeOK, ScheduleInv, PendingIsScheduled, TimerCovered, Busy, NoAlarm

\* Nothing changes for the schedule while the object and the clock stand still.
LEMMA Untouched ==
  ASSUME ScheduleInv, UNCHANGED <<dirty, flight, timer, alarm>>
  PROVE  ScheduleInv'
BY DEF ScheduleInv, PendingIsScheduled, TimerCovered, Busy

\* A flush with m in the map leaves the object busy, or idle with an empty map.
LEMMA FlushSchedules ==
  ASSUME TypeOK, TypeOK', NEW m \in [User -> Nat], StartFlush(m)
  PROVE  /\ ~ \E u \in User : dirty'[u] > 0
         /\ Busy => Busy'
         /\ (\E u \in User : m[u] > 0) => Busy'
<1>1. FlightOK
  BY TypeParts
<1>2. \A u \in User : dirty'[u] = 0
  BY <1>1, StartFlushFacts
<1>3. Busy => Busy'
  BY <1>1, StartFlushFacts DEF Busy
<1>4. (\E u \in User : m[u] > 0) => Busy'
  BY <1>1, StartFlushFacts DEF Busy
<1> QED BY <1>2, <1>3, <1>4

\* Every step keeps the map scheduled.
LEMMA NextSchedule ==
  ASSUME TypeOK, TypeOK', ScheduleInv, [Next]_vars
  PROVE  ScheduleInv'
<1>0. /\ dirty \in [User -> Nat] /\ timer \in Nat /\ timer <= Interval
      /\ alarm \in Int /\ Interval \in Nat
  BY ConstantsAssumption DEF TypeOK, NoAlarm
<1>1. ASSUME NEW t \in Tun, Traffic(t), ~Report(t) PROVE ScheduleInv'
  BY <1>1, Untouched DEF Traffic, Open, Download, UploadStart, UploadDone, UploadFails, Finish,
                         ReportLost, ledger, amounts
<1>2. ASSUME NEW t \in Tun, Report(t) PROVE ScheduleInv'
  <2> DEFINE m == [dirty EXCEPT ![tun[t].user] = @ + tun[t].report]
  <2>1. tun[t].user \in User /\ tun[t].report \in Nat /\ tun[t].report > 0
    BY <1>2 DEF TypeOK, Report
  <2>2. m \in [User -> Nat] /\ m[tun[t].user] > 0
    BY <1>0, <2>1
  <2>3. IF timer > 0 THEN dirty' = m /\ UNCHANGED <<flight, timer, alarm>>
        ELSE StartFlush(m) /\ timer' = Interval
    BY <1>2 DEF Report
  <2> HIDE DEF m
  <2>4. CASE timer > 0
    <3>1. CASE Busy
      <4>1. Busy'
        BY <2>3, <2>4, <3>1 DEF Busy
      <4> QED BY <4>1, Covered
    <3>2. CASE ~Busy
      <4>1. alarm >= timer
        BY <2>4, <3>2 DEF ScheduleInv, TimerCovered
      <4> QED BY <1>0, <2>3, <2>4, <4>1
              DEF ScheduleInv, PendingIsScheduled, TimerCovered, NoAlarm
    <3> QED BY <3>1, <3>2
  <2>5. CASE ~(timer > 0)
    <3>1. Busy'
      BY <2>1, <2>2, <2>3, <2>5, FlushSchedules
    <3> QED BY <3>1, Covered
  <2> QED BY <2>4, <2>5
<1>3. ASSUME NEW f \in Slot, FlushBatch(f) PROVE ScheduleInv'
  <2>1. PICK S \in NextBatch(f) :
          /\ flight' = [flight EXCEPT ![f] = IF flight[f].rest \subseteq S THEN NoFlush
                                             ELSE [flight[f] EXCEPT !.rest = flight[f].rest \ S]]
          /\ alarm' = IF flight[f].rest \subseteq S THEN Interval ELSE alarm
    BY <1>3 DEF FlushBatch
  <2>2. CASE flight[f].rest \subseteq S
    BY <2>1, <2>2, Covered
  <2>3. CASE ~(flight[f].rest \subseteq S)
    <3>1. flight'[f].rest = flight[f].rest \ S
      BY <2>1, <2>3 DEF TypeOK
    <3>2. flight'[f] # NoFlush
      BY <2>3, <3>1 DEF NoFlush
    <3>3. Busy'
      BY <3>2 DEF Busy
    <3> QED BY <3>3, Covered
  <2> QED BY <2>2, <2>3
<1>4. ASSUME NEW f \in Slot, FlushFails(f) \/ FlushAnswerLost(f) PROVE ScheduleInv'
  <2>1. alarm' = Interval
    BY <1>4 DEF FlushFails, FlushAnswerLost, PutBack
  <2> QED BY <2>1, Covered
<1>5. CASE Alarm
  <2>1. alarm = 0 /\ StartFlush(dirty) /\ timer' = timer
    BY <1>5 DEF Alarm
  <2>2. /\ ~ \E u \in User : dirty'[u] > 0
        /\ Busy => Busy'
    BY <1>0, <2>1, FlushSchedules
  <2>3. CASE Busy
    BY <2>2, <2>3, Covered
  <2>4. CASE ~Busy
    <3>1. ~(timer > 0)
      BY <1>0, <2>1, <2>4 DEF ScheduleInv, TimerCovered
    <3> QED BY <2>1, <2>2, <3>1 DEF ScheduleInv, PendingIsScheduled, TimerCovered
  <2> QED BY <2>3, <2>4
<1>6. CASE Tick
  <2>1. /\ dirty' = dirty /\ flight' = flight
        /\ timer' = IF timer > 0 THEN timer - 1 ELSE 0
        /\ alarm' = IF alarm > 0 THEN alarm - 1 ELSE alarm
    BY <1>6 DEF Tick
  <2>2. Busy' <=> Busy
    BY <2>1 DEF Busy
  <2>3. TimerCovered'
    BY <1>0, <2>1, <2>2 DEF ScheduleInv, TimerCovered
  <2>4. alarm # NoAlarm => alarm' # NoAlarm
    BY <1>0, <2>1 DEF NoAlarm
  <2>5. PendingIsScheduled'
    BY <2>1, <2>4 DEF ScheduleInv, PendingIsScheduled
  <2> QED BY <2>3, <2>5 DEF ScheduleInv
<1>7. CASE Crash
  <2>1. timer' = 0 /\ \A u \in User : dirty'[u] = 0
    BY <1>7 DEF Crash, NoBytes
  <2> QED BY <2>1 DEF ScheduleInv, PendingIsScheduled, TimerCovered
<1>8. CASE MaintFlush
  <2>1. StartFlush(dirty) /\ timer' = timer /\ alarm' = alarm
    BY <1>8 DEF MaintFlush
  <2>2. /\ ~ \E u \in User : dirty'[u] > 0
        /\ Busy => Busy'
    BY <1>0, <2>1, FlushSchedules
  <2> QED BY <2>1, <2>2 DEF ScheduleInv, PendingIsScheduled, TimerCovered
<1>9. CASE Admin \/ (\E u \in User : Expire(u)) \/ MaintSelect \/ MaintExpiry
  BY <1>9, Untouched DEF Admin, CreateUser, DeleteUser, ResetTraffic, SetActive, Extend, AdminWrite,
                         Expire, MaintSelect, MaintExpiry, ledger, amounts
<1>10. CASE UNCHANGED vars
  BY <1>10, Untouched DEF vars
<1> QED BY <1>1, <1>2, <1>3, <1>4, <1>5, <1>6, <1>7, <1>8, <1>9, <1>10 DEF Next, Flush

\* Reported traffic is never stranded in the memory of the Durable Object:
\* whenever Ledger.dirty holds bytes, a flush is in flight or the alarm is set.
THEOREM PendingAlwaysScheduled == Spec => []PendingIsScheduled
<1>1. Init => ScheduleInv
  BY DEF Init, ScheduleInv, PendingIsScheduled, TimerCovered, NoBytes
<1>2. TypeOK /\ TypeOK' /\ ScheduleInv /\ [Next]_vars => ScheduleInv'
  BY NextSchedule
<1>3. ScheduleInv => PendingIsScheduled
  BY DEF ScheduleInv
<1> QED BY <1>1, <1>2, <1>3, LedgerTypeCorrect, PTL DEF Spec

(***************************************************************************)
(* Usage recorded in D1 bounds what users are charged.  A reset sets       *)
(* used_bytes to 0, so the bound itself must not be negative.              *)
(***************************************************************************)
UsedInv == UsedWithinDaily /\ \A u \in User : daily[u] + base[u] >= 0

\* A batch adds as much to usage_daily as to used_bytes.
LEMMA CommitUsed ==
  ASSUME TypeOK, UsedInv, NEW f \in Slot, NEW S, Commit(f, S), base' = base
  PROVE  UsedInv'
<1>1. ASSUME NEW u \in User
      PROVE  /\ row[u] \in [there : BOOLEAN, active : BOOLEAN, expired : BOOLEAN, used : Nat]
             /\ daily[u] \in Nat /\ base[u] \in Int /\ flight[f].entries[u] \in Nat
             /\ daily'[u] = daily[u] + (IF u \in S THEN flight[f].entries[u] ELSE 0)
  BY DEF TypeOK, Commit
<1>2. ASSUME NEW u \in User, row'[u].there PROVE row'[u].used <= daily'[u] + base[u]
  <2>1. CASE u \in S /\ row[u].there
    <3>1. row'[u].used = row[u].used + flight[f].entries[u]
      BY <1>1, <2>1 DEF Commit
    <3> QED BY <1>1, <2>1, <3>1 DEF UsedInv, UsedWithinDaily
  <2>2. CASE ~(u \in S /\ row[u].there)
    <3>1. row'[u] = row[u]
      BY <2>2 DEF Commit
    <3> QED BY <1>1, <1>2, <3>1 DEF UsedInv, UsedWithinDaily
  <2> QED BY <2>1, <2>2
<1>3. ASSUME NEW u \in User PROVE daily'[u] + base[u] >= 0
  BY <1>1 DEF UsedInv
<1> QED BY <1>2, <1>3 DEF UsedInv, UsedWithinDaily

\* Every step keeps used_bytes within the usage recorded since the row was created.
LEMMA NextUsed ==
  ASSUME TypeOK, UsedInv, [Next]_vars PROVE UsedInv'
<1>0. /\ \A u \in User : row[u] \in [there : BOOLEAN, active : BOOLEAN, expired : BOOLEAN, used : Nat]
                         /\ daily[u] \in Nat /\ base[u] \in Int
      /\ row \in [User -> [there : BOOLEAN, active : BOOLEAN, expired : BOOLEAN, used : Nat]]
      /\ base \in [User -> Int]
  BY DEF TypeOK
<1>1. ASSUME row' = row, daily' = daily, base' = base PROVE UsedInv'
  BY <1>1 DEF UsedInv, UsedWithinDaily
<1>2. ASSUME NEW f \in Slot, FlushBatch(f) \/ FlushAnswerLost(f) PROVE UsedInv'
  <2>1. base' = base /\ \E S : Commit(f, S)
    BY <1>2 DEF FlushBatch, FlushAnswerLost
  <2> QED BY <2>1, CommitUsed
<1>3. ASSUME NEW u \in User, NEW new, row' = [row EXCEPT ![u] = new], daily' = daily, base' = base,
             new.there => (row[u].there /\ new.used = row[u].used) \/ new.used = 0
      PROVE  UsedInv'
  BY <1>0, <1>3 DEF UsedInv, UsedWithinDaily
<1>4. CASE Admin
  <2>1. ASSUME NEW u \in User, NEW n \in Given, NEW b \in BOOLEAN, CreateUser(u, n, b) PROVE UsedInv'
    <3>1. n \in Nat
      BY ConstantsAssumption
    <3>2. daily' = daily /\ base' = [base EXCEPT ![u] = n - daily[u]]
      BY <2>1 DEF CreateUser, AdminWrite
    <3>3. row' = [row EXCEPT ![u] = [there |-> TRUE, active |-> b, expired |-> FALSE, used |-> n]]
      BY <2>1 DEF CreateUser, AdminWrite
    <3>4. row'[u].used = n /\ base'[u] = n - daily[u] /\ daily'[u] + base'[u] = n
      BY <1>0, <3>1, <3>2, <3>3
    <3>5. \A v \in User : v # u => row'[v] = row[v] /\ base'[v] = base[v] /\ daily'[v] = daily[v]
      BY <1>0, <3>2, <3>3
    <3> QED BY <3>1, <3>4, <3>5 DEF UsedInv, UsedWithinDaily
  <2>2. ASSUME NEW u \in User, DeleteUser(u) PROVE UsedInv'
    <3>1. ~[row[u] EXCEPT !.there = FALSE].there
      BY <1>0
    <3> QED BY <1>3, <2>2, <3>1 DEF DeleteUser, AdminWrite
  <2>3. ASSUME NEW u \in User, ResetTraffic(u) PROVE UsedInv'
    <3>1. [row[u] EXCEPT !.used = 0].used = 0
      BY <1>0
    <3> QED BY <1>3, <2>3, <3>1 DEF ResetTraffic, AdminWrite
  <2>4. ASSUME NEW u \in User, NEW b \in BOOLEAN, SetActive(u, b) PROVE UsedInv'
    <3>1. [row[u] EXCEPT !.active = b].used = row[u].used
      BY <1>0
    <3> QED BY <1>3, <2>4, <3>1 DEF SetActive, AdminWrite
  <2>5. ASSUME NEW u \in User, NEW b \in BOOLEAN, Extend(u, b) PROVE UsedInv'
    <3>1. [row[u] EXCEPT !.expired = b /\ @].used = row[u].used
      BY <1>0
    <3> QED BY <1>3, <2>5, <3>1 DEF Extend, AdminWrite
  <2> QED BY <1>4, <2>1, <2>2, <2>3, <2>4, <2>5 DEF Admin
<1>5. ASSUME NEW u \in User, Expire(u) PROVE UsedInv'
  <2>1. [row[u] EXCEPT !.expired = TRUE].used = row[u].used
    BY <1>0
  <2> QED BY <1>3, <1>5, <2>1 DEF Expire
<1>6. CASE MaintExpiry
  <2>1. PICK S \in SUBSET maint.due :
          row' = [u \in User |-> IF u \in S /\ row[u].there THEN Maintained(u) ELSE row[u]]
    BY <1>6 DEF MaintExpiry, kSubset
  <2>2. maint.policy \in Policy /\ daily' = daily /\ base' = base
    BY <1>6 DEF MaintExpiry, TypeOK
  <2>3. ASSUME NEW u \in User, row[u].there, Maintained(u).there PROVE Maintained(u).used \in {row[u].used, 0}
    BY <1>0, <2>2 DEF Maintained, Policy
  <2>4. ASSUME NEW u \in User, row'[u].there PROVE row[u].there /\ row'[u].used \in {row[u].used, 0}
    BY <1>0, <2>1, <2>3, <2>4
  <2> QED BY <1>0, <2>2, <2>4 DEF UsedInv, UsedWithinDaily
<1>7. ASSUME NEW f \in Slot, FlushFails(f) PROVE UsedInv'
  BY <1>1, <1>7 DEF FlushFails
<1>8. ASSUME NEW t \in Tun, Traffic(t) PROVE UsedInv'
  BY <1>1, <1>8 DEF Traffic, Open, Download, UploadStart, UploadDone, UploadFails, Finish, ReportLost, Report
<1>9. CASE Alarm \/ Tick \/ Crash \/ MaintSelect \/ MaintFlush \/ UNCHANGED vars
  BY <1>1, <1>9 DEF Alarm, Tick, Crash, MaintSelect, MaintFlush, vars
<1> QED BY <1>2, <1>4, <1>5, <1>6, <1>7, <1>8, <1>9 DEF Next, Flush

\* Resets, renewals, deletions and rows created again under the same name, with
\* whatever usage the request names, never leave a user charged for more than
\* that and the usage recorded since, whatever flushes of older traffic are in
\* flight and whatever answers of D1 are lost.
THEOREM ChargesAreRecorded == Spec => []UsedWithinDaily
<1>1. Init => UsedInv
  BY DEF Init, UsedInv, UsedWithinDaily, NoBytes
<1>2. TypeOK /\ UsedInv /\ [Next]_vars => UsedInv'
  BY NextUsed
<1>3. UsedInv => UsedWithinDaily
  BY DEF UsedInv
<1> QED BY <1>1, <1>2, <1>3, LedgerTypeCorrect, PTL DEF Spec

(***************************************************************************)
(* The balance of a user: what D1 has, what the object holds, what tunnels *)
(* have still to report and what is gone.  Every step adds to it what it   *)
(* adds to the bytes relayed and to those a flush puts back although they  *)
(* are in D1.                                                              *)
(***************************************************************************)

\* A tunnel has nothing to report before it ends and has counted nothing before it opens.
TunnelInv ==
  \A t \in Tun : /\ tun[t].pc = "new" => tun[t].count = 0 /\ tun[t].report = 0 /\ ~tun[t].writing
                 /\ tun[t].pc = "open" => tun[t].report = 0

Known(u) == daily[u] + Held(u) + Unreported(u) + gone[u]
Balanced(u) == Known(u)' = Known(u) + (relayed'[u] - relayed[u]) + (again'[u] - again[u])

LEMMA BalanceTypes ==
  ASSUME TypeOK, NEW u \in User
  PROVE  /\ Taken(u) \in [Slot -> Nat] /\ Counted(u) \in [Tun -> Nat]
         /\ SumFunction(Taken(u)) \in Nat /\ SumFunction(Counted(u)) \in Nat
         /\ daily[u] \in Nat /\ relayed[u] \in Nat /\ dirty[u] \in Nat
         /\ again[u] \in Nat /\ gone[u] \in Nat
<1>1. /\ \A f \in Slot : flight[f].entries[u] \in Nat
      /\ \A t \in Tun : tun[t].count \in Nat /\ tun[t].report \in Nat
      /\ daily[u] \in Nat /\ relayed[u] \in Nat /\ dirty[u] \in Nat
      /\ again[u] \in Nat /\ gone[u] \in Nat
  BY DEF TypeOK
<1>2. Taken(u) \in [Slot -> Nat] /\ Counted(u) \in [Tun -> Nat]
  BY <1>1 DEF Taken, Counted
<1> QED BY <1>1, <1>2, SumNatural, ConstantsAssumption

\* One tunnel's record changes.
LEMMA CountChange ==
  ASSUME TypeOK, TypeOK', NEW u \in User, NEW t \in Tun, \A x \in Tun : x # t => tun'[x] = tun[x]
  PROVE  Unreported(u)' = Unreported(u) + (Counted(u)'[t] - Counted(u)[t])
<1>1. Counted(u) \in [Tun -> Int] /\ Counted(u)' \in [Tun -> Int]
  <2>1. Counted(u) \in [Tun -> Nat]
    BY BalanceTypes
  <2>2. Counted(u)' \in [Tun -> Nat]
    <3>1. \A x \in Tun : tun'[x].count \in Nat /\ tun'[x].report \in Nat
      BY DEF TypeOK
    <3> QED BY <3>1 DEF Counted
  <2> QED BY <2>1, <2>2
<1>2. \A x \in Tun : x # t => Counted(u)'[x] = Counted(u)[x]
  BY DEF Counted
<1>3. SumFunction(Counted(u)') = SumFunction(Counted(u)) + (Counted(u)'[t] - Counted(u)[t])
  BY <1>1, <1>2, SumChange, ConstantsAssumption
<1> QED BY <1>3 DEF Unreported

\* One flush changes.
LEMMA TakenChange ==
  ASSUME TypeOK, TypeOK', NEW u \in User, NEW f \in Slot, \A x \in Slot : x # f => flight'[x] = flight[x]
  PROVE  SumFunction(Taken(u))' = SumFunction(Taken(u)) + (Taken(u)'[f] - Taken(u)[f])
<1>1. Taken(u) \in [Slot -> Int] /\ Taken(u)' \in [Slot -> Int]
  <2>1. Taken(u) \in [Slot -> Nat]
    BY BalanceTypes
  <2>2. Taken(u)' \in [Slot -> Nat]
    <3>1. \A x \in Slot : flight'[x].entries[u] \in Nat
      BY DEF TypeOK
    <3> QED BY <3>1 DEF Taken
  <2> QED BY <2>1, <2>2
<1>2. \A x \in Slot : x # f => Taken(u)'[x] = Taken(u)[x]
  BY DEF Taken
<1>3. SumFunction(Taken(u)') = SumFunction(Taken(u)) + (Taken(u)'[f] - Taken(u)[f])
  BY <1>1, <1>2, SumChange, ConstantsAssumption
<1> QED BY <1>3

LEMMA SameFlights == ASSUME NEW u \in User, flight' = flight PROVE SumFunction(Taken(u))' = SumFunction(Taken(u))
<1>1. Taken(u)' = Taken(u)
  BY DEF Taken
<1> QED BY <1>1

LEMMA SameTunnels == ASSUME NEW u \in User, tun' = tun PROVE Unreported(u)' = Unreported(u)
<1>1. Counted(u)' = Counted(u)
  BY DEF Counted
<1> QED BY <1>1 DEF Unreported

\* A flush that starts moves what is in the map, and nothing else.
LEMMA FlushMoves ==
  ASSUME TypeOK, TypeOK', NEW m \in [User -> Nat], StartFlush(m), NEW u \in User
  PROVE  Held(u)' = m[u] + SumFunction(Taken(u))
<1>1. CASE Keys(m) = {}
  BY <1>1, SameFlights DEF StartFlush, Held
<1>2. CASE Keys(m) # {}
  <2>1. PICK f \in Slot : /\ flight[f] = NoFlush
                          /\ flight' = [flight EXCEPT ![f] = [entries |-> m, rest |-> Keys(m)]]
                          /\ dirty' = NoBytes
    BY <1>2 DEF StartFlush
  <2>2. flight'[f] = [entries |-> m, rest |-> Keys(m)] /\ \A x \in Slot : x # f => flight'[x] = flight[x]
    BY <2>1 DEF TypeOK
  <2>3. Taken(u)[f] = 0
    BY <2>1 DEF Taken, NoFlush
  <2>4. Taken(u)'[f] = m[u]
    BY <2>2 DEF Taken, Keys
  <2>5. dirty'[u] = 0
    BY <2>1 DEF NoBytes
  <2>6. SumFunction(Taken(u))' = SumFunction(Taken(u)) + m[u]
    BY <2>2, <2>3, <2>4, TakenChange
  <2> QED BY <2>5, <2>6, BalanceTypes DEF Held
<1> QED BY <1>1, <1>2

\* A tunnel's steps.
LEMMA TrafficBalance ==
  ASSUME TypeOK, TypeOK', TunnelInv, NEW t \in Tun, Traffic(t), NEW u \in User
  PROVE  Balanced(u)
<1>0. /\ daily[u] \in Nat /\ relayed[u] \in Nat /\ dirty[u] \in Nat /\ SumFunction(Taken(u)) \in Nat
      /\ Unreported(u) \in Nat /\ Held(u) \in Nat /\ again[u] \in Nat /\ gone[u] \in Nat
  BY BalanceTypes DEF Unreported, Held
<1>00. tun[t] \in TunRec /\ tun \in [Tun -> TunRec] /\ relayed \in [User -> Nat] /\ gone \in [User -> Nat] /\ tun[t].user \in User
       /\ tun[t].count \in Nat /\ tun[t].report \in Nat
  BY DEF TypeOK, TunRec
<1> DEFINE Other(x) == \A y \in Tun : y # x => tun'[y] = tun[y]
<1>1. ASSUME daily' = daily, dirty' = dirty, flight' = flight, again' = again, Other(t),
             Counted(u)'[t] + gone'[u] = Counted(u)[t] + gone[u] + (relayed'[u] - relayed[u]),
             relayed'[u] \in Nat, gone'[u] \in Nat, Counted(u)'[t] \in Nat
      PROVE  Balanced(u)
  <2>1. Held(u)' = Held(u)
    BY <1>1, SameFlights DEF Held
  <2>2. Unreported(u)' = Unreported(u) + (Counted(u)'[t] - Counted(u)[t])
    BY <1>1, CountChange
  <2>3. Counted(u)[t] \in Nat
    BY BalanceTypes
  <2>4. Known(u)' = daily[u] + Held(u) + Unreported(u)' + gone'[u]
    BY <1>1, <2>1 DEF Known
  <2>5. again'[u] - again[u] = 0
    BY <1>0, <1>1
  <2>6. Known(u) \in Int /\ Known(u) = daily[u] + Held(u) + Unreported(u) + gone[u]
    BY <1>0 DEF Known
  <2>7. Unreported(u)' + gone'[u] = Unreported(u) + gone[u] + (relayed'[u] - relayed[u])
    BY <1>0, <1>1, <2>2, <2>3
  <2>8. Unreported(u)' \in Int
    BY <1>0, <1>1, <2>2, <2>3
  <2>9. Known(u)' = Known(u) + (relayed'[u] - relayed[u])
    BY <1>0, <1>1, <2>4, <2>6, <2>7, <2>8
  <2> QED BY <1>0, <1>1, <2>5, <2>6, <2>9 DEF Balanced
<1>2. ASSUME NEW v \in User, Open(t, v) PROVE Balanced(u)
  <2>1. /\ tun[t].pc = "new" /\ tun' = [tun EXCEPT ![t] = [tun[t] EXCEPT !.pc = "open", !.user = v]]
        /\ daily' = daily /\ dirty' = dirty /\ flight' = flight
        /\ relayed' = relayed /\ again' = again /\ gone' = gone
    BY <1>2 DEF Open, ledger, amounts
  <2>2. tun'[t].count = 0 /\ tun'[t].pc = "open" /\ tun[t].report = 0 /\ Other(t)
    BY <1>00, <2>1 DEF TunRec, TunnelInv
  <2>3. Counted(u)[t] = 0 /\ Counted(u)'[t] = 0
    BY <2>1, <2>2 DEF Counted
  <2> QED BY <1>0, <1>1, <2>1, <2>2, <2>3
<1>3. CASE Download(t)
  <2>1. /\ tun[t].pc = "open"
        /\ tun' = [tun EXCEPT ![t] = [tun[t] EXCEPT !.down = tun[t].down + 1, !.count = tun[t].count + 1]]
        /\ relayed' = [relayed EXCEPT ![tun[t].user] = @ + 1]
        /\ daily' = daily /\ dirty' = dirty /\ flight' = flight /\ again' = again /\ gone' = gone
    BY <1>3 DEF Download, ledger, amounts
  <2>2. tun'[t].count = tun[t].count + 1 /\ tun'[t].pc = "open" /\ tun'[t].user = tun[t].user /\ Other(t)
    BY <1>00, <2>1 DEF TunRec
  <2>3. relayed'[u] = relayed[u] + (IF tun[t].user = u THEN 1 ELSE 0)
    BY <1>0, <1>00, <2>1
  <2>4. Counted(u)'[t] = Counted(u)[t] + (IF tun[t].user = u THEN 1 ELSE 0)
    BY <1>00, <2>1, <2>2 DEF Counted
  <2>5. Counted(u)[t] \in Nat
    BY BalanceTypes
  <2>6. /\ Counted(u)'[t] + gone'[u] = Counted(u)[t] + gone[u] + (relayed'[u] - relayed[u])
        /\ relayed'[u] \in Nat /\ Counted(u)'[t] \in Nat
    BY <1>0, <2>1, <2>3, <2>4, <2>5
  <2> QED BY <1>0, <1>1, <2>1, <2>2, <2>6
<1>4. CASE UploadStart(t) \/ UploadFails(t)
  <2>1. /\ \E up \in Nat, w \in BOOLEAN : tun' = [tun EXCEPT ![t] = [tun[t] EXCEPT !.up = up, !.writing = w]]
        /\ daily' = daily /\ dirty' = dirty /\ flight' = flight
        /\ relayed' = relayed /\ again' = again /\ gone' = gone
    <3>1. CASE UploadStart(t)
      <4>1. tun[t].up + 1 \in Nat
        BY <1>00 DEF TunRec
      <4> QED BY <3>1, <4>1 DEF UploadStart, ledger, amounts
    <3>2. CASE UploadFails(t)
      <4>1. [tun[t] EXCEPT !.writing = FALSE] = [tun[t] EXCEPT !.up = tun[t].up, !.writing = FALSE] /\ tun[t].up \in Nat
        BY <1>00 DEF TunRec
      <4> QED BY <3>2, <4>1 DEF UploadFails, ledger, amounts
    <3> QED BY <1>4, <3>1, <3>2
  <2>2. /\ tun'[t].count = tun[t].count /\ tun'[t].pc = tun[t].pc /\ tun'[t].user = tun[t].user
        /\ tun'[t].report = tun[t].report /\ Other(t)
    BY <1>00, <2>1 DEF TunRec
  <2>3. Counted(u)'[t] = Counted(u)[t] /\ Counted(u)[t] \in Nat
    BY <2>2, BalanceTypes DEF Counted
  <2> QED BY <1>0, <1>1, <2>1, <2>2, <2>3
<1>5. CASE UploadDone(t)
  <2>1. /\ tun[t].writing
        /\ tun' = [tun EXCEPT ![t] = [tun[t] EXCEPT !.writing = FALSE, !.count = tun[t].count + 1]]
        /\ relayed' = [relayed EXCEPT ![tun[t].user] = @ + 1]
        /\ gone' = IF tun[t].pc = "open" THEN gone ELSE [gone EXCEPT ![tun[t].user] = @ + 1]
        /\ daily' = daily /\ dirty' = dirty /\ flight' = flight /\ again' = again
    BY <1>5 DEF UploadDone, ledger
  <2>2. /\ tun'[t].count = tun[t].count + 1 /\ tun'[t].pc = tun[t].pc /\ tun'[t].user = tun[t].user
        /\ tun'[t].report = tun[t].report /\ Other(t)
    BY <1>00, <2>1 DEF TunRec
  <2>3. relayed'[u] = relayed[u] + (IF tun[t].user = u THEN 1 ELSE 0)
    BY <1>0, <1>00, <2>1
  <2>4. Counted(u)'[t] = Counted(u)[t] + (IF tun[t].user = u /\ tun[t].pc = "open" THEN 1 ELSE 0)
    BY <1>00, <2>2 DEF Counted
  <2>5. gone'[u] = gone[u] + (IF tun[t].user = u /\ tun[t].pc # "open" THEN 1 ELSE 0)
    BY <1>0, <1>00, <2>1
  <2>6. Counted(u)[t] \in Nat
    BY BalanceTypes
  <2>7. /\ Counted(u)'[t] + gone'[u] = Counted(u)[t] + gone[u] + (relayed'[u] - relayed[u])
        /\ relayed'[u] \in Nat /\ gone'[u] \in Nat /\ Counted(u)'[t] \in Nat
    BY <1>0, <2>3, <2>4, <2>5, <2>6
  <2> QED BY <1>1, <2>1, <2>2, <2>7
<1>6. CASE Finish(t)
  <2>1. /\ tun[t].pc = "open" /\ tun' = [tun EXCEPT ![t] = [tun[t] EXCEPT !.pc = "finished", !.report = tun[t].count]]
        /\ daily' = daily /\ dirty' = dirty /\ flight' = flight
        /\ relayed' = relayed /\ again' = again /\ gone' = gone
    BY <1>6 DEF Finish, ledger, amounts
  <2>2. tun'[t].report = tun[t].count /\ tun'[t].pc = "finished" /\ tun'[t].user = tun[t].user /\ Other(t)
    BY <1>00, <2>1 DEF TunRec
  <2>3. Counted(u)'[t] = Counted(u)[t] /\ Counted(u)[t] \in Nat
    BY <2>1, <2>2, BalanceTypes DEF Counted
  <2> QED BY <1>0, <1>1, <2>1, <2>2, <2>3
<1>7. ASSUME tun[t].report > 0, tun' = [tun EXCEPT ![t].report = 0]
      PROVE  /\ Counted(u)'[t] = 0 /\ Counted(u)[t] = IF tun[t].user = u THEN tun[t].report ELSE 0
             /\ Other(t)
  <2>1. tun[t].pc # "open"
    BY <1>00, <1>7 DEF TunnelInv
  <2>2. tun'[t].report = 0 /\ tun'[t].pc = tun[t].pc /\ tun'[t].user = tun[t].user /\ Other(t)
    BY <1>00, <1>7 DEF TunRec
  <2> QED BY <2>1, <2>2 DEF Counted
<1>8. CASE ReportLost(t)
  <2>1. /\ tun[t].report > 0 /\ tun' = [tun EXCEPT ![t].report = 0]
        /\ gone' = [gone EXCEPT ![tun[t].user] = @ + tun[t].report]
        /\ daily' = daily /\ dirty' = dirty /\ flight' = flight /\ relayed' = relayed /\ again' = again
    BY <1>8 DEF ReportLost, ledger
  <2>2. gone'[u] = gone[u] + (IF tun[t].user = u THEN tun[t].report ELSE 0) /\ gone'[u] \in Nat
    BY <1>0, <1>00, <2>1
  <2>3. Counted(u)'[t] + gone'[u] = Counted(u)[t] + gone[u] + (relayed'[u] - relayed[u]) /\ Counted(u)'[t] \in Nat
    BY <1>0, <1>00, <1>7, <2>1, <2>2
  <2> QED BY <1>0, <1>1, <1>7, <2>1, <2>2, <2>3
<1>9. CASE Report(t)
  <2>1. PICK m : m = [dirty EXCEPT ![tun[t].user] = @ + tun[t].report]
    OBVIOUS
  <2>2. /\ tun[t].report > 0 /\ tun' = [tun EXCEPT ![t].report = 0]
        /\ IF timer > 0 THEN dirty' = m /\ UNCHANGED <<flight, timer>>
           ELSE StartFlush(m) /\ timer' = Interval
        /\ daily' = daily /\ relayed' = relayed /\ again' = again /\ gone' = gone
    BY <1>9, <2>1 DEF Report, amounts
  <2>3. m \in [User -> Nat] /\ m[u] = dirty[u] + (IF tun[t].user = u THEN tun[t].report ELSE 0)
    BY <1>0, <1>00, <2>1 DEF TypeOK
  <2>4. Held(u)' = m[u] + SumFunction(Taken(u))
    <3>1. CASE timer > 0
      BY <2>2, <3>1, SameFlights DEF Held
    <3>2. CASE ~(timer > 0)
      BY <2>2, <2>3, <3>2, FlushMoves
    <3> QED BY <3>1, <3>2
  <2>5. Unreported(u)' = Unreported(u) + (0 - (IF tun[t].user = u THEN tun[t].report ELSE 0))
    BY <1>7, <2>2, CountChange
  <2>6. Known(u)' = daily[u] + Held(u)' + Unreported(u)' + gone[u]
    BY <2>2 DEF Known
  <2>7. Known(u)' = Known(u) /\ Known(u) \in Int
    BY <1>0, <1>00, <2>3, <2>4, <2>5, <2>6 DEF Known, Held
  <2> QED BY <1>0, <2>2, <2>7 DEF Balanced
<1> QED BY <1>2, <1>3, <1>4, <1>5, <1>6, <1>8, <1>9 DEF Traffic

\* A batch that is carried out takes its users' bytes from what a flush holds to D1.
LEMMA CommitMoves ==
  ASSUME TypeOK, NEW f \in Slot, NEW S \in SUBSET flight[f].rest, Commit(f, S), NEW u \in User
  PROVE  /\ daily'[u] = daily[u] + (IF u \in S THEN flight[f].entries[u] ELSE 0)
         /\ daily'[u] \in Nat /\ flight[f].entries[u] \in Nat
         /\ Taken(u)[f] = IF u \in flight[f].rest THEN flight[f].entries[u] ELSE 0
<1>1. daily[u] \in Nat /\ flight[f].entries[u] \in Nat
  BY DEF TypeOK
<1> QED BY <1>1 DEF Commit, Taken

\* A flush that gives up puts back what it still holds, and what of it is in D1.
LEMMA PutBackMoves ==
  ASSUME TypeOK, TypeOK', NEW f \in Slot, NEW left \in SUBSET flight[f].rest, PutBack(f, left), NEW u \in User
  PROVE  Held(u)' + (IF u \in flight[f].rest \ left THEN flight[f].entries[u] ELSE 0)
           = Held(u) + (again'[u] - again[u])
<1>0. flight[f].entries[u] \in Nat
  BY DEF TypeOK
<1>1. /\ dirty[u] \in Nat /\ again[u] \in Nat /\ flight[f].entries[u] \in Nat /\ SumFunction(Taken(u)) \in Nat
      /\ Taken(u)[f] = IF u \in flight[f].rest THEN flight[f].entries[u] ELSE 0
  BY <1>0, BalanceTypes DEF Taken
<1>2. /\ dirty'[u] = dirty[u] + flight[f].entries[u]
      /\ again'[u] = again[u] + (IF u \in left THEN 0 ELSE flight[f].entries[u])
      /\ flight'[f] = NoFlush /\ \A x \in Slot : x # f => flight'[x] = flight[x]
  BY DEF PutBack, Plus, TypeOK
<1>3. Taken(u)'[f] = 0
  BY <1>2 DEF Taken, NoFlush
<1>4. SumFunction(Taken(u))' = SumFunction(Taken(u)) + (0 - Taken(u)[f])
  BY <1>2, <1>3, TakenChange
<1>5. Held(u)' = dirty'[u] + SumFunction(Taken(u))'
  BY DEF Held
<1>6. u \in left => u \in flight[f].rest
  OBVIOUS
<1> QED BY <1>1, <1>2, <1>4, <1>5, <1>6 DEF Held

\* The steps of the object and of everybody else.
LEMMA ObjectBalance ==
  ASSUME TypeOK, TypeOK', NEW u \in User, Flush \/ Alarm \/ Tick \/ Crash \/ MaintFlush
  PROVE  Balanced(u)
<1>0. /\ daily[u] \in Nat /\ relayed[u] \in Nat /\ dirty[u] \in Nat /\ SumFunction(Taken(u)) \in Nat
      /\ Unreported(u) \in Nat /\ Held(u) \in Nat /\ again[u] \in Nat /\ gone[u] \in Nat
      /\ again'[u] \in Nat /\ gone'[u] \in Nat
  BY BalanceTypes DEF Unreported, Held, TypeOK
<1>1. tun' = tun /\ relayed' = relayed
  BY DEF Flush, FlushBatch, FlushFails, FlushAnswerLost, Alarm, Tick, Crash, MaintFlush, amounts
<1>2. ASSUME daily'[u] \in Nat, Held(u)' \in Nat,
             daily'[u] + Held(u)' + gone'[u] = daily[u] + Held(u) + gone[u] + (again'[u] - again[u])
      PROVE  Balanced(u)
  <2>1. Known(u)' = daily'[u] + Held(u)' + Unreported(u) + gone'[u]
    BY <1>1, SameTunnels DEF Known
  <2>2. Known(u)' = Known(u) + (again'[u] - again[u])
    BY <1>0, <1>2, <2>1 DEF Known
  <2>3. Known(u) \in Int /\ relayed'[u] - relayed[u] = 0
    BY <1>0, <1>1 DEF Known
  <2> QED BY <1>0, <2>2, <2>3 DEF Balanced
<1>3. Held(u)' \in Nat
  <2>1. /\ \A x \in Slot : flight'[x].entries[u] \in Nat
        /\ dirty'[u] \in Nat
    BY DEF TypeOK
  <2>2. Taken(u)' \in [Slot -> Nat]
    BY <2>1 DEF Taken
  <2>3. SumFunction(Taken(u)') \in Nat
    BY <2>2, SumNatural, ConstantsAssumption
  <2> QED BY <2>1, <2>3 DEF Held
<1>4. daily'[u] \in Nat
  BY DEF TypeOK
<1>5. ASSUME NEW f \in Slot, FlushBatch(f) PROVE Balanced(u)
  <2>1. PICK S \in NextBatch(f) :
          /\ Commit(f, S)
          /\ flight' = [flight EXCEPT ![f] = IF flight[f].rest \subseteq S THEN NoFlush
                                             ELSE [flight[f] EXCEPT !.rest = flight[f].rest \ S]]
    BY <1>5 DEF FlushBatch
  <2>2. S \in SUBSET flight[f].rest
    BY DEF NextBatch, kSubset
  <2>3. /\ \A x \in Slot : x # f => flight'[x] = flight[x]
        /\ flight'[f].rest = flight[f].rest \ S
        /\ ~(flight[f].rest \subseteq S) => flight'[f].entries = flight[f].entries
    BY <2>1, <2>2 DEF TypeOK, NoFlush
  <2>4. /\ daily'[u] = daily[u] + (IF u \in S THEN flight[f].entries[u] ELSE 0)
        /\ flight[f].entries[u] \in Nat
        /\ Taken(u)[f] = IF u \in flight[f].rest THEN flight[f].entries[u] ELSE 0
    BY <2>1, <2>2, CommitMoves
  <2>5. Taken(u)'[f] = Taken(u)[f] - (IF u \in S THEN flight[f].entries[u] ELSE 0)
    BY <2>2, <2>3, <2>4 DEF Taken
  <2>6. SumFunction(Taken(u))' = SumFunction(Taken(u)) + (Taken(u)'[f] - Taken(u)[f])
    BY <2>3, TakenChange
  <2>7. Held(u)' = dirty[u] + SumFunction(Taken(u))' /\ again' = again /\ gone' = gone
    BY <1>5 DEF FlushBatch, Held, amounts
  <2>8. daily'[u] + Held(u)' + gone'[u] = daily[u] + Held(u) + gone[u] + (again'[u] - again[u])
    BY <1>0, <2>4, <2>5, <2>6, <2>7 DEF Held
  <2> QED BY <1>2, <1>3, <1>4, <2>8
<1>6. ASSUME NEW f \in Slot, FlushFails(f) PROVE Balanced(u)
  <2>1. PutBack(f, flight[f].rest) /\ daily' = daily /\ gone' = gone
    BY <1>6 DEF FlushFails
  <2>2. Held(u)' + (IF u \in flight[f].rest \ flight[f].rest THEN flight[f].entries[u] ELSE 0)
          = Held(u) + (again'[u] - again[u])
    BY <2>1, PutBackMoves
  <2>3. Held(u)' = Held(u) + (again'[u] - again[u])
    BY <1>3, <2>2
  <2> QED BY <1>0, <1>2, <1>3, <1>4, <2>1, <2>3
<1>7. ASSUME NEW f \in Slot, FlushAnswerLost(f) PROVE Balanced(u)
  <2>1. PICK S \in NextBatch(f) : Commit(f, S) /\ PutBack(f, flight[f].rest \ S)
    BY <1>7 DEF FlushAnswerLost
  <2>2. gone' = gone
    BY <1>7 DEF FlushAnswerLost
  <2>3. S \in SUBSET flight[f].rest
    BY DEF NextBatch, kSubset
  <2>4. daily'[u] = daily[u] + (IF u \in S THEN flight[f].entries[u] ELSE 0) /\ flight[f].entries[u] \in Nat
    BY <2>1, <2>3, CommitMoves
  <2>5. flight[f].rest \ (flight[f].rest \ S) = S
    BY <2>3
  <2>6. Held(u)' + (IF u \in flight[f].rest \ (flight[f].rest \ S) THEN flight[f].entries[u] ELSE 0)
          = Held(u) + (again'[u] - again[u])
    BY <2>1, PutBackMoves
  <2>7. Held(u)' + (IF u \in S THEN flight[f].entries[u] ELSE 0) = Held(u) + (again'[u] - again[u])
    BY <2>5, <2>6
  <2> QED BY <1>0, <1>2, <1>3, <1>4, <2>2, <2>4, <2>7
<1>8. CASE Alarm \/ MaintFlush
  <2>1. /\ StartFlush(dirty) /\ daily' = daily /\ dirty \in [User -> Nat]
        /\ again' = again /\ gone' = gone
    BY <1>8 DEF Alarm, MaintFlush, TypeOK, amounts
  <2>2. Held(u)' = dirty[u] + SumFunction(Taken(u))
    BY <2>1, FlushMoves
  <2>3. daily'[u] + Held(u)' + gone'[u] = daily[u] + Held(u) + gone[u] + (again'[u] - again[u])
    BY <1>0, <2>1, <2>2 DEF Held
  <2> QED BY <1>2, <1>3, <1>4, <2>3
<1>9. CASE Tick
  <2>1. daily' = daily /\ dirty' = dirty /\ flight' = flight /\ again' = again /\ gone' = gone
    BY <1>9 DEF Tick, amounts
  <2>2. Held(u)' = Held(u)
    BY <2>1, SameFlights DEF Held
  <2> QED BY <1>0, <1>2, <1>3, <1>4, <2>1, <2>2
<1>10. CASE Crash
  <2>1. /\ dirty' = NoBytes /\ flight' = [f \in Slot |-> NoFlush] /\ daily' = daily /\ again' = again
        /\ gone'[u] = gone[u] + Held(u)
    BY <1>10 DEF Crash
  <2>2. Taken(u)' = [f \in Slot |-> 0]
    BY <2>1 DEF Taken, NoFlush
  <2>3. SumFunction([f \in Slot |-> 0]) = 0
    <3>1. [f \in Slot |-> 0] \in [Slot -> Nat] /\ \A x \in Slot : [f \in Slot |-> 0][x] = 0
      OBVIOUS
    <3> QED BY <3>1, SumNatural, ConstantsAssumption
  <2>4. Held(u)' = 0
    BY <2>1, <2>2, <2>3 DEF Held, NoBytes
  <2> QED BY <1>0, <1>2, <1>4, <2>1, <2>4
<1> QED BY <1>5, <1>6, <1>7, <1>8, <1>9, <1>10 DEF Flush

\* Every step keeps the balance.
LEMMA NextBalance ==
  ASSUME TypeOK, TypeOK', TunnelInv, [Next]_vars, NEW u \in User
  PROVE  Balanced(u)
<1>1. ASSUME NEW t \in Tun, Traffic(t) PROVE Balanced(u)
  BY <1>1, TrafficBalance
<1>2. CASE Flush \/ Alarm \/ Tick \/ Crash \/ MaintFlush
  BY <1>2, ObjectBalance
<1>3. CASE Admin \/ (\E v \in User : Expire(v)) \/ MaintSelect \/ MaintExpiry \/ UNCHANGED vars
  <2>1. /\ daily' = daily /\ dirty' = dirty /\ flight' = flight /\ tun' = tun
        /\ relayed' = relayed /\ again' = again /\ gone' = gone
    BY <1>3 DEF Admin, CreateUser, DeleteUser, ResetTraffic, SetActive, Extend, AdminWrite, Expire, MaintSelect,
                MaintExpiry, ledger, amounts, vars
  <2>2. Known(u)' = Known(u)
    BY <2>1, SameFlights, SameTunnels DEF Known, Held
  <2>3. Known(u) \in Nat /\ relayed[u] \in Nat /\ again[u] \in Nat
    BY BalanceTypes DEF Known, Held, Unreported
  <2> QED BY <2>1, <2>2, <2>3 DEF Balanced
<1> QED BY <1>1, <1>2, <1>3 DEF Next

\* Every step keeps what is known of tunnels.
LEMMA NextTunnel == ASSUME TypeOK, TunnelInv, [Next]_vars PROVE TunnelInv'
<1>1. ASSUME tun' = tun PROVE TunnelInv'
  BY <1>1 DEF TunnelInv
<1>2. ASSUME NEW t \in Tun, NEW v, tun' = [tun EXCEPT ![t] = v],
             /\ v.pc = "new" => v.count = 0 /\ v.report = 0 /\ ~v.writing
             /\ v.pc = "open" => v.report = 0
      PROVE  TunnelInv'
  BY <1>2 DEF TunnelInv, TypeOK
<1>3. ASSUME NEW t \in Tun, Traffic(t) PROVE TunnelInv'
  <2>0. /\ tun[t] \in TunRec
        /\ tun[t].pc = "new" => tun[t].count = 0 /\ tun[t].report = 0 /\ ~tun[t].writing
        /\ tun[t].pc = "open" => tun[t].report = 0
    BY DEF TypeOK, TunRec, TunnelInv
  <2>1. ASSUME NEW u \in User, Open(t, u) PROVE TunnelInv'
    <3>1. PICK v : v = [tun[t] EXCEPT !.pc = "open", !.user = u]
      OBVIOUS
    <3>2. v.pc = "open" /\ v.report = tun[t].report /\ v.writing = tun[t].writing
      BY <2>0, <3>1 DEF TunRec
    <3> QED BY <1>2, <2>0, <2>1, <3>1, <3>2 DEF Open
  <2>2. CASE Download(t)
    <3>1. PICK v : v = [tun[t] EXCEPT !.down = tun[t].down + 1, !.count = tun[t].count + 1]
      OBVIOUS
    <3>2. v.pc = tun[t].pc /\ v.report = tun[t].report /\ v.writing = tun[t].writing
      BY <2>0, <3>1 DEF TunRec
    <3> QED BY <1>2, <2>0, <2>2, <3>1, <3>2 DEF Download
  <2>3. CASE UploadStart(t)
    <3>1. PICK v : v = [tun[t] EXCEPT !.up = tun[t].up + 1, !.writing = TRUE]
      OBVIOUS
    <3>2. v.pc = tun[t].pc /\ v.report = tun[t].report
      BY <2>0, <3>1 DEF TunRec
    <3> QED BY <1>2, <2>0, <2>3, <3>1, <3>2 DEF UploadStart
  <2>4. CASE UploadDone(t)
    <3>1. PICK v : v = [tun[t] EXCEPT !.writing = FALSE, !.count = tun[t].count + 1]
      OBVIOUS
    <3>2. v.pc = tun[t].pc /\ v.report = tun[t].report /\ ~v.writing
      BY <2>0, <3>1 DEF TunRec
    <3> QED BY <1>2, <2>0, <2>4, <3>1, <3>2 DEF UploadDone
  <2>5. CASE UploadFails(t)
    <3>1. PICK v : v = [tun[t] EXCEPT !.writing = FALSE]
      OBVIOUS
    <3>2. v.pc = tun[t].pc /\ v.report = tun[t].report /\ ~v.writing /\ v.count = tun[t].count
      BY <2>0, <3>1 DEF TunRec
    <3> QED BY <1>2, <2>0, <2>5, <3>1, <3>2 DEF UploadFails
  <2>6. CASE Finish(t)
    <3>1. PICK v : v = [tun[t] EXCEPT !.pc = "finished", !.report = tun[t].count]
      OBVIOUS
    <3>2. v.pc = "finished" /\ v.writing = tun[t].writing
      BY <2>0, <3>1 DEF TunRec
    <3> QED BY <1>2, <2>0, <2>6, <3>1, <3>2 DEF Finish
  <2>7. CASE ReportLost(t) \/ Report(t)
    <3>1. PICK v : v = [tun[t] EXCEPT !.report = 0]
      OBVIOUS
    <3>2. v.pc = tun[t].pc /\ v.report = 0 /\ v.writing = tun[t].writing /\ v.count = tun[t].count
      BY <2>0, <3>1 DEF TunRec
    <3>3. tun' = [tun EXCEPT ![t] = v]
      BY <2>7, <3>1 DEF ReportLost, Report
    <3> QED BY <1>2, <2>0, <3>2, <3>3
  <2> QED BY <1>3, <2>1, <2>2, <2>3, <2>4, <2>5, <2>6, <2>7 DEF Traffic
<1>4. CASE ~\E t \in Tun : Traffic(t)
  BY <1>1, <1>4
     DEF Next, Flush, FlushBatch, FlushFails, FlushAnswerLost, Alarm, Tick, Crash, Admin, CreateUser, DeleteUser, ResetTraffic, SetActive,
         Extend, AdminWrite, Expire, MaintSelect, MaintExpiry, MaintFlush, vars
<1> QED BY <1>3, <1>4

\* Every byte relayed is in D1, in the Durable Object or still to be reported,
\* once, but for what a rejected batch put back after it was committed and what a
\* lost report, an eviction or a late upload loses: for any number of users,
\* tunnels, flushes in flight, failed batches and lost answers (Ledger.flush in
\* auth/guard.js).  So a user is charged for more than was relayed exactly by
\* what was put back although committed, and for less exactly by what is gone.
THEOREM EveryByteIsAccounted == Spec => []Accounted
<1>1. Init => TunnelInv /\ Accounted
  <2> SUFFICES ASSUME Init PROVE TunnelInv /\ Accounted
    OBVIOUS
  <2>1. TunnelInv
    BY DEF Init, TunnelInv
  <2>2. ASSUME NEW u \in User PROVE daily[u] + Held(u) + Unreported(u) + gone[u] = relayed[u] + again[u]
    <3>1. TypeOK
      BY InitType
    <3>2. (\A f \in Slot : Taken(u)[f] = 0) /\ (\A t \in Tun : Counted(u)[t] = 0)
      BY DEF Init, Taken, Counted, NoFlush
    <3>3. SumFunction(Taken(u)) = 0 /\ SumFunction(Counted(u)) = 0
      BY <3>1, <3>2, BalanceTypes, SumNatural, ConstantsAssumption
    <3>4. daily[u] = 0 /\ dirty[u] = 0 /\ relayed[u] = 0 /\ again[u] = 0 /\ gone[u] = 0
      BY DEF Init, NoBytes
    <3> QED BY <3>3, <3>4 DEF Held, Unreported
  <2> QED BY <2>1, <2>2 DEF Accounted
<1>2. ASSUME TypeOK, TypeOK', TunnelInv, Accounted, [Next]_vars PROVE TunnelInv' /\ Accounted'
  <2>1. TunnelInv'
    BY <1>2, NextTunnel
  <2>2. ASSUME NEW u \in User PROVE Known(u)' = relayed'[u] + again'[u]
    <3>1. Known(u)' = Known(u) + (relayed'[u] - relayed[u]) + (again'[u] - again[u])
      BY <1>2, NextBalance DEF Balanced
    <3>2. Known(u) = relayed[u] + again[u]
      BY <1>2 DEF Accounted, Known
    <3>3. relayed[u] \in Nat /\ again[u] \in Nat /\ relayed'[u] \in Nat /\ again'[u] \in Nat
      BY <1>2 DEF TypeOK
    <3> QED BY <3>1, <3>2, <3>3
  <2>3. Accounted'
    BY <2>2 DEF Accounted, Known
  <2> QED BY <2>1, <2>3
<1> QED BY <1>1, <1>2, LedgerTypeCorrect, PTL DEF Spec

=============================================================================
