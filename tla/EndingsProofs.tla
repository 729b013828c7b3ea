---------------------------- MODULE EndingsProofs ----------------------------
(***************************************************************************)
(* Proofs about what ends by itself: a VLESS tunnel (Tunnel) and the scans *)
(* of resolver ranges (DnsScan).                                           *)
(***************************************************************************)
EXTENDS Tunnel, DnsScan, FiniteSets, FiniteSetTheorems, SequenceTheorems, WellFoundedInduction,
        NaturalsInduction, TLAPS

-----------------------------------------------------------------------------
(* Tunnel: the states of sink, openTunnel, socket and pump that meet.       *)

OpeningSteps == {"header", "resolve", "proxy", "connect", "payload", "drain"}

(* While openTunnel runs the first write is in flight, so the sink takes    *)
(* no other frame and pendingChunks stays empty; a frame is written only    *)
(* after the tunnel was opened; finish comes only from the sink at rest,    *)
(* from a failing write or open, or from the pump.                          *)
ControlInv ==
  /\ opening \in OpeningSteps <=> sink = "opening"
  /\ opening = "none" => sink \in {"idle", "ended"} /\ remote = "none" /\ upstream = <<>>
  /\ opening \in {"header", "resolve", "proxy"} => remote = "none" /\ upstream = <<>>
  /\ opening = "connect" => remote \in {"none", "connecting"} /\ upstream = <<>>
  /\ opening = "payload" => upstream = <<>>
  /\ opening \in {"payload", "drain"} => remote = "open"
  /\ opening = "opened" => remote \in {"open", "closed"}
  /\ opening = "failed" => sink = "ended"
  /\ sink = "writing" => opening = "opened"
  /\ pump # "off" => opening = "opened"
  /\ pendingChunks = <<>>
  /\ sink = "ended" => finished /\ queue = <<>>
  /\ finished => /\ ws = "closed" /\ opening \notin OpeningSteps
                 /\ remote \in {"none", "closed"}
                 /\ opening = "none" => sink = "ended"
  /\ ~finished => reports = <<>>
  /\ Len(reports) <= 1

(* The frames the sink took: those the destination has, and the one that    *)
(* is on its way.                                                           *)
OnItsWay == opening \in OpeningSteps \ {"drain"} \/ sink = "writing"
Taken == Len(upstream) + (IF OnItsWay THEN 1 ELSE 0)

(* What the destination has, what the sink holds and what is queued are the *)
(* frames that entered, from the first on, and all of them as long as the   *)
(* stream is not ended.                                                     *)
OrderInv ==
  /\ \A i \in 1 .. Len(upstream) : upstream[i] = entered[i]
  /\ OnItsWay => cur = entered[Len(upstream) + 1]
  /\ \A i \in 1 .. Len(queue) : queue[i] = entered[Taken + i]
  /\ Taken + Len(queue) <= Len(entered)
  /\ Listening => Taken + Len(queue) = Len(entered)

(* A frame is read or has entered, not both.                                *)
SentInv == IsFiniteSet(converting) /\ Len(entered) + Cardinality(converting) <= sent

TunnelInv == TunnelTypeOK /\ ControlInv /\ OrderInv /\ SentInv

\* An accepted WebSocket satisfies the invariant.
LEMMA TunnelInitial == TunnelInit => TunnelInv
<1> SUFFICES ASSUME TunnelInit PROVE TunnelInv
  OBVIOUS
<1>1. TunnelTypeOK
  <2>1. \A S : <<>> \in Seq(S)
    OBVIOUS
  <2>2. 0 \in 0 .. MaxFrame /\ 0 \in 0 .. MaxDown
    BY TunnelAssumption
  <2> QED BY <2>1, <2>2 DEF TunnelInit, TunnelTypeOK
<1>2. ControlInv
  BY DEF TunnelInit, ControlInv, OpeningSteps
<1>3. OrderInv
  BY DEF TunnelInit, OrderInv, Taken, OnItsWay, OpeningSteps
<1>4. SentInv
  BY FS_EmptySet DEF TunnelInit, SentInv
<1> QED BY <1>1, <1>2, <1>3, <1>4 DEF TunnelInv

\* What has arrived is no more than what was sent, so a report is in its range.
LEMMA ReportInRange ==
  ASSUME TunnelInv
  PROVE  /\ Len(upstream) \in 0 .. MaxFrame /\ Len(upstream) <= Len(entered) /\ Len(entered) \in 0 .. MaxFrame
         /\ MaxFrame \in Nat /\ MaxDown \in Nat
         /\ Len(upstream) + down \in Nat
         /\ Len(upstream) + down > 0 => Len(upstream) + down \in 1 .. MaxFrame + MaxDown
<1>1. Len(upstream) \in Nat /\ Len(queue) \in Nat /\ Len(entered) \in Nat
  BY DEF TunnelInv, TunnelTypeOK
<1>2. Len(entered) <= sent /\ sent \in 0 .. MaxFrame
  <2>1. Cardinality(converting) \in Nat
    BY FS_CardinalityType DEF TunnelInv, SentInv
  <2> QED BY <1>1, <2>1 DEF TunnelInv, TunnelTypeOK, SentInv
<1>3. Len(upstream) <= Len(entered)
  BY <1>1 DEF TunnelInv, OrderInv, Taken
<1> QED BY <1>1, <1>2, <1>3, TunnelAssumption DEF TunnelInv, TunnelTypeOK

\* finish closes the WebSocket and the socket and reports at most once.
LEMMA FinishOnce ==
  ASSUME TunnelInv, Finish
  PROVE  /\ finished' = TRUE /\ ws' = "closed"
         /\ remote' = IF remote = "none" THEN "none" ELSE "closed"
         /\ reports' \in Seq(1 .. MaxFrame + MaxDown) /\ Len(reports') <= 1
<1>1. CASE finished
  BY <1>1 DEF Finish, TunnelInv, TunnelTypeOK, ControlInv
<1>2. CASE ~finished
  <2>1. finished' = TRUE /\ ws' = "closed" /\ remote' = IF remote = "none" THEN "none" ELSE "closed"
    BY <1>2 DEF Finish
  <2>2. reports = <<>>
    BY <1>2 DEF TunnelInv, ControlInv
  <2>3. CASE Len(upstream) + down > 0
    <3> DEFINE t == Len(upstream) + down
    <3>1. t \in 1 .. MaxFrame + MaxDown /\ reports' = Append(<<>>, t)
      BY <1>2, <2>2, <2>3, ReportInRange DEF Finish
    <3> HIDE DEF t
    <3> QED BY <2>1, <3>1
  <2>4. CASE ~(Len(upstream) + down > 0)
    BY <1>2, <2>1, <2>2, <2>4 DEF Finish
  <2> QED BY <2>3, <2>4
<1> QED BY <1>1, <1>2

\* A failing open ends the stream.
LEMMA OpenFailsKeeps ==
  ASSUME TunnelInv, opening \in OpeningSteps, OpenFails, asked' \in {"none", "tcp", "udp"}
  PROVE  TunnelInv'
<1>1. /\ finished' = TRUE /\ ws' = "closed" /\ remote' = IF remote = "none" THEN "none" ELSE "closed"
      /\ reports' \in Seq(1 .. MaxFrame + MaxDown) /\ Len(reports') <= 1
  BY FinishOnce DEF OpenFails
<1>2. /\ opening' = "failed" /\ sink' = "ended" /\ queue' = <<>> /\ upstream' = upstream /\ pump' = pump
      /\ UNCHANGED clientVars
      /\ source' = source /\ cur' = cur /\ pendingChunks' = pendingChunks /\ down' = down
  BY DEF OpenFails, KeepOpening
<1>3. TunnelTypeOK'
  BY <1>1, <1>2 DEF TunnelInv, TunnelTypeOK, clientVars
<1>4. ControlInv'
  BY <1>1, <1>2 DEF TunnelInv, TunnelTypeOK, ControlInv, OpeningSteps
<1>5. OrderInv'
  BY <1>1, <1>2, ReportInRange DEF TunnelInv, TunnelTypeOK, OrderInv, OnItsWay, Taken, Listening, OpeningSteps,
                                   clientVars
<1>6. SentInv'
  BY <1>2 DEF TunnelInv, SentInv, clientVars
<1> QED BY <1>3, <1>4, <1>5, <1>6 DEF TunnelInv

\* A step of openTunnel that only moves on, or gets its socket.
LEMMA OpenMoves ==
  ASSUME TunnelInv, opening \in OpeningSteps, opening' \in OpeningSteps \ {"drain"}, opening # "drain",
         asked' \in {"none", "tcp", "udp"}, remote' \in {"none", "connecting", "open"},
         opening' \in {"resolve", "proxy"} => remote' = "none" /\ upstream = <<>>,
         opening' = "header" => remote' = "none" /\ upstream = <<>>,
         opening' = "connect" => remote' \in {"none", "connecting"} /\ upstream = <<>>,
         opening' = "payload" => remote' = "open" /\ upstream = <<>>,
         KeepOpening, UNCHANGED <<ws, queue, sink, upstream, pump, finished, reports>>
  PROVE  TunnelInv'
<1>1. TunnelTypeOK'
  BY DEF TunnelInv, TunnelTypeOK, KeepOpening, OpeningSteps, clientVars
<1>2. ControlInv'
  BY DEF TunnelInv, TunnelTypeOK, ControlInv, KeepOpening, OpeningSteps
<1>3. OrderInv'
  BY DEF TunnelInv, OrderInv, OnItsWay, Taken, Listening, KeepOpening, clientVars
<1>4. SentInv'
  BY DEF TunnelInv, SentInv, KeepOpening, clientVars
<1> QED BY <1>1, <1>2, <1>3, <1>4 DEF TunnelInv

\* A stream that ends keeps or loses its queue and takes no other frame.
LEMMA StreamEnds ==
  ASSUME TunnelInv, queue' = queue \/ queue' = <<>>, Listening' => Listening /\ queue' = queue,
         UNCHANGED <<entered, sink, opening, cur, upstream>>
  PROVE  OrderInv'
<1>1. Taken' = Taken /\ OnItsWay' = OnItsWay /\ Taken \in Nat /\ Len(queue) \in Nat /\ Len(entered) \in Nat
  BY DEF TunnelInv, TunnelTypeOK, OnItsWay, Taken
<1>2. \A i \in 1 .. Len(queue') : queue'[i] = entered'[Taken' + i]
  BY <1>1 DEF TunnelInv, OrderInv
<1>3. Len(queue') \in Nat /\ Len(queue') <= Len(queue)
  BY <1>1
<1> QED BY <1>1, <1>2, <1>3 DEF TunnelInv, OrderInv

\* A frame enters at the end of the queue, if the stream still takes it.
LEMMA EnterKeeps ==
  ASSUME TunnelInv, NEW n \in 1 .. MaxFrame, Enter(n), UNCHANGED <<source, sink, opening, cur, upstream>>
  PROVE  /\ queue' \in Seq(1 .. MaxFrame) /\ entered' \in Seq(1 .. MaxFrame) /\ OrderInv'
         /\ Len(entered') <= Len(entered) + 1 /\ (sink = "ended" => queue' = queue)
<1>0. /\ queue \in Seq(1 .. MaxFrame) /\ entered \in Seq(1 .. MaxFrame)
      /\ Len(queue) \in Nat /\ Len(entered) \in Nat /\ Len(upstream) \in Nat
  BY DEF TunnelInv, TunnelTypeOK
<1>1. CASE ~Listening
  <2>1. queue' = queue /\ entered' = entered
    BY <1>1 DEF Enter
  <2> QED BY <1>0, <2>1 DEF TunnelInv, OrderInv, OnItsWay, Taken, Listening
<1>2. CASE Listening
  <2>1. queue' = Append(queue, n) /\ entered' = Append(entered, n)
    BY <1>2 DEF Enter
  <2>2. /\ queue' \in Seq(1 .. MaxFrame) /\ Len(queue') = Len(queue) + 1 /\ queue'[Len(queue) + 1] = n
        /\ \A i \in 1 .. Len(queue) : queue'[i] = queue[i]
        /\ entered' \in Seq(1 .. MaxFrame) /\ Len(entered') = Len(entered) + 1 /\ entered'[Len(entered) + 1] = n
        /\ \A i \in 1 .. Len(entered) : entered'[i] = entered[i]
    BY <1>0, <2>1
  <2>3. Taken \in Nat /\ Taken + Len(queue) = Len(entered) /\ Len(upstream) <= Taken
        /\ (OnItsWay => Len(upstream) + 1 <= Taken) /\ Taken' = Taken /\ OnItsWay' = OnItsWay
    BY <1>0, <1>2 DEF TunnelInv, OrderInv, OnItsWay, Taken
  <2>4. \A i \in 1 .. Len(queue') : queue'[i] = entered'[Taken' + i]
    <3> TAKE i \in 1 .. Len(queue')
    <3>1. CASE i \in 1 .. Len(queue)
      <4>1. queue[i] = entered[Taken + i]
        BY <3>1 DEF TunnelInv, OrderInv
      <4>2. Taken + i \in 1 .. Len(entered)
        BY <1>0, <2>3, <3>1
      <4> QED BY <2>2, <2>3, <3>1, <4>1, <4>2
    <3>2. CASE i = Len(queue) + 1
      <4>1. Taken + i = Len(entered) + 1
        BY <1>0, <2>3, <3>2
      <4> QED BY <2>2, <2>3, <3>2, <4>1
    <3>3. i \in 1 .. Len(queue) \/ i = Len(queue) + 1
      BY <1>0, <2>2
    <3> QED BY <3>1, <3>2, <3>3
  <2>5. \A i \in 1 .. Len(upstream') : upstream'[i] = entered'[i]
    <3> TAKE i \in 1 .. Len(upstream')
    <3>1. i \in 1 .. Len(upstream) /\ i \in 1 .. Len(entered)
      BY <1>0, <2>3
    <3> QED BY <2>2, <3>1 DEF TunnelInv, OrderInv
  <2>6. OnItsWay' => cur' = entered'[Len(upstream') + 1]
    <3> SUFFICES ASSUME OnItsWay PROVE cur = entered'[Len(upstream) + 1]
      BY <2>3
    <3>1. Len(upstream) + 1 \in 1 .. Len(entered)
      BY <1>0, <2>3
    <3> QED BY <2>2, <3>1 DEF TunnelInv, OrderInv
  <2>7. Taken' + Len(queue') = Len(entered')
    BY <1>0, <2>2, <2>3
  <2>8. OrderInv'
    BY <1>0, <2>2, <2>4, <2>5, <2>6, <2>7 DEF OrderInv
  <2> QED BY <1>2, <2>2, <2>8 DEF Listening
<1> QED BY <1>1, <1>2

\* The frames of the client enter as long as the stream is open, in what order ever.
LEMMA ClientKeeps == ASSUME TunnelInv, Client PROVE TunnelInv'
<1>0. /\ IsFiniteSet(converting) /\ Cardinality(converting) \in Nat /\ sent \in Nat /\ Len(entered) \in Nat
      /\ converting \subseteq 1 .. MaxFrame /\ Len(entered) + Cardinality(converting) <= sent
  BY FS_CardinalityType DEF TunnelInv, TunnelTypeOK, SentInv
<1>1. CASE \E k \in FrameKinds : ClientSend(k)
  <2>1. PICK k \in FrameKinds : ClientSend(k)
    BY <1>1
  <2>2. sent' = sent + 1 /\ sent' \in 1 .. MaxFrame /\ UNCHANGED <<ws, source>> /\ KeepSink
    BY <2>1, TunnelAssumption DEF ClientSend, TunnelInv, TunnelTypeOK
  <2>3. CASE k = "blob"
    <3>1. converting' = converting \cup {sent + 1} /\ UNCHANGED <<queue, entered>>
      BY <2>1, <2>3 DEF ClientSend
    <3>2. IsFiniteSet(converting') /\ Cardinality(converting') \in Nat
          /\ Cardinality(converting') <= Cardinality(converting) + 1
      <4>1. /\ IsFiniteSet(converting \cup {sent + 1})
            /\ \/ Cardinality(converting \cup {sent + 1}) = Cardinality(converting)
               \/ Cardinality(converting \cup {sent + 1}) = Cardinality(converting) + 1
        BY <1>0, FS_AddElement
      <4> QED BY <1>0, <3>1, <4>1
    <3>3. SentInv'
      BY <1>0, <2>2, <3>1, <3>2 DEF SentInv
    <3>4. TunnelTypeOK'
      BY <2>2, <3>1 DEF TunnelInv, TunnelTypeOK, KeepSink
    <3>5. ControlInv'
      BY <2>2, <3>1 DEF TunnelInv, ControlInv, KeepSink
    <3>6. OrderInv'
      BY <2>2, <3>1 DEF TunnelInv, OrderInv, OnItsWay, Taken, Listening, KeepSink
    <3> QED BY <3>3, <3>4, <3>5, <3>6 DEF TunnelInv
  <2>4. CASE k # "blob"
    <3>1. converting' = converting /\ Enter(sent')
      BY <2>1, <2>2, <2>4 DEF ClientSend
    <3>2. /\ queue' \in Seq(1 .. MaxFrame) /\ entered' \in Seq(1 .. MaxFrame) /\ OrderInv'
          /\ Len(entered') <= Len(entered) + 1 /\ (sink = "ended" => queue' = queue)
      <4>1. UNCHANGED <<source, sink, opening, cur, upstream>>
        BY <2>2 DEF KeepSink
      <4> DEFINE n == sent'
      <4>2. n \in 1 .. MaxFrame /\ Enter(n)
        BY <2>2, <3>1
      <4> HIDE DEF n
      <4> QED BY <4>1, <4>2, EnterKeeps
    <3>3. SentInv'
      BY <1>0, <2>2, <3>1, <3>2 DEF SentInv
    <3>4. TunnelTypeOK'
      BY <2>2, <3>1, <3>2 DEF TunnelInv, TunnelTypeOK, KeepSink
    <3>5. ControlInv'
      BY <2>2, <3>2 DEF TunnelInv, ControlInv, KeepSink
    <3> QED BY <3>2, <3>3, <3>4, <3>5 DEF TunnelInv
  <2> QED BY <2>3, <2>4
<1>2. CASE \E n \in 1 .. MaxFrame : Convert(n) \/ ConvertFails(n)
  <2>1. PICK n \in 1 .. MaxFrame : Convert(n) \/ ConvertFails(n)
    BY <1>2
  <2>2. n \in converting /\ converting' = converting \ {n} /\ UNCHANGED <<ws, sent>> /\ KeepSink
    BY <2>1 DEF Convert, ConvertFails
  <2>3. IsFiniteSet(converting') /\ Cardinality(converting') = Cardinality(converting) - 1
        /\ Cardinality(converting') \in Nat
    BY <1>0, <2>2, FS_RemoveElement, FS_CardinalityType
  <2>4. CASE Convert(n)
    <3>1. /\ queue' \in Seq(1 .. MaxFrame) /\ entered' \in Seq(1 .. MaxFrame) /\ OrderInv'
          /\ Len(entered') <= Len(entered) + 1 /\ (sink = "ended" => queue' = queue)
      BY <2>4, EnterKeeps DEF Convert, KeepSink
    <3>2. source' = source
      BY <2>4 DEF Convert
    <3>3. SentInv'
      BY <1>0, <2>2, <2>3, <3>1 DEF SentInv, TunnelInv, TunnelTypeOK
    <3>4. TunnelTypeOK'
      BY <2>2, <3>1, <3>2 DEF TunnelInv, TunnelTypeOK, KeepSink
    <3>5. ControlInv'
      BY <2>2, <3>1 DEF TunnelInv, ControlInv, KeepSink
    <3> QED BY <3>1, <3>3, <3>4, <3>5 DEF TunnelInv
  <2>5. CASE ConvertFails(n)
    <3>1. /\ source' \in {source, "errored"} /\ (queue' = queue \/ queue' = <<>>) /\ entered' = entered
          /\ ~Listening'
      BY <2>2, <2>5 DEF ConvertFails, Listening, KeepSink
    <3>3. SentInv'
      BY <1>0, <2>2, <2>3, <3>1 DEF SentInv
    <3>4. TunnelTypeOK'
      <4>1. queue' \in Seq(1 .. MaxFrame)
        BY <3>1, EmptySeq DEF TunnelInv, TunnelTypeOK
      <4> QED BY <2>2, <3>1, <4>1 DEF TunnelInv, TunnelTypeOK, KeepSink
    <3>5. ControlInv'
      BY <2>2, <3>1 DEF TunnelInv, ControlInv, KeepSink
    <3>6. OrderInv'
      BY <2>2, <3>1, StreamEnds DEF KeepSink
    <3> QED BY <3>3, <3>4, <3>5, <3>6 DEF TunnelInv
  <2> QED BY <2>1, <2>4, <2>5
<1>3. CASE WsClose
  <2>1. /\ ws' = "closed" /\ source' \in {"open", "closed", "errored"}
        /\ (queue' = queue \/ queue' = <<>>) /\ ~Listening'
        /\ KeepSink /\ UNCHANGED clientVars
    BY <1>3 DEF WsClose, TunnelInv, TunnelTypeOK, Listening
  <2>2. queue' \in Seq(1 .. MaxFrame)
    BY <2>1, EmptySeq DEF TunnelInv, TunnelTypeOK
  <2>3. TunnelTypeOK'
    BY <2>1, <2>2 DEF TunnelInv, TunnelTypeOK, KeepSink, clientVars
  <2>4. ControlInv'
    BY <2>1 DEF TunnelInv, ControlInv, KeepSink
  <2>5. OrderInv'
    BY <2>1, StreamEnds DEF KeepSink, clientVars
  <2>6. SentInv'
    BY <2>1 DEF TunnelInv, SentInv, clientVars
  <2> QED BY <2>3, <2>4, <2>5, <2>6 DEF TunnelInv
<1> QED BY <1>1, <1>2, <1>3 DEF Client

\* The sink takes the next frame: it opens the tunnel or is forwarded, never queued.
LEMMA WriteKeeps == ASSUME TunnelInv, Write PROVE TunnelInv'
<1>1. /\ sink = "idle" /\ queue # <<>> /\ queue' = Tail(queue)
      /\ UNCHANGED <<ws, clientVars, source, asked, remote, upstream, pump, down, finished, reports>>
  BY DEF Write
<1>2. /\ Len(queue) \in Nat \ {0} /\ Len(queue') = Len(queue) - 1 /\ queue' \in Seq(1 .. MaxFrame)
      /\ Head(queue) = queue[1] /\ Head(queue) \in 1 .. MaxFrame
      /\ \A i \in 1 .. Len(queue') : queue'[i] = queue[i + 1]
  <2>1. queue \in Seq(1 .. MaxFrame) /\ queue # <<>>
    BY <1>1 DEF TunnelInv, TunnelTypeOK
  <2>2. Len(queue) \in Nat \ {0} /\ Head(queue) = queue[1] /\ 1 \in 1 .. Len(queue)
    BY <2>1
  <2>3. queue[1] \in 1 .. MaxFrame
    BY <2>1, <2>2, ElementOfSeq
  <2>4. Tail(queue) \in Seq(1 .. MaxFrame) /\ Len(Tail(queue)) = Len(queue) - 1
        /\ \A i \in 1 .. Len(Tail(queue)) : Tail(queue)[i] = queue[i + 1]
    BY <2>1, HeadTailProperties
  <2> QED BY <1>1, <2>2, <2>3, <2>4
<1>3. /\ opening \in {"none", "opened"}
      /\ opening = "none" <=> remote = "none"
  BY <1>1 DEF TunnelInv, TunnelTypeOK, ControlInv, OpeningSteps
<1>4. ~OnItsWay /\ Taken = Len(upstream) /\ Len(upstream) \in Nat
      /\ queue[1] = entered[Len(upstream) + 1]
  BY <1>1, <1>2, <1>3 DEF TunnelInv, TunnelTypeOK, OrderInv, OnItsWay, Taken, OpeningSteps
<1>5. /\ pendingChunks' = pendingChunks /\ cur' = Head(queue)
      /\ \/ remote = "none" /\ opening' = "header" /\ sink' = "opening"
         \/ remote # "none" /\ opening' = "opened" /\ sink' = "writing"
  BY <1>2, <1>3, <1>4 DEF Write
<1>6. OnItsWay' /\ Taken' = Taken + 1
  BY <1>1, <1>4, <1>5 DEF Taken, OnItsWay, OpeningSteps
<1>7. TunnelTypeOK'
  BY <1>1, <1>2, <1>5 DEF TunnelInv, TunnelTypeOK, clientVars
<1>8. ControlInv'
  BY <1>1, <1>3, <1>5 DEF TunnelInv, TunnelTypeOK, ControlInv, OpeningSteps
<1>9. OrderInv'
  <2>1. \A i \in 1 .. Len(queue') : queue'[i] = entered'[Taken' + i]
    <3> TAKE i \in 1 .. Len(queue')
    <3>1. i + 1 \in 1 .. Len(queue) /\ queue'[i] = queue[i + 1]
      BY <1>2
    <3>2. queue[i + 1] = entered[Taken + (i + 1)]
      BY <3>1 DEF TunnelInv, OrderInv
    <3>3. Taken + (i + 1) = Taken' + i
      BY <1>4, <1>6
    <3> QED BY <1>1, <3>1, <3>2, <3>3 DEF clientVars
  <2>2. Taken + Len(queue) <= Len(entered) /\ (Listening => Taken + Len(queue) = Len(entered))
        /\ \A i \in 1 .. Len(upstream) : upstream[i] = entered[i]
    BY <1>1 DEF TunnelInv, OrderInv
  <2>3. Taken' + Len(queue') = Taken + Len(queue)
    BY <1>2, <1>4, <1>6
  <2>4. cur' = entered'[Len(upstream') + 1] /\ (Listening' => Listening)
    BY <1>1, <1>2, <1>4, <1>5 DEF clientVars, Listening
  <2> QED BY <1>1, <1>6, <2>1, <2>2, <2>3, <2>4 DEF OrderInv, clientVars
<1>10. SentInv'
  BY <1>1 DEF TunnelInv, SentInv, clientVars
<1> QED BY <1>7, <1>8, <1>9, <1>10 DEF TunnelInv

\* The frame on its way reaches the destination behind those that are there.
LEMMA AppendKeeps ==
  ASSUME TunnelInv, OnItsWay, upstream' = Append(upstream, cur), ~OnItsWay',
         UNCHANGED <<clientVars, source, queue>>, Listening' => Listening
  PROVE  upstream' \in Seq(1 .. MaxFrame) /\ upstream' # <<>> /\ OrderInv' /\ SentInv'
<1>1. /\ upstream \in Seq(1 .. MaxFrame) /\ Len(upstream) \in Nat
      /\ entered \in Seq(1 .. MaxFrame) /\ Len(entered) \in Nat /\ Len(queue) \in Nat
  BY DEF TunnelInv, TunnelTypeOK
<1>2. Taken = Len(upstream) + 1 /\ Len(upstream) + 1 \in 1 .. Len(entered)
      /\ cur = entered[Len(upstream) + 1]
  BY <1>1 DEF Taken, TunnelInv, OrderInv
<1>3. cur \in 1 .. MaxFrame
  BY <1>1, <1>2, ElementOfSeq
<1>4. /\ upstream' \in Seq(1 .. MaxFrame) /\ Len(upstream') = Len(upstream) + 1 /\ upstream' # <<>>
      /\ \A i \in 1 .. Len(upstream) : upstream'[i] = upstream[i]
      /\ upstream'[Len(upstream) + 1] = cur
  BY <1>1, <1>3
<1>5. \A i \in 1 .. Len(upstream') : i \in 1 .. Len(upstream) \/ i = Len(upstream) + 1
  BY <1>1, <1>4
<1>6. \A i \in 1 .. Len(upstream') : upstream'[i] = entered'[i]
  BY <1>2, <1>4, <1>5 DEF TunnelInv, OrderInv, clientVars
<1>7. Taken' = Taken /\ Taken \in Nat
  BY <1>1, <1>2, <1>4 DEF Taken
<1>8. OrderInv'
  BY <1>6, <1>7 DEF TunnelInv, OrderInv, clientVars
<1>9. SentInv'
  BY DEF TunnelInv, SentInv, clientVars
<1> QED BY <1>4, <1>8, <1>9

\* The write in flight succeeds, or fails and ends the stream; the stream ends.
LEMMA SinkKeeps == ASSUME TunnelInv, WriteDone \/ WriteFails \/ SinkEnd PROVE TunnelInv'
<1>1. CASE WriteDone
  <2>1. /\ sink = "writing" /\ opening = "opened"
        /\ upstream' = Append(upstream, cur) /\ sink' = "idle"
        /\ UNCHANGED <<ws, clientVars, source, queue, cur, opening, asked, pendingChunks, remote, pump, down,
                       finished, reports>>
    BY <1>1 DEF WriteDone, TunnelInv, ControlInv
  <2>2. OnItsWay /\ ~OnItsWay' /\ (Listening' => Listening)
    BY <2>1 DEF OnItsWay, OpeningSteps, Listening
  <2>3. upstream' \in Seq(1 .. MaxFrame) /\ OrderInv' /\ SentInv'
    BY <2>1, <2>2, AppendKeeps
  <2>4. TunnelTypeOK'
    BY <2>1, <2>3 DEF TunnelInv, TunnelTypeOK, clientVars
  <2>5. ControlInv'
    BY <2>1 DEF TunnelInv, TunnelTypeOK, ControlInv, OpeningSteps
  <2> QED BY <2>3, <2>4, <2>5 DEF TunnelInv
<1>2. CASE WriteFails \/ SinkEnd
  <2>1. /\ sink' = "ended" /\ queue' = <<>> /\ sink \in {"idle", "writing"} /\ Finish
        /\ UNCHANGED <<clientVars, source, cur, opening, asked, pendingChunks, upstream, pump, down>>
    BY <1>2 DEF WriteFails, SinkEnd
  <2>2. /\ finished' = TRUE /\ ws' = "closed" /\ remote' = IF remote = "none" THEN "none" ELSE "closed"
        /\ reports' \in Seq(1 .. MaxFrame + MaxDown) /\ Len(reports') <= 1
    BY <2>1, FinishOnce
  <2>3. TunnelTypeOK'
    BY <2>1, <2>2 DEF TunnelInv, TunnelTypeOK, clientVars
  <2>4. ControlInv'
    BY <2>1, <2>2 DEF TunnelInv, TunnelTypeOK, ControlInv, OpeningSteps
  <2>5. opening \notin OpeningSteps
    BY <2>1 DEF TunnelInv, ControlInv
  <2>6. OrderInv'
    BY <2>1, <2>2, <2>5, ReportInRange
    DEF TunnelInv, TunnelTypeOK, OrderInv, OnItsWay, Taken, Listening, clientVars
  <2>7. SentInv'
    BY <2>1 DEF TunnelInv, SentInv, clientVars
  <2> QED BY <2>3, <2>4, <2>6, <2>7 DEF TunnelInv
<1> QED BY <1>1, <1>2

\* The rest of the first frame is the first thing the destination gets.
LEMMA PayloadKeeps == ASSUME TunnelInv, Payload PROVE TunnelInv'
<1>1. /\ opening = "payload" /\ remote = "open" /\ opening' = "drain" /\ sink = "opening"
      /\ upstream' = Append(upstream, cur)
      /\ UNCHANGED <<clientVars, source, cur, pendingChunks, down, ws, queue, sink, asked, remote, pump,
                     finished, reports>>
  BY DEF Payload, Go, KeepOpening, TunnelInv, ControlInv, OpeningSteps
<1>2. OnItsWay /\ ~OnItsWay' /\ (Listening' => Listening)
  BY <1>1 DEF OnItsWay, OpeningSteps, Listening
<1>3. upstream' \in Seq(1 .. MaxFrame) /\ OrderInv' /\ SentInv'
  BY <1>1, <1>2, AppendKeeps
<1>4. TunnelTypeOK'
  BY <1>1, <1>3 DEF TunnelInv, TunnelTypeOK, clientVars
<1>5. ControlInv'
  BY <1>1 DEF TunnelInv, TunnelTypeOK, ControlInv, OpeningSteps
<1> QED BY <1>3, <1>4, <1>5 DEF TunnelInv

\* Nothing was queued meanwhile: the pump starts and the first write returns.
LEMMA DrainKeeps == ASSUME TunnelInv, Drain PROVE TunnelInv'
<1>1. /\ opening = "drain" /\ remote = "open" /\ sink = "opening" /\ pendingChunks = <<>>
      /\ opening' = "opened" /\ pump' = "on" /\ sink' = "idle"
      /\ UNCHANGED <<upstream, pendingChunks, ws, clientVars, source, queue, cur, asked, remote, down,
                     finished, reports>>
  BY DEF Drain, Go, TunnelInv, ControlInv, OpeningSteps
<1>2. Taken' = Taken /\ ~OnItsWay'
  BY <1>1 DEF Taken, OnItsWay, OpeningSteps
<1>3. TunnelTypeOK'
  BY <1>1 DEF TunnelInv, TunnelTypeOK, clientVars
<1>4. ControlInv'
  BY <1>1 DEF TunnelInv, TunnelTypeOK, ControlInv, OpeningSteps
<1>5. OrderInv'
  BY <1>1, <1>2 DEF TunnelInv, OrderInv, Listening, clientVars
<1>6. SentInv'
  BY <1>1 DEF TunnelInv, SentInv, clientVars
<1> QED BY <1>3, <1>4, <1>5, <1>6 DEF TunnelInv

\* Every step of openTunnel.
LEMMA OpenKeeps == ASSUME TunnelInv, OpenTunnel PROVE TunnelInv'
<1>a. asked \in {"none", "tcp", "udp"}
  BY DEF TunnelInv, TunnelTypeOK
<1>1. CASE HeaderRejected \/ HeaderUdp \/ ResolveFails \/ ProxyFails \/ OpenedTooLate \/ ConnectFails \/ PayloadFails
  <2>1. opening \in OpeningSteps /\ OpenFails /\ asked' \in {"none", "tcp", "udp"}
    BY <1>1, <1>a DEF HeaderRejected, HeaderUdp, ResolveFails, ProxyFails, OpenedTooLate, ConnectFails,
                      PayloadFails, OpeningSteps
  <2> QED BY <2>1, OpenFailsKeeps
<1>2. CASE HeaderTcp \/ Resolved \/ ProxyReady \/ Connect \/ Opened
  <2>1. /\ opening \in {"header", "resolve", "proxy", "connect"} /\ upstream = <<>>
        /\ opening # "connect" => remote = "none"
    BY <1>2 DEF HeaderTcp, Resolved, ProxyReady, Connect, Opened, TunnelInv, ControlInv
  <2>2. /\ opening' \in {"resolve", "proxy", "connect", "payload"} /\ asked' \in {"none", "tcp", "udp"}
        /\ remote' \in {"none", "connecting", "open"}
        /\ opening' \in {"resolve", "proxy"} => remote' = "none"
        /\ opening' = "connect" => remote' \in {"none", "connecting"}
        /\ opening' = "payload" => remote' = "open"
        /\ KeepOpening /\ UNCHANGED <<ws, queue, sink, upstream, pump, finished, reports>>
    BY <1>2, <1>a, <2>1 DEF HeaderTcp, Resolved, ProxyReady, Connect, Opened, Go, Reach
  <2>3. opening \in OpeningSteps /\ opening' \in OpeningSteps \ {"drain"} /\ opening # "drain" /\ opening' # "header"
    BY <2>1, <2>2 DEF OpeningSteps
  <2> QED BY <2>1, <2>2, <2>3, OpenMoves
<1>3. CASE Payload
  BY <1>3, PayloadKeeps
<1>4. CASE Drain
  BY <1>4, DrainKeeps
<1> QED BY <1>1, <1>2, <1>3, <1>4 DEF OpenTunnel

\* The pump counts, and ends the tunnel.
LEMMA PumpKeeps == ASSUME TunnelInv, PumpData \/ PumpEnd PROVE TunnelInv'
<1>1. CASE PumpData
  <2>1. /\ down' = down + 1 /\ down < MaxDown
        /\ UNCHANGED <<ws, clientVars, source, queue, sink, cur, opening, asked, pendingChunks, remote, upstream,
                       pump, finished, reports>>
    BY <1>1 DEF PumpData
  <2>2. down' \in 0 .. MaxDown
    BY <2>1, TunnelAssumption DEF TunnelInv, TunnelTypeOK
  <2>3. TunnelTypeOK'
    BY <2>1, <2>2 DEF TunnelInv, TunnelTypeOK, clientVars
  <2>4. ControlInv'
    BY <2>1 DEF TunnelInv, ControlInv
  <2>5. OrderInv' /\ SentInv'
    BY <2>1 DEF TunnelInv, OrderInv, OnItsWay, Taken, Listening, SentInv, clientVars
  <2> QED BY <2>3, <2>4, <2>5 DEF TunnelInv
<1>2. CASE PumpEnd
  <2>1. /\ pump = "on" /\ pump' = "done" /\ opening = "opened" /\ Finish
        /\ UNCHANGED <<clientVars, source, queue, sink, cur, opening, asked, pendingChunks, upstream, down>>
    BY <1>2 DEF PumpEnd, TunnelInv, ControlInv
  <2>2. /\ finished' = TRUE /\ ws' = "closed" /\ remote' = IF remote = "none" THEN "none" ELSE "closed"
        /\ reports' \in Seq(1 .. MaxFrame + MaxDown) /\ Len(reports') <= 1
    BY <2>1, FinishOnce
  <2>3. TunnelTypeOK'
    BY <2>1, <2>2 DEF TunnelInv, TunnelTypeOK, clientVars
  <2>4. ControlInv'
    BY <2>1, <2>2 DEF TunnelInv, TunnelTypeOK, ControlInv, OpeningSteps
  <2>5. OrderInv' /\ SentInv'
    BY <2>1 DEF TunnelInv, OrderInv, OnItsWay, Taken, Listening, SentInv, clientVars
  <2> QED BY <2>3, <2>4, <2>5 DEF TunnelInv
<1> QED BY <1>1, <1>2

\* The invariant holds in every state of a tunnel.
LEMMA TunnelInvariant == TunnelSpec => []TunnelInv
<1>1. TunnelInv /\ [TunnelNext]_tunnelVars => TunnelInv'
  <2> SUFFICES ASSUME TunnelInv, [TunnelNext]_tunnelVars PROVE TunnelInv'
    OBVIOUS
  <2>1. CASE UNCHANGED tunnelVars
    BY <2>1 DEF tunnelVars, TunnelInv, TunnelTypeOK, ControlInv, OrderInv, OnItsWay, Taken, Listening, SentInv
  <2> QED BY <2>1, ClientKeeps, WriteKeeps, SinkKeeps, OpenKeeps, PumpKeeps DEF TunnelNext, SinkStep
<1> QED BY <1>1, TunnelInitial, PTL DEF TunnelSpec

\* Every variable of a tunnel keeps its type: in particular the totals that are
\* reported stay within what both sides sent.
THEOREM TunnelTypeCorrect == TunnelSpec => []TunnelTypeOK
BY TunnelInvariant, PTL DEF TunnelInv

\* handleVlessWebSocket forwards what entered the client's stream in order and
\* without a gap, however many frames there are, whichever of the three ways each
\* of them takes and whatever Blobs are read meanwhile.
THEOREM FramesInOrder == TunnelSpec => []StreamOrder
<1>1. TunnelInv => StreamOrder
  BY ReportInRange DEF TunnelInv, OrderInv, StreamOrder
<1> QED BY <1>1, TunnelInvariant, PTL

(* Without Blobs every frame enters when it is sent.                        *)
BufferInv ==
  /\ converting = {}
  /\ source # "open" => ws = "closed"
  /\ \A i \in 1 .. Len(entered) : entered[i] = i
  /\ ws = "open" => Len(entered) = sent

\* A client whose frames all arrive as buffers is served in the order in which it
\* sent them; with Blobs the order is lost.
THEOREM BuffersInOrder == ASSUME "blob" \notin FrameKinds PROVE TunnelSpec => []InOrder
<1>1. TunnelInit => BufferInv
  BY DEF TunnelInit, BufferInv
<1>2. TunnelInv /\ BufferInv /\ [TunnelNext]_tunnelVars => BufferInv'
  <2> SUFFICES ASSUME TunnelInv, BufferInv, [TunnelNext]_tunnelVars PROVE BufferInv'
    OBVIOUS
  <2>1. ws \in {"open", "closed"} /\ entered \in Seq(1 .. MaxFrame) /\ Len(entered) \in Nat /\ sent \in Nat
    BY DEF TunnelInv, TunnelTypeOK
  <2>2. CASE \E k \in FrameKinds : ClientSend(k)
    <3>1. PICK k \in FrameKinds : ClientSend(k)
      BY <2>2
    <3>2. ws = "open" /\ source = "open" /\ sink # "ended" /\ Len(entered) = sent /\ sent + 1 \in 1 .. MaxFrame
      BY <2>1, <3>1, TunnelAssumption DEF ClientSend, BufferInv, TunnelInv, ControlInv
    <3>3. /\ entered' = Append(entered, sent + 1) /\ sent' = sent + 1 /\ converting' = {}
          /\ ws' = ws /\ source' = source
      BY <3>1, <3>2 DEF ClientSend, Enter, Listening, BufferInv
    <3>4. /\ Len(entered') = sent + 1 /\ entered'[sent + 1] = sent + 1
          /\ \A i \in 1 .. sent : entered'[i] = entered[i]
      BY <2>1, <3>2, <3>3
    <3>5. \A i \in 1 .. Len(entered') : i \in 1 .. sent \/ i = sent + 1
      BY <2>1, <3>4
    <3> QED BY <3>2, <3>3, <3>4, <3>5 DEF BufferInv
  <2>3. CASE \E n \in 1 .. MaxFrame : Convert(n) \/ ConvertFails(n)
    BY <2>3 DEF Convert, ConvertFails, BufferInv
  <2>4. CASE WsClose
    BY <2>4 DEF WsClose, clientVars, BufferInv
  <2>5. CASE SinkStep \/ OpenTunnel \/ PumpData \/ PumpEnd
    <3>1. UNCHANGED <<clientVars, source>> /\ (ws' = ws \/ ws' = "closed")
      BY <2>5 DEF SinkStep, Write, WriteDone, WriteFails, SinkEnd, OpenTunnel, HeaderRejected, HeaderUdp, HeaderTcp,
                  Resolved, ResolveFails, ProxyReady, ProxyFails, Connect, Opened, OpenedTooLate, ConnectFails,
                  Payload, Drain, PayloadFails, OpenFails, KeepOpening, Finish, PumpData, PumpEnd
    <3> QED BY <3>1 DEF BufferInv, clientVars
  <2>6. CASE UNCHANGED tunnelVars
    BY <2>6 DEF tunnelVars, BufferInv
  <2> QED BY <2>2, <2>3, <2>4, <2>5, <2>6 DEF TunnelNext, Client
<1>3. TunnelInv /\ BufferInv => InOrder
  BY ReportInRange DEF TunnelInv, OrderInv, BufferInv, InOrder
<1> QED BY <1>1, <1>2, <1>3, TunnelInvariant, PTL DEF TunnelSpec

\* finish reports to the ledger at most once, whoever calls it how often.
THEOREM TunnelReportsOnce == TunnelSpec => []ReportedOnce
<1>1. TunnelInv => ReportedOnce
  BY DEF TunnelInv, ControlInv, ReportedOnce
<1> QED BY <1>1, TunnelInvariant, PTL

\* No socket is left open, or about to be stored, behind a finished tunnel.
THEOREM SocketsClosed == TunnelSpec => []NoSocketLeft
<1>1. TunnelInv => NoSocketLeft
  BY DEF TunnelInv, TunnelTypeOK, ControlInv, OpeningSteps, NoSocketLeft
<1> QED BY <1>1, TunnelInvariant, PTL

-----------------------------------------------------------------------------
(***************************************************************************)
(* DnsScan: the cursor tells what is stored.                               *)
(***************************************************************************)

\* The first n waves of the range are stored and, in an undisturbed round, once
\* and no others.
StoredTo(r, n) ==
  \A w \in Wave : /\ w <= n => results[r][w] > 0
                  /\ tainted[r] = 0 => results[r][w] = IF w <= n THEN 1 ELSE 0

\* The range where no tick works on it.
AtRest(r) ==
  IF row[r].finished THEN row[r].cursor = 0 /\ StoredTo(r, Waves)
                     ELSE row[r].cursor = 0 \/ StoredTo(r, row[r].cursor)

\* The range where the tick t does.
OnTrack(t, r) ==
  LET at == tick[t].at  cursor == row[r].cursor IN
  /\ tick[t].pc \in {"start", "chain"} => cursor = 0 \/ StoredTo(r, cursor)
  /\ tick[t].pc = "wipe" => at = 0 /\ cursor = 0
  /\ tick[t].pc \in {"loop", "mark"} => at = cursor /\ at < Waves
  /\ tick[t].pc = "loop" => StoredTo(r, at)
  /\ tick[t].pc = "mark" => StoredTo(r, at + 1)
  /\ tick[t].pc = "finish" => cursor = Waves /\ StoredTo(r, Waves)
  /\ tick[t].pc = "summary" => row[r].finished /\ cursor = 0 /\ StoredTo(r, Waves)

\* A range that at worst lost invocations: one tick works on it, or none.
RangeInv(r) ==
  Here(r) /\ tainted[r] < 2 =>
    /\ card[r] # "incomplete"
    /\ \A t, u \in OnRange(r) : t = u
    /\ ~row[r].live => OnRange(r) = {} /\ row[r].cursor = 0 /\ ~row[r].finished
    /\ OnRange(r) = {} => AtRest(r)
    /\ \A t \in OnRange(r) : OnTrack(t, r)

\* A tick has a range, a round starts with its first wave, and there is a wave to
\* store.
TickOK(n) == /\ n.pc # "idle" => n.r \in RangeId
             /\ n.pc = "wipe" => n.at = 0
             /\ n.pc \in {"loop", "mark"} => n.at < Waves

\* An id belongs to one message, and nothing works on a range before its INSERT.
IdsInv ==
  /\ \A h \in Handler : msg[h].pc # "idle" =>
       /\ msg[h].r \in RangeId /\ msg[h].r < next
       /\ row[msg[h].r].st = "absent" <=> msg[h].pc \in {"results", "range", "insert"}
  /\ \A h \in Handler : /\ msg[h].pc \in {"results", "range"} => msg[h].old # {}
                        /\ \A r \in msg[h].old : row[r].st # "absent"
  /\ \A g, h \in Handler : msg[g].pc # "idle" /\ msg[h].pc # "idle" /\ msg[g].r = msg[h].r => g = h
  /\ \A r \in RangeId : next <= r => row[r].st = "absent"
  /\ \A r \in RangeId : row[r].st = "absent" => OnRange(r) = {} /\ card[r] = "none"
  /\ \A t \in Ticks : TickOK(tick[t])

\* The cron has the cursor of a range without a live message, where every round
\* starts; it never gets to the write of a round it did not take part in.
CronInv ==
  /\ cron.pc \in {"probe", "store", "live"} => cron.due # {}
  /\ \A d \in cron.due : row[d.r].st # "absent"
  /\ cron.pc \in {"probe", "store"} =>
       \A d \in cron.due : Here(d.r) /\ tainted[d.r] < 2 => d.cursor = 0
  /\ cron.pc = "probe" => cron.at < ChunkEnd(Oldest(cron.due))
  /\ cron.pc = "store" => LET r == Oldest(cron.due).r IN Here(r) => tainted[r] = 2
  /\ cron.pc = "live" => \A d \in cron.due : Here(d.r) => row[d.r].live

ScanInv == DnsTypeOK /\ IdsInv /\ CronInv /\ \A r \in RangeId : RangeInv(r)

\* A set of naturals that is not empty has a smallest element: < is well-founded.
LEMMA LeastNatural ==
  ASSUME NEW T \in SUBSET Nat, T # {}
  PROVE  \E m \in T : \A j \in T : m <= j
<1>1. PICK m \in T : \A y \in T : ~(<<y, m>> \in OpToRel(<, Nat))
  BY NatLessThanWellFounded, WFMin, Zenon
<1>2. ASSUME NEW y \in T PROVE ~(y < m)
  <2>1. ~(<<y, m>> \in {ss \in Nat \X Nat : ss[1] < ss[2]})
    BY <1>1, Zenon DEF OpToRel
  <2> QED BY <2>1
<1> QED BY <1>2

\* So the loops over the ranges of a query have a next one while any is left.
LEMMA OldestIsOne ==
  ASSUME NEW due \in SUBSET [r : RangeId, cursor : 0..Waves], due # {}
  PROVE  Oldest(due) \in due
<1> DEFINE T == {d.r : d \in due}
<1>1. T \in SUBSET Nat /\ T # {}
  BY DnsAssumption DEF RangeId
<1>2. PICK m \in T : \A j \in T : m <= j
  BY <1>1, LeastNatural
<1>3. PICK d \in due : d.r = m
  OBVIOUS
<1>4. \A e \in due : d.r <= e.r
  BY <1>2, <1>3
<1> QED BY <1>4 DEF Oldest

LEMMA FirstOldIsOne ==
  ASSUME NEW old \in SUBSET RangeId, old # {}
  PROVE  (CHOOSE r \in old : \A q \in old : r <= q) \in old
<1>1. old \in SUBSET Nat
  BY DEF RangeId
<1>2. PICK r \in old : \A q \in old : r <= q
  BY <1>1, LeastNatural
<1> QED BY <1>2

\* What a step may do to a range: once inserted it never comes back, and while it
\* is there disturbances add up and its live message stays.
Ages(r) ==
  row[r].st # "absent" =>
    /\ row'[r].st # "absent"
    /\ Here(r)' => Here(r) /\ tainted[r] <= tainted'[r] /\ (row[r].live => row'[r].live)

\* A range is as it was when nothing of it changes but last_scan_at and the card.
LEMMA RangeFrame ==
  ASSUME NEW r \in RangeId, RangeInv(r),
         row'[r].st = row[r].st, row'[r].live = row[r].live, row'[r].cursor = row[r].cursor,
         row'[r].finished = row[r].finished, results'[r] = results[r], tainted'[r] = tainted[r],
         card'[r] = "incomplete" => card[r] = "incomplete",
         OnRange(r)' = OnRange(r), \A t \in OnRange(r) : tick'[t] = tick[t]
  PROVE  RangeInv(r)'
<1> SUFFICES ASSUME Here(r)', tainted'[r] < 2
             PROVE  /\ card'[r] # "incomplete"
                    /\ \A t, u \in OnRange(r)' : t = u
                    /\ ~row'[r].live => OnRange(r)' = {} /\ row'[r].cursor = 0 /\ ~row'[r].finished
                    /\ OnRange(r)' = {} => AtRest(r)'
                    /\ \A t \in OnRange(r)' : OnTrack(t, r)'
  BY DEF RangeInv
<1>1. Here(r) /\ tainted[r] < 2
  BY DEF Here
<1>2. ASSUME NEW n, StoredTo(r, n) PROVE StoredTo(r, n)'
  BY <1>2 DEF StoredTo
<1>3. AtRest(r) => AtRest(r)'
  BY DEF AtRest, StoredTo
<1>4. ASSUME NEW t \in OnRange(r), OnTrack(t, r) PROVE OnTrack(t, r)'
  <2>1. tick'[t] = tick[t]
    OBVIOUS
  <2> QED BY <1>4, <2>1 DEF OnTrack, StoredTo
<1> QED BY <1>1, <1>3, <1>4 DEF RangeInv

\* The ticks on the other ranges go on.
LEMMA TickFrame ==
  ASSUME tick \in [Ticks -> [pc : {"idle", "start", "wipe", "loop", "mark", "finish", "summary", "chain"},
                             r : 0..MaxRange, at : 0..Waves]],
         NEW t \in Ticks, NEW r \in RangeId, NEW new, tick' = [tick EXCEPT ![t] = new],
         tick[t].pc = "idle" \/ tick[t].r # r, new.pc = "idle" \/ new.r # r
  PROVE  OnRange(r)' = OnRange(r) /\ \A u \in OnRange(r) : tick'[u] = tick[u]
BY DEF OnRange

\* The tick t is the one that works on its range.
LEMMA OnlyTick ==
  ASSUME NEW r \in RangeId, RangeInv(r), Here(r), tainted[r] < 2, NEW t \in OnRange(r)
  PROVE  OnRange(r) = {t} /\ row[r].live /\ OnTrack(t, r) /\ card[r] # "incomplete"
BY DEF RangeInv

\* It goes on,
LEMMA TickGoesOn ==
  ASSUME NEW r \in RangeId, NEW t \in Ticks, NEW new, OnRange(r) \subseteq {t}, DnsTypeOK,
         tick' = [tick EXCEPT ![t] = new], new.pc # "idle", new.r = r,
         row'[r].live, card'[r] # "incomplete", OnTrack(t, r)'
  PROVE  RangeInv(r)'
<1>1. OnRange(r)' = {t}
  BY DEF OnRange, DnsTypeOK
<1> QED BY <1>1 DEF RangeInv

\* or ends.
LEMMA TickEnds ==
  ASSUME NEW r \in RangeId, NEW t \in Ticks, NEW new, OnRange(r) = {t}, DnsTypeOK,
         tick' = [tick EXCEPT ![t] = new], new.pc = "idle",
         row'[r].live, card'[r] # "incomplete", AtRest(r)'
  PROVE  RangeInv(r)'
<1>1. OnRange(r)' = {}
  BY DEF OnRange, DnsTypeOK
<1> QED BY <1>1 DEF RangeInv

TickRec == [pc : {"idle", "start", "wipe", "loop", "mark", "finish", "summary", "chain"},
            r : 0..MaxRange, at : 0..Waves]
MsgRec == [pc : {"idle", "results", "range", "insert", "send", "live"},
           old : SUBSET RangeId, r : 0..MaxRange]
CronRec == [pc : {"idle", "probe", "store", "purge", "live"},
            due : SUBSET [r : RangeId, cursor : 0..Waves], at : 0..Waves]
RowRec == [st : {"absent", "here", "gone"}, live : BOOLEAN, cursor : 0..Waves,
           finished : BOOLEAN, quiet : BOOLEAN]
Cards == {"none", "progress", "error", "incomplete", "complete"}
Counts == [Wave -> 0..Many]

\* The types, by variable.
LEMMA ScanTypes ==
  DnsTypeOK <=> /\ row \in [RangeId -> RowRec] /\ results \in [RangeId -> Counts]
                /\ msg \in [Handler -> MsgRec] /\ tick \in [Ticks -> TickRec] /\ cron \in CronRec
                /\ card \in [RangeId -> Cards] /\ next \in 1..MaxRange + 1 /\ faults \in 0..MaxFault
                /\ tainted \in [RangeId -> 0..2]
BY DEF DnsTypeOK, TickRec, MsgRec, CronRec, RowRec, Cards, Counts

LEMMA ScanTypes2 ==
  DnsTypeOK' <=> /\ row' \in [RangeId -> RowRec] /\ results' \in [RangeId -> Counts]
                 /\ msg' \in [Handler -> MsgRec] /\ tick' \in [Ticks -> TickRec] /\ cron' \in CronRec
                 /\ card' \in [RangeId -> Cards] /\ next' \in 1..MaxRange + 1 /\ faults' \in 0..MaxFault
                 /\ tainted' \in [RangeId -> 0..2]
BY DEF DnsTypeOK, TickRec, MsgRec, CronRec, RowRec, Cards, Counts

\* An entry is replaced.
LEMMA Put ==
  ASSUME NEW D, NEW S, NEW f \in [D -> S], NEW x, NEW v, x \in D => v \in S
  PROVE  /\ [f EXCEPT ![x] = v] \in [D -> S]
         /\ \A y \in D : y # x => [f EXCEPT ![x] = v][y] = f[y]
         /\ x \in D => [f EXCEPT ![x] = v][x] = v
OBVIOUS

\* The numbers of the model.
LEMMA ScanNumbers ==
  /\ MaxRange \in Nat \ {0} /\ Waves \in Nat \ {0} /\ Chunk \in Nat \ {0} /\ MaxFault \in Nat
  /\ 0 \in 0..Waves /\ 0 \in 0..MaxRange /\ RangeId \subseteq 0..MaxRange
BY DnsAssumption DEF RangeId

LEMMA ScanIdles ==
  /\ IdleTick \in TickRec /\ IdleMsg \in MsgRec /\ IdleCron \in CronRec
  /\ NoRow \in RowRec /\ Fresh \in RowRec /\ NoResults \in Counts
  /\ [NoRow EXCEPT !.st = "gone"] \in RowRec
  /\ \A r \in RangeId : [IdleTick EXCEPT !.pc = "start", !.r = r] \in TickRec
<1>1. IdleTick \in TickRec /\ IdleMsg \in MsgRec /\ IdleCron \in CronRec
  BY ScanNumbers DEF IdleTick, IdleMsg, IdleCron, TickRec, MsgRec, CronRec
<1>2. NoRow \in RowRec
  BY ScanNumbers DEF NoRow, RowRec
<1>3. Fresh \in RowRec /\ [NoRow EXCEPT !.st = "gone"] \in RowRec
  BY <1>2 DEF Fresh, RowRec
<1>4. NoResults \in Counts
  BY DEF NoResults, Counts, Many
<1>5. ASSUME NEW r \in RangeId PROVE [IdleTick EXCEPT !.pc = "start", !.r = r] \in TickRec
  BY <1>1, ScanNumbers DEF TickRec
<1> QED BY <1>1, <1>2, <1>3, <1>4, <1>5

\* The cron's place is one.
LEMMA CronAtTyped ==
  ASSUME NEW due \in SUBSET [r : RangeId, cursor : 0..Waves]
  PROVE  CronAt(due) \in CronRec /\ (due # {} => Oldest(due) \in [r : RangeId, cursor : 0..Waves])
<1>1. CASE due = {}
  BY <1>1, ScanNumbers DEF CronAt, IdleCron, CronRec
<1>2. CASE due # {}
  <2>1. Oldest(due) \in due
    BY <1>2, OldestIsOne
  <2> QED BY <1>2, <2>1, ScanNumbers DEF CronAt, CronIn, CronRec
<1> QED BY <1>1, <1>2

LEMMA TaintTyped ==
  ASSUME tainted \in [RangeId -> 0..2], NEW r, NEW level \in 1..2
  PROVE  /\ Taint(r, level) \in [RangeId -> 0..2]
         /\ \A q \in RangeId : /\ tainted[q] <= Taint(r, level)[q]
                               /\ q # r => Taint(r, level)[q] = tainted[q]
                               /\ q = r /\ Here(r) => Taint(r, level)[q] >= level
<1> DEFINE v == IF Here(r) /\ tainted[r] < level THEN level ELSE tainted[r]
<1>1. Taint(r, level) = [tainted EXCEPT ![r] = v]
  BY DEF Taint
<1>2. r \in RangeId => /\ v \in 0..2 /\ tainted[r] \in 0..2
                       /\ tainted[r] <= v /\ (Here(r) => v >= level)
  OBVIOUS
<1> HIDE DEF v
<1>3. /\ [tainted EXCEPT ![r] = v] \in [RangeId -> 0..2]
      /\ \A y \in RangeId : y # r => [tainted EXCEPT ![r] = v][y] = tainted[y]
      /\ r \in RangeId => [tainted EXCEPT ![r] = v][r] = v
  BY <1>2, Put
<1>4. \A q \in RangeId : tainted[q] <= tainted[q]
  OBVIOUS
<1> QED BY <1>1, <1>2, <1>3, <1>4

LEMMA BeginTyped ==
  ASSUME tick \in [Ticks -> TickRec], tainted \in [RangeId -> 0..2],
         NEW t \in Ticks, NEW r \in RangeId, Begin(t, r)
  PROVE  tick' \in [Ticks -> TickRec] /\ tainted' \in [RangeId -> 0..2]
<1>1. tainted' = tainted \/ tainted' = Taint(r, 2)
  BY DEF Begin
<1>2. tick' = [tick EXCEPT ![t] = [IdleTick EXCEPT !.pc = "start", !.r = r]]
  BY DEF Begin
<1>3. tick' \in [Ticks -> TickRec]
  BY <1>2, Put, ScanIdles
<1> QED BY <1>1, <1>3, TaintTyped

LEMMA FailTyped ==
  ASSUME tick \in [Ticks -> TickRec], card \in [RangeId -> Cards], NEW t \in Ticks, Fail(t)
  PROVE  tick' \in [Ticks -> TickRec] /\ card' \in [RangeId -> Cards]
<1>1. tick' \in [Ticks -> TickRec]
  BY ScanIdles DEF Fail
<1>2. PICK v : card' = [card EXCEPT ![tick[t].r] = v] /\ (v = card[tick[t].r] \/ v = "error")
  BY DEF Fail
<1>3. tick[t].r \in RangeId => v \in Cards
  BY <1>2 DEF Cards
<1> QED BY <1>1, <1>2, <1>3, Put

LEMMA StoredTyped ==
  ASSUME results \in [RangeId -> Counts], NEW r, NEW w
  PROVE  /\ Stored(r, w) \in [RangeId -> Counts]
         /\ \A q \in RangeId : q # r => Stored(r, w)[q] = results[q]
         /\ r \in RangeId => \A v \in Wave : v # w => Stored(r, w)[r][v] = results[r][v]
         /\ r \in RangeId /\ w \in Wave =>
              Stored(r, w)[r][w] = IF results[r][w] = Many THEN Many ELSE results[r][w] + 1
<1> DEFINE n == IF results[r][w] = Many THEN Many ELSE results[r][w] + 1
           f == [results[r] EXCEPT ![w] = n]
<1>1. Stored(r, w) = [results EXCEPT ![r] = f]
  BY DEF Stored
<1>2. r \in RangeId /\ w \in Wave => n \in 0..Many
  BY DEF Counts, Many
<1> HIDE DEF n
<1>3. r \in RangeId => /\ f \in Counts
                       /\ \A v \in Wave : v # w => f[v] = results[r][v]
                       /\ w \in Wave => f[w] = n
  BY <1>2, Put DEF Counts
<1> HIDE DEF f
<1>4. /\ Stored(r, w) \in [RangeId -> Counts]
      /\ \A q \in RangeId : q # r => Stored(r, w)[q] = results[q]
      /\ r \in RangeId => Stored(r, w)[r] = f
  BY <1>1, <1>3, Put
<1> QED BY <1>3, <1>4 DEF n

\* Messages keep the types.
LEMMA MessageTyped ==
  ASSUME DnsTypeOK, IdsInv, NEW h \in Handler, Submit(h) \/ Message(h)
  PROVE  DnsTypeOK'
<1>0. /\ row \in [RangeId -> RowRec] /\ results \in [RangeId -> Counts]
      /\ msg \in [Handler -> MsgRec] /\ tick \in [Ticks -> TickRec] /\ cron \in CronRec
      /\ card \in [RangeId -> Cards] /\ next \in 1..MaxRange + 1 /\ faults \in 0..MaxFault
      /\ tainted \in [RangeId -> 0..2]
  BY ScanTypes
<1>1. msg[h] \in MsgRec /\ (msg[h].pc # "idle" => msg[h].r \in RangeId)
  BY <1>0 DEF IdsInv
<1>2. CASE Submit(h)
  <2>1. next \in 1..MaxRange /\ next' \in 1..MaxRange + 1
    BY <1>0, <1>2, ScanNumbers DEF Submit
  <2> DEFINE old == {r \in RangeId : Here(r)}
             new == [pc |-> IF old = {} THEN "insert" ELSE "results", old |-> old, r |-> next]
  <2>2. new \in MsgRec
    BY <2>1 DEF MsgRec
  <2>3. msg' = [msg EXCEPT ![h] = new]
    BY <1>2 DEF Submit
  <2> HIDE DEF new
  <2>4. msg' \in [Handler -> MsgRec]
    BY <1>0, <2>2, <2>3, Put
  <2> QED BY <1>0, <1>2, <2>1, <2>4, ScanTypes2 DEF Submit
<1>3. CASE DeleteResults(h)
  <2>1. PICK r : tainted' = Taint(r, 2) /\ results' = [results EXCEPT ![r] = NoResults]
    BY <1>3 DEF DeleteResults
  <2>2. tainted' \in [RangeId -> 0..2]
    BY <1>0, <2>1, TaintTyped
  <2>3. results' \in [RangeId -> Counts]
    BY <1>0, <2>1, ScanIdles, Put
  <2>4. msg' \in [Handler -> MsgRec]
    BY <1>0, <1>3 DEF DeleteResults, MsgRec
  <2> QED BY <1>0, <1>3, <2>2, <2>3, <2>4, ScanTypes2 DEF DeleteResults
<1>4. CASE DeleteRange(h)
  <2>1. PICK r : /\ row' = [row EXCEPT ![r] = [NoRow EXCEPT !.st = "gone"]]
                 /\ results' = [results EXCEPT ![r] = NoResults]
                 /\ tainted' = [tainted EXCEPT ![r] = 0] /\ card' = [card EXCEPT ![r] = "none"]
                 /\ msg' = [msg EXCEPT ![h].old = msg[h].old \ {r},
                                       ![h].pc = IF msg[h].old \ {r} = {} THEN "insert" ELSE "results"]
    BY <1>4 DEF DeleteRange
  <2>2. msg' \in [Handler -> MsgRec]
    BY <1>0, <1>1, <2>1 DEF MsgRec
  <2>3. row' \in [RangeId -> RowRec] /\ results' \in [RangeId -> Counts]
    BY <1>0, <2>1, ScanIdles, Put
  <2>4. card' \in [RangeId -> Cards] /\ tainted' \in [RangeId -> 0..2]
    <3>1. "none" \in Cards /\ 0 \in 0..2
      BY DEF Cards
    <3> QED BY <1>0, <2>1, <3>1, Put
  <2> QED BY <1>0, <1>4, <2>2, <2>3, <2>4, ScanTypes2 DEF DeleteRange
<1>5. CASE Insert(h)
  <2>1. row' \in [RangeId -> RowRec]
    BY <1>0, <1>5, ScanIdles, Put DEF Insert
  <2>2. msg' \in [Handler -> MsgRec]
    BY <1>0, <1>5 DEF Insert, MsgRec
  <2> QED BY <1>0, <1>5, <2>1, <2>2, ScanTypes2 DEF Insert
<1>6. CASE SendCard(h)
  <2>1. msg' \in [Handler -> MsgRec]
    <3>1. [msg[h] EXCEPT !.pc = "live"] \in MsgRec
      BY <1>1 DEF MsgRec
    <3> QED BY <1>0, <1>6, <3>1, ScanIdles DEF SendCard
  <2>2. card' \in [RangeId -> Cards]
    BY <1>0, <1>6 DEF SendCard, Cards
  <2> QED BY <1>0, <1>6, <2>1, <2>2, ScanTypes2 DEF SendCard
<1>7. CASE GoLive(h)
  <2>1. tick' \in [Ticks -> TickRec] /\ tainted' \in [RangeId -> 0..2]
    BY <1>0, <1>1, <1>7, BeginTyped DEF GoLive
  <2>2. row' \in [RangeId -> RowRec]
    BY <1>0, <1>7 DEF GoLive, RowRec
  <2>3. msg' \in [Handler -> MsgRec]
    BY <1>0, <1>7, ScanIdles, Put DEF GoLive
  <2> QED BY <1>0, <1>7, <2>1, <2>2, <2>3, ScanTypes2 DEF GoLive
<1> QED BY <1>2, <1>3, <1>4, <1>5, <1>6, <1>7 DEF Message


\* A tick's step is on one range, and leaves its message and its place in the table.
OnlyOn(r) ==
  /\ \A q \in RangeId \ {r} : /\ row'[q] = row[q] /\ results'[q] = results[q]
                              /\ card'[q] = card[q] /\ tainted'[q] = tainted[q]
  /\ row'[r].st = row[r].st /\ row'[r].live = row[r].live /\ tainted[r] <= tainted'[r]
  /\ card[r] = "none" => card'[r] = "none"
  /\ UNCHANGED <<msg, cron, next>>

Moves(t) ==
  \E new \in TickRec : /\ tick' = [tick EXCEPT ![t] = new] /\ TickOK(new)
                       /\ new.pc # "idle" => new.r = tick[t].r

\* The pieces a tick's step is put together from.
LEMMA MovesTo ==
  ASSUME tick \in [Ticks -> TickRec], NEW t \in Ticks, TickOK(tick[t]), tick[t].pc # "idle",
         NEW pc \in {"start", "wipe", "loop", "mark", "finish", "summary", "chain"}, NEW at \in 0..Waves,
         pc = "wipe" => at = 0, pc \in {"loop", "mark"} => at < Waves
  PROVE  /\ tick' = [tick EXCEPT ![t].at = at, ![t].pc = pc] => Moves(t)
         /\ at = tick[t].at /\ tick' = [tick EXCEPT ![t].pc = pc] => Moves(t)
<1>1. tick[t] \in TickRec
  OBVIOUS
<1> DEFINE new == [tick[t] EXCEPT !.at = at, !.pc = pc]
<1>2. new \in TickRec /\ new.pc = pc /\ new.at = at /\ new.r = tick[t].r
  BY <1>1 DEF TickRec
<1>3. TickOK(new)
  BY <1>2 DEF TickOK
<1>4. at = tick[t].at => new = [tick[t] EXCEPT !.pc = pc]
  BY <1>1 DEF TickRec
<1>5. [tick EXCEPT ![t].at = at, ![t].pc = pc] = [tick EXCEPT ![t] = new]
  OBVIOUS
<1>6. at = tick[t].at => [tick EXCEPT ![t].pc = pc] = [tick EXCEPT ![t] = new]
  BY <1>4
<1> HIDE DEF new
<1> QED BY <1>2, <1>3, <1>5, <1>6 DEF Moves

LEMMA MovesHome ==
  ASSUME NEW t \in Ticks, tick' = [tick EXCEPT ![t] = IdleTick]
  PROVE  Moves(t)
BY ScanIdles DEF Moves, TickOK, IdleTick

LEMMA MovesBack ==
  ASSUME NEW t \in Ticks, NEW r \in RangeId, r = tick[t].r,
         tick' = [tick EXCEPT ![t] = [IdleTick EXCEPT !.pc = "start", !.r = r]]
  PROVE  Moves(t)
<1> DEFINE new == [IdleTick EXCEPT !.pc = "start", !.r = r]
<1>1. new \in TickRec
  BY ScanIdles
<1>2. new.pc = "start" /\ new.r = r
  BY DEF IdleTick
<1> HIDE DEF new
<1>3. TickOK(new)
  BY <1>2 DEF TickOK
<1> QED BY <1>1, <1>2, <1>3 DEF Moves, new

LEMMA MovesTyped ==
  ASSUME tick \in [Ticks -> TickRec], NEW t \in Ticks, Moves(t)
  PROVE  tick' \in [Ticks -> TickRec]
BY DEF Moves

\* The edit of a card leaves the others, and one that is not there.
LEMMA CardEdit ==
  ASSUME card \in [RangeId -> Cards], NEW r \in RangeId, NEW v \in Cards,
         card' = [card EXCEPT ![r] = IF @ = "none" THEN @ ELSE v]
  PROVE  /\ card' \in [RangeId -> Cards]
         /\ \A q \in RangeId \ {r} : card'[q] = card[q]
         /\ card[r] = "none" => card'[r] = "none"
         /\ card[r] # "none" => card'[r] = v
         /\ card[r] # "incomplete" /\ v # "incomplete" => card'[r] # "incomplete"
OBVIOUS

\* The write of a row by an UPDATE: nothing when the range is gone.
LEMMA RowEdit ==
  ASSUME row \in [RangeId -> RowRec], NEW r \in RangeId, NEW v \in RowRec,
         v.st = row[r].st, v.live = row[r].live,
         row' = IF Here(r) THEN [row EXCEPT ![r] = v] ELSE row
  PROVE  /\ row' \in [RangeId -> RowRec]
         /\ \A q \in RangeId \ {r} : row'[q] = row[q]
         /\ row'[r].st = row[r].st /\ row'[r].live = row[r].live
         /\ Here(r) => row'[r] = v
OBVIOUS

\* A step of a tick is a step on its range.
LEMMA TickEffect ==
  ASSUME DnsTypeOK, IdsInv, NEW t \in Ticks, TickStep(t) \/ Kill(t)
  PROVE  DnsTypeOK' /\ Moves(t) /\ OnlyOn(tick[t].r) /\ tick[t].pc # "idle" /\ tick[t].r \in RangeId
<1> DEFINE r == tick[t].r
<1>0. /\ row \in [RangeId -> RowRec] /\ results \in [RangeId -> Counts]
      /\ msg \in [Handler -> MsgRec] /\ tick \in [Ticks -> TickRec] /\ cron \in CronRec
      /\ card \in [RangeId -> Cards] /\ next \in 1..MaxRange + 1 /\ faults \in 0..MaxFault
      /\ tainted \in [RangeId -> 0..2]
  BY ScanTypes
<1>a. tick[t].pc # "idle"
  BY DEF TickStep, Kill, StartTick, Wipe, StoreWave, Mark, FinishRound, Summary, Chain
<1>1. tick[t] \in TickRec /\ TickOK(tick[t]) /\ r \in RangeId /\ tick[t].at \in 0..Waves
  BY <1>0, <1>a DEF IdsInv, TickOK, TickRec
<1>2. row[r] \in RowRec /\ row[r].cursor \in 0..Waves /\ tainted[r] <= tainted[r]
  BY <1>0, <1>1 DEF RowRec
<1>b. ASSUME Fail(t), UNCHANGED <<row, results, msg, cron, next, faults, tainted>>
      PROVE  DnsTypeOK' /\ Moves(t) /\ OnlyOn(r)
  <2>1. Moves(t)
    BY <1>b, MovesHome DEF Fail
  <2>2. /\ card' \in [RangeId -> Cards]
        /\ \A q \in RangeId \ {r} : card'[q] = card[q]
        /\ card[r] = "none" => card'[r] = "none"
    BY <1>0, <1>1, <1>b, CardEdit DEF Fail, Cards
  <2>3. tick' \in [Ticks -> TickRec]
    BY <1>0, <2>1, MovesTyped
  <2>4. DnsTypeOK'
    BY <1>0, <1>b, <2>2, <2>3, ScanTypes2
  <2>5. OnlyOn(r)
    BY <1>b, <1>2, <2>2 DEF OnlyOn
  <2> QED BY <2>1, <2>4, <2>5
<1>3. CASE StartTick(t)
  <2>1. CASE Here(r)
    <3> DEFINE at == row[r].cursor
               pc == IF at = 0 THEN "wipe" ELSE IF at < Waves THEN "loop" ELSE "finish"
    <3>1. /\ pc \in {"start", "wipe", "loop", "mark", "finish", "summary", "chain"} /\ at \in 0..Waves
          /\ pc = "wipe" => at = 0
          /\ pc \in {"loop", "mark"} => at < Waves
      BY <1>2
    <3>2. tick' = [tick EXCEPT ![t].at = at, ![t].pc = pc] /\ card' = card
      BY <1>3, <2>1 DEF StartTick
    <3> HIDE DEF at, pc
    <3>3. Moves(t)
      BY <1>0, <1>1, <1>a, <3>1, <3>2, MovesTo
    <3>4. tick' \in [Ticks -> TickRec]
      BY <1>0, <3>3, MovesTyped
    <3>5. DnsTypeOK'
      BY <1>0, <1>3, <3>2, <3>4, ScanTypes2 DEF StartTick
    <3>6. OnlyOn(r)
      BY <1>3, <1>2, <3>2 DEF StartTick, OnlyOn
    <3> QED BY <1>1, <1>a, <3>3, <3>5, <3>6
  <2>2. CASE ~Here(r)
    BY <1>1, <1>3, <1>a, <1>b, <2>2 DEF StartTick
  <2> QED BY <2>1, <2>2
<1>4. CASE Wipe(t)
  <2>1. results' \in [RangeId -> Counts] /\ \A q \in RangeId \ {r} : results'[q] = results[q]
    <3>1. NoResults \in Counts /\ results' = [results EXCEPT ![r] = NoResults]
      BY <1>4, ScanIdles DEF Wipe
    <3> QED BY <1>0, <3>1, Put
  <2>2. tick[t].at = 0 /\ 0 < Waves
    BY <1>1, <1>4, ScanNumbers DEF Wipe, TickOK
  <2>3. Moves(t)
    BY <1>0, <1>1, <1>4, <1>a, <2>2, MovesTo DEF Wipe
  <2>4. tick' \in [Ticks -> TickRec]
    BY <1>0, <2>3, MovesTyped
  <2>5. DnsTypeOK'
    BY <1>0, <1>4, <2>1, <2>4, ScanTypes2 DEF Wipe
  <2>6. OnlyOn(r)
    BY <1>4, <1>2, <2>1 DEF Wipe, OnlyOn
  <2> QED BY <1>1, <1>a, <2>3, <2>5, <2>6
<1>5. CASE StoreWave(t)
  <2>1. CASE Here(r)
    <3>1. results' \in [RangeId -> Counts] /\ \A q \in RangeId \ {r} : results'[q] = results[q]
      BY <1>0, <1>5, <2>1, StoredTyped DEF StoreWave
    <3>2. tick[t].at < Waves /\ tick' = [tick EXCEPT ![t].pc = "mark"] /\ card' = card
      BY <1>1, <1>5, <2>1 DEF StoreWave, TickOK
    <3>3. Moves(t)
      BY <1>0, <1>1, <1>a, <3>2, MovesTo
    <3>4. tick' \in [Ticks -> TickRec]
      BY <1>0, <3>3, MovesTyped
    <3>5. DnsTypeOK'
      BY <1>0, <1>5, <3>1, <3>2, <3>4, ScanTypes2 DEF StoreWave
    <3>6. OnlyOn(r)
      BY <1>5, <1>2, <3>1, <3>2 DEF StoreWave, OnlyOn
    <3> QED BY <1>1, <1>a, <3>3, <3>5, <3>6
  <2>2. CASE ~Here(r)
    BY <1>1, <1>5, <1>a, <1>b, <2>2 DEF StoreWave
  <2> QED BY <2>1, <2>2
<1>6. CASE Mark(t)
  <2> DEFINE at == tick[t].at + 1
             v == [row[r] EXCEPT !.cursor = at, !.quiet = FALSE]
  <2>1. at \in 0..Waves
    BY <1>1, <1>6, ScanNumbers DEF Mark, TickOK
  <2>2. PICK pc \in AfterWave(at) : tick' = [tick EXCEPT ![t].at = at, ![t].pc = pc]
    BY <1>6 DEF Mark
  <2>3. /\ pc \in {"start", "wipe", "loop", "mark", "finish", "summary", "chain"}
        /\ pc # "wipe" /\ pc # "mark" /\ (pc = "loop" => at < Waves)
    BY <2>2 DEF AfterWave
  <2>4. v \in RowRec /\ v.st = row[r].st /\ v.live = row[r].live
    BY <1>2, <2>1 DEF RowRec
  <2>5. row' = IF Here(r) THEN [row EXCEPT ![r] = v] ELSE row
    BY <1>6 DEF Mark
  <2> HIDE DEF at, v
  <2>6. Moves(t)
    BY <1>0, <1>1, <1>a, <2>1, <2>2, <2>3, MovesTo
  <2>7. tick' \in [Ticks -> TickRec]
    BY <1>0, <2>6, MovesTyped
  <2>8. /\ row' \in [RangeId -> RowRec] /\ \A q \in RangeId \ {r} : row'[q] = row[q]
        /\ row'[r].st = row[r].st /\ row'[r].live = row[r].live
    BY <1>0, <1>1, <2>4, <2>5, RowEdit
  <2>9. /\ card' \in [RangeId -> Cards] /\ \A q \in RangeId \ {r} : card'[q] = card[q]
        /\ card[r] = "none" => card'[r] = "none"
    BY <1>0, <1>1, <1>6, CardEdit DEF Mark, Cards
  <2>10. DnsTypeOK'
    BY <1>0, <1>6, <2>7, <2>8, <2>9, ScanTypes2 DEF Mark
  <2>11. OnlyOn(r)
    BY <1>6, <1>2, <2>8, <2>9 DEF Mark, OnlyOn
  <2> QED BY <1>1, <1>a, <2>6, <2>10, <2>11
<1>7. CASE FinishRound(t)
  <2> DEFINE v == [row[r] EXCEPT !.cursor = 0, !.finished = TRUE, !.quiet = FALSE]
  <2>4. v \in RowRec /\ v.st = row[r].st /\ v.live = row[r].live
    BY <1>2, ScanNumbers DEF RowRec
  <2>5. row' = IF Here(r) THEN [row EXCEPT ![r] = v] ELSE row
    BY <1>7 DEF FinishRound
  <2> HIDE DEF v
  <2>6. Moves(t)
    BY <1>0, <1>1, <1>7, <1>a, MovesTo DEF FinishRound
  <2>7. tick' \in [Ticks -> TickRec]
    BY <1>0, <2>6, MovesTyped
  <2>8. /\ row' \in [RangeId -> RowRec] /\ \A q \in RangeId \ {r} : row'[q] = row[q]
        /\ row'[r].st = row[r].st /\ row'[r].live = row[r].live
    BY <1>0, <1>1, <2>4, <2>5, RowEdit
  <2>9. DnsTypeOK'
    BY <1>0, <1>7, <2>7, <2>8, ScanTypes2 DEF FinishRound
  <2>10. OnlyOn(r)
    BY <1>7, <1>2, <2>8 DEF FinishRound, OnlyOn
  <2> QED BY <1>1, <1>a, <2>6, <2>9, <2>10
<1>8. CASE Summary(t)
  <2>1. PICK v \in Cards : card' = [card EXCEPT ![r] = IF @ = "none" THEN @ ELSE v]
    <3>1. CASE \A w \in Wave : results[r][w] > 0
      BY <1>8, <3>1 DEF Summary, Cards
    <3>2. CASE ~\A w \in Wave : results[r][w] > 0
      BY <1>8, <3>2 DEF Summary, Cards
    <3> QED BY <3>1, <3>2
  <2>2. /\ card' \in [RangeId -> Cards] /\ \A q \in RangeId \ {r} : card'[q] = card[q]
        /\ card[r] = "none" => card'[r] = "none"
    BY <1>0, <1>1, <2>1, CardEdit
  <2>3. Moves(t)
    BY <1>8, MovesHome DEF Summary
  <2>4. tick' \in [Ticks -> TickRec]
    BY <1>0, <2>3, MovesTyped
  <2>5. DnsTypeOK'
    BY <1>0, <1>8, <2>2, <2>4, ScanTypes2 DEF Summary
  <2>6. OnlyOn(r)
    BY <1>8, <1>2, <2>2 DEF Summary, OnlyOn
  <2> QED BY <1>1, <1>a, <2>3, <2>5, <2>6
<1>9. CASE Chain(t)
  <2>1. tainted' = tainted \/ tainted' = Taint(r, 2)
    BY <1>9 DEF Chain, Begin
  <2>2. /\ tainted' \in [RangeId -> 0..2] /\ tainted[r] <= tainted'[r]
        /\ \A q \in RangeId \ {r} : tainted'[q] = tainted[q]
    BY <1>0, <1>1, <1>2, <2>1, TaintTyped
  <2>3. Moves(t)
    BY <1>1, <1>9, MovesBack DEF Chain, Begin
  <2>4. tick' \in [Ticks -> TickRec]
    BY <1>0, <2>3, MovesTyped
  <2>5. DnsTypeOK'
    BY <1>0, <1>9, <2>2, <2>4, ScanTypes2 DEF Chain
  <2>6. OnlyOn(r)
    BY <1>9, <2>2 DEF Chain, OnlyOn
  <2> QED BY <1>1, <1>a, <2>3, <2>5, <2>6
<1>10. CASE Kill(t)
  <2>1. PICK level \in 1..2 : tainted' = Taint(r, level)
    BY <1>10 DEF Kill
  <2>2. /\ tainted' \in [RangeId -> 0..2] /\ tainted[r] <= tainted'[r]
        /\ \A q \in RangeId \ {r} : tainted'[q] = tainted[q]
    BY <1>0, <1>1, <2>1, TaintTyped
  <2>3. Moves(t)
    BY <1>10, MovesHome DEF Kill
  <2>4. tick' \in [Ticks -> TickRec]
    BY <1>0, <2>3, MovesTyped
  <2>5. faults' \in 0..MaxFault
    BY <1>0, <1>10, ScanNumbers DEF Kill
  <2>6. DnsTypeOK'
    BY <1>0, <1>10, <2>2, <2>4, <2>5, ScanTypes2 DEF Kill
  <2>7. OnlyOn(r)
    BY <1>10, <2>2 DEF Kill, OnlyOn
  <2> QED BY <1>1, <1>a, <2>3, <2>6, <2>7
<1> QED BY <1>3, <1>4, <1>5, <1>6, <1>7, <1>8, <1>9, <1>10 DEF TickStep

\* The ids and the cron's rows stay right while no range is inserted or deleted.
LEMMA IdsFrame ==
  ASSUME IdsInv, UNCHANGED <<msg, next>>, \A q \in RangeId : row'[q].st = row[q].st,
         \A q \in RangeId : row[q].st = "absent" => OnRange(q)' = {} /\ card'[q] = "none",
         \A u \in Ticks : TickOK(tick'[u]), DnsTypeOK
  PROVE  IdsInv'
<1>1. \A h \in Handler : msg[h].old \in SUBSET RangeId
  BY DEF DnsTypeOK
<1> QED BY <1>1 DEF IdsInv

LEMMA CronFrame ==
  ASSUME CronInv, DnsTypeOK, DnsTypeOK', UNCHANGED cron, \A q \in RangeId : Ages(q)
  PROVE  CronInv'
<1>1. cron.due \in SUBSET [r : RangeId, cursor : 0..Waves]
  BY DEF DnsTypeOK
<1>2. cron.due # {} => Oldest(cron.due) \in cron.due
  BY <1>1, OldestIsOne
<1>3. ASSUME NEW q \in RangeId, row[q].st # "absent"
      PROVE  /\ row'[q].st # "absent" /\ tainted[q] \in 0..2 /\ tainted'[q] \in 0..2
             /\ Here(q)' => Here(q) /\ tainted[q] <= tainted'[q] /\ (row[q].live => row'[q].live)
  BY <1>3 DEF Ages, DnsTypeOK
<1>4. \A d \in cron.due : /\ d.r \in RangeId /\ row[d.r].st # "absent"
  BY <1>1 DEF CronInv
<1>5. \A d \in cron.due :
        /\ row'[d.r].st # "absent" /\ tainted[d.r] \in 0..2 /\ tainted'[d.r] \in 0..2
        /\ Here(d.r)' => Here(d.r) /\ tainted[d.r] <= tainted'[d.r] /\ (row[d.r].live => row'[d.r].live)
  BY <1>3, <1>4
<1>6. cron.pc = "store" => (row'[Oldest(cron.due).r].st = "here" => tainted'[Oldest(cron.due).r] = 2)
  <2> SUFFICES ASSUME cron.pc = "store", row'[Oldest(cron.due).r].st = "here"
               PROVE  tainted'[Oldest(cron.due).r] = 2
    OBVIOUS
  <2>1. Oldest(cron.due) \in cron.due /\ (Here(Oldest(cron.due).r) => tainted[Oldest(cron.due).r] = 2)
    BY <1>2 DEF CronInv
  <2>2. PICK d \in cron.due : d = Oldest(cron.due)
    BY <2>1
  <2>3. tainted[d.r] = 2 /\ tainted[d.r] <= tainted'[d.r] /\ tainted'[d.r] \in 0..2
    BY <1>5, <2>1, <2>2 DEF Here
  <2> QED BY <2>2, <2>3
<1>7. cron.pc \in {"probe", "store"} =>
        \A d \in cron.due : row'[d.r].st = "here" /\ tainted'[d.r] < 2 => d.cursor = 0
  <2> SUFFICES ASSUME cron.pc \in {"probe", "store"}, NEW d \in cron.due,
                      row'[d.r].st = "here", tainted'[d.r] < 2
               PROVE  d.cursor = 0
    OBVIOUS
  <2>1. Here(d.r) /\ tainted[d.r] <= tainted'[d.r] /\ tainted[d.r] \in 0..2 /\ tainted'[d.r] \in 0..2
    BY <1>5 DEF Here
  <2>2. tainted[d.r] < 2
    BY <2>1
  <2> QED BY <2>1, <2>2 DEF CronInv
<1>8. cron.pc = "live" => \A d \in cron.due : row'[d.r].st = "here" => row'[d.r].live
  BY <1>5 DEF CronInv, Here
<1> QED BY <1>5, <1>6, <1>7, <1>8 DEF CronInv, Here

\* What holds of the other parts after a step of a tick.
LEMMA TickOthers ==
  ASSUME DnsTypeOK, IdsInv, CronInv, NEW t \in Ticks, TickStep(t) \/ Kill(t)
  PROVE  IdsInv' /\ CronInv' /\ \A q \in RangeId \ {tick[t].r} : RangeInv(q) => RangeInv(q)'
<1>1. DnsTypeOK' /\ Moves(t) /\ OnlyOn(tick[t].r) /\ tick[t].pc # "idle" /\ tick[t].r \in RangeId
  BY TickEffect
<1> DEFINE r == tick[t].r
<1>2. PICK new \in TickRec : /\ tick' = [tick EXCEPT ![t] = new] /\ TickOK(new)
                             /\ new.pc # "idle" => new.r = r
  BY <1>1 DEF Moves
<1>3. tick \in [Ticks -> TickRec] /\ \A q \in RangeId : tainted[q] \in 0..2
  BY ScanTypes
<1>4. \A q \in RangeId : row'[q].st = row[q].st /\ row'[q].live = row[q].live /\ tainted[q] <= tainted'[q]
  BY <1>1, <1>3 DEF OnlyOn
<1>5. IdsInv'
  <2>1. t \in OnRange(r)
    BY <1>1 DEF OnRange
  <2>2. row[r].st # "absent"
    BY <1>1, <2>1 DEF IdsInv
  <2>3. ASSUME NEW q \in RangeId, row[q].st = "absent" PROVE OnRange(q)' = {} /\ card'[q] = "none"
    <3>1. q # r /\ OnRange(q) = {} /\ card[q] = "none"
      BY <2>2, <2>3 DEF IdsInv
    <3>2. OnRange(q)' = OnRange(q)
      BY <1>2, <1>3, <3>1, TickFrame DEF TickRec
    <3> QED BY <1>1, <3>1, <3>2 DEF OnlyOn
  <2>4. \A u \in Ticks : TickOK(tick'[u])
    BY <1>2, <1>3 DEF IdsInv
  <2> QED BY <1>1, <1>4, <2>3, <2>4, IdsFrame DEF OnlyOn
<1>6. CronInv'
  BY <1>1, <1>4, CronFrame DEF OnlyOn, Ages, Here
<1>7. ASSUME NEW q \in RangeId \ {r}, RangeInv(q) PROVE RangeInv(q)'
  <2>1. OnRange(q)' = OnRange(q) /\ \A u \in OnRange(q) : tick'[u] = tick[u]
    BY <1>2, <1>3, TickFrame DEF TickRec
  <2>2. row'[q] = row[q] /\ results'[q] = results[q] /\ card'[q] = card[q] /\ tainted'[q] = tainted[q]
    BY <1>1 DEF OnlyOn
  <2> QED BY <1>7, <2>1, <2>2, RangeFrame
<1> QED BY <1>5, <1>6, <1>7

\* The tick's own range: a step at a time.
LEMMA TickRange ==
  ASSUME DnsTypeOK, IdsInv, NEW t \in Ticks, TickStep(t) \/ Kill(t),
         NEW r \in RangeId, r = tick[t].r, NEW at, at = tick[t].at, RangeInv(r)
  PROVE  RangeInv(r)'
<1>1. DnsTypeOK' /\ Moves(t) /\ OnlyOn(r) /\ tick[t].pc # "idle" /\ r \in RangeId
  BY TickEffect
<1> SUFFICES ASSUME Here(r)', tainted'[r] < 2 PROVE RangeInv(r)'
  BY DEF RangeInv
<1>2. /\ row \in [RangeId -> RowRec] /\ results \in [RangeId -> Counts]
      /\ tick \in [Ticks -> TickRec]
      /\ card \in [RangeId -> Cards] /\ tainted \in [RangeId -> 0..2]
      /\ row[r] \in RowRec /\ results[r] \in Counts /\ tick[t] \in TickRec /\ tainted[r] \in 0..2
      /\ tainted'[r] \in 0..2
  BY <1>1, ScanTypes, ScanTypes2
<1>3. at \in 0..Waves /\ row[r].cursor \in 0..Waves /\ Waves \in Nat \ {0} /\ TickOK(tick[t])
  BY <1>2, ScanNumbers DEF TickRec, RowRec, IdsInv
<1>4. Here(r) /\ tainted[r] < 2 /\ t \in OnRange(r)
  BY <1>1, <1>2 DEF OnlyOn, Here, OnRange
<1>5. OnRange(r) = {t} /\ row[r].live /\ OnTrack(t, r) /\ card[r] # "incomplete"
  BY <1>1, <1>4, OnlyTick
<1>6. row'[r].live
  BY <1>1, <1>5 DEF OnlyOn
\* A step that leaves the stored waves and the row.
<1>7. ASSUME NEW n, results' = results, tainted' = tainted, StoredTo(r, n) PROVE StoredTo(r, n)'
  BY <1>7 DEF StoredTo
<1>8. \A n \in Nat, pc \in {"start", "wipe", "loop", "mark", "finish", "summary", "chain"} :
        /\ [tick[t] EXCEPT !.at = n, !.pc = pc].pc = pc /\ [tick[t] EXCEPT !.at = n, !.pc = pc].at = n
        /\ [tick[t] EXCEPT !.at = n, !.pc = pc].r = r
        /\ [tick[t] EXCEPT !.pc = pc].pc = pc /\ [tick[t] EXCEPT !.pc = pc].at = at
        /\ [tick[t] EXCEPT !.pc = pc].r = r
  BY <1>2 DEF TickRec
<1>9. \A new : tick' = [tick EXCEPT ![t] = new] => tick'[t] = new
  BY <1>2
<1>10. CASE StartTick(t)
  <2>0. PICK cursor \in 0..Waves : cursor = row[r].cursor
    BY <1>3
  <2>a. PICK pc : pc = IF cursor = 0 THEN "wipe" ELSE IF cursor < Waves THEN "loop" ELSE "finish"
    OBVIOUS
  <2> DEFINE new == [tick[t] EXCEPT !.at = cursor, !.pc = pc]
  <2>1. tick' = [tick EXCEPT ![t] = new] /\ UNCHANGED <<card, row, results, tainted>>
    BY <1>4, <1>10, <2>0, <2>a DEF StartTick
  <2>2. new.pc = pc /\ new.at = cursor /\ new.r = r
    BY <1>3, <1>8, <2>a
  <2>3. tick'[t] = new
    BY <1>9, <2>1
  <2>4. cursor = 0 \/ StoredTo(r, cursor)
    BY <1>5, <1>10, <2>0 DEF OnTrack, StartTick
  <2>5. cursor = 0 \/ StoredTo(r, cursor)'
    BY <1>7, <2>1, <2>4
  <2>6. pc = "wipe" => cursor = 0
    BY <2>a
  <2>7. pc = "loop" => cursor # 0 /\ cursor < Waves
    BY <2>a
  <2>8. pc = "finish" => cursor = Waves /\ cursor # 0
    BY <1>3, <2>a
  <2>9. pc \in {"wipe", "loop", "finish"} /\ row'[r].cursor = cursor
    BY <2>0, <2>1, <2>a
  <2> HIDE DEF new
  <2>10. OnTrack(t, r)'
    BY <2>2, <2>3, <2>5, <2>6, <2>7, <2>8, <2>9 DEF OnTrack
  <2>11. new.pc # "idle"
    BY <2>2, <2>9
  <2> QED BY <1>1, <1>5, <1>6, <2>1, <2>2, <2>10, <2>11, TickGoesOn
<1>11. CASE Wipe(t)
  <2> DEFINE new == [tick[t] EXCEPT !.pc = "loop"]
  <2>1. tick' = [tick EXCEPT ![t] = new] /\ UNCHANGED <<card, row, tainted>>
    BY <1>11 DEF Wipe
  <2>2. new.pc = "loop" /\ new.at = at /\ new.r = r /\ tick'[t] = new
    BY <1>8, <1>9, <2>1
  <2>3. at = 0 /\ row[r].cursor = 0
    BY <1>5, <1>11 DEF OnTrack, Wipe
  <2>4. results'[r] = NoResults
    BY <1>1, <1>2, <1>11 DEF Wipe
  <2>5. StoredTo(r, 0)'
    BY <2>4 DEF StoredTo, NoResults, Wave
  <2> HIDE DEF new
  <2>6. OnTrack(t, r)'
    BY <1>3, <2>1, <2>2, <2>3, <2>5 DEF OnTrack
  <2> QED BY <1>1, <1>5, <1>6, <2>1, <2>2, <2>6, TickGoesOn
<1>12. CASE StoreWave(t)
  <2> DEFINE new == [tick[t] EXCEPT !.pc = "mark"]
  <2>1. /\ tick' = [tick EXCEPT ![t] = new] /\ UNCHANGED <<card, row, tainted>>
        /\ results' = Stored(r, at + 1)
    BY <1>4, <1>12 DEF StoreWave
  <2>2. new.pc = "mark" /\ new.at = at /\ new.r = r /\ tick'[t] = new
    BY <1>8, <1>9, <2>1
  <2>3. at = row[r].cursor /\ at < Waves /\ StoredTo(r, at)
    BY <1>5, <1>12 DEF OnTrack, StoreWave
  <2>4. at + 1 \in Wave
    BY <1>3, <2>3 DEF Wave
  <2>5. /\ \A v \in Wave : v # at + 1 => results'[r][v] = results[r][v]
        /\ results'[r][at + 1] = IF results[r][at + 1] = Many THEN Many ELSE results[r][at + 1] + 1
    BY <1>1, <1>2, <2>1, <2>4, StoredTyped
  <2>6. StoredTo(r, at + 1)'
    <3> SUFFICES ASSUME NEW w \in Wave
                 PROVE  /\ w <= at + 1 => results'[r][w] > 0
                        /\ tainted'[r] = 0 => results'[r][w] = IF w <= at + 1 THEN 1 ELSE 0
      BY DEF StoredTo
    <3>1. /\ w <= at => results[r][w] > 0
          /\ tainted[r] = 0 => results[r][w] = IF w <= at THEN 1 ELSE 0
      BY <2>3 DEF StoredTo
    <3>2. results[r][w] \in 0..2 /\ w \in Nat /\ at \in Nat
      BY <1>2, <1>3 DEF Counts, Many, Wave
    <3>3. CASE w = at + 1
      BY <2>1, <2>5, <3>1, <3>2, <3>3 DEF Many
    <3>4. CASE w # at + 1
      BY <2>1, <2>5, <3>1, <3>2, <3>4
    <3> QED BY <3>3, <3>4
  <2> HIDE DEF new
  <2>7. OnTrack(t, r)'
    BY <2>1, <2>2, <2>3, <2>6 DEF OnTrack
  <2> QED BY <1>1, <1>5, <1>6, <2>1, <2>2, <2>7, TickGoesOn
<1>13. CASE Mark(t)
  <2>1. PICK pc \in AfterWave(at + 1) : tick' = [tick EXCEPT ![t].at = at + 1, ![t].pc = pc]
    BY <1>13 DEF Mark
  <2> DEFINE new == [tick[t] EXCEPT !.at = at + 1, !.pc = pc]
  <2>2. tick' = [tick EXCEPT ![t] = new]
    BY <2>1
  <2>3. /\ pc \in {"loop", "chain", "finish"} /\ (pc = "loop" => at + 1 < Waves)
        /\ pc = "finish" => ~(at + 1 < Waves)
    BY <2>1 DEF AfterWave
  <2>4. new.pc = pc /\ new.at = at + 1 /\ new.r = r /\ tick'[t] = new
    <3>1. at + 1 \in Nat /\ pc \in {"start", "wipe", "loop", "mark", "finish", "summary", "chain"}
      BY <1>3, <2>3
    <3>2. new.pc = pc /\ new.at = at + 1 /\ new.r = r
      BY <1>8, <3>1
    <3> QED BY <1>9, <2>2, <3>2
  <2>5. at = row[r].cursor /\ at < Waves /\ StoredTo(r, at + 1)
    BY <1>5, <1>13 DEF OnTrack, Mark
  <2>6. StoredTo(r, at + 1)'
    BY <1>7, <1>13, <2>5 DEF Mark
  <2>7. row'[r].cursor = at + 1
    BY <1>1, <1>2, <1>4, <1>13 DEF Mark, RowRec
  <2>8. card'[r] # "incomplete"
    BY <1>1, <1>2, <1>5, <1>13 DEF Mark
  <2>9. pc = "finish" => at + 1 = Waves
    BY <1>3, <2>3, <2>5
  <2> HIDE DEF new
  <2>10. OnTrack(t, r)'
    BY <2>3, <2>4, <2>6, <2>7, <2>9 DEF OnTrack
  <2>11. new.pc # "idle"
    BY <2>3, <2>4
  <2> QED BY <1>1, <1>5, <1>6, <2>2, <2>4, <2>8, <2>10, <2>11, TickGoesOn
<1>14. CASE FinishRound(t)
  <2> DEFINE new == [tick[t] EXCEPT !.pc = "summary"]
  <2>1. tick' = [tick EXCEPT ![t] = new] /\ UNCHANGED <<card, results, tainted>>
    BY <1>14 DEF FinishRound
  <2>2. new.pc = "summary" /\ new.at = at /\ new.r = r /\ tick'[t] = new
    BY <1>8, <1>9, <2>1
  <2>3. StoredTo(r, Waves)
    BY <1>5, <1>14 DEF OnTrack, FinishRound
  <2>4. StoredTo(r, Waves)'
    BY <1>7, <2>1, <2>3
  <2>5. row'[r].cursor = 0 /\ row'[r].finished
    BY <1>1, <1>2, <1>4, <1>14 DEF FinishRound, RowRec
  <2> HIDE DEF new
  <2>6. OnTrack(t, r)'
    BY <2>2, <2>4, <2>5 DEF OnTrack
  <2> QED BY <1>1, <1>5, <1>6, <2>1, <2>2, <2>6, TickGoesOn
<1>15. CASE Summary(t)
  <2>1. tick' = [tick EXCEPT ![t] = IdleTick] /\ UNCHANGED <<row, results, tainted>>
    BY <1>15 DEF Summary
  <2>2. row[r].finished /\ row[r].cursor = 0 /\ StoredTo(r, Waves)
    BY <1>5, <1>15 DEF OnTrack, Summary
  <2>3. AtRest(r)'
    BY <1>7, <2>1, <2>2 DEF AtRest
  <2>4. \A w \in Wave : results[r][w] > 0
    BY <2>2, <1>3 DEF StoredTo, Wave
  <2>5. card'[r] # "incomplete"
    BY <1>1, <1>2, <1>5, <1>15, <2>4 DEF Summary
  <2>6. IdleTick.pc = "idle"
    BY DEF IdleTick
  <2> QED BY <1>1, <1>5, <1>6, <2>1, <2>3, <2>5, <2>6, TickEnds
<1>16. CASE Chain(t)
  <2> DEFINE new == [IdleTick EXCEPT !.pc = "start", !.r = r]
  <2>1. tick' = [tick EXCEPT ![t] = new] /\ UNCHANGED <<row, results, card>> /\ tainted' = tainted
    BY <1>5, <1>16 DEF Chain, Begin
  <2>2. new.pc = "start" /\ new.r = r /\ tick'[t] = new
    BY <1>9, <2>1 DEF IdleTick
  <2>3. row[r].cursor = 0 \/ StoredTo(r, row[r].cursor)
    BY <1>5, <1>16 DEF OnTrack, Chain
  <2>4. row'[r].cursor = 0 \/ StoredTo(r, row[r].cursor)'
    BY <1>7, <2>1, <2>3
  <2> HIDE DEF new
  <2>5. OnTrack(t, r)'
    BY <2>1, <2>2, <2>4 DEF OnTrack
  <2> QED BY <1>1, <1>5, <1>6, <2>1, <2>2, <2>5, TickGoesOn
<1>17. CASE Kill(t)
  <2>1. tick' = [tick EXCEPT ![t] = IdleTick] /\ UNCHANGED <<row, results, card>>
    BY <1>17 DEF Kill
  <2>2. ~row[r].finished
    <3> SUFFICES ASSUME row[r].finished PROVE FALSE
      OBVIOUS
    <3>1. tainted' = Taint(r, 2)
      BY <1>17 DEF Kill
    <3>2. tainted'[r] >= 2
      BY <1>1, <1>2, <1>4, <3>1, TaintTyped
    <3> QED BY <1>2, <3>2
  <2>3. tainted' = Taint(r, 1)
    BY <1>17, <2>2 DEF Kill
  <2>4. tainted'[r] >= 1
    BY <1>1, <1>2, <1>4, <2>3, TaintTyped
  <2>5. row[r].cursor = 0 \/ \A w \in Wave : w <= row[r].cursor => results[r][w] > 0
    <3>1. CASE tick[t].pc \in {"start", "chain", "finish"}
      BY <1>5, <3>1 DEF OnTrack, StoredTo
    <3>2. CASE tick[t].pc \in {"wipe", "summary"}
      BY <1>5, <3>2 DEF OnTrack
    <3>3. CASE tick[t].pc = "loop"
      BY <1>5, <3>3 DEF OnTrack, StoredTo
    <3>4. CASE tick[t].pc = "mark"
      BY <1>3, <1>5, <3>4 DEF OnTrack, StoredTo, Wave
    <3> QED BY <1>1, <1>2, <3>1, <3>2, <3>3, <3>4 DEF TickRec
  <2>6. AtRest(r)'
    BY <1>2, <2>1, <2>2, <2>4, <2>5 DEF AtRest, StoredTo
  <2>7. IdleTick.pc = "idle"
    BY DEF IdleTick
  <2> QED BY <1>1, <1>5, <1>6, <2>1, <2>6, <2>7, TickEnds
<1> QED BY <1>10, <1>11, <1>12, <1>13, <1>14, <1>15, <1>16, <1>17 DEF TickStep

\* So a tick keeps the invariant.
LEMMA TickKeeps ==
  ASSUME ScanInv, NEW t \in Ticks, TickStep(t) \/ Kill(t)
  PROVE  ScanInv'
<1>1. DnsTypeOK' /\ tick[t].r \in RangeId
  BY TickEffect DEF ScanInv
<1>2. IdsInv' /\ CronInv' /\ \A q \in RangeId \ {tick[t].r} : RangeInv(q)'
  BY TickOthers DEF ScanInv
<1>3. ASSUME NEW q \in RangeId, q = tick[t].r PROVE RangeInv(q)'
  <2>1. PICK at : at = tick[t].at
    OBVIOUS
  <2> QED BY <1>3, <2>1, TickRange DEF ScanInv
<1> QED BY <1>1, <1>2, <1>3 DEF ScanInv

\* A range nothing is done to.
LEMMA RangeStill ==
  ASSUME NEW r \in RangeId, RangeInv(r), row'[r] = row[r], results'[r] = results[r],
         tainted'[r] = tainted[r], card'[r] = card[r], UNCHANGED tick
  PROVE  RangeInv(r)'
<1>1. OnRange(r)' = OnRange(r) /\ \A t \in OnRange(r) : tick'[t] = tick[t]
  BY DEF OnRange
<1> QED BY <1>1, RangeFrame

\* A tick begins on a range that was inserted: alone, from where the range rests.
LEMMA BeginKeeps ==
  ASSUME DnsTypeOK, NEW t \in Ticks, tick[t].pc = "idle", NEW r \in RangeId, Begin(t, r),
         \A q \in RangeId : RangeInv(q), UNCHANGED <<results, card>>,
         \A q \in RangeId : row'[q].st = row[q].st /\ row'[q].cursor = row[q].cursor,
         \A q \in RangeId \ {r} : row'[q] = row[q], Here(r) => row'[r].live
  PROVE  /\ \A q \in RangeId : RangeInv(q)' /\ tainted[q] <= tainted'[q]
         /\ \A q \in RangeId \ {r} : OnRange(q)' = OnRange(q)
         /\ (\A u \in Ticks : TickOK(tick[u])) => \A u \in Ticks : TickOK(tick'[u])
<1> DEFINE new == [IdleTick EXCEPT !.pc = "start", !.r = r]
<1>1. tick' = [tick EXCEPT ![t] = new]
  BY DEF Begin
<1>2. new.pc = "start" /\ new.r = r
  BY DEF IdleTick
<1> HIDE DEF new
<1>3. tick \in [Ticks -> TickRec] /\ tainted \in [RangeId -> 0..2] /\ \A q \in RangeId : tainted[q] <= tainted[q]
  BY ScanTypes
<1>4. /\ tainted' = tainted \/ tainted' = Taint(r, 2)
      /\ OnRange(r) \ {t} # {} => tainted' = Taint(r, 2)
      /\ OnRange(r) \ {t} = {} => tainted' = tainted
  BY DEF Begin
<1>5. \A q \in RangeId : tainted[q] <= tainted'[q] /\ (q # r => tainted'[q] = tainted[q])
  BY <1>3, <1>4, TaintTyped
<1>6. ASSUME NEW q \in RangeId \ {r}
      PROVE  OnRange(q)' = OnRange(q) /\ \A u \in OnRange(q) : tick'[u] = tick[u]
  BY <1>1, <1>2, <1>3, TickFrame DEF TickRec
<1>7. ASSUME NEW q \in RangeId \ {r} PROVE RangeInv(q)'
  BY <1>5, <1>6, RangeFrame
<1>8. RangeInv(r)'
  <2> SUFFICES ASSUME Here(r)', tainted'[r] < 2 PROVE RangeInv(r)'
    BY DEF RangeInv
  <2>1. Here(r)
    BY DEF Here
  <2>2. OnRange(r) \ {t} = {}
    <3> SUFFICES ASSUME OnRange(r) \ {t} # {} PROVE FALSE
      OBVIOUS
    <3>1. tainted' = Taint(r, 2)
      BY <1>4
    <3>2. tainted'[r] >= 2 /\ tainted'[r] \in 0..2
      BY <1>3, <2>1, <3>1, TaintTyped
    <3> QED BY <3>2
  <2>3. OnRange(r) = {} /\ OnRange(r) \subseteq {t} /\ tainted' = tainted
    BY <1>4, <2>2 DEF OnRange
  <2>4. AtRest(r) /\ card[r] # "incomplete"
    BY <2>1, <2>3 DEF RangeInv
  <2>5. row[r].cursor = 0 \/ StoredTo(r, row[r].cursor)
    BY <2>4 DEF AtRest
  <2>6. tick'[t] = new
    BY <1>1, <1>3
  <2>7. OnTrack(t, r)'
    BY <1>2, <2>3, <2>5, <2>6 DEF OnTrack, StoredTo
  <2> QED BY <1>1, <1>2, <2>1, <2>3, <2>4, <2>7, TickGoesOn
<1>9. (\A u \in Ticks : TickOK(tick[u])) => \A u \in Ticks : TickOK(tick'[u])
  BY <1>1, <1>2, <1>3 DEF TickOK
<1> QED BY <1>5, <1>6, <1>7, <1>8, <1>9

\* Two ticks on one range taint it.
LEMMA TwiceKeeps ==
  ASSUME ScanInv, NEW t \in Ticks, ChainTwice(t)
  PROVE  ScanInv'
<1>0. /\ row \in [RangeId -> RowRec] /\ results \in [RangeId -> Counts]
      /\ msg \in [Handler -> MsgRec] /\ tick \in [Ticks -> TickRec] /\ cron \in CronRec
      /\ card \in [RangeId -> Cards] /\ next \in 1..MaxRange + 1 /\ faults \in 0..MaxFault
      /\ tainted \in [RangeId -> 0..2]
  BY ScanTypes DEF ScanInv
<1>1. PICK r \in RangeId : r = tick[t].r
  BY DEF ScanInv, IdsInv, TickOK, ChainTwice
<1> DEFINE new == [IdleTick EXCEPT !.pc = "start", !.r = r]
<1>2. PICK u \in Ticks : tick[u].pc = "idle" /\ tick' = [tick EXCEPT ![t] = new, ![u] = new]
  BY <1>1 DEF ChainTwice
<1>3. new.pc = "start" /\ new.r = r /\ new \in TickRec /\ TickOK(new)
  BY ScanIdles DEF IdleTick, TickOK
<1> HIDE DEF new
<1>4. tick' \in [Ticks -> TickRec] /\ \A v \in Ticks : tick'[v] = tick[v] \/ (v \in {t, u} /\ tick'[v] = new)
  BY <1>0, <1>2, <1>3
<1>5. tainted' = Taint(r, 2) /\ UNCHANGED <<row, results, msg, cron, card, next>>
  BY <1>1 DEF ChainTwice
<1>6. /\ tainted' \in [RangeId -> 0..2]
      /\ \A q \in RangeId : tainted[q] <= tainted'[q] /\ (q # r => tainted'[q] = tainted[q])
      /\ Here(r) => tainted'[r] >= 2
  BY <1>0, <1>1, <1>5, TaintTyped
<1>7. faults' \in 0..MaxFault
  BY <1>0, ScanNumbers DEF ChainTwice
<1>8. DnsTypeOK'
  BY <1>0, <1>4, <1>5, <1>6, <1>7, ScanTypes2
<1>9. ASSUME NEW q \in RangeId \ {r}
      PROVE  OnRange(q)' = OnRange(q) /\ \A v \in OnRange(q) : tick'[v] = tick[v]
  <2>1. tick[t].r # q /\ tick[u].pc = "idle" /\ tick[t].pc = "chain"
    BY <1>1, <1>2, <1>9 DEF ChainTwice
  <2>2. \A v \in OnRange(q) : v # t /\ v # u
    BY <2>1 DEF OnRange
  <2>3. \A v \in OnRange(q) : tick'[v] = tick[v]
    BY <1>4, <2>2 DEF OnRange
  <2>4. \A v \in OnRange(q)' : tick'[v] # new
    BY <1>3, <1>9 DEF OnRange
  <2>5. \A v \in OnRange(q)' : tick'[v] = tick[v]
    BY <1>4, <2>4 DEF OnRange
  <2> QED BY <2>3, <2>5 DEF OnRange
<1>10. \A q \in RangeId : RangeInv(q)'
  <2>1. \A q \in RangeId \ {r} : RangeInv(q)'
    BY <1>5, <1>6, <1>9, RangeFrame DEF ScanInv
  <2>2. RangeInv(r)'
    BY <1>5, <1>6 DEF RangeInv, Here
  <2> QED BY <2>1, <2>2
<1>11. row[r].st # "absent"
  <2>1. t \in OnRange(r)
    BY <1>1 DEF OnRange, ChainTwice
  <2> QED BY <2>1 DEF ScanInv, IdsInv
<1>12. IdsInv'
  <2>1. \A q \in RangeId : row[q].st = "absent" => OnRange(q)' = {} /\ card'[q] = "none"
    BY <1>5, <1>9, <1>11 DEF ScanInv, IdsInv
  <2>2. \A v \in Ticks : TickOK(tick'[v])
    BY <1>3, <1>4 DEF ScanInv, IdsInv
  <2> QED BY <1>5, <2>1, <2>2, IdsFrame DEF ScanInv
<1>13. CronInv'
  <2>1. \A q \in RangeId : Ages(q)
    BY <1>5, <1>6 DEF Ages, Here
  <2> QED BY <1>5, <1>8, <2>1, CronFrame DEF ScanInv
<1> QED BY <1>8, <1>10, <1>12, <1>13 DEF ScanInv

\* So do the messages: a range message deletes what was there, and inserts its own.
LEMMA MessageKeeps ==
  ASSUME ScanInv, NEW h \in Handler, Submit(h) \/ Message(h)
  PROVE  ScanInv'
<1>0. /\ row \in [RangeId -> RowRec] /\ results \in [RangeId -> Counts]
      /\ msg \in [Handler -> MsgRec] /\ tick \in [Ticks -> TickRec] /\ cron \in CronRec
      /\ card \in [RangeId -> Cards] /\ next \in 1..MaxRange + 1 /\ faults \in 0..MaxFault
      /\ tainted \in [RangeId -> 0..2]
  BY ScanTypes DEF ScanInv
<1>1. DnsTypeOK /\ DnsTypeOK' /\ IdsInv /\ CronInv /\ \A q \in RangeId : RangeInv(q)
  BY MessageTyped DEF ScanInv
<1>2. /\ msg[h] \in MsgRec /\ msg[h].old \in SUBSET RangeId
      /\ msg[h].pc # "idle" => msg[h].r \in RangeId /\ msg[h].r < next
      /\ \A g \in Handler : msg[g].old \in SUBSET RangeId
  BY <1>0, <1>1 DEF IdsInv, MsgRec
<1>3. \A q \in RangeId : tainted[q] <= tainted[q] /\ q \in Nat /\ next \in Nat
  BY <1>0 DEF RangeId
<1>4. CASE Submit(h)
  <2>1. UNCHANGED <<row, results, tick, cron, card, tainted>> /\ next' = next + 1 /\ next \in RangeId
    BY <1>0, <1>4 DEF Submit, RangeId
  <2>2. \A q \in RangeId : RangeInv(q)'
    BY <1>1, <2>1, RangeStill
  <2>3. CronInv'
    BY <1>1, <1>3, <2>1, CronFrame DEF Ages, Here
  <2> DEFINE old == {r \in RangeId : Here(r)}
  <2>4. PICK new : /\ msg' = [msg EXCEPT ![h] = new] /\ new.r = next /\ new.old = old
                   /\ new.pc \in {"insert", "results"} /\ (new.pc = "results" => old # {})
    <3> DEFINE rec == [pc |-> IF old = {} THEN "insert" ELSE "results", old |-> old, r |-> next]
    <3>1. msg' = [msg EXCEPT ![h] = rec]
      BY <1>4 DEF Submit
    <3>2. /\ rec.r = next /\ rec.old = old
          /\ rec.pc \in {"insert", "results"} /\ (rec.pc = "results" => old # {})
      OBVIOUS
    <3> HIDE DEF rec
    <3> QED BY <3>1, <3>2
  <2>5. \A g \in Handler : msg'[g] = IF g = h THEN new ELSE msg[g]
    BY <1>0, <2>4
  <2>6. \A q \in old : row[q].st # "absent"
    BY DEF Here
  <2> HIDE DEF old
  <2>7. \A g \in Handler : msg'[g].pc # "idle" =>
          /\ msg'[g].r \in RangeId /\ msg'[g].r < next'
          /\ row'[msg'[g].r].st = "absent" <=> msg'[g].pc \in {"results", "range", "insert"}
    <3> SUFFICES ASSUME NEW g \in Handler, msg'[g].pc # "idle"
                 PROVE  /\ msg'[g].r \in RangeId /\ msg'[g].r < next'
                        /\ row'[msg'[g].r].st = "absent" <=> msg'[g].pc \in {"results", "range", "insert"}
      OBVIOUS
    <3>1. CASE g = h
      <4>1. row[next].st = "absent"
        BY <1>1, <1>3, <2>1 DEF IdsInv
      <4> QED BY <1>3, <2>1, <2>4, <2>5, <3>1, <4>1
    <3>2. CASE g # h
      <4>1. msg'[g] = msg[g]
        BY <2>5, <3>2
      <4>2. msg[g].r \in RangeId /\ msg[g].r < next
        BY <1>1, <4>1 DEF IdsInv
      <4> QED BY <1>1, <1>3, <2>1, <4>1, <4>2 DEF IdsInv
    <3> QED BY <3>1, <3>2
  <2>8. \A g \in Handler : /\ msg'[g].pc \in {"results", "range"} => msg'[g].old # {}
                           /\ \A r \in msg'[g].old : row'[r].st # "absent"
    BY <1>1, <2>1, <2>4, <2>5, <2>6 DEF IdsInv
  <2>9. \A g, k \in Handler : msg'[g].pc # "idle" /\ msg'[k].pc # "idle" /\ msg'[g].r = msg'[k].r => g = k
    <3>1. \A g \in Handler : msg[g].pc # "idle" => msg[g].r # next
      BY <1>1, <1>3 DEF IdsInv
    <3> QED BY <1>1, <2>4, <2>5, <3>1 DEF IdsInv
  <2>10. \A r \in RangeId : next' <= r => row'[r].st = "absent"
    BY <1>1, <1>3, <2>1 DEF IdsInv
  <2>11. \A r \in RangeId : OnRange(r)' = OnRange(r)
    BY <2>1 DEF OnRange
  <2>12. IdsInv'
    BY <1>1, <2>1, <2>7, <2>8, <2>9, <2>10, <2>11 DEF IdsInv
  <2> QED BY <1>1, <2>2, <2>3, <2>12 DEF ScanInv
<1>5. CASE DeleteResults(h)
  <2> DEFINE c == CHOOSE r \in msg[h].old : \A q \in msg[h].old : r <= q
  <2>1. PICK r : r = c
    OBVIOUS
  <2>2. r \in msg[h].old /\ r \in RangeId /\ row[r].st # "absent"
    BY <1>1, <1>2, <1>5, <2>1, FirstOldIsOne DEF IdsInv, DeleteResults
  <2>3. /\ results' = [results EXCEPT ![r] = NoResults] /\ tainted' = Taint(r, 2)
        /\ UNCHANGED <<row, tick, cron, card, next>> /\ msg' = [msg EXCEPT ![h].pc = "range"]
    BY <1>5, <2>1 DEF DeleteResults
  <2> HIDE DEF c
  <2>4. \A q \in RangeId : /\ tainted[q] <= tainted'[q]
                           /\ q # r => tainted'[q] = tainted[q] /\ results'[q] = results[q]
    BY <1>0, <2>3, TaintTyped
  <2>5. Here(r) => tainted'[r] >= 2 /\ tainted'[r] \in 0..2
    BY <1>0, <2>2, <2>3, TaintTyped
  <2>6. RangeInv(r)'
    BY <2>3, <2>5 DEF RangeInv, Here
  <2>7. \A q \in RangeId : RangeInv(q)'
    BY <1>1, <2>3, <2>4, <2>6, RangeStill
  <2>8. CronInv'
    BY <1>1, <2>3, <2>4, CronFrame DEF Ages, Here
  <2>9. \A g \in Handler : /\ msg'[g].r = msg[g].r /\ msg'[g].old = msg[g].old
                           /\ g # h => msg'[g].pc = msg[g].pc
                           /\ g = h => msg'[g].pc = "range" /\ msg[g].pc = "results"
    BY <1>0, <1>5, <2>3 DEF DeleteResults, MsgRec
  <2>10. \A q \in RangeId : OnRange(q)' = OnRange(q)
    BY <2>3 DEF OnRange
  <2>11. IdsInv'
    BY <1>1, <2>3, <2>9, <2>10 DEF IdsInv
  <2> QED BY <1>1, <2>7, <2>8, <2>11 DEF ScanInv
<1>6. CASE DeleteRange(h)
  <2> DEFINE c == CHOOSE r \in msg[h].old : \A q \in msg[h].old : r <= q
  <2>1. PICK r : r = c
    OBVIOUS
  <2>2. r \in msg[h].old /\ r \in RangeId /\ row[r].st # "absent"
    BY <1>1, <1>2, <1>6, <2>1, FirstOldIsOne DEF IdsInv, DeleteRange
  <2>3. /\ row' = [row EXCEPT ![r] = [NoRow EXCEPT !.st = "gone"]]
        /\ results' = [results EXCEPT ![r] = NoResults]
        /\ tainted' = [tainted EXCEPT ![r] = 0] /\ card' = [card EXCEPT ![r] = "none"]
        /\ UNCHANGED <<tick, cron, next>>
        /\ msg' = [msg EXCEPT ![h].old = msg[h].old \ {r},
                              ![h].pc = IF msg[h].old \ {r} = {} THEN "insert" ELSE "results"]
    BY <1>6, <2>1 DEF DeleteRange
  <2> HIDE DEF c
  <2>4. /\ row'[r].st = "gone"
        /\ \A q \in RangeId \ {r} : /\ row'[q] = row[q] /\ results'[q] = results[q]
                                    /\ tainted'[q] = tainted[q] /\ card'[q] = card[q]
    BY <1>0, <2>2, <2>3 DEF NoRow
  <2>5. RangeInv(r)'
    BY <2>4 DEF RangeInv, Here
  <2>6. \A q \in RangeId : RangeInv(q)'
    BY <1>1, <2>3, <2>4, <2>5, RangeStill
  <2>7. CronInv'
    <3>1. \A q \in RangeId : Ages(q)
      BY <1>3, <2>4 DEF Ages, Here
    <3> QED BY <1>1, <2>3, <3>1, CronFrame
  <2>8. \A g \in Handler : /\ msg'[g].r = msg[g].r
                           /\ g # h => msg'[g] = msg[g]
    BY <1>0, <2>3 DEF MsgRec
  <2>9. /\ msg'[h].old = msg[h].old \ {r} /\ msg'[h].pc \in {"insert", "results"}
        /\ msg'[h].pc = "results" => msg'[h].old # {}
        /\ msg[h].pc = "range"
    BY <1>0, <1>6, <2>3 DEF MsgRec, DeleteRange
  <2>10. \A q \in RangeId : row'[q].st = "absent" <=> row[q].st = "absent"
    BY <2>2, <2>4
  <2>11. \A q \in RangeId : OnRange(q)' = OnRange(q)
    BY <2>3 DEF OnRange
  <2>12. \A q \in RangeId : row'[q].st = "absent" => OnRange(q)' = {} /\ card'[q] = "none"
    BY <1>1, <2>4, <2>10, <2>11 DEF IdsInv
  <2>13. \A g \in Handler : msg'[g].pc # "idle" =>
          /\ msg'[g].r \in RangeId /\ msg'[g].r < next'
          /\ row'[msg'[g].r].st = "absent" <=> msg'[g].pc \in {"results", "range", "insert"}
    <3> SUFFICES ASSUME NEW g \in Handler, msg'[g].pc # "idle"
                 PROVE  /\ msg'[g].r \in RangeId /\ msg'[g].r < next'
                        /\ row'[msg'[g].r].st = "absent" <=> msg'[g].pc \in {"results", "range", "insert"}
      OBVIOUS
    <3>1. msg[g].pc # "idle" /\ msg'[g].r = msg[g].r
      BY <2>8, <2>9
    <3>2. /\ msg[g].r \in RangeId /\ msg[g].r < next
          /\ row[msg[g].r].st = "absent" <=> msg[g].pc \in {"results", "range", "insert"}
      BY <1>1, <3>1 DEF IdsInv
    <3>3. msg[g].pc \in {"results", "range", "insert"} <=> msg'[g].pc \in {"results", "range", "insert"}
      BY <2>8, <2>9
    <3> QED BY <2>3, <2>10, <3>1, <3>2, <3>3
  <2>14. \A g \in Handler : /\ msg'[g].pc \in {"results", "range"} => msg'[g].old # {}
                           /\ \A q \in msg'[g].old : row'[q].st # "absent"
    <3>1. \A g \in Handler : msg'[g].old \subseteq msg[g].old
      BY <2>8, <2>9
    <3>2. \A g \in Handler : msg'[g].pc \in {"results", "range"} => msg'[g].old # {}
      BY <1>1, <2>8, <2>9 DEF IdsInv
    <3> QED BY <1>1, <1>2, <2>10, <3>1, <3>2 DEF IdsInv
  <2>15. \A g, k \in Handler : msg'[g].pc # "idle" /\ msg'[k].pc # "idle" /\ msg'[g].r = msg'[k].r => g = k
    BY <1>1, <2>8, <2>9 DEF IdsInv
  <2>16. IdsInv'
    BY <1>1, <2>3, <2>10, <2>12, <2>13, <2>14, <2>15 DEF IdsInv
  <2> QED BY <1>1, <2>6, <2>7, <2>16 DEF ScanInv
<1>7. CASE Insert(h)
  <2>1. PICK r \in RangeId : r = msg[h].r
    BY <1>2, <1>7 DEF Insert
  <2>2. row[r].st = "absent" /\ OnRange(r) = {} /\ card[r] = "none"
    BY <1>1, <1>7, <2>1 DEF IdsInv, Insert
  <2>3. /\ row' = [row EXCEPT ![r] = Fresh] /\ msg' = [msg EXCEPT ![h].pc = "send"]
        /\ UNCHANGED <<results, tick, cron, card, next, tainted>>
    BY <1>7, <2>1 DEF Insert
  <2>4. row'[r] = Fresh /\ \A q \in RangeId \ {r} : row'[q] = row[q]
    BY <1>0, <2>3
  <2>5. Fresh.st = "here" /\ ~Fresh.live /\ Fresh.cursor = 0 /\ ~Fresh.finished
    BY DEF Fresh, NoRow
  <2>6. \A q \in RangeId : OnRange(q)' = OnRange(q)
    BY <2>3 DEF OnRange
  <2>7. RangeInv(r)'
    BY <2>2, <2>3, <2>4, <2>5, <2>6 DEF RangeInv, AtRest
  <2>8. \A q \in RangeId : RangeInv(q)'
    BY <1>1, <2>3, <2>4, <2>7, RangeStill
  <2>9. CronInv'
    <3>1. \A q \in RangeId : Ages(q)
      BY <1>3, <2>2, <2>3, <2>4 DEF Ages, Here
    <3> QED BY <1>1, <2>3, <3>1, CronFrame
  <2>10. \A g \in Handler : /\ msg'[g].r = msg[g].r /\ msg'[g].old = msg[g].old
                            /\ g # h => msg'[g].pc = msg[g].pc
                            /\ g = h => msg'[g].pc = "send" /\ msg[g].pc = "insert"
    BY <1>0, <1>7, <2>3 DEF Insert, MsgRec
  <2>11. \A g \in Handler : msg[g].pc # "idle" /\ g # h => msg[g].r # r
    BY <1>1, <2>1, <2>10 DEF IdsInv
  <2>12. \A g \in Handler : msg'[g].pc # "idle" =>
          /\ msg'[g].r \in RangeId /\ msg'[g].r < next'
          /\ row'[msg'[g].r].st = "absent" <=> msg'[g].pc \in {"results", "range", "insert"}
    <3> SUFFICES ASSUME NEW g \in Handler, msg'[g].pc # "idle"
                 PROVE  /\ msg'[g].r \in RangeId /\ msg'[g].r < next'
                        /\ row'[msg'[g].r].st = "absent" <=> msg'[g].pc \in {"results", "range", "insert"}
      OBVIOUS
    <3>1. msg[g].pc # "idle" /\ msg'[g].r = msg[g].r
      BY <2>10
    <3>2. CASE g = h
      BY <1>1, <2>1, <2>3, <2>4, <2>5, <2>10, <3>1, <3>2 DEF IdsInv
    <3>3. CASE g # h
      BY <1>1, <2>3, <2>4, <2>10, <2>11, <3>1, <3>3 DEF IdsInv
    <3> QED BY <3>2, <3>3
  <2>13. \A g \in Handler : /\ msg'[g].pc \in {"results", "range"} => msg'[g].old # {}
                           /\ \A q \in msg'[g].old : row'[q].st # "absent"
    BY <1>1, <1>2, <2>4, <2>5, <2>10 DEF IdsInv
  <2>14. \A g, k \in Handler : msg'[g].pc # "idle" /\ msg'[k].pc # "idle" /\ msg'[g].r = msg'[k].r => g = k
    BY <1>1, <2>10 DEF IdsInv
  <2>15. \A q \in RangeId : /\ next' <= q => row'[q].st = "absent"
                            /\ row'[q].st = "absent" => OnRange(q)' = {} /\ card'[q] = "none"
    <3>1. r < next
      BY <1>2, <1>7, <2>1 DEF Insert
    <3>2. ASSUME NEW q \in RangeId, next <= q PROVE q # r
      BY <1>3, <3>1, <3>2
    <3> QED BY <1>1, <2>3, <2>4, <2>5, <2>6, <3>2 DEF IdsInv
  <2>16. IdsInv'
    BY <1>1, <2>3, <2>12, <2>13, <2>14, <2>15 DEF IdsInv
  <2> QED BY <1>1, <2>8, <2>9, <2>16 DEF ScanInv
<1>8. CASE SendCard(h)
  <2>1. PICK r \in RangeId : r = msg[h].r
    BY <1>2, <1>8 DEF SendCard
  <2>2. row[r].st # "absent"
    BY <1>1, <1>8, <2>1 DEF IdsInv, SendCard
  <2>3. /\ UNCHANGED <<row, results, tick, cron, next, tainted>>
        /\ \/ msg' = [msg EXCEPT ![h].pc = "live"] /\ card' = [card EXCEPT ![r] = "progress"]
           \/ msg' = [msg EXCEPT ![h] = IdleMsg] /\ UNCHANGED card
    BY <1>8, <2>1 DEF SendCard
  <2>4. \A q \in RangeId : /\ q # r => card'[q] = card[q]
                           /\ card'[q] = "incomplete" => card[q] = "incomplete"
    BY <1>0, <2>3
  <2>5. \A q \in RangeId : OnRange(q)' = OnRange(q)
    BY <2>3 DEF OnRange
  <2>6. \A q \in RangeId : RangeInv(q)'
    BY <1>1, <2>3, <2>4, <2>5, RangeFrame
  <2>7. CronInv'
    BY <1>1, <1>3, <2>3, CronFrame DEF Ages, Here
  <2>8. \A g \in Handler : /\ msg'[g].pc # "idle" => msg'[g].r = msg[g].r
                           /\ msg'[g].old \subseteq msg[g].old
                           /\ g # h => msg'[g] = msg[g]
                           /\ g = h => msg'[g].pc \in {"live", "idle"} /\ msg[g].pc = "send"
    BY <1>0, <1>8, <2>3 DEF SendCard, MsgRec, IdleMsg
  <2>9. \A g \in Handler : msg'[g].pc # "idle" =>
          /\ msg'[g].r \in RangeId /\ msg'[g].r < next'
          /\ row'[msg'[g].r].st = "absent" <=> msg'[g].pc \in {"results", "range", "insert"}
    BY <1>1, <2>3, <2>8 DEF IdsInv
  <2>10. \A g \in Handler : /\ msg'[g].pc \in {"results", "range"} => msg'[g].old # {}
                           /\ \A q \in msg'[g].old : row'[q].st # "absent"
    BY <1>1, <2>3, <2>8 DEF IdsInv
  <2>11. \A g, k \in Handler : msg'[g].pc # "idle" /\ msg'[k].pc # "idle" /\ msg'[g].r = msg'[k].r => g = k
    BY <1>1, <2>8 DEF IdsInv
  <2>12. IdsInv'
    BY <1>1, <2>2, <2>3, <2>4, <2>5, <2>9, <2>10, <2>11 DEF IdsInv
  <2> QED BY <1>1, <2>6, <2>7, <2>12 DEF ScanInv
<1>9. CASE GoLive(h)
  <2>1. PICK r \in RangeId : r = msg[h].r
    BY <1>2, <1>9 DEF GoLive
  <2>2. row[r].st # "absent"
    BY <1>1, <1>9, <2>1 DEF IdsInv, GoLive
  <2>3. PICK t \in Ticks : tick[t].pc = "idle" /\ Begin(t, r)
    BY <1>9, <2>1 DEF GoLive
  <2>4. /\ row' = IF Here(r) THEN [row EXCEPT ![r].live = TRUE] ELSE row
        /\ msg' = [msg EXCEPT ![h] = IdleMsg] /\ UNCHANGED <<results, cron, card, next>>
    BY <1>9, <2>1 DEF GoLive
  <2>5. /\ \A q \in RangeId : row'[q].st = row[q].st /\ row'[q].cursor = row[q].cursor
        /\ \A q \in RangeId \ {r} : row'[q] = row[q]
        /\ Here(r) => row'[r].live
        /\ ~Here(r) => row'[r] = row[r]
    BY <1>0, <2>4 DEF RowRec
  <2>6. /\ \A q \in RangeId : RangeInv(q)' /\ tainted[q] <= tainted'[q]
        /\ \A q \in RangeId \ {r} : OnRange(q)' = OnRange(q)
        /\ (\A u \in Ticks : TickOK(tick[u])) => \A u \in Ticks : TickOK(tick'[u])
    BY <1>1, <2>3, <2>4, <2>5, BeginKeeps
  <2>7. CronInv'
    <3>1. \A q \in RangeId : Ages(q)
      BY <2>5, <2>6 DEF Ages, Here
    <3> QED BY <1>1, <2>4, <3>1, CronFrame
  <2>8. \A g \in Handler : /\ g # h => msg'[g] = msg[g]
                           /\ g = h => msg'[g].pc = "idle" /\ msg'[g].old = {}
    BY <1>0, <2>4 DEF IdleMsg
  <2>9. \A g \in Handler : msg'[g].pc # "idle" =>
          /\ msg'[g].r \in RangeId /\ msg'[g].r < next'
          /\ row'[msg'[g].r].st = "absent" <=> msg'[g].pc \in {"results", "range", "insert"}
    BY <1>1, <2>4, <2>5, <2>8 DEF IdsInv
  <2>10. \A g \in Handler : /\ msg'[g].pc \in {"results", "range"} => msg'[g].old # {}
                           /\ \A q \in msg'[g].old : row'[q].st # "absent"
    BY <1>1, <1>2, <2>5, <2>8 DEF IdsInv
  <2>11. \A g, k \in Handler : msg'[g].pc # "idle" /\ msg'[k].pc # "idle" /\ msg'[g].r = msg'[k].r => g = k
    BY <1>1, <2>8 DEF IdsInv
  <2>12. IdsInv'
    BY <1>1, <2>2, <2>4, <2>5, <2>6, <2>9, <2>10, <2>11 DEF IdsInv
  <2> QED BY <1>1, <2>6, <2>7, <2>12 DEF ScanInv
<1> QED BY <1>4, <1>5, <1>6, <1>7, <1>8, <1>9 DEF Message

\* A query returns some of the rows it is about.
LEMMA EarliestArePart ==
  ASSUME NEW S, NEW n
  PROVE  Earliest(S, n) \subseteq S
BY DEF Earliest

\* The place of the cron in its rows is right when the rows are.
LEMMA CronPlaced ==
  ASSUME NEW due \in SUBSET [r : RangeId, cursor : 0..Waves], cron' = CronAt(due), DnsTypeOK',
         \A d \in due : /\ row'[d.r].st # "absent"
                        /\ row'[d.r].st = "here" /\ tainted'[d.r] < 2 => d.cursor = 0
  PROVE  CronInv'
<1>1. CASE due = {}
  <2>1. cron'.pc = "purge" /\ cron'.due = {}
    BY <1>1 DEF CronAt, IdleCron
  <2> QED BY <2>1 DEF CronInv
<1>2. CASE due # {}
  <2>1. PICK d \in due : d = Oldest(due)
    BY <1>2, OldestIsOne
  <2>2. d.cursor \in 0..Waves /\ d.r \in RangeId /\ tainted'[d.r] \in 0..2
    BY DEF DnsTypeOK
  <2>3. /\ cron'.due = due /\ cron'.at = d.cursor
        /\ cron'.pc = IF d.cursor < ChunkEnd(d) THEN "probe" ELSE "store"
    BY <1>2, <2>1 DEF CronAt, CronIn
  <2>4. d.cursor = 0 => d.cursor < ChunkEnd(d)
    BY ScanNumbers DEF ChunkEnd
  <2>5. cron'.pc = "store" => (row'[d.r].st = "here" => tainted'[d.r] = 2)
    BY <2>2, <2>3, <2>4
  <2> QED BY <1>2, <2>1, <2>3, <2>5 DEF CronInv, Here
<1> QED BY <1>1, <1>2

\* The cron keeps it.
LEMMA CronKeeps ==
  ASSUME ScanInv, Cron
  PROVE  ScanInv'
<1>0. /\ row \in [RangeId -> RowRec] /\ results \in [RangeId -> Counts]
      /\ msg \in [Handler -> MsgRec] /\ tick \in [Ticks -> TickRec] /\ cron \in CronRec
      /\ card \in [RangeId -> Cards] /\ next \in 1..MaxRange + 1 /\ faults \in 0..MaxFault
      /\ tainted \in [RangeId -> 0..2]
  BY ScanTypes DEF ScanInv
<1>1. DnsTypeOK /\ IdsInv /\ CronInv /\ \A q \in RangeId : RangeInv(q)
  BY DEF ScanInv
<1>2. cron.due \in SUBSET [r : RangeId, cursor : 0..Waves] /\ cron.at \in 0..Waves
  BY <1>0 DEF CronRec
\* Where the ticks stay and no range comes or goes, the ids are right.
<1>3. ASSUME UNCHANGED <<msg, next, tick, card>>, \A q \in RangeId : row'[q].st = row[q].st PROVE IdsInv'
  <2>1. \A q \in RangeId : OnRange(q)' = OnRange(q)
    BY <1>3 DEF OnRange
  <2>2. \A q \in RangeId : row[q].st = "absent" => OnRange(q)' = {} /\ card'[q] = "none"
    BY <1>1, <1>3, <2>1 DEF IdsInv
  <2>3. \A u \in Ticks : TickOK(tick'[u])
    BY <1>1, <1>3 DEF IdsInv
  <2> QED BY <1>1, <1>3, <2>2, <2>3, IdsFrame
<1>4. CASE CronSelect
  <2> DEFINE S == {r \in RangeId : Here(r) /\ ~row[r].live /\ (~row[r].finished \/ row[r].quiet)}
             E == Earliest(S, DueLimit)
             due == {[r |-> q, cursor |-> row[q].cursor] : q \in E}
  <2>1. cron' = CronAt(due) /\ UNCHANGED <<row, results, msg, tick, card, next, faults, tainted>>
    BY <1>4 DEF CronSelect
  <2>a. \A q \in E : q \in RangeId /\ Here(q) /\ ~row[q].live
    BY EarliestArePart
  <2> HIDE DEF E
  <2>2. due \in SUBSET [r : RangeId, cursor : 0..Waves]
    BY <1>0, <2>a DEF RowRec
  <2>3. \A d \in due : row[d.r].st # "absent" /\ (row[d.r].st = "here" /\ tainted[d.r] < 2 => d.cursor = 0)
    BY <1>1, <2>a DEF RangeInv, Here
  <2> HIDE DEF due
  <2>4. DnsTypeOK'
    BY <1>0, <2>1, <2>2, CronAtTyped, ScanTypes2
  <2>5. CronInv'
    BY <2>1, <2>2, <2>3, <2>4, CronPlaced
  <2>6. \A q \in RangeId : RangeInv(q)'
    BY <1>1, <2>1, RangeStill
  <2> QED BY <1>3, <2>1, <2>4, <2>5, <2>6 DEF ScanInv
<1>5. CASE CronProbe
  <2>1. cron.due # {} /\ cron.at < ChunkEnd(Oldest(cron.due))
    BY <1>1, <1>5 DEF CronInv, CronProbe
  <2>2. PICK d \in cron.due : d = Oldest(cron.due)
    BY <1>2, <2>1, OldestIsOne
  <2>3. PICK r \in RangeId : r = d.r
    BY <1>2
  <2>4. d.cursor \in 0..Waves /\ cron.at + 1 \in 0..Waves
    BY <1>2, <2>1, <2>2, ScanNumbers DEF ChunkEnd
  <2>5. UNCHANGED <<row, msg, tick, card, next, faults>>
    BY <1>5 DEF CronProbe
  <2>6. CASE Here(r)
    <3>1. /\ results' = Stored(r, cron.at + 1) /\ cron' = CronIn(cron.due, cron.at + 1)
          /\ tainted' = Taint(r, 2)
      BY <1>5, <2>2, <2>3, <2>6 DEF CronProbe
    <3>2. /\ results' \in [RangeId -> Counts] /\ tainted' \in [RangeId -> 0..2]
          /\ \A q \in RangeId : /\ tainted[q] <= tainted'[q]
                                /\ q # r => results'[q] = results[q] /\ tainted'[q] = tainted[q]
          /\ tainted'[r] >= 2
      BY <1>0, <2>6, <3>1, StoredTyped, TaintTyped
    <3>3. /\ cron'.due = cron.due /\ cron'.at = cron.at + 1
          /\ cron'.pc = IF cron.at + 1 < ChunkEnd(d) THEN "probe" ELSE "store"
          /\ cron' \in CronRec
      BY <1>2, <2>2, <2>4, <3>1 DEF CronIn, CronRec
    <3>4. DnsTypeOK'
      BY <1>0, <2>5, <3>2, <3>3, ScanTypes2
    <3>5. RangeInv(r)'
      BY <3>2 DEF RangeInv
    <3>6. \A q \in RangeId : RangeInv(q)'
      BY <1>1, <2>5, <3>2, <3>5, RangeStill
    <3>7. tainted'[r] = 2
      BY <3>2
    <3>8. \A e \in cron.due : row'[e.r].st # "absent"
                              /\ (row'[e.r].st = "here" /\ tainted'[e.r] < 2 => e.cursor = 0)
      <4> SUFFICES ASSUME NEW e \in cron.due
                   PROVE  row'[e.r].st # "absent"
                          /\ (row'[e.r].st = "here" /\ tainted'[e.r] < 2 => e.cursor = 0)
        OBVIOUS
      <4>1. e.r \in RangeId /\ tainted[e.r] \in 0..2 /\ tainted'[e.r] \in 0..2 /\ tainted[e.r] <= tainted'[e.r]
        BY <1>0, <1>2, <3>2
      <4>2. row[e.r].st # "absent" /\ (row[e.r].st = "here" /\ tainted[e.r] < 2 => e.cursor = 0)
        BY <1>1, <1>5 DEF CronInv, CronProbe, Here
      <4> QED BY <2>5, <4>1, <4>2
    <3>9. CronInv'
      <4>1. cron'.pc = "probe" => cron'.at < ChunkEnd(Oldest(cron'.due))
        BY <2>2, <3>3
      <4>2. cron'.pc \in {"probe", "store"}
        BY <3>3
      <4>3. tainted'[Oldest(cron'.due).r] = 2
        BY <2>2, <2>3, <3>3, <3>7
      <4> QED BY <2>1, <3>3, <3>8, <4>1, <4>2, <4>3 DEF CronInv, Here
    <3> QED BY <1>3, <2>5, <3>4, <3>6, <3>9 DEF ScanInv
  <2>7. CASE ~Here(r)
    <3>1. cron' = [IdleCron EXCEPT !.pc = "purge"] /\ UNCHANGED <<results, tainted>>
      BY <1>5, <2>2, <2>3, <2>7 DEF CronProbe
    <3>2. cron' = CronAt({})
      BY <3>1 DEF CronAt
    <3>3. DnsTypeOK'
      BY <1>0, <2>5, <3>1, <3>2, CronAtTyped, ScanTypes2
    <3>4. CronInv'
      BY <3>2, <3>3, CronPlaced
    <3>5. \A q \in RangeId : RangeInv(q)'
      BY <1>1, <2>5, <3>1, RangeStill
    <3> QED BY <1>3, <2>5, <3>3, <3>4, <3>5 DEF ScanInv
  <2> QED BY <2>6, <2>7
<1>6. CASE CronStore
  <2>1. cron.due # {}
    BY <1>1, <1>6 DEF CronInv, CronStore
  <2>2. PICK d \in cron.due : d = Oldest(cron.due)
    BY <1>2, <2>1, OldestIsOne
  <2>3. PICK r \in RangeId : r = d.r
    BY <1>2
  <2>4. Here(r) => tainted[r] = 2
    BY <1>1, <1>6, <2>2, <2>3 DEF CronInv, CronStore
  <2>5. /\ UNCHANGED <<results, msg, tick, card, next, faults, tainted>>
        /\ cron' = CronAt(cron.due \ {d})
        /\ row' = IF ~Here(r) THEN row
                  ELSE IF cron.at >= Waves
                  THEN [row EXCEPT ![r].cursor = 0, ![r].finished = TRUE, ![r].quiet = FALSE]
                  ELSE [row EXCEPT ![r].cursor = cron.at]
    BY <1>6, <2>2, <2>3 DEF CronStore
  <2>6. /\ row' \in [RangeId -> RowRec]
        /\ \A q \in RangeId : row'[q].st = row[q].st
        /\ \A q \in RangeId \ {r} : row'[q] = row[q]
        /\ ~Here(r) => row' = row
    <3>1. CASE ~Here(r)
      BY <1>0, <2>5, <3>1
    <3>2. CASE Here(r) /\ cron.at >= Waves
      <4>1. row' = [row EXCEPT ![r].cursor = 0, ![r].finished = TRUE, ![r].quiet = FALSE]
        BY <2>5, <3>2
      <4> DEFINE v == [row[r] EXCEPT !.cursor = 0, !.finished = TRUE, !.quiet = FALSE]
      <4>2. v \in RowRec /\ v.st = row[r].st
        BY <1>0, ScanNumbers DEF RowRec
      <4>3. row' = [row EXCEPT ![r] = v]
        BY <4>1
      <4> HIDE DEF v
      <4> QED BY <1>0, <3>2, <4>2, <4>3
    <3>3. CASE Here(r) /\ ~(cron.at >= Waves)
      <4>1. row' = [row EXCEPT ![r].cursor = cron.at]
        BY <2>5, <3>3
      <4> QED BY <1>0, <1>2, <3>3, <4>1 DEF RowRec
    <3> QED BY <3>1, <3>2, <3>3
  <2>7. DnsTypeOK'
    BY <1>0, <1>2, <2>5, <2>6, CronAtTyped, ScanTypes2
  <2>8. CronInv'
    <3>1. \A e \in cron.due : /\ row[e.r].st # "absent" /\ e.r \in RangeId
                              /\ row[e.r].st = "here" /\ tainted[e.r] < 2 => e.cursor = 0
      BY <1>1, <1>2, <1>6 DEF CronInv, CronStore, Here
    <3>2. \A e \in cron.due \ {d} : /\ row'[e.r].st # "absent"
                                    /\ row'[e.r].st = "here" /\ tainted'[e.r] < 2 => e.cursor = 0
      BY <2>5, <2>6, <3>1
    <3> QED BY <1>2, <2>5, <2>7, <3>2, CronPlaced
  <2>9. \A q \in RangeId : RangeInv(q)'
    <3>1. RangeInv(r)'
      <4>1. CASE Here(r)
        BY <2>4, <2>5, <4>1 DEF RangeInv
      <4>2. CASE ~Here(r)
        BY <2>6, <4>2 DEF RangeInv, Here
      <4> QED BY <4>1, <4>2
    <3> QED BY <1>1, <2>5, <2>6, <3>1, RangeStill
  <2> QED BY <1>3, <2>5, <2>6, <2>7, <2>8, <2>9 DEF ScanInv
<1>7. CASE CronPurge
  <2>1. PICK old \in SUBSET {r \in RangeId : row[r].finished} :
          /\ results' = [r \in RangeId |-> IF r \in old THEN NoResults ELSE results[r]]
          /\ tainted' = [r \in RangeId |-> IF r \in old THEN 2 ELSE tainted[r]]
    BY <1>7 DEF CronPurge
  <2>2. /\ UNCHANGED <<row, msg, tick, card, next, faults>>
        /\ cron' = [IdleCron EXCEPT !.pc = IF Stalled = {} THEN "idle" ELSE "live",
                                    !.due = {[r |-> r, cursor |-> 0] : r \in Stalled}]
    BY <1>7 DEF CronPurge
  <2>a. \A q \in Stalled : q \in RangeId /\ Here(q) /\ row[q].live
    BY EarliestArePart DEF Stalled
  <2>3. results' \in [RangeId -> Counts] /\ tainted' \in [RangeId -> 0..2]
    <3>1. \A q \in RangeId : (IF q \in old THEN NoResults ELSE results[q]) \in Counts
      BY <1>0, ScanIdles
    <3>2. \A q \in RangeId : (IF q \in old THEN 2 ELSE tainted[q]) \in 0..2
      BY <1>0
    <3> QED BY <2>1, <3>1, <3>2
  <2>4. /\ cron'.pc = IF Stalled = {} THEN "idle" ELSE "live"
        /\ cron'.due = {[r |-> r, cursor |-> 0] : r \in Stalled} /\ cron' \in CronRec
    <3> DEFINE due == {[r |-> r, cursor |-> 0] : r \in Stalled}
    <3>1. due \in SUBSET [r : RangeId, cursor : 0..Waves]
      BY <2>a, ScanNumbers
    <3>2. cron' = [IdleCron EXCEPT !.pc = IF Stalled = {} THEN "idle" ELSE "live", !.due = due]
      BY <2>2
    <3> HIDE DEF due
    <3>3. cron'.pc = (IF Stalled = {} THEN "idle" ELSE "live") /\ cron'.due = due /\ cron' \in CronRec
      BY <3>1, <3>2, ScanIdles DEF IdleCron, CronRec
    <3> QED BY <3>3 DEF due
  <2>5. DnsTypeOK'
    BY <1>0, <2>2, <2>3, <2>4, ScanTypes2
  <2>6. \A d \in cron'.due : d.r \in Stalled
    BY <2>4
  <2>7. CronInv'
    <3>1. \A d \in cron'.due : row'[d.r].st # "absent" /\ row'[d.r].live
      BY <2>2, <2>6, <2>a DEF Here
    <3>2. cron'.pc \in {"idle", "live"} /\ (cron'.pc = "live" => cron'.due # {})
      BY <2>4
    <3> QED BY <3>1, <3>2 DEF CronInv
  <2>8. \A q \in RangeId : RangeInv(q)'
    <3> SUFFICES ASSUME NEW q \in RangeId PROVE RangeInv(q)'
      OBVIOUS
    <3>1. CASE q \in old
      BY <2>1, <3>1 DEF RangeInv
    <3>2. CASE q \notin old
      BY <1>1, <2>1, <2>2, <3>2, RangeStill
    <3> QED BY <3>1, <3>2
  <2> QED BY <1>3, <2>2, <2>5, <2>7, <2>8 DEF ScanInv
<1>8. CASE CronLive
  <2>1. cron.due # {}
    BY <1>1, <1>8 DEF CronInv, CronLive
  <2>2. PICK d \in cron.due : d = Oldest(cron.due)
    BY <1>2, <2>1, OldestIsOne
  <2>3. PICK r \in RangeId : r = d.r
    BY <1>2
  <2>4. row[r].st # "absent" /\ (Here(r) => row[r].live)
    BY <1>1, <1>8, <2>2, <2>3 DEF CronInv, CronLive
  <2>5. PICK t \in Ticks : tick[t].pc = "idle" /\ Begin(t, r)
    BY <1>8, <2>2, <2>3 DEF CronLive
  <2>6. /\ UNCHANGED <<row, results, msg, card, next, faults>>
        /\ cron' = IF cron.due \ {d} = {} THEN IdleCron ELSE [cron EXCEPT !.due = cron.due \ {d}]
    BY <1>8, <2>2 DEF CronLive
  <2>7. tick' \in [Ticks -> TickRec] /\ tainted' \in [RangeId -> 0..2]
    BY <1>0, <2>5, BeginTyped
  <2>8. cron' \in CronRec
    BY <1>0, <2>6, ScanIdles DEF CronRec
  <2>9. DnsTypeOK'
    BY <1>0, <2>6, <2>7, <2>8, ScanTypes2
  <2>10. /\ \A q \in RangeId : RangeInv(q)' /\ tainted[q] <= tainted'[q]
         /\ \A q \in RangeId \ {r} : OnRange(q)' = OnRange(q)
         /\ (\A u \in Ticks : TickOK(tick[u])) => \A u \in Ticks : TickOK(tick'[u])
    BY <1>1, <2>4, <2>5, <2>6, BeginKeeps
  <2>11. IdsInv'
    <3>1. \A q \in RangeId : row[q].st = "absent" => OnRange(q)' = {} /\ card'[q] = "none"
      BY <1>1, <2>4, <2>6, <2>10 DEF IdsInv
    <3> QED BY <1>1, <2>6, <2>10, <3>1, IdsFrame DEF IdsInv
  <2>12. CronInv'
    <3>1. \/ cron'.pc = "idle" /\ cron'.due = {}
          \/ cron'.pc = "live" /\ cron'.due # {} /\ cron'.due \subseteq cron.due
      BY <1>0, <1>8, <2>6 DEF IdleCron, CronRec, CronLive
    <3>2. \A e \in cron.due : row[e.r].st # "absent" /\ (Here(e.r) => row[e.r].live)
      BY <1>1, <1>8 DEF CronInv, CronLive
    <3> QED BY <2>6, <3>1, <3>2 DEF CronInv, Here
  <2> QED BY <2>9, <2>10, <2>11, <2>12 DEF ScanInv
<1> QED BY <1>4, <1>5, <1>6, <1>7, <1>8 DEF Cron

LEMMA QuietKeeps ==
  ASSUME ScanInv, NEW r \in RangeId, GoQuiet(r)
  PROVE  ScanInv'
<1>0. row \in [RangeId -> RowRec] /\ tainted \in [RangeId -> 0..2]
  BY ScanTypes DEF ScanInv
<1>1. /\ row' = [row EXCEPT ![r].quiet = TRUE]
      /\ UNCHANGED <<results, msg, tick, cron, card, next, faults, tainted>>
  BY DEF GoQuiet
<1>2. /\ row' \in [RangeId -> RowRec]
      /\ \A q \in RangeId : /\ row'[q].st = row[q].st /\ row'[q].live = row[q].live
                            /\ row'[q].cursor = row[q].cursor /\ row'[q].finished = row[q].finished
  BY <1>0, <1>1 DEF RowRec
<1>3. DnsTypeOK'
  BY <1>1, <1>2, ScanTypes, ScanTypes2 DEF ScanInv
<1>4. \A q \in RangeId : OnRange(q)' = OnRange(q)
  BY <1>1 DEF OnRange
<1>5. \A q \in RangeId : RangeInv(q)'
  BY <1>1, <1>2, <1>4, RangeFrame DEF ScanInv
<1>6. IdsInv'
  BY <1>1, <1>2, <1>4, IdsFrame DEF ScanInv, IdsInv
<1>7. CronInv'
  <2>1. \A q \in RangeId : Ages(q)
    BY <1>0, <1>1, <1>2 DEF Ages, Here
  <2> QED BY <1>1, <1>3, <2>1, CronFrame DEF ScanInv
<1> QED BY <1>3, <1>5, <1>6, <1>7 DEF ScanInv

LEMMA ScanInit == DnsInit => ScanInv
<1> SUFFICES ASSUME DnsInit PROVE ScanInv
  OBVIOUS
<1>1. DnsTypeOK
  <2>1. row \in [RangeId -> RowRec] /\ results \in [RangeId -> Counts] /\ msg \in [Handler -> MsgRec]
        /\ tick \in [Ticks -> TickRec] /\ cron \in CronRec
    BY ScanIdles DEF DnsInit
  <2>2. card \in [RangeId -> Cards] /\ tainted \in [RangeId -> 0..2]
    BY DEF DnsInit, Cards
  <2>3. next \in 1..MaxRange + 1 /\ faults \in 0..MaxFault
    BY ScanNumbers DEF DnsInit
  <2> QED BY <2>1, <2>2, <2>3, ScanTypes
<1>2. /\ \A h \in Handler : msg[h].pc = "idle" /\ msg[h].old = {}
      /\ \A t \in Ticks : tick[t].pc = "idle"
      /\ \A r \in RangeId : row[r].st = "absent" /\ card[r] = "none"
      /\ cron.pc = "idle" /\ cron.due = {}
  BY DEF DnsInit, IdleMsg, IdleTick, NoRow, IdleCron
<1>3. \A r \in RangeId : OnRange(r) = {}
  BY <1>2 DEF OnRange
<1>4. IdsInv
  BY <1>2, <1>3 DEF IdsInv, TickOK
<1>5. CronInv
  BY <1>2 DEF CronInv
<1>6. \A r \in RangeId : RangeInv(r)
  BY <1>2 DEF RangeInv, Here
<1> QED BY <1>1, <1>4, <1>5, <1>6 DEF ScanInv

\* The cursor tells what is stored, in every reachable state.
LEMMA ScanInvariant == DnsSpec => []ScanInv
<1>1. ASSUME ScanInv, [DnsNext]_dnsVars PROVE ScanInv'
  <2>1. CASE UNCHANGED dnsVars
    <3>1. UNCHANGED <<row, results, msg, tick, cron, card, next, faults, tainted>>
      BY <2>1 DEF dnsVars
    <3>2. DnsTypeOK'
      BY <1>1, <3>1 DEF ScanInv, DnsTypeOK
    <3>3. \A q \in RangeId : RangeInv(q)'
      BY <1>1, <3>1, RangeStill DEF ScanInv
    <3>4. \A q \in RangeId : OnRange(q)' = OnRange(q)
      BY <3>1 DEF OnRange
    <3>5. IdsInv'
      BY <1>1, <3>1, <3>4 DEF ScanInv, IdsInv
    <3>6. CronInv'
      BY <1>1, <3>1 DEF ScanInv, CronInv, Here
    <3> QED BY <3>2, <3>3, <3>5, <3>6 DEF ScanInv
  <2>2. CASE DnsNext
    BY <1>1, <2>2, MessageKeeps, TickKeeps, TwiceKeeps, QuietKeeps, CronKeeps DEF DnsNext
  <2> QED BY <1>1, <2>1, <2>2
<1> QED BY <1>1, ScanInit, PTL DEF DnsSpec

\* The tables, messages, ticks and cards of the scans keep their types: a tick or
\* the cron never counts a wave beyond the range.
THEOREM ScanTypesHold == DnsSpec => []DnsTypeOK
<1>1. ScanInv => DnsTypeOK
  BY DEF ScanInv
<1> QED BY <1>1, ScanInvariant, PTL

\* Every round one chain of ticks ran undisturbed ends with every wave stored
\* exactly once, for ranges, chunks, messages and ticks of any number.
THEOREM RoundsAreExact == DnsSpec => []RoundIsExact
<1>1. ScanInv => RoundIsExact
  <2> SUFFICES ASSUME ScanInv, NEW r \in RangeId, Idle(r), row[r].finished, tainted[r] = 0, NEW w \in Wave
               PROVE  results[r][w] = 1
    BY DEF RoundIsExact
  <2>1. AtRest(r)
    BY DEF ScanInv, RangeInv, Idle
  <2>2. StoredTo(r, Waves) /\ w <= Waves
    BY <2>1 DEF AtRest, Wave
  <2> QED BY <2>2 DEF StoredTo
<1> QED BY <1>1, ScanInvariant, PTL

\* Killed invocations leave no hole: the chain the cron resumes ends with every
\* wave stored, and the final card counts them all.
THEOREM ResumedRoundsCover == DnsSpec => []ResumedRoundCovers
<1>1. ScanInv => ResumedRoundCovers
  <2> SUFFICES ASSUME ScanInv, NEW r \in RangeId, tainted[r] <= 1
               PROVE  /\ Idle(r) /\ row[r].finished => \A w \in Wave : results[r][w] > 0
                      /\ Here(r) => card[r] # "incomplete"
    BY DEF ResumedRoundCovers
  <2>1. tainted[r] < 2 /\ RangeInv(r)
    BY ScanTypes DEF ScanInv
  <2>2. Here(r) => card[r] # "incomplete"
    BY <2>1 DEF RangeInv
  <2>3. ASSUME Idle(r), row[r].finished, NEW w \in Wave PROVE results[r][w] > 0
    <3>1. AtRest(r)
      BY <2>1, <2>3 DEF RangeInv, Idle
    <3>2. StoredTo(r, Waves) /\ w <= Waves
      BY <2>3, <3>1 DEF AtRest, Wave
    <3> QED BY <3>2 DEF StoredTo
  <2> QED BY <2>2, <2>3
<1> QED BY <1>1, ScanInvariant, PTL

=============================================================================
