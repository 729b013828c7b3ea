------------------------------- MODULE Tunnel -------------------------------
(***************************************************************************)
(* One VLESS tunnel: handleVlessWebSocket of omni-panel/src/proxy/vless.js *)
(* from the accepted WebSocket on.  Frames of the client are turned into   *)
(* bytes, queued in a ReadableStream and piped into a sink whose write     *)
(* opens the tunnel with the first frame and forwards the others; a pump   *)
(* copies the answers back.                                                *)
(*                                                                         *)
(* External: a WritableStream calls write again only when the promise of   *)
(* the last write is settled, and close or abort only when no write is in  *)
(* flight; a Blob is read in its own time.                                 *)
(***************************************************************************)
EXTENDS Naturals, Sequences

CONSTANTS Kinds,      \* what headers may ask for, and how a TCP destination is reached
          FrameKinds, \* how frames arrive: as buffers (ArrayBuffer, view, string) or Blobs
          MaxFrame,   \* bound: frames the client sends
          MaxDown     \* bound: chunks the destination answers with

ASSUME TunnelAssumption ==
  /\ Kinds \subseteq {"direct", "proxied", "udp"} /\ FrameKinds \subseteq {"buffer", "blob"}
  /\ MaxFrame \in Nat /\ MaxDown \in Nat

VARIABLES
  ws,        \* the WebSocket: open, or closed by either side
  sent,      \* frames the client sent
  converting,\* Blobs being read
  source,    \* the ReadableStream: open, closed, errored
  queue,     \* frames in the ReadableStream
  entered,   \* history: the frames that entered it
  sink,      \* the sink: what its write in flight waits for, or how it ended
  cur,       \* the frame of that write, or the first one
  opening,   \* openTunnel: where it waits
  asked,     \* what the accepted header asks for
  pendingChunks,
  remote,    \* remoteSocket
  upstream,  \* frames the destination received
  pump,      \* the loop that copies the answers back
  down,      \* chunks it counted
  finished,
  reports    \* history: the totals reported to the ledger

tunnelVars == <<ws, sent, converting, source, queue, entered, sink, cur, opening, asked, pendingChunks,
                remote, upstream, pump, down, finished, reports>>
clientVars == <<sent, converting, entered>>

TunnelTypeOK ==
  /\ ws \in {"open", "closed"} /\ sent \in 0..MaxFrame
  /\ source \in {"open", "closed", "errored"}
  /\ converting \subseteq 1..MaxFrame /\ entered \in Seq(1..MaxFrame)
  /\ queue \in Seq(1..MaxFrame) /\ pendingChunks \in Seq(1..MaxFrame)
  /\ sink \in {"idle", "opening", "writing", "ended"} /\ cur \in 0..MaxFrame
  /\ opening \in {"none", "header", "resolve", "proxy", "connect", "payload", "drain",
                  "opened", "failed"}
  /\ asked \in {"none", "tcp", "udp"}
  /\ remote \in {"none", "connecting", "open", "closed"}
  /\ upstream \in Seq(1..MaxFrame)
  /\ pump \in {"off", "on", "done"} /\ down \in 0..MaxDown
  /\ finished \in BOOLEAN /\ reports \in Seq(1..MaxFrame + MaxDown)

TunnelInit ==
  /\ ws = "open" /\ sent = 0 /\ converting = {} /\ entered = <<>> /\ source = "open" /\ queue = <<>> /\ pendingChunks = <<>>
  /\ sink = "idle" /\ cur = 0 /\ opening = "none" /\ asked = "none"
  /\ remote = "none" /\ upstream = <<>>
  /\ pump = "off" /\ down = 0 /\ finished = FALSE /\ reports = <<>>

\* Mutant: finish without its guard.
FinishAgain ==
  /\ finished' = TRUE /\ ws' = "closed"
  /\ remote' = IF remote = "none" THEN remote ELSE "closed"
  /\ reports' = IF Len(upstream) + down > 0 THEN Append(reports, Len(upstream) + down) ELSE reports

\* finish: the first call closes both sides and reports what was counted.
Finish ==
  IF finished THEN UNCHANGED <<finished, ws, remote, reports>>
  ELSE /\ finished' = TRUE /\ ws' = "closed"
       /\ remote' = IF remote = "none" THEN remote ELSE "closed"
       /\ reports' = IF Len(upstream) + down > 0 THEN Append(reports, Len(upstream) + down)
                     ELSE reports

(***************************************************************************)
(* The client.                                                             *)
(***************************************************************************)

\* The stream still takes what the listeners give it: it was not closed, did not
\* err, and was not cancelled by the pipe after the sink erred.
Listening == source = "open" /\ sink # "ended"

Enter(n) ==
  IF Listening THEN queue' = Append(queue, n) /\ entered' = Append(entered, n)
  ELSE UNCHANGED <<queue, entered>>

KeepSink == UNCHANGED <<sink, cur, opening, asked, pendingChunks, remote, upstream, pump, down,
                        finished, reports>>

\* toBytes has a buffer at once; the bytes of a Blob are awaited.
ClientSend(k) ==
  /\ ws = "open" /\ sent < MaxFrame /\ sent' = sent + 1
  /\ IF k = "blob" THEN converting' = converting \cup {sent + 1} /\ UNCHANGED <<queue, entered>>
     ELSE Enter(sent + 1) /\ UNCHANGED converting
  /\ KeepSink /\ UNCHANGED <<ws, source>>

\* A Blob is read: nothing makes those that came later wait for it.
Convert(n) ==
  /\ n \in converting /\ converting' = converting \ {n}
  /\ Enter(n)
  /\ KeepSink /\ UNCHANGED <<ws, source, sent>>

\* Or it cannot be read, which errors the stream and discards what is queued.
ConvertFails(n) ==
  /\ n \in converting /\ converting' = converting \ {n}
  /\ source' = (IF Listening THEN "errored" ELSE source)
  /\ queue' = (IF Listening THEN <<>> ELSE queue)
  /\ KeepSink /\ UNCHANGED <<ws, sent, entered>>

\* The close event, also the one that answers our own close, and the error
\* event, which discards what is queued.
WsClose ==
  /\ ws = "open" \/ source = "open"
  /\ ws' = "closed"
  /\ \/ source = "open" /\ source' = "closed" /\ UNCHANGED queue
     \/ source = "open" /\ source' = "errored" /\ queue' = <<>>
     \/ source # "open" /\ UNCHANGED <<source, queue>>
  /\ KeepSink /\ UNCHANGED clientVars

(***************************************************************************)
(* The sink.                                                               *)
(***************************************************************************)

\* write: forward the frame if the socket is there, open the tunnel with the
\* first one, else queue it for openTunnel.  udpWriter is never set.
Write ==
  /\ sink = "idle" /\ queue # <<>>
  /\ queue' = Tail(queue)
  /\ LET forward == remote # "none"
         first   == remote = "none" /\ opening = "none"
     IN  /\ sink' = IF forward THEN "writing" ELSE IF first THEN "opening" ELSE "idle"
         /\ cur' = IF forward \/ first THEN Head(queue) ELSE cur
         /\ opening' = IF first THEN "header" ELSE opening
         /\ pendingChunks' = IF forward \/ first THEN pendingChunks
                             ELSE Append(pendingChunks, Head(queue))
  /\ UNCHANGED <<ws, clientVars, source, asked, remote, upstream, pump, down, finished, reports>>

WriteDone ==
  /\ sink = "writing" /\ remote = "open"
  /\ upstream' = Append(upstream, cur) /\ sink' = "idle"
  /\ UNCHANGED <<ws, clientVars, source, queue, cur, opening, asked, pendingChunks, remote, pump, down,
                 finished, reports>>

\* Mutant: the error of a write is swallowed.
WriteFailsQuietly ==
  /\ sink = "writing" /\ sink' = "idle"
  /\ UNCHANGED <<ws, clientVars, source, queue, cur, opening, asked, pendingChunks, remote, upstream,
                 pump, down, finished, reports>>

\* A write to the upstream fails, always so once the socket is closed: the
\* catch block finishes and errors the stream.
WriteFails ==
  /\ sink = "writing" /\ sink' = "ended" /\ queue' = <<>>
  /\ Finish
  /\ UNCHANGED <<clientVars, source, cur, opening, asked, pendingChunks, upstream, pump, down>>

\* Mutant: the end of the stream does not wait for a write in flight.
SinkEndAtOnce ==
  /\ source # "open" /\ queue = <<>> /\ sink # "ended" /\ sink' = "ended"
  /\ Finish
  /\ UNCHANGED <<clientVars, source, queue, cur, opening, asked, pendingChunks, upstream, pump, down>>

\* Mutant: no abort callback, an error of the WebSocket ends nothing.
SinkEndOnClose ==
  /\ source = "closed" /\ queue = <<>> /\ sink = "idle" /\ sink' = "ended"
  /\ Finish
  /\ UNCHANGED <<clientVars, source, queue, cur, opening, asked, pendingChunks, upstream, pump, down>>

\* close after the last frame was written, abort when the source errored.
SinkEnd ==
  /\ source # "open" /\ queue = <<>> /\ sink = "idle" /\ sink' = "ended"
  /\ Finish
  /\ UNCHANGED <<clientVars, source, queue, cur, opening, asked, pendingChunks, upstream, pump, down>>

(***************************************************************************)
(* openTunnel.                                                             *)
(***************************************************************************)
Go(l) == opening' = l
KeepOpening == UNCHANGED <<clientVars, source, cur, pendingChunks, down>>

\* A throw of openTunnel reaches the catch block of write.
OpenFails ==
  /\ opening' = "failed" /\ sink' = "ended" /\ queue' = <<>>
  /\ Finish
  /\ KeepOpening /\ UNCHANGED <<upstream, pump>>

\* The header is malformed, names another user or a blocked destination; so it
\* is when another frame was read before the client's first.
HeaderRejected == opening = "header" /\ OpenFails /\ UNCHANGED asked

\* createUdpForwarder is not imported by vless.js: calling it throws.
HeaderUdp == opening = "header" /\ cur = 1 /\ "udp" \in Kinds /\ asked' = "udp" /\ OpenFails

\* pickProxy: one of the user's relays, if any.
Reach ==
  \/ "direct" \in Kinds /\ Go("connect")
  \/ "proxied" \in Kinds /\ Go("proxy")

\* A domain name needs an answer of the resolver, an address does not.
HeaderTcp ==
  /\ opening = "header" /\ cur = 1 /\ Kinds # {"udp"} /\ asked' = "tcp"
  /\ Go("resolve") \/ Reach
  /\ KeepOpening /\ UNCHANGED <<ws, queue, sink, remote, upstream, pump, finished, reports>>

\* resolveOne, bounded by AbortSignal.timeout.
Resolved ==
  /\ opening = "resolve" /\ Reach
  /\ KeepOpening /\ UNCHANGED <<ws, queue, sink, asked, remote, upstream, pump, finished, reports>>

ResolveFails == opening = "resolve" /\ OpenFails /\ UNCHANGED asked

\* connectViaProxy: the relay answers the handshake, or refuses.  No timeout.
ProxyReady ==
  /\ opening = "proxy" /\ Go("connect") /\ remote' = "connecting"
  /\ KeepOpening /\ UNCHANGED <<ws, queue, sink, asked, upstream, pump, finished, reports>>

ProxyFails == opening = "proxy" /\ OpenFails /\ UNCHANGED asked

\* connect() returns a socket at once.
Connect ==
  /\ opening = "connect" /\ remote = "none" /\ remote' = "connecting"
  /\ KeepOpening /\ UNCHANGED <<ws, queue, sink, asked, opening, upstream, pump, finished, reports>>

\* socket.opened resolves first; sending the response byte to a closed
\* WebSocket throws.
Opened ==
  /\ opening = "connect" /\ remote = "connecting" /\ ws = "open"
  /\ Go("payload") /\ remote' = "open"
  /\ KeepOpening /\ UNCHANGED <<ws, queue, sink, asked, upstream, pump, finished, reports>>

OpenedTooLate ==
  /\ opening = "connect" /\ remote = "connecting" /\ ws = "closed"
  /\ OpenFails /\ UNCHANGED asked

\* The timeout wins the race, or the connection is refused.
ConnectFails == opening = "connect" /\ remote = "connecting" /\ OpenFails /\ UNCHANGED asked

\* The rest of the first frame, if any, is forwarded.
Payload ==
  /\ opening = "payload" /\ remote = "open" /\ Go("drain")
  /\ upstream' = Append(upstream, cur)
  /\ KeepOpening /\ UNCHANGED <<ws, queue, sink, asked, remote, pump, finished, reports>>

\* Then what was queued meanwhile, in order; then the pump starts and the
\* first write returns.
Drain ==
  /\ opening = "drain" /\ remote = "open"
  /\ IF pendingChunks # <<>>
     THEN /\ upstream' = Append(upstream, Head(pendingChunks))
          /\ pendingChunks' = Tail(pendingChunks)
          /\ UNCHANGED <<opening, sink, pump>>
     ELSE /\ Go("opened") /\ pump' = "on"
          /\ sink' = IF sink = "opening" THEN "idle" ELSE sink
          /\ UNCHANGED <<upstream, pendingChunks>>
  /\ UNCHANGED <<ws, clientVars, source, queue, cur, asked, remote, down, finished, reports>>

PayloadFails == opening \in {"payload", "drain"} /\ OpenFails /\ UNCHANGED asked

OpenTunnel ==
  \/ HeaderRejected \/ HeaderUdp \/ HeaderTcp \/ Resolved \/ ResolveFails
  \/ ProxyReady \/ ProxyFails \/ Connect \/ Opened \/ OpenedTooLate \/ ConnectFails
  \/ Payload \/ Drain \/ PayloadFails

(***************************************************************************)
(* The pump.                                                               *)
(***************************************************************************)
PumpData ==
  /\ pump = "on" /\ remote = "open" /\ down < MaxDown
  /\ down' = down + 1
  /\ UNCHANGED <<ws, clientVars, source, queue, sink, cur, opening, asked, pendingChunks, remote, upstream,
                 pump, finished, reports>>

\* The destination ends the stream, or the socket was closed.
PumpEnd ==
  /\ pump = "on" /\ pump' = "done"
  /\ Finish
  /\ UNCHANGED <<clientVars, source, queue, sink, cur, opening, asked, pendingChunks, upstream, down>>

\* The sink of the client's stream: one write at a time, then close or abort.
SinkStep == Write \/ WriteDone \/ WriteFails \/ SinkEnd

Client ==
  \/ \E k \in FrameKinds : ClientSend(k)
  \/ \E n \in 1..MaxFrame : Convert(n) \/ ConvertFails(n)
  \/ WsClose

TunnelNext == Client \/ SinkStep \/ OpenTunnel \/ PumpData \/ PumpEnd

TunnelSpec == TunnelInit /\ [][TunnelNext]_tunnelVars

\* A write waits for the destination, or connectViaProxy for a relay: neither
\* has a timeout.
Waiting ==
  \/ opening = "proxy"
  \/ /\ remote = "open"
     /\ \/ sink = "writing" \/ opening = "payload"
        \/ opening = "drain" /\ pendingChunks # <<>>

\* The steps that take bounded time: the stream machinery, the resolver and
\* connect, which have timeouts, the close event after a close, and the end of
\* writes and of the pump after the socket was closed.  Not the client, the
\* reading of a Blob, the destination or the relay of a proxied tunnel.
TunnelFairness ==
  /\ WF_tunnelVars(SinkStep /\ ~Waiting) /\ WF_tunnelVars(OpenTunnel /\ ~Waiting)
  /\ WF_tunnelVars(ws = "closed" /\ WsClose) /\ WF_tunnelVars(remote = "closed" /\ PumpEnd)
TunnelFairSpec == TunnelSpec /\ TunnelFairness

(***************************************************************************)
(* Properties.                                                             *)
(***************************************************************************)

\* The destination receives the frames in the order in which they entered the
\* stream and without a gap, although the header, the frames that arrive while
\* the tunnel is opened and the later ones take three different ways to it.
StreamOrder ==
  Len(upstream) <= Len(entered) /\ \A i \in 1..Len(upstream) : upstream[i] = entered[i]

\* "Reading it through new Response(data).arrayBuffer() works for Blob": the
\* destination receives what the client sent, in order and without a gap.
InOrder == \A i \in 1..Len(upstream) : upstream[i] = i

\* "Report to the ledger exactly once per tunnel": not twice, although close,
\* abort, error and the end of the pump all call finish.
ReportedOnce == Len(reports) <= 1

\* remoteSocket is not left open behind a finished tunnel: finish never comes
\* while openTunnel is about to store a socket nobody would close.  (A relay
\* that fails its handshake is not remoteSocket: upstream.js leaves it open.)
NoSocketLeft ==
  finished => remote \in {"none", "closed"} /\ opening \in {"none", "opened", "failed"}

\* Once its WebSocket is closed a tunnel finishes, and its bytes are reported,
\* whatever it was doing; unless it waits for ever, for a relay's handshake or for
\* a destination that does not read, when the sink is neither closed nor aborted.
ClosedFinishes == []<>~Waiting => (ws = "closed" ~> finished)

\* "Bounded connect": the same without the exception.
ClosedAlwaysFinishes == ws = "closed" ~> finished

\* "we degrade to dropping UDP": a tunnel whose accepted header asks for UDP
\* is not torn down while its client stays.
UdpDegrades == asked = "udp" /\ source = "open" => ~finished
=============================================================================
