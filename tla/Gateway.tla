------------------------------ MODULE Gateway ------------------------------
(***************************************************************************)
(* A GatewayConnection (conn/atgateway/gateway.go, gateway_session.go)     *)
(* over TCP (tcp.go): the handshake, the goroutines that write, the        *)
(* receive loop, which answers pings, and Close.  The gateway itself is    *)
(* external: a peer that keeps to the protocol, may leave out IVs or reset *)
(* them, refuse the handshake, kick the client, send a damaged frame or    *)
(* drop the connection.                                                    *)
(***************************************************************************)
EXTENDS GatewayCodec, Sequences, FiniteSets

CONSTANTS
  Writer,     \* goroutines that call WriteMessage, once each
  Text,       \* the payload each of them writes
  Posts,      \* the payloads the gateway posts, in this order
  CryptoFlag, CompressionFlag,  \* the names in the flags of the client
  Offers,     \* what the gateway may pick: [alg, compressor, maxSize, ownIV, token, key]
  SendBuffer  \* frames the socket takes before Write blocks

ASSUME GatewayAssumption ==
  /\ \A o \in Offers : /\ o.alg \in CryptoAlgorithm
                       /\ o.ownIV => HasIV(o.alg)
                       /\ o.token => o.alg # "none" /\ (HasIV(o.alg) => o.ownIV)
  /\ \A w \in Writer : Text[w].size \in Nat /\ Text[w].packed \in Nat
  /\ "free" \notin Writer
  /\ Len(Posts) \in Nat
  /\ \A i \in 1 .. Len(Posts) : /\ Posts[i].size \in Nat /\ Posts[i].packed \in Nat
                                /\ Posts[i].size > 0 => Posts[i].packed > 0
  /\ SendBuffer \in Nat \ {0}

VARIABLES
  dial,     \* DialGateway: "start", "sent", "confirm", "open" or "failed"
  session,  \* [alg, compressor, threshold, maxSize, sendIV, recvIV]
  mu,       \* g.mu: "free" or the goroutine that holds it
  closed,   \* g.closed
  tcp,      \* "open", "closed" by the client or "dropped" by the gateway
  out, in,  \* the frames in the two directions
  writer,   \* pc of each writer
  frame,    \* the encoded frame of each writer
  reader,   \* the receive loop: "read", "pong" or why it ended
  closer,   \* pc of Close
  app,      \* payloads given to the application, as [id, size, intact]
  peer,     \* the gateway's session
  posted,   \* number of payloads the gateway has posted
  posts,    \* the post frames and the kickoff on the wire (history)
  pinged    \* the gateway has sent its ping or pong

vars == <<dial, session, mu, closed, tcp, out, in, writer, frame, reader,
          closer, app, peer, posted, posts, pinged>>

NoFrame == [type |-> "none"]
Config == ParseGatewayConfig(CryptoFlag, CompressionFlag)
NoSession == [alg |-> "none", compressor |-> "none", threshold |-> Config.threshold,
              maxSize |-> 0, sendIV |-> NoIV, recvIV |-> NoIV]

Init ==
  /\ dial = "start"
  /\ session = NoSession
  /\ mu = "free"
  /\ closed = FALSE
  /\ tcp = "open"
  /\ out = <<>>
  /\ in = <<>>
  /\ writer = [w \in Writer |-> "idle"]
  /\ frame = [w \in Writer |-> NoFrame]
  /\ reader = "read"
  /\ closer = "idle"
  /\ app = <<>>
  /\ peer = NoSession
  /\ posted = 0
  /\ posts = <<>>
  /\ pinged = FALSE
-----------------------------------------------------------------------------
(* TCPConnection.                                                          *)

\* WriteMessage fails on a closed connection and waits for room on an open one.
WriteFails == tcp # "open"
WriteRoom == tcp = "open" /\ Len(out) < SendBuffer

Sent(f) ==
  /\ WriteRoom
  /\ out' = Append(out, f)
  /\ posts' = IF f.type \in {"post", "kickoff"} THEN Append(posts, f) ELSE posts

\* ReadMessage: a local close discards what has arrived, a drop does not.
ReadFails == tcp = "closed" \/ (tcp = "dropped" /\ in = <<>>)
Readable == tcp # "closed" /\ in # <<>>
-----------------------------------------------------------------------------
(* The handshake.                                                          *)

clientVars == <<mu, closed, writer, frame, reader, closer, app>>

BuildKeyExchangeReq ==
  /\ dial = "start"
  /\ Sent(HandshakeMessage(Config, Wire(0)))
  /\ dial' = "sent"
  /\ UNCHANGED <<clientVars, session, tcp, in, peer, posted, pinged>>

\* DialGateway closes the connection when a step of the handshake fails.
DialFails ==
  /\ dial' = "failed"
  /\ tcp' = "closed"

\* The session a response sets up.  Both IVs start from the derived one; the
\* gateway may give its own, and the token is the first text of its chain.
DerivedIV(alg) == IF HasIV(alg) THEN FreshIV("derived") ELSE NoIV

Advanced(alg, iv, token) ==
  IF token.size > 0 THEN RollIV(IVRollPolicy(alg), iv, token) ELSE iv

SessionOf(rsp) ==
  [NoSession EXCEPT
   !.alg = rsp.alg, !.compressor = rsp.compressor, !.maxSize = rsp.maxSize,
   !.sendIV = DerivedIV(rsp.alg),
   !.recvIV = Advanced(rsp.alg,
                       IF rsp.initIV = NoIV THEN DerivedIV(rsp.alg) ELSE rsp.initIV,
                       rsp.token)]

HandleKeyExchangeRsp ==
  /\ dial = "sent"
  /\ Readable
  /\ in' = Tail(in)
  /\ LET rsp == Head(in)
         accepted == /\ rsp.type = "handshake"
                     /\ rsp.alg # "none" => SharedSecretWith(rsp.pub)
                     /\ CipherSupported(rsp.alg)
                     /\ CompressorSupported(rsp.compressor)
                     /\ rsp.token.size > 0 /\ rsp.initIV # NoIV =>
                          Decrypts(rsp.alg, rsp.token, rsp.initIV)
     IN  \/ /\ accepted
            /\ session' = SessionOf(rsp)
            /\ dial' = "confirm"
            /\ UNCHANGED tcp
         \/ /\ ~accepted
            /\ DialFails
            /\ UNCHANGED session
  /\ UNCHANGED <<clientVars, out, peer, posted, posts, pinged>>

SendConfirm ==
  /\ dial = "confirm"
  /\ Sent(ConfirmMessage)
  /\ dial' = "open"
  /\ UNCHANGED <<clientVars, session, tcp, in, peer, posted, pinged>>

\* A read or a write of the handshake fails.
HandshakeBroken ==
  /\ \/ dial = "sent" /\ ReadFails
     \/ dial \in {"start", "confirm"} /\ WriteFails
  /\ DialFails
  /\ UNCHANGED <<clientVars, session, out, in, peer, posted, posts, pinged>>
-----------------------------------------------------------------------------
(* WriteMessage: g.mu is held from the check of closed to the end of the   *)
(* write.                                                                  *)

serverVars == <<peer, posted, pinged>>

LockedNot(w) == UNCHANGED mu   \* plausible bug: the lock does not cover the write

Locked(w) == mu' = w
WriteEncode(w) ==
  /\ dial = "open"
  /\ writer[w] = "idle"
  /\ mu = "free"
  /\ \/ /\ ~closed /\ Encodes(session, Text[w])
        /\ Locked(w)
        /\ session' = AfterEncode(session, "client", Text[w])
        /\ frame' = [frame EXCEPT ![w] =
                       Post(session, "client", Text[w], session.sendIV)]
        /\ writer' = [writer EXCEPT ![w] = "send"]
     \/ /\ closed \/ ~Encodes(session, Text[w])
        /\ writer' = [writer EXCEPT ![w] = "refused"]
        /\ UNCHANGED <<mu, session, frame>>
  /\ UNCHANGED <<dial, closed, tcp, out, in, reader, closer, app, serverVars, posts>>

\* Write, and the deferred unlock.
Unlocked(w) == mu' = "free"

WriteSend(w) ==
  /\ writer[w] = "send"
  /\ \/ Sent(frame[w]) /\ writer' = [writer EXCEPT ![w] = "done"]
     \/ /\ WriteFails
        /\ writer' = [writer EXCEPT ![w] = "refused"]
        /\ UNCHANGED <<out, posts>>
  /\ Unlocked(w)
  /\ UNCHANGED <<dial, session, closed, tcp, in, frame, reader, closer, app,
                 serverVars>>
-----------------------------------------------------------------------------
(* ReadMessage, called in a loop by the receive handler of the user.       *)

\* One frame: what it does to the session, the application and the loop.
Delivered(post) ==
  IF DecodedSize(session, post) > 0
  THEN Append(app, [id |-> post.ct.id, size |-> DecodedSize(session, post),
                    intact |-> DecodedIntact(session, post)])
  ELSE app

ReadPost(f) ==
  /\ f.type = "post"
  /\ IF Decodes(session, f)
     THEN /\ session' = AfterDecode(session, f)
          /\ app' = Delivered(f)
          /\ UNCHANGED reader
     ELSE /\ reader' = "decode"
          /\ UNCHANGED <<session, app>>

ReadPing(f) ==
  /\ f.type = "ping"
  /\ reader' = "pong"
  /\ UNCHANGED <<session, app>>

ReadOther(f) ==
  /\ f.type \notin {"post", "ping"}
  /\ reader' = CASE f.type = "kickoff" -> "kicked"
                 [] ~Parses(f) -> "parse"
                 [] OTHER -> "read"
  /\ UNCHANGED <<session, app>>

ReadFrame ==
  /\ dial = "open"
  /\ reader = "read"
  /\ Readable
  /\ in' = Tail(in)
  /\ ReadPost(Head(in)) \/ ReadPing(Head(in)) \/ ReadOther(Head(in))
  /\ UNCHANGED <<dial, mu, closed, tcp, out, writer, frame, closer, serverVars,
                 posts>>

\* The pong is written without g.mu, and its error ignored.
WritePong ==
  /\ reader = "pong"
  /\ Sent(PongMessage) \/ (WriteFails /\ UNCHANGED <<out, posts>>)
  /\ reader' = "read"
  /\ UNCHANGED <<dial, session, mu, closed, tcp, in, writer, frame, closer, app,
                 serverVars>>

ReadEnds ==
  /\ dial = "open"
  /\ reader = "read"
  /\ ReadFails
  /\ reader' = "ended"
  /\ UNCHANGED <<dial, session, mu, closed, tcp, out, in, writer, frame, closer,
                 app, serverVars, posts>>
-----------------------------------------------------------------------------
(* Close.                                                                  *)

CloseBeginUnmarked ==   \* plausible bug: closed is only set at the end
  /\ dial = "open"
  /\ closer = "idle"
  /\ mu = "free"
  /\ closer' = "send"
  /\ UNCHANGED <<dial, session, mu, closed, tcp, out, in, writer, frame, reader,
                 app, serverVars, posts>>

CloseBegin ==
  /\ dial = "open"
  /\ closer = "idle"
  /\ mu = "free"
  /\ closed' = TRUE
  /\ closer' = "send"
  /\ UNCHANGED <<dial, session, mu, tcp, out, in, writer, frame, reader, app,
                 serverVars, posts>>

\* IsValid of TCP only looks at the local close; the error is ignored.
CloseSend ==
  /\ closer = "send"
  /\ Sent(KickoffMessage) \/ (WriteFails /\ UNCHANGED <<out, posts>>)
  /\ closer' = "close"
  /\ UNCHANGED <<dial, session, mu, closed, tcp, in, writer, frame, reader, app,
                 serverVars>>

TCPClosedNot == UNCHANGED tcp   \* plausible bug: the inner connection is left open

TCPClosed == tcp' = "closed"
CloseTCP ==
  /\ closer = "close"
  /\ TCPClosed
  /\ closer' = "done"
  /\ UNCHANGED <<dial, session, mu, closed, out, in, writer, frame, reader, app,
                 serverVars, posts>>

-----------------------------------------------------------------------------
(* The gateway (external).                                                 *)

localVars == <<dial, session, mu, closed, writer, frame, reader, closer, app>>

Token == [id |-> "token", size |-> 32, packed |-> 32]

\* It answers a request with a choice of its own, or refuses it.
GatewayAnswer ==
  /\ tcp = "open"
  /\ out # <<>> /\ Head(out).type = "handshake"
  /\ out' = Tail(out)
  /\ \/ \E o \in Offers :
          /\ o.alg \in Head(out).algs
          /\ LET iv == IF o.ownIV THEN FreshIV("gateway") ELSE NoIV
                 s == [NoSession EXCEPT
                       !.alg = o.alg, !.compressor = o.compressor,
                       !.sendIV = IF o.ownIV THEN iv ELSE DerivedIV(o.alg),
                       !.recvIV = DerivedIV(o.alg)]
                 token == IF o.token THEN Ciphertext(s, "gateway", Token)
                                     ELSE [size |-> 0]
             IN  /\ peer' = IF o.token THEN AfterEncode(s, "gateway", Token) ELSE s
                 /\ in' = Append(in, RspMessage(o.alg, o.compressor, o.maxSize,
                                                o.key, iv, token))
     \/ in' = Append(in, KickoffMessage) /\ UNCHANGED peer
  /\ UNCHANGED <<localVars, tcp, posted, posts, pinged>>

\* Every other frame is read; a post advances what it expects.
GatewayReceive ==
  /\ tcp = "open"
  /\ out # <<>> /\ Head(out).type # "handshake"
  /\ out' = Tail(out)
  /\ peer' = IF Head(out).type = "post" /\ Decodes(peer, Head(out))
             THEN AfterDecode(peer, Head(out))
             ELSE peer
  /\ UNCHANGED <<localVars, tcp, in, posted, posts, pinged>>

\* It waits for the confirmation.
Confirmed == dial = "open" /\ \A i \in 1 .. Len(out) : out[i].type # "confirm"

\* The next payload: the IV is left out, or set to a new value.
GatewayPost ==
  /\ tcp = "open"
  /\ Confirmed
  /\ posted < Len(Posts)
  /\ posted' = posted + 1
  /\ \E told \in IF HasIV(peer.alg) THEN {NoIV, FreshIV("reset")} ELSE {NoIV} :
       LET s == IF told = NoIV THEN peer ELSE [peer EXCEPT !.sendIV = told]
       IN  /\ in' = Append(in, Post(s, "gateway", Posts[posted'], told))
           /\ peer' = AfterEncode(s, "gateway", Posts[posted'])
  /\ UNCHANGED <<localVars, tcp, out, posts, pinged>>

GatewayPing ==
  /\ tcp = "open"
  /\ Confirmed
  /\ ~pinged
  /\ pinged' = TRUE
  /\ \E f \in {PingMessage, PongMessage} : in' = Append(in, f)
  /\ UNCHANGED <<localVars, tcp, out, peer, posted, posts>>

\* The gateway's last words: a kickoff, a frame that does not parse, nothing.
GatewayLeaves ==
  /\ tcp = "open"
  /\ tcp' = "dropped"
  /\ out' = <<>>
  /\ \E last \in {<<>>, <<KickoffMessage>>, <<Garbage>>} : in' = in \o last
  /\ UNCHANGED <<localVars, peer, posted, posts, pinged>>
-----------------------------------------------------------------------------
ClientStep ==
  \/ BuildKeyExchangeReq \/ HandleKeyExchangeRsp \/ SendConfirm \/ HandshakeBroken
  \/ \E w \in Writer : WriteEncode(w) \/ WriteSend(w)
  \/ ReadFrame \/ WritePong \/ ReadEnds
  \/ CloseSend \/ CloseTCP

GatewayStep ==
  GatewayAnswer \/ GatewayReceive \/ GatewayPost \/ GatewayPing \/ GatewayLeaves

Next == ClientStep \/ CloseBegin \/ GatewayStep

\* Go's scheduler runs every goroutine that can go on, and the gateway reads
\* what it is sent until it drops the connection; it owes nothing else, and
\* Close need not be called.
Spec ==
  /\ Init /\ [][Next]_vars
  /\ WF_vars(BuildKeyExchangeReq \/ HandleKeyExchangeRsp \/ SendConfirm \/ HandshakeBroken)
  /\ \A w \in Writer : WF_vars(WriteEncode(w)) /\ WF_vars(WriteSend(w))
  /\ WF_vars(ReadFrame \/ WritePong \/ ReadEnds)
  /\ WF_vars(CloseSend \/ CloseTCP)
  /\ WF_vars(GatewayReceive)
-----------------------------------------------------------------------------
TypeOK ==
  /\ dial \in {"start", "sent", "confirm", "open", "failed"}
  /\ session.alg \in CryptoAlgorithm
  /\ mu \in {"free"} \cup Writer
  /\ closed \in BOOLEAN
  /\ tcp \in {"open", "closed", "dropped"}
  /\ Len(out) <= SendBuffer
  /\ writer \in [Writer -> {"idle", "send", "done", "refused"}]
  /\ reader \in {"read", "pong", "decode", "parse", "kicked", "ended"}
  /\ closer \in {"idle", "send", "close", "done"}
  /\ posted \in 0 .. Len(Posts)

\* The posts leave in the order in which they were encrypted: each carries
\* the IV that follows from the post before it, so that a gateway that rolls
\* its own IV can decrypt them (EncodePost and WriteMessage under g.mu).
IsPost(i) == posts[i].type = "post"

PostsInChain ==
  \A i \in 1 .. Len(posts) : IsPost(i) =>
    /\ (\A k \in 1 .. i - 1 : ~IsPost(k)) => posts[i].iv = DerivedIV(session.alg)
    /\ \A j \in 1 .. i - 1 :
         IsPost(j) /\ (\A k \in j + 1 .. i - 1 : ~IsPost(k)) =>
           posts[i].iv = RollIV(IVRollPolicy(session.alg), posts[j].iv, posts[j].ct)

\* The application is given the gateway's non-empty payloads, whole, in order
\* and without gaps, whatever the cipher, compression, token and IV resets
\* (HandleKeyExchangeRsp, decodePostPayload).  No post ends the receive loop with
\* a decode error, but for an empty one under a CBC cipher, whose ciphertext is
\* empty too and which Decrypt refuses.
EmptyUnderCBC ==
  session.alg \in CBC /\ \E i \in 1 .. posted : Posts[i].size = 0

Rank(i) == Cardinality({j \in 1 .. i : Posts[j].size > 0})
Whole(p) == [id |-> p.id, size |-> p.size, intact |-> TRUE]

DeliveredAsPosted ==
  /\ reader = "decode" => EmptyUnderCBC
  /\ Len(app) <= Rank(posted)
  /\ \A i \in 1 .. posted :
       Posts[i].size > 0 /\ Rank(i) <= Len(app) => app[Rank(i)] = Whole(Posts[i])

\* After the kickoff of Close no post leaves (the pong of the receive loop,
\* which does not take g.mu, still may).
KickoffIsLast ==
  \A i \in 1 .. Len(posts) : posts[i].type = "kickoff" => i = Len(posts)

\* Once Close was called it returns and the receive loop ends: the writers
\* give g.mu back and the read fails.
CloseEnds == closed ~> (closer = "done" /\ reader \notin {"read", "pong"})
=============================================================================
