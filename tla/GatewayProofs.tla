--------------------------- MODULE GatewayProofs ---------------------------
(***************************************************************************)
(* Proofs about Gateway, for every set of writers, every payload, every    *)
(* choice of the gateway and every size of the send buffer: what leaves    *)
(* on the connection is one chain of posts with at most one kickoff, at    *)
(* its end, and what the application is given is what the gateway posted.  *)
(***************************************************************************)
EXTENDS Gateway, FiniteSetTheorems, TLAPS

\* What a client can encode.  The IVs start from the derived one and follow the
\* ciphertexts; nothing is assumed of what the gateway sends.
ClientIV ==
  [from : {<<>>, <<"derived">>} \cup {<<"client", Text[w].id>> : w \in Writer}, step : Nat]

ClientText ==
  [side : {"client"}, id : {Text[w].id : w \in Writer}, payload : {Text[w] : w \in Writer},
   iv : ClientIV, size : Nat]

ClientPost ==
  [type : {"post"}, crypto : BOOLEAN, iv : ClientIV, packed : Nat, length : Nat,
   ct : ClientText]

\* The session is a record; only its alg and sendIV matter here.
IsSession(s) ==
  s = [alg |-> s.alg, compressor |-> s.compressor, threshold |-> s.threshold,
       maxSize |-> s.maxSize, sendIV |-> s.sendIV, recvIV |-> s.recvIV]

Types ==
  /\ mu \in {"free"} \cup Writer
  /\ closed \in BOOLEAN
  /\ writer \in [Writer -> {"idle", "send", "done", "refused"}]
  /\ closer \in {"idle", "send", "close", "done"}
  /\ frame \in [Writer -> {NoFrame} \cup ClientPost]
  /\ IsSession(session)
  /\ session.sendIV \in ClientIV
  /\ posts \in Seq({KickoffMessage} \cup ClientPost)

\* g.mu is held by the writer between its encoding and its write, and by no
\* other; Close marks the connection while no writer holds it.
LockInv ==
  /\ \A w \in Writer : writer[w] = "send" => mu = w /\ frame[w] \in ClientPost
  /\ closed <=> closer # "idle"
  /\ closed => \A w \in Writer : writer[w] # "send"
  /\ dial # "open" => posts = <<>> /\ ~closed /\ \A w \in Writer : writer[w] = "idle"

\* A kickoff on the wire is the last of posts, and Close has gone past it.
KickoffInv ==
  \A i \in 1 .. Len(posts) :
    posts[i] = KickoffMessage => i = Len(posts) /\ closer \in {"close", "done"}

\* The IV that follows a post, and the one the next post has to carry.
Follow(f) == RollIV(IVRollPolicy(session.alg), f.iv, f.ct)
NextIV == IF posts = <<>> THEN DerivedIV(session.alg) ELSE Follow(posts[Len(posts)])

\* Without a kickoff, each post has the IV that follows from the frame before it.
\* What leaves next is on the chain too, as long as it can leave: the frame of the
\* writer that holds g.mu, or else the IV of the session.
ChainInv ==
  /\ \A i \in 1 .. Len(posts) : posts[i] \in ClientPost =>
       posts[i].iv = IF i = 1 THEN DerivedIV(session.alg) ELSE Follow(posts[i - 1])
  /\ tcp = "open" /\ closer \in {"idle", "send"} =>
       /\ \A w \in Writer : writer[w] = "send" =>
            frame[w].iv = NextIV /\ session.sendIV = Follow(frame[w])
       /\ (\A w \in Writer : writer[w] # "send") => session.sendIV = NextIV

IInv == Types /\ LockInv /\ KickoffInv /\ ChainInv
-----------------------------------------------------------------------------
LEMMA TextSizes ==
  ASSUME NEW w \in Writer
  PROVE  Text[w].size \in Nat /\ Text[w].packed \in Nat
BY GatewayAssumption

LEMMA IVsOfTheClient ==
  /\ \A alg : DerivedIV(alg) \in ClientIV
  /\ \A policy : \A iv \in ClientIV, ct \in ClientText : RollIV(policy, iv, ct) \in ClientIV
<1>1. \A alg : DerivedIV(alg) \in ClientIV
  BY DEF DerivedIV, FreshIV, NoIV, ClientIV
<1>2. ASSUME NEW policy, NEW iv \in ClientIV, NEW ct \in ClientText
      PROVE  RollIV(policy, iv, ct) \in ClientIV
  <2>1. [iv EXCEPT !.step = @ + 1] \in ClientIV
    BY DEF ClientIV
  <2>2. Tail16(ct) \in ClientIV
    BY DEF Tail16, ClientIV, ClientText
  <2> QED BY <2>1, <2>2 DEF RollIV
<1> QED BY <1>1, <1>2

\* The lengths are natural numbers, whatever the algorithm and the compression.
LEMMA CipherSizeIsNat ==
  ASSUME NEW alg, NEW size \in Nat
  PROVE  CipherSize(alg, size) \in Nat
<1>1. BlockSize(alg) \in {1, 8, 16} /\ TagSize(alg) \in {0, 16}
  BY DEF BlockSize, TagSize
<1>2. \A b \in {1, 8, 16} : BlockAlignPad(size, b) \in Nat
  BY DEF BlockAlignPad
<1> QED BY <1>1, <1>2 DEF CipherSize

\* EncodePost: the frame carries the IV of the session, which moves on to the one
\* that follows the frame.
LEMMA EncodePost ==
  ASSUME NEW s, IsSession(s), s.sendIV \in ClientIV, NEW w \in Writer
  PROVE  LET f == Post(s, "client", Text[w], s.sendIV)
             t == AfterEncode(s, "client", Text[w])
         IN  /\ f \in ClientPost /\ f.iv = s.sendIV
             /\ IsSession(t) /\ t.alg = s.alg
             /\ t.sendIV = RollIV(IVRollPolicy(s.alg), f.iv, f.ct)
             /\ t.sendIV \in ClientIV
<1> DEFINE ct == Ciphertext(s, "client", Text[w])
           f == Post(s, "client", Text[w], s.sendIV)
           t == AfterEncode(s, "client", Text[w])
           next == RollIV(IVRollPolicy(s.alg), s.sendIV, ct)
<1>1. DataSize(s, Text[w]) \in Nat
  BY TextSizes DEF DataSize
<1>2. CipherSize(s.alg, DataSize(s, Text[w])) \in Nat
  BY <1>1, CipherSizeIsNat
<1>3. ct \in ClientText
  BY <1>2 DEF Ciphertext, ClientText
<1>4. next \in ClientIV
  BY <1>3, IVsOfTheClient
<1>5. t = [s EXCEPT !.sendIV = next]
  BY DEF AfterEncode
<1>6. f.iv = s.sendIV /\ f.ct = ct
  BY DEF Post, PostMessage
<1>7. f \in ClientPost
  BY <1>3, TextSizes DEF Post, PostMessage, ClientPost
<1> HIDE DEF ct, f, t, next
<1>8. IsSession(t) /\ t.alg = s.alg /\ t.sendIV = next
  BY <1>5 DEF IsSession
<1>9. next = RollIV(IVRollPolicy(s.alg), f.iv, f.ct)
  BY <1>6 DEF next
<1> QED BY <1>4, <1>6, <1>7, <1>8, <1>9 DEF f, t

\* A post that is read only moves the IV of the other direction.
LEMMA DecodePost ==
  ASSUME NEW s, IsSession(s), NEW f
  PROVE  LET t == AfterDecode(s, f)
         IN  IsSession(t) /\ t.alg = s.alg /\ t.sendIV = s.sendIV
<1> DEFINE iv == RollIV(IVRollPolicy(s.alg), DecryptIV(s, f), f.ct)
           t == [s EXCEPT !.recvIV = iv]
<1> HIDE DEF iv
<1>1. IsSession(t) /\ t.alg = s.alg /\ t.sendIV = s.sendIV
  BY DEF IsSession
<1> QED BY <1>1 DEF AfterDecode, iv

LEMMA PostsApart ==
  /\ KickoffMessage \notin ClientPost /\ NoFrame \notin ClientPost
  /\ KickoffMessage.type = "kickoff"
  /\ \A f \in ClientPost : f.type = "post"
<1>1. KickoffMessage.type = "kickoff" /\ NoFrame.type = "none"
  BY DEF KickoffMessage, NoFrame
<1>2. \A f \in ClientPost : f.type = "post"
  BY DEF ClientPost
<1> QED BY <1>1, <1>2

\* What a write does to posts.
LEMMA SentAppends ==
  ASSUME NEW f, Sent(f)
  PROVE  /\ tcp = "open"
         /\ f.type \in {"post", "kickoff"} => posts' = Append(posts, f)
         /\ f.type \notin {"post", "kickoff"} => posts' = posts
BY DEF Sent, WriteRoom
-----------------------------------------------------------------------------
\* Every step that leaves the writers, Close and the chain alone.
LEMMA Quiet ==
  ASSUME IInv, UNCHANGED <<mu, closed, writer, frame, closer, posts>>,
         IsSession(session)', session'.alg = session.alg, session'.sendIV = session.sendIV,
         dial' # "open" => dial # "open",
         tcp' = "open" => tcp = "open"
  PROVE  IInv'
<1>1. Types'
  BY DEF IInv, Types
<1>2. LockInv'
  BY DEF IInv, LockInv
<1>3. KickoffInv'
  BY DEF IInv, KickoffInv
<1>4. ChainInv'
  BY DEF IInv, ChainInv, NextIV, Follow
<1> QED BY <1>1, <1>2, <1>3, <1>4 DEF IInv

\* The handshake, the receive loop and the gateway are such steps.
LEMMA QuietSteps ==
  ASSUME IInv,
         \/ BuildKeyExchangeReq \/ SendConfirm \/ HandshakeBroken
         \/ ReadFrame \/ WritePong \/ ReadEnds
         \/ GatewayStep
  PROVE  IInv'
<1> USE DEF clientVars, serverVars, localVars
<1>1. IsSession(session)
  BY DEF IInv, Types
<1>2. CASE BuildKeyExchangeReq
  <2>1. HandshakeMessage(Config, Wire(0)).type = "handshake"
    BY DEF HandshakeMessage
  <2>2. posts' = posts
    BY <1>2, <2>1, SentAppends DEF BuildKeyExchangeReq
  <2> QED BY <1>1, <1>2, <2>2, Quiet DEF BuildKeyExchangeReq
<1>3. CASE SendConfirm
  <2>1. posts' = posts
    BY <1>3, SentAppends DEF SendConfirm, ConfirmMessage
  <2> QED BY <1>1, <1>3, <2>1, Quiet DEF SendConfirm
<1>4. CASE HandshakeBroken
  BY <1>1, <1>4, Quiet DEF HandshakeBroken, DialFails
<1>5. CASE ReadFrame
  <2>1. session' = session \/ \E f : session' = AfterDecode(session, f)
    BY <1>5 DEF ReadFrame, ReadPost, ReadPing, ReadOther
  <2>2. IsSession(session)' /\ session'.alg = session.alg /\ session'.sendIV = session.sendIV
    BY <1>1, <2>1, DecodePost
  <2> QED BY <1>5, <2>2, Quiet DEF ReadFrame
<1>6. CASE WritePong
  <2>1. posts' = posts
    BY <1>6, SentAppends DEF WritePong, PongMessage
  <2> QED BY <1>1, <1>6, <2>1, Quiet DEF WritePong
<1>7. CASE ReadEnds
  BY <1>1, <1>7, Quiet DEF ReadEnds
<1>8. CASE GatewayStep
  BY <1>1, <1>8, Quiet
     DEF GatewayStep, GatewayAnswer, GatewayReceive, GatewayPost, GatewayPing, GatewayLeaves
<1> QED BY <1>2, <1>3, <1>4, <1>5, <1>6, <1>7, <1>8

\* The response of the gateway sets up the session before anything is posted.
LEMMA ResponseStep ==
  ASSUME IInv, HandleKeyExchangeRsp
  PROVE  IInv'
<1>1. /\ UNCHANGED <<mu, closed, writer, frame, closer, posts>> /\ dial = "sent" /\ dial' # "open"
      /\ \/ \E rsp : session' = SessionOf(rsp) /\ tcp' = tcp
         \/ session' = session /\ tcp' = "closed"
  BY DEF HandleKeyExchangeRsp, DialFails, clientVars
<1>2. CASE session' = session /\ tcp' = "closed"
  BY <1>1, <1>2, Quiet DEF IInv, Types
<1>3. CASE \E rsp : session' = SessionOf(rsp) /\ tcp' = tcp
  <2>1. PICK rsp : session' = SessionOf(rsp)
    BY <1>3
  <2> DEFINE iv == Advanced(rsp.alg, IF rsp.initIV = NoIV THEN DerivedIV(rsp.alg)
                                     ELSE rsp.initIV, rsp.token)
  <2>2. session' = [alg |-> rsp.alg, compressor |-> rsp.compressor,
                    threshold |-> Config.threshold, maxSize |-> rsp.maxSize,
                    sendIV |-> DerivedIV(rsp.alg), recvIV |-> iv]
    BY <2>1 DEF SessionOf, NoSession
  <2> HIDE DEF iv
  <2>3. /\ IsSession(session)' /\ session'.sendIV = DerivedIV(session'.alg)
        /\ session'.sendIV \in ClientIV
    BY <2>2, IVsOfTheClient DEF IsSession
  <2>4. posts = <<>> /\ \A w \in Writer : writer[w] = "idle"
    BY <1>1 DEF IInv, LockInv
  <2>5. Types'
    BY <1>1, <2>3 DEF IInv, Types
  <2>6. LockInv' /\ KickoffInv'
    BY <1>1, <2>4 DEF IInv, LockInv, KickoffInv
  <2>7. ChainInv'
    BY <1>1, <2>3, <2>4 DEF ChainInv, NextIV
  <2> QED BY <2>5, <2>6, <2>7 DEF IInv
<1> QED BY <1>1, <1>2, <1>3

\* WriteMessage takes g.mu on an open connection, or is refused.
LEMMA EncodeStep ==
  ASSUME IInv, NEW w \in Writer, WriteEncode(w)
  PROVE  IInv'
<1> DEFINE f == Post(session, "client", Text[w], session.sendIV)
<1>1. /\ UNCHANGED <<dial, closed, tcp, closer, posts>>
      /\ dial = "open" /\ mu = "free" /\ writer[w] = "idle"
  BY DEF WriteEncode
<1>2. /\ IsSession(session) /\ session.sendIV \in ClientIV
      /\ writer \in [Writer -> {"idle", "send", "done", "refused"}]
      /\ frame \in [Writer -> {NoFrame} \cup ClientPost]
  BY DEF IInv, Types
<1>3. \A v \in Writer : writer[v] # "send"
  BY <1>1, GatewayAssumption DEF IInv, LockInv
<1>4. CASE /\ ~closed /\ Locked(w)
           /\ session' = AfterEncode(session, "client", Text[w])
           /\ frame' = [frame EXCEPT ![w] = f]
           /\ writer' = [writer EXCEPT ![w] = "send"]
  <2>1. /\ f \in ClientPost /\ f.iv = session.sendIV
        /\ IsSession(session)' /\ session'.alg = session.alg
        /\ session'.sendIV = RollIV(IVRollPolicy(session.alg), f.iv, f.ct)
        /\ session'.sendIV \in ClientIV
    BY <1>2, <1>4, EncodePost
  <2> HIDE DEF f
  <2>2. /\ mu' = w /\ frame' \in [Writer -> {NoFrame} \cup ClientPost] /\ frame'[w] = f
        /\ writer' \in [Writer -> {"idle", "send", "done", "refused"}]
        /\ \A v \in Writer : writer'[v] = "send" <=> v = w
    BY <1>2, <1>3, <1>4, <2>1 DEF Locked
  <2>3. Types'
    BY <1>1, <2>1, <2>2 DEF IInv, Types
  <2>4. LockInv' /\ KickoffInv'
    BY <1>1, <1>4, <2>1, <2>2 DEF IInv, LockInv, KickoffInv
  <2>5. NextIV' = NextIV
    BY <1>1, <2>1 DEF NextIV, Follow
  <2>6. ChainInv'
    <3>1. \A i \in 1 .. Len(posts) : posts[i] \in ClientPost =>
            posts[i].iv = IF i = 1 THEN DerivedIV(session.alg) ELSE Follow(posts[i - 1])'
      BY <1>1, <2>1 DEF IInv, ChainInv, Follow
    <3>2. tcp = "open" /\ closer \in {"idle", "send"} => f.iv = NextIV
      BY <1>3, <2>1 DEF IInv, ChainInv
    <3> QED BY <1>1, <2>1, <2>2, <2>5, <3>1, <3>2 DEF ChainInv, Follow
  <2> QED BY <2>3, <2>4, <2>6 DEF IInv
<1>5. CASE UNCHANGED <<mu, session, frame>> /\ writer' = [writer EXCEPT ![w] = "refused"]
  <2>1. /\ writer' \in [Writer -> {"idle", "send", "done", "refused"}]
        /\ \A v \in Writer : writer'[v] # "send"
    BY <1>2, <1>3, <1>5
  <2>2. Types' /\ LockInv' /\ KickoffInv'
    BY <1>1, <1>5, <2>1 DEF IInv, Types, LockInv, KickoffInv
  <2>3. ChainInv'
    BY <1>1, <1>3, <1>5, <2>1 DEF IInv, ChainInv, NextIV, Follow
  <2> QED BY <2>2, <2>3 DEF IInv
<1> QED BY <1>4, <1>5 DEF WriteEncode

\* Frames that follow the last one on the wire: the sequence that an append makes.
LEMMA Appended ==
  ASSUME NEW S, NEW s \in Seq(S), NEW f \in S
  PROVE  /\ Append(s, f) \in Seq(S) /\ Len(Append(s, f)) = Len(s) + 1 /\ Append(s, f) # <<>>
         /\ \A i \in 1 .. Len(s) : Append(s, f)[i] = s[i]
         /\ Append(s, f)[Len(s) + 1] = f
         /\ Len(s) \in Nat /\ (s = <<>> <=> Len(s) = 0)
OBVIOUS

\* The write of the frame, under g.mu, puts it at the end of the chain; a write
\* that fails means a connection on which nothing will leave any more.
LEMMA SendStep ==
  ASSUME IInv, NEW w \in Writer, WriteSend(w)
  PROVE  IInv'
<1> DEFINE S == {KickoffMessage} \cup ClientPost
<1>1. /\ UNCHANGED <<dial, session, closed, tcp, frame, closer>>
      /\ writer[w] = "send" /\ mu' = "free"
  BY DEF WriteSend, Unlocked
<1>2. /\ writer \in [Writer -> {"idle", "send", "done", "refused"}]
      /\ posts \in Seq(S) /\ closer \in {"idle", "send", "close", "done"}
  BY DEF IInv, Types
<1>3. /\ \A v \in Writer : writer[v] = "send" => v = w
      /\ frame[w] \in ClientPost /\ frame[w].type = "post" /\ dial = "open"
      /\ ~closed /\ closer = "idle"
  <2>1. mu = w /\ frame[w] \in ClientPost /\ ~closed /\ dial = "open"
    BY <1>1 DEF IInv, LockInv
  <2> QED BY <2>1, PostsApart DEF IInv, LockInv
<1>4. /\ writer' \in [Writer -> {"idle", "send", "done", "refused"}]
      /\ \A v \in Writer : writer'[v] # "send"
  BY <1>2, <1>3 DEF WriteSend
<1>5. CASE Sent(frame[w])
  <2>1. posts' = Append(posts, frame[w]) /\ tcp = "open"
    BY <1>3, <1>5, SentAppends
  <2>2. /\ posts' \in Seq(S) /\ Len(posts') = Len(posts) + 1 /\ posts' # <<>>
        /\ \A i \in 1 .. Len(posts) : posts'[i] = posts[i]
        /\ posts'[Len(posts) + 1] = frame[w]
        /\ Len(posts) \in Nat /\ (posts = <<>> <=> Len(posts) = 0)
    BY <1>2, <1>3, <2>1, Appended
  <2>3. Types' /\ LockInv'
    BY <1>1, <1>3, <1>4, <2>2 DEF IInv, Types, LockInv
  <2>4. \A i \in 1 .. Len(posts') : posts'[i] # KickoffMessage
    BY <1>3, <2>2, PostsApart DEF IInv, KickoffInv
  <2>5. frame[w].iv = NextIV /\ session.sendIV = Follow(frame[w])
    BY <1>1, <1>3, <2>1 DEF IInv, ChainInv
  <2>6. ChainInv'
    <3>1. ASSUME NEW i \in 1 .. Len(posts'), posts'[i] \in ClientPost
          PROVE  posts'[i].iv =
                   IF i = 1 THEN DerivedIV(session.alg) ELSE Follow(posts'[i - 1])
      <4>1. CASE i \in 1 .. Len(posts)
        <5>1. posts[i].iv = IF i = 1 THEN DerivedIV(session.alg) ELSE Follow(posts[i - 1])
          BY <2>2, <3>1, <4>1 DEF IInv, ChainInv
        <5>2. i # 1 => i - 1 \in 1 .. Len(posts)
          BY <2>2, <4>1
        <5>3. posts'[i] = posts[i] /\ (i # 1 => posts'[i - 1] = posts[i - 1])
          BY <2>2, <4>1, <5>2
        <5> QED BY <5>1, <5>3
      <4>2. CASE i = Len(posts) + 1
        <5>1. CASE i = 1
          BY <2>2, <2>5, <4>2, <5>1 DEF NextIV
        <5>2. CASE i # 1
          <6>1. i - 1 = Len(posts) /\ posts # <<>> /\ i - 1 \in 1 .. Len(posts)
            BY <2>2, <4>2, <5>2
          <6>2. posts'[i - 1] = posts[Len(posts)]
            BY <2>2, <6>1
          <6> QED BY <2>2, <2>5, <4>2, <5>2, <6>1, <6>2 DEF NextIV
        <5> QED BY <5>1, <5>2
      <4> QED BY <2>2, <4>1, <4>2
    <3>2. session.sendIV = Follow(posts'[Len(posts')])
      BY <2>2, <2>5
    <3>3. session'.sendIV = NextIV'
      BY <1>1, <2>2, <3>2 DEF NextIV, Follow
    <3> QED BY <1>1, <1>4, <3>1, <3>3 DEF ChainInv, Follow
  <2> QED BY <2>3, <2>4, <2>6 DEF IInv, KickoffInv
<1>6. CASE WriteFails /\ posts' = posts
  <2>1. Types' /\ LockInv' /\ KickoffInv'
    BY <1>1, <1>3, <1>4, <1>6 DEF IInv, Types, LockInv, KickoffInv
  <2>2. ChainInv'
    BY <1>1, <1>6 DEF IInv, ChainInv, WriteFails, Follow
  <2> QED BY <2>1, <2>2 DEF IInv
<1> QED BY <1>5, <1>6 DEF WriteSend

\* Close: the mark is set under g.mu, so that no writer is under way when the
\* kickoff leaves, and none can start.
LEMMA CloseSteps ==
  ASSUME IInv, CloseBegin \/ CloseSend \/ CloseTCP
  PROVE  IInv'
<1> USE DEF serverVars
<1>1. CASE CloseBegin
  <2>1. /\ UNCHANGED <<dial, session, mu, tcp, writer, frame, posts>>
        /\ dial = "open" /\ closer = "idle" /\ mu = "free" /\ closed' = TRUE /\ closer' = "send"
    BY <1>1 DEF CloseBegin
  <2>2. \A w \in Writer : writer[w] # "send"
    BY <2>1, GatewayAssumption DEF IInv, LockInv
  <2>3. Types' /\ LockInv' /\ KickoffInv'
    BY <2>1, <2>2 DEF IInv, Types, LockInv, KickoffInv
  <2>4. ChainInv'
    BY <2>1, <2>2 DEF IInv, ChainInv, NextIV, Follow
  <2> QED BY <2>3, <2>4 DEF IInv
<1>2. CASE CloseSend
  <2> DEFINE S == {KickoffMessage} \cup ClientPost
  <2>1. /\ UNCHANGED <<dial, session, mu, closed, tcp, writer, frame>>
        /\ closer = "send" /\ closer' = "close"
        /\ posts' \in {posts, Append(posts, KickoffMessage)}
    BY <1>2, SentAppends, PostsApart DEF CloseSend
  <2>2. /\ posts \in Seq(S) /\ dial = "open"
        /\ \A i \in 1 .. Len(posts) : posts[i] # KickoffMessage
    BY <2>1 DEF IInv, Types, LockInv, KickoffInv
  <2>3. CASE posts' = posts
    <3>1. Types' /\ LockInv' /\ KickoffInv'
      BY <2>1, <2>3 DEF IInv, Types, LockInv, KickoffInv
    <3>2. ChainInv'
      BY <2>1, <2>3 DEF IInv, ChainInv, Follow
    <3> QED BY <3>1, <3>2 DEF IInv
  <2>4. CASE posts' = Append(posts, KickoffMessage)
    <3>1. /\ posts' \in Seq(S) /\ Len(posts') = Len(posts) + 1
          /\ \A i \in 1 .. Len(posts) : posts'[i] = posts[i]
          /\ posts'[Len(posts) + 1] = KickoffMessage
          /\ Len(posts) \in Nat
      BY <2>2, <2>4, Appended
    <3>2. Types' /\ LockInv'
      BY <2>1, <2>2, <3>1 DEF IInv, Types, LockInv
    <3>3. KickoffInv'
      BY <2>1, <2>2, <3>1 DEF KickoffInv
    <3>4. ASSUME NEW i \in 1 .. Len(posts'), posts'[i] \in ClientPost
          PROVE  posts'[i].iv =
                   IF i = 1 THEN DerivedIV(session.alg) ELSE Follow(posts'[i - 1])
      <4>1. i \in 1 .. Len(posts)
        BY <3>1, <3>4, PostsApart
      <4>2. i # 1 => i - 1 \in 1 .. Len(posts)
        BY <3>1, <4>1
      <4>3. posts'[i] = posts[i] /\ (i # 1 => posts'[i - 1] = posts[i - 1])
        BY <3>1, <4>1, <4>2
      <4>4. posts[i].iv = IF i = 1 THEN DerivedIV(session.alg) ELSE Follow(posts[i - 1])
        BY <3>4, <4>1, <4>3 DEF IInv, ChainInv
      <4> QED BY <4>3, <4>4
    <3>5. ChainInv'
      BY <2>1, <3>4 DEF ChainInv, Follow
    <3> QED BY <3>2, <3>3, <3>5 DEF IInv
  <2> QED BY <2>1, <2>3, <2>4
<1>3. CASE CloseTCP
  <2>1. /\ UNCHANGED <<dial, session, mu, closed, writer, frame, posts>>
        /\ closer = "close" /\ closer' = "done"
    BY <1>3 DEF CloseTCP
  <2>2. Types' /\ LockInv' /\ KickoffInv'
    BY <2>1 DEF IInv, Types, LockInv, KickoffInv
  <2>3. ChainInv'
    BY <2>1 DEF IInv, ChainInv, Follow
  <2> QED BY <2>2, <2>3 DEF IInv
<1> QED BY <1>1, <1>2, <1>3
-----------------------------------------------------------------------------
\* The types, the lock, the kickoff and the chain, for every step of the client
\* and of the gateway.
LEMMA GatewayInvariant == Spec => []IInv
<1>1. ASSUME Init
      PROVE  IInv
  <2>1. IsSession(session) /\ session.sendIV = NoIV /\ session.alg = "none"
    BY <1>1 DEF Init, NoSession, IsSession
  <2>2. NoIV = DerivedIV("none")
    BY DEF DerivedIV, HasIV
  <2>3. Types
    <3>1. <<>> \in Seq({KickoffMessage} \cup ClientPost)
      OBVIOUS
    <3>2. session.sendIV \in ClientIV
      BY <2>1, <2>2, IVsOfTheClient
    <3> QED BY <1>1, <2>1, <3>1, <3>2 DEF Init, Types
  <2>4. LockInv /\ KickoffInv
    BY <1>1 DEF Init, LockInv, KickoffInv
  <2>5. ChainInv
    BY <1>1, <2>1, <2>2 DEF Init, ChainInv, NextIV
  <2> QED BY <2>3, <2>4, <2>5 DEF IInv
<1>2. ASSUME IInv, [Next]_vars
      PROVE  IInv'
  <2>1. CASE UNCHANGED vars
    BY <1>2, <2>1, Quiet DEF vars, IInv, Types
  <2>2. CASE ClientStep
    BY <1>2, <2>2, QuietSteps, ResponseStep, EncodeStep, SendStep, CloseSteps DEF ClientStep
  <2> QED BY <1>2, <2>1, <2>2, QuietSteps, CloseSteps DEF Next
<1> QED BY <1>1, <1>2, PTL DEF Spec

\* After the kickoff of Close no post leaves, however the writers and Close
\* interleave: g.mu covers the mark and the write.
THEOREM NothingAfterKickoff == Spec => []KickoffIsLast
<1>1. ASSUME IInv
      PROVE  KickoffIsLast
  <2>1. posts \in Seq({KickoffMessage} \cup ClientPost)
    BY <1>1 DEF IInv, Types
  <2>2. \A i \in 1 .. Len(posts) : posts[i].type = "kickoff" => posts[i] = KickoffMessage
    BY <2>1, PostsApart
  <2> QED BY <1>1, <2>2 DEF IInv, KickoffInv, KickoffIsLast
<1> QED BY <1>1, GatewayInvariant, PTL

\* The posts leave as one chain of IVs: EncodePost moves the IV of the session on
\* before the frame has left, and g.mu keeps every other writer, and Close, away
\* until it has, or until the connection is lost.
THEOREM PostsLeaveInChain == Spec => []PostsInChain
<1>1. ASSUME IInv
      PROVE  PostsInChain
  <2>1. posts \in Seq({KickoffMessage} \cup ClientPost) /\ Len(posts) \in Nat
    BY <1>1 DEF IInv, Types
  <2>2. \A i \in 1 .. Len(posts) : posts[i] \in {KickoffMessage} \cup ClientPost
    BY <2>1
  <2>3. \A i \in 1 .. Len(posts) : IsPost(i) <=> posts[i] \in ClientPost
    BY <2>2, PostsApart DEF IsPost
  <2> SUFFICES ASSUME NEW i \in 1 .. Len(posts), IsPost(i)
               PROVE  /\ (\A k \in 1 .. i - 1 : ~IsPost(k)) =>
                           posts[i].iv = DerivedIV(session.alg)
                      /\ \A j \in 1 .. i - 1 :
                           IsPost(j) /\ (\A k \in j + 1 .. i - 1 : ~IsPost(k)) =>
                             posts[i].iv = Follow(posts[j])
    BY DEF PostsInChain, Follow
  <2>4. \A k \in 1 .. i - 1 : IsPost(k)
    <3> SUFFICES ASSUME NEW k \in 1 .. i - 1 PROVE IsPost(k)
      OBVIOUS
    <3>1. k \in 1 .. Len(posts) /\ k # Len(posts)
      BY <2>1
    <3> QED BY <1>1, <2>2, <2>3, <3>1 DEF IInv, KickoffInv
  <2>5. posts[i].iv = IF i = 1 THEN DerivedIV(session.alg) ELSE Follow(posts[i - 1])
    BY <1>1, <2>3 DEF IInv, ChainInv
  <2>6. CASE i = 1
    BY <2>5, <2>6
  <2>7. CASE i # 1
    <3>1. i - 1 \in 1 .. i - 1
      BY <2>1, <2>7
    <3>2. ASSUME NEW j \in 1 .. i - 1, \A k \in j + 1 .. i - 1 : ~IsPost(k)
          PROVE  j = i - 1
      <4>1. j # i - 1 => i - 1 \in j + 1 .. i - 1
        BY <2>1
      <4> QED BY <2>4, <3>1, <3>2, <4>1
    <3> QED BY <2>4, <2>5, <2>7, <3>1, <3>2
  <2> QED BY <2>6, <2>7
<1> QED BY <1>1, GatewayInvariant, PTL
-----------------------------------------------------------------------------
(* The other direction.  Between the gateway and the application there are *)
(* the frames in flight.  A trace says, for each place between two frames, *)
(* how many payloads lie before it and which IV the client has to have     *)
(* when it gets there.                                                     *)

IsSeq(s) == \E S : s \in Seq(S)

At(no, iv) == [no |-> no, iv |-> iv]

\* The frame f is the post of the payload p.
PostOf(f, p, alg) ==
  /\ f.crypto = (alg # "none")
  /\ f.packed \in {0, p.packed}
  /\ f.length = p.size
  /\ f.ct.id = p.id /\ f.ct.payload = p
  /\ f.ct.size = CipherSize(alg, IF f.packed > 0 THEN p.packed ELSE p.size)

\* A frame takes the trace from a to b.
Link(a, f, b, alg) ==
  IF f.type = "post"
  THEN /\ b = At(a.no + 1, RollIV(IVRollPolicy(alg), f.ct.iv, f.ct))
       /\ PostOf(f, Posts[b.no], alg)
       /\ IF f.iv = NoIV THEN f.ct.iv = a.iv ELSE f.ct.iv = f.iv /\ alg # "none"
  ELSE b = a

Trace(tr, s, a, b, alg) ==
  /\ tr[0] = a /\ tr[Len(s)] = b
  /\ \A i \in 0 .. Len(s) : tr[i].no \in 0 .. b.no
  /\ \A i \in 1 .. Len(s) : Link(tr[i - 1], s[i], tr[i], alg)

Wired(s, a, b, alg) == \E tr : Trace(tr, s, a, b, alg)

\* The application has got the payloads up to the n-th.
GivenUpTo(n) ==
  /\ Len(app) = Rank(n)
  /\ \A i \in 1 .. n : Posts[i].size > 0 => app[Rank(i)] = Whole(Posts[i])

Receiving == dial \in {"confirm", "open"} /\ reader \in {"read", "pong"}

DeliverInv ==
  /\ IsSeq(app)
  /\ posted \in 0 .. Len(Posts)
  /\ reader = "decode" => EmptyUnderCBC
  /\ \E n \in 0 .. posted :
       /\ GivenUpTo(n)
       /\ Receiving => Wired(in, At(n, session.recvIV), At(posted, peer.sendIV), session.alg)

\* The gateway answers one request, and its answer takes the client to the alg
\* and the IV the gateway has.
Answers(rsp) == rsp.alg = peer.alg /\ SessionOf(rsp).recvIV = peer.sendIV

HandshakeInv ==
  /\ IsSeq(in) /\ IsSeq(out) /\ IsSession(peer) /\ peer.alg \in CryptoAlgorithm
  /\ dial # "open" => posted = 0 /\ reader = "read" /\ app = <<>>
  /\ dial = "start" => out = <<>> /\ (tcp = "open" => in = <<>>)
  /\ dial = "sent" =>
       \/ Len(out) = 1 /\ in = <<>>
       \/ out = <<>> /\ \A i \in 1 .. Len(in) :
            \/ in[i].type \notin {"post", "handshake"}
            \/ i = 1 /\ in[i].type = "handshake" /\ Answers(in[i])
  /\ dial \in {"confirm", "open"} =>
       /\ session.alg = peer.alg /\ CipherSupported(session.alg)
       /\ \A i \in 1 .. Len(out) : out[i].type # "handshake"

GInv == IInv /\ DeliverInv /\ HandshakeInv
-----------------------------------------------------------------------------
LEMMA SeqFacts ==
  ASSUME NEW s, IsSeq(s), NEW f
  PROVE  /\ Len(s) \in Nat /\ (s = <<>> <=> Len(s) = 0)
         /\ IsSeq(<<>>)
         /\ IsSeq(Append(s, f)) /\ Len(Append(s, f)) = Len(s) + 1
         /\ \A i \in 1 .. Len(s) : Append(s, f)[i] = s[i]
         /\ Append(s, f)[Len(s) + 1] = f
         /\ s \o <<>> = s /\ s \o <<f>> = Append(s, f)
         /\ s # <<>> => /\ IsSeq(Tail(s)) /\ Len(Tail(s)) = Len(s) - 1 /\ Head(s) = s[1]
                        /\ \A i \in 1 .. Len(s) - 1 : Tail(s)[i] = s[i + 1]
<1>1. PICK S : s \in Seq(S)
  BY DEF IsSeq
<1>2. s \in Seq(S \cup {f}) /\ f \in S \cup {f}
  BY <1>1
<1>3. /\ Append(s, f) \in Seq(S \cup {f}) /\ Len(Append(s, f)) = Len(s) + 1
      /\ \A i \in 1 .. Len(s) : Append(s, f)[i] = s[i]
      /\ Append(s, f)[Len(s) + 1] = f
      /\ Len(s) \in Nat /\ (s = <<>> <=> Len(s) = 0)
  BY <1>2, Appended
<1>4. s \o <<>> = s
  BY <1>1
<1>5. s \o <<f>> = Append(s, f)
  BY <1>2
<1>6. ASSUME s # <<>>
      PROVE  /\ Tail(s) \in Seq(S) /\ Len(Tail(s)) = Len(s) - 1 /\ Head(s) = s[1]
             /\ \A i \in 1 .. Len(s) - 1 : Tail(s)[i] = s[i + 1]
  BY <1>1, <1>6
<1>7. <<>> \in Seq(S)
  OBVIOUS
<1> QED BY <1>3, <1>4, <1>5, <1>6, <1>7 DEF IsSeq

\* No frame in flight: the client is where the gateway is.
LEMMA WiredEmpty ==
  ASSUME NEW a, NEW alg, a.no \in Nat
  PROVE  Wired(<<>>, a, a, alg)
<1> DEFINE tr == [i \in {0} |-> a]
<1>1. Len(<<>>) = 0 /\ 0 .. 0 = {0} /\ 1 .. 0 = {}
  OBVIOUS
<1>2. tr[0] = a /\ a.no \in 0 .. a.no
  OBVIOUS
<1> HIDE DEF tr
<1>3. Trace(tr, <<>>, a, a, alg)
  BY <1>1, <1>2 DEF Trace
<1> QED BY <1>3 DEF Wired

\* The gateway appends a frame.
LEMMA WiredAppend ==
  ASSUME NEW s, IsSeq(s), NEW a, NEW m, NEW f, NEW b, NEW alg,
         m.no \in Nat, b.no \in Nat, m.no <= b.no,
         Wired(s, a, m, alg), Link(m, f, b, alg)
  PROVE  Wired(Append(s, f), a, b, alg)
<1> DEFINE n == Len(s)
           t == Append(s, f)
<1>1. /\ n \in Nat /\ Len(t) = n + 1 /\ t[n + 1] = f
      /\ \A i \in 1 .. n : t[i] = s[i]
  BY SeqFacts
<1>2. PICK tr : Trace(tr, s, a, m, alg)
  BY DEF Wired
<1> DEFINE ext == [i \in 0 .. n + 1 |-> IF i = n + 1 THEN b ELSE tr[i]]
<1>3. /\ ext[0] = tr[0] /\ ext[n + 1] = b
      /\ \A i \in 0 .. n : ext[i] = tr[i]
  BY <1>1
<1> HIDE DEF ext, t
<1>4. /\ tr[0] = a /\ tr[n] = m
      /\ \A i \in 0 .. n : tr[i].no \in 0 .. m.no
      /\ \A i \in 1 .. n : Link(tr[i - 1], s[i], tr[i], alg)
  BY <1>2 DEF Trace
<1> HIDE DEF n
<1>5. ASSUME NEW i \in 0 .. n + 1
      PROVE  ext[i].no \in 0 .. b.no
  <2>1. CASE i = n + 1
    BY <1>3, <2>1
  <2>2. CASE i \in 0 .. n
    <3>1. ext[i].no \in 0 .. m.no
      BY <1>3, <1>4, <2>2
    <3> QED BY <3>1
  <2> QED BY <1>1, <2>1, <2>2
<1>6. ASSUME NEW i \in 1 .. n + 1
      PROVE  Link(ext[i - 1], t[i], ext[i], alg)
  <2>1. CASE i = n + 1
    <3>1. i - 1 = n /\ n \in 0 .. n
      BY <1>1, <2>1
    <3>2. ext[i - 1] = m /\ t[i] = f /\ ext[i] = b
      BY <1>1, <1>3, <1>4, <2>1, <3>1
    <3> QED BY <3>2
  <2>2. CASE i \in 1 .. n
    <3>1. i - 1 \in 0 .. n /\ i \in 0 .. n
      BY <1>1, <2>2
    <3>2. ext[i - 1] = tr[i - 1] /\ t[i] = s[i] /\ ext[i] = tr[i]
      BY <1>1, <1>3, <2>2, <3>1
    <3> QED BY <1>4, <2>2, <3>2
  <2> QED BY <1>1, <2>1, <2>2
<1>7. Trace(ext, t, a, b, alg)
  BY <1>1, <1>3, <1>4, <1>5, <1>6 DEF Trace
<1> QED BY <1>7 DEF Wired, t

\* The client reads one.
LEMMA WiredTail ==
  ASSUME NEW s, IsSeq(s), s # <<>>, NEW a, NEW b, NEW alg, b.no \in Nat,
         Wired(s, a, b, alg)
  PROVE  \E m : /\ Link(a, Head(s), m, alg) /\ m.no \in 0 .. b.no
                /\ Wired(Tail(s), m, b, alg)
<1> DEFINE n == Len(s)
           t == Tail(s)
<1>1. /\ n \in Nat /\ n > 0 /\ Len(t) = n - 1 /\ Head(s) = s[1]
      /\ \A i \in 1 .. n - 1 : t[i] = s[i + 1]
  BY SeqFacts
<1>2. PICK tr : Trace(tr, s, a, b, alg)
  BY DEF Wired
<1>3. /\ tr[0] = a /\ tr[n] = b
      /\ \A i \in 0 .. n : tr[i].no \in 0 .. b.no
      /\ \A i \in 1 .. n : Link(tr[i - 1], s[i], tr[i], alg)
  BY <1>2 DEF Trace
<1> DEFINE cut == [i \in 0 .. n - 1 |-> tr[i + 1]]
<1>4. \A i \in 0 .. n - 1 : cut[i] = tr[i + 1]
  OBVIOUS
<1> HIDE DEF n, t, cut
<1>5. cut[0] = tr[1] /\ cut[n - 1] = b
  BY <1>1, <1>3, <1>4
<1>6. ASSUME NEW i \in 0 .. n - 1
      PROVE  cut[i].no \in 0 .. b.no
  <2>1. i + 1 \in 0 .. n /\ cut[i] = tr[i + 1]
    BY <1>1, <1>4
  <2> QED BY <1>3, <2>1
<1>7. ASSUME NEW i \in 1 .. n - 1
      PROVE  Link(cut[i - 1], t[i], cut[i], alg)
  <2>1. i + 1 \in 1 .. n /\ i \in 0 .. n - 1 /\ i - 1 \in 0 .. n - 1
        /\ (i - 1) + 1 = i /\ (i + 1) - 1 = i
    BY <1>1
  <2>2. Link(tr[(i + 1) - 1], s[i + 1], tr[i + 1], alg)
    BY <1>3, <2>1
  <2>3. cut[i - 1] = tr[i] /\ cut[i] = tr[i + 1] /\ t[i] = s[i + 1]
    BY <1>1, <1>4, <2>1
  <2> QED BY <2>1, <2>2, <2>3
<1>8. Trace(cut, t, tr[1], b, alg)
  BY <1>1, <1>5, <1>6, <1>7 DEF Trace
<1>9. 1 \in 1 .. n /\ 1 \in 0 .. n /\ 1 - 1 = 0
  BY <1>1
<1>10. Link(a, Head(s), tr[1], alg) /\ tr[1].no \in 0 .. b.no
  BY <1>1, <1>3, <1>9
<1> QED BY <1>8, <1>10 DEF Wired, t

\* Frames that are no posts leave the trace where it is.
LEMMA WiredNoPosts ==
  ASSUME NEW s, IsSeq(s), NEW a, NEW alg, a.no \in Nat,
         \A i \in 1 .. Len(s) : s[i].type # "post"
  PROVE  Wired(s, a, a, alg)
<1> DEFINE tr == [i \in 0 .. Len(s) |-> a]
<1>1. Len(s) \in Nat
  BY SeqFacts
<1>2. \A i \in 0 .. Len(s) : tr[i] = a
  OBVIOUS
<1> HIDE DEF tr
<1>3. \A i \in 1 .. Len(s) : tr[i - 1] = a /\ tr[i] = a
  BY <1>1, <1>2
<1>4. tr[0] = a /\ tr[Len(s)] = a
  BY <1>1, <1>2
<1>5. \A i \in 1 .. Len(s) : Link(tr[i - 1], s[i], tr[i], alg)
  BY <1>3 DEF Link
<1>6. Trace(tr, s, a, a, alg)
  BY <1>1, <1>2, <1>4, <1>5 DEF Trace
<1> QED BY <1>6 DEF Wired
-----------------------------------------------------------------------------
\* Rank counts the non-empty payloads.
LEMMA RankFacts ==
  /\ Rank(0) = 0
  /\ \A n \in Nat : /\ Rank(n) \in Nat
                    /\ Rank(n + 1) = Rank(n) + (IF Posts[n + 1].size > 0 THEN 1 ELSE 0)
<1> DEFINE R(n) == {j \in 1 .. n : Posts[j].size > 0}
<1>1. R(0) = {}
  OBVIOUS
<1>2. ASSUME NEW n \in Nat
      PROVE  IsFiniteSet(R(n)) /\ Cardinality(R(n)) \in Nat
  <2>1. IsFiniteSet(1 .. n) /\ R(n) \in SUBSET (1 .. n)
    BY FS_Interval
  <2>2. IsFiniteSet(R(n))
    BY <2>1, FS_Subset
  <2> QED BY <2>2, FS_CardinalityType
<1>3. ASSUME NEW n \in Nat
      PROVE  Cardinality(R(n + 1)) =
               Cardinality(R(n)) + (IF Posts[n + 1].size > 0 THEN 1 ELSE 0)
  <2>1. CASE Posts[n + 1].size > 0
    <3>1. R(n + 1) = R(n) \cup {n + 1} /\ n + 1 \notin R(n)
      BY <2>1
    <3> QED BY <1>2, <2>1, <3>1, FS_AddElement
  <2>2. CASE ~(Posts[n + 1].size > 0)
    <3>1. R(n + 1) = R(n)
      BY <2>2
    <3>2. Cardinality(R(n)) \in Nat
      BY <1>2
    <3> HIDE DEF R
    <3> QED BY <2>2, <3>1, <3>2
  <2> QED BY <2>1, <2>2
<1>4. \A n : Rank(n) = Cardinality(R(n))
  BY DEF Rank
<1> HIDE DEF R
<1> QED BY <1>1, <1>2, <1>3, <1>4, FS_EmptySet

LEMMA RankMonotone ==
  ASSUME NEW m \in Nat, NEW n \in Nat, m <= n
  PROVE  /\ Rank(m) <= Rank(n)
         /\ m < n /\ Posts[n].size > 0 => Rank(m) < Rank(n)
<1> DEFINE R(k) == {j \in 1 .. k : Posts[j].size > 0}
<1>1. IsFiniteSet(1 .. n) /\ R(n) \in SUBSET (1 .. n) /\ R(m) \in SUBSET R(n)
  BY FS_Interval
<1>2. IsFiniteSet(R(n))
  BY <1>1, FS_Subset
<1>3. IsFiniteSet(R(m)) /\ Cardinality(R(m)) <= Cardinality(R(n))
      /\ (Cardinality(R(n)) = Cardinality(R(m)) => R(n) = R(m))
  BY <1>1, <1>2, FS_Subset
<1>4. Cardinality(R(n)) \in Nat /\ Cardinality(R(m)) \in Nat
  BY <1>2, <1>3, FS_CardinalityType
<1>5. m < n /\ Posts[n].size > 0 => n \in R(n) /\ n \notin R(m)
  OBVIOUS
<1>6. Rank(n) = Cardinality(R(n)) /\ Rank(m) = Cardinality(R(m))
  BY DEF Rank
<1> HIDE DEF R
<1> QED BY <1>3, <1>4, <1>5, <1>6

-----------------------------------------------------------------------------
\* A ciphertext holds the data, its padding and its tag; under a block cipher it is
\* empty for no data alone.
LEMMA CipherSizes ==
  ASSUME NEW alg \in CryptoAlgorithm, NEW size \in Nat
  PROVE  /\ CipherSize(alg, size) \in Nat
         /\ CipherSize(alg, size) >= size + TagSize(alg)
         /\ TagSize(alg) \in Nat
         /\ size > 0 \/ alg = "xxtea" => CipherSize(alg, size) > 0
         /\ alg = "none" => CipherSize(alg, size) = size /\ TagSize(alg) = 0
<1>1. BlockSize(alg) \in {1, 8, 16} /\ TagSize(alg) \in {0, 16}
  BY DEF BlockSize, TagSize
<1>2. \A b \in {1, 8, 16} : BlockAlignPad(size, b) \in Nat /\ BlockAlignPad(size, b) >= size
  BY DEF BlockAlignPad
<1>3. BlockAlignPad(size, 1) = size
  BY DEF BlockAlignPad
<1>4. alg = "none" => BlockSize(alg) = 1 /\ TagSize(alg) = 0
  BY DEF BlockSize, TagSize, CBC, IsAEAD, GCM, Poly1305
<1>5. alg = "xxtea" => BlockSize(alg) = 8 /\ TagSize(alg) = 0
  BY DEF BlockSize, TagSize, CBC, IsAEAD, GCM, Poly1305
<1>6. CASE alg = "xxtea" /\ size = 0
  BY <1>5, <1>6 DEF CipherSize
<1>7. CASE ~(alg = "xxtea" /\ size = 0)
  <2>1. CipherSize(alg, size) = BlockAlignPad(size, BlockSize(alg)) + TagSize(alg)
    BY <1>7 DEF CipherSize
  <2> QED BY <1>1, <1>2, <1>3, <1>4, <1>7, <2>1
<1> QED BY <1>6, <1>7

\* decodePostPayload undoes the encoding of the gateway when it has the IV: the
\* payload comes out whole, and only an empty one under a CBC cipher is refused.
LEMMA DecodesPost ==
  ASSUME NEW s, s.alg \in CryptoAlgorithm, CipherSupported(s.alg),
         NEW p, p.size \in Nat, p.packed \in Nat, p.size > 0 => p.packed > 0,
         NEW f, PostOf(f, p, s.alg), DecryptIV(s, f) = f.ct.iv
  PROVE  /\ ~Decodes(s, f) => s.alg \in CBC /\ p.size = 0
         /\ DecodedSize(s, f) = p.size
         /\ DecodedIntact(s, f) = TRUE
<1> DEFINE data == IF f.packed > 0 THEN p.packed ELSE p.size
           plain == Decrypted(s, f)
<1>1. /\ f.crypto = (s.alg # "none") /\ f.packed \in {0, p.packed} /\ f.length = p.size
      /\ f.ct.payload = p /\ f.ct.size = CipherSize(s.alg, data)
  BY DEF PostOf
<1>2. data \in Nat /\ (f.packed > 0 => data = f.packed /\ data = p.packed)
      /\ (~(f.packed > 0) => data = p.size) /\ (p.size > 0 => data > 0)
  BY <1>1
<1> HIDE DEF data
<1>3. /\ CipherSize(s.alg, data) \in Nat /\ TagSize(s.alg) \in Nat
      /\ CipherSize(s.alg, data) >= data + TagSize(s.alg)
      /\ data > 0 \/ s.alg = "xxtea" => CipherSize(s.alg, data) > 0
      /\ s.alg = "none" => CipherSize(s.alg, data) = data
  BY <1>2, CipherSizes
<1>4. plain \in Nat /\ plain >= data
  BY <1>1, <1>2, <1>3 DEF Decrypted, PlainSize
<1> HIDE DEF plain
<1>5. DecodedSize(s, f) = p.size
  BY <1>1, <1>2, <1>4 DEF DecodedSize, plain
<1>6. DecodedIntact(s, f) = TRUE
  BY DEF DecodedIntact, Intact
<1>7. f.packed > 0 => Decompresses(TrimToPacked(plain, f), f.ct.payload)
  BY <1>1, <1>2, <1>4 DEF Decompresses, TrimToPacked
<1>8. ASSUME ~Decodes(s, f)
      PROVE  s.alg \in CBC /\ p.size = 0
  <2>1. f.crypto /\ ~Decrypts(s.alg, f.ct, f.ct.iv)
    BY <1>7, <1>8 DEF Decodes, plain
  <2>2. ~IsAEAD(s.alg) /\ ~(f.ct.size > 0) /\ s.alg # "none"
    BY <1>1, <2>1 DEF Decrypts
  <2>3. s.alg # "xxtea" /\ ~(p.size > 0)
    BY <1>1, <1>2, <1>3, <2>2
  <2>4. s.alg \in CBC
    BY <2>2, <2>3 DEF IsAEAD, CryptoAlgorithm, CipherSupported
  <2> QED BY <2>3, <2>4
<1> QED BY <1>5, <1>6, <1>8

\* What the gateway encodes is the post of the payload.
LEMMA EncodesPost ==
  ASSUME NEW s, IsSession(s), NEW told,
         NEW p, p.size \in Nat, p.packed \in Nat, p.size > 0 => p.packed > 0
  PROVE  LET f == Post(s, "gateway", p, told)
             t == AfterEncode(s, "gateway", p)
         IN  /\ f.type = "post" /\ PostOf(f, p, s.alg) /\ f.iv = told /\ f.ct.iv = s.sendIV
             /\ IsSession(t) /\ t.alg = s.alg
             /\ t.sendIV = RollIV(IVRollPolicy(s.alg), f.ct.iv, f.ct)
<1> DEFINE f == Post(s, "gateway", p, told)
           t == AfterEncode(s, "gateway", p)
           ct == Ciphertext(s, "gateway", p)
           next == RollIV(IVRollPolicy(s.alg), s.sendIV, ct)
<1>1. /\ f.type = "post" /\ f.crypto = (s.alg # "none") /\ f.iv = told /\ f.length = p.size
      /\ f.packed = (IF Compresses(s, p) THEN p.packed ELSE 0) /\ f.ct = ct
  BY DEF Post, PostMessage
<1>2. /\ ct.id = p.id /\ ct.payload = p /\ ct.iv = s.sendIV
      /\ ct.size = CipherSize(s.alg, DataSize(s, p))
  BY DEF Ciphertext
<1>3. t = [s EXCEPT !.sendIV = next]
  BY DEF AfterEncode
<1> HIDE DEF f, t, ct
<1>4. next = RollIV(IVRollPolicy(s.alg), f.ct.iv, f.ct)
  BY <1>1, <1>2
<1> HIDE DEF next
<1>5. IsSession(t) /\ t.alg = s.alg /\ t.sendIV = next
  BY <1>3 DEF IsSession
<1>6. Compresses(s, p) => p.packed > 0
  BY DEF Compresses
<1>7. DataSize(s, p) = IF f.packed > 0 THEN p.packed ELSE p.size
  BY <1>1, <1>6 DEF DataSize
<1>8. PostOf(f, p, s.alg)
  BY <1>1, <1>2, <1>7 DEF PostOf
<1> QED BY <1>1, <1>2, <1>4, <1>5, <1>8 DEF f, t

-----------------------------------------------------------------------------
\* Steps that neither read nor post: the trace of what is in flight stays.
LEMMA DeliverKept ==
  ASSUME DeliverInv, UNCHANGED <<app, posted, in>>,
         session'.alg = session.alg, session'.recvIV = session.recvIV,
         peer'.sendIV = peer.sendIV,
         Receiving' => Receiving, reader' = "decode" => reader = "decode"
  PROVE  DeliverInv'
<1>1. PICK n \in 0 .. posted :
        /\ GivenUpTo(n)
        /\ Receiving => Wired(in, At(n, session.recvIV), At(posted, peer.sendIV), session.alg)
  BY DEF DeliverInv
<1>2. GivenUpTo(n)'
  BY <1>1 DEF GivenUpTo
<1>3. EmptyUnderCBC' <=> EmptyUnderCBC
  BY DEF EmptyUnderCBC
<1>4. Receiving' => Wired(in, At(n, session.recvIV), At(posted, peer.sendIV), session.alg)'
  BY <1>1
<1> QED BY <1>1, <1>2, <1>3, <1>4 DEF DeliverInv

\* The gateway puts a frame at the end of the trace.
LEMMA DeliverIn ==
  ASSUME DeliverInv, IsSeq(in), UNCHANGED <<app, reader, dial, session>>,
         NEW f, in' = Append(in, f), posted' \in 0 .. Len(Posts), posted <= posted',
         Receiving => Link(At(posted, peer.sendIV), f, At(posted', peer'.sendIV), session.alg)
  PROVE  DeliverInv'
<1>1. PICK n \in 0 .. posted :
        /\ GivenUpTo(n)
        /\ Receiving => Wired(in, At(n, session.recvIV), At(posted, peer.sendIV), session.alg)
  BY DEF DeliverInv
<1>2. posted \in Nat /\ posted' \in Nat /\ n \in 0 .. posted'
  BY GatewayAssumption DEF DeliverInv
<1>3. GivenUpTo(n)'
  BY <1>1 DEF GivenUpTo
<1>4. EmptyUnderCBC => EmptyUnderCBC'
  BY <1>2 DEF EmptyUnderCBC
<1>5. ASSUME Receiving
      PROVE  Wired(Append(in, f), At(n, session.recvIV), At(posted', peer'.sendIV), session.alg)
  <2>1. At(posted, peer.sendIV).no = posted /\ At(posted', peer'.sendIV).no = posted'
    BY DEF At
  <2> QED BY <1>1, <1>2, <1>5, <2>1, WiredAppend
<1>6. Receiving' => Wired(in, At(n, session.recvIV), At(posted, peer.sendIV), session.alg)'
  BY <1>5 DEF Receiving
<1>7. IsSeq(app)' /\ (reader' = "decode" => EmptyUnderCBC')
  BY <1>4 DEF DeliverInv
<1> QED BY <1>2, <1>3, <1>6, <1>7 DEF DeliverInv

\* On an open connection no handshake is under way, whatever is sent and read.
LEMMA OpenStep ==
  ASSUME HandshakeInv, dial = "open", dial' = dial,
         session'.alg = session.alg, peer'.alg = peer.alg, IsSession(peer)', IsSeq(in)',
         \/ out' = out \/ out' = <<>> \/ (out # <<>> /\ out' = Tail(out))
         \/ \E f : f.type # "handshake" /\ out' = Append(out, f)
  PROVE  HandshakeInv'
<1>1. /\ IsSeq(out) /\ \A i \in 1 .. Len(out) : out[i].type # "handshake"
      /\ session.alg = peer.alg /\ CipherSupported(session.alg) /\ peer.alg \in CryptoAlgorithm
  BY DEF HandshakeInv
<1>2. Len(out) \in Nat /\ IsSeq(<<>>) /\ Len(<<>>) = 0
  BY <1>1, SeqFacts
<1>3. IsSeq(out)' /\ \A i \in 1 .. Len(out') : out'[i].type # "handshake"
  <2>1. CASE out' = out
    BY <1>1, <2>1
  <2>2. CASE out' = <<>>
    BY <1>2, <2>2
  <2>3. CASE out # <<>> /\ out' = Tail(out)
    <3>1. /\ IsSeq(out') /\ Len(out') = Len(out) - 1
          /\ \A i \in 1 .. Len(out) - 1 : out'[i] = out[i + 1]
      BY <1>1, <2>3, SeqFacts
    <3> QED BY <1>1, <1>2, <3>1
  <2>4. CASE \E f : f.type # "handshake" /\ out' = Append(out, f)
    <3>1. PICK f : f.type # "handshake" /\ out' = Append(out, f)
      BY <2>4
    <3>2. /\ IsSeq(out') /\ Len(out') = Len(out) + 1
          /\ \A i \in 1 .. Len(out) : out'[i] = out[i]
          /\ out'[Len(out) + 1] = f
      BY <1>1, <3>1, SeqFacts
    <3> QED BY <1>1, <1>2, <3>1, <3>2
  <2> QED BY <2>1, <2>2, <2>3, <2>4
<1> QED BY <1>1, <1>3 DEF HandshakeInv

LEMMA SentOut ==
  ASSUME NEW f, Sent(f)
  PROVE  out' = Append(out, f) /\ tcp = "open"
BY DEF Sent, WriteRoom

\* The writers, the pong, the end of the receive loop and Close.
LEMMA ClientKeeps ==
  ASSUME GInv,
         \/ \E w \in Writer : WriteEncode(w) \/ WriteSend(w)
         \/ WritePong \/ ReadEnds \/ CloseBegin \/ CloseSend \/ CloseTCP
  PROVE  DeliverInv' /\ HandshakeInv'
<1> USE DEF serverVars
<1>1. /\ IsSession(session) /\ IsSession(peer) /\ IsSeq(in) /\ DeliverInv /\ HandshakeInv
      /\ LockInv
  BY DEF GInv, IInv, Types, HandshakeInv
<1>2. ASSUME dial = "open", UNCHANGED <<dial, app, posted, in, peer>>,
             session'.alg = session.alg, session'.recvIV = session.recvIV,
             reader' \in {"read", "pong"} => reader \in {"read", "pong"},
             reader' = "decode" => reader = "decode",
             \/ out' = out
             \/ \E f : f.type # "handshake" /\ out' = Append(out, f)
      PROVE  DeliverInv' /\ HandshakeInv'
  <2>1. DeliverInv'
    BY <1>1, <1>2, DeliverKept DEF Receiving
  <2>2. HandshakeInv'
    BY <1>1, <1>2, OpenStep
  <2> QED BY <2>1, <2>2
<1>3. ASSUME NEW w \in Writer, WriteEncode(w)
      PROVE  DeliverInv' /\ HandshakeInv'
  <2>1. session' = session \/ session' = AfterEncode(session, "client", Text[w])
    BY <1>3 DEF WriteEncode
  <2>2. session'.alg = session.alg /\ session'.recvIV = session.recvIV
    <3> DEFINE iv == RollIV(IVRollPolicy(session.alg), session.sendIV,
                            Ciphertext(session, "client", Text[w]))
    <3>1. AfterEncode(session, "client", Text[w]) = [session EXCEPT !.sendIV = iv]
      BY DEF AfterEncode
    <3> HIDE DEF iv
    <3> QED BY <1>1, <2>1, <3>1 DEF IsSession
  <2> QED BY <1>2, <1>3, <2>2 DEF WriteEncode
<1>4. ASSUME NEW w \in Writer, WriteSend(w)
      PROVE  DeliverInv' /\ HandshakeInv'
  <2>1. frame[w].type = "post"
    BY <1>1, <1>4, PostsApart DEF WriteSend, LockInv
  <2>2. dial = "open"
    BY <1>1, <1>4 DEF WriteSend, LockInv
  <2>3. out' = out \/ out' = Append(out, frame[w])
    BY <1>4, SentOut DEF WriteSend
  <2>4. /\ UNCHANGED <<dial, app, posted, in, peer, session, reader>>
        /\ frame[w].type # "handshake"
    BY <1>4, <2>1 DEF WriteSend
  <2> QED BY <1>2, <2>2, <2>3, <2>4
<1>5. CASE WritePong
  <2>1. dial = "open"
    BY <1>1, <1>5 DEF WritePong, HandshakeInv
  <2>2. out' = out \/ out' = Append(out, PongMessage)
    BY <1>5, SentOut DEF WritePong
  <2>3. PongMessage.type # "handshake"
    BY DEF PongMessage
  <2> QED BY <1>2, <1>5, <2>1, <2>2, <2>3 DEF WritePong
<1>6. CASE ReadEnds
  BY <1>2, <1>6 DEF ReadEnds
<1>7. CASE CloseBegin
  BY <1>2, <1>7 DEF CloseBegin
<1>8. CASE CloseSend
  <2>1. dial = "open"
    BY <1>1, <1>8 DEF CloseSend, LockInv
  <2>2. out' = out \/ out' = Append(out, KickoffMessage)
    BY <1>8, SentOut DEF CloseSend
  <2>3. KickoffMessage.type # "handshake"
    BY DEF KickoffMessage
  <2> QED BY <1>2, <1>8, <2>1, <2>2, <2>3 DEF CloseSend
<1>9. CASE CloseTCP
  <2>1. dial = "open"
    BY <1>1, <1>9 DEF CloseTCP, LockInv
  <2> QED BY <1>2, <1>9, <2>1 DEF CloseTCP
<1> QED BY <1>3, <1>4, <1>5, <1>6, <1>7, <1>8, <1>9

\* The handshake: the request, the confirmation and a failure.
LEMMA DialSteps ==
  ASSUME GInv, BuildKeyExchangeReq \/ SendConfirm \/ HandshakeBroken
  PROVE  DeliverInv' /\ HandshakeInv'
<1> USE DEF clientVars
<1>1. DeliverInv /\ HandshakeInv /\ IsSeq(out) /\ IsSeq(in)
  BY DEF GInv, HandshakeInv
<1>2. CASE BuildKeyExchangeReq
  <2>1. /\ UNCHANGED <<session, in, peer, posted, app, reader>>
        /\ dial = "start" /\ dial' = "sent"
        /\ out' = Append(out, HandshakeMessage(Config, Wire(0))) /\ tcp = "open"
    BY <1>2, SentOut DEF BuildKeyExchangeReq
  <2>2. DeliverInv'
    BY <1>1, <2>1, DeliverKept DEF Receiving
  <2>3. out = <<>> /\ in = <<>>
    BY <1>1, <2>1 DEF HandshakeInv
  <2>4. IsSeq(out)' /\ Len(out') = 1
    <3>1. IsSeq(out)' /\ Len(out') = Len(out) + 1 /\ Len(out) = 0
      BY <1>1, <2>1, <2>3, SeqFacts
    <3> QED BY <3>1
  <2> QED BY <1>1, <2>1, <2>2, <2>3, <2>4 DEF HandshakeInv
<1>3. CASE SendConfirm
  <2>1. /\ UNCHANGED <<session, in, peer, posted, app, reader>>
        /\ dial = "confirm" /\ dial' = "open" /\ out' = Append(out, ConfirmMessage)
    BY <1>3, SentOut DEF SendConfirm
  <2>2. DeliverInv'
    BY <1>1, <2>1, DeliverKept DEF Receiving
  <2>3. /\ IsSeq(out)' /\ Len(out') = Len(out) + 1 /\ Len(out) \in Nat
        /\ \A i \in 1 .. Len(out) : out'[i] = out[i]
        /\ out'[Len(out) + 1] = ConfirmMessage
    BY <1>1, <2>1, SeqFacts
  <2>4. \A i \in 1 .. Len(out) : out[i].type # "handshake"
    BY <1>1, <2>1 DEF HandshakeInv
  <2>5. ConfirmMessage.type # "handshake"
    BY DEF ConfirmMessage
  <2>6. \A i \in 1 .. Len(out') : out'[i].type # "handshake"
    BY <2>3, <2>4, <2>5
  <2> QED BY <1>1, <2>1, <2>2, <2>3, <2>6 DEF HandshakeInv
<1>4. CASE HandshakeBroken
  <2>1. /\ UNCHANGED <<session, in, out, peer, posted, app, reader>>
        /\ dial # "open" /\ dial' = "failed"
    BY <1>4 DEF HandshakeBroken, DialFails
  <2>2. DeliverInv'
    BY <1>1, <2>1, DeliverKept DEF Receiving
  <2> QED BY <1>1, <2>1, <2>2 DEF HandshakeInv
<1> QED BY <1>2, <1>3, <1>4

\* The response: the IV it leaves the client with is the one of the gateway, and no
\* post is in flight yet.
LEMMA ResponseDelivers ==
  ASSUME GInv, HandleKeyExchangeRsp
  PROVE  DeliverInv' /\ HandshakeInv'
<1> USE DEF clientVars
<1> DEFINE rsp == Head(in)
<1>1. DeliverInv /\ HandshakeInv /\ IsSeq(out) /\ IsSeq(in)
  BY DEF GInv, HandshakeInv
<1>2. /\ UNCHANGED <<out, peer, posted, app, reader>>
      /\ dial = "sent" /\ in # <<>> /\ in' = Tail(in)
      /\ \/ /\ session' = SessionOf(rsp) /\ dial' = "confirm"
            /\ rsp.type = "handshake" /\ CipherSupported(rsp.alg)
         \/ session' = session /\ dial' = "failed"
  BY DEF HandleKeyExchangeRsp, DialFails, Readable
<1>3. /\ posted = 0 /\ reader = "read" /\ app = <<>> /\ out = <<>>
      /\ \A i \in 1 .. Len(in) :
           \/ in[i].type \notin {"post", "handshake"}
           \/ i = 1 /\ in[i].type = "handshake" /\ Answers(in[i])
  BY <1>1, <1>2 DEF HandshakeInv
<1>4. /\ Len(in) \in Nat /\ Len(in) # 0 /\ rsp = in[1]
      /\ IsSeq(in') /\ Len(in') = Len(in) - 1
      /\ \A i \in 1 .. Len(in) - 1 : in'[i] = in[i + 1]
  BY <1>1, <1>2, SeqFacts
<1>5. GivenUpTo(0) /\ GivenUpTo(0)'
  BY <1>2, <1>3, RankFacts DEF GivenUpTo
<1> HIDE DEF rsp
<1>6. IsSeq(app)' /\ posted' \in 0 .. Len(Posts) /\ 0 \in 0 .. posted' /\ reader' = "read"
  BY <1>1, <1>2, <1>3 DEF DeliverInv
<1>7. CASE session' = session /\ dial' = "failed"
  <2>1. ~Receiving'
    BY <1>7 DEF Receiving
  <2>2. DeliverInv'
    BY <1>5, <1>6, <2>1 DEF DeliverInv
  <2>3. HandshakeInv'
    BY <1>1, <1>2, <1>3, <1>4, <1>7 DEF HandshakeInv
  <2> QED BY <2>2, <2>3
<1>8. CASE /\ session' = SessionOf(rsp) /\ dial' = "confirm"
           /\ rsp.type = "handshake" /\ CipherSupported(rsp.alg)
  <2>1. 1 \in 1 .. Len(in)
    BY <1>4
  <2>2. rsp.alg = peer.alg /\ SessionOf(rsp).recvIV = peer.sendIV
    BY <1>3, <1>4, <1>8, <2>1 DEF Answers
  <2>3. SessionOf(rsp).alg = rsp.alg
    BY DEF SessionOf, NoSession
  <2>4. session'.alg = peer.alg /\ session'.recvIV = peer'.sendIV
    BY <1>2, <1>8, <2>2, <2>3
  <2>5. \A i \in 1 .. Len(in') : in'[i].type # "post"
    <3> SUFFICES ASSUME NEW i \in 1 .. Len(in') PROVE in'[i].type # "post"
      OBVIOUS
    <3>1. i + 1 \in 1 .. Len(in) /\ i + 1 # 1 /\ in'[i] = in[i + 1]
      BY <1>4
    <3> QED BY <1>3, <3>1
  <2>6. Wired(in', At(0, peer'.sendIV), At(0, peer'.sendIV), session'.alg)
    <3>1. At(0, peer'.sendIV).no = 0
      BY DEF At
    <3> QED BY <1>4, <2>5, <3>1, WiredNoPosts
  <2>7. DeliverInv'
    BY <1>2, <1>3, <1>5, <1>6, <2>4, <2>6 DEF DeliverInv
  <2>8. HandshakeInv'
    <3>1. IsSeq(out)' /\ out' = <<>> /\ Len(out') = 0
      BY <1>1, <1>2, <1>3, SeqFacts
    <3>2. IsSession(peer)' /\ peer'.alg \in CryptoAlgorithm
      BY <1>1, <1>2 DEF HandshakeInv
    <3> QED BY <1>2, <1>3, <1>4, <1>8, <2>2, <2>4, <3>1, <3>2 DEF HandshakeInv
  <2> QED BY <2>7, <2>8
<1> QED BY <1>2, <1>7, <1>8

LEMMA PostSizes ==
  ASSUME NEW i \in 1 .. Len(Posts)
  PROVE  /\ Posts[i].size \in Nat /\ Posts[i].packed \in Nat
         /\ Posts[i].size > 0 => Posts[i].packed > 0
BY GatewayAssumption

\* One frame of the trace is read: a post gives the application its payload, unless
\* it is empty, and takes the IV of the client to the next place of the trace.
LEMMA ReadStep ==
  ASSUME GInv, ReadFrame
  PROVE  DeliverInv' /\ HandshakeInv'
<1> DEFINE f == Head(in)
<1>1. DeliverInv /\ HandshakeInv /\ IsSession(session) /\ IsSeq(in)
  BY DEF GInv, IInv, Types, HandshakeInv
<1>2. /\ UNCHANGED <<dial, out, peer, posted>>
      /\ dial = "open" /\ reader = "read" /\ in # <<>> /\ in' = Tail(in)
      /\ ReadPost(f) \/ ReadPing(f) \/ ReadOther(f)
  BY DEF ReadFrame, Readable, serverVars
<1>3. /\ session.alg \in CryptoAlgorithm /\ CipherSupported(session.alg) /\ IsSession(peer)
      /\ posted \in 0 .. Len(Posts) /\ posted \in Nat /\ IsSeq(app)
  BY <1>1, <1>2, GatewayAssumption DEF HandshakeInv, DeliverInv
<1>4. session' = session \/ session' = AfterDecode(session, f)
  BY <1>2 DEF ReadPost, ReadPing, ReadOther
<1>5. session'.alg = session.alg
  BY <1>1, <1>4, DecodePost
<1>6. HandshakeInv'
  <2>1. IsSeq(in)'
    BY <1>1, <1>2, SeqFacts
  <2> QED BY <1>1, <1>2, <1>3, <1>5, <2>1, OpenStep
<1>7. PICK n \in 0 .. posted :
        /\ GivenUpTo(n)
        /\ Wired(in, At(n, session.recvIV), At(posted, peer.sendIV), session.alg)
  BY <1>1, <1>2 DEF DeliverInv, Receiving
<1>8. PICK m : /\ Link(At(n, session.recvIV), f, m, session.alg) /\ m.no \in 0 .. posted
               /\ Wired(in', m, At(posted, peer.sendIV), session.alg)
  <2>1. At(posted, peer.sendIV).no = posted
    BY DEF At
  <2> QED BY <1>1, <1>2, <1>3, <1>7, <2>1, WiredTail
<1> HIDE DEF f
<1>9. CASE ReadPost(f)
  <2> DEFINE p == Posts[n + 1]
  <2>1. /\ f.type = "post"
        /\ IF Decodes(session, f)
           THEN session' = AfterDecode(session, f) /\ app' = Delivered(f) /\ reader' = reader
           ELSE reader' = "decode" /\ session' = session /\ app' = app
    BY <1>9 DEF ReadPost
  <2>2. /\ m = At(n + 1, RollIV(IVRollPolicy(session.alg), f.ct.iv, f.ct))
        /\ PostOf(f, Posts[m.no], session.alg)
        /\ IF f.iv = NoIV THEN f.ct.iv = session.recvIV
                          ELSE f.ct.iv = f.iv /\ session.alg # "none"
    BY <1>8, <2>1 DEF Link, At
  <2>3. m.no = n + 1 /\ m.iv = RollIV(IVRollPolicy(session.alg), f.ct.iv, f.ct)
    BY <2>2 DEF At
  <2>4. n \in Nat /\ n + 1 \in 1 .. posted /\ n + 1 \in 1 .. Len(Posts)
    BY <1>3, <1>8, <2>3, GatewayAssumption
  <2>5. /\ p.size \in Nat /\ p.packed \in Nat /\ (p.size > 0 => p.packed > 0)
        /\ PostOf(f, p, session.alg)
    BY <2>2, <2>3, <2>4, PostSizes
  <2>6. DecryptIV(session, f) = f.ct.iv
    BY <2>2 DEF DecryptIV
  <2> HIDE DEF p
  <2>7. /\ ~Decodes(session, f) => session.alg \in CBC /\ p.size = 0
        /\ DecodedSize(session, f) = p.size /\ DecodedIntact(session, f) = TRUE
    BY <1>3, <2>5, <2>6, DecodesPost
  <2>8. CASE ~Decodes(session, f)
    <3>1. reader' = "decode" /\ session' = session /\ app' = app
      BY <2>1, <2>8
    <3>2. EmptyUnderCBC'
      BY <1>2, <2>4, <2>7, <2>8, <3>1 DEF EmptyUnderCBC, p
    <3>3. GivenUpTo(n)' /\ ~Receiving'
      BY <1>7, <3>1 DEF GivenUpTo, Receiving
    <3> QED BY <1>2, <1>3, <1>6, <3>1, <3>2, <3>3 DEF DeliverInv
  <2>9. CASE Decodes(session, f)
    <3>1. session' = AfterDecode(session, f) /\ app' = Delivered(f) /\ reader' = "read"
      BY <1>2, <2>1, <2>9
    <3>2. session'.recvIV = m.iv
      <4> DEFINE iv == RollIV(IVRollPolicy(session.alg), f.ct.iv, f.ct)
      <4>1. f.crypto = (session.alg # "none")
        BY <2>5 DEF PostOf
      <4>2. CASE session.alg # "none"
        <5>1. session' = [session EXCEPT !.recvIV = iv]
          BY <2>6, <3>1, <4>1, <4>2 DEF AfterDecode
        <5> HIDE DEF iv
        <5>2. session'.recvIV = iv
          BY <1>1, <5>1 DEF IsSession
        <5> QED BY <2>3, <5>2 DEF iv
      <4>3. CASE session.alg = "none"
        <5>1. session' = session
          BY <3>1, <4>1, <4>3 DEF AfterDecode
        <5>2. IVRollPolicy(session.alg) = "none"
          BY <4>3 DEF IVRollPolicy, IsAEAD, GCM, Poly1305, CBC
        <5>3. iv = f.ct.iv
          BY <5>2 DEF RollIV
        <5> QED BY <2>2, <2>3, <4>3, <5>1, <5>3
      <4> QED BY <4>2, <4>3
    <3>3. m = At(n + 1, session'.recvIV)
      BY <2>2, <2>3, <3>2
    <3>4. IsSeq(app)' /\ GivenUpTo(n + 1)'
      <4>1. /\ Len(app) = Rank(n) /\ Rank(n) \in Nat
            /\ \A i \in 1 .. n : Posts[i].size > 0 => app[Rank(i)] = Whole(Posts[i])
        BY <1>7, <2>4, RankFacts DEF GivenUpTo
      <4>2. CASE p.size > 0
        <5>1. app' = Append(app, Whole(p))
          <6>1. app' = Append(app, [id |-> f.ct.id, size |-> p.size, intact |-> TRUE])
            BY <2>7, <3>1, <4>2 DEF Delivered
          <6>2. f.ct.id = p.id
            BY <2>5 DEF PostOf
          <6> QED BY <6>1, <6>2 DEF Whole
        <5>2. /\ IsSeq(app') /\ Len(app') = Len(app) + 1 /\ app'[Len(app) + 1] = Whole(p)
              /\ \A i \in 1 .. Len(app) : app'[i] = app[i]
          BY <1>3, <5>1, SeqFacts
        <5>3. Rank(n + 1) = Rank(n) + 1
          BY <2>4, <4>2, RankFacts DEF p
        <5>4. ASSUME NEW i \in 1 .. n + 1, Posts[i].size > 0
              PROVE  app'[Rank(i)] = Whole(Posts[i])
          <6>1. CASE i = n + 1
            BY <4>1, <5>2, <5>3, <6>1 DEF p
          <6>2. CASE i \in 1 .. n
            <7>1. 0 \in Nat /\ i \in Nat /\ 0 < i /\ i <= n
              BY <2>4, <6>2
            <7>2. Rank(0) < Rank(i) /\ Rank(i) <= Rank(n)
              BY <2>4, <5>4, <7>1, RankMonotone
            <7>3. Rank(i) \in 1 .. Len(app)
              BY <4>1, <7>1, <7>2, RankFacts
            <7> QED BY <4>1, <5>2, <5>4, <6>2, <7>3
          <6> QED BY <2>4, <6>1, <6>2
        <5>5. Len(app') = Rank(n + 1)
          BY <4>1, <5>2, <5>3
        <5> QED BY <5>2, <5>4, <5>5 DEF GivenUpTo
      <4>3. CASE ~(p.size > 0)
        <5>1. app' = app
          BY <2>7, <3>1, <4>3 DEF Delivered
        <5>2. Rank(n + 1) = Rank(n)
          <6>1. Rank(n + 1) = Rank(n) + (IF p.size > 0 THEN 1 ELSE 0)
            BY <2>4, RankFacts DEF p
          <6> QED BY <4>1, <4>3, <6>1
        <5>3. \A i \in 1 .. n + 1 : Posts[i].size > 0 => i \in 1 .. n
          BY <2>4, <4>3 DEF p
        <5> QED BY <1>3, <4>1, <5>1, <5>2, <5>3 DEF GivenUpTo
      <4> QED BY <4>2, <4>3
    <3>5. n + 1 \in 0 .. posted'
      BY <1>2, <1>3, <2>4
    <3> QED BY <1>2, <1>3, <1>5, <1>6, <1>8, <3>1, <3>3, <3>4, <3>5 DEF DeliverInv
  <2> QED BY <2>8, <2>9
<1>10. CASE ReadPing(f) \/ ReadOther(f)
  <2>1. f.type # "post" /\ session' = session /\ app' = app /\ reader' # "decode"
    BY <1>10 DEF ReadPing, ReadOther
  <2>2. m = At(n, session.recvIV)
    BY <1>8, <2>1 DEF Link
  <2>3. GivenUpTo(n)'
    BY <1>7, <2>1 DEF GivenUpTo
  <2> QED BY <1>2, <1>3, <1>6, <1>7, <1>8, <2>1, <2>2, <2>3 DEF DeliverInv
<1> QED BY <1>2, <1>9, <1>10

\* The answer of the gateway: the client will find the IV the gateway posts with,
\* whether it is derived, given or moved on by the token.
LEMMA AnswerStep ==
  ASSUME GInv, GatewayAnswer
  PROVE  DeliverInv' /\ HandshakeInv'
<1> USE DEF localVars
<1>1. DeliverInv /\ HandshakeInv /\ IsSeq(out) /\ IsSeq(in) /\ IsSession(peer)
      /\ peer.alg \in CryptoAlgorithm
  BY DEF GInv, HandshakeInv
<1>2. /\ UNCHANGED <<dial, session, reader, app, tcp, posted>>
      /\ tcp = "open" /\ out # <<>> /\ Head(out).type = "handshake" /\ out' = Tail(out)
  BY DEF GatewayAnswer
<1>3. /\ Len(out) \in Nat /\ Len(out) # 0 /\ Head(out) = out[1]
      /\ IsSeq(out') /\ Len(out') = Len(out) - 1 /\ 1 \in 1 .. Len(out)
      /\ Len(in) \in Nat /\ (out' = <<>> <=> Len(out') = 0)
  <2>1. /\ Len(out) \in Nat /\ Len(out) # 0 /\ Head(out) = out[1]
        /\ IsSeq(out') /\ Len(out') = Len(out) - 1
        /\ Len(in) \in Nat
    BY <1>1, <1>2, SeqFacts
  <2>2. out' = <<>> <=> Len(out') = 0
    BY <2>1, SeqFacts
  <2> QED BY <2>1, <2>2
<1>4. dial \notin {"start", "confirm", "open"}
  BY <1>1, <1>2, <1>3 DEF HandshakeInv
<1>5. PICK f : /\ in' = Append(in, f)
               /\ IsSession(peer)' /\ peer'.alg \in CryptoAlgorithm
               /\ \/ f.type \notin {"post", "handshake"}
                  \/ f.type = "handshake" /\ Answers(f)'
  <2>1. CASE in' = Append(in, KickoffMessage) /\ UNCHANGED peer
    <3>1. KickoffMessage.type \notin {"post", "handshake"}
      BY DEF KickoffMessage
    <3> QED BY <1>1, <2>1, <3>1
  <2>2. ASSUME NEW o \in Offers,
               LET iv == IF o.ownIV THEN FreshIV("gateway") ELSE NoIV
                   s == [NoSession EXCEPT
                         !.alg = o.alg, !.compressor = o.compressor,
                         !.sendIV = IF o.ownIV THEN iv ELSE DerivedIV(o.alg),
                         !.recvIV = DerivedIV(o.alg)]
                   token == IF o.token THEN Ciphertext(s, "gateway", Token)
                                       ELSE [size |-> 0]
               IN  /\ peer' = IF o.token THEN AfterEncode(s, "gateway", Token) ELSE s
                   /\ in' = Append(in, RspMessage(o.alg, o.compressor, o.maxSize,
                                                  o.key, iv, token))
        PROVE  \E g : /\ in' = Append(in, g)
                      /\ IsSession(peer)' /\ peer'.alg \in CryptoAlgorithm
                      /\ g.type = "handshake" /\ Answers(g)'
    <3> DEFINE iv == IF o.ownIV THEN FreshIV("gateway") ELSE NoIV
               start == IF o.ownIV THEN iv ELSE DerivedIV(o.alg)
               s == [NoSession EXCEPT
                     !.alg = o.alg, !.compressor = o.compressor,
                     !.sendIV = start, !.recvIV = DerivedIV(o.alg)]
               token == IF o.token THEN Ciphertext(s, "gateway", Token) ELSE [size |-> 0]
               g == RspMessage(o.alg, o.compressor, o.maxSize, o.key, iv, token)
    <3>1. /\ peer' = IF o.token THEN AfterEncode(s, "gateway", Token) ELSE s
          /\ in' = Append(in, g)
      BY <2>2
    <3>2. (IF iv = NoIV THEN DerivedIV(o.alg) ELSE iv) = start
      BY DEF FreshIV, NoIV
    <3>3. o.alg \in CryptoAlgorithm
      BY GatewayAssumption
    <3> HIDE DEF iv, start
    <3>4. s = [NoSession EXCEPT
               !.alg = o.alg, !.compressor = o.compressor,
               !.sendIV = start, !.recvIV = DerivedIV(o.alg)]
      OBVIOUS
    <3> HIDE DEF s
    <3>5. IsSession(s) /\ s.alg = o.alg /\ s.sendIV = start /\ s.threshold = 1024
      <4>1. IsSession(NoSession) /\ NoSession.threshold = 1024
        BY DEF NoSession, IsSession, Config, ParseGatewayConfig
      <4> QED BY <3>4, <4>1 DEF IsSession
    <3>6. /\ g.type = "handshake" /\ g.alg = o.alg /\ g.initIV = iv /\ g.token = token
      BY DEF RspMessage
    <3> HIDE DEF g
    <3>7. SessionOf(g).recvIV = Advanced(o.alg, start, token)
      BY <3>2, <3>6 DEF SessionOf, NoSession
    <3>8. /\ IsSession(peer)' /\ peer'.alg = o.alg
          /\ peer'.sendIV = Advanced(o.alg, start, token)
      <4>1. CASE o.token
        <5> DEFINE next == RollIV(IVRollPolicy(o.alg), start, token)
        <5>1. token = Ciphertext(s, "gateway", Token)
          BY <4>1
        <5>2. DataSize(s, Token) = 32
          BY <3>5 DEF DataSize, Compresses, Token
        <5>3. token.size = CipherSize(o.alg, 32)
          BY <3>5, <5>1, <5>2 DEF Ciphertext
        <5>4. token.size > 0
          BY <3>3, <5>3, CipherSizes
        <5>5. peer' = [s EXCEPT !.sendIV = next]
          BY <3>1, <3>5, <4>1, <5>1 DEF AfterEncode
        <5>6. Advanced(o.alg, start, token) = next
          BY <5>4 DEF Advanced
        <5> HIDE DEF next
        <5>7. IsSession(peer)' /\ peer'.alg = o.alg /\ peer'.sendIV = next
          BY <3>5, <5>5 DEF IsSession
        <5> QED BY <5>6, <5>7
      <4>2. CASE ~o.token
        <5>1. token.size = 0 /\ peer' = s
          BY <3>1, <4>2
        <5>2. Advanced(o.alg, start, token) = start
          BY <5>1 DEF Advanced
        <5> QED BY <3>5, <5>1, <5>2
      <4> QED BY <4>1, <4>2
    <3>9. Answers(g)'
      BY <3>6, <3>7, <3>8 DEF Answers
    <3> QED BY <3>1, <3>3, <3>6, <3>8, <3>9
  <2> QED BY <2>1, <2>2 DEF GatewayAnswer
<1>6. DeliverInv'
  <2>1. ~Receiving
    BY <1>4 DEF Receiving
  <2>2. posted' \in 0 .. Len(Posts) /\ posted <= posted'
    BY <1>1, <1>2, GatewayAssumption DEF DeliverInv
  <2> QED BY <1>1, <1>2, <1>5, <2>1, <2>2, DeliverIn
<1>7. HandshakeInv'
  <2>1. /\ IsSeq(in') /\ Len(in') = Len(in) + 1 /\ in'[Len(in) + 1] = f
        /\ (in = <<>> => Len(in) = 0)
    BY <1>1, <1>5, SeqFacts
  <2>2. ASSUME dial = "sent"
        PROVE  out' = <<>> /\ Len(in') = 1 /\ in'[1] = f
    <3>1. Len(out) = 1 /\ in = <<>>
      BY <1>1, <1>2, <2>2 DEF HandshakeInv
    <3> QED BY <1>3, <2>1, <3>1
  <2>3. dial = "sent" => out' = <<>> /\ \A i \in 1 .. Len(in') :
            \/ in'[i].type \notin {"post", "handshake"}
            \/ i = 1 /\ in'[i].type = "handshake" /\ Answers(in[i])'
    BY <1>5, <2>2
  <2>4. dial # "open" => posted = 0 /\ reader = "read" /\ app = <<>>
    BY <1>1 DEF HandshakeInv
  <2> QED BY <1>2, <1>3, <1>4, <1>5, <2>1, <2>3, <2>4 DEF HandshakeInv
<1> QED BY <1>6, <1>7

\* The gateway's posts, its ping, what it reads and its last words.
LEMMA GatewayDelivers ==
  ASSUME GInv, GatewayReceive \/ GatewayPost \/ GatewayPing \/ GatewayLeaves
  PROVE  DeliverInv' /\ HandshakeInv'
<1> USE DEF localVars
<1>1. DeliverInv /\ HandshakeInv /\ IsSeq(out) /\ IsSeq(in) /\ IsSession(peer)
      /\ posted \in 0 .. Len(Posts) /\ posted \in Nat /\ Len(Posts) \in Nat
  BY GatewayAssumption DEF GInv, HandshakeInv, DeliverInv
<1>2. \A f : IsSeq(Append(in, f))
  BY <1>1, SeqFacts
<1>3. ASSUME NEW f, f.type # "post"
      PROVE  Link(At(posted, peer.sendIV), f, At(posted, peer.sendIV), session.alg)
  BY <1>3 DEF Link
<1>4. CASE GatewayReceive
  <2>1. /\ UNCHANGED <<dial, session, reader, app, in, posted, tcp>>
        /\ out # <<>> /\ out' = Tail(out)
        /\ peer' = peer \/ \E f : peer' = AfterDecode(peer, f)
    BY <1>4 DEF GatewayReceive
  <2>2. IsSession(peer)' /\ peer'.alg = peer.alg /\ peer'.sendIV = peer.sendIV
    BY <1>1, <2>1, DecodePost
  <2>3. DeliverInv'
    BY <1>1, <2>1, <2>2, DeliverKept DEF Receiving
  <2>4. CASE dial = "open"
    BY <1>1, <2>1, <2>2, <2>3, <2>4, OpenStep
  <2>5. CASE dial # "open"
    <3>1. /\ IsSeq(out') /\ Len(out') = Len(out) - 1 /\ Len(out) \in Nat
          /\ \A i \in 1 .. Len(out) - 1 : out'[i] = out[i + 1]
      BY <1>1, <2>1, SeqFacts
    <3>2. out' = <<>> <=> Len(out') = 0
      BY <3>1, SeqFacts
    <3>3. dial = "confirm" => \A i \in 1 .. Len(out') : out'[i].type # "handshake"
      BY <1>1, <3>1 DEF HandshakeInv
    <3>4. dial = "sent" => out' = <<>> /\ in = <<>> /\ Len(in) = 0
      BY <1>1, <2>1, <3>1, <3>2, SeqFacts DEF HandshakeInv
    <3>5. dial # "start"
      BY <1>1, <2>1 DEF HandshakeInv
    <3> QED BY <1>1, <2>1, <2>2, <2>3, <2>5, <3>1, <3>3, <3>4, <3>5 DEF HandshakeInv
  <2> QED BY <2>4, <2>5
<1>5. CASE GatewayPost
  <2>1. PICK told \in IF HasIV(peer.alg) THEN {NoIV, FreshIV("reset")} ELSE {NoIV} :
          LET s == IF told = NoIV THEN peer ELSE [peer EXCEPT !.sendIV = told]
          IN  /\ in' = Append(in, Post(s, "gateway", Posts[posted'], told))
              /\ peer' = AfterEncode(s, "gateway", Posts[posted'])
    BY <1>5 DEF GatewayPost
  <2> DEFINE s == IF told = NoIV THEN peer ELSE [peer EXCEPT !.sendIV = told]
             p == Posts[posted']
             f == Post(s, "gateway", p, told)
  <2>2. /\ UNCHANGED <<dial, session, reader, app, out, tcp>>
        /\ posted' = posted + 1 /\ posted < Len(Posts) /\ dial = "open"
    BY <1>5 DEF GatewayPost, Confirmed
  <2>3. in' = Append(in, f) /\ peer' = AfterEncode(s, "gateway", p)
    BY <2>1
  <2>4. IsSession(s) /\ s.alg = peer.alg
        /\ s.sendIV = IF told = NoIV THEN peer.sendIV ELSE told
    BY <1>1 DEF IsSession
  <2>5. posted' \in 1 .. Len(Posts) /\ posted' \in 0 .. Len(Posts) /\ posted <= posted'
    BY <1>1, <2>2
  <2>6. p.size \in Nat /\ p.packed \in Nat /\ (p.size > 0 => p.packed > 0)
    BY <2>5, PostSizes
  <2> HIDE DEF s, p
  <2>7. /\ f.type = "post" /\ PostOf(f, p, s.alg) /\ f.iv = told /\ f.ct.iv = s.sendIV
        /\ IsSession(peer') /\ peer'.alg = s.alg
        /\ peer'.sendIV = RollIV(IVRollPolicy(s.alg), f.ct.iv, f.ct)
    BY <2>3, <2>4, <2>6, EncodesPost
  <2> HIDE DEF f
  <2>8. session.alg = peer.alg
    BY <1>1, <2>2 DEF HandshakeInv
  <2>9. Link(At(posted, peer.sendIV), f, At(posted', peer'.sendIV), session.alg)
    <3>1. /\ At(posted, peer.sendIV).no = posted /\ At(posted, peer.sendIV).iv = peer.sendIV
          /\ At(posted', peer'.sendIV).no = posted'
      BY DEF At
    <3>2. told # NoIV => session.alg # "none"
      BY <2>8 DEF HasIV
    <3> QED BY <2>2, <2>4, <2>7, <2>8, <3>1, <3>2 DEF Link, p
  <2>10. DeliverInv'
    BY <1>1, <2>2, <2>3, <2>5, <2>9, DeliverIn
  <2>11. HandshakeInv'
    BY <1>1, <1>2, <2>2, <2>3, <2>4, <2>7, OpenStep
  <2> QED BY <2>10, <2>11
<1>6. CASE GatewayPing
  <2>1. PICK f \in {PingMessage, PongMessage} : in' = Append(in, f)
    BY <1>6 DEF GatewayPing
  <2>2. UNCHANGED <<dial, session, reader, app, out, tcp, peer, posted>> /\ dial = "open"
    BY <1>6 DEF GatewayPing, Confirmed
  <2>3. f.type # "post"
    BY DEF PingMessage, PongMessage
  <2>4. DeliverInv'
    BY <1>1, <1>3, <2>1, <2>2, <2>3, DeliverIn
  <2>5. HandshakeInv'
    BY <1>1, <1>2, <2>1, <2>2, OpenStep
  <2> QED BY <2>4, <2>5
<1>7. CASE GatewayLeaves
  <2>1. /\ UNCHANGED <<dial, session, reader, app, peer, posted>>
        /\ tcp' = "dropped" /\ out' = <<>>
    BY <1>7 DEF GatewayLeaves
  <2>2. in' = in \/ \E f \in {KickoffMessage, Garbage} : in' = Append(in, f)
    <3>1. PICK last \in {<<>>, <<KickoffMessage>>, <<Garbage>>} : in' = in \o last
      BY <1>7 DEF GatewayLeaves
    <3>2. /\ in \o <<>> = in
          /\ in \o <<KickoffMessage>> = Append(in, KickoffMessage)
          /\ in \o <<Garbage>> = Append(in, Garbage)
      BY <1>1, SeqFacts
    <3> QED BY <3>1, <3>2
  <2>3. \A f \in {KickoffMessage, Garbage} : f.type \notin {"post", "handshake"}
    BY DEF KickoffMessage, Garbage
  <2>4. DeliverInv'
    <3>1. CASE in' = in
      BY <1>1, <2>1, <3>1, DeliverKept DEF Receiving
    <3>2. CASE \E f \in {KickoffMessage, Garbage} : in' = Append(in, f)
      BY <1>1, <1>3, <2>1, <2>3, <3>2, DeliverIn
    <3> QED BY <2>2, <3>1, <3>2
  <2>5. IsSeq(in)'
    BY <1>1, <1>2, <2>2
  <2>6. CASE dial = "open"
    BY <1>1, <2>1, <2>4, <2>5, <2>6, OpenStep
  <2>7. CASE dial # "open"
    <3>1. IsSeq(out)' /\ Len(out') = 0
      BY <1>1, <2>1, SeqFacts
    <3>2. ASSUME dial = "sent"
          PROVE  \A i \in 1 .. Len(in') :
                   \/ in'[i].type \notin {"post", "handshake"}
                   \/ i = 1 /\ in'[i].type = "handshake" /\ Answers(in'[i])
      <4>1. /\ Len(in) \in Nat
            /\ \A i \in 1 .. Len(in) :
                 \/ in[i].type \notin {"post", "handshake"}
                 \/ i = 1 /\ in[i].type = "handshake" /\ Answers(in[i])
        BY <1>1, <3>2, SeqFacts DEF HandshakeInv
      <4>2. CASE in' = in
        BY <4>1, <4>2
      <4>3. CASE \E f \in {KickoffMessage, Garbage} : in' = Append(in, f)
        <5>1. PICK f \in {KickoffMessage, Garbage} : in' = Append(in, f)
          BY <4>3
        <5>2. /\ Len(in') = Len(in) + 1 /\ in'[Len(in) + 1] = f
              /\ \A i \in 1 .. Len(in) : in'[i] = in[i]
          BY <1>1, <5>1, SeqFacts
        <5> QED BY <2>3, <4>1, <5>1, <5>2
      <4> QED BY <2>2, <4>2, <4>3
    <3>3. \A rsp : Answers(rsp)' <=> Answers(rsp)
      BY <2>1 DEF Answers
    <3> QED BY <1>1, <2>1, <2>4, <2>5, <2>7, <3>1, <3>2, <3>3 DEF HandshakeInv
  <2> QED BY <2>6, <2>7
<1> QED BY <1>4, <1>5, <1>6, <1>7

LEMMA DeliveryInvariant == Spec => []GInv
<1>1. ASSUME Init
      PROVE  DeliverInv /\ HandshakeInv
  <2>1. /\ dial = "start" /\ out = <<>> /\ in = <<>> /\ app = <<>> /\ posted = 0
        /\ reader = "read" /\ peer = NoSession
    BY <1>1 DEF Init
  <2>2. IsSeq(<<>>)
    <3>1. <<>> \in Seq({})
      OBVIOUS
    <3> QED BY <3>1 DEF IsSeq
  <2>3. IsSession(peer) /\ peer.alg \in CryptoAlgorithm
    BY <2>1 DEF NoSession, IsSession, CryptoAlgorithm
  <2>4. GivenUpTo(0) /\ ~Receiving /\ 0 \in 0 .. posted /\ posted \in 0 .. Len(Posts)
    BY <2>1, RankFacts, GatewayAssumption DEF GivenUpTo, Receiving
  <2>5. DeliverInv
    BY <2>1, <2>2, <2>4 DEF DeliverInv
  <2>6. HandshakeInv
    BY <2>1, <2>2, <2>3 DEF HandshakeInv
  <2> QED BY <2>5, <2>6
<1>2. ASSUME GInv, [Next]_vars
      PROVE  DeliverInv' /\ HandshakeInv'
  <2>1. CASE UNCHANGED vars
    <3>1. DeliverInv'
      BY <1>2, <2>1, DeliverKept DEF GInv, vars, Receiving
    <3>2. HandshakeInv'
      BY <1>2, <2>1 DEF GInv, HandshakeInv, vars, Answers
    <3> QED BY <3>1, <3>2
  <2>2. CASE ClientStep
    BY <1>2, <2>2, DialSteps, ResponseDelivers, ClientKeeps, ReadStep DEF ClientStep
  <2>3. CASE CloseBegin
    BY <1>2, <2>3, ClientKeeps
  <2>4. CASE GatewayStep
    BY <1>2, <2>4, AnswerStep, GatewayDelivers DEF GatewayStep
  <2> QED BY <1>2, <2>1, <2>2, <2>3, <2>4 DEF Next
<1>3. ASSUME IInv', DeliverInv', HandshakeInv'
      PROVE  GInv'
  BY <1>3 DEF GInv
<1>4. ASSUME IInv, DeliverInv, HandshakeInv
      PROVE  GInv
  BY <1>4 DEF GInv
<1> QED BY <1>1, <1>2, <1>3, <1>4, GatewayInvariant, PTL DEF Spec

\* What the application is given is what the gateway posted: the non-empty
\* payloads, whole and in order, whatever cipher and compression were agreed on,
\* with or without a token, and wherever the gateway leaves an IV out or sets a new
\* one; only an empty payload under a CBC cipher ends the receive loop.
THEOREM DeliveredWhole == Spec => []DeliveredAsPosted
<1>1. ASSUME GInv
      PROVE  DeliveredAsPosted
  <2>1. DeliverInv /\ posted \in Nat
    BY <1>1, GatewayAssumption DEF GInv, DeliverInv
  <2>2. PICK n \in 0 .. posted : GivenUpTo(n)
    BY <2>1 DEF DeliverInv
  <2>3. n \in Nat /\ n <= posted
    BY <2>1
  <2>4. Len(app) = Rank(n) /\ Rank(n) \in Nat
    BY <2>2, <2>3, RankFacts DEF GivenUpTo
  <2>5. Len(app) <= Rank(posted)
    BY <2>1, <2>3, <2>4, RankMonotone
  <2>6. ASSUME NEW i \in 1 .. posted, Posts[i].size > 0, Rank(i) <= Len(app)
        PROVE  app[Rank(i)] = Whole(Posts[i])
    <3>1. i <= n
      <4>1. i \in Nat /\ Rank(i) \in Nat
        BY <2>1, RankFacts
      <4>2. n < i => Rank(n) < Rank(i)
        BY <2>3, <2>6, <4>1, RankMonotone
      <4> QED BY <2>3, <2>4, <2>6, <4>1, <4>2
    <3>2. i \in 1 .. n
      BY <2>1, <2>3, <3>1
    <3> QED BY <2>2, <2>6, <3>2 DEF GivenUpTo
  <2> QED BY <2>1, <2>5, <2>6 DEF DeliveredAsPosted, DeliverInv
<1> QED BY <1>1, DeliveryInvariant, PTL
=============================================================================
