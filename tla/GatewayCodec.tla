---------------------------- MODULE GatewayCodec ----------------------------
(***************************************************************************)
(* The pure part of the atgateway v2 protocol (conn/atgateway): the        *)
(* algorithms' parameters, IV rolling, padding, encryption, compression    *)
(* and the messages of atframework/gateway/v2/exported.go.                 *)
(*                                                                         *)
(* A payload is a record [id, size, packed]: packed is the size its        *)
(* compressed form has.  A ciphertext keeps the payload and the IV it was  *)
(* made with; an IV is where it comes from and how often it was            *)
(* incremented since.  Sizes are the code's, in bytes.                     *)
(***************************************************************************)
EXTENDS Naturals

GCM == {"aes128gcm", "aes192gcm", "aes256gcm"}
CBC == {"aes128cbc", "aes192cbc", "aes256cbc"}
Poly1305 == {"chacha20poly1305", "xchacha20poly1305"}
CryptoAlgorithm == GCM \cup CBC \cup Poly1305 \cup {"none", "xxtea", "chacha20"}

\* GetCryptoAlgorithmParams: what the sizes of the messages depend on.
IsAEAD(alg) == alg \in GCM \cup Poly1305
BlockSize(alg) == IF alg \in CBC THEN 16 ELSE IF alg = "xxtea" THEN 8 ELSE 1
TagSize(alg) == IF IsAEAD(alg) THEN 16 ELSE 0
HasIV(alg) == alg \notin {"none", "xxtea"}

\* NewCipherSuite refuses the stream cipher.
CipherSupported(alg) == alg # "chacha20"

Compression == {"none", "zstd", "lz4", "snappy", "zlib"}
CompressorSupported(c) == c \in Compression

\* parseList, of the names in a flag: the known ones, or the fallback.
ParseList(items, known, fallback) ==
  IF items \cap known = {} THEN fallback ELSE items \cap known

\* ParseGatewayConfig.
ParseGatewayConfig(crypto, compression) ==
  [tokens |-> {"token"}, threshold |-> 1024,
   algorithms |-> ParseList(crypto, CryptoAlgorithm, {"none"}),
   compressions |-> ParseList(compression, Compression, {"none"})]
-----------------------------------------------------------------------------
(* Public keys, for one curve whose points have PointSize bytes.  On the   *)
(* wire a point follows its length; raw points are accepted as well.  A    *)
(* key is its first byte and its size.                                     *)

PointSize == 32   \* X25519
Wire(point) == [first |-> PointSize, size |-> PointSize + 1, point |-> point]
Raw(point) == [first |-> point, size |-> PointSize, point |-> point]

\* decodeECDHPublicKeyFromWire goes by the first byte alone.
Prefixed(key) == key.first > 0 /\ key.first + 1 = key.size

\* ComputeECDHSharedSecret: NewPublicKey refuses a point of another size.
SharedSecretWith(key) == (IF Prefixed(key) THEN key.size - 1 ELSE key.size) = PointSize

\* GenerateAccessData: one signature for each token, over the public key too.
AccessData(tokens, pub) == {[token |-> t, signed |-> pub] : t \in tokens}
-----------------------------------------------------------------------------
(* IVs.                                                                    *)

NoIV == [from |-> <<>>, step |-> 0]
FreshIV(origin) == [from |-> <<origin>>, step |-> 0]

IVRollPolicy(alg) ==
  IF IsAEAD(alg) THEN "inc1" ELSE IF alg \in CBC THEN "chain" ELSE "none"

\* The last block of a ciphertext.
Tail16(ct) == [from |-> <<ct.side, ct.id>>, step |-> 0]

\* RollIV: an empty ciphertext is shorter than the IV and leaves it alone.
RollIV(policy, iv, ct) ==
  IF policy = "inc1" THEN [iv EXCEPT !.step = @ + 1]
  ELSE IF policy = "chain" /\ ct.size > 0 THEN Tail16(ct)
  ELSE iv
-----------------------------------------------------------------------------
(* Ciphers and compressors.                                                *)

\* blockAlignPad: no padding when the data is aligned already.
BlockAlignPad(size, block) == ((size + block - 1) \div block) * block

CipherSize(alg, size) ==
  IF alg = "xxtea" /\ size = 0 THEN BlockSize(alg)
  ELSE BlockAlignPad(size, BlockSize(alg)) + TagSize(alg)

\* A block cipher refuses an empty ciphertext, an AEAD a wrong IV; a wrong
\* IV spoils the first block of a chain.
Decrypts(alg, ct, iv) ==
  IF IsAEAD(alg) THEN iv = ct.iv ELSE ct.size > 0

Intact(alg, ct, iv) == alg = "xxtea" \/ iv = ct.iv

PlainSize(alg, size) == size - TagSize(alg)

\* Compression is used when it makes a payload above the threshold smaller.
Compresses(s, p) ==
  /\ s.compressor # "none"
  /\ s.threshold > 0 /\ p.size >= s.threshold
  /\ p.packed < p.size

\* Decompress fails unless it is given the compressed bytes and no more.
Decompresses(size, p) == size = p.packed
-----------------------------------------------------------------------------
(* Messages.  Their sequence numbers, which no code reads, are left out.   *)

HandshakeMessage(config, pub) ==
  [type |-> "handshake", step |-> "req", pub |-> pub,
   access |-> AccessData(config.tokens, pub), algs |-> config.algorithms,
   compressions |-> config.compressions]

RspMessage(alg, compressor, maxSize, pub, initIV, token) ==
  [type |-> "handshake", step |-> "rsp", alg |-> alg, compressor |-> compressor,
   maxSize |-> maxSize, pub |-> pub, initIV |-> initIV, token |-> token]

PostMessage(crypto, iv, packed, length, ct) ==
  [type |-> "post", crypto |-> crypto, iv |-> iv, packed |-> packed,
   length |-> length, ct |-> ct]

PingMessage == [type |-> "ping"]
PongMessage == [type |-> "pong"]
ConfirmMessage == [type |-> "confirm"]
KickoffMessage == [type |-> "kickoff"]

\* What ParseClientMessage refuses, and the frames whose hash is wrong.
Garbage == [type |-> "garbage"]
Parses(frame) == frame.type # "garbage"
-----------------------------------------------------------------------------
(* EncodePost and decodePostPayload of a session s = [alg, compressor,     *)
(* threshold, maxSize, sendIV, recvIV].                                    *)

Encodes(s, p) == s.maxSize = 0 \/ p.size <= s.maxSize

DataSize(s, p) == IF Compresses(s, p) THEN p.packed ELSE p.size

Ciphertext(s, side, p) ==
  [side |-> side, id |-> p.id, payload |-> p, iv |-> s.sendIV,
   size |-> CipherSize(s.alg, DataSize(s, p))]

Post(s, side, p, iv) ==
  PostMessage(s.alg # "none", iv,
              IF Compresses(s, p) THEN p.packed ELSE 0,
              p.size, Ciphertext(s, side, p))

AfterEncode(s, side, p) ==
  [s EXCEPT !.sendIV = RollIV(IVRollPolicy(s.alg), @, Ciphertext(s, side, p))]

\* The IV of the message, else the one the session keeps.
DecryptIV(s, post) == IF post.iv = NoIV THEN s.recvIV ELSE post.iv

TrimToPackedNever(size, post) == size   \* plausible bug: the padding is passed on

\* Padding is cut off before decompression.
TrimToPacked(size, post) ==
  IF post.packed > 0 /\ size > post.packed THEN post.packed ELSE size

Decrypted(s, post) ==
  IF post.crypto THEN PlainSize(s.alg, post.ct.size) ELSE post.ct.size

Decodes(s, post) ==
  /\ post.crypto => Decrypts(s.alg, post.ct, DecryptIV(s, post))
  /\ post.packed > 0 =>
       Decompresses(TrimToPacked(Decrypted(s, post), post), post.ct.payload)

\* What is decompressed or longer than the payload is cut to its length.
DecodedSize(s, post) ==
  LET size == IF post.packed > 0 THEN post.ct.payload.size ELSE Decrypted(s, post)
  IN  IF size > post.length THEN post.length ELSE size

DecodedIntact(s, post) ==
  post.crypto => Intact(s.alg, post.ct, DecryptIV(s, post))

\* An explicit IV replaces the kept one, which is rolled in any case.
AfterDecode(s, post) ==
  IF post.crypto
  THEN [s EXCEPT !.recvIV = RollIV(IVRollPolicy(s.alg), DecryptIV(s, post), post.ct)]
  ELSE s

=============================================================================
