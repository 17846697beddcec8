----------------------------- MODULE MCGateway -----------------------------
(* The instance of Gateway that TLC checks.                                *)
EXTENDS Gateway

CONSTANTS w1, w2

\* A short payload, and one that compression makes smaller than the limit.
MCText ==
  [w \in Writer |-> IF w = w1 THEN [id |-> "a", size |-> 5, packed |-> 9]
                   ELSE [id |-> "b", size |-> 1500, packed |-> 700]]

\* Payloads that need padding, that are empty, and that are compressed.
MCPosts == <<[id |-> "x", size |-> 1500, packed |-> 700],
             [id |-> "y", size |-> 0, packed |-> 4],
             [id |-> "z", size |-> 20, packed |-> 25]>>

Offer(alg, compressor, maxSize, ownIV, token, key) ==
  [alg |-> alg, compressor |-> compressor, maxSize |-> maxSize, ownIV |-> ownIV,
   token |-> token, key |-> key]

\* Keys with their length in front, raw ones, and a raw one whose first byte
\* looks like a length.
MCOffers == {Offer("none", "zstd", 1000, FALSE, FALSE, Raw(31)),
             Offer("xxtea", "none", 0, FALSE, TRUE, Wire(7)),
             Offer("aes256cbc", "zstd", 0, TRUE, TRUE, Raw(7)),
             Offer("aes256gcm", "none", 0, TRUE, TRUE, Wire(31)),
             Offer("aes256gcm", "lz4", 0, FALSE, FALSE, Wire(7)),
             Offer("aes256gcm", "none", 0, FALSE, FALSE, Raw(31)),
             Offer("aes128gcm", "none", 0, FALSE, FALSE, Wire(7)),
             Offer("chacha20", "none", 0, FALSE, FALSE, Wire(7))}

\* One name is unknown, and one algorithm of the gateway is not asked for.
MCCryptoFlag == {"none", "xxtea", "aes256cbc", "aes256gcm", "chacha20", "rc4"}
=============================================================================
