CONSTANTS
  w1 = w1
  w2 = w2
  Writer = {w1, w2}
  Text <- MCText
  Posts <- MCPosts
  Offers <- MCOffers
  CryptoFlag <- MCCryptoFlag
  CompressionFlag = {"zstd", "lz4"}
  SendBuffer = 2
SPECIFICATION Spec
INVARIANTS PostsInChain DeliveredAsPosted KickoffIsLast
 
CHECK_DEADLOCK FALSE
