--------------------------- MODULE MCAssetTransfer ---------------------------
(* A small instance of AssetTransfer: payloads of four bytes of two values, one *)
(* of which looks like erased flash, and a checksum with collisions.            *)
EXTENDS AssetTransfer

MCByte == {"a", "ff"}
MCChunk == {<<"a">>, <<"ff", "a", "a">>, <<"a", "ff", "ff">>}
MCCrc == [p \in [1..4 -> MCByte] |-> IF p[1] = p[4] THEN 0 ELSE 1]
MCValid == {p \in [1..4 -> MCByte] : p[1] = "a"}
==============================================================================
