--------------------------- MODULE MCBinaryFrame ---------------------------
(* An instance of BinaryFrame with three-bit bytes: an empty frame, a      *)
(* frame with a payload and one whose payload contains both magic bytes.   *)
EXTENDS BinaryFrame, Bitwise

MCBitXor(a, b) == a ^^ b

MCFrames == {[fields |-> <<1>>, payload |-> <<>>],
             [fields |-> <<1>>, payload |-> <<3, 0>>],
             [fields |-> <<4>>, payload |-> <<5, 2, 0>>]}
MCNoise == {0, 2, 4, 5}

=============================================================================
