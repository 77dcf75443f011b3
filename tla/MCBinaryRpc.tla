---------------------------- MODULE MCBinaryRpc ----------------------------
(* Two methods: one with up to two arguments and the destructive one.      *)
(* Every argument part of up to three bytes 0, 1, 2 and of up to five      *)
(* bytes 1, 2 is sent, short payloads with every flag, and every           *)
(* combination of header fields.                                           *)
EXTENDS BinaryRpc, TLC

MCRegistry == 1 :> [class |-> "SAFE", min |-> 0, max |-> 2]
           @@ 2 :> [class |-> "DESTRUCTIVE", min |-> 0, max |-> 0]

Frame(version, type, flags, reserved, id, payload) ==
    [version |-> version, type |-> type, flags |-> flags,
     reserved |-> reserved, id |-> id, payload |-> payload]

ShortPayloads == {<<>>, <<1>>, <<1, 0>>, <<1, 0, 0>>, <<1, 0, 0, 1>>, <<0, 0, 0, 0>>,
                  <<1, 1, 0, 0>>, <<2, 0, 0, 0>>}
ArgumentPayloads ==
    {<<1, 0, argc, 0>> \o tail :
        argc \in 0 .. 3, tail \in BoundedSeq(0 .. 2, 3) \cup BoundedSeq({1, 2}, 5)}

MCRequests ==
    {Frame(1, "RPC_REQUEST", 0, 0, 7, p) : p \in ArgumentPayloads}
      \cup {Frame(1, "RPC_REQUEST", flags, 0, 7, p) :
              flags \in 0 .. 2, p \in ShortPayloads}
      \cup {Frame(version, type, flags, reserved, id, p) :
              version \in {1, 2}, type \in {"HELLO_REQUEST", "OTHER"},
              flags \in {0, 1}, reserved \in {0, 1}, id \in {0, 7},
              p \in {<<>>, <<1, 0>>}}
=============================================================================
