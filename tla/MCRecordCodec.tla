--------------------------- MODULE MCRecordCodec ---------------------------
(* An instance of RecordCodec for TLC.                                     *)
EXTENDS RecordCodec, Bitwise

(* The IV of record.rs's test (nonce_and_aad_framing_are_exact).           *)
TestIv == <<63, 59, 200, 207, 222, 73, 10, 36, 201, 240, 10, 144>>

(* Both ends of what is sealed, and the shortest payload.                  *)
EdgeLengths == {0, 1, 16384}

(* Sequence numbers where a byte carries, up to the last one before        *)
(* HARD_RECORD_LIMIT.                                                      *)
EdgeSequences == {0, 65536, 4194303}

(* The exclusive or of the nonce is that of the community modules.         *)
ASSUME XorAssumption == \A a, b \in 0..255 : ByteXor(a, b) = a ^^ b
=============================================================================
