------------------------- MODULE RecordCodecProofs -------------------------
(***************************************************************************)
(* Theorems about RecordCodec, for every IV, all lengths, all sequence     *)
(* numbers below HARD_RECORD_LIMIT, and any number and mixture of faults:  *)
(* what opens is what was sealed, what parses has one encoding, and no     *)
(* nonce repeats.                                                          *)
(***************************************************************************)
EXTENDS RecordCodec, TLAPS

(* A byte, and half of a sequence number.                                  *)
Byte == 0..255
Half == {n \in Nat : n < 4294967296}

-----------------------------------------------------------------------------
(* Bytes and numbers.                                                      *)

(* A u16 is read as it was written (to_be_bytes, from_be_bytes), ...       *)
LEMMA TwoBytes ==
  ASSUME NEW n \in Nat, n < 65536
  PROVE  /\ Bytes2(n)[1] \in Byte /\ Bytes2(n)[2] \in Byte
         /\ Number2(Bytes2(n), 1) = n
  BY SMT DEF Bytes2, Number2, Byte

(* ... a u32 also, ...                                                     *)
LEMMA FourBytes ==
  ASSUME NEW n \in Half
  PROVE  /\ \A i \in 1..4 : Bytes4(n)[i] \in Byte
         /\ Number4(Bytes4(n), 1) = n
<1> DEFINE p == n \div 256
           q == n \div 65536
           r == n \div 16777216
<1>1. n \in Nat /\ n < 4294967296
  BY SMT DEF Half
<1>2. /\ p \in Nat /\ q \in Nat /\ r \in Nat
      /\ n = 256 * p + (n % 256) /\ p = 256 * q + (p % 256) /\ q = 256 * r + (q % 256)
      /\ r % 256 = r
      /\ n % 256 \in Byte /\ p % 256 \in Byte /\ q % 256 \in Byte /\ r % 256 \in Byte
  BY <1>1, SMT DEF Byte
<1>3. /\ Bytes4(n)[1] = r % 256 /\ Bytes4(n)[2] = q % 256
      /\ Bytes4(n)[3] = p % 256 /\ Bytes4(n)[4] = n % 256
  BY <1>1, SMT DEF Bytes4
<1> HIDE DEF p, q, r
<1>4. \A i \in 1..4 : Bytes4(n)[i] \in Byte
  BY <1>2, <1>3, SMT
<1>5. Number4(Bytes4(n), 1) = n
  BY <1>1, <1>2, <1>3, SMT DEF Byte, Number4
<1> QED
  BY <1>4, <1>5

(* ... and whatever four bytes are read, they are the ones the number is   *)
(* written with, ...                                                       *)
LEMMA BytesRead ==
  ASSUME NEW b1 \in Byte, NEW b2 \in Byte, NEW b3 \in Byte, NEW b4 \in Byte
  PROVE  /\ Number4(<<b1, b2, b3, b4>>, 1) \in Half
         /\ Bytes4(Number4(<<b1, b2, b3, b4>>, 1)) = <<b1, b2, b3, b4>>
<1> DEFINE n == Number4(<<b1, b2, b3, b4>>, 1)
<1>1. n = 16777216 * b1 + 65536 * b2 + 256 * b3 + b4
  BY SMT DEF Number4
<1> HIDE DEF n
<1>2. n \in Half
  BY <1>1, SMT DEF Byte, Half
<1>3. /\ n \div 16777216 = b1 /\ n \div 65536 = 256 * b1 + b2
      /\ n \div 256 = 65536 * b1 + 256 * b2 + b3 /\ n % 256 = b4
  BY <1>1, SMT DEF Byte
<1>4. b1 % 256 = b1 /\ (256 * b1 + b2) % 256 = b2 /\ (65536 * b1 + 256 * b2 + b3) % 256 = b3
  BY SMT DEF Byte
<1>5. Bytes4(n) = <<b1, b2, b3, b4>>
  BY <1>3, <1>4, SMT DEF Bytes4
<1> QED
  BY <1>2, <1>5 DEF n

(* ... as two are.                                                         *)
LEMMA TwoBytesRead ==
  ASSUME NEW b1 \in Byte, NEW b2 \in Byte, NEW n, n = Number2(<<b1, b2>>, 1)
  PROVE  Bytes2(n) = <<b1, b2>>
<1>1. n = 256 * b1 + b2
  BY SMT DEF Number2
<1>2. (n \div 256) % 256 = b1 /\ n % 256 = b2
  BY <1>1, SMT DEF Byte
<1> QED
  BY <1>2, SMT DEF Bytes2

-----------------------------------------------------------------------------
(* The exclusive or.                                                       *)

(* A byte is the sum of its bits, ...                                      *)
LEMMA ByteBits ==
  ASSUME NEW a \in Byte
  PROVE  a = (a % 2) + 2 * ((a \div 2) % 2) + 4 * ((a \div 4) % 2)
               + 8 * ((a \div 8) % 2) + 16 * ((a \div 16) % 2)
               + 32 * ((a \div 32) % 2) + 64 * ((a \div 64) % 2)
               + 128 * ((a \div 128) % 2)
  BY SMT DEF Byte

(* ... and a sum of bits determines them.                                  *)
LEMMA BitsOfSum ==
  ASSUME NEW p \in [1..8 -> 0..1], NEW q \in [1..8 -> 0..1],
         p[1] + 2 * p[2] + 4 * p[3] + 8 * p[4] + 16 * p[5] + 32 * p[6] + 64 * p[7] + 128 * p[8]
           = q[1] + 2 * q[2] + 4 * q[3] + 8 * q[4] + 16 * q[5] + 32 * q[6] + 64 * q[7] + 128 * q[8]
  PROVE  \A i \in 1..8 : p[i] = q[i]
  BY SMT

(* Where two bytes differ, bit by bit.                                     *)
Power == <<1, 2, 4, 8, 16, 32, 64, 128>>
Bit(x, i) == (x \div Power[i]) % 2
Difference(x, y) == [i \in 1..8 |-> IF Bit(x, i) = Bit(y, i) THEN 0 ELSE 1]

(* ByteXor is the sum of the bits in which two bytes differ.               *)
LEMMA XorSum ==
  ASSUME NEW x \in Byte, NEW y \in Byte, NEW d, d = Difference(x, y)
  PROVE  /\ d \in [1..8 -> 0..1]
         /\ ByteXor(x, y) = d[1] + 2 * d[2] + 4 * d[3] + 8 * d[4]
                              + 16 * d[5] + 32 * d[6] + 64 * d[7] + 128 * d[8]
<1>1. d \in [1..8 -> 0..1]
  BY SMT DEF Difference
<1>2. /\ Bit(x, 1) = (x \div 1) % 2 /\ Bit(x, 2) = (x \div 2) % 2
      /\ Bit(x, 3) = (x \div 4) % 2 /\ Bit(x, 4) = (x \div 8) % 2
      /\ Bit(x, 5) = (x \div 16) % 2 /\ Bit(x, 6) = (x \div 32) % 2
      /\ Bit(x, 7) = (x \div 64) % 2 /\ Bit(x, 8) = (x \div 128) % 2
      /\ Bit(y, 1) = (y \div 1) % 2 /\ Bit(y, 2) = (y \div 2) % 2
      /\ Bit(y, 3) = (y \div 4) % 2 /\ Bit(y, 4) = (y \div 8) % 2
      /\ Bit(y, 5) = (y \div 16) % 2 /\ Bit(y, 6) = (y \div 32) % 2
      /\ Bit(y, 7) = (y \div 64) % 2 /\ Bit(y, 8) = (y \div 128) % 2
  BY SMT DEF Bit, Power
<1>3. \A i \in 1..8 : d[i] = IF Bit(x, i) = Bit(y, i) THEN 0 ELSE 1
  BY SMT DEF Difference
<1>4. ByteXor(x, y) = d[1] + 2 * d[2] + 4 * d[3] + 8 * d[4]
                              + 16 * d[5] + 32 * d[6] + 64 * d[7] + 128 * d[8]
  BY <1>2, <1>3, SMT DEF ByteXor
<1> QED
  BY <1>1, <1>4

(* Two bytes that differ from a third in the same bits are one.            *)
LEMMA XorInjective ==
  ASSUME NEW a \in Byte, NEW b \in Byte, NEW c \in Byte, ByteXor(a, b) = ByteXor(a, c)
  PROVE  b = c
<1>1. \A i \in 1..8 : Difference(a, b)[i] = Difference(a, c)[i]
  <2> DEFINE p == Difference(a, b)
             q == Difference(a, c)
  <2>1. /\ p \in [1..8 -> 0..1]
        /\ ByteXor(a, b) = p[1] + 2 * p[2] + 4 * p[3] + 8 * p[4]
                              + 16 * p[5] + 32 * p[6] + 64 * p[7] + 128 * p[8]
    BY XorSum, Zenon
  <2>2. /\ q \in [1..8 -> 0..1]
        /\ ByteXor(a, c) = q[1] + 2 * q[2] + 4 * q[3] + 8 * q[4]
                              + 16 * q[5] + 32 * q[6] + 64 * q[7] + 128 * q[8]
    BY XorSum, Zenon
  <2> HIDE DEF p, q
  <2>3. p[1] + 2 * p[2] + 4 * p[3] + 8 * p[4] + 16 * p[5] + 32 * p[6] + 64 * p[7] + 128 * p[8]
           = q[1] + 2 * q[2] + 4 * q[3] + 8 * q[4] + 16 * q[5] + 32 * q[6] + 64 * q[7] + 128 * q[8]
    BY <2>1, <2>2, Zenon
  <2>4. \A i \in 1..8 : p[i] = q[i]
    BY <2>1, <2>2, <2>3, BitsOfSum, Zenon
  <2> QED
    BY <2>4, Zenon DEF p, q
<1>2. \A i \in 1..8 : Bit(b, i) = Bit(c, i)
  <2> SUFFICES ASSUME NEW i \in 1..8 PROVE Bit(b, i) = Bit(c, i)
    OBVIOUS
  <2>1. \A x \in Byte : Bit(x, i) \in 0..1
    BY SMT DEF Bit, Power, Byte
  <2>2. (IF Bit(a, i) = Bit(b, i) THEN 0 ELSE 1) = (IF Bit(a, i) = Bit(c, i) THEN 0 ELSE 1)
    BY <1>1, Zenon DEF Difference
  <2> QED
    BY <2>1, <2>2, SMT
<1>3. \A x \in Byte : x = Bit(x, 1) + 2 * Bit(x, 2) + 4 * Bit(x, 3) + 8 * Bit(x, 4)
               + 16 * Bit(x, 5) + 32 * Bit(x, 6) + 64 * Bit(x, 7) + 128 * Bit(x, 8)
  <2>1. \A x \in Byte : x \div 1 = x
    BY SMT DEF Byte
  <2> QED
    BY <2>1, ByteBits, SMT DEF Bit, Power
<1>4. /\ Bit(b, 1) = Bit(c, 1) /\ Bit(b, 2) = Bit(c, 2)
      /\ Bit(b, 3) = Bit(c, 3) /\ Bit(b, 4) = Bit(c, 4)
      /\ Bit(b, 5) = Bit(c, 5) /\ Bit(b, 6) = Bit(c, 6)
      /\ Bit(b, 7) = Bit(c, 7) /\ Bit(b, 8) = Bit(c, 8)
  BY <1>2, SMT
<1> QED
  BY <1>3, <1>4, Zenon
(* So two numbers with the same bytes are one.                             *)
LEMMA BytesInjective ==
  ASSUME NEW m \in Half, NEW n \in Half, \A i \in 1..4 : Bytes4(m)[i] = Bytes4(n)[i]
  PROVE  m = n
<1>1. Number4(Bytes4(m), 1) = Number4(Bytes4(n), 1)
  BY SMT DEF Number4
<1> QED
  BY <1>1, FourBytes, Zenon

-----------------------------------------------------------------------------
(* The nonce.                                                              *)

(* The nonce of CryptoContext determines the sequence number, all of its 64*)
(* bits, whatever the IV of the key.                                       *)
THEOREM NonceInjective ==
  ASSUME NEW a1 \in Half, NEW a2 \in Half, NEW b1 \in Half, NEW b2 \in Half,
         Nonce(<<a1, a2>>) = Nonce(<<b1, b2>>)
  PROVE  a1 = b1 /\ a2 = b2
<1>1. ASSUME NEW x1, NEW x2, NEW i \in 1..4
      PROVE  /\ Nonce(<<x1, x2>>)[i + 4] = ByteXor(Iv[i + 4], Bytes4(x1)[i])
             /\ Nonce(<<x1, x2>>)[i + 8] = ByteXor(Iv[i + 8], Bytes4(x2)[i])
  BY SMT DEF Nonce
<1>2. \A i \in 1..4 : Bytes4(a1)[i] \in Byte /\ Bytes4(b1)[i] \in Byte
                      /\ Bytes4(a2)[i] \in Byte /\ Bytes4(b2)[i] \in Byte
  BY FourBytes, Zenon
<1>3. \A i \in 1..4 : Iv[i + 4] \in Byte /\ Iv[i + 8] \in Byte
  BY IvAssumption, SMT DEF Byte
<1>4. \A i \in 1..4 : Bytes4(a1)[i] = Bytes4(b1)[i] /\ Bytes4(a2)[i] = Bytes4(b2)[i]
  <2> SUFFICES ASSUME NEW i \in 1..4
               PROVE  Bytes4(a1)[i] = Bytes4(b1)[i] /\ Bytes4(a2)[i] = Bytes4(b2)[i]
    OBVIOUS
  <2>1. /\ ByteXor(Iv[i + 4], Bytes4(a1)[i]) = ByteXor(Iv[i + 4], Bytes4(b1)[i])
        /\ ByteXor(Iv[i + 8], Bytes4(a2)[i]) = ByteXor(Iv[i + 8], Bytes4(b2)[i])
    <3>1. /\ Nonce(<<a1, a2>>)[i + 4] = ByteXor(Iv[i + 4], Bytes4(a1)[i])
          /\ Nonce(<<a1, a2>>)[i + 8] = ByteXor(Iv[i + 8], Bytes4(a2)[i])
      BY <1>1, SMT
    <3>2. /\ Nonce(<<b1, b2>>)[i + 4] = ByteXor(Iv[i + 4], Bytes4(b1)[i])
          /\ Nonce(<<b1, b2>>)[i + 8] = ByteXor(Iv[i + 8], Bytes4(b2)[i])
      BY <1>1, SMT
    <3>3. /\ Nonce(<<a1, a2>>)[i + 4] = Nonce(<<b1, b2>>)[i + 4]
          /\ Nonce(<<a1, a2>>)[i + 8] = Nonce(<<b1, b2>>)[i + 8]
      OBVIOUS
    <3> QED
      BY <3>1, <3>2, <3>3, SMT
  <2> QED
    BY <1>2, <1>3, <2>1, XorInjective, Zenon
<1> QED
  BY <1>4, BytesInjective, Zenon

-----------------------------------------------------------------------------
(* The header.                                                             *)

(* RecordType as u8: four types, ...                                       *)
LEMMA TypeFacts ==
  /\ Types = {"data", "commit", "refresh", "close"}
  /\ \A t \in Types : TypeByte[t] \in Byte
  BY SMT DEF Types, TypeByte, Byte

(* ... each with a byte of its own; ...                                    *)
LEMMA TypeInjective == \A s, t \in Types : TypeByte[s] = TypeByte[t] => s = t
  BY SMT DEF Types, TypeByte

(* ... Channel::id: five channels, each with a u16 ...                     *)
LEMMA ChannelFacts ==
  /\ Channels = {"menora", "chanukkia", "jom_kippur", "tzafah", "guard"}
  /\ \A c \in Channels : ChannelId[c] \in Nat /\ ChannelId[c] < 65536
  BY SMT DEF Channels, ChannelId

(* ... of its own.                                                         *)
LEMMA ChannelInjective == \A c, d \in Channels : ChannelId[c] = ChannelId[d] => c = d
  BY SMT DEF Channels, ChannelId

(* What Header::new takes: every type, channel, sequence number of 64 bits *)
(* and admissible length.                                                  *)
Header == [type : Types, channel : Channels, sequence : Half \X Half,
           plaintext_len : {n \in Nat : n <= MAX_PLAINTEXT}]

(* The 16 bytes hold each field at the place Header::decode reads it from. *)
LEMMA EncodedBytes ==
  ASSUME NEW h \in Header
  PROVE  /\ Encoded(h) \in Seq(Byte) /\ Len(Encoded(h)) = 16
         /\ Encoded(h)[1] = VERSION /\ Encoded(h)[2] = TypeByte[h.type]
         /\ Number2(Encoded(h), 3) = ChannelId[h.channel]
         /\ Number4(Encoded(h), 5) = h.sequence[1]
         /\ Number4(Encoded(h), 9) = h.sequence[2]
         /\ Number4(Encoded(h), 13) = h.plaintext_len
<1>1. /\ h.type \in Types /\ h.channel \in Channels
      /\ h.sequence \in Half \X Half /\ h.plaintext_len \in Half
  BY SMT DEF Header, Half, MAX_PLAINTEXT
<1>2. h.sequence[1] \in Half /\ h.sequence[2] \in Half
  BY <1>1, SMT
<1> DEFINE b == Encoded(h)
           id == Bytes2(ChannelId[h.channel])
           hi == Bytes4(h.sequence[1])
           lo == Bytes4(h.sequence[2])
           n  == Bytes4(h.plaintext_len)
<1>3. b = <<VERSION, TypeByte[h.type], id[1], id[2], hi[1], hi[2], hi[3], hi[4],
            lo[1], lo[2], lo[3], lo[4], n[1], n[2], n[3], n[4]>>
  BY Zenon DEF Encoded
<1>4. /\ id[1] \in Byte /\ id[2] \in Byte
      /\ Number2(id, 1) = ChannelId[h.channel]
  BY <1>1, ChannelFacts, TwoBytes, SMT
<1>5. (\A i \in 1..4 : hi[i] \in Byte) /\ Number4(hi, 1) = h.sequence[1]
  BY <1>2, FourBytes, Zenon
<1>6. (\A i \in 1..4 : lo[i] \in Byte) /\ Number4(lo, 1) = h.sequence[2]
  BY <1>2, FourBytes, Zenon
<1>7. (\A i \in 1..4 : n[i] \in Byte) /\ Number4(n, 1) = h.plaintext_len
  BY <1>1, FourBytes, Zenon
<1>8. VERSION \in Byte /\ TypeByte[h.type] \in Byte
  BY <1>1, TypeFacts, SMT DEF VERSION, Byte
<1> HIDE DEF id, hi, lo, n
<1>9. b \in Seq(Byte) /\ Len(b) = 16
  <2>1. /\ hi[1] \in Byte /\ hi[2] \in Byte /\ hi[3] \in Byte /\ hi[4] \in Byte
        /\ lo[1] \in Byte /\ lo[2] \in Byte /\ lo[3] \in Byte /\ lo[4] \in Byte
        /\ n[1] \in Byte /\ n[2] \in Byte /\ n[3] \in Byte /\ n[4] \in Byte
    BY <1>5, <1>6, <1>7, SMT
  <2> HIDE DEF b
  <2> QED
    BY <1>3, <1>4, <1>8, <2>1, SMT
<1> HIDE DEF b
<1>10. /\ b[1] = VERSION /\ b[2] = TypeByte[h.type] /\ b[3] = id[1] /\ b[4] = id[2]
       /\ b[5] = hi[1] /\ b[6] = hi[2] /\ b[7] = hi[3] /\ b[8] = hi[4]
       /\ b[9] = lo[1] /\ b[10] = lo[2] /\ b[11] = lo[3] /\ b[12] = lo[4]
       /\ b[13] = n[1] /\ b[14] = n[2] /\ b[15] = n[3] /\ b[16] = n[4]
  BY <1>3, SMT
<1>11. /\ Number2(b, 3) = Number2(id, 1)
       /\ Number4(b, 5) = Number4(hi, 1)
       /\ Number4(b, 9) = Number4(lo, 1)
       /\ Number4(b, 13) = Number4(n, 1)
  BY <1>10, SMT DEF Number2, Number4
<1>12. /\ Number2(b, 3) = ChannelId[h.channel]
       /\ Number4(b, 5) = h.sequence[1] /\ Number4(b, 9) = h.sequence[2]
       /\ Number4(b, 13) = h.plaintext_len
  BY <1>4, <1>5, <1>6, <1>7, <1>11, Zenon
<1> QED
  BY <1>9, <1>10, <1>12, Zenon DEF b

(* The type decode finds has the byte it was found by, ...                 *)
LEMMA TypeOfByte ==
  ASSUME NEW byte
  PROVE  LET types == {t \in Types : TypeByte[t] = byte}
         IN  types # {} => /\ (CHOOSE t \in types : TRUE) \in Types
                           /\ TypeByte[CHOOSE t \in types : TRUE] = byte
  OBVIOUS

(* ... and so has the channel.                                             *)
LEMMA ChannelOfNumber ==
  ASSUME NEW number
  PROVE  LET channels == {c \in Channels : ChannelId[c] = number}
         IN  channels # {} => /\ (CHOOSE c \in channels : TRUE) \in Channels
                              /\ ChannelId[CHOOSE c \in channels : TRUE] = number
  OBVIOUS

(* What decode takes a header for, field by field, when it does not refuse *)
(* it.                                                                     *)
LEMMA DecodeFields ==
  ASSUME NEW b, NEW h, h = Decode(b), h # InvalidRecord
  PROVE  /\ b[1] = VERSION
         /\ h.type \in Types /\ TypeByte[h.type] = b[2]
         /\ h.channel \in Channels /\ ChannelId[h.channel] = Number2(b, 3)
         /\ h.sequence = <<Number4(b, 5), Number4(b, 9)>>
         /\ h.plaintext_len = Number4(b, 13) /\ ~TooLarge(Number4(b, 13))
         /\ h = [type |-> h.type, channel |-> h.channel, sequence |-> h.sequence,
                 plaintext_len |-> h.plaintext_len]
<1> DEFINE types == {t \in Types : TypeByte[t] = b[2]}
           channels == {c \in Channels : ChannelId[c] = Number2(b, 3)}
           type == CHOOSE t \in types : TRUE
           channel == CHOOSE c \in channels : TRUE
<1>1. /\ b[1] = VERSION /\ types # {} /\ channels # {} /\ ~TooLarge(Number4(b, 13))
      /\ h = [type |-> type, channel |-> channel,
              sequence |-> <<Number4(b, 5), Number4(b, 9)>>, plaintext_len |-> Number4(b, 13)]
  BY Zenon DEF Decode
<1>2. type \in Types /\ TypeByte[type] = b[2]
  BY <1>1, TypeOfByte, Zenon
<1>3. channel \in Channels /\ ChannelId[channel] = Number2(b, 3)
  BY <1>1, ChannelOfNumber, Zenon
<1> HIDE DEF type, channel, types, channels
<1> QED
  BY <1>1, <1>2, <1>3, SMT

(* No header is mistaken for the refusal.                                  *)
LEMMA InvalidNoHeader ==
  ASSUME NEW h \in Header
  PROVE  h # InvalidRecord
<1>1. h.type \in {"data", "commit", "refresh", "close"}
  BY TypeFacts, SMT DEF Header
<1>2. InvalidRecord.type = "invalid"
  BY DEF InvalidRecord
<1> QED
  BY <1>1, <1>2, SMT

(* Every header is read as it was written.                                 *)
THEOREM DecodeEncoded ==
  ASSUME NEW h \in Header
  PROVE  Decode(Encoded(h)) = h
<1> DEFINE b == Encoded(h)
           types == {t \in Types : TypeByte[t] = b[2]}
           channels == {c \in Channels : ChannelId[c] = Number2(b, 3)}
<1>1. /\ h.type \in Types /\ h.channel \in Channels
      /\ h.sequence \in Half \X Half /\ h.plaintext_len <= MAX_PLAINTEXT
      /\ h.plaintext_len \in Nat
      /\ h = [type |-> h.type, channel |-> h.channel, sequence |-> h.sequence,
              plaintext_len |-> h.plaintext_len]
  BY SMT DEF Header
<1>2. types = {h.type}
  <2>1. b[2] = TypeByte[h.type]
    BY EncodedBytes, Zenon
  <2>2. \A t \in Types : TypeByte[t] = TypeByte[h.type] <=> t = h.type
    BY <1>1, TypeInjective, Zenon
  <2> HIDE DEF b
  <2> QED
    BY <1>1, <2>1, <2>2, SMT
<1>3. channels = {h.channel}
  <2>1. Number2(b, 3) = ChannelId[h.channel]
    BY EncodedBytes, Zenon
  <2>2. \A c \in Channels : ChannelId[c] = ChannelId[h.channel] <=> c = h.channel
    BY <1>1, ChannelInjective, Zenon
  <2> HIDE DEF b
  <2> QED
    BY <1>1, <2>1, <2>2, SMT
<1>4. (CHOOSE t \in types : TRUE) = h.type /\ (CHOOSE c \in channels : TRUE) = h.channel
  BY <1>2, <1>3, Zenon
<1>5. h.sequence = <<Number4(b, 5), Number4(b, 9)>>
  <2>1. h.sequence = <<h.sequence[1], h.sequence[2]>>
    BY <1>1, SMT
  <2> QED
    BY <2>1, EncodedBytes, Zenon
<1>6. b[1] = VERSION /\ Number4(b, 13) = h.plaintext_len
  BY EncodedBytes, Zenon
<1>7. types # {} /\ channels # {} /\ ~TooLarge(Number4(b, 13))
  <2>1. ~TooLarge(Number4(b, 13))
    BY <1>1, <1>6, SMT DEF TooLarge, MAX_PLAINTEXT
  <2> QED
    BY <1>2, <1>3, <2>1, Zenon
<1>8. Decode(b) = [type |-> CHOOSE t \in types : TRUE, channel |-> CHOOSE c \in channels : TRUE,
                   sequence |-> <<Number4(b, 5), Number4(b, 9)>>,
                   plaintext_len |-> Number4(b, 13)]
  BY <1>6, <1>7, Zenon DEF Decode
<1> HIDE DEF b, types, channels
<1>9. Decode(b) = h
  BY <1>1, <1>4, <1>5, <1>6, <1>8, Zenon
<1> QED
  BY <1>9 DEF b

(* Every 16 bytes that decode takes are the encoding of what it makes of   *)
(* them: there is no second way to write a header.                         *)
THEOREM EncodeDecoded ==
  ASSUME NEW b \in Seq(Byte), Len(b) = 16, NEW h, h = Decode(b), h # InvalidRecord
  PROVE  h \in Header /\ Encoded(h) = b
<1>1. /\ b[1] \in Byte /\ b[2] \in Byte /\ b[3] \in Byte /\ b[4] \in Byte
      /\ b[5] \in Byte /\ b[6] \in Byte /\ b[7] \in Byte /\ b[8] \in Byte
      /\ b[9] \in Byte /\ b[10] \in Byte /\ b[11] \in Byte /\ b[12] \in Byte
      /\ b[13] \in Byte /\ b[14] \in Byte /\ b[15] \in Byte /\ b[16] \in Byte
  <2>1. b \in [1..16 -> Byte]
    OBVIOUS
  <2> QED
    BY <2>1, SMT
<1>2. ASSUME NEW i \in {5, 9, 13}
      PROVE  /\ Number4(b, i) \in Half
             /\ Bytes4(Number4(b, i)) = <<b[i], b[i + 1], b[i + 2], b[i + 3]>>
  <2>1. b[i] \in Byte /\ b[i + 1] \in Byte /\ b[i + 2] \in Byte /\ b[i + 3] \in Byte
    BY <1>1, SMT
  <2>2. Number4(b, i) = Number4(<<b[i], b[i + 1], b[i + 2], b[i + 3]>>, 1)
    BY SMT DEF Number4
  <2> QED
    BY <2>1, <2>2, BytesRead, SMT
<1>3. Bytes2(Number2(b, 3)) = <<b[3], b[4]>>
  <2> DEFINE n == Number2(b, 3)
  <2>1. n = Number2(<<b[3], b[4]>>, 1)
    BY SMT DEF Number2
  <2> HIDE DEF n
  <2>2. Bytes2(n) = <<b[3], b[4]>>
    BY <1>1, <2>1, TwoBytesRead, Zenon
  <2> QED
    BY <2>2, Zenon DEF n
<1>4. /\ b[1] = VERSION
      /\ h.type \in Types /\ TypeByte[h.type] = b[2]
      /\ h.channel \in Channels /\ ChannelId[h.channel] = Number2(b, 3)
      /\ h.sequence = <<Number4(b, 5), Number4(b, 9)>>
      /\ h.plaintext_len = Number4(b, 13) /\ ~TooLarge(Number4(b, 13))
      /\ h = [type |-> h.type, channel |-> h.channel, sequence |-> h.sequence,
              plaintext_len |-> h.plaintext_len]
  BY DecodeFields, SMT
<1>5. /\ Number4(b, 5) \in Half /\ Number4(b, 9) \in Half /\ Number4(b, 13) \in Half
      /\ Bytes4(Number4(b, 5)) = <<b[5], b[6], b[7], b[8]>>
      /\ Bytes4(Number4(b, 9)) = <<b[9], b[10], b[11], b[12]>>
      /\ Bytes4(Number4(b, 13)) = <<b[13], b[14], b[15], b[16]>>
  BY <1>2, SMT
<1>6. h \in Header
  <2>1. Number4(b, 13) \in Nat /\ Number4(b, 13) <= MAX_PLAINTEXT
    BY <1>4, <1>5, SMT DEF TooLarge, MAX_PLAINTEXT, Half
  <2> QED
    BY <1>4, <1>5, <2>1, SMT DEF Header
<1>7. h.sequence[1] = Number4(b, 5) /\ h.sequence[2] = Number4(b, 9)
  BY <1>4, SMT
<1>8. Encoded(h) = <<b[1], b[2], b[3], b[4], b[5], b[6], b[7], b[8],
                     b[9], b[10], b[11], b[12], b[13], b[14], b[15], b[16]>>
  <2> DEFINE id == Bytes2(ChannelId[h.channel])
             hi == Bytes4(h.sequence[1])
             lo == Bytes4(h.sequence[2])
             n  == Bytes4(h.plaintext_len)
  <2>1. id = <<b[3], b[4]>>
    BY <1>3, <1>4, Zenon
  <2>2. hi = <<b[5], b[6], b[7], b[8]>> /\ lo = <<b[9], b[10], b[11], b[12]>>
    BY <1>5, <1>7, Zenon
  <2>3. n = <<b[13], b[14], b[15], b[16]>>
    BY <1>4, <1>5, Zenon
  <2>4. Encoded(h) = <<VERSION, TypeByte[h.type], id[1], id[2], hi[1], hi[2], hi[3], hi[4],
                       lo[1], lo[2], lo[3], lo[4], n[1], n[2], n[3], n[4]>>
    BY Zenon DEF Encoded
  <2> HIDE DEF id, hi, lo, n
  <2>5. /\ id[1] = b[3] /\ id[2] = b[4]
        /\ hi[1] = b[5] /\ hi[2] = b[6] /\ hi[3] = b[7] /\ hi[4] = b[8]
        /\ lo[1] = b[9] /\ lo[2] = b[10] /\ lo[3] = b[11] /\ lo[4] = b[12]
        /\ n[1] = b[13] /\ n[2] = b[14] /\ n[3] = b[15] /\ n[4] = b[16]
    BY <2>1, <2>2, <2>3, SMT
  <2> QED
    BY <1>4, <2>4, <2>5, Zenon
<1>9. b = <<b[1], b[2], b[3], b[4], b[5], b[6], b[7], b[8],
            b[9], b[10], b[11], b[12], b[13], b[14], b[15], b[16]>>
  BY SMT
<1> QED
  BY <1>6, <1>8, <1>9, Zenon

-----------------------------------------------------------------------------
(* The inductive invariant.                                                *)

(* What an endpoint has sealed: records of true headers, numbered below the*)
(* next sequence number of their channel and differently.                  *)
SealedRecords == {SealedRecord(h) : h \in Header}

SealedOk ==
  /\ next_sequence \in [Channels -> Nat]
  /\ sealed \in Seq(SealedRecords)
  /\ \A m \in 1..Len(sealed) :
       /\ sealed[m].sequence[1] = 0
       /\ sealed[m].sequence[2] < next_sequence[sealed[m].channel]
  /\ \A m, n \in 1..Len(sealed) :
       sealed[m].channel = sealed[n].channel /\ sealed[m].sequence[2] = sealed[n].sequence[2]
         => m = n

(* What is under way: bytes, of a record that was sealed, with nothing     *)
(* behind a header that was cut short.                                     *)
Wires == [header : Seq(Byte), rest : Nat, of : Nat, intact : BOOLEAN]

WireOk ==
  /\ wire \in Wires
  /\ Len(wire.header) <= HEADER_LEN
  /\ Len(wire.header) < HEADER_LEN => wire.rest = 0
  /\ wire = Nothing \/ wire.of \in 1..Len(sealed)

(* With what was made of the last record.                                  *)
CodecInv == SealedOk /\ WireOk /\ OpensExactlySealed /\ ParseExact

(* A record in the history is what its header makes it.                    *)
LEMMA SealedFields ==
  ASSUME SealedOk, NEW m \in 1..Len(sealed)
  PROVE  /\ HeaderOf(sealed[m]) \in Header
         /\ sealed[m].channel \in Channels
         /\ sealed[m].sequence[2] \in Half /\ sealed[m].sequence = <<0, sealed[m].sequence[2]>>
         /\ sealed[m].plaintext_len \in Nat
         /\ sealed[m].nonce = Nonce(sealed[m].sequence)
         /\ sealed[m].aad = Encoded(HeaderOf(sealed[m]))
<1> DEFINE s == sealed[m]
<1>1. s \in SealedRecords /\ s.sequence[1] = 0
  BY DEF SealedOk
<1>2. PICK h \in Header : s = SealedRecord(h)
  BY <1>1, Zenon DEF SealedRecords
<1> HIDE DEF s
<1>3. /\ h.type \in Types /\ h.channel \in Channels /\ h.sequence \in Half \X Half
      /\ h.plaintext_len \in Nat
      /\ h = [type |-> h.type, channel |-> h.channel, sequence |-> h.sequence,
              plaintext_len |-> h.plaintext_len]
  BY SMT DEF Header
<1>4. /\ s.type = h.type /\ s.channel = h.channel /\ s.sequence = h.sequence
      /\ s.plaintext_len = h.plaintext_len /\ s.nonce = Nonce(h.sequence)
      /\ s.aad = Encoded(h)
  BY <1>2, Zenon DEF SealedRecord, Aad
<1>5. HeaderOf(s) = h
  BY <1>3, <1>4, Zenon DEF HeaderOf
<1>6. s.sequence[2] \in Half /\ s.sequence = <<0, s.sequence[2]>>
  BY <1>1, <1>3, <1>4, SMT
<1> QED
  BY <1>3, <1>4, <1>5, <1>6, Zenon DEF s

(* Different numbers make different nonces.                                *)
LEMMA NumbersGiveNonces == SealedOk => NonceOnce
<1> SUFFICES ASSUME SealedOk, NEW m \in DOMAIN sealed, NEW n \in DOMAIN sealed,
                    sealed[m].channel = sealed[n].channel, sealed[m].nonce = sealed[n].nonce
             PROVE  m = n
  BY Zenon DEF NonceOnce
<1>1. m \in 1..Len(sealed) /\ n \in 1..Len(sealed)
  BY SMT DEF SealedOk
<1> DEFINE p == sealed[m].sequence[2]
           q == sealed[n].sequence[2]
<1>2. p \in Half /\ q \in Half /\ Nonce(<<0, p>>) = Nonce(<<0, q>>)
  <2>1. p \in Half /\ sealed[m].nonce = Nonce(<<0, p>>)
    BY <1>1, SealedFields, Zenon
  <2>2. q \in Half /\ sealed[n].nonce = Nonce(<<0, q>>)
    BY <1>1, SealedFields, Zenon
  <2> QED
    BY <2>1, <2>2, Zenon
<1>3. 0 \in Half
  BY SMT DEF Half
<1> HIDE DEF p, q
<1>4. p = q
  BY <1>2, <1>3, NonceInjective, Zenon
<1> QED
  BY <1>1, <1>4, Zenon DEF SealedOk, p, q

(* The wire, field by field: whatever has a byte left is of a sealed       *)
(* record.                                                                 *)
LEMMA WireFields ==
  ASSUME WireOk
  PROVE  /\ wire \in Wires
         /\ wire.header \in Seq(Byte) /\ wire.rest \in Nat /\ wire.of \in Nat
         /\ wire.intact \in BOOLEAN
         /\ Len(wire.header) \in Nat /\ Len(wire.header) <= 16
         /\ Len(wire.header) < 16 => wire.rest = 0
         /\ (Len(wire.header) # 0 \/ wire.rest # 0) => wire.of \in 1..Len(sealed)
<1>1. wire \in Wires /\ Len(wire.header) <= 16 /\ (Len(wire.header) < 16 => wire.rest = 0)
  BY SMT DEF WireOk, HEADER_LEN
<1>2. /\ wire.header \in Seq(Byte) /\ wire.rest \in Nat /\ wire.of \in Nat
      /\ wire.intact \in BOOLEAN /\ Len(wire.header) \in Nat
  BY <1>1, SMT DEF Wires
<1>3. Nothing.rest = 0 /\ Len(Nothing.header) = 0
  BY SMT DEF Nothing
<1>4. wire = Nothing \/ wire.of \in 1..Len(sealed)
  BY Zenon DEF WireOk
<1>5. (Len(wire.header) # 0 \/ wire.rest # 0) => wire.of \in 1..Len(sealed)
  BY <1>3, <1>4, Zenon
<1> QED
  BY <1>1, <1>2, <1>5, Zenon

(* What a step must show of the new wire.                                  *)
LEMMA WireStep ==
  ASSUME NEW header \in Seq(Byte), NEW rest \in Nat, NEW of \in 1..Len(sealed'),
         NEW intact \in BOOLEAN, Len(sealed') \in Nat,
         Len(header) <= 16, Len(header) < 16 => rest = 0,
         wire' = [header |-> header, rest |-> rest, of |-> of, intact |-> intact]
  PROVE  WireOk'
<1>1. of \in Nat
  OBVIOUS
<1>2. /\ wire' \in Wires /\ wire'.header = header /\ wire'.rest = rest /\ wire'.of = of
  BY <1>1, SMT DEF Wires
<1>3. /\ Len(wire'.header) <= HEADER_LEN
      /\ Len(wire'.header) < HEADER_LEN => wire'.rest = 0
  BY <1>2, SMT DEF HEADER_LEN
<1>4. wire'.of \in 1..Len(sealed')
  BY <1>2, Zenon
<1> QED
  BY <1>2, <1>3, <1>4, Zenon DEF WireOk

-----------------------------------------------------------------------------
(* The steps.                                                              *)

(* The invariant holds before anything is sealed.                          *)
LEMMA InitEstablishes == Init => CodecInv
<1> SUFFICES ASSUME Init PROVE CodecInv
  OBVIOUS
<1>1. SealedOk
  BY SMT DEF Init, SealedOk
<1>2. WireOk
  BY SMT DEF Init, WireOk, Wires, Nothing, HEADER_LEN
<1>3. OpensExactlySealed
  BY Zenon DEF Init, OpensExactlySealed
<1>4. ParseExact
  <2>1. result.header = InvalidRecord
    BY Zenon DEF Init, NoResult
  <2> QED
    BY <2>1, Zenon DEF ParseExact
<1> QED
  BY <1>1, <1>2, <1>3, <1>4 DEF CodecInv

(* seal_raw takes a number that is not below the next one and puts the     *)
(* untouched record on the wire.                                           *)
LEMMA SealKeepsInv ==
  ASSUME CodecInv, NEW type \in Types, NEW channel \in Channels,
         NEW n \in Lengths, NEW q \in Sequences, Seal(type, channel, n, q)
  PROVE  CodecInv'
<1> DEFINE h == [type |-> type, channel |-> channel, sequence |-> <<0, q>>,
                 plaintext_len |-> n]
           s == SealedRecord(h)
<1>1. /\ wire = Nothing /\ n <= MAX_PLAINTEXT /\ q >= next_sequence[channel]
      /\ sealed' = Append(sealed, s)
      /\ wire' = [header |-> Encoded(h), rest |-> n + TAG_LEN,
                  of |-> Len(sealed) + 1, intact |-> TRUE]
      /\ next_sequence' = [next_sequence EXCEPT ![channel] = q + 1]
      /\ result' = NoResult
  BY Zenon DEF Seal
<1>2. n \in Nat /\ q \in Nat /\ q \in Half
  <2>1. n \in Nat
    BY InputAssumption, SMT
  <2>2. HARD_RECORD_LIMIT \in Nat /\ HARD_RECORD_LIMIT <= 4194304
    BY SMT DEF HARD_RECORD_LIMIT
  <2>3. q \in Nat /\ q < HARD_RECORD_LIMIT
    BY InputAssumption, <2>2, SMT
  <2> QED
    BY <2>1, <2>2, <2>3, SMT DEF Half
<1>3. h \in Header
  <2>1. 0 \in Half
    BY SMT DEF Half
  <2> QED
    BY <1>1, <1>2, <2>1, SMT DEF Header
<1>4. s \in SealedRecords /\ s.channel = channel /\ s.sequence = <<0, q>>
  <2>1. s \in SealedRecords
    BY <1>3, Zenon DEF SealedRecords
  <2>2. s.channel = channel /\ s.sequence = <<0, q>>
    BY SMT DEF SealedRecord
  <2> QED
    BY <2>1, <2>2
<1> HIDE DEF s
<1>5. /\ next_sequence \in [Channels -> Nat] /\ sealed \in Seq(SealedRecords)
      /\ \A m \in 1..Len(sealed) :
           sealed[m].channel \in Channels /\ sealed[m].sequence[2] \in Nat
           /\ sealed[m].sequence[1] = 0
           /\ sealed[m].sequence[2] < next_sequence[sealed[m].channel]
      /\ \A i, j \in 1..Len(sealed) :
           sealed[i].channel = sealed[j].channel
             /\ sealed[i].sequence[2] = sealed[j].sequence[2] => i = j
  <2>1. ASSUME NEW m \in 1..Len(sealed)
        PROVE  sealed[m].channel \in Channels /\ sealed[m].sequence[2] \in Nat
    <3>1. sealed[m].channel \in Channels /\ sealed[m].sequence[2] \in Half
      BY SealedFields DEF CodecInv
    <3> QED
      BY <3>1, SMT DEF Half
  <2> QED
    BY <2>1 DEF CodecInv, SealedOk
<1>6. /\ Len(sealed') = Len(sealed) + 1 /\ Len(sealed) \in Nat
      /\ sealed' \in Seq(SealedRecords)
      /\ sealed'[Len(sealed) + 1] = s
      /\ \A m \in 1..Len(sealed) : sealed'[m] = sealed[m]
  BY <1>1, <1>4, <1>5, SMT
<1>7. /\ next_sequence' \in [Channels -> Nat] /\ next_sequence'[channel] = q + 1
      /\ \A c \in Channels : next_sequence[c] \in Nat /\ next_sequence[c] <= next_sequence'[c]
  BY <1>1, <1>2, <1>5, SMT
<1>8. SealedOk'
  <2>1. ASSUME NEW m \in 1..Len(sealed')
        PROVE  /\ sealed'[m].sequence[1] = 0
               /\ sealed'[m].sequence[2] < next_sequence'[sealed'[m].channel]
    <3>1. CASE m = Len(sealed) + 1
      <4>1. s.sequence[1] = 0 /\ s.sequence[2] = q
        BY <1>4, SMT
      <4> QED
        BY <1>2, <1>4, <1>6, <1>7, <3>1, <4>1, SMT
    <3>2. CASE m \in 1..Len(sealed)
      BY <1>5, <1>6, <1>7, <3>2, SMT
    <3> QED
      BY <1>6, <3>1, <3>2, SMT
  <2>2. ASSUME NEW i \in 1..Len(sealed'), NEW j \in 1..Len(sealed'),
               sealed'[i].channel = sealed'[j].channel,
               sealed'[i].sequence[2] = sealed'[j].sequence[2]
        PROVE  i = j
    <3>1. s.sequence[2] = q
      BY <1>4, SMT
    <3>2. ASSUME NEW m \in 1..Len(sealed), sealed[m].channel = channel
          PROVE  sealed[m].sequence[2] # q
      BY <1>1, <1>2, <1>5, <3>2, SMT
    <3>3. CASE i \in 1..Len(sealed) /\ j \in 1..Len(sealed)
      BY <1>5, <1>6, <2>2, <3>3, Zenon
    <3>4. CASE i = Len(sealed) + 1 /\ j \in 1..Len(sealed)
      BY <1>4, <1>6, <2>2, <3>1, <3>2, <3>4, Zenon
    <3>5. CASE j = Len(sealed) + 1 /\ i \in 1..Len(sealed)
      BY <1>4, <1>6, <2>2, <3>1, <3>2, <3>5, Zenon
    <3> QED
      BY <1>6, <3>3, <3>4, <3>5, SMT
  <2> QED
    BY <1>6, <1>7, <2>1, <2>2, Zenon DEF SealedOk
<1>9. WireOk'
  <2>1. Encoded(h) \in Seq(Byte) /\ Len(Encoded(h)) = 16
    BY <1>3, EncodedBytes, Zenon
  <2> DEFINE header == Encoded(h)
  <2>2. wire' = [header |-> header, rest |-> n + TAG_LEN, of |-> Len(sealed) + 1, intact |-> TRUE]
    BY <1>1, Zenon
  <2> HIDE DEF header
  <2>3. /\ header \in Seq(Byte) /\ Len(header) = 16
        /\ n + TAG_LEN \in Nat /\ Len(sealed) + 1 \in Nat
    BY <1>2, <1>6, <2>1, SMT DEF TAG_LEN, header
  <2>4. Len(sealed) + 1 \in 1..Len(sealed') /\ Len(sealed') \in Nat
    BY <1>6, SMT
  <2>5. Len(header) <= 16 /\ ~(Len(header) < 16) /\ TRUE \in BOOLEAN
    BY <2>3, SMT
  <2> QED
    BY <2>2, <2>3, <2>4, <2>5, WireStep, Zenon
<1>10. OpensExactlySealed' /\ ParseExact'
  <2>1. NoResult.header = InvalidRecord
    BY Zenon DEF NoResult
  <2> QED
    BY <1>1, <2>1, Zenon DEF OpensExactlySealed, ParseExact
<1> QED
  BY <1>8, <1>9, <1>10 DEF CodecInv

(* A fault of the transport changes nothing but the wire.                  *)
LEMMA FaultKeepsInv ==
  ASSUME CodecInv, Fault, WireOk'
  PROVE  CodecInv'
<1>1. UNCHANGED <<next_sequence, sealed, result>>
  BY DEF Fault
<1>2. SealedOk'
  BY <1>1, Zenon DEF CodecInv, SealedOk
<1>3. OpensExactlySealed'
  BY <1>1, Zenon DEF CodecInv, OpensExactlySealed, Untouched
<1>4. ParseExact'
  BY <1>1, Zenon DEF CodecInv, ParseExact
<1> QED
  BY <1>2, <1>3, <1>4 DEF CodecInv

(* A wire with one field changed, ...                                      *)
LEMMA WireExcept ==
  ASSUME NEW w \in Wires, NEW header \in Seq(Byte), NEW rest \in Nat, NEW intact \in BOOLEAN
  PROVE  /\ [w EXCEPT !.header = header]
              = [header |-> header, rest |-> w.rest, of |-> w.of, intact |-> w.intact]
         /\ [w EXCEPT !.rest = rest]
              = [header |-> w.header, rest |-> rest, of |-> w.of, intact |-> w.intact]
         /\ [w EXCEPT !.intact = intact]
              = [header |-> w.header, rest |-> w.rest, of |-> w.of, intact |-> intact]
<1>1. [w EXCEPT !.header = header]
              = [header |-> header, rest |-> w.rest, of |-> w.of, intact |-> w.intact]
  BY DEF Wires
<1>2. [w EXCEPT !.rest = rest]
              = [header |-> w.header, rest |-> rest, of |-> w.of, intact |-> w.intact]
  BY DEF Wires
<1>3. [w EXCEPT !.intact = intact]
              = [header |-> w.header, rest |-> w.rest, of |-> w.of, intact |-> intact]
  BY DEF Wires
<1> QED
  BY <1>1, <1>2, <1>3

(* ... and with two.                                                       *)
LEMMA WireExceptTwo ==
  ASSUME NEW w \in Wires, NEW header \in Seq(Byte), NEW rest \in Nat, NEW intact \in BOOLEAN
  PROVE  /\ [w EXCEPT !.rest = rest, !.header = header]
              = [header |-> header, rest |-> rest, of |-> w.of, intact |-> w.intact]
         /\ [w EXCEPT !.rest = rest, !.intact = intact]
              = [header |-> w.header, rest |-> rest, of |-> w.of, intact |-> intact]
<1> DEFINE v == [w EXCEPT !.rest = rest]
<1>1. v = [header |-> w.header, rest |-> rest, of |-> w.of, intact |-> w.intact]
  BY WireExcept
<1> HIDE DEF v
<1>2. /\ v \in Wires
      /\ v.header = w.header /\ v.rest = rest /\ v.of = w.of /\ v.intact = w.intact
  BY <1>1, SMT DEF Wires
<1>3. /\ [v EXCEPT !.header = header]
           = [header |-> header, rest |-> v.rest, of |-> v.of, intact |-> v.intact]
      /\ [v EXCEPT !.intact = intact]
           = [header |-> v.header, rest |-> v.rest, of |-> v.of, intact |-> intact]
  BY <1>2, WireExcept, Zenon
<1>4. /\ [v EXCEPT !.header = header]
           = [header |-> header, rest |-> rest, of |-> w.of, intact |-> w.intact]
      /\ [v EXCEPT !.intact = intact]
           = [header |-> w.header, rest |-> rest, of |-> w.of, intact |-> intact]
  BY <1>2, <1>3, Zenon
<1> QED
  BY <1>4, Zenon DEF v

(* A header with another byte is a header of bytes.                        *)
LEMMA AlterHeaderKeepsInv ==
  ASSUME CodecInv, NEW i \in 1..HEADER_LEN, NEW b \in Byte, AlterHeader(i, b)
  PROVE  CodecInv'
<1> DEFINE header == [wire.header EXCEPT ![i] = b]
<1>1. /\ wire' = [wire EXCEPT !.header = header] /\ i \in DOMAIN wire.header
      /\ Fault /\ sealed' = sealed
  BY Zenon DEF AlterHeader, Fault
<1>2. WireOk /\ Len(sealed) \in Nat
  BY SMT DEF CodecInv, SealedOk
<1>3. header \in Seq(Byte) /\ Len(header) = Len(wire.header) /\ Len(wire.header) # 0
  <2>1. wire.header \in Seq(Byte)
    BY <1>2, WireFields
  <2>2. i \in DOMAIN wire.header
    BY <1>1
  <2> QED
    BY <2>1, <2>2
<1> HIDE DEF header
<1>4. wire' = [header |-> header, rest |-> wire.rest, of |-> wire.of, intact |-> wire.intact]
  BY <1>1, <1>2, <1>3, WireFields, WireExcept, Zenon
<1>5. WireOk'
  <2>1. /\ wire.rest \in Nat /\ wire.of \in 1..Len(sealed') /\ wire.intact \in BOOLEAN
        /\ Len(header) <= 16 /\ (Len(header) < 16 => wire.rest = 0) /\ Len(sealed') \in Nat
    BY <1>1, <1>2, <1>3, WireFields, Zenon
  <2> QED
    BY <1>3, <1>4, <2>1, WireStep, Zenon
<1> QED
  BY <1>1, <1>5, FaultKeepsInv

(* The body or the tag altered: only intact changes.                       *)
LEMMA AlterRestKeepsInv ==
  ASSUME CodecInv, AlterRest
  PROVE  CodecInv'
<1>1. /\ wire' = [wire EXCEPT !.intact = FALSE] /\ wire.rest > 0
      /\ Fault /\ sealed' = sealed
  BY Zenon DEF AlterRest, Fault
<1>2. WireOk /\ Len(sealed) \in Nat
  BY SMT DEF CodecInv, SealedOk
<1>3. wire.rest # 0
  <2>1. wire.rest > 0
    BY <1>1
  <2>2. wire.rest \in Nat
    BY <1>2, WireFields
  <2> QED
    BY <2>1, <2>2
<1>4. wire' = [header |-> wire.header, rest |-> wire.rest, of |-> wire.of, intact |-> FALSE]
  <2>1. FALSE \in BOOLEAN
    OBVIOUS
  <2> QED
    BY <1>1, <1>2, <2>1, WireFields, WireExcept, Zenon
<1>5. WireOk'
  <2>1. /\ wire.header \in Seq(Byte) /\ wire.rest \in Nat /\ wire.of \in 1..Len(sealed')
        /\ FALSE \in BOOLEAN /\ Len(sealed') \in Nat
        /\ Len(wire.header) <= 16 /\ (Len(wire.header) < 16 => wire.rest = 0)
    BY <1>1, <1>2, <1>3, WireFields, Zenon
  <2> QED
    BY <1>4, <2>1, WireStep, Zenon
<1> QED
  BY <1>1, <1>5, FaultKeepsInv

(* Cut from the end: first the tag and the body, and of the header only    *)
(* when nothing of them is left.                                           *)
LEMMA CutKeepsInv ==
  ASSUME CodecInv, NEW n \in Cuts, Cut(n)
  PROVE  CodecInv'
<1>1. /\ n <= WireLength(wire)
      /\ wire' = IF n <= wire.rest THEN [wire EXCEPT !.rest = wire.rest - n]
                 ELSE [wire EXCEPT !.rest = 0,
                         !.header = SubSeq(wire.header, 1, WireLength(wire) - n)]
      /\ Fault /\ sealed' = sealed
  BY Zenon DEF Cut, Fault
<1>2. n \in Nat /\ n > 0
  BY InputAssumption, SMT
<1>3. WireOk /\ Len(sealed) \in Nat
  BY SMT DEF CodecInv, SealedOk
<1>4. /\ wire.header \in Seq(Byte) /\ wire.rest \in Nat /\ wire.intact \in BOOLEAN
      /\ Len(wire.header) \in Nat /\ Len(wire.header) <= 16
      /\ Len(wire.header) < 16 => wire.rest = 0
  BY <1>3, WireFields, Zenon
<1>5. WireLength(wire) = Len(wire.header) + wire.rest /\ n <= WireLength(wire)
  BY <1>1, Zenon DEF WireLength
<1>6. wire.of \in 1..Len(sealed') /\ Len(sealed') \in Nat
  <2>1. Len(wire.header) # 0 \/ wire.rest # 0
    BY <1>2, <1>4, <1>5, SMT
  <2> QED
    BY <1>1, <1>3, <2>1, WireFields, Zenon
<1>7. CASE n <= wire.rest
  <2> DEFINE rest == wire.rest - n
  <2>1. wire' = [wire EXCEPT !.rest = rest]
    BY <1>1, <1>7, Zenon
  <2>2. rest \in Nat /\ (Len(wire.header) < 16 => rest = 0)
    BY <1>2, <1>4, <1>7, SMT
  <2> HIDE DEF rest
  <2>3. wire' = [header |-> wire.header, rest |-> rest, of |-> wire.of, intact |-> wire.intact]
    BY <1>3, <1>4, <2>1, <2>2, WireFields, WireExcept, Zenon
  <2>4. WireOk'
    BY <1>4, <1>6, <2>2, <2>3, WireStep, Zenon
  <2> QED
    BY <1>1, <2>4, FaultKeepsInv
<1>8. CASE ~(n <= wire.rest)
  <2> DEFINE k == WireLength(wire) - n
             header == SubSeq(wire.header, 1, k)
  <2>1. k \in Nat /\ k < Len(wire.header)
    BY <1>2, <1>4, <1>5, <1>8, SMT
  <2>2. header \in Seq(Byte) /\ Len(header) = k
    <3> HIDE DEF k
    <3> QED
      BY <1>4, <2>1, SMT
  <2>3. wire' = [wire EXCEPT !.rest = 0, !.header = header]
    BY <1>1, <1>8, Zenon
  <2>4. Len(header) <= 16 /\ 0 \in Nat
    <3> HIDE DEF k, header
    <3> QED
      BY <1>4, <2>1, <2>2, SMT
  <2> HIDE DEF k, header
  <2>5. wire' = [header |-> header, rest |-> 0, of |-> wire.of, intact |-> wire.intact]
    BY <1>3, <1>4, <2>2, <2>3, <2>4, WireFields, WireExceptTwo, Zenon
  <2>6. WireOk'
    BY <1>4, <1>6, <2>2, <2>4, <2>5, WireStep, Zenon
  <2> QED
    BY <1>1, <2>6, FaultKeepsInv
<1> QED
  BY <1>7, <1>8

(* Bytes are added behind a whole header only.                             *)
LEMMA ExtendKeepsInv ==
  ASSUME CodecInv, NEW n \in Cuts, Extend(n)
  PROVE  CodecInv'
<1> DEFINE kept == wire.intact /\ wire.rest >= sealed[wire.of].plaintext_len + TAG_LEN
           rest == wire.rest + n
<1>1. /\ Len(wire.header) = HEADER_LEN
      /\ wire' = [wire EXCEPT !.rest = rest, !.intact = kept]
      /\ Fault /\ sealed' = sealed
  BY Zenon DEF Extend, Fault
<1>2. WireOk /\ Len(sealed) \in Nat
  BY SMT DEF CodecInv, SealedOk
<1>3. kept \in BOOLEAN
  OBVIOUS
<1>4. rest \in Nat
  <2>1. wire.rest \in Nat /\ n \in Nat
    BY <1>2, WireFields, InputAssumption
  <2> QED
    BY <2>1
<1>5. /\ Len(wire.header) = 16 /\ Len(wire.header) # 0
      /\ Len(wire.header) <= 16 /\ ~(Len(wire.header) < 16)
  <2>1. Len(wire.header) = 16
    BY <1>1, Zenon DEF HEADER_LEN
  <2> QED
    BY <2>1, SMT
<1> HIDE DEF kept, rest
<1>6. wire' = [header |-> wire.header, rest |-> rest, of |-> wire.of, intact |-> kept]
  BY <1>1, <1>2, <1>3, <1>4, WireFields, WireExceptTwo, Zenon
<1>7. WireOk'
  <2>1. wire.header \in Seq(Byte) /\ wire.of \in 1..Len(sealed') /\ Len(sealed') \in Nat
    BY <1>1, <1>2, <1>5, WireFields, Zenon
  <2> QED
    BY <1>3, <1>4, <1>5, <1>6, <2>1, WireStep, Zenon
<1> QED
  BY <1>1, <1>7, FaultKeepsInv

(* parse takes a record for the one whose header it encodes, with a body   *)
(* that fits.                                                              *)
LEMMA ParsedHeader ==
  ASSUME WireOk, Parse(wire) # InvalidRecord
  PROVE  /\ Parse(wire) \in Header /\ Encoded(Parse(wire)) = wire.header
         /\ LengthFits(wire, Parse(wire))
<1> DEFINE h == Parse(wire)
<1>1. h = Decode(wire.header) /\ LengthFits(wire, h) /\ ~(WireLength(wire) < HEADER_LEN + TAG_LEN)
  BY Zenon DEF Parse
<1>2. wire.header \in Seq(Byte) /\ Len(wire.header) = 16
  <2>1. /\ wire.header \in Seq(Byte) /\ wire.rest \in Nat
        /\ Len(wire.header) \in Nat /\ Len(wire.header) <= 16
        /\ Len(wire.header) < 16 => wire.rest = 0
    BY WireFields, Zenon
  <2>2. ~(Len(wire.header) + wire.rest < 32)
    BY <1>1, <2>1, SMT DEF WireLength, HEADER_LEN, TAG_LEN
  <2> DEFINE len == Len(wire.header)
             rest == wire.rest
  <2>3. /\ len \in Nat /\ rest \in Nat /\ len <= 16 /\ (len < 16 => rest = 0)
        /\ ~(len + rest < 32)
    BY <2>1, <2>2, Zenon
  <2> HIDE DEF len, rest
  <2>4. len = 16
    BY <2>3, SMT
  <2> QED
    BY <2>1, <2>4, Zenon DEF len
<1>3. h \in Header /\ Encoded(h) = wire.header
  <2> HIDE DEF h
  <2>1. h # InvalidRecord
    BY DEF h
  <2> QED
    BY <1>1, <1>2, <2>1, EncodeDecoded
<1> QED
  BY <1>1, <1>3

(* An untouched record passes parse, as what it was sealed as, and open.   *)
LEMMA UntouchedParses ==
  ASSUME CodecInv, wire.of \in 1..Len(sealed), Untouched(wire)
  PROVE  Parse(wire) = HeaderOf(sealed[wire.of]) /\ Authentic(wire, Parse(wire))
<1> DEFINE s == sealed[wire.of]
           h == HeaderOf(s)
<1>1. wire.header = Encoded(h) /\ wire.rest = s.plaintext_len + TAG_LEN /\ wire.intact
  BY Zenon DEF Untouched
<1>2. /\ h \in Header /\ s.plaintext_len \in Nat
      /\ s.nonce = Nonce(s.sequence) /\ s.aad = Encoded(h)
  BY SealedFields, Zenon DEF CodecInv
<1>3. /\ h.channel = s.channel /\ h.sequence = s.sequence /\ h.plaintext_len = s.plaintext_len
  BY Zenon DEF HeaderOf
<1> HIDE DEF h, s
<1>4. Decode(wire.header) = h /\ h # InvalidRecord /\ Len(wire.header) = 16
  BY <1>1, <1>2, DecodeEncoded, InvalidNoHeader, EncodedBytes, Zenon
<1>5. /\ ~(WireLength(wire) < HEADER_LEN + TAG_LEN)
      /\ LengthFits(wire, h)
  BY <1>1, <1>2, <1>3, <1>4, SMT DEF WireLength, LengthFits, HEADER_LEN, TAG_LEN
<1>6. Parse(wire) = h
  BY <1>4, <1>5, Zenon DEF Parse
<1>7. Authentic(wire, h)
  BY <1>1, <1>2, <1>3, Zenon DEF Authentic, Aad, s
<1> QED
  BY <1>6, <1>7, Zenon DEF h, s

(* The AAD is the whole header: what opens has it untouched, the body and  *)
(* the tag also.                                                           *)
LEMMA AuthenticUntouched ==
  ASSUME CodecInv, wire.of \in 1..Len(sealed), NEW h, Authentic(wire, h)
  PROVE  Untouched(wire)
<1>1. /\ wire.intact /\ wire.rest = sealed[wire.of].plaintext_len + TAG_LEN
      /\ wire.header = sealed[wire.of].aad
  BY Zenon DEF Authentic, Aad
<1>2. sealed[wire.of].aad = Encoded(HeaderOf(sealed[wire.of]))
  BY SealedFields, Zenon DEF CodecInv
<1> QED
  BY <1>1, <1>2, Zenon DEF Untouched

(* What parse and open make of a record under way is what the two promises *)
(* say of it.                                                              *)
LEMMA ReceiveKeepsInv ==
  ASSUME CodecInv, Receive
  PROVE  CodecInv'
<1> DEFINE h == Parse(wire)
           verdict == CASE h = InvalidRecord   -> "invalid"
                        [] ~Authentic(wire, h) -> "authentication_failed"
                        [] OTHER               -> "opened"
<1>1. /\ wire # Nothing /\ wire' = Nothing
      /\ result' = [verdict |-> verdict, header |-> h, of |-> wire]
      /\ next_sequence' = next_sequence /\ sealed' = sealed
  BY Zenon DEF Receive
<1>2. WireOk /\ wire.of \in 1..Len(sealed)
  BY <1>1, Zenon DEF CodecInv, WireOk
<1>3. verdict = "opened" <=> h # InvalidRecord /\ Authentic(wire, h)
  <2>1. CASE h = InvalidRecord
    BY <2>1
  <2>2. CASE h # InvalidRecord /\ ~Authentic(wire, h)
    BY <2>2
  <2>3. CASE h # InvalidRecord /\ Authentic(wire, h)
    BY <2>3
  <2> QED
    BY <2>1, <2>2, <2>3
<1>4. verdict = "opened" <=> Untouched(wire)
  <2>1. ASSUME Untouched(wire)
        PROVE  h # InvalidRecord /\ Authentic(wire, h)
    <3>1. h = HeaderOf(sealed[wire.of]) /\ Authentic(wire, h)
      BY <1>2, <2>1, UntouchedParses, Zenon
    <3>2. HeaderOf(sealed[wire.of]) \in Header
      BY <1>2, SealedFields, Zenon DEF CodecInv
    <3> QED
      BY <3>1, <3>2, InvalidNoHeader, Zenon
  <2>2. ASSUME Authentic(wire, h)
        PROVE  Untouched(wire)
    BY <1>2, <2>2, AuthenticUntouched, Zenon
  <2> QED
    BY <1>3, <2>1, <2>2, Zenon
<1>5. verdict = "opened" => h = HeaderOf(sealed[wire.of])
  BY <1>2, <1>4, UntouchedParses, Zenon
<1> HIDE DEF verdict, h
<1>6. result'.verdict = verdict /\ result'.header = h /\ result'.of = wire
  BY <1>1, SMT
<1>7. OpensExactlySealed'
  <2>1. Untouched(result.of)' <=> Untouched(wire)
    BY <1>1, <1>6, Zenon DEF Untouched
  <2> QED
    BY <1>1, <1>4, <1>5, <1>6, <2>1, Zenon DEF OpensExactlySealed
<1>8. ParseExact'
  <2>1. SUFFICES ASSUME h # InvalidRecord
                 PROVE  /\ Encoded(h) = wire.header
                        /\ WireLength(wire) = HEADER_LEN + h.plaintext_len + TAG_LEN
                        /\ h.plaintext_len <= MAX_PLAINTEXT
    BY <1>6, Zenon DEF ParseExact
  <2>2. h \in Header /\ Encoded(h) = wire.header /\ LengthFits(wire, h)
    BY <1>2, <2>1, ParsedHeader, Zenon DEF h
  <2>3. h.plaintext_len <= MAX_PLAINTEXT
    BY <2>2, SMT DEF Header
  <2> QED
    BY <2>2, <2>3, Zenon DEF LengthFits
<1>9. SealedOk'
  BY <1>1, Zenon DEF CodecInv, SealedOk
<1>10. WireOk'
  <2>1. Nothing \in Wires /\ Len(Nothing.header) <= HEADER_LEN /\ Nothing.rest = 0
    BY SMT DEF Nothing, Wires, HEADER_LEN
  <2> QED
    BY <1>1, <2>1, Zenon DEF WireOk
<1> QED
  BY <1>7, <1>8, <1>9, <1>10 DEF CodecInv

-----------------------------------------------------------------------------
(* The theorems.                                                           *)

(* The inductive invariant of a session's records on the wire.             *)
THEOREM RecordInvariant == Spec => []CodecInv
<1>1. Init => CodecInv
  BY InitEstablishes
<1>2. CodecInv /\ [Next]_vars => CodecInv'
  <2> SUFFICES ASSUME CodecInv, [Next]_vars PROVE CodecInv'
    OBVIOUS
  <2>1. ASSUME NEW t \in Types, NEW c \in Channels, NEW n \in Lengths, NEW q \in Sequences,
               Seal(t, c, n, q)
        PROVE  CodecInv'
    BY <2>1, SealKeepsInv
  <2>2. ASSUME NEW i \in 1..HEADER_LEN, NEW b \in ForgedBytes, AlterHeader(i, b)
        PROVE  CodecInv'
    <3>1. b \in Byte
      BY InputAssumption, Zenon DEF Byte
    <3> QED
      BY <2>2, <3>1, AlterHeaderKeepsInv
  <2>3. ASSUME NEW t \in Types, AlterHeader(2, TypeByte[t])
        PROVE  CodecInv'
    <3>1. 2 \in 1..HEADER_LEN
      BY SMT DEF HEADER_LEN
    <3>2. TypeByte[t] \in Byte
      BY TypeFacts, Zenon
    <3> QED
      BY <2>3, <3>1, <3>2, AlterHeaderKeepsInv, Zenon
  <2>4. CASE AlterRest
    BY <2>4, AlterRestKeepsInv
  <2>5. ASSUME NEW n \in Cuts, Cut(n) \/ Extend(n)
        PROVE  CodecInv'
    BY <2>5, CutKeepsInv, ExtendKeepsInv
  <2>6. CASE Receive
    BY <2>6, ReceiveKeepsInv
  <2>7. CASE UNCHANGED vars
    <3>1. /\ next_sequence' = next_sequence /\ sealed' = sealed /\ wire' = wire
          /\ faults' = faults /\ result' = result
      BY <2>7, Zenon DEF vars
    <3>2. SealedOk'
      BY <3>1, Zenon DEF CodecInv, SealedOk
    <3>3. WireOk'
      BY <3>1, Zenon DEF CodecInv, WireOk
    <3>4. OpensExactlySealed'
      BY <3>1, Zenon DEF CodecInv, OpensExactlySealed, Untouched
    <3>5. ParseExact'
      BY <3>1, Zenon DEF CodecInv, ParseExact
    <3> QED
      BY <3>2, <3>3, <3>4, <3>5 DEF CodecInv
  <2> QED
    BY <2>1, <2>2, <2>3, <2>4, <2>5, <2>6, <2>7, Zenon DEF Next
<1> QED
  BY <1>1, <1>2, PTL DEF Spec

(* After any faults, a record opens exactly when it is the sealed one to   *)
(* the last byte, and as that one (Session::open_with: parse, then         *)
(* CryptoContext::open).                                                   *)
THEOREM OnlySealedOpens == Spec => []OpensExactlySealed
<1>1. CodecInv => OpensExactlySealed
  BY DEF CodecInv
<1> QED
  BY <1>1, RecordInvariant, PTL

(* Whatever parses, by a fault or as it was sealed, is written in the one  *)
(* way its fields are written, without a byte too many or too few.         *)
THEOREM ParsedIsCanonical == Spec => []ParseExact
<1>1. CodecInv => ParseExact
  BY DEF CodecInv
<1> QED
  BY <1>1, RecordInvariant, PTL

(* No two records of a channel are sealed with one nonce, for any IV and   *)
(* any numbers below HARD_RECORD_LIMIT, skipped or not.                    *)
THEOREM NoncesDiffer == Spec => []NonceOnce
<1>1. CodecInv => NonceOnce
  BY NumbersGiveNonces DEF CodecInv
<1> QED
  BY <1>1, RecordInvariant, PTL

=============================================================================
