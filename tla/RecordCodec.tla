---------------------------- MODULE RecordCodec ----------------------------
(***************************************************************************)
(* The records of one session on the wire, byte for byte where the parser  *)
(* looks (record.rs): a header of 16 bytes, a body and a tag. One endpoint *)
(* seals, one record at a time; the transport may alter, cut or extend it; *)
(* the peer parses it and opens it. InnerSession takes a record as what    *)
(* seal was given; here is why it may.                                     *)
(*                                                                         *)
(* AES-256-GCM is ideal: a record opens under the key, the nonce and the   *)
(* AAD it was sealed with and with every byte of its body and tag, and not *)
(* otherwise.  The channel stands for its key, the body for the number of  *)
(* its bytes.  Sequence numbers have two halves of 32 bits.                *)
(***************************************************************************)
EXTENDS Integers, Sequences

CONSTANTS
  Iv,          \* the IV of every traffic key of the instance, 12 bytes
  Lengths,     \* plaintext lengths that are sealed
  Sequences,   \* sequence numbers that are looked at
  ForgedBytes, \* what a byte of a header is altered to; a type to any type
  Cuts,        \* how many bytes are cut off or added
  MaxSealed,   \* bound: records sealed and looked at
  MaxFaults    \* bound: records and faults together

ASSUME IvAssumption == Iv \in [1..12 -> 0..255]
VARIABLES
  next_sequence,  \* of each channel in the sending direction
  sealed,         \* history: what was sealed, in order
  wire,           \* the record under way
  faults,         \* faults of the transport on it
  result          \* what the peer made of the last record

vars == <<next_sequence, sealed, wire, faults, result>>

VERSION == 1
HEADER_LEN == 16
TAG_LEN == 16
MAX_PLAINTEXT == 16384
HARD_RECORD_LIMIT == 4194304

ASSUME InputAssumption ==
  /\ Lengths \subseteq Nat /\ Sequences \subseteq 0..HARD_RECORD_LIMIT - 1
  /\ ForgedBytes \subseteq 0..255 /\ Cuts \subseteq Nat \ {0}

(* Channel::id and RecordType as u8.                                       *)
ChannelId == [menora |-> 301, chanukkia |-> 99, jom_kippur |-> 372,
              tzafah |-> 175, guard |-> 947]
TypeByte == [data |-> 0, commit |-> 128, refresh |-> 129, close |-> 130]

Channels == DOMAIN ChannelId
Types == DOMAIN TypeByte

-----------------------------------------------------------------------------
(* Header::new and Header::decode.                                         *)

(* to_be_bytes of a u16 and of a u32, and from_be_bytes, from a position.  *)
Bytes2(n) == <<(n \div 256) % 256, n % 256>>
Bytes4(n) == <<(n \div 16777216) % 256, (n \div 65536) % 256,
               (n \div 256) % 256, n % 256>>

Number2(bytes, at) == 256 * bytes[at] + bytes[at + 1]
Number4(bytes, at) == 16777216 * bytes[at] + 65536 * bytes[at + 1]
                        + 256 * bytes[at + 2] + bytes[at + 3]

(* A sealed sequence number is below HARD_RECORD_LIMIT: its upper half is  *)
(* zero.                                                                   *)
Encoded(h) ==
  LET id == Bytes2(ChannelId[h.channel])
      hi == Bytes4(h.sequence[1])
      lo == Bytes4(h.sequence[2])
      n  == Bytes4(h.plaintext_len)
  IN  <<VERSION, TypeByte[h.type], id[1], id[2],
        hi[1], hi[2], hi[3], hi[4], lo[1], lo[2], lo[3], lo[4],
        n[1], n[2], n[3], n[4]>>

TooLarge(n) == n > MAX_PLAINTEXT

InvalidRecord == [type |-> "invalid"]

Decode(bytes) ==
  LET types    == {t \in Types : TypeByte[t] = bytes[2]}
      channels == {c \in Channels : ChannelId[c] = Number2(bytes, 3)}
      length   == Number4(bytes, 13)
  IN  IF bytes[1] # VERSION \/ types = {} \/ channels = {} \/ TooLarge(length)
      THEN InvalidRecord
      ELSE [type          |-> CHOOSE t \in types : TRUE,
            channel       |-> CHOOSE c \in channels : TRUE,
            sequence      |-> <<Number4(bytes, 5), Number4(bytes, 9)>>,
            plaintext_len |-> length]

-----------------------------------------------------------------------------
(* What goes to AES-256-GCM.                                               *)

(* Mutant: the header is not part of it.                                   *)
AadWithoutHeader(header) == <<>>

(* The suite, the hashes and the direction are those of the session; the   *)
(* header is what varies.                                                  *)
Aad(header) == header

(* The exclusive or of two bytes: the bits in which they differ.           *)
ByteXor(a, b) ==
  LET Differ(bit) == IF (a \div bit) % 2 = (b \div bit) % 2 THEN 0 ELSE bit
  IN  Differ(1) + Differ(2) + Differ(4) + Differ(8)
        + Differ(16) + Differ(32) + Differ(64) + Differ(128)

(* Mutant: only the last two bytes of the sequence number go in.           *)
NonceOfTwoBytes(sequence) ==
  [i \in 1..12 |-> IF i < 11 THEN Iv[i]
                   ELSE ByteXor(Iv[i], Bytes4(sequence[2])[i - 8])]

Nonce(sequence) ==
  LET hi == Bytes4(sequence[1])
      lo == Bytes4(sequence[2])
  IN  [i \in 1..12 |-> IF i < 5 THEN Iv[i]
                       ELSE ByteXor(Iv[i], IF i < 9 THEN hi[i - 4] ELSE lo[i - 8])]

-----------------------------------------------------------------------------
(* A record on the wire: the bytes of its header; how many bytes of body   *)
(* and tag follow, those of which sealed record they are and whether none  *)
(* was altered.                                                            *)
Nothing == [header |-> <<>>, rest |-> 0, of |-> 0, intact |-> FALSE]

NoResult == [verdict |-> "none", header |-> InvalidRecord, of |-> Nothing]

WireLength(w) == Len(w.header) + w.rest

(* Mutant: bytes after the tag are let through.                            *)
LengthFitsAtLeast(w, h) == WireLength(w) >= HEADER_LEN + h.plaintext_len + TAG_LEN

LengthFits(w, h) == WireLength(w) = HEADER_LEN + h.plaintext_len + TAG_LEN

Parse(w) ==
  IF WireLength(w) < HEADER_LEN + TAG_LEN THEN InvalidRecord
  ELSE LET h == Decode(w.header)
       IN  IF h # InvalidRecord /\ LengthFits(w, h) THEN h ELSE InvalidRecord

(* The body and the tag are the sealed ones only in full and at their      *)
(* places.                                                                 *)
Authentic(w, h) ==
  LET s == sealed[w.of]
  IN  /\ w.intact /\ w.rest = s.plaintext_len + TAG_LEN
      /\ h.plaintext_len = s.plaintext_len
      /\ h.channel = s.channel
      /\ Nonce(h.sequence) = s.nonce
      /\ Aad(w.header) = s.aad

-----------------------------------------------------------------------------
(* A header with the nonce and the AAD its body is sealed with.            *)
SealedRecord(h) ==
  [type |-> h.type, channel |-> h.channel, sequence |-> h.sequence,
   plaintext_len |-> h.plaintext_len,
   nonce |-> Nonce(h.sequence), aad |-> Aad(Encoded(h))]

(* Session::seal_raw allows data on the data channels, control without a   *)
(* payload on the guard.  Records that nobody looks at may be sealed       *)
(* before, so sequence numbers skip.                                       *)
Seal(type, channel, n, sequence) ==
  LET h == [type |-> type, channel |-> channel, sequence |-> <<0, sequence>>,
            plaintext_len |-> n]
  IN  /\ (type = "data") <=> (channel # "guard")
      /\ type # "data" => n = 0
      /\ wire = Nothing /\ Len(sealed) < MaxSealed
      /\ n <= MAX_PLAINTEXT /\ sequence >= next_sequence[channel]
      /\ sealed' = Append(sealed, SealedRecord(h))
      /\ wire' = [header |-> Encoded(h), rest |-> n + TAG_LEN,
                  of |-> Len(sealed) + 1, intact |-> TRUE]
      /\ next_sequence' = [next_sequence EXCEPT ![channel] = sequence + 1]
      /\ faults' = 0
      /\ result' = NoResult

(* Faults of the transport.                                                *)
Fault ==
  /\ Len(sealed) + faults < MaxFaults
  /\ faults' = faults + 1
  /\ UNCHANGED <<next_sequence, sealed, result>>

AlterHeader(i, b) ==
  /\ Fault /\ i \in DOMAIN wire.header
  /\ wire' = [wire EXCEPT !.header[i] = b]

AlterRest ==
  /\ Fault /\ wire.rest > 0
  /\ wire' = [wire EXCEPT !.intact = FALSE]

Cut(n) ==
  /\ Fault /\ n <= WireLength(wire)
  /\ wire' = IF n <= wire.rest THEN [wire EXCEPT !.rest = @ - n]
             ELSE [wire EXCEPT !.rest = 0,
                     !.header = SubSeq(@, 1, WireLength(wire) - n)]

(* Bytes added where some were cut off are other bytes.                    *)
Extend(n) ==
  /\ Fault /\ Len(wire.header) = HEADER_LEN
  /\ wire' = [wire EXCEPT !.rest = @ + n,
                !.intact = @ /\ wire.rest >= sealed[wire.of].plaintext_len + TAG_LEN]

(* parse, then CryptoContext::open with the context of the parsed channel. *)
Receive ==
  LET h == Parse(wire)
  IN  /\ wire # Nothing
      /\ result' = [verdict |-> CASE h = InvalidRecord     -> "invalid"
                                  [] ~Authentic(wire, h)   -> "authentication_failed"
                                  [] OTHER                 -> "opened",
                    header |-> h, of |-> wire]
      /\ wire' = Nothing
      /\ UNCHANGED <<next_sequence, sealed, faults>>

Init ==
  /\ next_sequence = [c \in Channels |-> 0]
  /\ sealed = <<>> /\ wire = Nothing /\ faults = 0 /\ result = NoResult

Next ==
  \/ \E t \in Types, c \in Channels, n \in Lengths, q \in Sequences : Seal(t, c, n, q)
  \/ \E i \in 1..HEADER_LEN, b \in ForgedBytes : AlterHeader(i, b)
  \/ \E t \in Types : AlterHeader(2, TypeByte[t])
  \/ AlterRest
  \/ \E n \in Cuts : Cut(n) \/ Extend(n)
  \/ Receive

Spec == Init /\ [][Next]_vars

-----------------------------------------------------------------------------
(* The header and the wire of what was sealed.                             *)
HeaderOf(s) == [type |-> s.type, channel |-> s.channel,
                sequence |-> s.sequence, plaintext_len |-> s.plaintext_len]
Untouched(w) ==
  /\ w.header = Encoded(HeaderOf(sealed[w.of]))
  /\ w.rest = sealed[w.of].plaintext_len + TAG_LEN /\ w.intact

(* A record opens as the one that was sealed (its type, channel, sequence  *)
(* number and length) when nothing of it was altered, cut off or added,    *)
(* the empty and the largest one included, and never otherwise: not even   *)
(* when a second fault makes up for the length the first one changed.      *)
OpensExactlySealed ==
  result # NoResult =>
    /\ result.verdict = "opened" <=> Untouched(result.of)
    /\ result.verdict = "opened" => result.header = HeaderOf(sealed[result.of.of])

(* There is one way to write a record: what parses is the encoding of what *)
(* was parsed, to the last byte.                                           *)
ParseExact ==
  result.header # InvalidRecord =>
    /\ Encoded(result.header) = result.of.header
    /\ WireLength(result.of) = HEADER_LEN + result.header.plaintext_len + TAG_LEN
    /\ result.header.plaintext_len <= MAX_PLAINTEXT

(* Two records of a channel never have the same nonce, however far apart   *)
(* their sequence numbers are.                                             *)
NonceOnce ==
  \A m, n \in DOMAIN sealed :
    sealed[m].channel = sealed[n].channel /\ sealed[m].nonce = sealed[n].nonce
      => m = n

=============================================================================
