-------------------------------- MODULE Crc ---------------------------------
(***************************************************************************)
(* src/shared_lib/src/crc.rs: the checksum of the GPT, fed chunk by chunk  *)
(* as parse_gpt feeds sectors.  A u32 is the set of its one bits.          *)
(***************************************************************************)
EXTENDS Bits, SequencesExt

CONSTANTS Input,    \* messages, sequences of bytes as numbers
          MaxChunk  \* longest chunk

u32 == 0 .. 31
Xor(a, b) == SymDiff(a, b)
Not(a) == u32 \ a

\* 0xEDB88320
Polynomial == {5, 8, 9, 15, 19, 20, 21, 23, 24, 26, 27, 29, 30, 31}

\* one turn of the loop over j
TableStep(s) ==
  [ch  |-> ShiftRight(s.ch, 1),
   crc |-> LET half == ShiftRight(s.crc, 1)
           IN  IF 0 \in Xor(s.ch, s.crc) THEN Xor(half, Polynomial) ELSE half]

Turns(i, n) ==
  LET After[j \in 0 .. n] == IF j = 0 THEN [ch |-> i, crc |-> {}] ELSE TableStep(After[j - 1])
  IN  After[n].crc

CRC32_TABLE_SevenTurns == [i \in SUBSET (0 .. 7) |-> Turns(i, 7)]

CRC32_TABLE == [i \in SUBSET (0 .. 7) |-> Turns(i, 8)]

\* the loop over the bytes of a chunk
calculate_crc32_partial(bytes, crc) ==
  LET After[k \in 0 .. Len(bytes)] ==
        IF k = 0 THEN crc
        ELSE LET c == After[k - 1]
             IN  Xor(ShiftRight(c, 8), CRC32_TABLE[Xor(BitsOf(bytes[k]), c) \cap 0 .. 7])
  IN  After[Len(bytes)]

calculate_crc32(bytes) == Not(calculate_crc32_partial(bytes, u32))

----------------------------------------------------------------------------
(* The reference: the remainder of the message, low bit of each byte first *)
(* and its first 32 bits inverted, divided by 0x04C11DB7, high bit first.  *)

Divisor == {0, 1, 2, 4, 5, 7, 8, 10, 11, 12, 16, 22, 23, 26}

MessageBits(m) == [k \in 1 .. 8 * Len(m) |-> (k - 1) % 8 \in BitsOf(m[(k + 7) \div 8])]

\* the division goes on from the remainder r of what precedes m
Divide(m, r) ==
  LET bits == MessageBits(m)
      After[k \in 0 .. Len(bits)] ==
        IF k = 0 THEN r
        ELSE LET s == After[k - 1]
                 twice == ShiftLeft(s, 1) \cap u32
             IN  IF bits[k] # (31 \in s) THEN Xor(twice, Divisor) ELSE twice
  IN  After[Len(bits)]

----------------------------------------------------------------------------
VARIABLES input, done, entries_checksum,
          remainder   \* of done, by the reference

crcVars == <<input, done, entries_checksum, remainder>>

CrcInit == input \in Input /\ done = <<>> /\ entries_checksum = u32 /\ remainder = u32

Slices ==
  {SubSeq(input, Len(done) + 1, Len(done) + n) : n \in 1 .. Min({MaxChunk, Len(input) - Len(done)})}

\* parse_gpt adds the next sector
Chunk ==
  \E entry_slice \in Slices :
    /\ entries_checksum' = calculate_crc32_partial(entry_slice, entries_checksum)
    /\ done' = done \o entry_slice
    /\ remainder' = Divide(entry_slice, remainder)
    /\ UNCHANGED input

CrcNext == Chunk

CrcSpec == CrcInit /\ [][CrcNext]_crcVars

----------------------------------------------------------------------------
\* "CCITT32 ANSI CRC with the polynomial 0x04c11db7 / 0xEDB88320": the checksum
\* of the table, however the message is cut into chunks, is the remainder of
\* the division by the polynomial, bits reversed; calculate_crc32, over the
\* whole message, gives the same, inverted.
ChecksumIsRemainder ==
  /\ entries_checksum = {31 - b : b \in remainder}
  /\ calculate_crc32(done) = Not(entries_checksum)
============================================================================
