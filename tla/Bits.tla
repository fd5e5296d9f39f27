-------------------------------- MODULE Bits --------------------------------
(***************************************************************************)
(* The bit helpers of src/shared_lib/src/bits.rs.  A u64 is the set of the *)
(* positions of its one bits, so that 64 bits need no large number.        *)
(***************************************************************************)
EXTENDS Naturals, FiniteSets

Word == 0 .. 63

\* the number n (below 2^31) as a set of bits
BitsOf(n) == {b \in 0 .. 30 : (n \div 2^b) % 2 = 1}

ShiftLeft(num, n) == {b + n : b \in num} \cap Word
ShiftRight(num, n) == {b - n : b \in {c \in num : c >= n}}

\* set_bit
SetBit(num, n, value) == IF value THEN num \cup {n} ELSE num \ {n}

\* set_bits: ors the mask in, and clears nothing
SetBits(num, mask, shift) == num \cup ShiftLeft(mask, shift)

\* get_bits(num, start..end): the mask is all ones >> end, which keeps
\* 64 - end bits, whatever start is
GetBits(num, start, end) ==
  IF end # 64 THEN ShiftRight(num, start) \cap 0 .. 63 - end
              ELSE ShiftRight(num, start)
============================================================================
