------------------------------- MODULE Bitmap -------------------------------
(***************************************************************************)
(* Masks of libnuma (libnuma.c, numaint.h) and the two texts that the      *)
(* kernel writes masks in.  A mask has a size in bits and words of         *)
(* LongBits bits, of which the last may have bits beyond the size; a text  *)
(* is the sequence of its fields of IntBits bits, the highest first, and a *)
(* field is the set of its bits.                                           *)
(***************************************************************************)
EXTENDS Integers, Sequences, FiniteSets

CONSTANT IntBits        \* bits of an unsigned int, two of which make a long

ASSUME IntBitsAssumption == IntBits \in Nat \ {0}

LongBits == 2 * IntBits
howmany(x, y) == (x + y - 1) \div y
round_up(x, y) == howmany(x, y) * y
Longs(size) == howmany(size, LongBits)

Mask(size, bits) == [size |-> size, bits |-> bits]
numa_bitmask_alloc(n) == Mask(n, {})

numa_bitmask_isbitset(m, n) == n < m.size /\ n \in m.bits
\* The bits that isbitset, equal and weight see.
Seen(m) == {n \in m.bits : n < m.size}
numa_bitmask_weight(m) == Cardinality(Seen(m))
numa_bitmask_equal(m1, m2) == Seen(m1) = Seen(m2)

SetBits(m, S) == [m EXCEPT !.bits = @ \cup {n \in S : n < m.size}]
numa_bitmask_setbit(m, n) == SetBits(m, {n})
ClearBits(m, S) == [m EXCEPT !.bits = @ \ {n \in S : n < m.size}]
numa_bitmask_setall(m) == SetBits(m, 0 .. m.size - 1)
numa_bitmask_clearall(m) == ClearBits(m, 0 .. m.size - 1)

\* Whole words are copied, as many as fit; the rest of the target is cleared.
copy_bitmask_to_bitmask(from, to) ==
    [to EXCEPT !.bits = {n \in from.bits : n < Longs(to.size) * LongBits}]
----------------------------------------------------------------------------
\* The kernel prints a mask of nbits bits.
Printed(S, nbits) ==
    [k \in 1 .. howmany(nbits, IntBits) |->
        {b \in 0 .. IntBits - 1 : IntBits * (howmany(nbits, IntBits) - k) + b \in S}]

\* The bits of the fields of a text from the first-th on.
BitsOf(line, first) ==
    UNION {{IntBits * (Len(line) - k) + b : b \in line[k]} : k \in first .. Len(line)}

Failed == -1

\* Leading zeros are skipped; 0 for a text of zeros.
FirstField(line) ==
    IF \A k \in DOMAIN line : line[k] = {} THEN 0
    ELSE CHOOSE k \in DOMAIN line :
            line[k] # {} /\ \A j \in 1 .. k - 1 : line[j] = {}

\* read_mask: the number of bits set, or -1 for none or too many.
read_mask(line, m) ==
    LET first == FirstField(line)
        full == [m EXCEPT !.bits = BitsOf(line, first)]
    IN IF first = 0 \/ Len(line) - first + 1 > howmany(m.size, IntBits)
       THEN [ret |-> Failed, mask |-> m]
       ELSE [ret |-> numa_bitmask_weight(full), mask |-> full]

\* numa_parse_bitmap: fields are taken in pairs from the end, zeros or not.
numa_parse_bitmap(line, m) ==
    IF howmany(Len(line), 2) > Longs(m.size)
    THEN [ret |-> Failed, mask |-> m]
    ELSE [ret |-> 0, mask |-> IF line = <<>> THEN m ELSE [m EXCEPT !.bits = BitsOf(line, 1)]]
=============================================================================
