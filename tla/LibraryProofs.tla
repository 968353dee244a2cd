--------------------------- MODULE LibraryProofs ---------------------------
(***************************************************************************)
(* Proofs about Library: any machines, sizes of masks and words, any lists *)
(* of nodes passed, whatever of sysfs and /proc cannot be read.            *)
(***************************************************************************)
EXTENDS Library, FiniteSetTheorems, WellFoundedInduction, TLAPS

----------------------------------------------------------------------------
(* Numbers *)

LEMMA DivMod ==
  ASSUME NEW x \in Nat, NEW d \in Nat \ {0}
  PROVE  x = d * (x \div d) + (x % d) /\ x % d \in 0 .. d - 1 /\ x \div d \in Nat
OBVIOUS

LEMMA HowMany ==
  ASSUME NEW x \in Nat, NEW d \in Nat \ {0}
  PROVE  /\ howmany(x, d) \in Nat /\ x <= d * howmany(x, d)
         /\ \A q \in Nat : x <= d * q => howmany(x, d) <= q
         /\ \A q \in Nat : q * d < x => q < howmany(x, d)
<1> DEFINE y == x + d - 1
           h == y \div d
<1>1. y \in Nat
  OBVIOUS
<1> HIDE DEF y
<1>2. y = d * h + (y % d) /\ y % d \in 0 .. d - 1 /\ h \in Nat
  BY <1>1, DivMod
<1>3. howmany(x, d) = h
  BY DEF howmany, y
<1> HIDE DEF h
<1>4. d * h \in Nat /\ x <= d * h /\ d * h < x + d
  BY <1>2 DEF y
<1>5. ASSUME NEW q \in Nat, x <= d * q PROVE h <= q
  <2>1. CASE h > q
    <3>1. d * h >= d * (q + 1)
      BY <1>2, <2>1
    <3>2. d * (q + 1) = d * q + d /\ d * q \in Nat
      OBVIOUS
    <3> QED BY <1>4, <1>5, <3>1, <3>2
  <2> QED BY <1>2, <2>1
<1>6. ASSUME NEW q \in Nat, q * d < x PROVE q < h
  <2>1. CASE q >= h
    <3>1. q * d >= d * h
      BY <1>2, <2>1
    <3>2. q * d \in Nat
      OBVIOUS
    <3> QED BY <1>4, <1>6, <3>1, <3>2
  <2> QED BY <1>2, <2>1
<1> QED BY <1>2, <1>3, <1>4, <1>5, <1>6

\* A set of numbers has a least one, and one below a bound a greatest.
LEMMA Least ==
  ASSUME NEW S \in SUBSET Nat, S # {}
  PROVE  Min(S) \in S /\ \A y \in S : Min(S) <= y
<1> DEFINE Less == OpToRel(<, Nat)
<1>1. IsWellFoundedOn(Less, Nat)
  BY NatLessThanWellFounded
<1>2. \A x, y \in Nat : <<y, x>> \in Less <=> y < x
  BY DEF OpToRel
<1> HIDE DEF Less
<1>3. \E x \in S : \A y \in S : ~(<<y, x>> \in Less)
  BY <1>1, WFMin, Zenon
<1>4. PICK x \in S : \A y \in S : ~(y < x)
  BY <1>2, <1>3
<1>5. \A y \in S : x <= y
  BY <1>4
<1> QED BY <1>5 DEF Min

LEMMA Greatest ==
  ASSUME NEW N \in Nat, NEW S \in SUBSET (0 .. N), S # {}
  PROVE  Max(S) \in S /\ \A y \in S : Max(S) >= y
<1> DEFINE T == {N - x : x \in S}
<1>1. T \in SUBSET Nat /\ T # {}
  <2>1. \A x \in S : N - x \in Nat
    OBVIOUS
  <2>2. PICK x \in S : TRUE
    OBVIOUS
  <2>3. N - x \in T
    BY <2>2
  <2> QED BY <2>1, <2>3
<1>2. Min(T) \in T /\ \A y \in T : Min(T) <= y
  <2> HIDE DEF T
  <2> QED BY <1>1, Least
<1>3. PICK x \in S : Min(T) = N - x
  BY <1>2
<1>4. \A y \in S : N - x <= N - y
  BY <1>2, <1>3
<1>5. \A y \in S : x >= y
  <2> TAKE y \in S
  <2>1. x \in Int /\ y \in Int /\ N - x <= N - y
    BY <1>4
  <2> QED BY <2>1
<1> QED BY <1>5 DEF Max

----------------------------------------------------------------------------
(* Masks and their texts *)

\* The text of a mask: Fields(n) fields, of which field k has the bits from Low(n, k) on.
Fields(n) == howmany(n, IntBits)

LEMMA PrintedFields ==
  ASSUME NEW S, NEW n \in Nat
  PROVE  /\ Fields(n) \in Nat
         /\ Len(Printed(S, n)) = Fields(n) /\ DOMAIN Printed(S, n) = 1 .. Fields(n)
         /\ \A k \in 1 .. Fields(n) : Printed(S, n)[k] =
               {b \in 0 .. IntBits - 1 : IntBits * (Fields(n) - k) + b \in S}
<1>1. Fields(n) \in Nat
  BY HowMany, IntBitsAssumption DEF Fields
<1>2. Printed(S, n) = [k \in 1 .. Fields(n) |->
                         {b \in 0 .. IntBits - 1 : IntBits * (Fields(n) - k) + b \in S}]
  BY DEF Printed, Fields
<1>3. DOMAIN Printed(S, n) = 1 .. Fields(n)
  BY <1>2
<1>4. Len(Printed(S, n)) = Fields(n)
  BY <1>1, <1>3
<1> QED BY <1>1, <1>2, <1>3, <1>4

\* Where a bit is in the text.
LEMMA FieldOf ==
  ASSUME NEW S, NEW n \in Nat, NEW x \in S, x \in 0 .. n - 1
  PROVE  \E k \in 1 .. Fields(n), b \in 0 .. IntBits - 1 :
            /\ b \in Printed(S, n)[k] /\ x = IntBits * (Fields(n) - k) + b
<1> DEFINE q == x \div IntBits
           b == x % IntBits
           h == Fields(n)
<1>1. x \in Nat /\ x < n /\ IntBits \in Nat \ {0}
  BY IntBitsAssumption
<1>2. x = IntBits * q + b /\ b \in 0 .. IntBits - 1 /\ q \in Nat
  BY <1>1, DivMod
<1>3. h \in Nat /\ n <= IntBits * h
  BY <1>1, HowMany DEF Fields
<1> HIDE DEF q, b, h
<1>4. q < h
  <2>1. CASE q >= h
    <3>1. IntBits * q >= IntBits * h /\ IntBits * q \in Nat /\ IntBits * h \in Nat
      BY <1>1, <1>2, <1>3, <2>1
    <3> QED BY <1>1, <1>2, <1>3, <3>1
  <2> QED BY <1>2, <1>3, <2>1
<1> DEFINE k == h - q
<1>5. k \in 1 .. h /\ h - k = q
  BY <1>2, <1>3, <1>4
<1> HIDE DEF k
<1>6. x = IntBits * (h - k) + b
  BY <1>2, <1>5
<1>7. b \in Printed(S, n)[k]
  <2>1. Printed(S, n)[k] = {c \in 0 .. IntBits - 1 : IntBits * (h - k) + c \in S}
    BY <1>5, PrintedFields DEF h
  <2> QED BY <1>2, <1>6, <2>1
<1> QED BY <1>2, <1>5, <1>6, <1>7 DEF h

\* Reading a text back gives the mask it was printed from, where the fields
\* left out are empty.
LEMMA ReadBack ==
  ASSUME NEW n \in Nat, NEW S \in SUBSET (0 .. n - 1), NEW first \in Nat \ {0},
         \A k \in 1 .. Fields(n) : k < first => Printed(S, n)[k] = {}
  PROVE  BitsOf(Printed(S, n), first) = S
<1> DEFINE line == Printed(S, n)
           h == Fields(n)
<1>1. /\ Len(line) = h /\ h \in Nat
      /\ \A k \in 1 .. h : line[k] = {b \in 0 .. IntBits - 1 : IntBits * (h - k) + b \in S}
  BY PrintedFields
<1> HIDE DEF line, h
<1>2. ASSUME NEW x \in S PROVE x \in BitsOf(line, first)
  <2>1. PICK k \in 1 .. h, b \in 0 .. IntBits - 1 : b \in line[k] /\ x = IntBits * (h - k) + b
    BY FieldOf DEF line, h
  <2>2. k \in first .. h
    <3>1. ~(k < first)
      BY <2>1 DEF line, h
    <3> QED BY <1>1, <2>1, <3>1
  <2> QED BY <1>1, <2>1, <2>2 DEF BitsOf
<1>3. ASSUME NEW x \in BitsOf(line, first) PROVE x \in S
  <2>1. PICK k \in first .. h : \E b \in line[k] : x = IntBits * (h - k) + b
    BY <1>1 DEF BitsOf
  <2>2. k \in 1 .. h
    BY <1>1, <2>1
  <2> QED BY <1>1, <2>1, <2>2
<1> QED BY <1>2, <1>3 DEF line

\* The first field that is not empty.
LEMMA FirstIs ==
  ASSUME NEW n \in Nat, NEW S \in SUBSET (0 .. n - 1), S # {}
  PROVE  /\ FirstField(Printed(S, n)) \in 1 .. Fields(n)
         /\ Printed(S, n)[FirstField(Printed(S, n))] # {}
         /\ \A k \in 1 .. Fields(n) : k < FirstField(Printed(S, n)) => Printed(S, n)[k] = {}
<1> DEFINE line == Printed(S, n)
           h == Fields(n)
           full == {k \in 1 .. h : line[k] # {}}
<1>1. DOMAIN line = 1 .. h /\ h \in Nat
  BY PrintedFields
<1>2. full # {}
  <2>1. PICK x \in S : TRUE
    OBVIOUS
  <2>2. x \in 0 .. n - 1
    OBVIOUS
  <2>3. PICK k \in 1 .. h : line[k] # {}
    BY <2>2, FieldOf
  <2> QED BY <2>3
<1> HIDE DEF line, h
<1>3. full \in SUBSET Nat
  BY <1>1
<1> DEFINE m == Min(full)
<1>4. m \in full /\ \A y \in full : m <= y
  <2> HIDE DEF full
  <2> QED BY <1>2, <1>3, Least
<1> HIDE DEF m
<1>5. m \in DOMAIN line /\ line[m] # {} /\ \A j \in 1 .. m - 1 : line[j] = {}
  <2>1. ASSUME NEW j \in 1 .. m - 1, line[j] # {} PROVE FALSE
    <3>1. m \in 1 .. h
      BY <1>4
    <3>2. j \in 1 .. h /\ j < m
      BY <1>1, <3>1
    <3>3. m <= j
      BY <1>4, <2>1, <3>2
    <3> QED BY <3>1, <3>2, <3>3
  <2> QED BY <1>1, <1>4, <2>1
<1> DEFINE P(k) == line[k] # {} /\ \A j \in 1 .. k - 1 : line[j] = {}
           f == CHOOSE k \in DOMAIN line : P(k)
<1>6. f \in DOMAIN line /\ P(f)
  <2> HIDE DEF P
  <2>1. \E k \in DOMAIN line : P(k)
    BY <1>5 DEF P
  <2> QED BY <2>1
<1>7. FirstField(line) = f
  BY <1>5 DEF FirstField
<1> HIDE DEF f
<1>8. ASSUME NEW k \in 1 .. h, k < f PROVE line[k] = {}
  <2>1. f \in 1 .. h /\ k \in 1 .. f - 1
    BY <1>1, <1>6, <1>8
  <2> QED BY <1>6, <2>1
<1> QED BY <1>1, <1>6, <1>7, <1>8 DEF line, h

\* read_mask: all bits of the text or a refusal, and no refusal of a text whose
\* bits fit.
LEMMA ReadMask ==
  ASSUME NEW n \in Nat, NEW S \in SUBSET (0 .. n - 1), S # {}, NEW m \in Masks
  PROVE  LET r == read_mask(Printed(S, n), m)
             full == [size |-> m.size, bits |-> S]
         IN  /\ r = [ret |-> Failed, mask |-> m] \/ r = [ret |-> Cardinality(Seen(full)), mask |-> full]
             /\ S \subseteq 0 .. m.size - 1 => r = [ret |-> Cardinality(Seen(full)), mask |-> full]
<1> DEFINE line == Printed(S, n)
           h == Fields(n)
           first == FirstField(line)
           full == [size |-> m.size, bits |-> S]
           room == howmany(m.size, IntBits)
           fits == ~(first = 0 \/ Len(line) - first + 1 > room)
<1>1. Len(line) = h /\ h \in Nat
  BY PrintedFields
<1>2. first \in 1 .. h /\ line[first] # {} /\ \A k \in 1 .. h : k < first => line[k] = {}
  BY FirstIs
<1>3. BitsOf(line, first) = S
  <2>1. first \in Nat \ {0}
    BY <1>1, <1>2
  <2> HIDE DEF first
  <2> QED BY <1>2, <2>1, ReadBack
<1>4. [m EXCEPT !.bits = BitsOf(line, first)] = full
  BY <1>3 DEF Masks
<1>5. read_mask(line, m) = IF fits THEN [ret |-> Cardinality(Seen(full)), mask |-> full]
                           ELSE [ret |-> Failed, mask |-> m]
  <2> HIDE DEF line, full
  <2> QED BY <1>4 DEF read_mask, numa_bitmask_weight
<1>6. ASSUME S \subseteq 0 .. m.size - 1 PROVE fits
  <2>1. PICK b \in line[first] : TRUE
    BY <1>2
  <2>2. b \in 0 .. IntBits - 1 /\ IntBits * (h - first) + b \in S
    BY <1>2, <2>1, PrintedFields
  <2>3. IntBits * (h - first) + b < m.size /\ m.size \in Nat
    <3> DEFINE x == IntBits * (h - first) + b
    <3>1. x \in S /\ m.size \in Nat
      BY <2>2 DEF Masks
    <3> HIDE DEF x
    <3>2. x \in 0 .. m.size - 1
      BY <1>6, <3>1
    <3>3. x < m.size
      BY <3>1, <3>2
    <3> QED BY <3>1, <3>3 DEF x
  <2> DEFINE q == h - first
  <2>4. q \in Nat
    BY <1>1, <1>2
  <2>5. q * IntBits < m.size
    <3>1. IntBits * q \in Nat /\ q * IntBits = IntBits * q /\ b \in Nat /\ IntBits * q + b < m.size
      BY <2>2, <2>3, <2>4, IntBitsAssumption
    <3> HIDE DEF q
    <3> QED BY <2>3, <3>1
  <2>6. q < room /\ room \in Nat
    <3> HIDE DEF q
    <3> QED BY <2>3, <2>4, <2>5, HowMany, IntBitsAssumption
  <2> HIDE DEF room, first, line, h
  <2>7. first # 0 /\ h - first + 1 <= room
    BY <1>1, <1>2, <2>6
  <2> QED BY <1>1, <1>2, <2>6, <2>7
<1> HIDE DEF fits, full, line
<1> QED BY <1>5, <1>6 DEF full, line

\* The same, of the answer r to a text of the bits S.
MaskRead(r, m, S) ==
    LET full == [size |-> m.size, bits |-> S]
    IN  /\ r = [ret |-> Failed, mask |-> m] \/ r = [ret |-> Cardinality(Seen(full)), mask |-> full]
        /\ S \subseteq 0 .. m.size - 1 => r = [ret |-> Cardinality(Seen(full)), mask |-> full]

LEMMA MaskIsRead ==
  ASSUME NEW n \in Nat, NEW S \in SUBSET (0 .. n - 1), S # {}, NEW m \in Masks
  PROVE  MaskRead(read_mask(Printed(S, n), m), m, S)
BY ReadMask DEF MaskRead

\* numa_parse_bitmap: what it accepts is what was printed, within the words of the mask.
LEMMA ParseBitmap ==
  ASSUME NEW n \in Nat \ {0}, NEW S \in SUBSET (0 .. n - 1), NEW m \in Masks,
         numa_parse_bitmap(Printed(S, n), m).ret = 0
  PROVE  /\ numa_parse_bitmap(Printed(S, n), m).mask.bits = S
         /\ S \subseteq 0 .. Longs(m.size) * LongBits - 1
<1> DEFINE line == Printed(S, n)
           h == Fields(n)
           w == Longs(m.size)
<1>1. Len(line) = h /\ h \in Nat /\ DOMAIN line = 1 .. h
  BY PrintedFields
<1>2. IntBits \in Nat \ {0} /\ n <= IntBits * h
  BY HowMany, IntBitsAssumption DEF Fields
<1>3. BitsOf(line, 1) = S
  <2>1. \A k \in 1 .. h : ~(k < 1)
    BY <1>1
  <2> HIDE DEF h, line
  <2>2. 1 \in Nat \ {0}
    OBVIOUS
  <2> QED BY <2>1, <2>2, ReadBack DEF h, line
<1>4. ~(howmany(Len(line), 2) > w)
  <2>1. Failed # 0
    BY DEF Failed
  <2> HIDE DEF line, w
  <2> QED BY <2>1 DEF numa_parse_bitmap, w, line
<1>5. w \in Nat /\ howmany(h, 2) \in Nat /\ h <= 2 * howmany(h, 2)
  <2>1. LongBits \in Nat \ {0} /\ m.size \in Nat
    BY IntBitsAssumption DEF LongBits, Masks
  <2>2. w \in Nat
    BY <2>1, HowMany DEF Longs
  <2>3. 2 \in Nat \ {0}
    OBVIOUS
  <2> HIDE DEF h
  <2>4. howmany(h, 2) \in Nat /\ h <= 2 * howmany(h, 2)
    BY <1>1, <2>3, HowMany
  <2> QED BY <2>2, <2>4
<1>6. h <= 2 * w
  <2> HIDE DEF h, w
  <2> QED BY <1>1, <1>4, <1>5
<1>7. IntBits * h <= w * LongBits
  <2> HIDE DEF h, w
  <2>1. IntBits * h <= IntBits * (2 * w)
    BY <1>1, <1>2, <1>5, <1>6
  <2>2. IntBits * (2 * w) = w * LongBits
    BY <1>2, <1>5 DEF LongBits
  <2> QED BY <2>1, <2>2
<1>8. S \subseteq 0 .. w * LongBits - 1
  <2> HIDE DEF h, w
  <2>1. w * LongBits \in Nat /\ IntBits * h \in Nat
    BY <1>1, <1>2, <1>5 DEF LongBits
  <2> QED BY <1>2, <1>7, <2>1
<1>9. line # <<>>
  <2>1. h # 0
    <3> HIDE DEF h
    <3> QED BY <1>2
  <2>2. Len(<<>>) = 0
    OBVIOUS
  <2> HIDE DEF line, h
  <2> QED BY <1>1, <2>1, <2>2
<1>10. numa_parse_bitmap(line, m).mask.bits = S
  <2>1. numa_parse_bitmap(line, m).mask = [m EXCEPT !.bits = S]
    <3> HIDE DEF line, w
    <3> QED BY <1>3, <1>4, <1>9 DEF numa_parse_bitmap, w
  <2> HIDE DEF line
  <2> QED BY <2>1 DEF Masks
<1> QED BY <1>8, <1>10

----------------------------------------------------------------------------
(* Types: what the constructor leaves. *)

LEMMA MaskOps ==
  ASSUME NEW m \in Masks, NEW S \in SUBSET Nat
  PROVE  /\ SetBits(m, S) = [size |-> m.size, bits |-> m.bits \cup {n \in S : n < m.size}]
         /\ ClearBits(m, S) = [size |-> m.size, bits |-> m.bits \ {n \in S : n < m.size}]
         /\ SetBits(m, S) \in Masks /\ ClearBits(m, S) \in Masks
BY DEF Masks, SetBits, ClearBits

LEMMA NewMask == ASSUME NEW n \in Nat
                 PROVE  numa_bitmask_alloc(n) = [size |-> n, bits |-> {}] /\ numa_bitmask_alloc(n) \in Masks
BY DEF Masks, numa_bitmask_alloc, Mask

LEMMA NoMaskIs == NoMask = [size |-> 0, bits |-> {}] /\ NoMask \in Masks
BY DEF Masks, NoMask, Mask

LEMMA SoundIs ==
  ASSUME NEW m, Sound(m)
  PROVE  /\ m \in Machine(m.nodes)
         /\ m.maxnodes \in Nat /\ m.nodeids \in Nat \ {0} /\ m.nodeids <= m.maxnodes
         /\ m.cpuids \in Nat \ {0} /\ m.nconf \in Nat \ {0} /\ m.nconf <= m.cpuids
         /\ m.nodes \in SUBSET (0 .. m.nodeids - 1) /\ m.nodes # {} /\ m.nodes \in SUBSET Nat
         /\ m.mems \in SUBSET m.nodes /\ m.mems # {} /\ m.cpusets \in BOOLEAN
         /\ m.mems \in SUBSET (0 .. m.maxnodes - 1)
         /\ m.cpus \in SUBSET (0 .. m.cpuids - 1) /\ m.runs \in SUBSET (0 .. m.cpuids - 1) /\ m.runs # {}
         /\ \A n \in m.nodes : m.cpumap[n] \in SUBSET (0 .. m.cpuids - 1)
<1>1. /\ m \in Machine(m.nodes) /\ m.maxnodes \in Nat /\ m.nodeids \in Nat /\ m.cpusets \in BOOLEAN
      /\ m.cpuids \in Nat \ {0} /\ m.nconf \in 1 .. m.cpuids /\ m.nodeids \in 1 .. m.maxnodes
  BY DEF Sound, Machine
<1>2. m.nodeids \in Nat \ {0} /\ m.nodeids <= m.maxnodes /\ m.nconf \in Nat \ {0} /\ m.nconf <= m.cpuids
  BY <1>1
<1>3. /\ m.nodes \in SUBSET (0 .. m.nodeids - 1) /\ m.nodes # {}
      /\ m.mems \in SUBSET m.nodes /\ m.mems # {}
      /\ m.cpus \in SUBSET (0 .. m.cpuids - 1) /\ m.runs \in SUBSET (0 .. m.cpuids - 1) /\ m.runs # {}
      /\ \A n \in m.nodes : m.cpumap[n] \in SUBSET (0 .. m.cpuids - 1)
  BY DEF Sound
<1>4. 0 .. m.nodeids - 1 \subseteq 0 .. m.maxnodes - 1 /\ 0 .. m.nodeids - 1 \subseteq Nat
  BY <1>1, <1>2
<1>5. m.mems \in SUBSET (0 .. m.maxnodes - 1) /\ m.nodes \in SUBSET Nat
  BY <1>3, <1>4
<1> QED BY <1>1, <1>2, <1>3, <1>5

\* The size that get_mempolicy accepts, or the last one tried.
LEMMA Tried ==
  ASSUME Sound(sys)
  PROVE  TriedSize \in Nat /\ (TriedSize >= sys.nodeids \/ TriedSize >= LastTry)
<1> DEFINE T == {s \in Tries : s >= sys.nodeids \/ s >= LastTry}
<1>1. T \in SUBSET Nat
  <2>1. \A k \in Nat : 2 ^ k \in Int
    OBVIOUS
  <2>2. Tries \subseteq Int
    BY <2>1, LibInitAssumption DEF Tries
  <2>3. sys.nodeids \in Nat /\ LastTry \in Nat
    BY SoundIs, LibInitAssumption
  <2>4. ASSUME NEW s \in T PROVE s \in Nat
    <3>1. s \in Int /\ (s >= sys.nodeids \/ s >= LastTry)
      BY <2>2
    <3> QED BY <2>3, <3>1
  <2> QED BY <2>4
<1>2. FirstTry * 2 ^ LastTry \in T
  BY LibInitAssumption DEF Tries
<1> HIDE DEF T
<1>3. Min(T) \in T
  BY <1>1, <1>2, Least
<1>4. TriedSize = Min(T)
  BY DEF TriedSize, T
<1> QED BY <1>1, <1>3, <1>4 DEF T

LEMMA FiniteBits ==
  ASSUME NEW n \in Nat, NEW S \in SUBSET (0 .. n)
  PROVE  IsFiniteSet(S) /\ Cardinality(S) \in Nat /\ (S # {} => Cardinality(S) > 0)
<1>1. IsFiniteSet(0 .. n)
  BY FS_Interval
<1>2. IsFiniteSet(S)
  BY <1>1, FS_Subset
<1>3. Cardinality(S) \in Nat /\ (Cardinality(S) = 0 <=> S = {})
  BY <1>2, FS_CardinalityType, FS_EmptySet
<1> DEFINE c == Cardinality(S)
<1>4. c \in Nat /\ c # 0 => c > 0
  OBVIOUS
<1> HIDE DEF c
<1> QED BY <1>2, <1>3, <1>4 DEF c

\* A line of the status file with the bits S, read into a new mask of size bits.
ReadAs(r, S, size) ==
    LET seen == {b \in S : b < size}
    IN  /\ r.ret \in Int /\ r.mask \in Masks /\ r.mask.size = size
        /\ Cardinality(seen) \in Nat /\ (seen # {} => Cardinality(seen) > 0)
        /\ \/ r.ret = Failed /\ Seen(r.mask) = {} /\ r.mask.bits = {}
           \/ r.ret = Cardinality(seen) /\ Seen(r.mask) = seen /\ r.mask.bits = S
        /\ S \subseteq 0 .. size - 1 => r.ret = Cardinality(S) /\ Seen(r.mask) = S

LEMMA LineRead ==
  ASSUME NEW n \in Nat \ {0}, NEW S \in SUBSET (0 .. n - 1), S # {}, NEW size \in Nat
  PROVE  ReadAs(read_mask(Printed(S, n), numa_bitmask_alloc(size)), S, size)
<1> DEFINE m == numa_bitmask_alloc(size)
           r == read_mask(Printed(S, n), m)
           full == [size |-> size, bits |-> S]
           seen == {b \in S : b < size}
           Goal == /\ r.ret \in Int /\ r.mask \in Masks /\ r.mask.size = size
                   /\ Cardinality(seen) \in Nat /\ (seen # {} => Cardinality(seen) > 0)
                   /\ \/ r.ret = Failed /\ Seen(r.mask) = {} /\ r.mask.bits = {}
                      \/ r.ret = Cardinality(seen) /\ Seen(r.mask) = seen /\ r.mask.bits = S
                   /\ S \subseteq 0 .. size - 1 => r.ret = Cardinality(S) /\ Seen(r.mask) = S
<1> SUFFICES Goal
  BY DEF ReadAs
<1>0. S \subseteq 0 .. n /\ S \subseteq Nat
  BY DEF Masks
<1>1. m = [size |-> size, bits |-> {}] /\ m \in Masks
  BY NewMask
<1>2. full \in Masks /\ Seen(full) = seen /\ Seen(m) = {}
  BY <1>0, <1>1 DEF Masks, Seen
<1>3. /\ r = [ret |-> Failed, mask |-> m] \/ r = [ret |-> Cardinality(Seen(full)), mask |-> full]
      /\ S \subseteq 0 .. size - 1 => r = [ret |-> Cardinality(Seen(full)), mask |-> full]
  <2>1. m.size = size /\ n \in Nat
    BY <1>1
  <2> HIDE DEF m
  <2>2. MaskRead(r, m, S)
    BY <1>1, <2>1, MaskIsRead, Zenon
  <2> HIDE DEF r
  <2> QED BY <2>1, <2>2 DEF MaskRead
<1>4. seen \in SUBSET (0 .. n)
  BY <1>0
<1>5. Cardinality(seen) \in Nat /\ (seen # {} => Cardinality(seen) > 0)
  <2>1. n \in Nat
    OBVIOUS
  <2> HIDE DEF seen
  <2> QED BY <1>4, <2>1, FiniteBits
<1>6. S \subseteq 0 .. size - 1 => seen = S
  <2>1. \A x \in 0 .. size - 1 : x < size
    OBVIOUS
  <2> QED BY <2>1
<1> HIDE DEF r, seen, m
<1>7. CASE r = [ret |-> Failed, mask |-> m]
  <2>1. ~(S \subseteq 0 .. size - 1)
    <3>1. Failed # Cardinality(seen)
      BY <1>5 DEF Failed
    <3> QED BY <1>2, <1>3, <1>7, <3>1
  <2> QED BY <1>1, <1>2, <1>5, <1>7, <2>1 DEF Failed
<1>8. CASE r = [ret |-> Cardinality(Seen(full)), mask |-> full]
  BY <1>2, <1>5, <1>6, <1>8
<1> QED BY <1>3, <1>7, <1>8

\* Bits below the size of a mask, set and cleared, are seen to be.
LEMMA SetSeen ==
  ASSUME NEW m \in Masks, NEW S \in SUBSET Nat, \A n \in S : n < m.size
  PROVE  SetBits(m, S) \in Masks /\ SetBits(m, S).size = m.size /\ Seen(SetBits(m, S)) = Seen(m) \cup S
<1>1. SetBits(m, S) = [size |-> m.size, bits |-> m.bits \cup {n \in S : n < m.size}] /\ SetBits(m, S) \in Masks
  BY MaskOps
<1>2. SetBits(m, S).size = m.size /\ SetBits(m, S).bits = m.bits \cup S
  BY <1>1
<1> QED BY <1>1, <1>2 DEF Seen

LEMMA ClearSeen ==
  ASSUME NEW m \in Masks, NEW S \in SUBSET Nat
  PROVE  ClearBits(m, S) \in Masks /\ Seen(ClearBits(m, S)) = Seen(m) \ S
<1>1. ClearBits(m, S) = [size |-> m.size, bits |-> m.bits \ {n \in S : n < m.size}] /\ ClearBits(m, S) \in Masks
  BY MaskOps
<1>2. ClearBits(m, S).size = m.size /\ ClearBits(m, S).bits = m.bits \ {n \in S : n < m.size}
  BY <1>1
<1> QED BY <1>1, <1>2 DEF Seen

LEMMA LinesTyped ==
  ASSUME Typed
  PROVE  /\ CpusLine.ret \in Int /\ CpusLine.mask \in Masks
         /\ MemsLine.ret \in Int /\ MemsLine.mask \in Masks
<1>1. lib.cpumask_sz \in Nat /\ lib.nodemask_sz \in Nat /\ lib.numprocnode \in Int /\ Sound(sys)
  BY DEF Typed, LibType
<1>2. /\ sys.cpuids \in Nat \ {0} /\ sys.runs \in SUBSET (0 .. sys.cpuids - 1) /\ sys.runs # {}
      /\ sys.maxnodes \in Nat \ {0} /\ sys.mems \in SUBSET (0 .. sys.maxnodes - 1) /\ sys.mems # {}
  <2>1. /\ sys.maxnodes \in Nat /\ sys.nodeids \in Nat \ {0} /\ sys.nodeids <= sys.maxnodes
    BY <1>1, SoundIs
  <2>2. sys.maxnodes \in Nat \ {0}
    BY <2>1
  <2> QED BY <1>1, <2>2, SoundIs
<1>3. CpusLine.ret \in Int /\ CpusLine.mask \in Masks
  <2>1. ReadAs(CpusLine, sys.runs, lib.cpumask_sz)
    BY <1>1, <1>2, LineRead DEF CpusLine, allocate_cpumask
  <2> QED BY <2>1 DEF ReadAs
<1>4. /\ read_mask(Printed(sys.mems, sys.maxnodes), allocate_nodemask).ret \in Int
      /\ read_mask(Printed(sys.mems, sys.maxnodes), allocate_nodemask).mask \in Masks
  <2>1. ReadAs(read_mask(Printed(sys.mems, sys.maxnodes), allocate_nodemask), sys.mems, lib.nodemask_sz)
    BY <1>1, <1>2, LineRead DEF allocate_nodemask
  <2> QED BY <2>1 DEF ReadAs
<1>5. allocate_nodemask \in Masks
  BY <1>1, NewMask DEF allocate_nodemask
<1> QED BY <1>1, <1>3, <1>4, <1>5 DEF MemsLine

LEMMA ConstraintsTyped ==
  ASSUME Typed
  PROVE  /\ CpuConstraint(CpusLine).ret \in Int /\ CpuConstraint(CpusLine).mask \in Masks
         /\ NodeConstraint(MemsLine).ret \in Int /\ NodeConstraint(MemsLine).mask \in Masks
<1> DEFINE c == CpusLine
           n == MemsLine
<1>1. hicpu \in Int /\ lib.maxconfigurednode \in Int
  BY DEF Typed, LibType, hicpu
<1>2. c.ret \in Int /\ c.mask \in Masks /\ n.ret \in Int /\ n.mask \in Masks
  BY LinesTyped
<1> HIDE DEF c, n
<1>3. 0 .. hicpu \in SUBSET Nat /\ 0 .. lib.maxconfigurednode \in SUBSET Nat
  BY <1>1
<1>4. ClearBits(c.mask, hicpu + 1 .. c.mask.size - 1) \in Masks
  BY <1>2 DEF ClearBits, Masks
<1>5. SetBits(c.mask, 0 .. hicpu) \in Masks /\ SetBits(n.mask, 0 .. lib.maxconfigurednode) \in Masks
  BY <1>2, <1>3, MaskOps
<1>6. CpuConstraint(c).ret \in Int /\ CpuConstraint(c).mask \in Masks
  BY <1>1, <1>2, <1>4, <1>5 DEF CpuConstraint
<1>7. NodeConstraint(n).ret \in Int /\ NodeConstraint(n).mask \in Masks
  BY <1>1, <1>2, <1>5 DEF NodeConstraint
<1> QED BY <1>6, <1>7 DEF c, n

LEMMA StartTyped ==
  ASSUME Typed, Start, UNCHANGED <<stale, v1, pol, calls>>
  PROVE  Typed'
<1>0. sys' = sys /\ faults' \in 0 .. MaxFaults
  BY LibInitAssumption DEF Start, Fault, Typed
<1> DEFINE Goal == lib' \in LibType /\ at' \in Steps /\ told' = [nodes |-> told'.nodes, status |-> told'.status]
<1>s. /\ sys.maxnodes \in Nat /\ sys.nodes \in SUBSET Nat /\ sys.nodeids \in Nat \ {0} /\ sys.nodes # {}
      /\ sys.nodes \in SUBSET (0 .. sys.nodeids - 1) /\ sys.cpuids \in Nat \ {0} /\ sys.nconf \in Nat
  BY SoundIs DEF Typed
<1>t. lib \in LibType /\ told = [nodes |-> told.nodes, status |-> told.status]
  BY DEF Typed
<1>1. ASSUME NEW works \in BOOLEAN, set_nodemask_size(works) PROVE Goal
  <2>1. howmany(sys.maxnodes, 4) * 4 \in Nat /\ TriedSize \in Nat
    <3>1. 4 \in Nat \ {0}
      OBVIOUS
    <3>2. howmany(sys.maxnodes, 4) \in Nat
      BY <1>s, <3>1, HowMany
    <3>3. TriedSize \in Nat
      BY Tried DEF Typed
    <3> QED BY <3>2, <3>3
  <2> DEFINE sz == IF works /\ sys.cpusets THEN howmany(sys.maxnodes, 4) * 4 ELSE TriedSize
  <2>2. sz \in Nat
    BY <2>1
  <2>3. lib' = [lib EXCEPT !.nodemask_sz = sz] /\ at' = "set_configured_nodes" /\ told' = told
    BY <1>1 DEF set_nodemask_size
  <2> HIDE DEF sz
  <2>4. lib' \in LibType
    BY <1>t, <2>2, <2>3 DEF LibType
  <2> QED BY <1>t, <2>3, <2>4 DEF Steps
<1>2. ASSUME NEW works \in BOOLEAN, set_configured_nodes(works) PROVE Goal
  <2> DEFINE found == IF works THEN sys.nodes ELSE {}
             nodes == SetBits(allocate_nodemask, found)
             high == IF works THEN HighestNode(found) ELSE 0
  <2>1. nodes \in Masks
    <3>1. found \in SUBSET Nat
      BY <1>s
    <3>2. allocate_nodemask \in Masks
      BY <1>t, NewMask DEF LibType, allocate_nodemask
    <3> HIDE DEF found
    <3> QED BY <3>1, <3>2, MaskOps
  <2>2. high \in Int
    <3>1. Max(sys.nodes) \in sys.nodes
      <4>1. sys.nodeids - 1 \in Nat
        BY <1>s
      <4> QED BY <1>s, <4>1, Greatest
    <3> QED BY <1>s, <3>1 DEF HighestNode
  <2>3. /\ lib' = [lib EXCEPT !.numa_nodes_ptr = nodes, !.numa_memnode_ptr = nodes,
                              !.maxconfigurednode = high]
        /\ at' = "set_numa_max_cpu"
        /\ told' = [told EXCEPT !.nodes = IF works THEN sys ELSE None]
    BY <1>2 DEF set_configured_nodes
  <2> HIDE DEF nodes, high
  <2>4. lib' \in LibType
    BY <1>t, <2>1, <2>2, <2>3 DEF LibType
  <2> QED BY <1>t, <2>3, <2>4 DEF Steps
<1>3. ASSUME NEW works \in BOOLEAN, set_numa_max_cpu(works) PROVE Goal
  <2> DEFINE sz == IF works THEN round_up(sys.cpuids, LongBits) ELSE GuessedCpus
  <2>1. sz \in Nat
    <3>1. LongBits \in Nat \ {0}
      BY IntBitsAssumption DEF LongBits
    <3>2. howmany(sys.cpuids, LongBits) \in Nat
      BY <1>s, <3>1, HowMany
    <3> QED BY <3>1, <3>2, LibInitAssumption DEF round_up
  <2>2. lib' = [lib EXCEPT !.cpumask_sz = sz] /\ at' = "set_configured_cpus" /\ told' = told
    BY <1>3 DEF set_numa_max_cpu
  <2> HIDE DEF sz
  <2>3. lib' \in LibType
    BY <1>t, <2>1, <2>2 DEF LibType
  <2> QED BY <1>t, <2>2, <2>3 DEF Steps
<1>4. ASSUME set_configured_cpus PROVE Goal
  <2>1. lib' = [lib EXCEPT !.maxconfiguredcpu = sys.nconf - 1] /\ at' = "set_task_constraints" /\ told' = told
    BY <1>4 DEF set_configured_cpus
  <2>2. lib' \in LibType
    BY <1>s, <1>t, <2>1 DEF LibType
  <2> QED BY <1>t, <2>1, <2>2 DEF Steps
<1>5. ASSUME NEW works \in BOOLEAN, set_task_constraints(works) PROVE Goal
  <2> DEFINE C == CpuConstraint(CpusLine)
             N == NodeConstraint(MemsLine)
             pc == SetBits(Allocated.numa_possible_cpus_ptr, 0 .. hicpu)
             pn == SetBits(Allocated.numa_possible_nodes_ptr, PossibleNodes)
  <2>1. C.ret \in Int /\ C.mask \in Masks /\ N.ret \in Int /\ N.mask \in Masks
    BY ConstraintsTyped
  <2>2. allocate_cpumask \in Masks /\ allocate_nodemask \in Masks
    BY <1>t, NewMask DEF LibType, allocate_nodemask, allocate_cpumask
  <2>3. Allocated \in LibType
    BY <1>t, <2>2 DEF LibType, Allocated
  <2>4. Allocated.numa_possible_cpus_ptr \in Masks /\ Allocated.numa_possible_nodes_ptr \in Masks
    BY <2>3 DEF LibType
  <2>5. hicpu \in Int /\ lib.maxconfigurednode \in Int
    BY <1>t DEF LibType, hicpu
  <2>6. 0 .. hicpu \in SUBSET Nat /\ PossibleNodes \in SUBSET Nat
    BY <2>5 DEF PossibleNodes
  <2>7. pc \in Masks /\ pn \in Masks
    BY <2>4, <2>6, MaskOps
  <2>8. /\ lib' = IF ~works THEN Allocated
                  ELSE [Allocated EXCEPT
                        !.numa_all_cpus_ptr = C.mask, !.numproccpu = C.ret,
                        !.numa_all_nodes_ptr = N.mask, !.numprocnode = N.ret,
                        !.numa_possible_cpus_ptr = pc, !.numa_possible_nodes_ptr = pn]
        /\ at' = "compat" /\ told' = [told EXCEPT !.status = IF works THEN sys ELSE None]
    BY <1>5 DEF set_task_constraints
  <2> HIDE DEF C, N, pc, pn
  <2>9. lib' \in LibType
    BY <2>1, <2>3, <2>7, <2>8 DEF LibType
  <2> QED BY <1>t, <2>8, <2>9 DEF Steps
<1>6. ASSUME SetAllNodes PROVE Goal
  <2>1. lib' = [lib EXCEPT !.numa_all_nodes = 0 .. numa_num_configured_nodes - 1] /\ at' = "ready" /\ told' = told
    BY <1>6 DEF SetAllNodes
  <2>2. 0 .. numa_num_configured_nodes - 1 \in SUBSET Int
    OBVIOUS
  <2>3. lib' \in LibType
    BY <1>t, <2>1, <2>2 DEF LibType
  <2> QED BY <1>t, <2>1, <2>3 DEF Steps
<1> HIDE DEF Goal
<1>7. Goal
  BY <1>1, <1>2, <1>3, <1>4, <1>5, <1>6 DEF Start
<1> QED BY <1>0, <1>7 DEF Typed, Goal

----------------------------------------------------------------------------
(* The calls. *)

\* A cpumap that was read is that of a node there was, and fits a mask.
LEMMA MapRead ==
  ASSUME CallInv, CpusSized, NEW n, NEW bad, ReadMap(n, bad).ret = 0
  PROVE  /\ n \in sys.nodes /\ n \in 0 .. numa_max_node
         /\ ReadMap(n, bad).mask.bits = sys.cpumap[n] /\ sys.cpumap[n] \subseteq AllOnes
<1>1. n \in InRange(sys.nodes \ bad)
  BY DEF ReadMap, Failed
<1>2. n \in sys.nodes /\ n \in 0 .. numa_max_node
  BY <1>1 DEF InRange
<1>3. /\ sys.cpuids \in Nat \ {0} /\ sys.cpumap[n] \in SUBSET (0 .. sys.cpuids - 1)
      /\ lib.cpumask_sz \in Nat
  BY <1>2, SoundIs DEF CallInv, Typed, LibType
<1>4. allocate_cpumask \in Masks /\ allocate_cpumask.size = lib.cpumask_sz
  BY <1>3, NewMask DEF allocate_cpumask
<1> DEFINE r == numa_parse_bitmap(Printed(sys.cpumap[n], sys.cpuids), allocate_cpumask)
<1>5. ReadMap(n, bad) = r
  BY <1>1 DEF ReadMap
<1>6. /\ r.mask.bits = sys.cpumap[n]
      /\ sys.cpumap[n] \subseteq 0 .. Longs(allocate_cpumask.size) * LongBits - 1
  <2>1. r.ret = 0
    BY <1>5
  <2> QED BY <1>3, <1>4, <2>1, ParseBitmap
<1>7. Longs(lib.cpumask_sz) * LongBits <= lib.cpumask_sz
  <2> DEFINE z == lib.cpumask_sz
             q == z \div LongBits
  <2>1. z \in Nat /\ z % LongBits = 0 /\ LongBits \in Nat \ {0}
    BY <1>3, IntBitsAssumption DEF CallInv, MapsFit, LongBits
  <2> HIDE DEF z
  <2>2. z = LongBits * q /\ q \in Nat
    <3>1. z = LongBits * q + (z % LongBits) /\ q \in Nat
      BY <2>1, DivMod
    <3> HIDE DEF q
    <3>2. LongBits * q \in Int
      BY <2>1, <3>1
    <3> QED BY <2>1, <3>1, <3>2
  <2> HIDE DEF q
  <2>3. howmany(z, LongBits) \in Nat /\ howmany(z, LongBits) <= q
    <3>1. z <= LongBits * q
      BY <2>1, <2>2
    <3> QED BY <2>1, <2>2, <3>1, HowMany
  <2>4. howmany(z, LongBits) * LongBits <= LongBits * q
    <3> DEFINE w == howmany(z, LongBits)
    <3>1. w \in Nat /\ w <= q
      BY <2>3
    <3> HIDE DEF w
    <3>2. w * LongBits <= LongBits * q
      BY <2>1, <2>2, <3>1
    <3> QED BY <3>2 DEF w
  <2> QED BY <2>2, <2>4 DEF Longs, z
<1>8. sys.cpumap[n] \subseteq AllOnes
  <2> DEFINE w == Longs(lib.cpumask_sz) * LongBits
  <2>1. sys.cpumap[n] \subseteq 0 .. w - 1 /\ w <= lib.cpumask_sz
    BY <1>4, <1>6, <1>7
  <2>2. w \in Int
    <3>1. LongBits \in Nat \ {0}
      BY IntBitsAssumption DEF LongBits
    <3>2. Longs(lib.cpumask_sz) \in Nat
      BY <1>3, <3>1, HowMany DEF Longs
    <3> QED BY <3>1, <3>2
  <2> HIDE DEF w
  <2>3. 0 .. w - 1 \subseteq 0 .. lib.cpumask_sz - 1
    BY <1>3, <2>1, <2>2
  <2> QED BY <2>1, <2>3 DEF AllOnes
<1> QED BY <1>2, <1>5, <1>6, <1>8

\* What is found for a node and read is cached afterwards.
LEMMA FoundFits ==
  ASSUME CallInv, CpusSized, NEW S, NEW bad, LookedUp(S, bad)
  PROVE  /\ \A n \in S : Reads(n, S, bad) => n \in DOMAIN cached' /\ cached'[n] = Found(n, S, bad)
         /\ \A n \in DOMAIN cached' : \/ n \in S /\ cached'[n] = Found(n, S, bad)
                                      \/ n \notin S /\ n \in DOMAIN cached /\ cached'[n] = cached[n]
         /\ DOMAIN cached' \subseteq 0 .. numa_max_node
         /\ \A n \in DOMAIN cached' : cached'[n] \subseteq AllOnes
         /\ stale' \in BOOLEAN
<1>1. /\ cached' = [n \in DOMAIN cached \cup {x \in S : Reads(x, S, bad)} |->
                        IF n \in S THEN Found(n, S, bad) ELSE cached[n]]
      /\ stale' = (stale /\ InRange(S) = {})
  BY DEF LookedUp
<1>2. ASSUME NEW n, Reads(n, S, bad) PROVE n \in 0 .. numa_max_node
  <2>1. CASE ReadMap(n, bad).ret = 0
    BY <2>1, MapRead
  <2>2. CASE ~MustRead(n, S)
    BY <2>2 DEF MustRead, CallInv, MapsFit
  <2> QED BY <1>2, <2>1, <2>2 DEF Reads
<1>3. ASSUME NEW n \in DOMAIN cached \cup {x \in S : Reads(x, S, bad)} PROVE Found(n, S, bad) \subseteq AllOnes
  <2>1. CASE ~MustRead(n, S)
    BY <2>1 DEF Found, MustRead, CallInv, MapsFit
  <2>2. CASE MustRead(n, S) /\ ReadMap(n, bad).ret = 0
    <3>1. ReadMap(n, bad).mask.bits \subseteq AllOnes
      BY <2>2, MapRead
    <3> QED BY <2>2, <3>1 DEF Found
  <2>3. CASE MustRead(n, S) /\ ReadMap(n, bad).ret # 0
    BY <2>3 DEF Found, Unread
  <2> QED BY <2>1, <2>2, <2>3
<1>4. \A n \in DOMAIN cached : n \in 0 .. numa_max_node /\ cached[n] \subseteq AllOnes
  BY DEF CallInv, MapsFit
<1> DEFINE D == DOMAIN cached \cup {x \in S : Reads(x, S, bad)}
<1>5. DOMAIN cached' = D /\ \A n \in D : cached'[n] = IF n \in S THEN Found(n, S, bad) ELSE cached[n]
  BY <1>1
<1>6. D \subseteq 0 .. numa_max_node
  BY <1>2, <1>4
<1>7. ASSUME NEW n \in D PROVE cached'[n] \subseteq AllOnes
  <2>1. CASE n \in S
    BY <1>3, <1>5, <2>1
  <2>2. CASE n \notin S
    BY <1>4, <1>5, <2>2
  <2> QED BY <2>1, <2>2
<1>8. stale' \in BOOLEAN
  BY <1>1 DEF CallInv, Typed
<1>9. ASSUME NEW n \in D
      PROVE  \/ n \in S /\ cached'[n] = Found(n, S, bad)
             \/ n \notin S /\ n \in DOMAIN cached /\ cached'[n] = cached[n]
  BY <1>5
<1>10. \A n \in S : Reads(n, S, bad) => n \in D
  OBVIOUS
<1> HIDE DEF D
<1> QED BY <1>5, <1>6, <1>7, <1>8, <1>9, <1>10

\* The same for the cache of version 1, with the owners of its memory.
LEMMA Found1Fits ==
  ASSUME CallInv, NEW S, NEW bad, NEW memory \in BOOLEAN, LookedUp1(S, bad, memory)
  PROVE  /\ v1' = [masks |-> v1'.masks, stale |-> v1'.stale, foreign |-> v1'.foreign, starved |-> v1'.starved]
         /\ Kept' = Kept \cup InRange(S) /\ Kept' \subseteq 0 .. numa_max_node
         /\ \A n \in InRange(S) : v1'.masks[n].cpus = Found1(n, S, bad)
         /\ OwnerKnown'
<1> DEFINE read == {n \in InRange(S) : MustRead1(n, S)}
           Memory(n) == IF n \in Kept THEN v1.masks[n].owner ELSE Owner(memory)
           masks == [n \in Kept \cup InRange(S) |->
                            IF n \in read THEN [cpus |-> Found1(n, S, bad), owner |-> Memory(n)]
                            ELSE v1.masks[n]]
           foreign == \/ v1.foreign
                      \/ \E n \in Kept \cap InRange(S) : v1.masks[n].owner = "app"
                      \/ read \cap Kept # {} /\ Owner(memory) = "app"
           starved == v1.starved \/ (read # {} /\ ~memory)
<1>1. v1' = [masks |-> masks, stale |-> v1.stale /\ InRange(S) = {}, foreign |-> foreign, starved |-> starved]
  BY DEF LookedUp1
<1> HIDE DEF masks, foreign, starved
<1>2. v1'.masks = masks /\ v1'.foreign = foreign /\ v1'.starved = starved
  BY <1>1
<1>3. Kept' = Kept \cup InRange(S)
  BY <1>2 DEF Kept, masks
<1>4. Kept' \subseteq 0 .. numa_max_node
  BY <1>3 DEF CallInv, MapsFit, InRange
<1>5. ASSUME NEW n \in InRange(S) PROVE masks[n].cpus = Found1(n, S, bad)
  <2>1. CASE n \in read
    BY <2>1 DEF masks
  <2>2. CASE n \notin read
    <3>1. ~MustRead1(n, S)
      BY <2>2
    <3> QED BY <2>2, <3>1 DEF masks, Found1
  <2> QED BY <2>1, <2>2
<1>6. foreign => starved
  <2>0. v1.foreign \/ (\E n \in Kept : v1.masks[n].owner = "app") => v1.starved
    BY DEF CallInv, OwnerKnown
  <2>1. Owner(memory) = "app" => ~memory
    BY DEF Owner
  <2> QED BY <2>0, <2>1 DEF foreign, starved
<1>7. ASSUME NEW n \in Kept', masks[n].owner = "app" PROVE starved
  <2>0. (\E k \in Kept : v1.masks[k].owner = "app") => v1.starved
    BY DEF CallInv, OwnerKnown
  <2>1. n \in Kept \cup InRange(S)
    BY <1>3
  <2>2. CASE n \in read /\ n \notin Kept
    <3>1. Owner(memory) = "app"
      BY <1>7, <2>1, <2>2 DEF masks
    <3>2. ~memory
      BY <3>1 DEF Owner
    <3> QED BY <2>2, <3>2 DEF starved
  <2>3. CASE n \in read /\ n \in Kept
    BY <1>7, <2>0, <2>1, <2>3 DEF masks, starved
  <2>4. CASE n \notin read
    <3>1. n \in Kept
      BY <2>1, <2>4 DEF MustRead1
    <3> QED BY <1>7, <2>0, <2>1, <2>4, <3>1 DEF masks, starved
  <2> QED BY <2>2, <2>3, <2>4
<1>8. OwnerKnown'
  BY <1>2, <1>6, <1>7 DEF OwnerKnown
<1>9. v1' = [masks |-> v1'.masks, stale |-> v1'.stale, foreign |-> v1'.foreign, starved |-> v1'.starved]
  BY <1>1
<1> QED BY <1>2, <1>3, <1>4, <1>5, <1>8, <1>9

\* What a call may do to each variable.
Effect(bad, memory) ==
    /\ sys' = sys \/ \E R \in (SUBSET sys.cpus) \ {{}} : sys' = [sys EXCEPT !.runs = R]
    /\ lib' = lib \/ \E N \in SUBSET Int : lib' = [lib EXCEPT !.numa_all_nodes = N]
    /\ (cached' = cached /\ stale' \in {stale, TRUE}) \/ \E S : LookedUp(S, bad)
    /\ v1' \in {v1, [v1 EXCEPT !.stale = TRUE]} \/ \E S : LookedUp1(S, bad, memory)
    /\ pol' \in [mode : {"DEFAULT", "BIND", "INTERLEAVE"}, nodes : SUBSET Nat]
    /\ ret'.call = "numa_node_of_cpu" =>
        \E cpu \in 0 .. lib.cpumask_sz + 1 : numa_node_of_cpu(cpu, bad)

LEMMA AffinitySet ==
  ASSUME NEW call, NEW arg, NEW cpus, numa_sched_setaffinity(call, arg, cpus)
  PROVE  /\ sys' = sys \/ \E R \in (SUBSET sys.cpus) \ {{}} : sys' = [sys EXCEPT !.runs = R]
         /\ ret'.call = call
<1>1. CASE SetaffinityOK(cpus)
  <2>1. cpus \cap sys.cpus \in (SUBSET sys.cpus) \ {{}}
    BY <1>1 DEF SetaffinityOK
  <2>2. sys' = [sys EXCEPT !.runs = cpus \cap sys.cpus]
    BY <1>1 DEF numa_sched_setaffinity
  <2> QED BY <2>1, <2>2 DEF numa_sched_setaffinity, Returned
<1>2. CASE ~SetaffinityOK(cpus)
  BY <1>2 DEF numa_sched_setaffinity, Returned
<1> QED BY <1>1, <1>2

LEMMA PolicySet ==
  ASSUME Typed, NEW call, NEW mode \in {"DEFAULT", "BIND", "INTERLEAVE"}, NEW nodes, NEW size,
         Setpol(call, mode, nodes, size)
  PROVE  /\ pol' \in [mode : {"DEFAULT", "BIND", "INTERLEAVE"}, nodes : SUBSET Nat]
         /\ ret'.call = call
<1>1. KernelNodes(nodes, size) \in SUBSET Nat
  <2>1. sys.mems \in SUBSET sys.nodes /\ sys.nodes \in SUBSET Nat
    BY SoundIs DEF Typed
  <2> QED BY <2>1 DEF KernelNodes
<1> DEFINE kept == KernelNodes(nodes, size)
           ok == mode = "DEFAULT" \/ kept # {}
<1>2. /\ pol' = IF ~ok THEN pol ELSE IF mode = "DEFAULT" THEN Default ELSE Policy(mode, kept)
      /\ ret'.call = call
  BY DEF Setpol, Returned
<1> HIDE DEF kept, ok
<1>3. kept \in SUBSET Nat
  BY <1>1 DEF kept
<1> QED BY <1>2, <1>3 DEF Typed, Default, Policy

LEMMA CallEffect ==
  ASSUME CallInv, NEW bad, NEW memory \in BOOLEAN, Call(bad, memory)
  PROVE  Effect(bad, memory)
<1>t. pol \in [mode : {"DEFAULT", "BIND", "INTERLEAVE"}, nodes : SUBSET Nat] /\ Typed
  BY DEF CallInv, Typed
<1>1. ASSUME numa_node_to_cpu_update, UNCHANGED <<lib, pol>> PROVE Effect(bad, memory)
  BY <1>t, <1>1 DEF numa_node_to_cpu_update, Effect, Returned
<1>2. ASSUME NEW call, call # "numa_node_of_cpu", NEW S, NEW size, GetRunNodes(call, S, size, bad), UNCHANGED <<lib, pol>>
      PROVE  Effect(bad, memory)
  <2>1. sys' = sys /\ v1' = v1 /\ lib' = lib /\ pol' = pol
    BY <1>2 DEF GetRunNodes
  <2>2. (cached' = cached /\ stale' = stale) \/ LookedUp(S, bad)
    BY <1>2 DEF GetRunNodes
  <2>3. ret'.call = call
    BY <1>2 DEF GetRunNodes, Returned
  <2> QED BY <1>t, <1>2, <2>1, <2>2, <2>3 DEF Effect
<1>3. ASSUME NEW call, call # "numa_node_of_cpu", NEW nodes, NEW allowed, RunOnMask(call, nodes, allowed, bad),
             UNCHANGED <<lib, pol>>
      PROVE  Effect(bad, memory)
  <2> DEFINE S == NodeBits(allowed, nodes)
  <2>1. /\ numa_sched_setaffinity(call, nodes, CpusOf(S, S, bad)) /\ LookedUp(S, bad) /\ v1' = v1
        /\ lib' = lib /\ pol' = pol
    BY <1>3 DEF RunOnMask
  <2> HIDE DEF S
  <2>2. /\ sys' = sys \/ \E R \in (SUBSET sys.cpus) \ {{}} : sys' = [sys EXCEPT !.runs = R]
        /\ ret'.call = call
    BY <2>1, AffinitySet
  <2> QED BY <1>t, <1>3, <2>1, <2>2 DEF Effect
<1>4. ASSUME NEW node, numa_run_on_node(node, bad), UNCHANGED <<lib, pol>> PROVE Effect(bad, memory)
  <2>1. v1' = v1 /\ lib' = lib /\ pol' = pol
    BY <1>4 DEF numa_run_on_node
  <2>2. (cached' = cached /\ stale' = stale) \/ LookedUp({node}, bad)
    BY <1>4 DEF numa_run_on_node
  <2>3. \/ sys' = sys /\ ret'.call = "numa_run_on_node"
        \/ \E cpus : numa_sched_setaffinity("numa_run_on_node", {node}, cpus)
    BY <1>4 DEF numa_run_on_node, Returned
  <2>4. /\ sys' = sys \/ \E R \in (SUBSET sys.cpus) \ {{}} : sys' = [sys EXCEPT !.runs = R]
        /\ ret'.call = "numa_run_on_node"
    BY <2>3, AffinitySet
  <2> QED BY <1>t, <2>1, <2>2, <2>4 DEF Effect
<1>5. ASSUME NEW node, numa_is_cpuless_node(node, bad), UNCHANGED <<lib, pol>> PROVE Effect(bad, memory)
  <2>1. sys' = sys /\ v1' = v1 /\ lib' = lib /\ pol' = pol
    BY <1>5 DEF numa_is_cpuless_node
  <2>2. (cached' = cached /\ stale' = stale) \/ LookedUp({node}, bad)
    BY <1>5 DEF numa_is_cpuless_node
  <2>3. ret'.call = "numa_is_cpuless_node"
    BY <1>5 DEF numa_is_cpuless_node, Returned
  <2> QED BY <1>t, <2>1, <2>2, <2>3 DEF Effect
<1>6. ASSUME NEW cpu \in 0 .. lib.cpumask_sz + 1, numa_node_of_cpu(cpu, bad), UNCHANGED <<lib, pol>>
      PROVE  Effect(bad, memory)
  <2>1. sys' = sys /\ v1' = v1 /\ lib' = lib /\ pol' = pol
    BY <1>6 DEF numa_node_of_cpu
  <2>2. (cached' = cached /\ stale' = stale) \/ \E S : LookedUp(S, bad)
    BY <1>6 DEF numa_node_of_cpu
  <2> QED BY <1>t, <1>6, <2>1, <2>2 DEF Effect
<1>7. ASSUME NEW nodes, numa_set_membind_v1(nodes) PROVE Effect(bad, memory)
  <2>1. /\ Setpol("numa_set_membind_v1", "BIND", nodes, sizeof_nodemask)
        /\ UNCHANGED <<sys, cached, stale, v1, lib>>
    BY <1>7 DEF numa_set_membind_v1
  <2>2. /\ pol' \in [mode : {"DEFAULT", "BIND", "INTERLEAVE"}, nodes : SUBSET Nat]
        /\ ret'.call = "numa_set_membind_v1"
    BY <1>t, <2>1, PolicySet
  <2> QED BY <2>1, <2>2 DEF Effect
<1>8. ASSUME NEW nodes, numa_set_interleave_mask_v1(nodes) PROVE Effect(bad, memory)
  <2> DEFINE mode == IF nodes = {} THEN "DEFAULT" ELSE "INTERLEAVE"
  <2>1. /\ Setpol("numa_set_interleave_mask_v1", mode, nodes, NUMA_NUM_NODES)
        /\ UNCHANGED <<sys, cached, stale, v1, lib>> /\ mode \in {"DEFAULT", "BIND", "INTERLEAVE"}
    BY <1>8 DEF numa_set_interleave_mask_v1
  <2> HIDE DEF mode
  <2>2. /\ pol' \in [mode : {"DEFAULT", "BIND", "INTERLEAVE"}, nodes : SUBSET Nat]
        /\ ret'.call = "numa_set_interleave_mask_v1"
    BY <1>t, <2>1, PolicySet
  <2> QED BY <2>1, <2>2 DEF Effect
<1>9. ASSUME NEW nodes, numa_bind_v1(nodes, bad) PROVE Effect(bad, memory)
  <2> DEFINE S == NodeBits(lib.numa_all_nodes_ptr, {n \in nodes : n < sizeof_nodemask})
             cpus == CpusOf(S, S, bad)
  <2>1. /\ sys' = IF SetaffinityOK(cpus) THEN [sys EXCEPT !.runs = cpus \cap sys.cpus] ELSE sys
        /\ LookedUp(S, bad) /\ Setpol("numa_bind_v1", "BIND", nodes, sizeof_nodemask)
        /\ v1' = v1 /\ lib' = lib
    BY <1>9 DEF numa_bind_v1
  <2> HIDE DEF cpus, S
  <2>2. sys' = sys \/ \E R \in (SUBSET sys.cpus) \ {{}} : sys' = [sys EXCEPT !.runs = R]
    <3>1. CASE SetaffinityOK(cpus)
      <4>1. cpus \cap sys.cpus \in (SUBSET sys.cpus) \ {{}}
        BY <3>1 DEF SetaffinityOK
      <4> QED BY <2>1, <3>1, <4>1
    <3> QED BY <2>1, <3>1
  <2>3. /\ pol' \in [mode : {"DEFAULT", "BIND", "INTERLEAVE"}, nodes : SUBSET Nat]
        /\ ret'.call = "numa_bind_v1"
    BY <1>t, <2>1, PolicySet
  <2> QED BY <2>1, <2>2, <2>3 DEF Effect
<1>10. ASSUME NEW nodes, numa_run_on_node_mask_v1(nodes, bad, memory) PROVE Effect(bad, memory)
  <2> DEFINE S == {n \in nodes : n < NUMA_NUM_NODES}
             cpus == UNION {Found1(n, S, bad) : n \in {n \in InRange(S) : Err1(n, S, bad) = 0}}
  <2>1. /\ numa_sched_setaffinity("numa_run_on_node_mask_v1", nodes, cpus) /\ LookedUp1(S, bad, memory)
        /\ UNCHANGED <<cached, stale, pol, lib>>
    BY <1>10 DEF numa_run_on_node_mask_v1
  <2> HIDE DEF S, cpus
  <2>2. /\ sys' = sys \/ \E R \in (SUBSET sys.cpus) \ {{}} : sys' = [sys EXCEPT !.runs = R]
        /\ ret'.call = "numa_run_on_node_mask_v1"
    BY <2>1, AffinitySet
  <2> QED BY <1>t, <2>1, <2>2 DEF Effect
<1>11. ASSUME numa_get_interleave_mask_v1 PROVE Effect(bad, memory)
  BY <1>t, <1>11 DEF numa_get_interleave_mask_v1, Returned, Effect
<1>12. ASSUME numa_get_membind_v1 PROVE Effect(bad, memory)
  <2>1. /\ ret'.call = "numa_get_membind_v1" /\ UNCHANGED <<sys, cached, stale, v1, pol>>
        /\ lib' = lib \/ lib' = [lib EXCEPT !.numa_all_nodes = pol.nodes]
    BY <1>12 DEF numa_get_membind_v1, Returned
  <2>2. pol.nodes \in SUBSET Int
    BY <1>t
  <2> QED BY <1>t, <2>1, <2>2 DEF Effect
<1>13. ASSUME numa_get_run_node_mask_v1(bad) PROVE Effect(bad, memory)
  BY <1>2, <1>13 DEF numa_get_run_node_mask_v1
<1>14. ASSUME NEW n, numa_node_to_cpus_v1(n, bad, memory) PROVE Effect(bad, memory)
  <2>1. /\ ret'.call = "numa_node_to_cpus_v1" /\ LookedUp1({n}, bad, memory)
        /\ UNCHANGED <<sys, cached, stale, pol, lib>>
    BY <1>14 DEF numa_node_to_cpus_v1, Returned
  <2> QED BY <1>t, <2>1 DEF Effect
<1>15. ASSUME UNCHANGED <<lib, pol>>, numa_get_run_node_mask(bad) PROVE Effect(bad, memory)
  BY <1>2, <1>15 DEF numa_get_run_node_mask
<1>16. ASSUME UNCHANGED <<lib, pol>>, NEW nodes, numa_run_on_node_mask(nodes, bad) \/ numa_run_on_node_mask_all(nodes, bad)
       PROVE  Effect(bad, memory)
  BY <1>3, <1>16 DEF numa_run_on_node_mask, numa_run_on_node_mask_all
<1> QED BY <1>1, <1>4, <1>5, <1>6, <1>7, <1>8, <1>9, <1>10, <1>11, <1>12, <1>13, <1>14, <1>15, <1>16 DEF Call

\* numa_node_of_cpu answers from the maps it leaves in the cache.
LEMMA NodeOfCpuCall ==
  ASSUME CallInv, CpusSized, NEW bad, NEW cpu \in 0 .. lib.cpumask_sz + 1, numa_node_of_cpu(cpu, bad)
  PROVE  IF ret'.val = Failed THEN \A n \in DOMAIN cached' : ret'.arg \notin cached'[n] \/ cached'[n] = AllOnes
         ELSE ret'.val \in DOMAIN cached' /\ ret'.arg \in cached'[ret'.val]
<1> DEFINE all == EveryNode
           hits == {n \in all : Reads(n, all, bad) /\ cpu \in Found(n, all, bad)}
<1>0. lib.cpumask_sz \in Nat /\ numa_max_node \in Int
  BY DEF CallInv, Typed, LibType, numa_max_node
<1>1. CASE cpu > lib.cpumask_sz
  <2>1. ret'.val = Failed /\ ret'.arg = cpu /\ cached' = cached
    BY <1>1 DEF numa_node_of_cpu, Returned
  <2>2. cpu \notin AllOnes
    BY <1>0, <1>1 DEF AllOnes
  <2> QED BY <2>1, <2>2 DEF CallInv, MapsFit
<1>2. CASE ~(cpu > lib.cpumask_sz) /\ (cpu = lib.cpumask_sz \/ hits = {})
  <2>1. ret'.val = Failed /\ ret'.arg = cpu /\ LookedUp(all, bad)
    BY <1>2 DEF numa_node_of_cpu, Returned
  <2>2. SUFFICES ASSUME NEW n \in DOMAIN cached' PROVE cpu \notin cached'[n] \/ cached'[n] = AllOnes
    BY <2>1
  <2> HIDE DEF all
  <2>3. n \in all /\ cached'[n] = Found(n, all, bad) /\ cached'[n] \subseteq AllOnes
    <3>1. n \in 0 .. numa_max_node /\ cached'[n] \subseteq AllOnes
      BY <2>1, FoundFits
    <3>2. n \in all
      BY <3>1 DEF all, EveryNode
    <3> QED BY <2>1, <3>1, <3>2, FoundFits
  <2>4. CASE cpu = lib.cpumask_sz
    <3>1. cpu \notin AllOnes
      BY <1>0, <2>4 DEF AllOnes
    <3> QED BY <2>3, <3>1
  <2>5. CASE hits = {}
    <3>1. ~Reads(n, all, bad) => Found(n, all, bad) = AllOnes
      BY DEF Reads, Found, Unread
    <3>2. Reads(n, all, bad) => cpu \notin Found(n, all, bad)
      BY <2>3, <2>5
    <3> QED BY <2>3, <3>1, <3>2
  <2> QED BY <1>2, <2>4, <2>5
<1>3. CASE ~(cpu > lib.cpumask_sz) /\ ~(cpu = lib.cpumask_sz \/ hits = {})
  <2> DEFINE m == Min(hits)
             below == 0 .. m
  <2>1. ret'.val = m /\ ret'.arg = cpu /\ LookedUp(below, bad)
    BY <1>3 DEF numa_node_of_cpu, Returned
  <2>2. m \in hits
    <3>1. hits \in SUBSET Nat /\ hits # {}
      BY <1>0, <1>3 DEF EveryNode
    <3> HIDE DEF hits
    <3> QED BY <3>1, Least
  <2> HIDE DEF m
  <2>3. m \in 0 .. numa_max_node /\ m \in Nat /\ Reads(m, all, bad) /\ cpu \in Found(m, all, bad)
    BY <1>0, <2>2 DEF EveryNode
  <2>4. \A k \in Nat : k <= numa_max_node => Min(InRange(0 .. k)) = 0
    <3> TAKE k \in Nat
    <3> HAVE k <= numa_max_node
    <3>1. InRange(0 .. k) \in SUBSET Nat /\ 0 \in InRange(0 .. k)
      BY <1>0 DEF InRange
    <3>2. Min(InRange(0 .. k)) \in InRange(0 .. k) /\ Min(InRange(0 .. k)) <= 0
      BY <3>1, Least
    <3> HIDE DEF Min
    <3> QED BY <3>1, <3>2
  <2>5. MustRead(m, all) = MustRead(m, below)
    <3>1. Min(InRange(all)) = 0
      <4>1. numa_max_node \in Nat
        BY <1>0, <2>3
      <4> QED BY <2>4, <4>1 DEF EveryNode
    <3>2. Min(InRange(below)) = 0
      BY <1>0, <2>3, <2>4
    <3> QED BY <3>1, <3>2 DEF MustRead
  <2>6. Reads(m, below, bad) /\ cpu \in Found(m, below, bad)
    BY <2>3, <2>5 DEF Reads, Found
  <2>7. m \in below
    BY <2>3
  <2> HIDE DEF below
  <2>8. m \in DOMAIN cached' /\ cached'[m] = Found(m, below, bad)
    BY <2>1, <2>6, <2>7, FoundFits
  <2> QED BY <2>1, <2>3, <2>6, <2>8 DEF Failed
<1> QED BY <1>1, <1>2, <1>3

\* A call keeps what a machine guarantees, and what the library measured of it.
LEMMA CallKeeps ==
  ASSUME CallInv, at = "ready", NEW bad, NEW memory \in BOOLEAN, Call(bad, memory),
         faults' \in 0 .. MaxFaults, calls' \in 0 .. MaxCalls, UNCHANGED <<at, told>>
  PROVE  CallInv'
<1>e. Effect(bad, memory)
  BY CallEffect
<1>c. CpusSized
  BY DEF CpusSized, NodesListed
<1>1. Sound(sys')
  <2>1. CASE sys' = sys
    BY <2>1 DEF CallInv, Typed
  <2>2. ASSUME NEW R \in (SUBSET sys.cpus) \ {{}}, sys' = [sys EXCEPT !.runs = R] PROVE Sound(sys')
    <3>1. Sound(sys) /\ sys \in Machine(sys.nodes) /\ sys.cpus \in SUBSET (0 .. sys.cpuids - 1) /\ sys.cpuids \in Nat
      BY SoundIs DEF CallInv, Typed
    <3>2. R \in SUBSET Nat /\ R \in (SUBSET (0 .. sys.cpuids - 1)) \ {{}}
      BY <3>1
    <3> DEFINE n == [sys EXCEPT !.runs = R]
    <3>3. /\ n \in Machine(sys.nodes) /\ n.runs = R
          /\ n.maxnodes = sys.maxnodes /\ n.nodeids = sys.nodeids /\ n.cpuids = sys.cpuids
          /\ n.nconf = sys.nconf /\ n.cpusets = sys.cpusets /\ n.nodes = sys.nodes
          /\ n.mems = sys.mems /\ n.cpus = sys.cpus /\ n.cpumap = sys.cpumap
      BY <3>1, <3>2 DEF Machine
    <3> HIDE DEF n
    <3>4. Sound(n)
      BY <3>1, <3>2, <3>3 DEF Sound
    <3> QED BY <2>2, <3>4 DEF n
  <2> QED BY <1>e, <2>1, <2>2 DEF Effect
<1>2. lib' \in LibType /\ numa_max_node' = numa_max_node /\ lib'.cpumask_sz = lib.cpumask_sz
  <2>1. lib \in LibType
    BY DEF CallInv, Typed
  <2>2. CASE lib' = lib
    BY <2>1, <2>2 DEF numa_max_node
  <2>3. ASSUME NEW N \in SUBSET Int, lib' = [lib EXCEPT !.numa_all_nodes = N]
        PROVE  lib' \in LibType /\ numa_max_node' = numa_max_node /\ lib'.cpumask_sz = lib.cpumask_sz
    BY <2>1, <2>3 DEF LibType, numa_max_node
  <2> QED BY <1>e, <2>2, <2>3 DEF Effect
<1>3. AllOnes' = AllOnes
  BY <1>2 DEF AllOnes
<1>4. /\ DOMAIN cached' \subseteq 0 .. numa_max_node /\ \A n \in DOMAIN cached' : cached'[n] \subseteq AllOnes
      /\ stale' \in BOOLEAN
  <2>1. CASE cached' = cached /\ stale' \in {stale, TRUE}
    BY <2>1 DEF CallInv, MapsFit, Typed
  <2>2. ASSUME NEW S, LookedUp(S, bad)
        PROVE  /\ DOMAIN cached' \subseteq 0 .. numa_max_node /\ \A n \in DOMAIN cached' : cached'[n] \subseteq AllOnes
               /\ stale' \in BOOLEAN
    BY <1>c, <2>2, FoundFits
  <2> QED BY <1>e, <2>1, <2>2 DEF Effect
<1>5. /\ v1' = [masks |-> v1'.masks, stale |-> v1'.stale, foreign |-> v1'.foreign, starved |-> v1'.starved]
      /\ Kept' \subseteq 0 .. numa_max_node /\ OwnerKnown'
  <2>1. CASE v1' \in {v1, [v1 EXCEPT !.stale = TRUE]}
    <3>1. v1 = [masks |-> v1.masks, stale |-> v1.stale, foreign |-> v1.foreign, starved |-> v1.starved]
      BY DEF CallInv, Typed
    <3>2. v1'.masks = v1.masks /\ v1'.foreign = v1.foreign /\ v1'.starved = v1.starved
      BY <2>1, <3>1
    <3>3. v1' = [masks |-> v1'.masks, stale |-> v1'.stale, foreign |-> v1'.foreign, starved |-> v1'.starved]
      BY <2>1, <3>1
    <3> QED BY <3>2, <3>3 DEF CallInv, MapsFit, OwnerKnown, Kept
  <2>2. ASSUME NEW S, LookedUp1(S, bad, memory)
        PROVE /\ v1' = [masks |-> v1'.masks, stale |-> v1'.stale, foreign |-> v1'.foreign, starved |-> v1'.starved]
              /\ Kept' \subseteq 0 .. numa_max_node /\ OwnerKnown'
    BY <2>2, Found1Fits
  <2> QED BY <1>e, <2>1, <2>2 DEF Effect
<1>6. Typed'
  BY <1>e, <1>1, <1>2, <1>4, <1>5 DEF CallInv, Typed, Effect
<1>7. Untouched'
  BY DEF Untouched
<1>8. MapsFit'
  <2>1. lib.cpumask_sz > 0 /\ lib.cpumask_sz % LongBits = 0
    BY <1>c DEF CallInv, MapsFit
  <2> QED BY <1>2, <1>3, <1>4, <1>5, <2>1 DEF MapsFit
<1>9. NodeOfCpuKept'
  <2>1. SUFFICES ASSUME ret'.call = "numa_node_of_cpu"
                 PROVE  IF ret'.val = Failed THEN \A n \in DOMAIN cached' : ret'.arg \notin cached'[n] \/ cached'[n] = AllOnes
                        ELSE ret'.val \in DOMAIN cached' /\ ret'.arg \in cached'[ret'.val]
    BY <1>3 DEF NodeOfCpuKept
  <2>2. PICK cpu \in 0 .. lib.cpumask_sz + 1 : numa_node_of_cpu(cpu, bad)
    BY <1>e, <2>1 DEF Effect
  <2> QED BY <1>c, <2>2, NodeOfCpuCall
<1> QED BY <1>5, <1>6, <1>7, <1>8, <1>9 DEF CallInv

LEMMA CallInit == Init => CallInv
<1> SUFFICES ASSUME Init PROVE CallInv
  OBVIOUS
<1>1. /\ sys \in Machines /\ faults = 0 /\ at = "numa_init" /\ lib = Unmeasured
      /\ told = [nodes |-> None, status |-> None] /\ calls = 0 /\ pol = Default
      /\ DOMAIN cached = {} /\ stale = TRUE /\ ret.call = "none"
      /\ v1 = [masks |-> [n \in {} |-> {}], stale |-> TRUE, foreign |-> FALSE, starved |-> FALSE]
  BY DEF Init, InitLib, RunOnInit
<1>2. lib \in LibType
  BY <1>1, NoMaskIs DEF LibType, Unmeasured
<1>3. pol \in [mode : {"DEFAULT", "BIND", "INTERLEAVE"}, nodes : SUBSET Nat]
  BY <1>1 DEF Default, Policy
<1>4. Kept = {}
  BY <1>1 DEF Kept
<1>5. Typed
  BY <1>1, <1>2, <1>3, LibInitAssumption, LibraryAssumption DEF Typed, Steps
<1> QED BY <1>1, <1>4, <1>5 DEF CallInv, Untouched, MapsFit, OwnerKnown, NodeOfCpuKept, CpusSized, NodesListed

\* The constructor comes before any call, and sizes CPU masks in whole words.
LEMMA StartKeeps ==
  ASSUME CallInv, Start, UNCHANGED <<cached, stale, v1, ret, pol, calls>>
  PROVE  CallInv'
<1>1. Typed'
  BY StartTyped DEF CallInv
<1>2. at \notin {"ready", "fini"} /\ sys' = sys
  BY DEF Start, set_nodemask_size, set_configured_nodes, set_numa_max_cpu, set_configured_cpus,
         set_task_constraints, SetAllNodes
<1>3. sys' \in Machines /\ DOMAIN cached' = {} /\ Kept' = {} /\ ret'.call = "none"
  BY <1>2 DEF CallInv, Untouched, Kept
<1>4. OwnerKnown'
  BY <1>3 DEF CallInv, OwnerKnown, Kept
<1>5. CpusSized' => lib'.cpumask_sz > 0 /\ lib'.cpumask_sz % LongBits = 0
  <2> SUFFICES ASSUME CpusSized' PROVE lib'.cpumask_sz > 0 /\ lib'.cpumask_sz % LongBits = 0
    OBVIOUS
  <2>1. CASE CpusSized
    <3>1. lib.cpumask_sz > 0 /\ lib.cpumask_sz % LongBits = 0
      BY <2>1 DEF CallInv, MapsFit
    <3>2. lib'.cpumask_sz = lib.cpumask_sz
      <4>1. lib \in LibType
        BY DEF CallInv, Typed
      <4>2. \/ set_configured_cpus \/ SetAllNodes \/ \E works \in BOOLEAN : set_task_constraints(works)
        BY <2>1 DEF Start, CpusSized, NodesListed, set_nodemask_size, set_configured_nodes, set_numa_max_cpu
      <4>3. CASE set_configured_cpus
        BY <4>1, <4>3 DEF set_configured_cpus, LibType
      <4>4. CASE SetAllNodes
        BY <4>1, <4>4 DEF SetAllNodes, LibType
      <4>5. ASSUME NEW works \in BOOLEAN, set_task_constraints(works) PROVE lib'.cpumask_sz = lib.cpumask_sz
        BY <4>1, <4>5 DEF set_task_constraints, Allocated, LibType
      <4> QED BY <4>2, <4>3, <4>4, <4>5
    <3> QED BY <3>1, <3>2
  <2>2. CASE ~CpusSized
    <3>1. PICK works \in BOOLEAN : set_numa_max_cpu(works)
      BY <2>2 DEF Start, CpusSized, NodesListed, set_nodemask_size, set_configured_nodes,
                  set_configured_cpus, set_task_constraints, SetAllNodes
    <3>2. lib'.cpumask_sz = IF works THEN round_up(sys.cpuids, LongBits) ELSE GuessedCpus
      BY <3>1 DEF set_numa_max_cpu, CallInv, Typed, LibType
    <3>3. CASE ~works
      BY <3>2, <3>3, LibInitAssumption
    <3>4. CASE works
      <4> DEFINE h == howmany(sys.cpuids, LongBits)
                 d == LongBits
      <4>1. d \in Nat \ {0} /\ sys.cpuids \in Nat \ {0}
        <5>1. d \in Nat \ {0}
          BY IntBitsAssumption DEF LongBits
        <5>2. Sound(sys)
          BY DEF CallInv, Typed
        <5> QED BY <5>1, <5>2, SoundIs
      <4> HIDE DEF d
      <4>2. h \in Nat /\ 0 < h
        <5>1. 0 * d < sys.cpuids
          BY <4>1
        <5> QED BY <4>1, <5>1, HowMany DEF d
      <4>3. lib'.cpumask_sz = h * d
        BY <3>2, <3>4 DEF round_up, d
      <4> HIDE DEF h
      <4>4. h * d > 0 /\ (h * d) % d = 0
        <5> DEFINE x == h * d
                   q == x \div d
        <5>1. x \in Nat /\ x > 0
          BY <4>1, <4>2
        <5>2. x = d * h
          BY <4>1, <4>2
        <5> HIDE DEF x
        <5>3. x = d * q + (x % d) /\ x % d \in 0 .. d - 1 /\ q \in Nat
          BY <4>1, <5>1, DivMod
        <5> HIDE DEF q
        <5>4. d * q + (x % d) = d * h
          BY <5>2, <5>3
        <5>5. x % d = d * (h - q)
          BY <4>1, <4>2, <5>3, <5>4
        <5>6. h - q = 0
          <6>1. CASE h - q >= 1
            <7>1. d * (h - q) >= d
              BY <4>1, <4>2, <5>3, <6>1
            <7> QED BY <4>1, <5>3, <5>5, <7>1
          <6>2. CASE h - q <= -1
            <7>1. d * (h - q) < 0
              BY <4>1, <4>2, <5>3, <6>2
            <7> QED BY <4>1, <5>3, <5>5, <7>1
          <6> QED BY <4>2, <5>3, <6>1, <6>2
        <5>7. x % d = 0
          BY <4>1, <5>5, <5>6
        <5> QED BY <5>1, <5>7 DEF x
      <4> QED BY <4>3, <4>4 DEF d
    <3> QED BY <3>3, <3>4
  <2> QED BY <2>1, <2>2
<1> QED BY <1>1, <1>3, <1>4, <1>5 DEF CallInv, Untouched, MapsFit, NodeOfCpuKept

\* Every step.
LEMMA CallStep == CallInv /\ [Next]_vars => CallInv'
<1> SUFFICES ASSUME CallInv, [Next]_vars PROVE CallInv'
  OBVIOUS
<1>1. CASE Start /\ UNCHANGED <<cached, stale, v1, ret, pol, calls>>
  BY <1>1, StartKeeps
<1>2. CASE Change /\ UNCHANGED <<cached, stale, v1, ret, pol, calls>>
  <2>1. sys' \in Machines /\ faults' \in 0 .. MaxFaults /\ UNCHANGED <<at, lib, told>>
    BY <1>2, LibInitAssumption DEF Change, Fault, CallInv, Typed
  <2>2. Typed'
    BY <1>2, <2>1, LibInitAssumption DEF CallInv, Typed
  <2> QED BY <1>2, <2>1, <2>2 DEF CallInv, Untouched, MapsFit, OwnerKnown, NodeOfCpuKept, Kept, AllOnes,
                                  numa_max_node, CpusSized, NodesListed, Ready
<1>3. CASE Fini
  <2>1. /\ at = "ready" /\ at' = "fini" /\ cached' = [n \in {} |-> {}] /\ UNCHANGED <<sys, faults, stale, v1, ret, pol, calls, told>>
        /\ lib' = [lib EXCEPT !.numa_all_cpus_ptr = NoMask, !.numa_possible_cpus_ptr = NoMask,
                              !.numa_all_nodes_ptr = NoMask, !.numa_possible_nodes_ptr = NoMask,
                              !.numa_no_nodes_ptr = NoMask, !.numa_memnode_ptr = NoMask,
                              !.numa_nodes_ptr = NoMask]
    BY <1>3 DEF Fini, numa_fini
  <2>2. lib' \in LibType /\ lib'.cpumask_sz = lib.cpumask_sz /\ numa_max_node' = numa_max_node
    BY <2>1, NoMaskIs DEF CallInv, Typed, LibType, numa_max_node
  <2>3. Typed'
    BY <2>1, <2>2 DEF CallInv, Typed, Steps
  <2>4. MapsFit'
    BY <2>1, <2>2 DEF CallInv, MapsFit, Kept, CpusSized, NodesListed
  <2> QED BY <2>1, <2>3, <2>4 DEF CallInv, Untouched, OwnerKnown, NodeOfCpuKept, Kept, Ready
<1>4. ASSUME at = "ready", calls < MaxCalls, NEW bad \in SUBSET sys.nodes, NEW memory \in BOOLEAN,
             Fault(bad # {} \/ ~memory), Call(bad, memory), calls' = calls + 1, UNCHANGED <<at, told>>
      PROVE  CallInv'
  <2>1. faults' \in 0 .. MaxFaults /\ calls' \in 0 .. MaxCalls
    BY <1>4, LibInitAssumption, LibraryAssumption DEF Fault, CallInv, Typed
  <2> QED BY <1>4, <2>1, CallKeeps
<1>5. CASE UNCHANGED vars
  BY <1>5 DEF vars, CallInv, Typed, Untouched, MapsFit, OwnerKnown, NodeOfCpuKept, Kept, AllOnes,
              numa_max_node, CpusSized, NodesListed, Ready
<1>6. CASE AppWrites /\ UNCHANGED <<faults, at, told, calls>>
  <2>1. /\ at = "ready" /\ UNCHANGED <<sys, cached, stale, pol, lib, ret, faults, at, told, calls>>
        /\ \E n \in Kept, cpus \in {{}, AllOnes} : v1.masks[n].owner = "app" /\ v1' = [v1 EXCEPT !.masks[n].cpus = cpus]
    BY <1>6 DEF AppWrites
  <2>2. PICK n \in Kept, cpus \in {{}, AllOnes} : v1.masks[n].owner = "app" /\ v1' = [v1 EXCEPT !.masks[n].cpus = cpus]
    BY <2>1
  <2>3. v1 = [masks |-> v1.masks, stale |-> v1.stale, foreign |-> v1.foreign, starved |-> v1.starved]
    BY DEF CallInv, Typed
  <2>4. v1' = [masks |-> v1'.masks, stale |-> v1.stale, foreign |-> v1.foreign, starved |-> v1.starved]
    BY <2>2, <2>3
  <2>5. DOMAIN v1'.masks = DOMAIN v1.masks
    BY <2>2, <2>3
  <2>6. v1.starved
    BY <2>2 DEF CallInv, OwnerKnown
  <2>7. OwnerKnown'
    BY <2>4, <2>6 DEF OwnerKnown
  <2>8. Typed'
    BY <2>1, <2>4 DEF CallInv, Typed
  <2>9. Untouched'
    BY <2>1 DEF Untouched
  <2>10. MapsFit' /\ NodeOfCpuKept'
    BY <2>1, <2>5 DEF CallInv, MapsFit, NodeOfCpuKept, Kept, AllOnes, numa_max_node, CpusSized, NodesListed, Ready
  <2> QED BY <2>7, <2>8, <2>9, <2>10 DEF CallInv
<1> QED BY <1>1, <1>2, <1>3, <1>4, <1>5, <1>6 DEF Next

LEMMA CallAlways == Spec => []CallInv
BY CallInit, CallStep, PTL DEF Spec

\* TypeOK holds in every reachable state: whatever of sysfs and /proc the constructor could not
\* read (libnuma.c:346-592), however the machine changed, sizes are numbers and both caches are
\* about nodes up to numa_max_node only.
THEOREM TypeCorrect == Spec => []TypeOK
<1>1. CallInv => TypeOK
  <2> SUFFICES ASSUME CallInv PROVE TypeOK
    OBVIOUS
  <2>1. sys.nodes \subseteq Nat
    BY SoundIs DEF CallInv, Typed
  <2> QED BY <2>1 DEF CallInv, Typed, MapsFit, Kept, LibType, TypeOK
<1> QED BY <1>1, CallAlways, PTL

\* The memory that numa_node_to_cpus_v1 keeps is the library's own unless a malloc had failed
\* (libnuma.c:1476-1523), for any number of lookups, refreshes and failures.
THEOREM OwnMemoryKept == Spec => []OwnMemory
<1>1. CallInv => OwnMemory
  BY DEF CallInv, OwnerKnown, OwnMemory
<1> QED BY <1>1, CallAlways, PTL

\* numa_node_of_cpu names a node that has the CPU, and fails only for a CPU of no node whose map
\* is known (libnuma.c:1630-1657), as long as the cached maps are those of the machine.
THEOREM NodeOfCpuAnswers == Spec => []NodeOfCpuRight
<1>1. CallInv => NodeOfCpuRight
  BY DEF CallInv, NodeOfCpuKept, NodeOfCpuRight, TrueMaps, Ready
<1> QED BY <1>1, CallAlways, PTL

----------------------------------------------------------------------------
(* What a call did, once its maps turn out to be true. *)

\* The machine that is shown by a call differs in the affinity of the process only.
LEMMA SameNodes ==
  ASSUME CallInv, NEW bad, NEW memory \in BOOLEAN, Effect(bad, memory)
  PROVE  sys'.nodes = sys.nodes /\ sys'.cpumap = sys.cpumap
<1>1. sys \in Machine(sys.nodes)
  BY SoundIs DEF CallInv, Typed
<1>2. ASSUME NEW R \in (SUBSET sys.cpus) \ {{}}, sys' = [sys EXCEPT !.runs = R]
      PROVE  sys'.nodes = sys.nodes /\ sys'.cpumap = sys.cpumap
  BY <1>1, <1>2 DEF Machine
<1> QED BY <1>2 DEF Effect

LEMMA TrueFound ==
  ASSUME CallInv, CpusSized, NEW S, NEW bad, LookedUp(S, bad), TrueMaps',
         sys'.nodes = sys.nodes, sys'.cpumap = sys.cpumap
  PROVE  /\ \A n \in S : Reads(n, S, bad) => n \in sys.nodes /\ Found(n, S, bad) = sys.cpumap[n]
         /\ CpusOf(S, S, bad) \subseteq CpusIn(S)
<1>1. ASSUME NEW n \in S, Reads(n, S, bad) PROVE n \in sys.nodes /\ Found(n, S, bad) = sys.cpumap[n]
  <2>1. n \in DOMAIN cached' /\ cached'[n] = Found(n, S, bad)
    BY <1>1, FoundFits
  <2>2. n \in sys'.nodes /\ cached'[n] = sys'.cpumap[n]
    BY <2>1 DEF TrueMaps
  <2> QED BY <2>1, <2>2
<1> QED BY <1>1 DEF CpusOf, CpusIn

\* The CPUs that a call asked for, and those it got.
LEMMA AffinityGot ==
  ASSUME CallInv, NEW call, NEW arg, NEW cpus, NEW C, numa_sched_setaffinity(call, arg, cpus), cpus \subseteq C
  PROVE  ret'.arg = arg /\ IF ret'.val = 0 THEN sys'.runs \subseteq C ELSE sys'.runs = sys.runs
<1>1. CASE SetaffinityOK(cpus)
  <2>1. sys' = [sys EXCEPT !.runs = cpus \cap sys.cpus] /\ ret'.arg = arg /\ ret'.val = 0
    BY <1>1 DEF numa_sched_setaffinity, Returned
  <2>2. sys'.runs = cpus \cap sys.cpus
    <3>1. sys \in Machine(sys.nodes)
      BY SoundIs DEF CallInv, Typed
    <3> QED BY <2>1, <3>1 DEF Machine
  <2> QED BY <2>1, <2>2
<1>2. CASE ~SetaffinityOK(cpus)
  BY <1>2 DEF numa_sched_setaffinity, Returned, Failed
<1> QED BY <1>1, <1>2

\* Which call it was can be told from what it returned.
LEMMA CallNames ==
  ASSUME NEW bad, NEW memory, Call(bad, memory)
  PROVE  \/ ret'.call \in {"numa_node_to_cpu_update", "numa_node_of_cpu", "numa_set_membind_v1",
                           "numa_set_interleave_mask_v1", "numa_get_interleave_mask_v1", "numa_get_membind_v1",
                           "numa_get_run_node_mask_v1", "numa_node_to_cpus_v1"}
         \/ ret'.call = "numa_get_run_node_mask" /\ numa_get_run_node_mask(bad)
         \/ ret'.call = "numa_is_cpuless_node" /\ \E node : numa_is_cpuless_node(node, bad)
         \/ ret'.call = "numa_run_on_node" /\ \E node : numa_run_on_node(node, bad)
         \/ /\ ret'.call \in {"numa_run_on_node_mask", "numa_run_on_node_mask_all"}
            /\ \E nodes : numa_run_on_node_mask(nodes, bad) \/ numa_run_on_node_mask_all(nodes, bad)
         \/ ret'.call = "numa_run_on_node_mask_v1" /\ \E nodes : numa_run_on_node_mask_v1(nodes, bad, memory)
         \/ ret'.call = "numa_bind_v1" /\ \E nodes : numa_bind_v1(nodes, bad)
<1>1. numa_node_to_cpu_update => ret'.call = "numa_node_to_cpu_update"
  BY DEF numa_node_to_cpu_update, Returned
<1>2. \A cpu : numa_node_of_cpu(cpu, bad) => ret'.call = "numa_node_of_cpu"
  BY DEF numa_node_of_cpu, Returned
<1>3. \A nodes : numa_set_membind_v1(nodes) => ret'.call = "numa_set_membind_v1"
  BY DEF numa_set_membind_v1, Setpol, Returned
<1>4. \A nodes : numa_set_interleave_mask_v1(nodes) => ret'.call = "numa_set_interleave_mask_v1"
  BY DEF numa_set_interleave_mask_v1, Setpol, Returned
<1>5. numa_get_interleave_mask_v1 => ret'.call = "numa_get_interleave_mask_v1"
  BY DEF numa_get_interleave_mask_v1, Returned
<1>6. numa_get_membind_v1 => ret'.call = "numa_get_membind_v1"
  BY DEF numa_get_membind_v1, Returned
<1>7. numa_get_run_node_mask_v1(bad) => ret'.call = "numa_get_run_node_mask_v1"
  BY DEF numa_get_run_node_mask_v1, GetRunNodes, Returned
<1>8. \A n : numa_node_to_cpus_v1(n, bad, memory) => ret'.call = "numa_node_to_cpus_v1"
  BY DEF numa_node_to_cpus_v1, Returned
<1>9. numa_get_run_node_mask(bad) => ret'.call = "numa_get_run_node_mask"
  BY DEF numa_get_run_node_mask, GetRunNodes, Returned
<1>10. \A node : numa_is_cpuless_node(node, bad) => ret'.call = "numa_is_cpuless_node"
  BY DEF numa_is_cpuless_node, Returned
<1>11. \A node : numa_run_on_node(node, bad) => ret'.call = "numa_run_on_node"
  BY DEF numa_run_on_node, numa_sched_setaffinity, Returned
<1>12. \A nodes : numa_run_on_node_mask(nodes, bad) => ret'.call = "numa_run_on_node_mask"
  BY DEF numa_run_on_node_mask, RunOnMask, numa_sched_setaffinity, Returned
<1>13. \A nodes : numa_run_on_node_mask_all(nodes, bad) => ret'.call = "numa_run_on_node_mask_all"
  BY DEF numa_run_on_node_mask_all, RunOnMask, numa_sched_setaffinity, Returned
<1>14. \A nodes : numa_run_on_node_mask_v1(nodes, bad, memory) => ret'.call = "numa_run_on_node_mask_v1"
  BY DEF numa_run_on_node_mask_v1, numa_sched_setaffinity, Returned
<1>15. \A nodes : numa_bind_v1(nodes, bad) => ret'.call = "numa_bind_v1"
  BY DEF numa_bind_v1, Setpol, Returned
<1> QED BY <1>1, <1>2, <1>3, <1>4, <1>5, <1>6, <1>7, <1>8, <1>9, <1>10, <1>11, <1>12, <1>13, <1>14, <1>15 DEF Call

\* RunConfined of one call.
Confined == IF ret'.val = 0 THEN sys'.runs \subseteq CpusIn(ret'.arg) ELSE sys'.runs = sys.runs

LEMMA CallConfined ==
  ASSUME CallInv, CpusSized, NEW bad, NEW memory \in BOOLEAN, Call(bad, memory),
         ret'.call \in RunCalls, ret'.arg # {-1}, TrueMaps'
  PROVE  Confined
<1>e. sys'.nodes = sys.nodes /\ sys'.cpumap = sys.cpumap
  BY CallEffect, SameNodes
<1>1. ASSUME NEW call, NEW nodes, NEW allowed, RunOnMask(call, nodes, allowed, bad) PROVE Confined
  <2> DEFINE S == NodeBits(allowed, nodes)
  <2>1. numa_sched_setaffinity(call, nodes, CpusOf(S, S, bad)) /\ LookedUp(S, bad) /\ S \subseteq nodes
    BY <1>1 DEF RunOnMask, NodeBits
  <2> HIDE DEF S
  <2>2. CpusOf(S, S, bad) \subseteq CpusIn(nodes)
    <3>1. CpusOf(S, S, bad) \subseteq CpusIn(S)
      BY <1>e, <2>1, TrueFound
    <3> QED BY <2>1, <3>1 DEF CpusIn
  <2> QED BY <2>1, <2>2, AffinityGot DEF Confined
<1>2. ASSUME NEW node, numa_run_on_node(node, bad) PROVE Confined
  <2>1. node # -1
    <3>1. ret'.arg = {node}
      BY <1>2 DEF numa_run_on_node, numa_sched_setaffinity, Returned
    <3> QED BY <3>1
  <2>2. CASE sys' = sys /\ ret'.val = Failed
    BY <2>2 DEF Confined, Failed
  <2>3. CASE ~(sys' = sys /\ ret'.val = Failed)
    <3> DEFINE S == {node}
    <3>1. /\ LookedUp(S, bad) /\ Reads(node, S, bad)
          /\ numa_sched_setaffinity("numa_run_on_node", S, Found(node, S, bad))
      BY <1>2, <2>1, <2>3 DEF numa_run_on_node, Returned
    <3>2. node \in S
      OBVIOUS
    <3> HIDE DEF S
    <3>3. node \in sys.nodes /\ Found(node, S, bad) = sys.cpumap[node]
      BY <1>e, <3>1, <3>2, TrueFound
    <3>4. Found(node, S, bad) \subseteq CpusIn(S)
      BY <3>2, <3>3 DEF CpusIn
    <3> QED BY <3>1, <3>4, AffinityGot DEF Confined
  <2> QED BY <2>2, <2>3
<1>3. ASSUME NEW nodes, numa_run_on_node_mask_v1(nodes, bad, memory) PROVE Confined
  <2> DEFINE S == {n \in nodes : n < NUMA_NUM_NODES}
             good == {n \in InRange(S) : Err1(n, S, bad) = 0}
             cpus == UNION {Found1(n, S, bad) : n \in good}
  <2>1. numa_sched_setaffinity("numa_run_on_node_mask_v1", nodes, cpus) /\ LookedUp1(S, bad, memory)
    BY <1>3 DEF numa_run_on_node_mask_v1
  <2>2. ASSUME NEW n \in good PROVE n \in nodes \cap sys.nodes /\ Found1(n, S, bad) = sys.cpumap[n]
    <3>1. n \in InRange(S) /\ n \in nodes
      BY DEF InRange
    <3> HIDE DEF S
    <3>2. n \in Kept' /\ v1'.masks[n].cpus = Found1(n, S, bad)
      BY <2>1, <3>1, Found1Fits
    <3>3. n \in sys'.nodes /\ v1'.masks[n].cpus = sys'.cpumap[n]
      BY <3>2 DEF TrueMaps, Kept
    <3> QED BY <1>e, <3>1, <3>2, <3>3
  <2>3. cpus \subseteq CpusIn(nodes)
    BY <2>2 DEF CpusIn
  <2> HIDE DEF cpus
  <2> QED BY <2>1, <2>3, AffinityGot DEF Confined
<1>4. \/ \E nodes : numa_run_on_node_mask(nodes, bad) \/ numa_run_on_node_mask_all(nodes, bad)
      \/ \E node : numa_run_on_node(node, bad)
      \/ \E nodes : numa_run_on_node_mask_v1(nodes, bad, memory)
  BY CallNames DEF RunCalls
<1> QED BY <1>1, <1>2, <1>3, <1>4 DEF numa_run_on_node_mask, numa_run_on_node_mask_all

\* A step in which calls changes is a call, made when the constructor was through.
LEMMA StepIsCall ==
  ASSUME CallInv, [Next]_vars, calls' # calls
  PROVE  at = "ready" /\ CpusSized /\ \E bad \in SUBSET sys.nodes, memory \in BOOLEAN : Call(bad, memory)
BY DEF Next, vars, Fini, AppWrites, CpusSized, NodesListed

\* A call that puts the process on nodes and succeeds leaves it on CPUs of those nodes only, one that
\* fails leaves it where it was (libnuma.c:1680, 1753, 1803, 1944), whatever maps could be read.
THEOREM RunIsConfined == Spec => RunConfined
<1>1. CallInv /\ [Next]_vars =>
        [ calls' # calls /\ ret'.call \in RunCalls /\ ret'.arg # {-1} /\ TrueMaps' =>
            IF ret'.val = 0
            THEN sys'.runs \subseteq CpusIn(ret'.arg)
            ELSE sys'.runs = sys.runs ]_vars
  <2> SUFFICES ASSUME CallInv, [Next]_vars, calls' # calls, ret'.call \in RunCalls, ret'.arg # {-1}, TrueMaps'
               PROVE  Confined
    BY DEF Confined
  <2>1. CpusSized /\ \E bad \in SUBSET sys.nodes, memory \in BOOLEAN : Call(bad, memory)
    BY StepIsCall
  <2> QED BY <2>1, CallConfined
<1> QED BY <1>1, CallAlways, PTL DEF Spec, RunConfined

\* numa_bind of version 1: the nodes whose CPUs it may use are among those it looked up.
LEMMA BindCall ==
  ASSUME CallInv, CpusSized, NEW bad, NEW nodes, numa_bind_v1(nodes, bad), AllRead', ret'.val = 0,
         sys'.nodes = sys.nodes, sys'.cpumap = sys.cpumap
  PROVE  /\ pol'.nodes \subseteq ret'.arg
         /\ SetaffinityOK(UNION {cached'[n] : n \in DOMAIN cached' \cap pol'.nodes
                                                     \cap Seen(lib.numa_all_nodes_ptr)})
             => sys'.runs \subseteq CpusIn(ret'.arg)
<1> DEFINE seen == {n \in nodes : n < sizeof_nodemask}
           S == NodeBits(lib.numa_all_nodes_ptr, seen)
           cpus == CpusOf(S, S, bad)
           kept == KernelNodes(nodes, sizeof_nodemask)
           bound == DOMAIN cached' \cap pol'.nodes \cap Seen(lib.numa_all_nodes_ptr)
<1>1. /\ sys' = IF SetaffinityOK(cpus) THEN [sys EXCEPT !.runs = cpus \cap sys.cpus] ELSE sys
      /\ LookedUp(S, bad) /\ Setpol("numa_bind_v1", "BIND", nodes, sizeof_nodemask)
  BY DEF numa_bind_v1
<1>2. ret'.arg = nodes /\ pol' = Policy("BIND", kept)
  BY <1>1 DEF Setpol, Returned, Failed
<1>3. pol'.nodes = kept
  BY <1>2 DEF Policy
<1>4. kept \subseteq nodes
  BY DEF KernelNodes
<1>5. bound \subseteq S
  <2>1. sizeof_nodemask \in Int
    BY CompatAssumption DEF sizeof_nodemask
  <2>2. sys.mems \in SUBSET Nat
    <3>1. sys.mems \in SUBSET sys.nodes /\ sys.nodes \in SUBSET Nat
      BY SoundIs DEF CallInv, Typed
    <3> QED BY <3>1
  <2>3. kept \subseteq seen
    BY <2>1, <2>2 DEF KernelNodes
  <2> HIDE DEF kept, seen
  <2> QED BY <1>3, <2>3 DEF NodeBits, Seen, numa_bitmask_isbitset
<1>6. S \subseteq nodes
  BY DEF NodeBits
<1> HIDE DEF S, kept
<1>7. UNION {cached'[n] : n \in bound} \subseteq cpus
  <2> SUFFICES ASSUME NEW n \in bound PROVE cached'[n] \subseteq cpus
    OBVIOUS
  <2>1. n \in S /\ n \in DOMAIN cached'
    BY <1>5
  <2>2. cached'[n] = Found(n, S, bad)
    BY <1>1, <2>1, FoundFits
  <2>3. AllOnes' = AllOnes
    BY DEF numa_bind_v1, AllOnes
  <2>4. cached'[n] # AllOnes
    BY <2>1, <2>3 DEF AllRead
  <2>5. Reads(n, S, bad)
    BY <2>2, <2>4 DEF Found, Reads, Unread
  <2> QED BY <2>1, <2>2, <2>5 DEF CpusOf
<1>8. cpus \subseteq CpusIn(nodes)
  <2>1. TrueMaps'
    BY DEF AllRead
  <2>2. cpus \subseteq CpusIn(S)
    BY <1>1, <2>1, TrueFound
  <2> QED BY <1>6, <2>2 DEF CpusIn
<1> HIDE DEF cpus, bound
<1>9. SetaffinityOK(UNION {cached'[n] : n \in bound}) => sys'.runs \subseteq CpusIn(nodes)
  <2> SUFFICES ASSUME SetaffinityOK(UNION {cached'[n] : n \in bound}) PROVE sys'.runs \subseteq CpusIn(nodes)
    OBVIOUS
  <2>1. SetaffinityOK(cpus)
    BY <1>7 DEF SetaffinityOK
  <2>2. sys' = [sys EXCEPT !.runs = cpus \cap sys.cpus]
    BY <1>1, <2>1
  <2>3. sys'.runs = cpus \cap sys.cpus
    <3>1. sys \in Machine(sys.nodes)
      BY SoundIs DEF CallInv, Typed
    <3> QED BY <2>2, <3>1 DEF Machine
  <2> QED BY <1>8, <2>3
<1> QED BY <1>2, <1>3, <1>4, <1>9 DEF bound

\* numa_bind of version 1 that succeeds has bound memory to nodes among those asked for, and, when
\* those nodes have a CPU to run on, the process too (libnuma.c:2052-2060).
THEOREM BindHoldsTogether == Spec => BindTogether
<1>1. CallInv /\ [Next]_vars =>
        [ calls' # calls /\ ret'.call = "numa_bind_v1" /\ ret'.val = 0 /\ AllRead' =>
            /\ pol'.nodes \subseteq ret'.arg
            /\ SetaffinityOK(UNION {cached'[n] : n \in DOMAIN cached' \cap pol'.nodes
                                                        \cap Seen(lib.numa_all_nodes_ptr)})
                => sys'.runs \subseteq CpusIn(ret'.arg) ]_vars
  <2> SUFFICES ASSUME CallInv, [Next]_vars, calls' # calls, ret'.call = "numa_bind_v1", ret'.val = 0, AllRead'
               PROVE  /\ pol'.nodes \subseteq ret'.arg
                      /\ SetaffinityOK(UNION {cached'[n] : n \in DOMAIN cached' \cap pol'.nodes
                                                                  \cap Seen(lib.numa_all_nodes_ptr)})
                          => sys'.runs \subseteq CpusIn(ret'.arg)
    OBVIOUS
  <2>1. CpusSized /\ \E bad \in SUBSET sys.nodes, memory \in BOOLEAN : Call(bad, memory)
    BY StepIsCall
  <2>2. PICK bad \in SUBSET sys.nodes, memory \in BOOLEAN : Call(bad, memory)
    BY <2>1
  <2>3. PICK nodes : numa_bind_v1(nodes, bad)
    BY <2>2, CallNames
  <2>4. sys'.nodes = sys.nodes /\ sys'.cpumap = sys.cpumap
    BY <2>2, CallEffect, SameNodes
  <2> QED BY <2>1, <2>3, <2>4, BindCall
<1> QED BY <1>1, CallAlways, PTL DEF Spec, BindTogether

----------------------------------------------------------------------------
(* What the constructor measured. *)

\* A machine is told from a file that could not be read.
LEMMA IsRead == ASSUME NEW m, Sound(m) PROVE m # None
<1>1. "nodes" \in DOMAIN m
  <2>1. m \in Machine(m.nodes)
    BY SoundIs
  <2> QED BY <2>1 DEF Machine
<1>2. "nodes" \notin DOMAIN None
  BY DEF None
<1> QED BY <1>1, <1>2

\* The numbers below a bound, counted.
LEMMA CountBelow == ASSUME NEW k \in Int, k >= -1 PROVE Cardinality(0 .. k) = k + 1
<1>1. CASE k = -1
  <2>1. 0 .. k = {}
    BY <1>1
  <2> QED BY <1>1, <2>1, FS_EmptySet
<1>2. CASE k >= 0
  <2>1. Cardinality(0 .. k) = k - 0 + 1
    BY <1>2, FS_Interval
  <2> QED BY <1>2, <2>1
<1> QED BY <1>1, <1>2

\* The highest node of a machine.
LEMMA HighestIs ==
  ASSUME NEW m, Sound(m)
  PROVE  /\ Max(m.nodes) \in m.nodes /\ Max(m.nodes) \in 0 .. m.nodeids - 1
         /\ m.nodes \subseteq 0 .. Max(m.nodes)
<1>1. m.nodeids \in Nat \ {0} /\ m.nodes \in SUBSET (0 .. m.nodeids - 1) /\ m.nodes # {}
  BY SoundIs
<1>2. m.nodeids - 1 \in Nat
  BY <1>1
<1>3. Max(m.nodes) \in m.nodes /\ \A y \in m.nodes : Max(m.nodes) >= y
  BY <1>1, <1>2, Greatest
<1> DEFINE x == Max(m.nodes)
<1> HIDE DEF x
<1>4. x \in m.nodes /\ \A y \in m.nodes : x >= y
  BY <1>3 DEF x
<1>5. x \in m.nodes /\ x \in 0 .. m.nodeids - 1 /\ m.nodes \subseteq 0 .. x
  BY <1>1, <1>4
<1> QED BY <1>5 DEF x

\* The fields that MeasureInv is about, with what bounds them.
LEMMA MeasuredFrame ==
  ASSUME CallInv, MeasureInv, UNCHANGED told,
         sys'.nodeids = sys.nodeids, sys'.cpuids = sys.cpuids,
         at' = at \/ (at = "compat" /\ at' = "ready"),
         lib' = lib \/ \E N : lib' = [lib EXCEPT !.numa_all_nodes = N]
  PROVE  MeasureInv'
<1>1. /\ lib'.nodemask_sz = lib.nodemask_sz /\ lib'.cpumask_sz = lib.cpumask_sz
      /\ lib'.maxconfigurednode = lib.maxconfigurednode /\ lib'.maxconfiguredcpu = lib.maxconfiguredcpu
      /\ lib'.numprocnode = lib.numprocnode /\ lib'.numproccpu = lib.numproccpu
      /\ lib'.numa_memnode_ptr = lib.numa_memnode_ptr
      /\ lib'.numa_all_nodes_ptr = lib.numa_all_nodes_ptr /\ lib'.numa_all_cpus_ptr = lib.numa_all_cpus_ptr
      /\ lib'.numa_possible_nodes_ptr = lib.numa_possible_nodes_ptr
      /\ lib'.numa_possible_cpus_ptr = lib.numa_possible_cpus_ptr
  BY DEF CallInv, Typed, LibType
<1>2. NodesFit'
  BY <1>1 DEF MeasureInv, NodesFit, NodesListed, numa_max_node
<1>3. CpusFit'
  BY <1>1 DEF MeasureInv, CpusFit, CpusSized, CpusCounted, NodesListed, hicpu
<1>4. ASSUME at' \in {"compat", "ready"} PROVE ConstraintsWhole' /\ AllNodesExact' /\ PossibleCoversAllowed'
  <2>1. ConstraintsWhole /\ AllNodesExact /\ PossibleCoversAllowed
    BY <1>4 DEF MeasureInv
  <2>2. ConstraintsWhole'
    BY <1>1, <2>1 DEF ConstraintsWhole
  <2>3. AllNodesExact'
    BY <1>1, <2>1 DEF AllNodesExact
  <2>4. PossibleCoversAllowed'
    BY <1>1, <2>1 DEF PossibleCoversAllowed, Measured, hicpu
  <2> QED BY <2>2, <2>3, <2>4
<1> QED BY <1>2, <1>3, <1>4 DEF MeasureInv

\* The allowed CPUs and their number.
LEMMA CpusConstrained ==
  ASSUME Ordinary, CallInv, MeasureInv, at = "set_task_constraints"
  PROVE  LET C == CpuConstraint(CpusLine)
         IN  /\ C.mask \in Masks /\ C.ret = Cardinality(Seen(C.mask)) /\ C.ret > 0
             /\ Seen(C.mask) \subseteq sys.runs \cup (0 .. hicpu)
<1> DEFINE C == CpuConstraint(CpusLine)
           r == CpusLine
           size == lib.cpumask_sz
           seen == {b \in sys.runs : b < size}
           Goal == /\ C.mask \in Masks /\ C.ret = Cardinality(Seen(C.mask)) /\ C.ret > 0
                   /\ Seen(C.mask) \subseteq sys.runs \cup (0 .. hicpu)
<1> SUFFICES Goal
  OBVIOUS
<1>1. /\ sys \in Machines /\ size \in Nat /\ hicpu \in Int /\ Sound(sys)
  BY DEF CallInv, Typed, Untouched, LibType, hicpu
<1>2. /\ sys.cpuids \in Nat \ {0} /\ sys.runs \in SUBSET (0 .. sys.cpuids - 1) /\ sys.runs # {}
  BY <1>1, SoundIs
<1>3. PICK m \in Machines : m.cpuids = sys.cpuids /\ hicpu = m.nconf - 1
  BY DEF MeasureInv, CpusFit, CpusCounted, CpusSized, NodesListed
<1>4. m.nconf <= size /\ m.nconf \in Nat \ {0}
  <2>1. m.nconf <= size
    BY <1>3 DEF MeasureInv, CpusFit, CpusSized, NodesListed
  <2>2. Sound(m)
    BY LibInitAssumption
  <2> QED BY <2>1, <2>2, SoundIs
<1>5. hicpu + 1 = m.nconf /\ hicpu < size /\ hicpu >= 0
  BY <1>1, <1>3, <1>4
<1>6. /\ r.ret \in Int /\ r.mask \in Masks /\ r.mask.size = size
      /\ Cardinality(seen) \in Nat
      /\ \/ r.ret = Failed /\ Seen(r.mask) = {} /\ r.mask.bits = {}
         \/ r.ret = Cardinality(seen) /\ Seen(r.mask) = seen /\ r.mask.bits = sys.runs
  <2>1. r = read_mask(Printed(sys.runs, sys.cpuids), numa_bitmask_alloc(size))
    BY DEF CpusLine, allocate_cpumask
  <2> HIDE DEF r, size
  <2>2. ReadAs(r, sys.runs, size)
    BY <1>1, <1>2, <2>1, LineRead
  <2> QED BY <2>2 DEF ReadAs
<1> HIDE DEF r, size
<1>7. CASE r.ret <= 0
  <2> DEFINE S == SetBits(r.mask, 0 .. hicpu)
  <2>1. C = [ret |-> hicpu + 1, mask |-> S]
    BY <1>7 DEF CpuConstraint, r
  <2>2. 0 .. hicpu \in SUBSET Nat /\ \A n \in 0 .. hicpu : n < size
    BY <1>1, <1>5
  <2>3. S \in Masks /\ Seen(S) = Seen(r.mask) \cup (0 .. hicpu)
    BY <1>6, <2>2, SetSeen
  <2>4. Seen(r.mask) = {}
    <3>1. CASE r.ret = Cardinality(seen) /\ Seen(r.mask) = seen
      <4>1. seen \subseteq 0 .. sys.cpuids
        BY <1>2
      <4>2. seen # {} => Cardinality(seen) > 0
        <5> HIDE DEF seen
        <5> QED BY <1>2, <4>1, FiniteBits
      <4> HIDE DEF seen
      <4> QED BY <1>6, <1>7, <3>1, <4>2
    <3> QED BY <1>6, <3>1
  <2>6. Seen(S) = 0 .. hicpu
    BY <2>3, <2>4
  <2>7. Cardinality(0 .. hicpu) = hicpu + 1
    BY <1>1, <1>5, CountBelow
  <2>8. C.ret = hicpu + 1 /\ C.mask = S
    BY <2>1
  <2> HIDE DEF C, S
  <2>9. C.ret > 0 /\ C.mask \in Masks /\ Seen(C.mask) = 0 .. hicpu
    BY <1>1, <1>5, <2>3, <2>6, <2>8
  <2> QED BY <2>7, <2>8, <2>9
<1>8. CASE r.ret > 0
  <2>0. r.ret = Cardinality(seen) /\ Seen(r.mask) = seen /\ r.mask.bits = sys.runs
    BY <1>6, <1>8 DEF Failed
  <2>1. CASE r.ret > hicpu + 1
    <3> DEFINE S == ClearBits(r.mask, hicpu + 1 .. r.mask.size - 1)
    <3>1. C = [ret |-> hicpu + 1, mask |-> S]
      BY <1>8, <2>1, <1>6 DEF CpuConstraint, r
    <3>2. hicpu + 1 .. size - 1 \in SUBSET Nat
      BY <1>1, <1>5
    <3>3. S \in Masks /\ Seen(S) = seen \ (hicpu + 1 .. size - 1)
      <4>1. S \in Masks /\ Seen(S) = Seen(r.mask) \ (hicpu + 1 .. size - 1)
        BY <1>6, <3>2, ClearSeen
      <4> QED BY <2>0, <4>1
    <3>4. 0 .. hicpu \subseteq sys.runs
      <4>1. Cardinality(sys.runs) <= m.nconf \/ 0 .. m.nconf - 1 \subseteq sys.runs
        BY <1>1 DEF Ordinary
      <4>2. CASE Cardinality(sys.runs) <= m.nconf
        <5>1. IsFiniteSet(sys.runs) /\ Cardinality(sys.runs) \in Nat
          <6>1. sys.runs \in SUBSET (0 .. sys.cpuids) /\ sys.cpuids \in Nat
            BY <1>2
          <6> QED BY <6>1, FiniteBits
        <5>2. seen \subseteq sys.runs
          OBVIOUS
        <5>3. Cardinality(seen) <= Cardinality(sys.runs)
          <6> HIDE DEF seen
          <6> QED BY <5>1, <5>2, FS_Subset
        <5> HIDE DEF seen
        <5> QED BY <1>1, <1>4, <1>5, <1>6, <2>0, <2>1, <4>2, <5>1, <5>3
      <4>3. m.nconf - 1 = hicpu
        BY <1>3
      <4> QED BY <4>1, <4>2, <4>3
    <3>5. Seen(S) = 0 .. hicpu
      <4>1. seen \ (hicpu + 1 .. size - 1) = 0 .. hicpu
        BY <1>1, <1>2, <1>5, <3>4
      <4> QED BY <3>3, <4>1
    <3>6. Cardinality(0 .. hicpu) = hicpu + 1
      BY <1>1, <1>5, CountBelow
    <3>7. C.ret = hicpu + 1 /\ C.mask = S
      BY <3>1
    <3> HIDE DEF C, S
    <3>8. C.ret > 0 /\ C.mask \in Masks /\ Seen(C.mask) = 0 .. hicpu
      BY <1>1, <1>5, <3>3, <3>5, <3>7
    <3> QED BY <3>6, <3>7, <3>8
  <2>2. CASE ~(r.ret > hicpu + 1)
    <3>1. C = r
      BY <1>6, <1>8, <2>2 DEF CpuConstraint, r
    <3> HIDE DEF C
    <3> QED BY <1>6, <1>8, <2>0, <3>1
  <2> QED BY <2>1, <2>2
<1> QED BY <1>6, <1>7, <1>8

\* The allowed nodes and their number.
LEMMA NodesConstrained ==
  ASSUME Ordinary, CallInv, MeasureInv, at = "set_task_constraints"
  PROVE  LET N == NodeConstraint(MemsLine)
         IN  /\ N.ret = Cardinality(Seen(N.mask)) /\ N.ret > 0
             /\ IF sys.cpusets THEN Seen(N.mask) = sys.mems ELSE Seen(N.mask) = 0 .. numa_max_node
             /\ numa_max_node \in Nat /\ numa_max_node < sys.nodeids
             /\ sys.nodeids \in Nat /\ sys.nodeids <= lib.cpumask_sz /\ lib.cpumask_sz \in Nat
<1> DEFINE N == NodeConstraint(MemsLine)
           r == MemsLine
           size == lib.nodemask_sz
           top == numa_max_node
           Goal == /\ N.ret = Cardinality(Seen(N.mask)) /\ N.ret > 0
                   /\ IF sys.cpusets THEN Seen(N.mask) = sys.mems ELSE Seen(N.mask) = 0 .. numa_max_node
                   /\ numa_max_node \in Nat /\ numa_max_node < sys.nodeids
                   /\ sys.nodeids \in Nat /\ sys.nodeids <= lib.cpumask_sz /\ lib.cpumask_sz \in Nat
<1> SUFFICES Goal
  OBVIOUS
<1>1. /\ size \in Nat /\ top \in Int /\ Sound(sys) /\ lib.cpumask_sz \in Nat
      /\ sys.nodeids <= size /\ sys.nodeids <= lib.cpumask_sz /\ lib.numprocnode = -1
  BY DEF CallInv, Typed, LibType, MeasureInv, NodesFit, CpusFit, CpusSized, NodesListed, numa_max_node
<1>2. /\ sys.nodeids \in Nat \ {0} /\ sys.mems \in SUBSET sys.nodes /\ sys.mems # {}
      /\ sys.nodes \in SUBSET (0 .. sys.nodeids - 1) /\ sys.maxnodes \in Nat /\ sys.nodeids <= sys.maxnodes
      /\ sys.mems \in SUBSET (0 .. sys.maxnodes - 1) /\ sys.cpusets \in BOOLEAN
  BY <1>1, SoundIs
<1>3. top \in Nat /\ top < sys.nodeids
  <2>1. CASE told.nodes = None
    <3>1. top = 0
      BY <2>1 DEF MeasureInv, NodesFit, NodesListed
    <3> QED BY <1>2, <3>1
  <2>2. CASE told.nodes # None
    <3>1. Sound(told.nodes) /\ told.nodes.nodeids = sys.nodeids /\ top = Max(told.nodes.nodes)
      BY <2>2 DEF MeasureInv, NodesFit, NodesListed
    <3>2. top \in 0 .. sys.nodeids - 1
      BY <3>1, HighestIs
    <3> HIDE DEF top
    <3> QED BY <1>2, <3>2
  <2> QED BY <2>1, <2>2
<1>4. CASE sys.cpusets
  <2>1. r = read_mask(Printed(sys.mems, sys.maxnodes), numa_bitmask_alloc(size))
    BY <1>4 DEF MemsLine, allocate_nodemask
  <2>2. sys.mems \subseteq 0 .. size - 1
    BY <1>1, <1>2
  <2>3. sys.maxnodes \in Nat \ {0}
    BY <1>2
  <2>4. r.ret = Cardinality(sys.mems) /\ Seen(r.mask) = sys.mems
    <3> HIDE DEF r, size
    <3>1. ReadAs(r, sys.mems, size)
      BY <1>1, <1>2, <2>1, <2>3, LineRead
    <3> QED BY <2>2, <3>1 DEF ReadAs
  <2>5. Cardinality(sys.mems) > 0
    <3>1. sys.mems \in SUBSET (0 .. sys.maxnodes)
      BY <1>2
    <3> QED BY <1>2, <3>1, FiniteBits
  <2>6. N = r
    <3>1. ~(r.ret <= 0)
      <4>1. Cardinality(sys.mems) \in Nat
        <5>1. sys.mems \in SUBSET (0 .. sys.maxnodes)
          BY <1>2
        <5> QED BY <1>2, <5>1, FiniteBits
      <4> QED BY <2>4, <2>5, <4>1
    <3> QED BY <3>1 DEF NodeConstraint
  <2> HIDE DEF N, r
  <2> QED BY <1>1, <1>2, <1>3, <1>4, <2>4, <2>5, <2>6
<1>5. CASE ~sys.cpusets
  <2> DEFINE S == SetBits(allocate_nodemask, 0 .. top)
  <2>1. N = [ret |-> top + 1, mask |-> S]
    BY <1>1, <1>5 DEF NodeConstraint, MemsLine, numa_max_node
  <2>2. allocate_nodemask = [size |-> size, bits |-> {}] /\ allocate_nodemask \in Masks
    BY <1>1, NewMask DEF allocate_nodemask
  <2> HIDE DEF top, size
  <2>3. 0 .. top \in SUBSET Nat /\ \A n \in 0 .. top : n < size
    BY <1>1, <1>2, <1>3
  <2>4. Seen(allocate_nodemask) = {} /\ allocate_nodemask.size = size
    BY <2>2 DEF Seen
  <2>5. Seen(S) = 0 .. top
    <3>1. \A n \in 0 .. top : n < allocate_nodemask.size
      BY <2>3, <2>4
    <3>2. Seen(S) = Seen(allocate_nodemask) \cup (0 .. top)
      BY <2>2, <2>3, <3>1, SetSeen
    <3> QED BY <2>4, <3>2
  <2>6. Cardinality(0 .. top) = top + 1
    BY <1>3, CountBelow
  <2>7. N.ret = top + 1 /\ N.mask = S
    BY <2>1
  <2> HIDE DEF N, S
  <2>8. N.ret = Cardinality(Seen(N.mask)) /\ N.ret > 0 /\ Seen(N.mask) = 0 .. top
    BY <1>3, <2>5, <2>6, <2>7
  <2> QED BY <1>1, <1>2, <1>3, <1>5, <2>8 DEF top
<1> QED BY <1>2, <1>4, <1>5

\* The end of the constructor: what it could not read is not counted, what it read is counted right.
LEMMA ConstraintsSet ==
  ASSUME Ordinary, CallInv, MeasureInv, NEW works \in BOOLEAN, set_task_constraints(works), sys' = sys
  PROVE  ConstraintsWhole' /\ AllNodesExact' /\ PossibleCoversAllowed' /\ NodesFit' /\ CpusFit'
<1> DEFINE C == CpuConstraint(CpusLine)
           N == NodeConstraint(MemsLine)
           pc == SetBits(Allocated.numa_possible_cpus_ptr, 0 .. hicpu)
           pn == SetBits(Allocated.numa_possible_nodes_ptr, PossibleNodes)
<1>a. at = "set_task_constraints" /\ at' = "compat"
  BY DEF set_task_constraints
<1>b. /\ lib \in LibType /\ told = [nodes |-> told.nodes, status |-> told.status] /\ Sound(sys)
      /\ lib.cpumask_sz \in Nat /\ lib.nodemask_sz \in Nat /\ hicpu \in Int /\ sys \in Machines
  BY <1>a DEF CallInv, Typed, Untouched, LibType, hicpu
<1>c. sys # None
  BY <1>b, IsRead
<1>1. /\ lib' = IF ~works THEN Allocated
                ELSE [Allocated EXCEPT
                      !.numa_all_cpus_ptr = C.mask, !.numproccpu = C.ret,
                      !.numa_all_nodes_ptr = N.mask, !.numprocnode = N.ret,
                      !.numa_possible_cpus_ptr = pc, !.numa_possible_nodes_ptr = pn]
      /\ told' = [told EXCEPT !.status = IF works THEN sys ELSE None]
  BY DEF set_task_constraints
<1>2. told'.nodes = told.nodes /\ told'.status = IF works THEN sys ELSE None
  BY <1>b, <1>1
<1>3. /\ C.mask \in Masks /\ C.ret = Cardinality(Seen(C.mask)) /\ C.ret > 0
      /\ Seen(C.mask) \subseteq sys.runs \cup (0 .. hicpu)
  BY <1>a, CpusConstrained
<1>4. /\ N.ret = Cardinality(Seen(N.mask)) /\ N.ret > 0
      /\ IF sys.cpusets THEN Seen(N.mask) = sys.mems ELSE Seen(N.mask) = 0 .. numa_max_node
      /\ numa_max_node \in Nat /\ numa_max_node < sys.nodeids
      /\ sys.nodeids \in Nat /\ sys.nodeids <= lib.cpumask_sz
  BY <1>a, NodesConstrained
<1>5. /\ Allocated.numa_possible_cpus_ptr = allocate_cpumask /\ Allocated.numa_possible_nodes_ptr = allocate_cpumask
      /\ Allocated.numa_all_cpus_ptr = allocate_cpumask /\ Allocated.numa_all_nodes_ptr = allocate_nodemask
      /\ Allocated.numprocnode = lib.numprocnode /\ Allocated.numproccpu = lib.numproccpu
  BY <1>b DEF Allocated, LibType
<1>6. /\ allocate_cpumask = [size |-> lib.cpumask_sz, bits |-> {}] /\ allocate_cpumask \in Masks
      /\ allocate_nodemask = [size |-> lib.nodemask_sz, bits |-> {}]
  BY <1>b, NewMask DEF allocate_cpumask, allocate_nodemask
<1>7. /\ Seen(allocate_cpumask) = {} /\ Seen(allocate_nodemask) = {} /\ allocate_cpumask.size = lib.cpumask_sz
  BY <1>6 DEF Seen
<1>8. Seen(pc) = 0 .. hicpu /\ Seen(pn) = 0 .. numa_max_node
  <2>1. hicpu < lib.cpumask_sz
    <3>1. PICK m \in Machines : m.cpuids = sys.cpuids /\ hicpu = m.nconf - 1
      BY <1>a DEF MeasureInv, CpusFit, CpusCounted, CpusSized, NodesListed
    <3>2. m.nconf <= lib.cpumask_sz
      BY <1>a, <3>1 DEF MeasureInv, CpusFit, CpusSized, NodesListed
    <3>3. Sound(m)
      BY LibInitAssumption
    <3>4. m.nconf \in Nat
      BY <3>3, SoundIs
    <3> QED BY <1>b, <3>1, <3>2, <3>4
  <2>2. 0 .. hicpu \in SUBSET Nat /\ \A n \in 0 .. hicpu : n < allocate_cpumask.size
    BY <1>b, <1>7, <2>1
  <2>3. 0 .. numa_max_node \in SUBSET Nat /\ \A n \in 0 .. numa_max_node : n < allocate_cpumask.size
    BY <1>b, <1>4, <1>7
  <2>4. Seen(SetBits(allocate_cpumask, 0 .. hicpu)) = Seen(allocate_cpumask) \cup (0 .. hicpu)
    BY <1>6, <2>2, SetSeen
  <2>5. Seen(SetBits(allocate_cpumask, 0 .. numa_max_node)) = Seen(allocate_cpumask) \cup (0 .. numa_max_node)
    BY <1>6, <2>3, SetSeen
  <2>6. PossibleNodes = 0 .. numa_max_node
    BY DEF PossibleNodes, numa_max_node
  <2> QED BY <1>5, <1>7, <2>4, <2>5, <2>6
<1> HIDE DEF C, N, pc, pn
<1>9. /\ lib'.nodemask_sz = lib.nodemask_sz /\ lib'.cpumask_sz = lib.cpumask_sz
      /\ lib'.maxconfigurednode = lib.maxconfigurednode /\ lib'.maxconfiguredcpu = lib.maxconfiguredcpu
      /\ lib'.numa_memnode_ptr = lib.numa_memnode_ptr
  BY <1>b, <1>1 DEF Allocated, LibType
<1>10. NodesFit'
  BY <1>a, <1>2, <1>9 DEF MeasureInv, NodesFit, NodesListed, numa_max_node
<1>11. CpusFit'
  BY <1>a, <1>9 DEF MeasureInv, CpusFit, CpusSized, CpusCounted, NodesListed, hicpu
<1>12. CASE ~works
  <2>1. told'.status = None /\ lib' = Allocated
    BY <1>1, <1>2, <1>12
  <2>2. lib.numprocnode = -1 /\ lib.numproccpu = -1
    BY <1>a DEF MeasureInv, CpusFit
  <2>3. ConstraintsWhole'
    BY <1>5, <1>7, <2>1, <2>2 DEF ConstraintsWhole
  <2> QED BY <1>10, <1>11, <2>1, <2>3 DEF AllNodesExact, PossibleCoversAllowed, Measured
<1>13. CASE works
  <2>1. told'.status = sys /\ told'.status # None
    BY <1>2, <1>13, <1>c
  <2>2. /\ lib'.numa_all_cpus_ptr = C.mask /\ lib'.numproccpu = C.ret
        /\ lib'.numa_all_nodes_ptr = N.mask /\ lib'.numprocnode = N.ret
        /\ lib'.numa_possible_cpus_ptr = pc /\ lib'.numa_possible_nodes_ptr = pn
    BY <1>b, <1>1, <1>13 DEF Allocated, LibType
  <2>3. ConstraintsWhole'
    BY <1>3, <1>4, <2>1, <2>2 DEF ConstraintsWhole, numa_bitmask_weight
  <2>4. AllNodesExact'
    BY <1>4, <2>1, <2>2 DEF AllNodesExact
  <2>5. ASSUME Measured' PROVE Seen(N.mask) \subseteq 0 .. numa_max_node
    <3>1. told.nodes # None /\ told.nodes.nodes = sys.nodes
      BY <1>2, <2>1, <2>5 DEF Measured
    <3>2. Sound(told.nodes) /\ numa_max_node = Max(told.nodes.nodes)
      BY <1>a, <3>1 DEF MeasureInv, NodesFit, NodesListed
    <3>3. told.nodes.nodes \subseteq 0 .. Max(told.nodes.nodes)
      BY <3>2, HighestIs
    <3>4. sys.mems \subseteq 0 .. numa_max_node
      BY <1>b, <3>1, <3>2, <3>3, SoundIs
    <3> QED BY <1>4, <3>4
  <2>6. sys.runs \subseteq 0 .. hicpu => Seen(C.mask) \subseteq Seen(pc)
    BY <1>3, <1>8
  <2>7. hicpu' = hicpu
    BY <1>9 DEF hicpu
  <2>8. PossibleCoversAllowed'
    BY <1>8, <2>1, <2>2, <2>5, <2>6, <2>7 DEF PossibleCoversAllowed
  <2> QED BY <1>10, <1>11, <2>3, <2>4, <2>8
<1> QED BY <1>12, <1>13

\* The sizes come first, and have room for the nodes and the CPUs there may be.
LEMMA SizesSet ==
  ASSUME Ordinary, CallInv, MeasureInv, NEW works \in BOOLEAN, sys' = sys,
         \/ set_nodemask_size(works) \/ set_configured_nodes(works)
         \/ set_numa_max_cpu(works) \/ set_configured_cpus
  PROVE  NodesFit' /\ CpusFit' /\ at' \notin {"compat", "ready"}
<1>a. /\ at \notin {"ready", "fini", "compat"} /\ sys \in Machines /\ Sound(sys) /\ lib \in LibType
      /\ told = [nodes |-> told.nodes, status |-> told.status]
  BY DEF CallInv, Typed, Untouched, set_nodemask_size, set_configured_nodes, set_numa_max_cpu, set_configured_cpus
<1>b. /\ sys.nodeids \in Nat \ {0} /\ sys.maxnodes \in Nat /\ sys.nodeids <= sys.maxnodes
      /\ sys.cpuids \in Nat \ {0} /\ sys.nodes # {} /\ sys.nodes \in SUBSET (0 .. sys.nodeids - 1)
  BY <1>a, SoundIs
<1>c. lib.nodemask_sz \in Nat /\ lib.cpumask_sz \in Nat
  BY <1>a DEF LibType
<1>d. /\ sys.nodeids <= LastTry /\ sys.nodeids <= GuessedCpus /\ sys.nodeids <= sys.cpuids
      /\ \A m \in Machines : m.nconf <= GuessedCpus
  BY <1>a DEF Ordinary
<1>1. CASE set_nodemask_size(works)
  <2> DEFINE sz == IF works /\ sys.cpusets THEN howmany(sys.maxnodes, 4) * 4 ELSE TriedSize
  <2>1. at = "numa_init" /\ at' = "set_configured_nodes" /\ lib' = [lib EXCEPT !.nodemask_sz = sz]
    BY <1>1 DEF set_nodemask_size
  <2>2. sys.nodeids <= sz
    <3>1. CASE works /\ sys.cpusets
      <4>1. howmany(sys.maxnodes, 4) \in Nat /\ sys.maxnodes <= 4 * howmany(sys.maxnodes, 4)
        <5>1. \A d \in Nat \ {0} : howmany(sys.maxnodes, d) \in Nat /\ sys.maxnodes <= d * howmany(sys.maxnodes, d)
          BY <1>b, HowMany
        <5>2. 4 \in Nat \ {0}
          OBVIOUS
        <5> QED BY <5>1, <5>2, Zenon
      <4> QED BY <1>b, <3>1, <4>1
    <3>2. CASE ~(works /\ sys.cpusets)
      <4>1. TriedSize \in Nat /\ (TriedSize >= sys.nodeids \/ TriedSize >= LastTry)
        BY <1>a, Tried
      <4> HIDE DEF TriedSize
      <4>2. sys.nodeids <= TriedSize
        BY <1>b, <1>d, <4>1, LibInitAssumption
      <4> QED BY <3>2, <4>2
    <3> QED BY <3>1, <3>2
  <2> HIDE DEF sz
  <2>3. lib'.nodemask_sz = sz /\ lib'.numprocnode = lib.numprocnode /\ lib'.numproccpu = lib.numproccpu
    BY <1>a, <2>1 DEF LibType
  <2> QED BY <2>1, <2>2, <2>3 DEF MeasureInv, NodesFit, CpusFit, NodesListed, CpusSized, CpusCounted
<1>2. CASE set_configured_nodes(works)
  <2> DEFINE found == IF works THEN sys.nodes ELSE {}
             nodes == SetBits(allocate_nodemask, found)
             top == IF works THEN HighestNode(found) ELSE 0
  <2>1. /\ at = "set_configured_nodes" /\ at' = "set_numa_max_cpu"
        /\ lib' = [lib EXCEPT !.numa_nodes_ptr = nodes, !.numa_memnode_ptr = nodes, !.maxconfigurednode = top]
        /\ told' = [told EXCEPT !.nodes = IF works THEN sys ELSE None]
    BY <1>2 DEF set_configured_nodes
  <2>2. told'.nodes = IF works THEN sys ELSE None
    BY <1>a, <2>1
  <2>3. works => top = Max(sys.nodes)
    BY <1>b DEF HighestNode
  <2>4. sys.nodeids <= lib.nodemask_sz
    BY <2>1 DEF MeasureInv, NodesFit
  <2>5. works => nodes = Mask(lib.nodemask_sz, sys.nodes)
    <3> SUFFICES ASSUME works PROVE nodes = Mask(lib.nodemask_sz, sys.nodes)
      OBVIOUS
    <3>1. allocate_nodemask = [size |-> lib.nodemask_sz, bits |-> {}] /\ allocate_nodemask \in Masks
      BY <1>c, NewMask DEF allocate_nodemask
    <3>2. sys.nodes \in SUBSET Nat /\ {n \in sys.nodes : n < lib.nodemask_sz} = sys.nodes
      BY <1>b, <1>c, <2>4
    <3>3. nodes = [size |-> allocate_nodemask.size, bits |-> allocate_nodemask.bits \cup {n \in sys.nodes : n < allocate_nodemask.size}]
      BY <3>1, <3>2, MaskOps
    <3>4. allocate_nodemask.size = lib.nodemask_sz /\ allocate_nodemask.bits = {}
      BY <3>1
    <3> QED BY <3>2, <3>3, <3>4 DEF Mask
  <2> HIDE DEF nodes, top, found
  <2>6. /\ lib'.nodemask_sz = lib.nodemask_sz /\ lib'.numprocnode = lib.numprocnode
        /\ lib'.numproccpu = lib.numproccpu /\ numa_max_node' = top /\ lib'.numa_memnode_ptr = nodes
    BY <1>a, <2>1 DEF LibType, numa_max_node
  <2>7. NodesFit'
    <3>1. CASE works
      <4>1. told'.nodes = sys /\ told'.nodes # None
        BY <1>a, <2>2, <3>1, IsRead
      <4> QED BY <1>a, <2>3, <2>4, <2>5, <2>6, <3>1, <4>1 DEF NodesFit
    <3>2. CASE ~works
      <4>1. top = 0
        BY <3>2 DEF top
      <4> QED BY <2>2, <2>4, <2>6, <3>2, <4>1 DEF NodesFit
    <3> QED BY <3>1, <3>2
  <2>8. CpusFit'
    BY <2>1, <2>6 DEF MeasureInv, CpusFit, NodesListed, CpusSized, CpusCounted
  <2> QED BY <2>1, <2>7, <2>8
<1>3. CASE set_numa_max_cpu(works)
  <2> DEFINE sz == IF works THEN round_up(sys.cpuids, LongBits) ELSE GuessedCpus
  <2>1. /\ at = "set_numa_max_cpu" /\ at' = "set_configured_cpus" /\ told' = told
        /\ lib' = [lib EXCEPT !.cpumask_sz = sz]
    BY <1>3 DEF set_numa_max_cpu
  <2>2. sys.nodeids <= sz /\ \A m \in Machines : m.cpuids = sys.cpuids => m.nconf <= sz
    <3>1. CASE works
      <4> DEFINE h == howmany(sys.cpuids, LongBits)
      <4>1. LongBits \in Nat \ {0}
        BY IntBitsAssumption DEF LongBits
      <4>2. h \in Nat /\ sys.cpuids <= LongBits * h
        BY <1>b, <4>1, HowMany
      <4>3. sz = h * LongBits
        BY <3>1 DEF round_up
      <4> HIDE DEF h, sz
      <4>4. h * LongBits = LongBits * h /\ h * LongBits \in Int
        BY <4>1, <4>2
      <4>5. sys.cpuids <= sz /\ sz \in Int
        BY <4>2, <4>3, <4>4
      <4>6. ASSUME NEW m \in Machines, m.cpuids = sys.cpuids PROVE m.nconf <= sz
        <5>1. Sound(m)
          BY LibInitAssumption
        <5>2. m.nconf \in Nat /\ m.nconf <= sys.cpuids
          BY <4>6, <5>1, SoundIs
        <5> QED BY <1>b, <4>5, <5>2
      <4> QED BY <1>b, <1>d, <4>5, <4>6
    <3>2. CASE ~works
      BY <1>d, <3>2
    <3> QED BY <3>1, <3>2
  <2> HIDE DEF sz
  <2>3. /\ lib'.nodemask_sz = lib.nodemask_sz /\ lib'.cpumask_sz = sz
        /\ lib'.numprocnode = lib.numprocnode /\ lib'.numproccpu = lib.numproccpu
        /\ numa_max_node' = numa_max_node /\ lib'.numa_memnode_ptr = lib.numa_memnode_ptr
    BY <1>a, <2>1 DEF LibType, numa_max_node
  <2>4. NodesFit'
    BY <2>1, <2>3 DEF MeasureInv, NodesFit, NodesListed
  <2>5. CpusFit'
    BY <2>1, <2>2, <2>3 DEF MeasureInv, CpusFit, NodesListed, CpusSized, CpusCounted
  <2> QED BY <2>1, <2>4, <2>5
<1>4. CASE set_configured_cpus
  <2>1. /\ at = "set_configured_cpus" /\ at' = "set_task_constraints" /\ told' = told
        /\ lib' = [lib EXCEPT !.maxconfiguredcpu = sys.nconf - 1]
    BY <1>4 DEF set_configured_cpus
  <2>3. /\ lib'.nodemask_sz = lib.nodemask_sz /\ lib'.cpumask_sz = lib.cpumask_sz
        /\ lib'.numprocnode = lib.numprocnode /\ lib'.numproccpu = lib.numproccpu
        /\ numa_max_node' = numa_max_node /\ lib'.numa_memnode_ptr = lib.numa_memnode_ptr
        /\ hicpu' = sys.nconf - 1
    BY <1>a, <2>1 DEF LibType, numa_max_node, hicpu
  <2>4. NodesFit'
    BY <2>1, <2>3 DEF MeasureInv, NodesFit, NodesListed
  <2>5. CpusFit'
    BY <1>a, <2>1, <2>3 DEF MeasureInv, CpusFit, NodesListed, CpusSized, CpusCounted
  <2> QED BY <2>1, <2>4, <2>5
<1> QED BY <1>1, <1>2, <1>3, <1>4

LEMMA MeasureInit == Init => MeasureInv
BY DEF Init, InitLib, Unmeasured, MeasureInv, NodesFit, CpusFit, NodesListed, CpusSized, CpusCounted

LEMMA MeasureStep ==
  ASSUME Ordinary
  PROVE  CallInv /\ MeasureInv /\ [Next]_vars => MeasureInv'
<1> SUFFICES ASSUME CallInv, MeasureInv, [Next]_vars PROVE MeasureInv'
  OBVIOUS
<1>1. CASE Start
  <2>1. ASSUME NEW works \in BOOLEAN, set_task_constraints(works), sys' = sys PROVE MeasureInv'
    BY <2>1, ConstraintsSet DEF MeasureInv
  <2>2. ASSUME NEW works \in BOOLEAN, sys' = sys,
               \/ set_nodemask_size(works) \/ set_configured_nodes(works)
               \/ set_numa_max_cpu(works) \/ set_configured_cpus
        PROVE  MeasureInv'
    BY <2>2, SizesSet DEF MeasureInv
  <2>3. ASSUME SetAllNodes, sys' = sys PROVE MeasureInv'
    <3>1. /\ at = "compat" /\ at' = "ready" /\ told' = told
          /\ lib' = [lib EXCEPT !.numa_all_nodes = 0 .. numa_num_configured_nodes - 1]
      BY <2>3 DEF SetAllNodes
    <3> QED BY <2>3, <3>1, MeasuredFrame
  <2> QED BY <1>1, <2>1, <2>2, <2>3 DEF Start
<1>2. CASE Change
  BY <1>2, MeasuredFrame DEF Change
<1>3. CASE Fini
  <2>1. /\ at = "ready" /\ at' = "fini" /\ sys' = sys /\ told' = told
        /\ lib' = [lib EXCEPT !.numa_all_cpus_ptr = NoMask, !.numa_possible_cpus_ptr = NoMask,
                              !.numa_all_nodes_ptr = NoMask, !.numa_possible_nodes_ptr = NoMask,
                              !.numa_no_nodes_ptr = NoMask, !.numa_memnode_ptr = NoMask,
                              !.numa_nodes_ptr = NoMask]
    BY <1>3 DEF Fini, numa_fini
  <2>2. /\ lib'.nodemask_sz = lib.nodemask_sz /\ lib'.cpumask_sz = lib.cpumask_sz
        /\ numa_max_node' = numa_max_node /\ hicpu' = hicpu
    BY <2>1 DEF CallInv, Typed, LibType, numa_max_node, hicpu
  <2>3. NodesFit'
    BY <2>1, <2>2 DEF MeasureInv, NodesFit, NodesListed
  <2>4. CpusFit'
    BY <2>1, <2>2 DEF MeasureInv, CpusFit, NodesListed, CpusSized, CpusCounted
  <2> QED BY <2>1, <2>3, <2>4 DEF MeasureInv
<1>4. ASSUME NEW bad, NEW memory \in BOOLEAN, Call(bad, memory), UNCHANGED <<at, told>> PROVE MeasureInv'
  <2>1. Effect(bad, memory)
    BY <1>4, CallEffect
  <2>2. sys'.nodeids = sys.nodeids /\ sys'.cpuids = sys.cpuids
    <3>1. sys \in Machine(sys.nodes)
      BY SoundIs DEF CallInv, Typed
    <3>2. ASSUME NEW R \in (SUBSET sys.cpus) \ {{}}, sys' = [sys EXCEPT !.runs = R]
          PROVE  sys'.nodeids = sys.nodeids /\ sys'.cpuids = sys.cpuids
      BY <3>1, <3>2 DEF Machine
    <3> QED BY <2>1, <3>2 DEF Effect
  <2>3. lib' = lib \/ \E N : lib' = [lib EXCEPT !.numa_all_nodes = N]
    BY <2>1 DEF Effect
  <2> QED BY <1>4, <2>2, <2>3, MeasuredFrame
<1>5. CASE UNCHANGED vars
  BY <1>5, MeasuredFrame DEF vars
<1>6. CASE AppWrites /\ UNCHANGED <<faults, at, told, calls>>
  BY <1>6, MeasuredFrame DEF AppWrites
<1> QED BY <1>1, <1>2, <1>3, <1>4, <1>5, <1>6 DEF Next

LEMMA MeasureAlways == ASSUME Ordinary PROVE Spec => [](CallInv /\ MeasureInv)
<1>1. CallInv /\ MeasureInv /\ [Next]_vars => (CallInv /\ MeasureInv)'
  BY CallStep, MeasureStep
<1>2. Init => CallInv /\ MeasureInv
  BY CallInit, MeasureInit
<1> QED BY <1>1, <1>2, PTL DEF Spec

\* Every node directory there was is counted, and has a bit in the masks.
LEMMA NodesCounted ==
  ASSUME CallInv, MeasureInv, Ready, told.nodes # None
  PROVE  /\ numa_num_configured_nodes = Cardinality(told.nodes.nodes)
         /\ \A n \in told.nodes.nodes : n < lib.nodemask_sz
<1> DEFINE m == told.nodes
           mask == lib.numa_memnode_ptr
           top == numa_max_node
<1>1. /\ Sound(m) /\ m.nodeids = sys.nodeids /\ top = Max(m.nodes)
      /\ mask = Mask(lib.nodemask_sz, m.nodes) /\ sys.nodeids <= lib.nodemask_sz
      /\ lib.nodemask_sz \in Nat
  BY DEF MeasureInv, NodesFit, NodesListed, Ready, CallInv, Typed, LibType
<1>2. m.nodeids \in Nat /\ m.nodes \in SUBSET (0 .. m.nodeids - 1) /\ m.nodes \subseteq 0 .. top
  BY <1>1, SoundIs, HighestIs
<1>3. mask.size = lib.nodemask_sz /\ mask.bits = m.nodes
  BY <1>1 DEF Mask
<1>4. \A n \in m.nodes : n < lib.nodemask_sz
  BY <1>1, <1>2
<1> HIDE DEF m, mask
<1>5. {n \in 0 .. top : numa_bitmask_isbitset(mask, n)} = m.nodes
  BY <1>2, <1>3, <1>4 DEF numa_bitmask_isbitset
<1> QED BY <1>4, <1>5 DEF numa_num_configured_nodes, numa_max_node, m, mask

\* When the constructor is through its counts agree with its masks, its masks with the texts of the
\* kernel, and the possible nodes and CPUs with the allowed ones (libnuma.c:346-592), whichever
\* files could not be read and wherever in between the machine changed.
THEOREM MeasuresRight == ASSUME Ordinary PROVE Spec => []MeasuredRight
<1>1. CallInv /\ MeasureInv => MeasuredRight
  <2> SUFFICES ASSUME CallInv, MeasureInv, Ready PROVE ConstraintsWhole /\ AllNodesExact /\ EveryNodeCounted /\ PossibleCoversAllowed
    BY DEF MeasuredRight
  <2>1. ConstraintsWhole /\ AllNodesExact /\ PossibleCoversAllowed
    BY DEF MeasureInv, Ready
  <2>2. ASSUME told.nodes # None PROVE numa_num_configured_nodes = Cardinality(told.nodes.nodes)
    BY <2>2, NodesCounted
  <2> QED BY <2>1, <2>2 DEF EveryNodeCounted
<1> QED BY <1>1, MeasureAlways, PTL

----------------------------------------------------------------------------
(* What is said about nodes from their maps. *)

\* The words that are compared have all the CPUs below the configured number.
LEMMA AllInWords ==
  ASSUME CallInv, NEW cpus, sys.runs \subseteq 0 .. hicpu
  PROVE  InWords(cpus) \cap sys.runs = cpus \cap sys.runs
<1>1. hicpu \in Int /\ LongBits \in Nat \ {0}
  BY IntBitsAssumption DEF CallInv, Typed, LibType, hicpu, LongBits
<1> DEFINE k == numa_num_configured_cpus
           w == Longs(k) * LongBits
<1>2. k = hicpu + 1
  BY DEF hicpu, numa_num_configured_cpus
<1> HIDE DEF k
<1>3. ASSUME NEW c \in sys.runs PROVE c < w
  <2>1. c \in Int /\ c < k /\ k \in Nat
    BY <1>1, <1>2
  <2>2. howmany(k, LongBits) \in Nat /\ k <= LongBits * howmany(k, LongBits)
    BY <1>1, <2>1, HowMany
  <2> DEFINE h == howmany(k, LongBits)
  <2> HIDE DEF h
  <2>3. h \in Nat /\ k <= LongBits * h
    BY <2>2 DEF h
  <2>4. h * LongBits = LongBits * h /\ h * LongBits \in Int
    BY <1>1, <2>3
  <2>5. w = h * LongBits
    BY DEF h, Longs
  <2> HIDE DEF w
  <2> QED BY <2>1, <2>3, <2>4, <2>5
<1> QED BY <1>3 DEF InWords, k

LEMMA RunMaskCall ==
  ASSUME CallInv, MeasureInv, CpusSized, NEW bad, numa_get_run_node_mask(bad), AllRead', GetaffinityOK,
         Seen(lib.numa_all_nodes_ptr) \subseteq sys.nodes, Seen(lib.numa_all_nodes_ptr) \subseteq DOMAIN cached',
         sys.runs \subseteq 0 .. hicpu, AllOnes' = AllOnes
  PROVE  ret'.val = {n \in Seen(lib.numa_all_nodes_ptr) : sys.cpumap[n] \cap sys.runs # {}}
<1> DEFINE allowed == Seen(lib.numa_all_nodes_ptr)
           S == NodeBits(lib.numa_all_nodes_ptr, EveryNode)
<1>1. /\ sys' = sys /\ LookedUp(S, bad) /\ ret'.val = RunNodes(S, lib.cpumask_sz, bad)
  BY DEF numa_get_run_node_mask, GetRunNodes, Returned
<1>2. S = allowed
  <2>1. S \subseteq allowed
    BY DEF NodeBits, Seen, numa_bitmask_isbitset
  <2>2. ASSUME NEW n \in allowed PROVE n \in S
    <3>0. n \in lib.numa_all_nodes_ptr.bits /\ n < lib.numa_all_nodes_ptr.size
      BY DEF Seen
    <3>1. n \in 0 .. numa_max_node
      <4> HIDE DEF S
      <4> QED BY <1>1, FoundFits
    <3> QED BY <3>0, <3>1 DEF NodeBits, EveryNode, numa_bitmask_isbitset
  <2> QED BY <2>1, <2>2
<1> HIDE DEF S, allowed
<1>3. ASSUME NEW n \in S
      PROVE  Reads(n, S, bad) /\ n < lib.cpumask_sz /\ Found(n, S, bad) = sys.cpumap[n]
  <2>1. n \in DOMAIN cached' /\ n \in sys.nodes
    BY <1>2 DEF allowed
  <2>2. cached'[n] = Found(n, S, bad)
    BY <1>1, <2>1, FoundFits
  <2>4. cached'[n] # AllOnes /\ cached'[n] = sys.cpumap[n]
    BY <1>1, <2>1 DEF AllRead, TrueMaps
  <2>5. Reads(n, S, bad)
    BY <2>2, <2>4 DEF Found, Reads, Unread
  <2>6. n < lib.cpumask_sz
    <3>1. sys.nodeids <= lib.cpumask_sz /\ lib.cpumask_sz \in Nat
      BY DEF MeasureInv, CpusFit, CallInv, Typed, LibType
    <3>2. sys.nodeids \in Nat /\ n \in 0 .. sys.nodeids - 1
      BY <2>1, SoundIs DEF CallInv, Typed
    <3> QED BY <3>1, <3>2
  <2> QED BY <2>2, <2>4, <2>5, <2>6
<1>4. \A n \in S : InWords(Found(n, S, bad)) \cap sys.runs = sys.cpumap[n] \cap sys.runs
  BY <1>3, AllInWords
<1> QED BY <1>1, <1>2, <1>3, <1>4 DEF RunNodes, allowed

LEMMA CpulessCall ==
  ASSUME CallInv, CpusSized, NEW bad, NEW node, numa_is_cpuless_node(node, bad), ret'.val = 1, TrueMaps'
  PROVE  ret'.arg \in sys.nodes /\ sys.cpumap[ret'.arg] = {}
<1> DEFINE S == {node}
<1>1. node \in 0 .. numa_max_node
  BY DEF numa_is_cpuless_node, Returned, Failed
<1>2. /\ ret'.arg = node /\ LookedUp(S, bad) /\ Found(node, S, bad) = {} /\ sys' = sys
  BY <1>1 DEF numa_is_cpuless_node, Returned
<1>3. AllOnes # {}
  <2>1. lib.cpumask_sz \in Nat /\ lib.cpumask_sz > 0
    BY DEF CallInv, MapsFit, Typed, LibType
  <2>2. 0 \in AllOnes
    BY <2>1 DEF AllOnes
  <2> QED BY <2>2
<1>4. node \in S
  OBVIOUS
<1> HIDE DEF S
<1>5. Reads(node, S, bad)
  BY <1>2, <1>3 DEF Found, Reads, Unread
<1>6. node \in sys.nodes /\ Found(node, S, bad) = sys.cpumap[node]
  BY <1>2, <1>4, <1>5, TrueFound
<1> QED BY <1>2, <1>6

\* numa_get_run_node_mask names exactly the allowed nodes the process runs on, for CPUs and masks of
\* any size (libnuma.c:1867-1905), and numa_is_cpuless_node never takes a node with CPUs
\* for one without (libnuma.c:2389).
THEOREM MapsAreUsedRight == ASSUME Ordinary PROVE Spec => MapsUsedRight
<1>1. CallInv /\ MeasureInv /\ [Next]_vars => [RunMaskExact /\ CpulessTrue]_vars
  <2> SUFFICES ASSUME CallInv, MeasureInv, [Next]_vars, calls' # calls PROVE RunMaskExact /\ CpulessTrue
    BY DEF RunMaskExact, CpulessTrue
  <2>1. at = "ready" /\ CpusSized /\ \E bad \in SUBSET sys.nodes, memory \in BOOLEAN : Call(bad, memory)
    BY StepIsCall
  <2>2. PICK bad \in SUBSET sys.nodes, memory \in BOOLEAN : Call(bad, memory)
    BY <2>1
  <2>3. RunMaskExact
    <3> DEFINE allowed == Seen(lib.numa_all_nodes_ptr)
    <3> SUFFICES ASSUME ret'.call = "numa_get_run_node_mask", AllRead',
                        GetaffinityOK, allowed \subseteq sys.nodes, allowed \subseteq DOMAIN cached',
                        sys.runs \subseteq 0 .. hicpu
                 PROVE  ret'.val = {n \in allowed : sys.cpumap[n] \cap sys.runs # {}}
      BY DEF RunMaskExact
    <3>1. numa_get_run_node_mask(bad)
      BY <2>2, CallNames
    <3>2. AllOnes' = AllOnes
      <4>1. Effect(bad, memory)
        BY <2>2, CallEffect
      <4>2. lib'.cpumask_sz = lib.cpumask_sz
        BY <4>1 DEF Effect, CallInv, Typed, LibType
      <4> QED BY <4>2 DEF AllOnes
    <3> QED BY <2>1, <3>1, <3>2, RunMaskCall
  <2>4. CpulessTrue
    <3> SUFFICES ASSUME ret'.call = "numa_is_cpuless_node", ret'.val = 1, TrueMaps'
                 PROVE  ret'.arg \in sys.nodes /\ sys.cpumap[ret'.arg] = {}
      BY DEF CpulessTrue
    <3>1. PICK node : numa_is_cpuless_node(node, bad)
      BY <2>2, CallNames
    <3> QED BY <2>1, <3>1, CpulessCall
  <2> QED BY <2>3, <2>4
<1> QED BY <1>1, MeasureAlways, PTL DEF Spec, MapsUsedRight

----------------------------------------------------------------------------
(* What lists are read against. *)

\* Bits that are set in a mask.
LEMMA SetIs ==
  ASSUME NEW m \in Masks, NEW S \in SUBSET Nat
  PROVE  /\ SetBits(m, S) \in Masks /\ SetBits(m, S).size = m.size
         /\ SetBits(m, S).bits = m.bits \cup {n \in S : n < m.size}
<1>1. /\ SetBits(m, S) = [size |-> m.size, bits |-> m.bits \cup {n \in S : n < m.size}]
      /\ SetBits(m, S) \in Masks
  BY MaskOps
<1> QED BY <1>1

\* The masks that set_task_constraints leaves.
LEMMA MasksSet ==
  ASSUME Ordinary, CallInv, MeasureInv, at = "set_task_constraints"
  PROVE  LET C == CpuConstraint(CpusLine)
             N == NodeConstraint(MemsLine)
         IN  /\ C.mask \in Masks /\ C.mask.size = lib.cpumask_sz
             /\ N.mask \in Masks /\ N.mask.size = lib.nodemask_sz /\ \A n \in N.mask.bits : n < lib.nodemask_sz
<1> DEFINE c == CpusLine
           n == MemsLine
           l == read_mask(Printed(sys.mems, sys.maxnodes), allocate_nodemask)
           size == lib.nodemask_sz
<1>1. /\ hicpu \in Int /\ lib.maxconfigurednode \in Int /\ lib.cpumask_sz \in Nat /\ size \in Nat /\ Sound(sys)
      /\ sys.nodeids <= size /\ lib.numprocnode = -1
  BY DEF CallInv, Typed, LibType, hicpu, MeasureInv, NodesFit, CpusFit
<1>2. /\ sys.cpuids \in Nat \ {0} /\ sys.runs \in SUBSET (0 .. sys.cpuids - 1) /\ sys.runs # {}
      /\ sys.maxnodes \in Nat \ {0} /\ sys.mems \in SUBSET (0 .. sys.maxnodes - 1) /\ sys.mems # {}
      /\ sys.nodeids \in Nat /\ sys.mems \in SUBSET (0 .. sys.nodeids - 1)
  <2>1. /\ sys.maxnodes \in Nat /\ sys.nodeids \in Nat \ {0} /\ sys.nodeids <= sys.maxnodes
    BY <1>1, SoundIs
  <2>2. sys.maxnodes \in Nat \ {0}
    BY <2>1
  <2> QED BY <1>1, <2>1, <2>2, SoundIs
<1>3. c.ret \in Int /\ c.mask \in Masks /\ c.mask.size = lib.cpumask_sz
  <2>1. ReadAs(CpusLine, sys.runs, lib.cpumask_sz)
    BY <1>1, <1>2, LineRead DEF CpusLine, allocate_cpumask
  <2> QED BY <2>1 DEF ReadAs
<1>4. /\ l.ret \in Int /\ l.mask \in Masks /\ l.mask.size = size /\ (l.mask.bits = {} \/ l.mask.bits = sys.mems)
  <2>1. ReadAs(l, sys.mems, size)
    BY <1>1, <1>2, LineRead DEF allocate_nodemask
  <2> QED BY <2>1 DEF ReadAs
<1>5. allocate_nodemask \in Masks /\ allocate_nodemask.size = size /\ allocate_nodemask.bits = {}
  BY <1>1, NewMask DEF allocate_nodemask
<1>6. \A k \in sys.mems : k < size
  BY <1>1, <1>2
<1>7. n.ret \in Int /\ n.mask \in Masks /\ n.mask.size = size /\ \A k \in n.mask.bits : k < size
  <2> HIDE DEF l
  <2>1. n = IF sys.cpusets THEN l ELSE [ret |-> lib.numprocnode, mask |-> allocate_nodemask]
    BY DEF MemsLine, l
  <2> HIDE DEF n
  <2> QED BY <1>1, <1>4, <1>5, <1>6, <2>1
<1> HIDE DEF c, n, l
<1>8. 0 .. hicpu \in SUBSET Nat /\ 0 .. lib.maxconfigurednode \in SUBSET Nat
  BY <1>1
<1>9. CpuConstraint(c).mask \in Masks /\ CpuConstraint(c).mask.size = lib.cpumask_sz
  <2>1. /\ ClearBits(c.mask, hicpu + 1 .. c.mask.size - 1) \in Masks
        /\ ClearBits(c.mask, hicpu + 1 .. c.mask.size - 1).size = c.mask.size
    BY <1>3 DEF ClearBits, Masks
  <2>2. SetBits(c.mask, 0 .. hicpu) \in Masks /\ SetBits(c.mask, 0 .. hicpu).size = c.mask.size
    BY <1>3, <1>8, SetIs
  <2> QED BY <1>3, <2>1, <2>2 DEF CpuConstraint
<1>10. /\ NodeConstraint(n).mask \in Masks /\ NodeConstraint(n).mask.size = size
       /\ \A k \in NodeConstraint(n).mask.bits : k < size
  <2> DEFINE S == 0 .. lib.maxconfigurednode
  <2>1. /\ SetBits(n.mask, S) = [size |-> n.mask.size, bits |-> n.mask.bits \cup {k \in S : k < n.mask.size}]
        /\ SetBits(n.mask, S) \in Masks
    <3> HIDE DEF S
    <3> QED BY <1>7, <1>8, MaskOps DEF S
  <2> HIDE DEF S
  <2>2. /\ SetBits(n.mask, S).size = size
        /\ \A k \in SetBits(n.mask, S).bits : k < size
    BY <1>7, <2>1
  <2>3. NodeConstraint(n).mask = SetBits(n.mask, S) \/ NodeConstraint(n).mask = n.mask
    BY DEF NodeConstraint, S
  <2> QED BY <1>7, <2>1, <2>2, <2>3
<1> QED BY <1>9, <1>10 DEF c, n

LEMMA SizedFrame ==
  ASSUME CallInv, MasksSized, UNCHANGED told,
         at' = at \/ (at = "compat" /\ at' = "ready"),
         lib' = lib \/ \E N : lib' = [lib EXCEPT !.numa_all_nodes = N]
  PROVE  MasksSized'
<1>1. /\ lib'.nodemask_sz = lib.nodemask_sz /\ lib'.cpumask_sz = lib.cpumask_sz
      /\ lib'.maxconfigurednode = lib.maxconfigurednode
      /\ lib'.numa_all_nodes_ptr = lib.numa_all_nodes_ptr /\ lib'.numa_all_cpus_ptr = lib.numa_all_cpus_ptr
      /\ lib'.numa_possible_nodes_ptr = lib.numa_possible_nodes_ptr
      /\ lib'.numa_possible_cpus_ptr = lib.numa_possible_cpus_ptr
  BY DEF CallInv, Typed, LibType
<1> QED BY <1>1 DEF MasksSized, numa_max_node

LEMMA SizedSet ==
  ASSUME Ordinary, CallInv, MeasureInv, NEW works \in BOOLEAN, set_task_constraints(works), sys' = sys
  PROVE  MasksSized'
<1> DEFINE C == CpuConstraint(CpusLine)
           N == NodeConstraint(MemsLine)
           pc == SetBits(Allocated.numa_possible_cpus_ptr, 0 .. hicpu)
           pn == SetBits(Allocated.numa_possible_nodes_ptr, PossibleNodes)
<1>a. at = "set_task_constraints" /\ at' = "compat"
  BY DEF set_task_constraints
<1>b. /\ lib \in LibType /\ told = [nodes |-> told.nodes, status |-> told.status]
      /\ lib.cpumask_sz \in Nat /\ lib.nodemask_sz \in Nat /\ hicpu \in Int /\ numa_max_node \in Int
  BY <1>a DEF CallInv, Typed, LibType, hicpu, numa_max_node
<1>1. /\ lib' = IF ~works THEN Allocated
                ELSE [Allocated EXCEPT
                      !.numa_all_cpus_ptr = C.mask, !.numproccpu = C.ret,
                      !.numa_all_nodes_ptr = N.mask, !.numprocnode = N.ret,
                      !.numa_possible_cpus_ptr = pc, !.numa_possible_nodes_ptr = pn]
      /\ told' = [told EXCEPT !.status = IF works THEN sys ELSE None]
  BY DEF set_task_constraints
<1>2. told'.status = IF works THEN sys ELSE None
  BY <1>b, <1>1
<1> SUFFICES ASSUME works PROVE MasksSized'
  BY <1>2 DEF MasksSized
<1>3. /\ C.mask.size = lib.cpumask_sz /\ N.mask.size = lib.nodemask_sz /\ \A n \in N.mask.bits : n < lib.nodemask_sz
  BY <1>a, MasksSet
<1>4. /\ Allocated.numa_possible_cpus_ptr = allocate_cpumask /\ Allocated.numa_possible_nodes_ptr = allocate_cpumask
  BY <1>b DEF Allocated, LibType
<1>5. /\ allocate_cpumask = [size |-> lib.cpumask_sz, bits |-> {}] /\ allocate_cpumask \in Masks
  BY <1>b, NewMask DEF allocate_cpumask
<1>6. 0 .. hicpu \in SUBSET Nat /\ PossibleNodes \in SUBSET Nat /\ PossibleNodes = 0 .. numa_max_node
  BY <1>b DEF PossibleNodes, numa_max_node
<1>7. pc.size = lib.cpumask_sz /\ Seen(pn) \subseteq 0 .. numa_max_node
  <2>1. SetBits(allocate_cpumask, 0 .. hicpu).size = lib.cpumask_sz
    BY <1>5, <1>6, SetIs
  <2>2. SetBits(allocate_cpumask, PossibleNodes).bits \subseteq PossibleNodes
    <3>1. allocate_cpumask.bits = {}
      BY <1>5
    <3>2. /\ SetBits(allocate_cpumask, PossibleNodes).bits
               = allocate_cpumask.bits \cup {n \in PossibleNodes : n < allocate_cpumask.size}
      BY <1>5, <1>6, SetIs
    <3> QED BY <3>1, <3>2
  <2> QED BY <1>4, <1>6, <2>1, <2>2 DEF Seen
<1> HIDE DEF C, N, pc, pn
<1>9. /\ lib'.nodemask_sz = lib.nodemask_sz /\ lib'.cpumask_sz = lib.cpumask_sz
      /\ lib'.maxconfigurednode = lib.maxconfigurednode
      /\ lib'.numa_all_cpus_ptr = C.mask /\ lib'.numa_all_nodes_ptr = N.mask
      /\ lib'.numa_possible_cpus_ptr = pc /\ lib'.numa_possible_nodes_ptr = pn
  BY <1>b, <1>1 DEF Allocated, LibType
<1>10. numa_max_node' = numa_max_node
  BY <1>9 DEF numa_max_node
<1> QED BY <1>3, <1>7, <1>9, <1>10 DEF MasksSized

LEMMA SizedStep ==
  ASSUME Ordinary
  PROVE  CallInv /\ MeasureInv /\ MasksSized /\ [Next]_vars => MasksSized'
<1> SUFFICES ASSUME CallInv, MeasureInv, MasksSized, [Next]_vars PROVE MasksSized'
  OBVIOUS
<1>1. CASE Start
  <2>1. ASSUME NEW works \in BOOLEAN, set_task_constraints(works), sys' = sys PROVE MasksSized'
    BY <2>1, SizedSet
  <2>2. ASSUME NEW works \in BOOLEAN, sys' = sys,
               \/ set_nodemask_size(works) \/ set_configured_nodes(works)
               \/ set_numa_max_cpu(works) \/ set_configured_cpus
        PROVE  MasksSized'
    BY <2>2, SizesSet DEF MasksSized
  <2>3. ASSUME SetAllNodes PROVE MasksSized'
    <3>1. /\ at = "compat" /\ at' = "ready" /\ told' = told
          /\ lib' = [lib EXCEPT !.numa_all_nodes = 0 .. numa_num_configured_nodes - 1]
      BY <2>3 DEF SetAllNodes
    <3> QED BY <2>3, <3>1, SizedFrame
  <2> QED BY <1>1, <2>1, <2>2, <2>3 DEF Start
<1>2. CASE Change
  BY <1>2, SizedFrame DEF Change
<1>3. CASE Fini
  BY <1>3 DEF Fini, numa_fini, MasksSized
<1>4. ASSUME NEW bad, NEW memory \in BOOLEAN, Call(bad, memory), UNCHANGED <<at, told>> PROVE MasksSized'
  <2>1. Effect(bad, memory)
    BY <1>4, CallEffect
  <2>3. lib' = lib \/ \E N : lib' = [lib EXCEPT !.numa_all_nodes = N]
    BY <2>1 DEF Effect
  <2> QED BY <1>4, <2>3, SizedFrame
<1>5. CASE UNCHANGED vars
  BY <1>5, SizedFrame DEF vars
<1>6. CASE AppWrites /\ UNCHANGED <<faults, at, told, calls>>
  BY <1>6, SizedFrame DEF AppWrites
<1> QED BY <1>1, <1>2, <1>3, <1>4, <1>5, <1>6 DEF Next

LEMMA SizedAlways == ASSUME Ordinary PROVE Spec => [](CallInv /\ MeasureInv /\ MasksSized)
<1>1. CallInv /\ MeasureInv /\ MasksSized /\ [Next]_vars => MasksSized'
  BY SizedStep
<1>2. Init => MasksSized
  BY DEF Init, InitLib, MasksSized
<1> QED BY <1>1, <1>2, MeasureAlways, PTL DEF Spec

----------------------------------------------------------------------------
(* Positions *)

Before(S, x) == {j \in S : j < x}
Rank(S, x) == Cardinality(Before(S, x))

LEMMA RankIs ==
  ASSUME NEW S \in SUBSET Nat, IsFiniteSet(S), NEW x \in S
  PROVE  /\ Rank(S, x) \in Nat /\ Rank(S, x) < Cardinality(S)
         /\ \A y \in S : x < y => Rank(S, x) < Rank(S, y)
<1> DEFINE B == Before(S, x)
           a == Cardinality(B)
<1>1. B \in SUBSET S /\ x \notin B
  BY DEF Before
<1> HIDE DEF B
<1>2. IsFiniteSet(B) /\ a \in Nat /\ Cardinality(S) \in Nat
  BY <1>1, FS_Subset, FS_CardinalityType
<1>3. Cardinality(B \cup {x}) = a + 1
  BY <1>1, <1>2, FS_AddElement
<1>4. ASSUME NEW T \in SUBSET S, B \cup {x} \subseteq T PROVE a < Cardinality(T)
  <2>1. IsFiniteSet(T)
    BY FS_Subset
  <2>2. Cardinality(B \cup {x}) <= Cardinality(T)
    BY <1>4, <2>1, FS_Subset
  <2>3. Cardinality(T) \in Nat
    BY <2>1, FS_CardinalityType
  <2> DEFINE t == Cardinality(T)
             u == Cardinality(B \cup {x})
  <2>4. u = a + 1 /\ u <= t /\ t \in Nat
    BY <1>3, <2>2, <2>3
  <2> HIDE DEF t, u, a
  <2>5. a \in Nat
    BY <1>2 DEF a
  <2>6. a < t
    BY <2>4, <2>5
  <2> QED BY <2>6 DEF t
<1>5. a < Cardinality(S)
  <2>1. B \cup {x} \subseteq S
    BY <1>1
  <2> QED BY <1>4, <2>1
<1>6. ASSUME NEW y \in S, x < y PROVE a < Rank(S, y)
  <2>1. Before(S, y) \in SUBSET S
    BY DEF Before
  <2>2. \A j \in S : j < x => j < y
    BY <1>6
  <2>3. B \cup {x} \subseteq Before(S, y)
    BY <1>6, <2>2 DEF Before, B
  <2> QED BY <1>4, <2>1, <2>3 DEF Rank
<1>7. Rank(S, x) = a
  BY DEF Rank, B
<1> HIDE DEF a
<1> QED BY <1>2, <1>5, <1>6, <1>7 DEF a

\* The numbers of S in order.
Ascends(q, S) ==
    q \in [1 .. Cardinality(S) -> S] /\ \A i, j \in 1 .. Cardinality(S) : i < j => q[i] < q[j]

LEMMA AscendsExists ==
  ASSUME NEW S \in SUBSET Nat, IsFiniteSet(S)
  PROVE  \E q : Ascends(q, S)
<1> DEFINE n == Cardinality(S)
           r == [x \in S |-> Rank(S, x) + 1]
<1>1. n \in Nat /\ IsFiniteSet(1 .. n) /\ Cardinality(1 .. n) = n
  <2>1. n \in Nat
    BY FS_CardinalityType
  <2> HIDE DEF n
  <2>2. IsFiniteSet(1 .. n) /\ Cardinality(1 .. n) = IF 1 > n THEN 0 ELSE n - 1 + 1
    BY <2>1, FS_Interval
  <2> QED BY <2>1, <2>2
<1>2. \A x \in S : Rank(S, x) \in Nat /\ Rank(S, x) < n
  BY RankIs
<1>3. \A x, y \in S : x < y => Rank(S, x) < Rank(S, y)
  BY RankIs
<1> HIDE DEF n
<1>4. r \in [S -> 1 .. n]
  BY <1>1, <1>2
<1>5. \A x, y \in S : x # y => r[x] # r[y]
  <2> TAKE x, y \in S
  <2>1. Rank(S, x) \in Nat /\ Rank(S, y) \in Nat /\ x \in Nat /\ y \in Nat
    BY <1>2
  <2>2. x < y \/ y < x \/ x = y
    BY <2>1
  <2>3. r[x] = Rank(S, x) + 1 /\ r[y] = Rank(S, y) + 1
    OBVIOUS
  <2>4. x # y => Rank(S, x) # Rank(S, y)
    BY <1>3, <2>1, <2>2
  <2> QED BY <2>1, <2>3, <2>4
<1>6. r \in Injection(S, 1 .. n)
  <2> HIDE DEF r
  <2> QED BY <1>4, <1>5 DEF Injection, IsInjective
<1>7. r \in Surjection(S, 1 .. n)
  <2> HIDE DEF r
  <2> QED BY <1>1, <1>6, FS_Injection DEF n
<1>8. \A i \in 1 .. n : \E x \in S : r[x] = i
  <2> HIDE DEF r
  <2> QED BY <1>7 DEF Surjection
<1> DEFINE q == [i \in 1 .. n |-> CHOOSE x \in S : r[x] = i]
<1>9. \A i \in 1 .. n : q[i] \in S /\ r[q[i]] = i
  <2> HIDE DEF r
  <2> QED BY <1>8
<1>10. q \in [1 .. n -> S]
  <2> HIDE DEF r
  <2> QED BY <1>9
<1>11. ASSUME NEW i \in 1 .. n, NEW j \in 1 .. n, i < j PROVE q[i] < q[j]
  <2>1. q[i] \in S /\ q[j] \in S /\ r[q[i]] = i /\ r[q[j]] = j
    BY <1>9
  <2> HIDE DEF q
  <2>2. PICK x \in S : x = q[i]
    BY <2>1
  <2>3. PICK y \in S : y = q[j]
    BY <2>1
  <2>4. Rank(S, x) + 1 = i /\ Rank(S, y) + 1 = j
    BY <2>1, <2>2, <2>3
  <2>5. x \in Nat /\ y \in Nat /\ Rank(S, x) \in Nat /\ Rank(S, y) \in Nat
    BY <1>2
  <2>6. ~(y < x) /\ x # y
    BY <1>3, <1>11, <2>4, <2>5
  <2>7. x < y
    BY <2>5, <2>6
  <2> QED BY <2>2, <2>3, <2>7
<1> HIDE DEF q
<1> QED BY <1>10, <1>11 DEF Ascends, n

\* Every number of the set has its place, and as many before it.
LEMMA AscendsRank ==
  ASSUME NEW S \in SUBSET Nat, IsFiniteSet(S), NEW q, Ascends(q, S)
  PROVE  /\ \A x \in S : \E i \in 1 .. Cardinality(S) : x = q[i]
         /\ \A i \in 1 .. Cardinality(S) : q[i] \in S /\ Rank(S, q[i]) = i - 1
<1> DEFINE n == Cardinality(S)
<1>1. n \in Nat /\ IsFiniteSet(1 .. n) /\ Cardinality(1 .. n) = n
  <2>1. n \in Nat
    BY FS_CardinalityType
  <2> HIDE DEF n
  <2>2. IsFiniteSet(1 .. n) /\ Cardinality(1 .. n) = IF 1 > n THEN 0 ELSE n - 1 + 1
    BY <2>1, FS_Interval
  <2> QED BY <2>1, <2>2
<1>2. q \in [1 .. n -> S] /\ \A i, j \in 1 .. n : i < j => q[i] < q[j]
  BY DEF Ascends
<1>3. n = Cardinality(S)
  OBVIOUS
<1> HIDE DEF n
<1>4. \A i \in 1 .. n : q[i] \in S /\ q[i] \in Nat
  BY <1>2
<1>5. \A i, j \in 1 .. n : i # j => q[i] # q[j]
  <2> TAKE i, j \in 1 .. n
  <2>1. q[i] \in Nat /\ q[j] \in Nat /\ (i < j \/ j < i \/ i = j)
    BY <1>1, <1>4
  <2>2. i < j => q[i] < q[j]
    BY <1>2
  <2>3. j < i => q[j] < q[i]
    BY <1>2
  <2> QED BY <2>1, <2>2, <2>3
<1>6. q \in Injection(1 .. n, S)
  BY <1>2, <1>5 DEF Injection, IsInjective
<1>7. q \in Surjection(1 .. n, S)
  BY <1>1, <1>3, <1>6, FS_Injection
<1>8. \A x \in S : \E i \in 1 .. n : x = q[i]
  BY <1>7 DEF Surjection
<1>9. ASSUME NEW i \in 1 .. n PROVE Rank(S, q[i]) = i - 1
  <2> DEFINE T == Before(S, q[i])
             p == [k \in 1 .. i - 1 |-> q[k]]
  <2>1. \A k \in 1 .. i - 1 : k \in 1 .. n /\ k < i
    BY <1>1
  <2>2. \A k \in 1 .. i - 1 : q[k] \in T
    BY <1>2, <1>4, <2>1 DEF Before
  <2>3. ASSUME NEW x \in T PROVE \E k \in 1 .. i - 1 : x = q[k]
    <3>1. PICK k \in 1 .. n : x = q[k]
      BY <1>8 DEF Before
    <3>2. q[k] < q[i] /\ q[k] \in Nat /\ q[i] \in Nat
      BY <1>4, <3>1 DEF Before
    <3>3. ~(i < k) /\ i # k
      <4>1. i < k => q[i] < q[k]
        BY <1>2
      <4> QED BY <3>2, <4>1
    <3>4. k \in 1 .. i - 1
      BY <1>1, <3>3
    <3> QED BY <3>1, <3>4
  <2> HIDE DEF T
  <2>4. p \in [1 .. i - 1 -> T] /\ \A k \in 1 .. i - 1 : p[k] = q[k]
    BY <2>2
  <2> HIDE DEF p
  <2>5. p \in Injection(1 .. i - 1, T)
    BY <1>5, <2>1, <2>4 DEF Injection, IsInjective
  <2>6. p \in Surjection(1 .. i - 1, T)
    <3>1. \A x \in T : \E k \in 1 .. i - 1 : p[k] = x
      BY <2>3, <2>4
    <3> QED BY <2>4, <3>1 DEF Surjection
  <2>7. p \in Bijection(1 .. i - 1, T)
    BY <2>5, <2>6 DEF Bijection
  <2>8. IsFiniteSet(1 .. i - 1) /\ Cardinality(1 .. i - 1) = i - 1
    <3>1. i \in Int /\ i >= 1 /\ i - 1 \in Int
      BY <1>1
    <3>2. IsFiniteSet(1 .. i - 1) /\ Cardinality(1 .. i - 1) = IF 1 > i - 1 THEN 0 ELSE (i - 1) - 1 + 1
      BY <3>1, FS_Interval
    <3> QED BY <3>1, <3>2
  <2>9. Cardinality(T) = Cardinality(1 .. i - 1)
    BY <2>7, <2>8, FS_Bijection DEF ExistsBijection
  <2> QED BY <2>8, <2>9 DEF Rank, T
<1> QED BY <1>3, <1>4, <1>8, <1>9

\* The bits of a mask are finitely many.
LEMMA SeenFinite ==
  ASSUME NEW m \in Masks
  PROVE  Seen(m) \in SUBSET Nat /\ IsFiniteSet(Seen(m)) /\ Cardinality(Seen(m)) \in Nat /\ m.size \notin Seen(m)
<1>1. m.size \in Nat /\ m.bits \in SUBSET Nat
  BY DEF Masks
<1>2. Seen(m) \in SUBSET (0 .. m.size) /\ m.size \notin Seen(m) /\ Seen(m) \in SUBSET Nat
  BY <1>1 DEF Seen
<1> QED BY <1>1, <1>2, FiniteBits

\* The nr-th set bit is the nr-th number of the mask in order, and the size stands for none.
PositionsRight(m) ==
    LET S == Seen(m)
    IN  /\ Ascends(Sorted(S), S) /\ Cardinality(S) \in Nat
        /\ \A x \in S : \E i \in 1 .. Cardinality(S) : x = Sorted(S)[i]
        /\ \A nr \in Nat : IF nr < Cardinality(S) THEN NthBit(m, nr) = Sorted(S)[nr + 1]
                                                  ELSE NthBit(m, nr) = m.size

LEMMA Positions ==
  ASSUME NEW m \in Masks
  PROVE  PositionsRight(m)
<1> DEFINE S == Seen(m)
           n == Cardinality(S)
           q == Sorted(S)
<1>1. S \in SUBSET Nat /\ IsFiniteSet(S) /\ n \in Nat
  BY SeenFinite
<1> HIDE DEF S
<1>2. Ascends(q, S)
  <2>1. PICK p : Ascends(p, S)
    BY <1>1, AscendsExists
  <2>2. p \in [1 .. n -> S] /\ \A i, j \in 1 .. n : i < j => p[i] < p[j]
    BY <2>1 DEF Ascends
  <2>3. /\ \A x \in S : \E i \in 1 .. n : x = p[i]
        /\ \A i \in 1 .. n : p[i] \in S /\ Rank(S, p[i]) = i - 1
    BY <1>1, <2>1, AscendsRank
  <2>4. q = [i \in 1 .. n |-> CHOOSE x \in S : Rank(S, x) = i - 1]
    BY DEF Sorted, Rank, Before
  <2> HIDE DEF q, n
  <2>5. ASSUME NEW i \in 1 .. n PROVE q[i] = p[i]
    <3>1. \A x \in S : Rank(S, x) = i - 1 => x = p[i]
      <4> SUFFICES ASSUME NEW x \in S, Rank(S, x) = i - 1 PROVE x = p[i]
        OBVIOUS
      <4>1. PICK k \in 1 .. n : x = p[k]
        BY <2>3
      <4>2. k - 1 = i - 1
        BY <2>3, <4>1
      <4>3. k = i
        BY <1>1, <4>2
      <4> QED BY <4>1, <4>3
    <3>2. p[i] \in S /\ Rank(S, p[i]) = i - 1
      BY <2>3
    <3> QED BY <2>4, <3>1, <3>2
  <2>6. q \in [1 .. n -> S] /\ \A i, j \in 1 .. n : i < j => q[i] < q[j]
    <3>1. DOMAIN q = 1 .. n /\ q = [i \in 1 .. n |-> q[i]]
      BY <2>4
    <3>2. \A i \in 1 .. n : q[i] \in S
      BY <2>3, <2>5
    <3> QED BY <2>2, <2>5, <3>1, <3>2
  <2> QED BY <2>6 DEF Ascends, n
<1>3. /\ \A x \in S : \E i \in 1 .. n : x = q[i]
      /\ \A i \in 1 .. n : q[i] \in S /\ Rank(S, q[i]) = i - 1
  <2> HIDE DEF q
  <2> QED BY <1>1, <1>2, AscendsRank
<1> HIDE DEF q
<1>4. ASSUME NEW nr \in Nat
      PROVE  IF nr < n THEN NthBit(m, nr) = q[nr + 1] ELSE NthBit(m, nr) = m.size
  <2> DEFINE hits == {i \in S : Rank(S, i) = nr}
  <2>1. NthBit(m, nr) = IF hits = {} THEN m.size ELSE Min(hits)
    BY DEF NthBit, S, Rank, Before
  <2>2. CASE nr < n
    <3> DEFINE x == q[nr + 1]
    <3>1. nr + 1 \in 1 .. n /\ (nr + 1) - 1 = nr
      BY <1>1, <2>2
    <3>2. x \in hits
      BY <1>3, <3>1
    <3>3. ASSUME NEW y \in hits PROVE y = x
      <4>1. PICK i \in 1 .. n : y = q[i]
        BY <1>3
      <4>2. i - 1 = nr
        BY <1>3, <4>1
      <4>3. i = nr + 1
        BY <1>1, <4>2
      <4> QED BY <4>1, <4>3
    <3> HIDE DEF x
    <3>4. hits = {x} /\ x \in Nat
      BY <1>1, <3>2, <3>3
    <3> HIDE DEF hits
    <3>5. {x} \in SUBSET Nat /\ {x} # {}
      BY <3>4
    <3>6. Min({x}) \in {x}
      BY <3>5, Least
    <3>7. NthBit(m, nr) = x
      BY <2>1, <3>4, <3>6
    <3> QED BY <2>2, <3>7 DEF x
  <2>3. CASE ~(nr < n)
    <3>1. \A x \in S : Rank(S, x) \in Nat /\ Rank(S, x) < n
      BY <1>1, RankIs
    <3>2. hits = {}
      <4> HIDE DEF n
      <4> QED BY <1>1, <2>3, <3>1
    <3> QED BY <2>1, <2>3, <3>2
  <2> QED BY <2>2, <2>3
<1> HIDE DEF n
<1>5. n = Cardinality(Seen(m)) /\ q = Sorted(Seen(m)) /\ S = Seen(m)
  BY DEF n, q, S
<1>6. PositionsRight(m)
  BY <1>1, <1>2, <1>3, <1>4, <1>5, Zenon DEF PositionsRight
<1> QED BY <1>6

----------------------------------------------------------------------------
(* Devices *)

FileAnswer(dev, c, X) ==
    /\ c \in Int /\ X \in SUBSET Nat
    /\ c >= 0 => X # {} /\ X \subseteq 0 .. numa_num_task_nodes - 1
    /\ \A mask \in Masks : NodeOrFail(sysfs_node_read(mask, dev)) = Lookup(c, SetBits(mask, X))

DeviceAnswer(how, id, c, X) ==
    /\ c \in Int /\ X \in SUBSET Nat
    /\ c >= 0 => X # {} /\ X \subseteq 0 .. numa_num_task_nodes - 1
    /\ \A mask \in Masks : resolve_affinity(how, id, mask) = Lookup(c, SetBits(mask, X))

LEMMA SetNone == ASSUME NEW m \in Masks PROVE SetBits(m, {}) = m
<1>1. SetBits(m, {}) = [size |-> m.size, bits |-> m.bits \cup {n \in {} : n < m.size}]
  BY MaskOps
<1>2. m.bits \cup {n \in {} : n < m.size} = m.bits
  OBVIOUS
<1>3. m = [size |-> m.size, bits |-> m.bits]
  BY DEF Masks
<1> QED BY <1>1, <1>2, <1>3

LEMMA FileAnswers ==
  ASSUME numa_num_task_nodes \in Int, NEW dev
  PROVE  \E c, X : FileAnswer(dev, c, X)
<1>1. CASE dev \notin DOMAIN NodeFile \/ NodeFile[dev] = <<>>
  <2>1. \A mask \in Masks : NodeOrFail(sysfs_node_read(mask, dev)) = Lookup(-1, SetBits(mask, {}))
    <3> TAKE mask \in Masks
    <3>1. sysfs_node_read(mask, dev) = Lookup(-1, mask)
      BY <1>1 DEF sysfs_node_read, Failed
    <3>2. NodeOrFail(Lookup(-1, mask)) = Lookup(-1, mask)
      BY DEF NodeOrFail, Lookup, Failed
    <3> QED BY <3>1, <3>2, SetNone
  <2>2. FileAnswer(dev, -1, {})
    BY <2>1 DEF FileAnswer
  <2> QED BY <2>2
<1>2. CASE ~(dev \notin DOMAIN NodeFile \/ NodeFile[dev] = <<>>)
  <2> DEFINE nums == NodeFile[dev]
             bad == {k \in DOMAIN nums : NodeStatus(nums[k]) # 0}
             before == {k \in DOMAIN nums : \A j \in bad : k < j}
             r == IF bad = {} THEN 0 ELSE NodeStatus(nums[Min(bad)])
             c == IF bad = {} THEN 0 ELSE -1
             X == {nums[k] : k \in before}
  <2>1. nums \in Seq(Int) /\ nums # <<>>
    BY <1>2, AffinityAssumption
  <2>2. \A mask : sysfs_node_read(mask, dev) = Lookup(r, SetBits(mask, X))
    BY <1>2 DEF sysfs_node_read
  <2> HIDE DEF nums
  <2>3. \A k \in DOMAIN nums : nums[k] \in Int /\ k \in Nat
    BY <2>1
  <2>4. \A k \in before : NodeStatus(nums[k]) = 0
    <3> SUFFICES ASSUME NEW k \in before, k \in bad PROVE FALSE
      OBVIOUS
    <3>1. k < k /\ k \in Nat
      BY <2>3
    <3> QED BY <3>1
  <2>5. \A k \in before : nums[k] \in Nat /\ nums[k] \in 0 .. numa_num_task_nodes - 1
    <3> TAKE k \in before
    <3> DEFINE x == nums[k]
    <3>1. x \in Int /\ NodeStatus(x) = 0
      BY <2>3, <2>4
    <3> HIDE DEF x
    <3>2. ~(x < 0) /\ ~(x >= numa_num_task_nodes)
      <4>1. x < 0 => NodeStatus(x) # 0
        <5>1. x < 0 => ~(x >= 0)
          BY <3>1
        <5> QED BY <5>1 DEF NodeStatus, Failed
      <4>2. x >= numa_num_task_nodes => NodeStatus(x) # 0
        BY DEF NodeStatus, Failed
      <4> QED BY <3>1, <4>1, <4>2
    <3>3. x \in Nat /\ x \in 0 .. numa_num_task_nodes - 1
      BY <3>1, <3>2
    <3> QED BY <3>3 DEF x
  <2>6. X \in SUBSET Nat /\ X \subseteq 0 .. numa_num_task_nodes - 1
    <3> HIDE DEF before
    <3> QED BY <2>5
  <2>7. bad = {} => X # {}
    <3>1. 1 \in DOMAIN nums
      BY <2>1
    <3>2. bad = {} => 1 \in before
      BY <3>1
    <3> HIDE DEF before, bad
    <3> QED BY <3>2
  <2>8. bad # {} => r < 0 /\ r \in Int
    <3>1. bad \in SUBSET Nat
      BY <2>3
    <3>2. bad # {} => Min(bad) \in bad
      <4> HIDE DEF bad
      <4> QED BY <3>1, Least
    <3>3. bad # {} => NodeStatus(nums[Min(bad)]) # 0
      BY <3>2
    <3>4. \A x : NodeStatus(x) \in {-2, -1, 0}
      BY DEF NodeStatus, Failed
    <3> HIDE DEF bad
    <3> QED BY <3>3, <3>4
  <2>9. bad = {} => r = 0
    OBVIOUS
  <2> HIDE DEF bad, r, X
  <2>10. \A mask \in Masks : NodeOrFail(sysfs_node_read(mask, dev)) = Lookup(c, SetBits(mask, X))
    <3> TAKE mask \in Masks
    <3> DEFINE M == SetBits(mask, X)
    <3>1. sysfs_node_read(mask, dev) = Lookup(r, M)
      BY <2>2
    <3> HIDE DEF M
    <3>2. NodeOrFail(Lookup(r, M)) = Lookup(c, M)
      BY <2>8, <2>9 DEF NodeOrFail, Lookup, Failed
    <3> QED BY <3>1, <3>2 DEF M
  <2>11. c \in Int /\ (c >= 0 => X # {})
    BY <2>7
  <2> HIDE DEF c
  <2>12. FileAnswer(dev, c, X)
    BY <2>6, <2>10, <2>11 DEF FileAnswer
  <2> QED BY <2>12
<1> QED BY <1>1, <1>2

LEMMA DeviceAnswers ==
  ASSUME numa_num_task_nodes \in Int, NEW how, NEW id
  PROVE  \E c, X : DeviceAnswer(how, id, c, X)
<1>1. ASSUME NEW c \in {-1, -2}, \A mask \in Masks : resolve_affinity(how, id, mask) = Lookup(c, mask)
      PROVE  \E d, X : DeviceAnswer(how, id, d, X)
  <2>1. \A mask \in Masks : resolve_affinity(how, id, mask) = Lookup(c, SetBits(mask, {}))
    BY <1>1, SetNone
  <2>2. DeviceAnswer(how, id, c, {})
    BY <2>1 DEF DeviceAnswer
  <2> QED BY <2>2
<1>2. ASSUME NEW dev, \A mask \in Masks : resolve_affinity(how, id, mask) = NodeOrFail(sysfs_node_read(mask, dev))
      PROVE  \E d, X : DeviceAnswer(how, id, d, X)
  <2>1. PICK c, X : FileAnswer(dev, c, X)
    BY FileAnswers
  <2>2. DeviceAnswer(how, id, c, X)
    BY <1>2, <2>1 DEF DeviceAnswer, FileAnswer
  <2> QED BY <2>2
<1>3. ASSUME NEW cls, NEW dev
      PROVE  \E d : \A mask \in Masks : affinity_class(mask, cls, dev) = NodeOrFail(sysfs_node_read(mask, d))
  <2>1. CASE <<cls, dev>> \in DOMAIN PciOf
    BY <2>1 DEF affinity_class
  <2>2. CASE <<cls, dev>> \notin DOMAIN PciOf
    BY <2>2 DEF affinity_class
  <2> QED BY <2>1, <2>2
<1>4. CASE how = "netdev"
  <2>1. \A mask : resolve_affinity(how, id, mask) = affinity_class(mask, "net", id)
    BY <1>4 DEF resolve_affinity
  <2>2. PICK d : \A mask \in Masks : affinity_class(mask, "net", id) = NodeOrFail(sysfs_node_read(mask, d))
    BY <1>3
  <2> QED BY <1>2, <2>1, <2>2
<1>5. CASE how = "block"
  <2>1. \A mask : resolve_affinity(how, id, mask) = affinity_class(mask, "block", id)
    BY <1>5 DEF resolve_affinity
  <2>2. PICK d : \A mask \in Masks : affinity_class(mask, "block", id) = NodeOrFail(sysfs_node_read(mask, d))
    BY <1>3
  <2> QED BY <1>2, <2>1, <2>2
<1>6. CASE how = "pci"
  <2>1. \A mask : resolve_affinity(how, id, mask) = NodeOrFail(sysfs_node_read(mask, <<"pci", id>>))
    BY <1>6 DEF resolve_affinity, affinity_pci
  <2> QED BY <1>2, <2>1
<1>7. CASE how = "ip"
  <2>1. \A mask : resolve_affinity(how, id, mask) = affinity_ip(mask, id)
    BY <1>7 DEF resolve_affinity
  <2>2. CASE find_route(id) = Failed \/ find_route(id) \notin DOMAIN IfName
    <3>1. \A mask : affinity_ip(mask, id) = Lookup(-1, mask)
      BY <2>2 DEF affinity_ip, Failed
    <3> QED BY <1>1, <2>1, <3>1
  <2>3. CASE ~(find_route(id) = Failed \/ find_route(id) \notin DOMAIN IfName)
    <3> DEFINE dev == IfName[find_route(id)]
    <3>1. \A mask : affinity_ip(mask, id) = affinity_class(mask, "net", dev)
      BY <2>3 DEF affinity_ip
    <3> HIDE DEF dev
    <3>2. PICK d : \A mask \in Masks : affinity_class(mask, "net", dev) = NodeOrFail(sysfs_node_read(mask, d))
      BY <1>3
    <3> QED BY <1>2, <2>1, <3>1, <3>2
  <2> QED BY <2>2, <2>3
<1>8. CASE how = "file"
  <2>1. \A mask : resolve_affinity(how, id, mask) = affinity_file(mask, id)
    BY <1>8 DEF resolve_affinity
  <2> DEFINE names == ClassDir[FileDev[id].cls]
             hits == {k \in DOMAIN names : /\ names[k] \in DOMAIN DevNumber
                                           /\ DevNumber[names[k]] = FileDev[id].dev}
             absent == id \notin DOMAIN FileDev \/ FileDev[id].cls \notin DOMAIN ClassDir
  <2>2. CASE absent \/ hits = {}
    <3>1. \A mask : affinity_file(mask, id) = Lookup(-1, mask)
      BY <2>2 DEF affinity_file, Failed
    <3> QED BY <1>1, <2>1, <3>1
  <2>3. CASE ~(absent \/ hits = {})
    <3> DEFINE dev == names[Min(hits)]
    <3>1. \A mask : affinity_file(mask, id) = affinity_class(mask, "block", dev)
      BY <2>3 DEF affinity_file
    <3> HIDE DEF dev
    <3>2. PICK d : \A mask \in Masks : affinity_class(mask, "block", dev) = NodeOrFail(sysfs_node_read(mask, d))
      BY <1>3
    <3> QED BY <1>2, <2>1, <3>1, <3>2
  <2> QED BY <2>2, <2>3
<1>9. CASE how \notin {"netdev", "ip", "file", "block", "pci"}
  <2>1. \A mask : resolve_affinity(how, id, mask) = Lookup(-2, mask)
    BY <1>9 DEF resolve_affinity, NO_IO_AFFINITY
  <2> QED BY <1>1, <2>1
<1> QED BY <1>4, <1>5, <1>6, <1>7, <1>8, <1>9

----------------------------------------------------------------------------
(* The loop over the items *)

\* What the loop keeps, for a mask of n bits.
Sized(n) == [size : {n}, bits : SUBSET Nat]
Accs(n) == [mask : Sized(n), st : {"go", "done", "err"}]

Lists == [not : BOOLEAN, plus : BOOLEAN, items : Seq(Items), ends : BOOLEAN]

\* The numbers an accepted number or range sets, from a to b.
Cut(t, a, b, allowed) ==
    IF t = "range" THEN {a} \cup {i \in a .. b : numa_bitmask_isbitset(allowed, i)} ELSE {a}

LEMMA AccIs ==
  ASSUME NEW n \in Nat, NEW acc \in Accs(n)
  PROVE  /\ acc = [mask |-> acc.mask, st |-> acc.st] /\ acc.st \in {"go", "done", "err"}
         /\ acc.mask \in Masks /\ acc.mask.size = n /\ acc.mask.bits \in SUBSET Nat
         /\ [acc EXCEPT !.st = "err"] = [mask |-> acc.mask, st |-> "err"]
BY DEF Accs, Sized, Masks

LEMMA AccFrom ==
  ASSUME NEW n \in Nat, NEW m \in Masks, m.size = n, NEW st \in {"go", "done", "err"}
  PROVE  [mask |-> m, st |-> st] \in Accs(n)
BY DEF Accs, Sized, Masks

LEMMA CopyIs ==
  ASSUME NEW n \in Nat, NEW m \in Masks, m.size = n, NEW from \in Masks
  PROVE  LET c == copy_bitmask_to_bitmask(from, m)
         IN  /\ c \in Masks /\ c.size = n
             /\ c.bits = {k \in from.bits : k < Longs(n) * LongBits}
<1> DEFINE B == {k \in from.bits : k < Longs(m.size) * LongBits}
<1>1. from.bits \in SUBSET Nat /\ m = [size |-> n, bits |-> m.bits]
  BY DEF Masks
<1>2. B \in SUBSET Nat
  BY <1>1
<1>3. copy_bitmask_to_bitmask(from, m) = [m EXCEPT !.bits = B]
  BY DEF copy_bitmask_to_bitmask
<1>4. B = {k \in from.bits : k < Longs(n) * LongBits}
  OBVIOUS
<1> HIDE DEF B
<1>5. [m EXCEPT !.bits = B] = [size |-> n, bits |-> B]
  BY <1>1
<1>6. [size |-> n, bits |-> B] \in Masks
  BY <1>2 DEF Masks
<1> QED BY <1>3, <1>4, <1>5, <1>6

LEMMA ItemIs ==
  ASSUME NEW item \in Items
  PROVE  /\ item.t \in {"nr", "range", "open", "all", "junk", "dev"}
         /\ item.t \in {"nr", "range", "open"} => item.a \in Nat /\ item.b \in Nat
BY DEF Items

LEMMA NrIs ==
  ASSUME NEW nr \in Nat, NEW m \in Masks, NEW relative \in BOOLEAN
  PROVE  get_nr(nr, m, relative) \in Nat
<1>1. m.size \in Nat
  BY DEF Masks
<1>2. NthBit(m, nr) \in Nat
  <2>1. PositionsRight(m)
    BY Positions
  <2> DEFINE S == Seen(m)
             c == Cardinality(S)
             q == Sorted(S)
  <2>2. /\ q \in [1 .. c -> S] /\ c \in Nat
        /\ IF nr < c THEN NthBit(m, nr) = q[nr + 1] ELSE NthBit(m, nr) = m.size
    BY <2>1 DEF PositionsRight, Ascends
  <2>3. S \in SUBSET Nat
    BY SeenFinite
  <2> HIDE DEF S, c, q
  <2>4. nr < c => nr + 1 \in 1 .. c
    BY <2>2
  <2> QED BY <1>1, <2>2, <2>3, <2>4
<1> QED BY <1>2 DEF get_nr

\* The turns that set numbers.
LEMMA TurnNumbers ==
  ASSUME NEW n \in Nat, NEW acc \in Accs(n), acc.st = "go", NEW item \in Items, NEW last, NEW allowed \in Masks,
         NEW relative \in BOOLEAN, NEW valid \in SUBSET Nat, NEW names, item.t \in {"nr", "range"},
         NEW a, a = get_nr(item.a, allowed, relative), NEW b, b = get_nr(item.b, allowed, relative)
  PROVE  LET T == Turn(acc, item, last, allowed, relative, valid, names)
         IN  /\ Cut(item.t, a, b, allowed) \in SUBSET Nat
             /\ T = IF a \in valid /\ (item.t = "range" => b \in valid)
                    THEN [mask |-> SetBits(acc.mask, Cut(item.t, a, b, allowed)), st |-> "go"]
                    ELSE [mask |-> acc.mask, st |-> "err"]
<1> DEFINE X == Cut(item.t, a, b, allowed)
<1>1. a \in Nat /\ b \in Nat
  BY NrIs, ItemIs
<1>2. X \in SUBSET Nat
  BY <1>1 DEF Cut
<1>3. Turn(acc, item, last, allowed, relative, valid, names) = Numbers(acc, item.t, a, b, allowed, valid)
  BY DEF Turn
<1>4. /\ acc = [mask |-> acc.mask, st |-> "go"]
      /\ [acc EXCEPT !.st = "err"] = [mask |-> acc.mask, st |-> "err"]
  BY AccIs
<1>5. CASE a \notin valid
  BY <1>3, <1>4, <1>5, <1>2 DEF Numbers
<1>6. CASE a \in valid /\ item.t = "nr"
  <2>1. Numbers(acc, item.t, a, b, allowed, valid) = [acc EXCEPT !.mask = SetBits(acc.mask, X)]
    BY <1>6 DEF Numbers, Cut, numa_bitmask_setbit
  <2> HIDE DEF X
  <2>2. [acc EXCEPT !.mask = SetBits(acc.mask, X)] = [mask |-> SetBits(acc.mask, X), st |-> "go"]
    BY <1>4
  <2> QED BY <1>2, <1>3, <1>6, <2>1, <2>2 DEF X
<1>7. CASE a \in valid /\ item.t = "range" /\ b \notin valid
  BY <1>2, <1>3, <1>4, <1>7 DEF Numbers
<1>8. CASE a \in valid /\ item.t = "range" /\ b \in valid
  <2>1. Numbers(acc, item.t, a, b, allowed, valid) = [acc EXCEPT !.mask = SetBits(acc.mask, X)]
    BY <1>8 DEF Numbers, Cut
  <2> HIDE DEF X
  <2>2. [acc EXCEPT !.mask = SetBits(acc.mask, X)] = [mask |-> SetBits(acc.mask, X), st |-> "go"]
    BY <1>4
  <2> QED BY <1>2, <1>3, <1>8, <2>1, <2>2 DEF X
<1> QED BY <1>5, <1>6, <1>7, <1>8

IsNumber(item) == item.t \in {"nr", "range"}
\* The numbers of an item exist, and what it sets.
Valid(item, allowed, relative, valid) ==
    /\ get_nr(item.a, allowed, relative) \in valid
    /\ item.t = "range" => get_nr(item.b, allowed, relative) \in valid
Chosen(item, allowed, relative) ==
    Cut(item.t, get_nr(item.a, allowed, relative), get_nr(item.b, allowed, relative), allowed)

NumbersTaken(T, acc, ok, X) ==
    X \in SUBSET Nat /\ T = IF ok THEN [mask |-> SetBits(acc.mask, X), st |-> "go"] ELSE [mask |-> acc.mask, st |-> "err"]

LEMMA TurnTakes ==
  ASSUME NEW n \in Nat, NEW acc \in Accs(n), acc.st = "go", NEW item \in Items, NEW last, NEW allowed \in Masks,
         NEW relative \in BOOLEAN, NEW valid \in SUBSET Nat, NEW names, IsNumber(item)
  PROVE  NumbersTaken(Turn(acc, item, last, allowed, relative, valid, names), acc,
                      Valid(item, allowed, relative, valid), Chosen(item, allowed, relative))
BY TurnNumbers DEF NumbersTaken, Valid, Chosen, IsNumber

\* The other turns.
LEMMA TurnOthers ==
  ASSUME NEW n \in Nat, NEW acc \in Accs(n), acc.st = "go", NEW item \in Items, NEW last \in BOOLEAN,
         NEW allowed \in Masks, NEW relative \in BOOLEAN, NEW valid, NEW names \in BOOLEAN
  PROVE  LET T == Turn(acc, item, last, allowed, relative, valid, names)
             err == [mask |-> acc.mask, st |-> "err"]
         IN  /\ item.t \in {"junk", "open"} => T = err
             /\ item.t = "all" =>
                    T = IF last THEN [mask |-> copy_bitmask_to_bitmask(allowed, acc.mask), st |-> "done"] ELSE err
<1> DEFINE T == Turn(acc, item, last, allowed, relative, valid, names)
           err == [mask |-> acc.mask, st |-> "err"]
<1>1. /\ acc = [mask |-> acc.mask, st |-> "go"] /\ acc.mask \in Masks
      /\ [acc EXCEPT !.st = "err"] = err
  BY AccIs
<1>2. CASE item.t = "junk"
  BY <1>1, <1>2 DEF Turn
<1>3. CASE item.t = "open"
  BY <1>1, <1>3 DEF Turn, Numbers
<1>4. CASE item.t = "all"
  BY <1>1, <1>4 DEF Turn, TakeAll
<1>6. item.t \in {"junk", "open"} => T = err
  BY <1>2, <1>3
<1>7. item.t = "all" => T = IF last THEN [mask |-> copy_bitmask_to_bitmask(allowed, acc.mask), st |-> "done"] ELSE err
  BY <1>4
<1> QED BY <1>6, <1>7

DeviceTaken(T, acc, ok, X) ==
    T = IF ok THEN [mask |-> SetBits(acc.mask, X), st |-> "done"] ELSE [mask |-> acc.mask, st |-> "err"]

LEMMA TurnDevice ==
  ASSUME NEW n \in Nat, NEW acc \in Accs(n), acc.st = "go", NEW item \in Items, NEW last \in BOOLEAN,
         NEW allowed \in Masks, NEW relative \in BOOLEAN, NEW valid, NEW names \in BOOLEAN,
         item.t = "dev", NEW c, NEW X, DeviceAnswer(item.how, item.id, c, X)
  PROVE  DeviceTaken(Turn(acc, item, last, allowed, relative, valid, names), acc,
                     names /\ (last \/ item.how = "pci") /\ c >= 0, X)
<1> DEFINE T == Turn(acc, item, last, allowed, relative, valid, names)
           err == [mask |-> acc.mask, st |-> "err"]
           r == resolve_affinity(item.how, item.id, acc.mask)
           M == SetBits(acc.mask, X)
<1>1. /\ acc = [mask |-> acc.mask, st |-> "go"] /\ acc.mask \in Masks
      /\ [acc EXCEPT !.st = "err"] = err
  BY AccIs
<1>2. CASE ~names
  BY <1>1, <1>2 DEF Turn, DeviceTaken
<1>3. CASE names
  <2>1. r = [ret |-> c, mask |-> M]
    BY <1>1 DEF DeviceAnswer, Lookup
  <2>2. T = TakeDevice(acc, item, last, r)
    BY <1>3 DEF Turn
  <2>3. r.ret = c /\ r.mask = M
    BY <2>1
  <2>4. T = IF (last \/ item.how = "pci") /\ r.ret >= 0 THEN [mask |-> r.mask, st |-> "done"] ELSE err
    BY <1>1, <2>2 DEF TakeDevice
  <2> HIDE DEF r, M, T, err
  <2>5. T = IF names /\ (last \/ item.how = "pci") /\ c >= 0 THEN [mask |-> M, st |-> "done"] ELSE err
    BY <1>3, <2>3, <2>4
  <2> QED BY <2>5 DEF M, T, err, DeviceTaken
<1> QED BY <1>2, <1>3

LEMMA TurnTyped ==
  ASSUME numa_num_task_nodes \in Int, NEW n \in Nat, NEW acc \in Accs(n), NEW item \in Items,
         NEW last \in BOOLEAN, NEW allowed \in Masks, NEW relative \in BOOLEAN, NEW valid \in SUBSET Nat,
         NEW names \in BOOLEAN
  PROVE  Turn(acc, item, last, allowed, relative, valid, names) \in Accs(n)
<1> DEFINE T == Turn(acc, item, last, allowed, relative, valid, names)
           err == [mask |-> acc.mask, st |-> "err"]
<1>1. acc.mask \in Masks /\ acc.mask.size = n /\ acc.st \in {"go", "done", "err"}
  BY AccIs
<1>2. err \in Accs(n)
  BY <1>1, AccFrom
<1>3. ASSUME NEW X \in SUBSET Nat, NEW st \in {"go", "done", "err"}
      PROVE  [mask |-> SetBits(acc.mask, X), st |-> st] \in Accs(n)
  <2>1. SetBits(acc.mask, X) \in Masks /\ SetBits(acc.mask, X).size = n
    BY <1>1, SetIs
  <2> QED BY <2>1, AccFrom
<1>4. CASE acc.st # "go"
  BY <1>4 DEF Turn
<1>5. CASE acc.st = "go" /\ item.t \in {"nr", "range"}
  <2> DEFINE a == get_nr(item.a, allowed, relative)
             b == get_nr(item.b, allowed, relative)
             X == Cut(item.t, a, b, allowed)
  <2>1. X \in SUBSET Nat /\ (T = [mask |-> SetBits(acc.mask, X), st |-> "go"] \/ T = err)
    <3>1. /\ X \in SUBSET Nat
          /\ T = IF a \in valid /\ (item.t = "range" => b \in valid)
                 THEN [mask |-> SetBits(acc.mask, X), st |-> "go"] ELSE err
      BY <1>5, TurnNumbers
    <3> HIDE DEF T, X, err, a, b
    <3> QED BY <3>1
  <2> HIDE DEF X, T, err
  <2> QED BY <1>2, <1>3, <2>1 DEF T
<1>6. CASE acc.st = "go" /\ item.t \in {"junk", "open"}
  BY <1>2, <1>6, TurnOthers
<1>7. CASE acc.st = "go" /\ item.t = "all"
  <2> DEFINE m == copy_bitmask_to_bitmask(allowed, acc.mask)
  <2>1. T = [mask |-> m, st |-> "done"] \/ T = err
    BY <1>7, TurnOthers
  <2>2. m \in Masks /\ m.size = n
    BY <1>1, CopyIs
  <2> HIDE DEF m, T, err
  <2>3. [mask |-> m, st |-> "done"] \in Accs(n)
    BY <2>2, AccFrom
  <2> QED BY <1>2, <2>1, <2>3 DEF T
<1>8. CASE acc.st = "go" /\ item.t = "dev"
  <2>1. PICK c, X : DeviceAnswer(item.how, item.id, c, X)
    BY DeviceAnswers
  <2>2. T = [mask |-> SetBits(acc.mask, X), st |-> "done"] \/ T = err
    <3>1. DeviceTaken(T, acc, names /\ (last \/ item.how = "pci") /\ c >= 0, X)
      BY <1>8, <2>1, TurnDevice, Zenon
    <3> HIDE DEF T
    <3> QED BY <3>1 DEF DeviceTaken
  <2>3. X \in SUBSET Nat
    BY <2>1 DEF DeviceAnswer
  <2> HIDE DEF T, err
  <2> QED BY <1>2, <1>3, <2>2, <2>3 DEF T
<1> QED BY <1>4, <1>5, <1>6, <1>7, <1>8, ItemIs

\* What holds of 0, and of each number after one of which it holds, holds up to n.
LEMMA UpTo ==
  ASSUME NEW n \in Nat, NEW G, 0 \in G, \A k \in 1 .. n : k - 1 \in G => k \in G
  PROVE  \A k \in 0 .. n : k \in G
<1> DEFINE Bad == {k \in 0 .. n : k \notin G}
<1> SUFFICES ASSUME Bad # {} PROVE FALSE
  OBVIOUS
<1>1. Bad \in SUBSET Nat
  OBVIOUS
<1>2. PICK k \in Bad : \A j \in Bad : k <= j
  <2> HIDE DEF Bad
  <2> QED BY <1>1, Least
<1>3. k \in 1 .. n /\ k \notin G
  BY <1>2
<1>4. k - 1 \in 0 .. n /\ k - 1 \notin Bad
  <2> HIDE DEF Bad
  <2> QED BY <1>1, <1>2, <1>3
<1> QED BY <1>3, <1>4

\* A loop whose steps stay in S is defined, step[k] being its k-th step.
Loops(g, S, n, x, step) ==
    g \in [0 .. n -> S] /\ g[0] = x /\ \A k \in 1 .. n : g[k] = step[k][g[k - 1]]

\* Such a loop exists.
LEMMA LoopExists ==
  \A S, n, x, step :
    n \in Nat /\ x \in S /\ step \in [1 .. n -> [S -> S]] => \E g : Loops(g, S, n, x, step)
<1> SUFFICES ASSUME NEW S, NEW n \in Nat, NEW x \in S, NEW step \in [1 .. n -> [S -> S]]
             PROVE  \E g : Loops(g, S, n, x, step)
  OBVIOUS
<1> DEFINE Has(m) == \E g \in [0 .. m -> S] : g[0] = x /\ \A k \in 1 .. m : g[k] = step[k][g[k - 1]]
           G == {m \in 0 .. n : Has(m)}
<1>1. 0 \in G
  <2> DEFINE g == [k \in 0 .. 0 |-> x]
  <2>1. g \in [0 .. 0 -> S] /\ g[0] = x /\ \A k \in 1 .. 0 : g[k] = step[k][g[k - 1]]
    OBVIOUS
  <2>2. Has(0)
    BY <2>1
  <2> QED BY <2>2
<1>2. ASSUME NEW m \in 1 .. n, m - 1 \in G PROVE m \in G
  <2>1. PICK g \in [0 .. m - 1 -> S] : g[0] = x /\ \A k \in 1 .. m - 1 : g[k] = step[k][g[k - 1]]
    BY <1>2
  <2> DEFINE h == [k \in 0 .. m |-> IF k = m THEN step[m][g[m - 1]] ELSE g[k]]
  <2>2. g[m - 1] \in S /\ step[m][g[m - 1]] \in S
    <3>1. m - 1 \in 0 .. m - 1
      OBVIOUS
    <3>2. g[m - 1] \in S
      BY <3>1
    <3> QED BY <3>2
  <2>3. h \in [0 .. m -> S]
    <3>1. \A k \in 0 .. m : k = m \/ k \in 0 .. m - 1
      OBVIOUS
    <3> QED BY <2>2, <3>1
  <2>4. h[0] = x
    BY <2>1
  <2>5. ASSUME NEW k \in 1 .. m PROVE h[k] = step[k][h[k - 1]]
    <3>1. k - 1 \in 0 .. m /\ k - 1 # m /\ h[k - 1] = g[k - 1]
      OBVIOUS
    <3>2. CASE k = m
      BY <3>1, <3>2
    <3>3. CASE k # m
      <4>1. k \in 1 .. m - 1 /\ h[k] = g[k]
        BY <3>3
      <4> QED BY <2>1, <3>1, <4>1
    <3> QED BY <3>2, <3>3
  <2> HIDE DEF h
  <2>6. Has(m)
    BY <2>3, <2>4, <2>5
  <2> HIDE DEF Has
  <2> QED BY <2>6
<1> HIDE DEF G
<1>3. \A k \in 1 .. n : k - 1 \in G => k \in G
  BY <1>2
<1>4. \A k \in 0 .. n : k \in G
  BY <1>1, <1>3, UpTo
<1>5. Has(n)
  BY <1>4 DEF G
<1> QED BY <1>5 DEF Loops

LoopOf(g, s, empty, allowed, valid, names) ==
    /\ g \in [0 .. Len(s.items) -> Accs(empty.size)]
    /\ g[0] = [mask |-> empty, st |-> "go"]
    /\ \A k \in 1 .. Len(s.items) :
        g[k] = Turn(g[k - 1], s.items[k], k = Len(s.items) /\ s.ends, allowed, s.plus, valid, names)

LEMMA ListIs ==
  ASSUME NEW s \in Lists
  PROVE  /\ s.not \in BOOLEAN /\ s.plus \in BOOLEAN /\ s.ends \in BOOLEAN /\ s.items \in Seq(Items)
         /\ Len(s.items) \in Nat /\ DOMAIN s.items = 1 .. Len(s.items)
         /\ \A k \in 1 .. Len(s.items) : s.items[k] \in Items
<1>1. s.not \in BOOLEAN /\ s.plus \in BOOLEAN /\ s.ends \in BOOLEAN /\ s.items \in Seq(Items)
  BY DEF Lists
<1> QED BY <1>1

LEMMA LoopIs ==
  ASSUME numa_num_task_nodes \in Int, NEW s \in Lists, NEW empty \in Masks, NEW allowed \in Masks,
         NEW valid \in SUBSET Nat, NEW names \in BOOLEAN
  PROVE  \E g : /\ LoopOf(g, s, empty, allowed, valid, names)
                /\ Loop(s, empty, allowed, valid, names) = Ended(g[Len(s.items)], s)
<1> DEFINE n == Len(s.items)
           A == Accs(empty.size)
           Do(k, a) == Turn(a, s.items[k], k = n /\ s.ends, allowed, s.plus, valid, names)
           first == [mask |-> empty, st |-> "go"]
           Is(g) == g = [k \in 0 .. Len(s.items) |-> IF k = 0 THEN first ELSE Do(k, g[k - 1])]
           step == [k \in 1 .. n |-> [a \in A |-> Do(k, a)]]
<1>1. n \in Nat /\ \A k \in 1 .. n : s.items[k] \in Items
  BY ListIs
<1>2. empty.size \in Nat /\ first \in A
  <2>1. empty.size \in Nat
    BY DEF Masks
  <2> QED BY <2>1, AccFrom
<1>3. \A k \in 1 .. n, a \in A : Do(k, a) \in A
  <2> TAKE k \in 1 .. n, a \in A
  <2>1. s.items[k] \in Items /\ s.plus \in BOOLEAN /\ (k = n /\ s.ends) \in BOOLEAN
    BY ListIs
  <2>2. PICK l \in BOOLEAN : l = (k = n /\ s.ends)
    BY <2>1
  <2>3. Turn(a, s.items[k], l, allowed, s.plus, valid, names) \in A
    BY <1>2, <2>1, TurnTyped
  <2> QED BY <2>2, <2>3
<1> HIDE DEF Do
<1>4. step \in [1 .. n -> [A -> A]]
  BY <1>3
<1>5. PICK h \in [0 .. n -> A] : h[0] = first /\ \A k \in 1 .. n : h[k] = step[k][h[k - 1]]
  <2> HIDE DEF step, A, first, n
  <2>1. \E h : Loops(h, A, n, first, step)
    BY <1>1, <1>2, <1>4, LoopExists, Zenon
  <2> QED BY <2>1 DEF Loops
<1> HIDE DEF A, first
<1>6. ASSUME NEW k \in 1 .. n PROVE k - 1 \in 0 .. n /\ h[k] = Do(k, h[k - 1])
  <2>1. k - 1 \in 0 .. n
    BY <1>1
  <2>2. h[k - 1] \in A
    BY <2>1
  <2>3. step[k][h[k - 1]] = Do(k, h[k - 1])
    BY <2>2
  <2> HIDE DEF step
  <2> QED BY <1>5, <2>1, <2>3
<1>7. Is(h)
  <2>1. h = [k \in 0 .. n |-> h[k]]
    OBVIOUS
  <2>2. \A k \in 0 .. n : h[k] = IF k = 0 THEN first ELSE Do(k, h[k - 1])
    <3> TAKE k \in 0 .. n
    <3>1. k = 0 \/ k \in 1 .. n
      BY <1>1
    <3> QED BY <1>5, <1>6, <3>1
  <2> QED BY <2>1, <2>2
<1>8. PICK g : Is(g) /\ Loop(s, empty, allowed, valid, names) = Ended(g[n], s)
  <2>1. Loop(s, empty, allowed, valid, names) = Ended((CHOOSE g : Is(g))[n], s)
    BY DEF Loop, Do, first
  <2> HIDE DEF Is
  <2> QED BY <1>7, <2>1
<1> HIDE DEF n
<1>9. g = [k \in 0 .. n |-> IF k = 0 THEN first ELSE Do(k, g[k - 1])]
  BY <1>8 DEF n
<1>10. g[0] = first /\ \A k \in 1 .. n : g[k] = Do(k, g[k - 1])
  <2>1. \A k \in 0 .. n : g[k] = IF k = 0 THEN first ELSE Do(k, g[k - 1])
    BY <1>9
  <2>2. 0 \in 0 .. n /\ \A k \in 1 .. n : k \in 0 .. n /\ k # 0
    BY <1>1
  <2> QED BY <2>1, <2>2
<1>11. \A k \in 0 .. n : g[k] \in A
  <2> DEFINE G == {k \in 0 .. n : g[k] \in A}
  <2>1. 0 \in G
    BY <1>1, <1>2, <1>10
  <2>2. ASSUME NEW k \in 1 .. n, k - 1 \in G PROVE k \in G
    <3>1. k \in 0 .. n
      BY <1>1
    <3>2. g[k] \in A
      BY <1>3, <1>10, <2>2
    <3> QED BY <3>1, <3>2
  <2> HIDE DEF G
  <2>3. \A k \in 0 .. n : k \in G
    BY <1>1, <2>1, <2>2, UpTo
  <2> QED BY <2>3 DEF G
<1>12. g \in [0 .. n -> A]
  <2>1. DOMAIN g = 0 .. n /\ g = [k \in 0 .. n |-> g[k]]
    BY <1>9
  <2> QED BY <1>11, <2>1
<1>13. LoopOf(g, s, empty, allowed, valid, names)
  BY <1>10, <1>12 DEF LoopOf, A, Do, first, n
<1> QED BY <1>8, <1>13 DEF n

LEMMA NotNull == ASSUME NEW m \in Masks PROVE m # NULL
<1>1. DOMAIN m = {"size", "bits"}
  BY DEF Masks
<1>2. DOMAIN NULL = {"null"}
  BY DEF NULL
<1> QED BY <1>1, <1>2

LEMMA EndedIs ==
  ASSUME NEW n \in Nat, NEW acc \in Accs(n), NEW s
  PROVE  IF acc.st = "err" \/ (acc.st = "go" /\ ~s.ends)
         THEN Ended(acc, s) = NULL
         ELSE Ended(acc, s) = acc.mask /\ acc.mask \in Masks /\ acc.mask.size = n /\ Ended(acc, s) # NULL
<1>1. acc.mask \in Masks /\ acc.mask.size = n /\ acc.mask # NULL
  BY AccIs, NotNull
<1> QED BY <1>1 DEF Ended

LEMMA InvertNotNull == ASSUME NEW m \in Masks, NEW k PROVE Invert(m, TRUE, k) # NULL
<1> DEFINE i == Invert(m, TRUE, k)
           B == (m.bits \ (0 .. k - 1)) \cup {j \in 0 .. k - 1 : j < m.size /\ j \notin m.bits}
<1>1. i = [m EXCEPT !.bits = B]
  BY NotNull DEF Invert
<1> HIDE DEF i, B
<1>2. DOMAIN i = {"size", "bits"}
  BY <1>1 DEF Masks
<1>3. DOMAIN NULL = {"null"}
  BY DEF NULL
<1>4. i # NULL
  BY <1>2, <1>3
<1> QED BY <1>4 DEF i

LEMMA InvertIs ==
  ASSUME NEW m \in Masks, NEW k \in Int
  PROVE  LET i == Invert(m, TRUE, k)
         IN  /\ i \in Masks /\ i.size = m.size
             /\ i.bits = (m.bits \ (0 .. k - 1)) \cup {j \in 0 .. k - 1 : j < m.size /\ j \notin m.bits}
<1> DEFINE B == (m.bits \ (0 .. k - 1)) \cup {j \in 0 .. k - 1 : j < m.size /\ j \notin m.bits}
<1>1. m # NULL
  BY NotNull
<1>2. m.bits \in SUBSET Nat /\ m.size \in Nat /\ m = [size |-> m.size, bits |-> m.bits]
  BY DEF Masks
<1>3. B \in SUBSET Nat
  BY <1>2
<1>4. Invert(m, TRUE, k) = [m EXCEPT !.bits = B]
  BY <1>1 DEF Invert
<1> HIDE DEF B
<1>5. [m EXCEPT !.bits = B] = [size |-> m.size, bits |-> B]
  BY <1>2
<1>6. [size |-> m.size, bits |-> B] \in Masks
  BY <1>2, <1>3 DEF Masks
<1>7. Invert(m, TRUE, k) \in Masks /\ Invert(m, TRUE, k).size = m.size /\ Invert(m, TRUE, k).bits = B
  BY <1>4, <1>5, <1>6
<1> QED BY <1>7 DEF B

\* What the loop returns is a mask of the size of the empty one, if it accepts the list.
LEMMA LoopTyped ==
  ASSUME numa_num_task_nodes \in Int, NEW s \in Lists, NEW empty \in Masks, NEW allowed \in Masks,
         NEW valid \in SUBSET Nat, NEW names \in BOOLEAN
  PROVE  LET m == Loop(s, empty, allowed, valid, names)
         IN  m = NULL \/ (m # NULL /\ m \in Masks /\ m.size = empty.size)
<1>1. PICK g : /\ LoopOf(g, s, empty, allowed, valid, names)
               /\ Loop(s, empty, allowed, valid, names) = Ended(g[Len(s.items)], s)
  BY LoopIs
<1>2. Len(s.items) \in 0 .. Len(s.items) /\ empty.size \in Nat
  BY ListIs DEF Masks
<1>3. g[Len(s.items)] \in Accs(empty.size)
  BY <1>1, <1>2 DEF LoopOf
<1> QED BY <1>1, <1>2, <1>3, EndedIs

\* The loop does not look at the "!".
LEMMA LoopSame ==
  ASSUME numa_num_task_nodes \in Int, NEW s \in Lists, NEW z \in Lists,
         z.items = s.items, z.plus = s.plus, z.ends = s.ends,
         NEW empty \in Masks, NEW allowed \in Masks, NEW valid \in SUBSET Nat, NEW names \in BOOLEAN
  PROVE  Loop(z, empty, allowed, valid, names) = Loop(s, empty, allowed, valid, names)
<1> DEFINE n == Len(s.items)
<1>1. PICK g : /\ LoopOf(g, s, empty, allowed, valid, names)
               /\ Loop(s, empty, allowed, valid, names) = Ended(g[n], s)
  BY LoopIs
<1>2. PICK h : /\ LoopOf(h, z, empty, allowed, valid, names)
               /\ Loop(z, empty, allowed, valid, names) = Ended(h[n], z)
  BY LoopIs
<1>3. n \in Nat
  BY ListIs
<1> DEFINE G == {k \in 0 .. n : h[k] = g[k]}
<1>4. 0 \in G
  BY <1>1, <1>2, <1>3 DEF LoopOf
<1>5. ASSUME NEW k \in 1 .. n, k - 1 \in G PROVE k \in G
  <2>1. g[k] = Turn(g[k - 1], s.items[k], k = n /\ s.ends, allowed, s.plus, valid, names)
    BY <1>1 DEF LoopOf
  <2>2. h[k] = Turn(h[k - 1], s.items[k], k = n /\ s.ends, allowed, s.plus, valid, names)
    BY <1>2 DEF LoopOf
  <2>3. h[k - 1] = g[k - 1] /\ k \in 0 .. n
    BY <1>3, <1>5
  <2> QED BY <2>1, <2>2, <2>3
<1> HIDE DEF G
<1>6. \A k \in 0 .. n : k \in G
  BY <1>3, <1>4, <1>5, UpTo
<1>7. h[n] = g[n]
  <2>1. n \in 0 .. n
    BY <1>3
  <2> QED BY <1>6, <2>1 DEF G
<1> QED BY <1>1, <1>2, <1>7 DEF Ended

\* A CPU list and the same with its "!" put or taken away.
LEMMA CpusParted ==
  ASSUME lib \in LibType, NEW s \in Lists, s.items # <<>>
  PROVE  CpuExceptPartitions(numa_parse_cpustring(s), numa_parse_cpustring([s EXCEPT !.not = ~s.not]))
<1> DEFINE z == [s EXCEPT !.not = ~s.not]
           k == numa_num_configured_cpus
           m == Loop(s, allocate_cpumask, lib.numa_all_cpus_ptr, 0 .. k - 1, FALSE)
           w == Loop(z, allocate_cpumask, lib.numa_all_cpus_ptr, 0 .. k - 1, FALSE)
           c == numa_parse_cpustring(s)
           d == numa_parse_cpustring(z)
<1>1. /\ z \in Lists /\ z.items = s.items /\ z.plus = s.plus /\ z.ends = s.ends
      /\ s.not \in BOOLEAN /\ z.not = ~s.not
  BY DEF Lists
<1>2. /\ numa_num_task_nodes \in Int /\ lib.numa_all_cpus_ptr \in Masks /\ k \in Int /\ hicpu = k - 1
      /\ 0 .. k - 1 \in SUBSET Nat /\ allocate_cpumask \in Masks
  <2>1. lib.cpumask_sz \in Nat /\ lib.maxconfiguredcpu \in Int
    BY DEF LibType
  <2>2. allocate_cpumask \in Masks
    BY <2>1, NewMask DEF allocate_cpumask
  <2> QED BY <2>1, <2>2 DEF LibType, numa_num_task_nodes, numa_num_configured_cpus, hicpu
<1>3. c = Invert(m, s.not, k) /\ d = Invert(w, z.not, k)
  BY <1>1 DEF numa_parse_cpustring, parse_cpustring
<1> HIDE DEF z
<1>4. w = m
  <2> HIDE DEF k
  <2> QED BY <1>1, <1>2, LoopSame
<1>5. m = NULL \/ m \in Masks
  <2> HIDE DEF k
  <2> QED BY <1>2, LoopTyped
<1> HIDE DEF m, w, c, d, k
<1> SUFFICES CpuExceptPartitions(c, d)
  BY DEF c, d, z
<1>6. CASE m = NULL
  BY <1>3, <1>4, <1>6 DEF Invert, CpuExceptPartitions
<1>7. CASE m \in Masks
  <2> DEFINE i == Invert(m, TRUE, k)
  <2>1. /\ i \in Masks /\ i.size = m.size
        /\ i.bits = (m.bits \ (0 .. k - 1)) \cup {j \in 0 .. k - 1 : j < m.size /\ j \notin m.bits}
    BY <1>2, <1>7, InvertIs
  <2>2. Invert(m, FALSE, k) = m
    BY DEF Invert
  <2>3. i # NULL /\ m # NULL /\ m.bits \in SUBSET Nat
    BY <1>7, <2>1, NotNull DEF Masks
  <2> HIDE DEF i
  <2>4. \A j \in 0 .. hicpu : j < m.size => (j \in m.bits) = (j \notin i.bits)
    BY <1>2, <2>1
  <2>5. (\A j \in m.bits : j > hicpu => j \in i.bits) /\ (\A j \in i.bits : j > hicpu => j \in m.bits)
    <3>1. \A j \in Nat : j > hicpu => j \notin 0 .. k - 1
      BY <1>2
    <3> QED BY <2>1, <2>3, <3>1
  <2>6. (c = m /\ d = i) \/ (c = i /\ d = m)
    BY <1>1, <1>3, <1>4, <2>2 DEF i
  <2>7. CpuExceptPartitions(m, i)
    BY <2>3, <2>4, <2>5 DEF CpuExceptPartitions
  <2>8. CpuExceptPartitions(i, m)
    <3>1. \A j \in 0 .. hicpu : j < i.size => (j \in i.bits) = (j \notin m.bits)
      BY <2>1, <2>4
    <3> QED BY <2>3, <2>5, <3>1 DEF CpuExceptPartitions
  <2> QED BY <2>6, <2>7, <2>8
<1> QED BY <1>5, <1>6, <1>7

----------------------------------------------------------------------------
(* The _all forms *)

Copied(from, n) == {k \in from.bits : k < Longs(n) * LongBits}

\* One loop accepts what another does, and returns at least as much.
Covered(a, b) == a.st # "err" => b.st = a.st /\ a.mask.bits \subseteq b.mask.bits

\* What is allowed in one loop is in the other.
Wider(n, A, V, B, W) ==
    /\ A \in Masks /\ B \in Masks /\ V \in SUBSET Nat /\ W \in SUBSET Nat
    /\ V \subseteq W /\ Seen(A) \subseteq Seen(B) /\ Copied(A, n) \subseteq Copied(B, n)

LEMMA CoveredSet ==
  ASSUME NEW n \in Nat, NEW a \in Accs(n), NEW b \in Accs(n), a.mask.bits \subseteq b.mask.bits,
         NEW X \in SUBSET Nat, NEW Y \in SUBSET Nat, X \subseteq Y, NEW st
  PROVE  Covered([mask |-> SetBits(a.mask, X), st |-> st], [mask |-> SetBits(b.mask, Y), st |-> st])
<1> DEFINE x == SetBits(a.mask, X)
           y == SetBits(b.mask, Y)
<1>1. a.mask \in Masks /\ b.mask \in Masks /\ a.mask.size = n /\ b.mask.size = n
  BY AccIs
<1>2. x.bits = a.mask.bits \cup {k \in X : k < n} /\ y.bits = b.mask.bits \cup {k \in Y : k < n}
  BY <1>1, SetIs
<1> HIDE DEF x, y
<1>3. x.bits \subseteq y.bits
  BY <1>2
<1>4. Covered([mask |-> x, st |-> st], [mask |-> y, st |-> st])
  BY <1>3 DEF Covered
<1> QED BY <1>4 DEF x, y

LEMMA CoveredErr ==
  \A m, b : Covered([mask |-> m, st |-> "err"], b)
BY DEF Covered

LEMMA TurnCovers ==
  ASSUME numa_num_task_nodes \in Int, NEW n \in Nat, NEW a \in Accs(n), NEW b \in Accs(n), NEW item \in Items,
         NEW last \in BOOLEAN, NEW plus \in BOOLEAN, ~plus, NEW names \in BOOLEAN,
         NEW A, NEW V, NEW B, NEW W, Wider(n, A, V, B, W), Covered(a, b)
  PROVE  Covered(Turn(a, item, last, A, plus, V, names), Turn(b, item, last, B, plus, W, names))
<1> DEFINE T == Turn(a, item, last, A, plus, V, names)
           U == Turn(b, item, last, B, plus, W, names)
           err(x) == [mask |-> x.mask, st |-> "err"]
<1>0. A \in Masks /\ B \in Masks /\ V \in SUBSET Nat /\ W \in SUBSET Nat
  BY DEF Wider
<1>1. CASE a.st # "go"
  <2>1. T = a
    BY <1>1 DEF Turn
  <2>2. CASE a.st = "err"
    BY <2>1, <2>2 DEF Covered
  <2>3. CASE a.st # "err"
    <3>1. b.st = a.st
      BY <2>3 DEF Covered
    <3>2. U = b
      BY <1>1, <3>1 DEF Turn
    <3> HIDE DEF T, U
    <3>3. Covered(T, U)
      BY <2>1, <3>2
    <3> QED BY <3>3 DEF T, U
  <2> QED BY <2>2, <2>3
<1>2. CASE a.st = "go"
  <2>1. b.st = "go" /\ a.mask.bits \subseteq b.mask.bits
    BY <1>2 DEF Covered
  <2>2. CASE item.t \in {"nr", "range"}
    <3> DEFINE X == Chosen(item, A, plus)
               Y == Chosen(item, B, plus)
               ok == Valid(item, A, plus, V)
               oks == Valid(item, B, plus, W)
    <3>0. IsNumber(item)
      BY <2>2 DEF IsNumber
    <3>1. NumbersTaken(T, a, ok, X)
      BY <1>0, <1>2, <3>0, TurnTakes, Zenon
    <3>2. NumbersTaken(U, b, oks, Y)
      BY <1>0, <2>1, <3>0, TurnTakes, Zenon
    <3>3. ok => oks
      BY DEF Wider, Valid, get_nr
    <3>4. X \subseteq Y
      <4>1. \A i \in Nat : numa_bitmask_isbitset(A, i) => numa_bitmask_isbitset(B, i)
        BY DEF Wider, Seen, numa_bitmask_isbitset
      <4>2. \A i \in item.a .. item.b : i \in Nat
        <5>1. item.a \in Nat /\ item.b \in Nat
          BY <2>2, ItemIs
        <5> QED BY <5>1
      <4> QED BY <4>1, <4>2 DEF Cut, Chosen, get_nr
    <3> HIDE DEF T, U, X, Y, ok, oks
    <3>5. CASE ok
      <4>1. T = [mask |-> SetBits(a.mask, X), st |-> "go"] /\ U = [mask |-> SetBits(b.mask, Y), st |-> "go"]
        BY <3>1, <3>2, <3>3, <3>5 DEF NumbersTaken
      <4>2. Covered([mask |-> SetBits(a.mask, X), st |-> "go"], [mask |-> SetBits(b.mask, Y), st |-> "go"])
        BY <2>1, <3>1, <3>2, <3>4, CoveredSet DEF NumbersTaken
      <4>3. Covered(T, U)
        BY <4>1, <4>2
      <4> QED BY <4>3 DEF T, U
    <3>6. CASE ~ok
      <4>1. T = err(a)
        BY <3>1, <3>6 DEF NumbersTaken
      <4>2. Covered(T, U)
        BY <4>1, CoveredErr
      <4> QED BY <4>2 DEF T, U
    <3> QED BY <3>5, <3>6
  <2>3. CASE item.t \in {"junk", "open"}
    <3>1. T = err(a)
      BY <1>0, <1>2, <2>3, TurnOthers
    <3> HIDE DEF T, U
    <3>2. Covered(T, U)
      BY <3>1, CoveredErr
    <3> QED BY <3>2 DEF T, U
  <2>4. CASE item.t = "all"
    <3> DEFINE x == copy_bitmask_to_bitmask(A, a.mask)
               y == copy_bitmask_to_bitmask(B, b.mask)
    <3>1. T = IF last THEN [mask |-> x, st |-> "done"] ELSE err(a)
      BY <1>0, <1>2, <2>4, TurnOthers
    <3>2. U = IF last THEN [mask |-> y, st |-> "done"] ELSE err(b)
      BY <1>0, <2>1, <2>4, TurnOthers
    <3>3. a.mask \in Masks /\ b.mask \in Masks /\ a.mask.size = n /\ b.mask.size = n
      BY AccIs
    <3>4. x.bits = Copied(A, n) /\ y.bits = Copied(B, n)
      BY <1>0, <3>3, CopyIs DEF Copied
    <3> HIDE DEF T, U, x, y
    <3>5. x.bits \subseteq y.bits
      BY <3>4 DEF Wider
    <3>6. Covered(T, U)
      BY <3>1, <3>2, <3>5 DEF Covered
    <3> QED BY <3>6 DEF T, U
  <2>5. CASE item.t = "dev"
    <3>1. PICK c, X : DeviceAnswer(item.how, item.id, c, X)
      BY DeviceAnswers
    <3> DEFINE ok == names /\ (last \/ item.how = "pci") /\ c >= 0
    <3>2. DeviceTaken(T, a, ok, X)
      BY <1>0, <1>2, <2>5, <3>1, TurnDevice, Zenon
    <3>3. DeviceTaken(U, b, ok, X)
      BY <1>0, <2>1, <2>5, <3>1, TurnDevice, Zenon
    <3>4. X \in SUBSET Nat
      BY <3>1 DEF DeviceAnswer
    <3>5. Covered([mask |-> SetBits(a.mask, X), st |-> "done"], [mask |-> SetBits(b.mask, X), st |-> "done"])
      BY <2>1, <3>4, CoveredSet
    <3> HIDE DEF T, U, ok
    <3>6. Covered(T, U)
      <4>1. CASE ok
        BY <3>2, <3>3, <3>5, <4>1 DEF DeviceTaken
      <4>2. CASE ~ok
        BY <3>2, <4>2, CoveredErr DEF DeviceTaken
      <4> QED BY <4>1, <4>2
    <3> QED BY <3>6 DEF T, U
  <2> QED BY <2>2, <2>3, <2>4, <2>5, ItemIs
<1> QED BY <1>1, <1>2

LEMMA LoopCovers ==
  ASSUME numa_num_task_nodes \in Int, NEW s \in Lists, ~s.plus, NEW empty \in Masks, NEW names \in BOOLEAN,
         NEW A, NEW V, NEW B, NEW W, Wider(empty.size, A, V, B, W),
         Loop(s, empty, A, V, names) # NULL
  PROVE  /\ Loop(s, empty, B, W, names) # NULL
         /\ Loop(s, empty, A, V, names).bits \subseteq Loop(s, empty, B, W, names).bits
<1> DEFINE l == Len(s.items)
           n == empty.size
<1>0. /\ A \in Masks /\ B \in Masks /\ V \in SUBSET Nat /\ W \in SUBSET Nat /\ n \in Nat
      /\ l \in Nat /\ s.plus \in BOOLEAN /\ s.ends \in BOOLEAN
  BY ListIs DEF Wider, Masks
<1>1. PICK g : LoopOf(g, s, empty, A, V, names) /\ Loop(s, empty, A, V, names) = Ended(g[l], s)
  BY <1>0, LoopIs
<1>2. PICK h : LoopOf(h, s, empty, B, W, names) /\ Loop(s, empty, B, W, names) = Ended(h[l], s)
  BY <1>0, LoopIs
<1>3. \A k \in 0 .. l : g[k] \in Accs(n) /\ h[k] \in Accs(n)
  BY <1>1, <1>2 DEF LoopOf
<1> DEFINE G == {k \in 0 .. l : Covered(g[k], h[k])}
<1>4. 0 \in G
  <2>1. g[0] = h[0]
    BY <1>1, <1>2 DEF LoopOf
  <2> QED BY <1>0, <2>1 DEF Covered
<1>5. ASSUME NEW k \in 1 .. l, k - 1 \in G PROVE k \in G
  <2>1. k \in 0 .. l /\ k - 1 \in 0 .. l /\ Covered(g[k - 1], h[k - 1])
    BY <1>0, <1>5
  <2>2. PICK last \in BOOLEAN : last = (k = l /\ s.ends)
    BY <1>0
  <2>3. g[k] = Turn(g[k - 1], s.items[k], last, A, s.plus, V, names)
    BY <1>0, <1>1, <2>2 DEF LoopOf
  <2>4. h[k] = Turn(h[k - 1], s.items[k], last, B, s.plus, W, names)
    BY <1>0, <1>2, <2>2 DEF LoopOf
  <2>5. s.items[k] \in Items /\ g[k - 1] \in Accs(n) /\ h[k - 1] \in Accs(n)
    BY <1>3, <2>1, ListIs
  <2>6. Covered(g[k], h[k])
    BY <1>0, <2>1, <2>3, <2>4, <2>5, TurnCovers
  <2> QED BY <2>1, <2>6
<1> HIDE DEF G
<1>6. \A k \in 0 .. l : k \in G
  BY <1>0, <1>4, <1>5, UpTo
<1>7. l \in 0 .. l
  BY <1>0
<1>8. Covered(g[l], h[l]) /\ g[l] \in Accs(n) /\ h[l] \in Accs(n)
  BY <1>3, <1>6, <1>7 DEF G
<1>9. PICK a : a = g[l] /\ a \in Accs(n)
  BY <1>8
<1>10. PICK b : b = h[l] /\ b \in Accs(n)
  BY <1>8
<1>11. a.st # "err" /\ ~(a.st = "go" /\ ~s.ends) /\ Ended(a, s) = a.mask
  BY <1>0, <1>1, <1>9, EndedIs
<1>12. b.st = a.st /\ a.mask.bits \subseteq b.mask.bits
  BY <1>8, <1>9, <1>10, <1>11 DEF Covered
<1>13. Ended(b, s) = b.mask /\ Ended(b, s) # NULL
  BY <1>0, <1>10, <1>11, <1>12, EndedIs
<1> QED BY <1>1, <1>2, <1>9, <1>10, <1>11, <1>12, <1>13

\* What is allowed is possible, so an _all form takes what the other does.
LEMMA NodesCovered ==
  ASSUME CallInv, MeasureInv, MasksSized, Ready, told.status # None, NEW s \in Lists, s.items # <<>>
  PROVE  AllFormCovers(s, numa_parse_nodestring(s), numa_parse_nodestring_all(s))
<1> DEFINE A == lib.numa_all_nodes_ptr
           B == lib.numa_possible_nodes_ptr
           n == lib.nodemask_sz
           x == Loop(s, allocate_nodemask, A, Seen(A), TRUE)
           y == Loop(s, allocate_nodemask, B, Seen(B), TRUE)
<1> SUFFICES ASSUME Measured, told.status.runs \subseteq 0 .. hicpu, ~s.plus, ~s.not, numa_parse_nodestring(s) # NULL
             PROVE  /\ numa_parse_nodestring_all(s) # NULL
                    /\ numa_parse_nodestring(s).bits \subseteq numa_parse_nodestring_all(s).bits
  BY DEF AllFormCovers
<1>1. /\ A \in Masks /\ B \in Masks /\ n \in Nat /\ numa_num_task_nodes \in Int
      /\ allocate_nodemask \in Masks /\ allocate_nodemask.size = n
  <2>1. A \in Masks /\ B \in Masks /\ n \in Nat /\ numa_num_task_nodes \in Int
    BY DEF CallInv, Typed, LibType, numa_num_task_nodes
  <2> QED BY <2>1, NewMask DEF allocate_nodemask
<1>2. Seen(A) \subseteq Seen(B)
  BY DEF MeasureInv, Ready, PossibleCoversAllowed
<1>3. A.size = n /\ \A k \in A.bits : k < n
  BY DEF MasksSized, Ready
<1>4. numa_parse_nodestring(s) = x /\ numa_parse_nodestring_all(s) = y
  BY DEF numa_parse_nodestring, numa_parse_nodestring_all, parse_nodestring, Invert
<1> HIDE DEF A, B, n
<1>5. Wider(n, A, Seen(A), B, Seen(B))
  <2>1. Seen(A) \in SUBSET Nat /\ Seen(B) \in SUBSET Nat
    BY <1>1, SeenFinite
  <2>2. A.bits \subseteq B.bits
    BY <1>2, <1>3 DEF Seen
  <2> QED BY <1>1, <1>2, <2>1, <2>2 DEF Wider, Copied
<1>6. TRUE \in BOOLEAN
  OBVIOUS
<1>7. x # NULL => y # NULL /\ x.bits \subseteq y.bits
  BY <1>1, <1>5, <1>6, LoopCovers
<1> HIDE DEF x, y
<1> QED BY <1>4, <1>7

\* A CPU mask is whole words.
LEMMA CpuWords ==
  ASSUME CallInv, Ready
  PROVE  Longs(lib.cpumask_sz) * LongBits = lib.cpumask_sz
<1> DEFINE n == lib.cpumask_sz
           d == LongBits
           q == n \div d
           h == howmany(n, d)
<1>1. n \in Nat /\ n % LongBits = 0 /\ LongBits \in Nat \ {0}
  BY IntBitsAssumption DEF CallInv, Typed, LibType, MapsFit, CpusSized, NodesListed, Ready, LongBits
<1> HIDE DEF n
<1>2. n = d * q + (n % d) /\ q \in Nat
  BY <1>1, DivMod
<1>3. h \in Nat /\ n <= d * h /\ \A p \in Nat : n <= d * p => h <= p
  BY <1>1, HowMany
<1>4. d \in Nat \ {0} /\ n % d = 0
  BY <1>1
<1> HIDE DEF d, q, h
<1>5. n = d * q
  BY <1>2, <1>4
<1>6. h <= q
  BY <1>1, <1>2, <1>3, <1>5
<1>7. d * h <= d * q
  BY <1>2, <1>3, <1>4, <1>6
<1>8. h * d = n
  BY <1>1, <1>2, <1>3, <1>4, <1>5, <1>7
<1>9. Longs(n) * LongBits = n
  BY <1>8 DEF Longs, h, d
<1> QED BY <1>9 DEF n

LEMMA CpusCovered ==
  ASSUME CallInv, MeasureInv, MasksSized, Ready, told.status # None, NEW s \in Lists, s.items # <<>>
  PROVE  AllFormCovers(s, numa_parse_cpustring(s), numa_parse_cpustring_all(s))
<1> DEFINE A == lib.numa_all_cpus_ptr
           B == lib.numa_possible_cpus_ptr
           n == lib.cpumask_sz
           V == 0 .. numa_num_configured_cpus - 1
           x == Loop(s, allocate_cpumask, A, V, FALSE)
           y == Loop(s, allocate_cpumask, B, V, FALSE)
<1> SUFFICES ASSUME Measured, told.status.runs \subseteq 0 .. hicpu, ~s.plus, ~s.not, numa_parse_cpustring(s) # NULL
             PROVE  /\ numa_parse_cpustring_all(s) # NULL
                    /\ numa_parse_cpustring(s).bits \subseteq numa_parse_cpustring_all(s).bits
  BY DEF AllFormCovers
<1>1. /\ A \in Masks /\ B \in Masks /\ n \in Nat /\ numa_num_task_nodes \in Int
      /\ allocate_cpumask \in Masks /\ allocate_cpumask.size = n /\ V \in SUBSET Nat
  <2>1. /\ A \in Masks /\ B \in Masks /\ n \in Nat /\ numa_num_task_nodes \in Int
        /\ numa_num_configured_cpus \in Int
    BY DEF CallInv, Typed, LibType, numa_num_task_nodes, numa_num_configured_cpus
  <2> QED BY <2>1, NewMask DEF allocate_cpumask
<1>2. Seen(A) \subseteq Seen(B)
  BY DEF MeasureInv, Ready, PossibleCoversAllowed
<1>3. A.size = n /\ B.size = n
  BY DEF MasksSized, Ready
<1>4. numa_parse_cpustring(s) = x /\ numa_parse_cpustring_all(s) = y
  BY DEF numa_parse_cpustring, numa_parse_cpustring_all, parse_cpustring, Invert
<1>5. Longs(n) * LongBits = n
  BY CpuWords
<1> HIDE DEF A, B, n, V
<1>6. Wider(n, A, V, B, V)
  <2>1. Copied(A, n) = Seen(A) /\ Copied(B, n) = Seen(B)
    BY <1>3, <1>5 DEF Copied, Seen
  <2> QED BY <1>1, <1>2, <2>1 DEF Wider
<1>7. FALSE \in BOOLEAN
  OBVIOUS
<1>8. x # NULL => y # NULL /\ x.bits \subseteq y.bits
  BY <1>1, <1>6, <1>7, LoopCovers
<1> HIDE DEF x, y
<1> QED BY <1>4, <1>8

----------------------------------------------------------------------------
(* What a list denotes *)

Exist(item, S, V, plus) ==
    \A i \in Mentioned(item) : IF plus THEN i < Cardinality(S) /\ Sorted(S)[i + 1] \in V ELSE i \in V

\* Numbers below n.
Below(V, n) == V \in SUBSET Nat /\ \A v \in V : v < n

\* The numbers of an item are taken just when they exist, and are those it denotes.
LEMMA PickedAbsolute ==
  ASSUME NEW A \in Masks, NEW item \in Items, IsNumber(item), NEW plus \in BOOLEAN, ~plus, NEW V
  PROVE  /\ Valid(item, A, plus, V) <=> Exist(item, Seen(A), V, plus)
         /\ Valid(item, A, plus, V) => /\ Chosen(item, A, plus) = Picked(item, Seen(A), plus)
                                       /\ Chosen(item, A, plus) \subseteq Seen(A) \cup V
                                       /\ Chosen(item, A, plus) # {}
<1> DEFINE S == Seen(A)
           a == item.a
           b == item.b
           hi == IF item.t = "range" THEN b ELSE a
<1>1. a \in Nat /\ b \in Nat /\ item.t \in {"nr", "range"}
  BY ItemIs DEF IsNumber
<1>2. Valid(item, A, plus, V) <=> a \in V /\ (item.t = "range" => b \in V)
  BY DEF Valid, get_nr
<1>3. Exist(item, S, V, plus) <=> a \in V /\ (item.t = "range" => b \in V)
  BY DEF Exist, Mentioned
<1>4. Chosen(item, A, plus) = IF item.t = "range" THEN {a} \cup {i \in a .. b : numa_bitmask_isbitset(A, i)} ELSE {a}
  BY DEF Chosen, Cut, get_nr
<1>5. \A i : numa_bitmask_isbitset(A, i) <=> i \in S
  BY DEF numa_bitmask_isbitset, Seen
<1>6. Picked(item, S, plus) = ((a .. hi) \cap S) \cup {a}
  BY <1>1 DEF Picked
<1> HIDE DEF S, a, b
<1>7. Chosen(item, A, plus) = ((a .. hi) \cap S) \cup {a}
  <2>1. CASE item.t = "range"
    BY <1>1, <1>4, <1>5, <2>1
  <2>2. CASE item.t = "nr"
    BY <1>1, <1>4, <2>2
  <2> QED BY <1>1, <2>1, <2>2
<1> HIDE DEF hi
<1>8. a \in V => Chosen(item, A, plus) \subseteq S \cup V /\ Chosen(item, A, plus) # {}
  BY <1>7
<1>9. /\ Valid(item, A, plus, V) <=> Exist(item, S, V, plus)
      /\ Valid(item, A, plus, V) => /\ Chosen(item, A, plus) = Picked(item, S, plus)
                                    /\ Chosen(item, A, plus) \subseteq S \cup V /\ Chosen(item, A, plus) # {}
  BY <1>2, <1>3, <1>6, <1>7, <1>8
<1> QED BY <1>9 DEF S

LEMMA PickedRelative ==
  ASSUME NEW A \in Masks, NEW item \in Items, IsNumber(item), NEW plus \in BOOLEAN, plus,
         NEW V, A.size \notin V
  PROVE  /\ Valid(item, A, plus, V) <=> Exist(item, Seen(A), V, plus)
         /\ Valid(item, A, plus, V) => /\ Chosen(item, A, plus) = Picked(item, Seen(A), plus)
                                       /\ Chosen(item, A, plus) \subseteq Seen(A)
                                       /\ Chosen(item, A, plus) # {}
<1> DEFINE S == Seen(A)
           a == item.a
           b == item.b
           c == Cardinality(S)
           q == Sorted(S)
           hi == IF item.t = "range" THEN b ELSE a
           wanted == IF a <= hi THEN {k \in a .. hi : k < c} ELSE a .. hi
           P == {q[k + 1] : k \in wanted \cup {a}}
<1>1. a \in Nat /\ b \in Nat /\ item.t \in {"nr", "range"}
  BY ItemIs DEF IsNumber
<1>2. /\ q \in [1 .. c -> S] /\ (\A i, j \in 1 .. c : i < j => q[i] < q[j]) /\ c \in Nat
      /\ \A x \in S : \E i \in 1 .. c : x = q[i]
      /\ \A nr \in Nat : IF nr < c THEN NthBit(A, nr) = q[nr + 1] ELSE NthBit(A, nr) = A.size
  <2>1. PositionsRight(A)
    BY Positions
  <2> QED BY <2>1 DEF PositionsRight, Ascends
<1>3. S \in SUBSET Nat /\ A.size \notin S
  BY SeenFinite
<1>4. Valid(item, A, plus, V) <=> NthBit(A, a) \in V /\ (item.t = "range" => NthBit(A, b) \in V)
  BY DEF Valid, get_nr
<1>5. Exist(item, S, V, plus) <=> /\ a < c /\ q[a + 1] \in V
                                  /\ item.t = "range" => b < c /\ q[b + 1] \in V
  BY DEF Exist, Mentioned
<1>6. Chosen(item, A, plus) =
        IF item.t = "range"
        THEN {NthBit(A, a)} \cup {i \in NthBit(A, a) .. NthBit(A, b) : numa_bitmask_isbitset(A, i)}
        ELSE {NthBit(A, a)}
  BY DEF Chosen, Cut, get_nr
<1>7. \A i : numa_bitmask_isbitset(A, i) <=> i \in S
  BY DEF numa_bitmask_isbitset, Seen
<1>8. Picked(item, S, plus) = P
  BY <1>1 DEF Picked
<1> HIDE DEF S, a, b, c, q
<1>9. \A nr \in Nat : nr < c /\ q[nr + 1] \in V <=> NthBit(A, nr) \in V
  <2> TAKE nr \in Nat
  <2>1. CASE nr < c
    <3>1. nr + 1 \in 1 .. c
      BY <1>2, <2>1
    <3> QED BY <1>2, <2>1, <3>1
  <2>2. CASE ~(nr < c)
    BY <1>2, <1>3, <2>2
  <2> QED BY <2>1, <2>2
<1>10. Valid(item, A, plus, V) <=> Exist(item, S, V, plus)
  BY <1>1, <1>4, <1>5, <1>9
<1>11. ASSUME a < c, item.t = "range" => b < c
       PROVE  Chosen(item, A, plus) = P /\ Chosen(item, A, plus) \subseteq S /\ Chosen(item, A, plus) # {}
  <2>1. a + 1 \in 1 .. c /\ NthBit(A, a) = q[a + 1] /\ q[a + 1] \in S
    <3>1. a + 1 \in 1 .. c
      BY <1>1, <1>2, <1>11
    <3> QED BY <1>1, <1>2, <1>11, <3>1
  <2>2. hi < c /\ hi \in Nat
    BY <1>1, <1>11
  <2>3. wanted = a .. hi
    <3> HIDE DEF hi
    <3>1. \A k \in a .. hi : k < c
      BY <1>1, <1>2, <2>2
    <3> QED BY <3>1
  <2> HIDE DEF wanted
  <2>4. CASE item.t = "nr"
    <3>1. hi = a
      BY <2>4
    <3>2. wanted = {a}
      <4> HIDE DEF hi
      <4> QED BY <1>1, <2>3, <3>1
    <3>3. P = {q[a + 1]}
      BY <3>2
    <3>4. Chosen(item, A, plus) = {q[a + 1]}
      BY <1>6, <2>1, <2>4
    <3> HIDE DEF P
    <3> QED BY <2>1, <3>3, <3>4
  <2>5. CASE item.t = "range"
    <3>1. hi = b
      BY <2>5
    <3> HIDE DEF hi
    <3>2. b + 1 \in 1 .. c /\ NthBit(A, b) = q[b + 1] /\ q[b + 1] \in S
      <4>1. b + 1 \in 1 .. c
        BY <1>1, <1>2, <1>11, <2>5
      <4> QED BY <1>1, <1>2, <1>11, <2>5, <4>1
    <3> DEFINE C == {q[a + 1]} \cup {i \in q[a + 1] .. q[b + 1] : i \in S}
    <3>3. Chosen(item, A, plus) = C
      BY <1>6, <1>7, <2>1, <2>5, <3>2
    <3>4. ASSUME NEW x \in C PROVE x \in P
      <4>1. CASE x = q[a + 1]
        BY <4>1
      <4>2. CASE x # q[a + 1]
        <5>1. x \in S /\ x \in q[a + 1] .. q[b + 1]
          BY <4>2
        <5>2. PICK i \in 1 .. c : x = q[i]
          BY <1>2, <5>1
        <5>3. q[a + 1] \in Nat /\ q[b + 1] \in Nat /\ x \in Nat
          BY <1>3, <2>1, <3>2, <5>1
        <5>4. ~(i < a + 1) /\ ~(b + 1 < i)
          <6>1. i < a + 1 => q[i] < q[a + 1]
            BY <1>2, <2>1
          <6>2. b + 1 < i => q[b + 1] < q[i]
            BY <1>2, <3>2
          <6> QED BY <5>1, <5>2, <5>3, <6>1, <6>2
        <5>5. i - 1 \in a .. b /\ (i - 1) + 1 = i
          BY <1>1, <1>2, <5>4
        <5>6. i - 1 \in wanted
          BY <2>3, <3>1, <5>5
        <5> QED BY <5>2, <5>5, <5>6
      <4> QED BY <4>1, <4>2
    <3>5. ASSUME NEW x \in P PROVE x \in C
      <4>1. PICK k \in wanted \cup {a} : x = q[k + 1]
        OBVIOUS
      <4>2. CASE k = a
        BY <4>1, <4>2
      <4>3. CASE k # a
        <5>1. k \in a .. b
          BY <2>3, <3>1, <4>1, <4>3
        <5>2. k + 1 \in 1 .. c /\ a + 1 < k + 1 /\ (k + 1 < b + 1 \/ k = b)
          BY <1>1, <1>2, <3>2, <4>3, <5>1
        <5>3. q[k + 1] \in S
          BY <1>2, <5>2
        <5>4. q[a + 1] < q[k + 1]
          BY <1>2, <2>1, <5>2
        <5>5. q[k + 1] < q[b + 1] \/ q[k + 1] = q[b + 1]
          BY <1>2, <3>2, <5>2
        <5>6. q[a + 1] \in Nat /\ q[b + 1] \in Nat /\ q[k + 1] \in Nat
          BY <1>3, <2>1, <3>2, <5>3
        <5>7. q[k + 1] \in q[a + 1] .. q[b + 1]
          BY <5>4, <5>5, <5>6
        <5> QED BY <4>1, <5>3, <5>7
      <4> QED BY <4>2, <4>3
    <3>6. C \subseteq S /\ C # {}
      BY <2>1
    <3> HIDE DEF C, P
    <3>7. C = P
      BY <3>4, <3>5
    <3> QED BY <3>3, <3>6, <3>7
  <2> QED BY <1>1, <2>4, <2>5
<1> HIDE DEF P
<1>12. /\ Valid(item, A, plus, V) <=> Exist(item, S, V, plus)
       /\ Valid(item, A, plus, V) => /\ Chosen(item, A, plus) = Picked(item, S, plus)
                                     /\ Chosen(item, A, plus) \subseteq S /\ Chosen(item, A, plus) # {}
  BY <1>5, <1>8, <1>10, <1>11
<1> QED BY <1>12 DEF S

LEMMA PickedIs ==
  ASSUME NEW A \in Masks, NEW item \in Items, IsNumber(item), NEW plus \in BOOLEAN,
         NEW V, A.size \notin V
  PROVE  /\ Valid(item, A, plus, V) <=> Exist(item, Seen(A), V, plus)
         /\ Valid(item, A, plus, V) => /\ Chosen(item, A, plus) = Picked(item, Seen(A), plus)
                                       /\ Chosen(item, A, plus) \subseteq Seen(A) \cup V
                                       /\ Chosen(item, A, plus) # {}
BY PickedAbsolute, PickedRelative

\* What a turn of the loop makes of an item that is no name.
TurnSays(T, acc, item, last, S, V, plus) ==
    LET all == item.t = "all" /\ last
        number == IsNumber(item) /\ Exist(item, S, V, plus)
    IN  /\ all => T.st = "done" /\ T.mask.bits = S
        /\ number => T.st = "go" /\ T.mask.bits = acc.mask.bits \cup Picked(item, S, plus)
        /\ ~all /\ ~number => T.st = "err"

\* A mask of n bits, of which a copy has no others.
Exact(A, n) == A \in Masks /\ A.size = n /\ Copied(A, n) = Seen(A)

\* A mask without bits beyond its size is copied whole.
LEMMA CopiedWhole ==
  ASSUME NEW n \in Nat, NEW A \in Masks, A.size = n, \A i \in A.bits : i < n
  PROVE  Exact(A, n)
<1>1. LongBits \in Nat \ {0}
  BY IntBitsAssumption DEF LongBits
<1> DEFINE h == howmany(n, LongBits)
<1>2. h \in Nat /\ n <= LongBits * h
  BY <1>1, HowMany
<1>3. Longs(n) * LongBits = LongBits * h /\ LongBits * h \in Nat
  BY <1>1, <1>2 DEF Longs
<1>4. A.bits \in SUBSET Nat
  BY DEF Masks
<1> HIDE DEF h
<1>5. \A k \in A.bits : k < Longs(n) * LongBits
  <2>1. PICK z \in Nat : z = Longs(n) * LongBits /\ n <= z
    BY <1>2, <1>3
  <2> QED BY <1>4, <2>1
<1> QED BY <1>4, <1>5 DEF Exact, Copied, Seen

LEMMA TurnDenotes ==
  ASSUME NEW n \in Nat, NEW acc \in Accs(n), acc.st = "go", NEW item \in Items,
         NEW last \in BOOLEAN, NEW A, Exact(A, n), NEW V, Below(V, n), NEW plus \in BOOLEAN, NEW names \in BOOLEAN,
         item.t # "dev" \/ ~names
  PROVE  TurnSays(Turn(acc, item, last, A, plus, V, names), acc, item, last, Seen(A), V, plus)
<1> DEFINE T == Turn(acc, item, last, A, plus, V, names)
           S == Seen(A)
<1>1. S \in SUBSET Nat /\ Copied(A, n) = S /\ A \in Masks /\ \A k \in S : k < n
  BY DEF Exact, Masks, Seen
<1>a. V \in SUBSET Nat /\ (\A k \in V : k < n) /\ A.size \notin V
  BY DEF Below, Exact
<1>2. acc.mask \in Masks /\ acc.mask.size = n /\ acc.mask.bits \in SUBSET Nat
  BY AccIs
<1>3. CASE IsNumber(item)
  <2> DEFINE X == Chosen(item, A, plus)
             ok == Valid(item, A, plus, V)
  <2>1. NumbersTaken(T, acc, ok, X)
    BY <1>1, <1>a, <1>3, TurnTakes, Zenon
  <2>2. /\ ok <=> Exist(item, S, V, plus)
        /\ ok => X = Picked(item, S, plus) /\ X \subseteq S \cup V
    BY <1>1, <1>a, <1>3, PickedIs
  <2>3. item.t # "all"
    BY <1>3 DEF IsNumber
  <2> HIDE DEF T, X, ok, S
  <2>4. CASE ok
    <3>1. T.st = "go" /\ T.mask = SetBits(acc.mask, X) /\ X \in SUBSET Nat
      BY <2>1, <2>4 DEF NumbersTaken
    <3>2. SetBits(acc.mask, X).bits = acc.mask.bits \cup {k \in X : k < n}
      BY <1>2, <3>1, SetIs
    <3>3. \A k \in X : k < n
      BY <1>1, <1>a, <2>2, <2>4
    <3>4. T.mask.bits = acc.mask.bits \cup X
      BY <3>1, <3>2, <3>3
    <3>5. T.mask.bits = acc.mask.bits \cup Picked(item, S, plus) /\ Exist(item, S, V, plus)
      BY <2>2, <2>4, <3>4
    <3>6. TurnSays(T, acc, item, last, S, V, plus)
      BY <1>3, <2>3, <3>1, <3>5, Zenon DEF TurnSays
    <3> QED BY <3>6 DEF T, S
  <2>5. CASE ~ok
    <3>1. T.st = "err"
      BY <2>1, <2>5 DEF NumbersTaken
    <3>2. TurnSays(T, acc, item, last, S, V, plus)
      BY <2>2, <2>3, <2>5, <3>1 DEF TurnSays
    <3> QED BY <3>2 DEF T, S
  <2> QED BY <2>4, <2>5
<1>4. CASE item.t \in {"junk", "open"}
  <2>1. T = [mask |-> acc.mask, st |-> "err"]
    BY <1>1, <1>4, TurnOthers
  <2>2. T.st = "err" /\ ~IsNumber(item) /\ item.t # "all"
    BY <1>4, <2>1 DEF IsNumber
  <2> HIDE DEF T, S
  <2>3. TurnSays(T, acc, item, last, S, V, plus)
    BY <2>2 DEF TurnSays
  <2> QED BY <2>3 DEF T, S
<1>5. CASE item.t = "all"
  <2> DEFINE x == copy_bitmask_to_bitmask(A, acc.mask)
  <2>1. T = IF last THEN [mask |-> x, st |-> "done"] ELSE [mask |-> acc.mask, st |-> "err"]
    BY <1>1, <1>5, TurnOthers
  <2>2. x.bits = S
    <3>1. x.bits = {k \in A.bits : k < Longs(n) * LongBits}
      BY <1>1, <1>2, CopyIs
    <3> HIDE DEF x, S
    <3> QED BY <1>1, <3>1 DEF Copied
  <2>3. ~IsNumber(item)
    BY <1>5 DEF IsNumber
  <2> HIDE DEF T, S, x
  <2>4. TurnSays(T, acc, item, last, S, V, plus)
    BY <1>5, <2>1, <2>2, <2>3 DEF TurnSays
  <2> QED BY <2>4 DEF T, S
<1>6. CASE item.t = "dev"
  <2>1. T = [acc EXCEPT !.st = "err"]
    BY <1>6 DEF Turn
  <2>2. T.st = "err" /\ ~IsNumber(item) /\ item.t # "all"
    BY <1>6, <2>1, AccIs DEF IsNumber
  <2> HIDE DEF T, S
  <2>3. TurnSays(T, acc, item, last, S, V, plus)
    BY <2>2 DEF TurnSays
  <2> QED BY <2>3 DEF T, S
<1>7. item.t \in {"junk", "open", "all", "dev"} \/ IsNumber(item)
  BY ItemIs DEF IsNumber
<1> QED BY <1>3, <1>4, <1>5, <1>6, <1>7

\* Item j of a list can be taken, with S allowed and V valid.
Accepted(s, j, S, V) ==
    \/ s.items[j].t = "all" /\ j = Len(s.items) /\ s.ends
    \/ IsNumber(s.items[j]) /\ Exist(s.items[j], S, V, s.plus)

\* What the loop has after k items.
Denotes(acc, s, S, V, k) ==
    /\ acc.st = "err" => \E j \in 1 .. k : ~Accepted(s, j, S, V)
    /\ acc.st # "err" => \A j \in 1 .. k : Accepted(s, j, S, V)
    /\ acc.st = "go" => /\ \A j \in 1 .. k : IsNumber(s.items[j])
                        /\ acc.mask.bits = UNION {Picked(s.items[j], S, s.plus) : j \in 1 .. k}
    /\ acc.st = "done" => k = Len(s.items) /\ s.items[k].t = "all" /\ s.ends /\ acc.mask.bits = S

\* The k-th item is followed by the end of the string.
IsLast(s, k, last) == last = (k = Len(s.items) /\ s.ends)

LEMMA DenotesStep ==
  ASSUME NEW n \in Nat, NEW s \in Lists, NEW names \in BOOLEAN, ~Named(s) \/ ~names,
         NEW A, Exact(A, n), NEW V, Below(V, n),
         NEW k \in 1 .. Len(s.items), NEW acc \in Accs(n), Denotes(acc, s, Seen(A), V, k - 1),
         NEW last \in BOOLEAN, IsLast(s, k, last)
  PROVE  Denotes(Turn(acc, s.items[k], last, A, s.plus, V, names), s, Seen(A), V, k)
<1> DEFINE T == Turn(acc, s.items[k], last, A, s.plus, V, names)
           S == Seen(A)
           l == Len(s.items)
           item == s.items[k]
<1>1. l \in Nat /\ item \in Items /\ s.plus \in BOOLEAN /\ s.ends \in BOOLEAN
  BY ListIs
<1>2. item.t # "dev" \/ ~names
  BY ListIs DEF Named
<1>3. /\ k \in Int /\ k \in 1 .. k /\ \A j : j \in 1 .. k <=> (j \in 1 .. k - 1 \/ j = k)
      /\ k - 1 # l
  BY <1>1
<1>4. acc.st \in {"go", "done", "err"}
  BY AccIs
<1>5. CASE acc.st = "err"
  <2>1. T = acc
    BY <1>5 DEF Turn
  <2>2. \E j \in 1 .. k : ~Accepted(s, j, S, V)
    BY <1>3, <1>5 DEF Denotes
  <2> HIDE DEF T, S
  <2>3. Denotes(T, s, S, V, k)
    BY <1>5, <2>1, <2>2 DEF Denotes
  <2> QED BY <2>3 DEF T, S
<1>6. CASE acc.st = "done"
  BY <1>3, <1>6 DEF Denotes
<1>7. CASE acc.st = "go"
  <2>1. TurnSays(T, acc, item, last, S, V, s.plus)
    <3>1. PICK i \in Items, plus \in BOOLEAN : i = item /\ plus = s.plus /\ (i.t # "dev" \/ ~names)
      BY <1>1, <1>2
    <3>2. TurnSays(Turn(acc, i, last, A, plus, V, names), acc, i, last, Seen(A), V, plus)
      BY <1>7, <3>1, TurnDenotes, Zenon
    <3> QED BY <3>1, <3>2
  <2>2. /\ \A j \in 1 .. k - 1 : Accepted(s, j, S, V)
        /\ \A j \in 1 .. k - 1 : IsNumber(s.items[j])
        /\ acc.mask.bits = UNION {Picked(s.items[j], S, s.plus) : j \in 1 .. k - 1}
    BY <1>7 DEF Denotes
  <2> HIDE DEF T, S
  <2>3. CASE item.t = "all" /\ last
    <3>1. T.st = "done" /\ T.mask.bits = S
      BY <2>1, <2>3 DEF TurnSays
    <3>2. Accepted(s, k, S, V) /\ k = l /\ s.ends
      BY <2>3 DEF Accepted, IsLast
    <3>3. \A j \in 1 .. k : Accepted(s, j, S, V)
      BY <1>3, <2>2, <3>2
    <3>4. Denotes(T, s, S, V, k)
      BY <2>3, <3>1, <3>2, <3>3 DEF Denotes
    <3> QED BY <3>4 DEF T, S
  <2>4. CASE IsNumber(item) /\ Exist(item, S, V, s.plus)
    <3>1. T.st = "go" /\ T.mask.bits = acc.mask.bits \cup Picked(item, S, s.plus)
      BY <2>1, <2>4 DEF TurnSays
    <3>2. Accepted(s, k, S, V)
      BY <2>4 DEF Accepted
    <3>3. \A j \in 1 .. k : Accepted(s, j, S, V) /\ IsNumber(s.items[j])
      BY <1>3, <2>2, <2>4, <3>2
    <3>4. T.mask.bits = UNION {Picked(s.items[j], S, s.plus) : j \in 1 .. k}
      <4> DEFINE P(j) == Picked(s.items[j], S, s.plus)
      <4>1. T.mask.bits = (UNION {P(j) : j \in 1 .. k - 1}) \cup P(k)
        BY <2>2, <3>1
      <4> HIDE DEF P
      <4>2. (UNION {P(j) : j \in 1 .. k - 1}) \cup P(k) = UNION {P(j) : j \in 1 .. k}
        BY <1>3
      <4>3. T.mask.bits = UNION {P(j) : j \in 1 .. k}
        BY <4>1, <4>2
      <4> QED BY <4>3 DEF P
    <3>5. Denotes(T, s, S, V, k)
      BY <3>1, <3>3, <3>4 DEF Denotes
    <3> QED BY <3>5 DEF T, S
  <2>5. CASE ~(item.t = "all" /\ last) /\ ~(IsNumber(item) /\ Exist(item, S, V, s.plus))
    <3>1. T.st = "err"
      BY <2>1, <2>5 DEF TurnSays
    <3>2. ~Accepted(s, k, S, V)
      BY <2>5 DEF Accepted, IsLast
    <3>3. Denotes(T, s, S, V, k)
      BY <1>3, <3>1, <3>2 DEF Denotes
    <3> QED BY <3>3 DEF T, S
  <2> QED BY <2>3, <2>4, <2>5
<1> QED BY <1>4, <1>5, <1>6, <1>7

\* What a loop returns, with S allowed and V valid.
Says(m, s, S, V) ==
    IF WellFormed(s, S, V) THEN m # NULL /\ m.bits = Denoted(s, S) ELSE m = NULL

\* A list is well formed if it ends and each item can be taken.
LEMMA WellFormedIs ==
  ASSUME NEW s \in Lists, NEW S, NEW V
  PROVE  WellFormed(s, S, V) <=> s.ends /\ \A j \in 1 .. Len(s.items) : Accepted(s, j, S, V)
<1>1. DOMAIN s.items = 1 .. Len(s.items)
  BY ListIs
<1>2. WellFormed(s, S, V) <=>
        s.ends /\ \A j \in 1 .. Len(s.items) :
                     \/ s.items[j].t = "all" /\ j = Len(s.items)
                     \/ s.items[j].t \in {"nr", "range"} /\ Exist(s.items[j], S, V, s.plus)
  BY <1>1 DEF WellFormed, Exist
<1> QED BY <1>2 DEF Accepted, IsNumber

LEMMA LoopDenotes ==
  ASSUME numa_num_task_nodes \in Int, NEW s \in Lists, s.items # <<>>, NEW names \in BOOLEAN, ~Named(s) \/ ~names,
         NEW empty \in Masks, empty.bits = {}, NEW A, Exact(A, empty.size), NEW V, Below(V, empty.size)
  PROVE  Says(Loop(s, empty, A, V, names), s, Seen(A), V)
<1> DEFINE l == Len(s.items)
           n == empty.size
           S == Seen(A)
           L == Loop(s, empty, A, V, names)
<1>0. /\ n \in Nat /\ l \in Nat /\ s.plus \in BOOLEAN /\ s.ends \in BOOLEAN /\ S \in SUBSET Nat
      /\ DOMAIN s.items = 1 .. l /\ l # 0 /\ A \in Masks /\ V \in SUBSET Nat /\ Below(V, n)
  <2>1. s.items \in Seq(Items) /\ n \in Nat
    BY ListIs DEF Masks
  <2>2. l # 0
    BY <2>1
  <2> QED BY <2>1, <2>2, ListIs, SeenFinite DEF Exact, Below
<1>1. PICK g : LoopOf(g, s, empty, A, V, names) /\ L = Ended(g[l], s)
  BY <1>0, LoopIs
<1>2. \A k \in 0 .. l : g[k] \in Accs(n)
  BY <1>1 DEF LoopOf
<1> DEFINE G == {k \in 0 .. l : Denotes(g[k], s, S, V, k)}
<1>3. 0 \in G
  <2>1. g[0] = [mask |-> empty, st |-> "go"]
    BY <1>1 DEF LoopOf
  <2>2. g[0].st = "go" /\ g[0].mask.bits = {}
    BY <2>1
  <2>3. 1 .. 0 = {}
    OBVIOUS
  <2>4. Denotes(g[0], s, S, V, 0)
    <3>1. UNION {Picked(s.items[j], S, s.plus) : j \in 1 .. 0} = {}
      BY <2>3
    <3> QED BY <2>2, <2>3, <3>1 DEF Denotes
  <2> HIDE DEF S
  <2> QED BY <1>0, <2>4
<1>4. ASSUME NEW k \in 1 .. l, k - 1 \in G PROVE k \in G
  <2>1. k \in 0 .. l /\ k - 1 \in 0 .. l /\ Denotes(g[k - 1], s, S, V, k - 1)
    BY <1>0, <1>4
  <2>2. PICK last \in BOOLEAN : last = (k = l /\ s.ends)
    BY <1>0
  <2>3. g[k] = Turn(g[k - 1], s.items[k], last, A, s.plus, V, names)
    BY <1>0, <1>1, <2>2 DEF LoopOf
  <2>4. g[k - 1] \in Accs(n)
    BY <1>2, <2>1
  <2>5. Denotes(g[k], s, S, V, k)
    <3>1. PICK a \in Accs(n) : a = g[k - 1] /\ Denotes(a, s, S, V, k - 1)
      BY <2>1, <2>4
    <3>2. IsLast(s, k, last)
      BY <2>2 DEF IsLast
    <3>3. Denotes(Turn(a, s.items[k], last, A, s.plus, V, names), s, Seen(A), V, k)
      BY <1>0, <3>1, <3>2, DenotesStep, Zenon
    <3> HIDE DEF S
    <3> QED BY <2>3, <3>1, <3>3 DEF S
  <2> QED BY <2>1, <2>5
<1> HIDE DEF G
<1>5. \A k \in 0 .. l : k \in G
  BY <1>0, <1>3, <1>4, UpTo
<1>6. l \in 0 .. l /\ l \in 1 .. l
  BY <1>0
<1>7. PICK a : a = g[l] /\ a \in Accs(n) /\ Denotes(a, s, S, V, l)
  BY <1>2, <1>5, <1>6 DEF G
<1>8. /\ L = Ended(a, s)
      /\ IF a.st = "err" \/ (a.st = "go" /\ ~s.ends) THEN L = NULL ELSE L = a.mask /\ L # NULL
  <2>1. L = Ended(a, s)
    BY <1>1, <1>7
  <2>2. IF a.st = "err" \/ (a.st = "go" /\ ~s.ends) THEN Ended(a, s) = NULL
        ELSE Ended(a, s) = a.mask /\ Ended(a, s) # NULL
    BY <1>0, <1>7, EndedIs
  <2> HIDE DEF L
  <2> QED BY <2>1, <2>2
<1>9. WellFormed(s, S, V) <=> s.ends /\ \A j \in 1 .. l : Accepted(s, j, S, V)
  BY WellFormedIs
<1>10. Last(s.items) = s.items[l]
  BY DEF Last
<1>11. a.st \in {"go", "done", "err"}
  BY <1>0, <1>7, AccIs
<1> HIDE DEF L, S, l, n
<1>12. Says(L, s, S, V)
  <2>1. CASE a.st = "err"
    BY <1>7, <1>8, <1>9, <2>1 DEF Denotes, Says
  <2>2. CASE a.st = "done"
    <3>1. s.items[l].t = "all" /\ s.ends /\ a.mask.bits = S /\ \A j \in 1 .. l : Accepted(s, j, S, V)
      BY <1>7, <2>2 DEF Denotes
    <3>2. WellFormed(s, S, V) /\ L = a.mask /\ L # NULL
      BY <1>8, <1>9, <2>2, <3>1
    <3>3. Denoted(s, S) = S
      BY <1>10, <3>1 DEF Denoted
    <3> QED BY <3>1, <3>2, <3>3 DEF Says
  <2>3. CASE a.st = "go" /\ ~s.ends
    BY <1>8, <1>9, <2>3 DEF Says
  <2>4. CASE a.st = "go" /\ s.ends
    <3>1. /\ IsNumber(s.items[l]) /\ \A j \in 1 .. l : Accepted(s, j, S, V)
          /\ a.mask.bits = UNION {Picked(s.items[j], S, s.plus) : j \in 1 .. l}
      BY <1>6, <1>7, <2>4 DEF Denotes
    <3>2. WellFormed(s, S, V) /\ L = a.mask /\ L # NULL
      BY <1>8, <1>9, <2>4, <3>1
    <3>3. Denoted(s, S) = UNION {Picked(s.items[j], S, s.plus) : j \in 1 .. l}
      <4>1. s.items[l].t # "all"
        BY <3>1 DEF IsNumber
      <4> QED BY <1>0, <1>10, <4>1 DEF Denoted
    <3>4. L.bits = Denoted(s, S)
      BY <3>1, <3>2, <3>3
    <3> QED BY <3>2, <3>4 DEF Says
  <2> QED BY <1>11, <2>1, <2>2, <2>3, <2>4
<1> QED BY <1>12 DEF L, S

\* What a loop that goes on, or has ended well, has set.
Within(acc, k, S) == acc.st # "err" => acc.mask.bits \subseteq S /\ (S # {} /\ k # 0 => acc.mask.bits # {})

\* Only if the first nodes are allowed does the node of a device have to be.
OfTask(item, S) == item.t = "dev" => S = 0 .. numa_num_task_nodes - 1

LEMMA TurnWithin ==
  ASSUME numa_num_task_nodes \in Int, NEW n \in Nat, NEW acc \in Accs(n), acc.st = "go",
         NEW item \in Items,
         NEW last \in BOOLEAN, NEW A, Exact(A, n),
         acc.mask.bits \subseteq Seen(A), NEW plus \in BOOLEAN, NEW names \in BOOLEAN, NEW k,
         OfTask(item, Seen(A))
  PROVE  Within(Turn(acc, item, last, A, plus, Seen(A), names), k, Seen(A))
<1> DEFINE T == Turn(acc, item, last, A, plus, Seen(A), names)
           S == Seen(A)
<1>0. A \in Masks /\ A.size \notin Seen(A) /\ Below(Seen(A), n)
  BY SeenFinite DEF Exact, Below, Seen
<1>1. CASE item.t # "dev"
  <2>1. TurnSays(T, acc, item, last, S, S, plus)
    <3>1. Below(Seen(A), n) /\ (item.t # "dev" \/ ~names)
      BY <1>0, <1>1
    <3> QED BY <3>1, TurnDenotes, Zenon
  <2>2. IsNumber(item) /\ Exist(item, S, S, plus) => Picked(item, S, plus) \subseteq S /\ Picked(item, S, plus) # {}
    BY <1>0, PickedIs
  <2> HIDE DEF T, S
  <2>3. acc.mask.bits \subseteq S
    BY DEF S
  <2>4. CASE item.t = "all" /\ last
    <3>1. T.mask.bits = S
      BY <2>1, <2>4 DEF TurnSays
    <3>2. Within(T, k, S)
      BY <3>1 DEF Within
    <3> QED BY <3>2 DEF T, S
  <2>5. CASE IsNumber(item) /\ Exist(item, S, S, plus)
    <3>1. T.mask.bits = acc.mask.bits \cup Picked(item, S, plus)
      BY <2>1, <2>5, Zenon DEF TurnSays
    <3>2. PICK P : P = Picked(item, S, plus) /\ P \subseteq S /\ P # {}
      BY <2>2, <2>5
    <3>3. T.mask.bits \subseteq S /\ T.mask.bits # {}
      BY <2>3, <3>1, <3>2
    <3>4. Within(T, k, S)
      BY <3>3 DEF Within
    <3> QED BY <3>4 DEF T, S
  <2>6. CASE ~(item.t = "all" /\ last) /\ ~(IsNumber(item) /\ Exist(item, S, S, plus))
    <3>1. T.st = "err"
      BY <2>1, <2>6 DEF TurnSays
    <3>2. Within(T, k, S)
      BY <3>1 DEF Within
    <3> QED BY <3>2 DEF T, S
  <2> QED BY <2>4, <2>5, <2>6
<1>2. CASE item.t = "dev"
  <2>1. PICK c, X : DeviceAnswer(item.how, item.id, c, X)
    BY DeviceAnswers
  <2> DEFINE ok == names /\ (last \/ item.how = "pci") /\ c >= 0
  <2>2. DeviceTaken(T, acc, ok, X)
    BY <1>0, <1>2, <2>1, TurnDevice, Zenon
  <2>3. X \in SUBSET Nat /\ (ok => X # {} /\ X \subseteq S)
    BY <1>2, <2>1 DEF DeviceAnswer, OfTask
  <2>4. acc.mask \in Masks /\ acc.mask.size = n /\ acc.mask.bits \subseteq S /\ \A i \in S : i < n
    BY AccIs DEF Seen, Exact
  <2> HIDE DEF T, ok, S
  <2>5. CASE ok
    <3>1. T.mask = SetBits(acc.mask, X)
      BY <2>2, <2>5 DEF DeviceTaken
    <3>2. T.mask.bits = acc.mask.bits \cup {i \in X : i < n}
      BY <2>3, <2>4, <3>1, SetIs
    <3>3. {i \in X : i < n} = X
      BY <2>3, <2>4, <2>5
    <3>4. T.mask.bits \subseteq S /\ T.mask.bits # {}
      BY <2>3, <2>4, <2>5, <3>2, <3>3
    <3>5. Within(T, k, S)
      BY <3>4 DEF Within
    <3> QED BY <3>5 DEF T, S
  <2>6. CASE ~ok
    <3>1. T.st = "err"
      BY <2>2, <2>6 DEF DeviceTaken
    <3>2. Within(T, k, S)
      BY <3>1 DEF Within
    <3> QED BY <3>2 DEF T, S
  <2> QED BY <2>5, <2>6
<1> QED BY <1>1, <1>2

LEMMA LoopWithin ==
  ASSUME numa_num_task_nodes \in Int, NEW s \in Lists, s.items # <<>>, NEW names \in BOOLEAN,
         NEW empty \in Masks, empty.bits = {}, NEW A, Exact(A, empty.size),
         Named(s) => Seen(A) = 0 .. numa_num_task_nodes - 1,
         Loop(s, empty, A, Seen(A), names) # NULL
  PROVE  /\ Loop(s, empty, A, Seen(A), names).bits \subseteq Seen(A)
         /\ Seen(A) # {} => Loop(s, empty, A, Seen(A), names).bits # {}
<1> DEFINE l == Len(s.items)
           n == empty.size
           S == Seen(A)
           L == Loop(s, empty, A, S, names)
<1>0. /\ n \in Nat /\ l \in Nat /\ s.plus \in BOOLEAN /\ s.ends \in BOOLEAN /\ S \in SUBSET Nat
      /\ DOMAIN s.items = 1 .. l /\ l # 0 /\ A \in Masks
  <2>1. s.items \in Seq(Items) /\ n \in Nat
    BY ListIs DEF Masks
  <2>2. l # 0
    BY <2>1
  <2> QED BY <2>1, <2>2, ListIs, SeenFinite DEF Exact
<1>1. PICK g : LoopOf(g, s, empty, A, S, names) /\ L = Ended(g[l], s)
  BY <1>0, LoopIs
<1>2. \A k \in 0 .. l : g[k] \in Accs(n)
  BY <1>1 DEF LoopOf
<1> DEFINE G == {k \in 0 .. l : Within(g[k], k, S)}
<1>3. 0 \in G
  <2>1. g[0] = [mask |-> empty, st |-> "go"]
    BY <1>1 DEF LoopOf
  <2>2. g[0].mask.bits = {}
    BY <2>1
  <2>3. Within(g[0], 0, S)
    BY <2>2 DEF Within
  <2> HIDE DEF S
  <2> QED BY <1>0, <2>3
<1>4. ASSUME NEW k \in 1 .. l, k - 1 \in G PROVE k \in G
  <2>1. k \in 0 .. l /\ k - 1 \in 0 .. l /\ Within(g[k - 1], k - 1, S)
    BY <1>0, <1>4
  <2>2. PICK last \in BOOLEAN : last = (k = l /\ s.ends)
    BY <1>0
  <2>3. g[k] = Turn(g[k - 1], s.items[k], last, A, s.plus, S, names)
    BY <1>0, <1>1, <2>2 DEF LoopOf
  <2>4. g[k - 1] \in Accs(n) /\ s.items[k] \in Items
    BY <1>2, <2>1, ListIs
  <2>5. OfTask(s.items[k], S)
    BY <1>0 DEF Named, OfTask
  <2>6. CASE g[k - 1].st # "go"
    <3>1. g[k] = g[k - 1] /\ g[k - 1].st \in {"go", "done", "err"}
      BY <1>0, <2>3, <2>4, <2>6, AccIs DEF Turn
    <3>2. k - 1 # 0 
      <4>1. g[0].st = "go"
        BY <1>1 DEF LoopOf
      <4> QED BY <2>6, <4>1
    <3> HIDE DEF S
    <3>3. Within(g[k], k, S)
      BY <2>1, <3>1, <3>2 DEF Within
    <3> QED BY <2>1, <3>3
  <2>7. CASE g[k - 1].st = "go"
    <3>1. g[k - 1].mask.bits \subseteq S
      BY <2>1, <2>7 DEF Within
    <3>2. PICK a \in Accs(n), i \in Items, plus \in BOOLEAN :
            /\ a = g[k - 1] /\ i = s.items[k] /\ plus = s.plus
            /\ a.st = "go" /\ a.mask.bits \subseteq S /\ OfTask(i, S)
      BY <1>0, <2>4, <2>5, <2>7, <3>1
    <3>3. Within(Turn(a, i, last, A, plus, Seen(A), names), k, Seen(A))
      BY <1>0, <3>2, TurnWithin, Zenon
    <3> HIDE DEF S
    <3>4. Within(g[k], k, S)
      BY <2>3, <3>2, <3>3 DEF S
    <3> QED BY <2>1, <3>4
  <2> QED BY <2>6, <2>7
<1> HIDE DEF G
<1>5. \A k \in 0 .. l : k \in G
  BY <1>0, <1>3, <1>4, UpTo
<1>6. l \in 0 .. l
  BY <1>0
<1>7. PICK a : a = g[l] /\ a \in Accs(n) /\ Within(a, l, S)
  BY <1>2, <1>5, <1>6 DEF G
<1>8. L # NULL => a.st # "err" /\ L = a.mask
  <2>1. L = Ended(a, s)
    BY <1>1, <1>7
  <2>2. IF a.st = "err" \/ (a.st = "go" /\ ~s.ends) THEN Ended(a, s) = NULL
        ELSE Ended(a, s) = a.mask /\ Ended(a, s) # NULL
    BY <1>0, <1>7, EndedIs
  <2> HIDE DEF L
  <2> QED BY <2>1, <2>2
<1> HIDE DEF L, S, l, n
<1>9. L # NULL => L.bits \subseteq S /\ (S # {} => L.bits # {})
  BY <1>0, <1>7, <1>8 DEF Within
<1> QED BY <1>9 DEF L, S

\* What the loop is given, by the constructor.
LEMMA NodesGiven ==
  ASSUME CallInv, MeasureInv, MasksSized, Ready, told.status # None
  PROVE  /\ numa_num_task_nodes \in Int /\ lib.numa_all_nodes_ptr \in Masks
         /\ allocate_nodemask \in Masks /\ allocate_nodemask.bits = {}
         /\ allocate_nodemask.size = lib.nodemask_sz
         /\ Exact(lib.numa_all_nodes_ptr, allocate_nodemask.size)
<1>1. lib.numa_all_nodes_ptr \in Masks /\ lib.nodemask_sz \in Nat /\ numa_num_task_nodes \in Int
  BY DEF CallInv, Typed, LibType, numa_num_task_nodes
<1>2. allocate_nodemask = [size |-> lib.nodemask_sz, bits |-> {}] /\ allocate_nodemask \in Masks
  BY <1>1, NewMask DEF allocate_nodemask
<1>3. lib.numa_all_nodes_ptr.size = lib.nodemask_sz /\ \A i \in lib.numa_all_nodes_ptr.bits : i < lib.nodemask_sz
  BY DEF MasksSized, Ready
<1> QED BY <1>1, <1>2, <1>3, CopiedWhole

\* What the loop says the parser returns, turned over or not.
LEMMA SaysDenotes ==
  ASSUME NEW s, NEW L, NEW m, NEW S, NEW V, Says(L, s, S, V), (m # NULL) = (L # NULL), ~s.not => m = L
  PROVE  ListDenotes(s, m, S, V)
<1>1. WellFormed(s, S, V) \in BOOLEAN
  BY DEF WellFormed
<1> DEFINE w == WellFormed(s, S, V)
           d == Denoted(s, S)
<1>2. IF w THEN L # NULL /\ L.bits = d ELSE L = NULL
  BY DEF Says
<1> HIDE DEF w, d
<1>3. (m # NULL) <=> w
  BY <1>2
<1>4. (m # NULL) = w
  <2>1. CASE w
    BY <1>1, <1>3, <2>1 DEF w
  <2>2. CASE ~w
    BY <1>1, <1>3, <2>2 DEF w
  <2> QED BY <2>1, <2>2
<1>5. m # NULL /\ ~s.not => m.bits = d
  BY <1>2, <1>3
<1> QED BY <1>4, <1>5 DEF ListDenotes, w, d

LEMMA NodesDenoted ==
  ASSUME CallInv, MeasureInv, MasksSized, Ready, told.status # None, NEW s \in Lists, s.items # <<>>
  PROVE  LET m == numa_parse_nodestring(s)
         IN  /\ Named(s) \/ ListDenotes(s, m, Allowed, Allowed)
             /\ ExceptDenotes(s, m) /\ DeviceAllowed(s, m)
<1> DEFINE A == lib.numa_all_nodes_ptr
           e == allocate_nodemask
           S == Seen(A)
           k == numa_num_configured_nodes
           L == Loop(s, e, A, S, TRUE)
           m == numa_parse_nodestring(s)
<1>1. PICK names \in BOOLEAN : names = TRUE
  OBVIOUS
<1>2. /\ numa_num_task_nodes \in Int /\ A \in Masks /\ e \in Masks /\ e.bits = {} /\ e.size = lib.nodemask_sz
      /\ Exact(A, e.size) /\ Below(S, e.size)
  BY NodesGiven, SeenFinite DEF Below, Exact, Seen
<1>3. s.not \in BOOLEAN
  BY ListIs
<1>4. m = Invert(L, s.not, k)
  BY DEF numa_parse_nodestring, parse_nodestring
<1>5. ~s.not => m = L
  BY <1>3, <1>4 DEF Invert
<1>6. (m # NULL) = (L # NULL)
  <2>1. L # NULL => Invert(L, TRUE, k) # NULL
    <3>1. L = NULL \/ L \in Masks
      <4>1. S \in SUBSET Nat
        BY <1>2, SeenFinite
      <4> HIDE DEF S
      <4> QED BY <1>1, <1>2, <4>1, LoopTyped
    <3> HIDE DEF L, k
    <3> QED BY <3>1, InvertNotNull
  <2> HIDE DEF L, k
  <2> QED BY <1>3, <1>4, <2>1 DEF Invert
<1>7. Allowed = S
  BY DEF Allowed
<1> HIDE DEF A, e
<1>8. ~Named(s) => Says(L, s, S, S)
  BY <1>1, <1>2, LoopDenotes
<1>9. L # NULL /\ (Named(s) => S = 0 .. numa_num_task_nodes - 1) => L.bits \subseteq S /\ (S # {} => L.bits # {})
  BY <1>1, <1>2, LoopWithin
<1>10. L # NULL => L \in Masks /\ L.size = e.size
  <2>1. S \in SUBSET Nat
    BY <1>2, SeenFinite
  <2> HIDE DEF S
  <2> QED BY <1>1, <1>2, <2>1, LoopTyped
<1> HIDE DEF L, m, S, k
<1>11. Named(s) \/ ListDenotes(s, m, S, S)
  <2> SUFFICES ASSUME ~Named(s) PROVE ListDenotes(s, m, S, S)
    OBVIOUS
  <2> QED BY <1>5, <1>6, <1>8, SaysDenotes
<1>12. DeviceAllowed(s, m)
  <2> SUFFICES ASSUME lib.numprocnode > 0, S = 0 .. numa_num_task_nodes - 1, Named(s), ~s.not, m # NULL
               PROVE  m.bits # {} /\ m.bits \subseteq S
    BY <1>7 DEF DeviceAllowed
  <2>1. S # {}
    <3>1. 0 \in S
      BY <1>2 DEF numa_num_task_nodes
    <3> QED BY <3>1
  <2> QED BY <1>5, <1>6, <1>9, <2>1
<1>13. ExceptDenotes(s, m)
  <2> DEFINE D == Denoted(s, S)
             N == told.nodes.nodes
             top == numa_max_node
  <2> SUFFICES ASSUME Measured, N = 0 .. top, s.not, ~Named(s), m # NULL
               PROVE  m.bits = N \ D
    BY <1>7 DEF ExceptDenotes
  <2>1. L # NULL /\ L.bits = D /\ L \in Masks /\ L.size = lib.nodemask_sz
    BY <1>2, <1>6, <1>8, <1>10 DEF Says
  <2>2. told.nodes # None
    BY DEF Measured
  <2>3. k = Cardinality(N) /\ \A i \in N : i < lib.nodemask_sz
    BY <2>2, NodesCounted DEF k
  <2>4. top \in Int /\ top >= -1 /\ k = top + 1
    <3>1. Sound(told.nodes) /\ top = Max(N) /\ top \in Int
      BY <2>2 DEF MeasureInv, NodesFit, NodesListed, Ready, CallInv, Typed, LibType, numa_max_node
    <3>2. N # {} 
      BY <3>1, SoundIs
    <3>3. top >= 0
      BY <3>1, <3>2
    <3> QED BY <2>3, <3>1, <3>3, CountBelow
  <2>5. D \subseteq N
    <3>1. D \subseteq S
      BY <1>9, <2>1
    <3>2. S \subseteq Seen(lib.numa_possible_nodes_ptr)
      BY DEF MeasureInv, Ready, PossibleCoversAllowed, S, A
    <3>3. Seen(lib.numa_possible_nodes_ptr) \subseteq 0 .. top
      BY DEF MasksSized, Ready
    <3> HIDE DEF D, N, top
    <3> QED BY <3>1, <3>2, <3>3
  <2>6. k - 1 = top /\ k \in Int
    BY <2>4
  <2>7. m.bits = (D \ (0 .. top)) \cup {j \in 0 .. top : j < lib.nodemask_sz /\ j \notin D}
    <3>1. m = Invert(L, TRUE, k)
      BY <1>4
    <3>2. Invert(L, TRUE, k).bits = (L.bits \ (0 .. k - 1)) \cup {j \in 0 .. k - 1 : j < L.size /\ j \notin L.bits}
      BY <2>1, <2>6, InvertIs
    <3> HIDE DEF D, top
    <3> QED BY <2>1, <2>6, <3>1, <3>2
  <2> HIDE DEF D, N, top
  <2> QED BY <2>3, <2>5, <2>7
<1> QED BY <1>7, <1>11, <1>12, <1>13 DEF m

LEMMA CpusDenoted ==
  ASSUME CallInv, MeasureInv, MasksSized, Ready, told.status # None, NEW s \in Lists, s.items # <<>>
  PROVE  ListDenotes(s, numa_parse_cpustring(s), AllowedCpus, ConfiguredCpus)
<1> DEFINE A == lib.numa_all_cpus_ptr
           e == allocate_cpumask
           S == Seen(A)
           V == 0 .. numa_num_configured_cpus - 1
           k == numa_num_configured_cpus
           L == Loop(s, e, A, V, FALSE)
           c == numa_parse_cpustring(s)
<1>1. PICK names \in BOOLEAN : names = FALSE
  OBVIOUS
<1>2. /\ numa_num_task_nodes \in Int /\ A \in Masks /\ e \in Masks /\ e.bits = {} /\ e.size = lib.cpumask_sz
      /\ Below(V, e.size) /\ k \in Int /\ V \in SUBSET Nat
  <2>1. /\ numa_num_task_nodes \in Int /\ A \in Masks /\ lib.cpumask_sz \in Nat
        /\ lib.maxconfiguredcpu \in Int
    BY DEF CallInv, Typed, LibType, numa_num_task_nodes
  <2>2. e \in Masks /\ e.bits = {} /\ e.size = lib.cpumask_sz
    BY <2>1, NewMask DEF allocate_cpumask
  <2>3. k <= lib.cpumask_sz
    <3>1. PICK m \in Machines : m.cpuids = sys.cpuids /\ hicpu = m.nconf - 1
      BY DEF MeasureInv, CpusFit, CpusCounted, CpusSized, NodesListed, Ready
    <3>2. m.nconf <= lib.cpumask_sz
      BY <3>1 DEF MeasureInv, CpusFit, CpusCounted, CpusSized, NodesListed, Ready
    <3>3. m.nconf \in Int
      <4>1. m \in Machine(m.nodes)
        BY LibInitAssumption, SoundIs
      <4> QED BY <4>1 DEF Machine
    <3> QED BY <2>1, <3>1, <3>2, <3>3 DEF hicpu, numa_num_configured_cpus
  <2>4. k \in Int
    BY <2>1 DEF numa_num_configured_cpus
  <2>5. V \in SUBSET Nat /\ \A v \in V : v < lib.cpumask_sz
    BY <2>1, <2>3, <2>4
  <2> HIDE DEF V, k, e, A
  <2> QED BY <2>1, <2>2, <2>4, <2>5 DEF Below
<1>3. Exact(A, e.size)
  <2>1. Longs(lib.cpumask_sz) * LongBits = lib.cpumask_sz
    BY CpuWords
  <2>2. A.size = lib.cpumask_sz
    BY DEF MasksSized, Ready
  <2>3. Copied(A, lib.cpumask_sz) = Seen(A)
    BY <2>1, <2>2 DEF Copied, Seen
  <2> HIDE DEF A, e
  <2> QED BY <1>2, <2>2, <2>3 DEF Exact
<1>4. s.not \in BOOLEAN
  BY ListIs
<1>5. c = Invert(L, s.not, k)
  BY DEF numa_parse_cpustring, parse_cpustring
<1>6. ~s.not => c = L
  BY <1>4, <1>5 DEF Invert
<1>7. AllowedCpus = S /\ ConfiguredCpus = V
  BY DEF AllowedCpus, ConfiguredCpus
<1> HIDE DEF A, e, V
<1>8. Says(L, s, S, V)
  BY <1>1, <1>2, <1>3, LoopDenotes
<1>9. L = NULL \/ L \in Masks
  BY <1>1, <1>2, LoopTyped
<1> HIDE DEF L, S, c
<1>10. L # NULL => Invert(L, TRUE, k) # NULL
  <2> HIDE DEF k
  <2> QED BY <1>9, InvertNotNull
<1>11. (c # NULL) = (L # NULL)
  BY <1>4, <1>5, <1>10 DEF Invert
<1>12. ListDenotes(s, c, S, V)
  BY <1>6, <1>8, <1>11, SaysDenotes
<1> QED BY <1>7, <1>12 DEF c

\* On ordinary machines, for every list of any length: a node list without names is accepted just
\* when its numbers are allowed nodes and a CPU list just when its numbers are configured CPUs
\* (positions of allowed ones that are, with +), and both denote those numbers and the allowed
\* ones of their ranges; a CPU list and the one with its ! turned over part the CPUs; an _all form
\* covers the other.  For ! in a node list the nodes have to be numbered without
\* holes, and for a device to name allowed nodes the allowed ones have to be the
\* first (libnuma.c:2082-2337, sysfs.c:58-66): elsewhere the code does something else.
THEOREM ListsAreRight == ASSUME Ordinary PROVE Spec => []ListsRight
<1>1. CallInv /\ MeasureInv /\ MasksSized => ListsRight
  <2> SUFFICES ASSUME CallInv, MeasureInv, MasksSized, Ready, told.status # None,
                      NEW s \in Strings, s.items # <<>>
               PROVE  /\ Named(s) \/ ListDenotes(s, numa_parse_nodestring(s), Allowed, Allowed)
                      /\ ListDenotes(s, numa_parse_cpustring(s), AllowedCpus, ConfiguredCpus)
                      /\ ExceptDenotes(s, numa_parse_nodestring(s)) /\ DeviceAllowed(s, numa_parse_nodestring(s))
                      /\ AllFormCovers(s, numa_parse_nodestring(s), numa_parse_nodestring_all(s))
                      /\ AllFormCovers(s, numa_parse_cpustring(s), numa_parse_cpustring_all(s))
                      /\ CpuExceptPartitions(numa_parse_cpustring(s), numa_parse_cpustring([s EXCEPT !.not = ~s.not]))
    BY DEF ListsRight, Parsing
  <2>1. s \in Lists
    BY LibraryAssumption DEF Lists
  <2>2. lib \in LibType
    BY DEF CallInv, Typed
  <2>3. /\ Named(s) \/ ListDenotes(s, numa_parse_nodestring(s), Allowed, Allowed)
        /\ ExceptDenotes(s, numa_parse_nodestring(s)) /\ DeviceAllowed(s, numa_parse_nodestring(s))
    BY <2>1, NodesDenoted
  <2>7. ListDenotes(s, numa_parse_cpustring(s), AllowedCpus, ConfiguredCpus)
    BY <2>1, CpusDenoted
  <2>4. AllFormCovers(s, numa_parse_nodestring(s), numa_parse_nodestring_all(s))
    BY <2>1, NodesCovered
  <2>5. AllFormCovers(s, numa_parse_cpustring(s), numa_parse_cpustring_all(s))
    BY <2>1, CpusCovered
  <2>6. CpuExceptPartitions(numa_parse_cpustring(s), numa_parse_cpustring([s EXCEPT !.not = ~s.not]))
    BY <2>1, <2>2, CpusParted
  <2> QED BY <2>3, <2>4, <2>5, <2>6, <2>7
<1> QED BY <1>1, SizedAlways, PTL
=============================================================================
