------------------------- MODULE NumastatShowProofs -------------------------
(* What numastat shows: the order of process tables, the hash table of tokens,  *)
(* the tables made of the files of nodes, and TableInv, which every step keeps. *)
EXTENDS NumastatTableProofs

----------------------------------------------------------------------------
(* The order of the rows of processes *)

\* A table of processes: the order of its rows of data, then the dashes and the totals.
Sheet(t) ==
    /\ t \in Sheets(0 .. total_row, data_rows + 2) /\ OrderRight(t.map, data_rows)
    /\ t.map[data_rows + 1] = data_rows /\ t.map[data_rows + 2] = total_row

\* A process table has each of its rows in its order.
LEMMA SheetOf ==
  ASSUME Shape, NEW t, Sheet(t)
  PROVE  /\ t \in [cell : Cells, map : Seq(Nat), seenR : SUBSET Nat, seenC : SUBSET Cols,
                   fullR : SUBSET Nat, fullC : SUBSET Cols]
         /\ Len(t.map) = data_rows + 2
         /\ Ordered(t.map, t.map, data_rows + 2, data_rows)
         /\ \A r \in 0 .. total_row : \E k \in 1 .. data_rows + 2 : t.map[k] = r
<1>0. data_rows \in Nat /\ data_rows + 2 \in Nat /\ total_row = data_rows + 1
  BY DEF Shape, total_row
<1>1. t.map \in [1 .. data_rows + 2 -> Nat]
  BY DEF Sheet, Sheets
<1>2. t.map \in Seq(Nat) /\ Len(t.map) = data_rows + 2
  BY <1>0, <1>1
<1>3. t \in [cell : Cells, map : Seq(Nat), seenR : SUBSET Nat, seenC : SUBSET Cols,
             fullR : SUBSET Nat, fullC : SUBSET Cols]
  BY <1>2 DEF Sheet, Sheets, Cells, Grid
<1>4. Ordered(t.map, t.map, data_rows + 2, data_rows)
  BY <1>1 DEF Sheet, Ordered
<1>5. ASSUME NEW r \in 0 .. total_row PROVE \E k \in 1 .. data_rows + 2 : t.map[k] = r
  <2>1. CASE r \in 0 .. data_rows - 1
    <3>1. PICK k \in 1 .. data_rows : t.map[k] = r
      BY <2>1 DEF Sheet, OrderRight
    <3>2. k \in 1 .. data_rows + 2
      BY <1>0
    <3> QED BY <3>1, <3>2
  <2>2. CASE r = data_rows
    <3>1. data_rows + 1 \in 1 .. data_rows + 2
      BY <1>0
    <3> QED BY <2>2, <3>1 DEF Sheet
  <2>3. CASE r = total_row
    <3>1. data_rows + 2 \in 1 .. data_rows + 2
      BY <1>0
    <3> QED BY <2>3, <3>1 DEF Sheet
  <2>4. r \in 0 .. data_rows - 1 \/ r = data_rows \/ r = total_row
    BY <1>0
  <2> QED BY <2>1, <2>2, <2>3, <2>4
<1> QED BY <1>2, <1>3, <1>4, <1>5

\* The invariant has such a table.
LEMMA SheetIs ==
  ASSUME Shape, MapRight, phase = "pids"
  PROVE  Sheet(table)
<1>0. data_rows + 2 \in Nat
  BY DEF Shape
<1>1. table.map \in Seq(Nat) /\ Len(table.map) = data_rows + 2
  BY DEF MapRight
<1>2. table.map \in [1 .. data_rows + 2 -> Nat]
  BY <1>0, <1>1
<1>3. table \in Sheets(0 .. total_row, data_rows + 2)
  BY <1>2 DEF MapRight, Sheets, Cells, Grid
<1> QED BY <1>3 DEF MapRight, Sheet

\* Another order of the rows of data, and other cells.
Resorted(t, cell, map) == [t EXCEPT !.cell = cell, !.map = map]
IsSheet(u, cell, map) == Sheet(u) /\ u.cell = cell /\ u.map = map

\* It stays one when rows of data change places and cells change.
LEMMA SheetSorted ==
  \A t, cell, map :
    Shape /\ Sheet(t) /\ cell \in Cells /\ Ordered(map, t.map, data_rows + 2, data_rows) =>
        IsSheet(Resorted(t, cell, map), cell, map)
<1> SUFFICES ASSUME Shape, NEW t, Sheet(t), NEW cell \in Cells, NEW map, Ordered(map, t.map, data_rows + 2, data_rows),
                    NEW u, u = Resorted(t, cell, map)
             PROVE  IsSheet(u, cell, map)
  OBVIOUS
<1> USE DEF Resorted, IsSheet
<1>0. data_rows \in Nat
  BY DEF Shape
<1>1. /\ t.seenR \in SUBSET Nat /\ t.seenC \in SUBSET Cols /\ t.fullR \in SUBSET Nat /\ t.fullC \in SUBSET Cols
      /\ map \in [1 .. data_rows + 2 -> Nat]
  BY DEF Sheet, Sheets, Ordered
<1>2. u = [cell |-> cell, map |-> map, seenR |-> t.seenR, seenC |-> t.seenC, fullR |-> t.fullR, fullC |-> t.fullC]
  BY DEF Sheet, Sheets
<1>3. u \in Sheets(0 .. total_row, data_rows + 2) /\ u.cell = cell /\ u.map = map
  BY <1>1, <1>2 DEF Sheets, Cells, Grid
<1>4. map[data_rows + 1] = t.map[data_rows + 1] /\ map[data_rows + 2] = t.map[data_rows + 2]
  <2>1. /\ data_rows + 1 \in 1 .. data_rows + 2 /\ data_rows + 1 > data_rows
        /\ data_rows + 2 \in 1 .. data_rows + 2 /\ data_rows + 2 > data_rows
    BY <1>0
  <2> QED BY <2>1 DEF Ordered
<1> QED BY <1>3, <1>4 DEF Sheet, Ordered

\* So it does when cells change.
LEMMA SheetCell ==
  ASSUME Shape, NEW t, Sheet(t), NEW cell \in Cells, NEW u, u = [t EXCEPT !.cell = cell]
  PROVE  Sheet(u) /\ u.cell = cell /\ u.map = t.map
<1>1. u = Resorted(t, cell, t.map)
  BY DEF Sheet, Sheets, Resorted
<1>2. Ordered(t.map, t.map, data_rows + 2, data_rows)
  BY SheetOf
<1>3. IsSheet(Resorted(t, cell, t.map), cell, t.map)
  BY <1>2, SheetSorted, Zenon
<1> QED BY <1>1, <1>3 DEF IsSheet

\* A table that nothing was marked in is shown without zeros where that is asked for.
Unmarked == table.fullR = {} /\ table.fullC = {}
Hidden(s) == ~flags.zero /\ Unmarked => NoZeros(s)

\* A process table is marked and shown.
LEMMA PidShown ==
  ASSUME Reading, MapRight, Known, NEW map \in Sortings([table EXCEPT !.cell = Ruled], data_rows),
         NEW width \in Widths, Shows(map, width)
  PROVE  /\ Sheet(table')
         /\ \E s : shown' = Append(shown, s) /\ Process(s) /\ Complete(s) /\ Asked(s) /\ Hidden(s)
<1> DEFINE a == [table EXCEPT !.cell = Ruled]
           b == [table EXCEPT !.cell = Ruled, !.map = map]
           s == display_table("process", list.pids[ix], Marked(b), width)
           R == 0 .. total_row
           M == data_rows + 2
<1>0. /\ Shape /\ data_rows \in Nat /\ total_row = data_rows + 1 /\ num_nodes \in Nat /\ FlagsRight
      /\ data_rows \in 0 .. M /\ M \in Nat /\ R \in SUBSET Nat
  BY Shapes DEF Reading, Shape, total_row
<1>1. Sheet(table) /\ Ruled \in Cells
  BY <1>0, SheetIs, RuledRight DEF Reading
<1>2. Sheet(a) /\ a.cell = Ruled /\ a.map = table.map
  BY <1>0, <1>1, SheetCell
<1>3. Ordered(a.map, a.map, M, data_rows)
  BY <1>0, <1>2, SheetOf
<1>4. \A r \in 0 .. data_rows - 1, c \in Cols : a.cell[r][c] \in Int
  <2>1. \A r \in 0 .. data_rows - 1 : r \in 0 .. total_row
    BY <1>0
  <2> QED BY <1>1, <1>2, <2>1 DEF Cells
<1>5. map \in Sortings(a, data_rows)
  OBVIOUS
<1>6. table' = Marked(b) /\ shown' = Append(shown, s)
  BY DEF Shows
<1> HIDE DEF a
<1>7. /\ Ordered(map, table.map, M, data_rows)
      /\ flags.sort /\ sort_col \in Cols => Falls(map, data_rows, data_rows, Ruled, sort_col)
  BY <1>0, <1>2, <1>3, <1>4, <1>5, SortingsRight
<1>8. Sheet(b) /\ b.cell = Ruled /\ b.map = map
  <2>1. b = Resorted(table, Ruled, map)
    BY DEF Resorted
  <2>2. IsSheet(Resorted(table, Ruled, map), Ruled, map)
    BY <1>0, <1>1, <1>7, SheetSorted, Zenon
  <2> QED BY <2>1, <2>2 DEF IsSheet
<1>15. b.fullR = table.fullR /\ b.fullC = table.fullC
  BY <1>1 DEF Sheet, Sheets
<1> HIDE DEF b
<1>9. b \in Sheets(R, M) /\ Onto(b.map, R, M)
  BY <1>0, <1>8, SheetOf DEF Sheet, Onto
<1>10. Marked(b) \in Sheets(R, M) /\ Marked(b).map = b.map
  <2>1. IsMarked(Marked(b), b, R, M)
    BY <1>0, <1>9, MarkedRight, Zenon
  <2> QED BY <2>1 DEF IsMarked
<1>11. Sheet(table')
  BY <1>6, <1>8, <1>10 DEF Sheet
<1>12. s.kind = "process" /\ s.cell = Ruled /\ s.order = map /\ Complete(s)
  <2>1. Displays(s, b, "process", list.pids[ix])
    BY <1>0, <1>9, Displayed, Zenon
  <2> QED BY <1>8, <2>1 DEF Displays
<1>16. Hidden(s)
  <2> SUFFICES ASSUME ~flags.zero, Unmarked PROVE NoZeros(s)
    BY DEF Hidden
  <2>1. b.fullR = {} /\ b.fullC = {}
    BY <1>15 DEF Unmarked
  <2> QED BY <1>0, <1>9, <2>1, Hides, Zenon
<1> HIDE DEF s
<1>13. DataRows(s) \subseteq 1 .. data_rows
  <2> SUFFICES ASSUME NEW k \in DataRows(s) PROVE k \in 1 .. data_rows
    OBVIOUS
  <2>1. k \in 1 .. M /\ map[k] < data_rows
    BY <1>12, <1>7 DEF DataRows, Process, Ordered
  <2>2. map[data_rows + 1] = data_rows /\ map[data_rows + 2] = total_row
    BY <1>8 DEF Sheet
  <2>3. k # data_rows + 1 /\ k # data_rows + 2
    BY <1>0, <2>1, <2>2
  <2> QED BY <1>0, <2>1, <2>3
<1>14. Asked(s)
  BY <1>0, <1>7, <1>12, <1>13, AskedRight
<1> QED BY <1>6, <1>11, <1>12, <1>14, <1>16 DEF Process

\* A turn of the loop keeps the order of rows, and shows a table complete and as asked, or none.
LEMMA PidMap ==
  ASSUME Reading, MapRight, ShowPid
  PROVE  /\ MapRight'
         /\ \/ shown' = shown
            \/ \E s : shown' = Append(shown, s) /\ Process(s) /\ Complete(s) /\ Asked(s) /\ Hidden(s)
<1>0. UNCHANGED <<world, flags, list, asked, starved, nodes, nargs>> /\ Shape /\ Sheet(table)
  BY ShowPidCases, Shapes, SheetIs DEF Reading
<1>1. /\ data_rows' = data_rows /\ Cols' = Cols /\ Cells' = Cells /\ total_row' = total_row
  BY <1>0 DEF num_pids, show_sub_categories, data_rows, Cols, Cells, total_row, num_nodes
<1>2. CASE phase' # "pids"
  <2>1. shown' = shown
    BY <1>2, ShowPidCases DEF Skip, Stop, Shows
  <2> QED BY <1>2, <2>1 DEF MapRight
<1>3. CASE phase' = "pids"
  <2>1. ix' = ix + 1
    BY <1>3, ShowPidCases DEF Stop, Skip, Shows
  <2>2. \/ table' = [table EXCEPT !.cell = Clean] /\ shown' = shown
        \/ Known /\ table' = [table EXCEPT !.cell = Counted] /\ shown' = shown
        \/ Known /\ \E map \in Sortings([table EXCEPT !.cell = Ruled], data_rows), width \in Widths :
                    Shows(map, width)
    BY <2>1, TableAfter
  <2>3. /\ Sheet(table')
        /\ \/ shown' = shown
           \/ \E s : shown' = Append(shown, s) /\ Process(s) /\ Complete(s) /\ Asked(s) /\ Hidden(s)
    <3>1. Clean \in Cells /\ (Known => Counted \in Cells)
      BY CleanRight, CountedRight DEF Proper
    <3> QED BY <1>0, <2>2, <3>1, SheetCell, PidShown
  <2>4. MapRight'
    <3>1. /\ table' \in [cell : Cells, map : Seq(Nat), seenR : SUBSET Nat, seenC : SUBSET Cols,
                         fullR : SUBSET Nat, fullC : SUBSET Cols]
          /\ Len(table'.map) = data_rows + 2
      BY <1>0, <2>3, SheetOf
    <3>2. /\ OrderRight(table'.map, data_rows) /\ table'.map[data_rows + 1] = data_rows
          /\ table'.map[data_rows + 2] = total_row
      BY <2>3 DEF Sheet
    <3> QED BY <1>1, <3>1, <3>2 DEF MapRight, OrderRight
  <2> QED BY <2>3, <2>4
<1> QED BY <1>2, <1>3

----------------------------------------------------------------------------
(* The hash table *)

\* Remainders of what is less than twice the divisor.
LEMMA Mods ==
  ASSUME NEW H \in Nat \ {0}
  PROVE  /\ \A x \in 0 .. H - 1 : x % H = x
         /\ \A x \in H .. 2 * H - 1 : x % H = x - H
<1>1. ASSUME NEW x \in 0 .. H - 1 PROVE x % H = x
  OBVIOUS
<1>2. ASSUME NEW x \in H .. 2 * H - 1 PROVE x % H = x - H
  OBVIOUS
<1> QED BY <1>1, <1>2

\* Min of a set of numbers that is not empty.
LEMMA LeastIs ==
  ASSUME NEW S \in SUBSET Nat, S # {}
  PROVE  Min(S) \in S /\ \A y \in S : Min(S) <= y
<1>1. \E x \in S : \A y \in S : x <= y
  BY Least
<1> QED BY <1>1 DEF Min

\* Slots of the hash table.
Slots == 0 .. HASH_TABLE_SIZE - 1
\* A search comes to every slot.
LEMMA ProbesAll ==
  ASSUME NEW tok \in DOMAIN Hash
  PROVE  /\ \A k \in 1 .. HASH_TABLE_SIZE : Probe(tok)[k] \in Slots
         /\ \A s \in Slots : \E k \in 1 .. HASH_TABLE_SIZE : Probe(tok)[k] = s
<1> DEFINE H == HASH_TABLE_SIZE
           x == Hash[tok]
<1>0. H \in Nat \ {0} /\ x \in 0 .. H - 1
  BY NumastatAssumption
<1>1. \A k \in 1 .. H : Probe(tok)[k] = (x + k - 1) % H
  BY DEF Probe
<1> HIDE DEF H, x
<1>2. ASSUME NEW k \in 1 .. H PROVE Probe(tok)[k] \in 0 .. H - 1
  <2>1. x + k - 1 \in Nat
    BY <1>0
  <2> QED BY <1>0, <1>1, <2>1
<1>3. ASSUME NEW s \in 0 .. H - 1 PROVE \E k \in 1 .. H : Probe(tok)[k] = s
  <2>1. CASE s >= x
    <3> DEFINE k == s - x + 1
    <3>1. k \in 1 .. H /\ x + k - 1 = s
      BY <1>0, <2>1
    <3>2. s % H = s
      BY <1>0, Mods
    <3> HIDE DEF k
    <3> QED BY <1>1, <3>1, <3>2
  <2>2. CASE s < x
    <3> DEFINE k == s - x + 1 + H
    <3>1. k \in 1 .. H /\ x + k - 1 = s + H /\ s + H \in H .. 2 * H - 1 /\ (s + H) - H = s
      BY <1>0, <2>2
    <3>2. (s + H) % H = s
      BY <1>0, <3>1, Mods
    <3> HIDE DEF k
    <3> QED BY <1>1, <3>1, <3>2
  <2> QED BY <1>0, <2>1, <2>2
<1> QED BY <1>2, <1>3 DEF Slots, H

\* A search for the token comes to its slot before a free one.
Reached(h, tok, row) ==
    \E p \in 1 .. HASH_TABLE_SIZE :
        /\ Probe(tok)[p] \in DOMAIN h
        /\ h[Probe(tok)[p]].name = tok /\ h[Probe(tok)[p]].index = row
        /\ \A q \in 1 .. p - 1 : Probe(tok)[q] \in DOMAIN h
\* The tokens of the first k lines, and nothing else, are there.
Hashed(h, lines, k) ==
    /\ DOMAIN h \subseteq Slots
    /\ \A s \in DOMAIN h : \E i \in 1 .. k : h[s].name = lines[i].tok
    /\ \A s, t \in DOMAIN h : h[s].name = h[t].name => s = t
    /\ \A i \in 1 .. k : Reached(h, lines[i].tok, i - 1)
\* A file names each token once.
Tokens(lines) ==
    /\ Len(lines) \in Nat /\ \A i \in 1 .. Len(lines) : lines[i].tok \in DOMAIN Hash
    /\ \A i, j \in 1 .. Len(lines) : lines[i].tok = lines[j].tok => i = j
\* Probes that find a free slot.
FreeAt(h, tok) == {k \in 1 .. HASH_TABLE_SIZE : Probe(tok)[k] \notin DOMAIN h}

\* There are fewer tokens than slots.
LEMMA SlotFree ==
  ASSUME NEW lines, Tokens(lines), NEW k \in 0 .. Len(lines), NEW h, Hashed(h, lines, k), NEW tok \in DOMAIN Hash
  PROVE  /\ FreeAt(h, tok) # {} /\ Min(FreeAt(h, tok)) \in 1 .. HASH_TABLE_SIZE
         /\ Probe(tok)[Min(FreeAt(h, tok))] \in Slots \ DOMAIN h
         /\ \A q \in 1 .. Min(FreeAt(h, tok)) - 1 : Probe(tok)[q] \in DOMAIN h
<1> DEFINE T == DOMAIN Hash
           f == [s \in DOMAIN h |-> h[s].name]
           H == HASH_TABLE_SIZE
<1>0. IsFiniteSet(T) /\ H \in Nat /\ Cardinality(T) < H /\ Cardinality(T) \in Nat
  BY NumastatAssumption, FS_CardinalityType
<1>1. f \in [DOMAIN h -> T]
  <2> SUFFICES ASSUME NEW s \in DOMAIN h PROVE h[s].name \in T
    OBVIOUS
  <2>1. PICK i \in 1 .. k : h[s].name = lines[i].tok
    BY DEF Hashed
  <2>2. i \in 1 .. Len(lines)
    BY DEF Tokens
  <2> QED BY <2>1, <2>2 DEF Tokens
<1>2. f \in Injection(DOMAIN h, T)
  <2>1. \A a, b \in DOMAIN h : f[a] = f[b] => a = b
    BY DEF Hashed
  <2> HIDE DEF f
  <2> QED BY <1>1, <2>1 DEF Injection, IsInjective
<1>3. Cardinality(DOMAIN h) <= Cardinality(T) /\ Cardinality(DOMAIN h) \in Nat
  <2> HIDE DEF f
  <2>1. IsFiniteSet(DOMAIN h) /\ Cardinality(DOMAIN h) <= Cardinality(T)
    BY <1>0, <1>2, FS_Injection
  <2> QED BY <2>1, FS_CardinalityType
<1>4. Cardinality(Slots) = H
  <2>1. Cardinality(0 .. H - 1) = IF 0 > H - 1 THEN 0 ELSE (H - 1) - 0 + 1
    BY <1>0, FS_Interval
  <2> QED BY <1>0, <2>1 DEF Slots
<1>5. PICK s \in Slots : s \notin DOMAIN h
  <2>1. Cardinality(DOMAIN h) # Cardinality(Slots)
    BY <1>0, <1>3, <1>4
  <2> QED BY <2>1 DEF Hashed
<1>6. PICK p \in 1 .. H : Probe(tok)[p] = s
  BY ProbesAll
<1> DEFINE F == FreeAt(h, tok)
<1>7. p \in F /\ F \in SUBSET Nat /\ \A q \in 1 .. H : q \in F \/ Probe(tok)[q] \in DOMAIN h
  BY <1>0, <1>5, <1>6 DEF FreeAt
<1>8. Min(F) \in F /\ \A y \in F : Min(F) <= y
  <2> HIDE DEF F
  <2> QED BY <1>7, LeastIs
<1> DEFINE m == Min(F)
<1>9. m \in 1 .. H /\ Probe(tok)[m] \notin DOMAIN h /\ Probe(tok)[m] \in Slots
  BY <1>8, ProbesAll DEF FreeAt
<1>10. ASSUME NEW q \in 1 .. m - 1 PROVE Probe(tok)[q] \in DOMAIN h
  <2> HIDE DEF F, m
  <2>1. q \in 1 .. H /\ ~(m <= q)
    BY <1>0, <1>9
  <2> QED BY <1>7, <1>8, <2>1 DEF m
<1> QED BY <1>7, <1>9, <1>10

\* A token that was inserted can be reached, and those before it still can.
LEMMA Inserted ==
  ASSUME NEW lines, Tokens(lines), NEW k \in 1 .. Len(lines), NEW h, Hashed(h, lines, k - 1),
         NEW g, g = hash_insert(h, lines[k].tok, k - 1)
  PROVE  Hashed(g, lines, k)
<1> DEFINE tok == lines[k].tok
           F == FreeAt(h, tok)
           slot == Probe(tok)[Min(F)]
<1>0. tok \in DOMAIN Hash /\ Len(lines) \in Nat /\ k - 1 \in 0 .. Len(lines)
  BY DEF Tokens
<1>1. /\ Min(F) \in 1 .. HASH_TABLE_SIZE /\ slot \in Slots \ DOMAIN h
      /\ \A q \in 1 .. Min(F) - 1 : Probe(tok)[q] \in DOMAIN h
  BY <1>0, SlotFree
<1>2. g = [s \in DOMAIN h \cup {slot} |-> IF s = slot THEN [name |-> tok, index |-> k - 1] ELSE h[s]]
  BY DEF hash_insert, FreeAt
<1> HIDE DEF F
<1>3. /\ DOMAIN g = DOMAIN h \cup {slot} /\ \A s \in DOMAIN h : g[s] = h[s]
      /\ g[slot].name = tok /\ g[slot].index = k - 1
  BY <1>1, <1>2
<1> HIDE DEF slot
<1>4. \A s \in DOMAIN h : h[s].name # tok
  <2> SUFFICES ASSUME NEW s \in DOMAIN h, h[s].name = tok PROVE FALSE
    OBVIOUS
  <2>1. PICK i \in 1 .. k - 1 : h[s].name = lines[i].tok
    BY DEF Hashed
  <2>2. i \in 1 .. Len(lines) /\ i # k
    BY <1>0
  <2> QED BY <2>1, <2>2 DEF Tokens
<1>5. DOMAIN g \subseteq Slots
  BY <1>1, <1>3 DEF Hashed
<1>6. ASSUME NEW s \in DOMAIN g PROVE \E i \in 1 .. k : g[s].name = lines[i].tok
  <2>1. CASE s = slot
    BY <1>3, <2>1
  <2>2. CASE s \in DOMAIN h
    <3>1. PICK i \in 1 .. k - 1 : h[s].name = lines[i].tok
      BY <2>2 DEF Hashed
    <3>2. i \in 1 .. k
      OBVIOUS
    <3> QED BY <1>3, <2>2, <3>1, <3>2
  <2> QED BY <1>3, <2>1, <2>2
<1>7. ASSUME NEW s \in DOMAIN g, NEW t \in DOMAIN g, g[s].name = g[t].name PROVE s = t
  BY <1>3, <1>4, <1>7 DEF Hashed
<1>8. ASSUME NEW i \in 1 .. k PROVE Reached(g, lines[i].tok, i - 1)
  <2>1. CASE i = k
    <3>1. slot = Probe(tok)[Min(F)]
      BY DEF slot
    <3> QED BY <1>1, <1>3, <2>1, <3>1 DEF Reached
  <2>2. CASE i # k
    <3>1. i \in 1 .. k - 1
      BY <2>2
    <3>2. Reached(h, lines[i].tok, i - 1)
      BY <3>1 DEF Hashed
    <3> QED BY <1>3, <3>2 DEF Reached
  <2> QED BY <2>1, <2>2
<1> QED BY <1>5, <1>6, <1>7, <1>8 DEF Hashed

\* hash_lookup finds the row of a token that was inserted, and of no other.
LEMMA LookupRight ==
  ASSUME NEW lines, Tokens(lines), NEW h, Hashed(h, lines, Len(lines)), NEW tok \in DOMAIN Hash
  PROVE  /\ (\A i \in 1 .. Len(lines) : lines[i].tok # tok) => hash_lookup(h, tok) = -1
         /\ \A i \in 1 .. Len(lines) : lines[i].tok = tok => hash_lookup(h, tok) = i - 1
<1> DEFINE N == Len(lines)
           F == FreeAt(h, tok)
           m == Min(F)
           hits == {k \in 1 .. m - 1 : h[Probe(tok)[k]].name = tok}
<1>0. N \in Nat /\ N \in 0 .. N
  BY DEF Tokens
<1>1. /\ m \in 1 .. HASH_TABLE_SIZE /\ Probe(tok)[m] \notin DOMAIN h
      /\ \A q \in 1 .. m - 1 : Probe(tok)[q] \in DOMAIN h
  BY <1>0, SlotFree
<1>2. hash_lookup(h, tok) = IF hits = {} THEN -1 ELSE h[Probe(tok)[Min(hits)]].index
  BY DEF hash_lookup, FreeAt
<1>3. HASH_TABLE_SIZE \in Nat
  BY NumastatAssumption
<1> HIDE DEF F, m
<1>4. ASSUME \A i \in 1 .. N : lines[i].tok # tok PROVE hits = {}
  <2> SUFFICES ASSUME NEW k \in hits PROVE FALSE
    OBVIOUS
  <2>1. Probe(tok)[k] \in DOMAIN h /\ h[Probe(tok)[k]].name = tok
    BY <1>1
  <2> QED BY <1>4, <2>1 DEF Hashed
<1>5. ASSUME NEW i \in 1 .. N, lines[i].tok = tok PROVE hash_lookup(h, tok) = i - 1
  <2>1. Reached(h, tok, i - 1)
    BY <1>5 DEF Hashed
  <2>2. PICK p \in 1 .. HASH_TABLE_SIZE :
            /\ Probe(tok)[p] \in DOMAIN h
            /\ h[Probe(tok)[p]].name = tok /\ h[Probe(tok)[p]].index = i - 1
            /\ \A q \in 1 .. p - 1 : Probe(tok)[q] \in DOMAIN h
    BY <2>1 DEF Reached
  <2>3. p < m
    <3> SUFFICES ASSUME ~(p < m) PROVE FALSE
      OBVIOUS
    <3>1. p = m \/ m \in 1 .. p - 1
      BY <1>1, <1>3
    <3> QED BY <1>1, <2>2, <3>1
  <2>4. p \in hits
    BY <1>1, <1>3, <2>2, <2>3
  <2>5. hits \in SUBSET Nat /\ hits # {}
    BY <2>4
  <2>6. Min(hits) \in hits
    <3> HIDE DEF hits
    <3> QED BY <2>5, LeastIs
  <2> DEFINE x == Min(hits)
  <2>7. Probe(tok)[x] \in DOMAIN h /\ h[Probe(tok)[x]].name = tok
    BY <1>1, <2>6
  <2> HIDE DEF x
  <2>8. Probe(tok)[x] = Probe(tok)[p]
    BY <2>2, <2>7 DEF Hashed
  <2> QED BY <1>2, <2>2, <2>5, <2>8 DEF x
<1> QED BY <1>2, <1>4, <1>5

\* The hash table of a file has its tokens.
LEMMA RowHashRight ==
  ASSUME NEW lines, Tokens(lines), NEW h, h = RowHash(lines)
  PROVE  Hashed(h, lines, Len(lines))
<1> DEFINE N == Len(lines)
           x == [s \in {} |-> {}]
           Step(m, k) == hash_insert(m, lines[k].tok, k - 1)
           Loop(g, n) == g = [k \in 0 .. n |-> IF k = 0 THEN x ELSE Step(g[k - 1], k)]
<1>1. N \in Nat
  BY DEF Tokens
<1>2. \E g : Loop(g, N)
  <2> HIDE DEF Step, x
  <2> DEFINE G == {n \in 0 .. N : \E g : Loop(g, n)}
  <2>1. 0 \in G
    <3> DEFINE g == [k \in 0 .. 0 |-> x]
    <3>1. Loop(g, 0)
      OBVIOUS
    <3> HIDE DEF Loop, g
    <3> QED BY <1>1, <3>1
  <2>2. ASSUME NEW n \in 1 .. N, n - 1 \in G PROVE n \in G
    <3>1. PICK g : Loop(g, n - 1)
      BY <2>2
    <3> DEFINE f == [k \in 0 .. n |-> IF k = n THEN Step(g[n - 1], n) ELSE g[k]]
    <3>2. n \in Nat \ {0} /\ n \in 0 .. N
      BY <1>1
    <3>3. ASSUME NEW k \in 0 .. n PROVE f[k] = IF k = 0 THEN x ELSE Step(f[k - 1], k)
      <4>1. k # 0 => k - 1 \in 0 .. n /\ k - 1 # n /\ f[k - 1] = g[k - 1]
        BY <3>2
      <4>2. CASE k = n
        BY <3>2, <4>1, <4>2
      <4>3. CASE k # n
        <5>1. k \in 0 .. n - 1
          BY <3>2, <4>3
        <5>2. g[k] = IF k = 0 THEN x ELSE Step(g[k - 1], k)
          BY <3>1, <5>1
        <5> QED BY <4>1, <4>3, <5>2
      <4> QED BY <4>2, <4>3
    <3>4. f = [k \in 0 .. n |-> f[k]]
      OBVIOUS
    <3>5. Loop(f, n)
      <4> HIDE DEF f
      <4> QED BY <3>3, <3>4
    <3> HIDE DEF Loop
    <3> QED BY <3>2, <3>5
  <2> HIDE DEF G
  <2>3. \A k \in 1 .. N : k - 1 \in G => k \in G
    BY <2>2
  <2>4. \A k \in 0 .. N : k \in G
    BY <1>1, <2>1, <2>3, Steps
  <2> QED BY <1>1, <2>4 DEF G
<1>3. PICK g : Loop(g, N) /\ h = g[N]
  <2>1. h = (CHOOSE g : Loop(g, N))[N]
    BY DEF RowHash
  <2> HIDE DEF Loop
  <2> QED BY <1>2, <2>1
<1>4. g[0] = x /\ \A k \in 1 .. N : g[k] = Step(g[k - 1], k)
  <2> HIDE DEF Step
  <2>1. \A k \in 0 .. N : g[k] = IF k = 0 THEN x ELSE Step(g[k - 1], k)
    BY <1>3
  <2> QED BY <1>1, <2>1
<1> DEFINE G == {k \in 0 .. N : Hashed(g[k], lines, k)}
<1>5. 0 \in G
  <2>1. DOMAIN x = {}
    OBVIOUS
  <2>2. Hashed(x, lines, 0)
    <3> HIDE DEF x
    <3> QED BY <2>1 DEF Hashed
  <2> QED BY <1>1, <1>4, <2>2
<1>6. ASSUME NEW k \in 1 .. N, k - 1 \in G PROVE k \in G
  <2>1. Hashed(g[k - 1], lines, k - 1)
    BY <1>6
  <2>2. g[k] = hash_insert(g[k - 1], lines[k].tok, k - 1)
    BY <1>4
  <2>3. Hashed(g[k], lines, k)
    BY <2>1, <2>2, Inserted
  <2> QED BY <1>1, <2>3
<1>7. N \in G
  <2> HIDE DEF G
  <2>1. \A k \in 1 .. N : k - 1 \in G => k \in G
    BY <1>6
  <2>2. \A k \in 0 .. N : k \in G
    BY <1>1, <1>5, <2>1, Steps
  <2> QED BY <1>1, <2>2
<1> QED BY <1>3, <1>7

\* The file of a node in a world, and its values.
FileOf(n) == world.files[n]
FileFits(lines) == Tokens(lines) /\ \A i \in 1 .. Len(lines) : FileLine(lines[i])

\* Values are not negative.
LEMMA ValueNat ==
  ASSUME NEW line, FileLine(line)
  PROVE  Value(line) \in Nat
<1> DEFINE huge == line.huge
           f == [k \in DOMAIN huge |-> huge[k].pages * huge[k].size]
<1>1. huge \in Seq(Range(huge)) /\ \A d \in Range(huge) : d.pages \in Nat /\ d.size \in Nat
  BY DEF FileLine
<1>2. Len(huge) \in Nat /\ DOMAIN huge = 1 .. Len(huge)
  BY <1>1
<1>3. \A k \in DOMAIN huge : huge[k].pages * huge[k].size \in Nat
  <2> SUFFICES ASSUME NEW k \in DOMAIN huge PROVE huge[k].pages * huge[k].size \in Nat
    OBVIOUS
  <2>1. huge[k] \in Range(huge)
    BY DEF Range
  <2>2. huge[k].pages \in Nat /\ huge[k].size \in Nat
    BY <1>1, <2>1
  <2> QED BY <2>2
<1> HIDE DEF huge
<1>4. f \in [1 .. Len(huge) -> Nat]
  BY <1>2, <1>3
<1>5. update_hugepages_info(huge) = Total(f)
  BY DEF update_hugepages_info
<1> HIDE DEF f
<1>6. update_hugepages_info(huge) \in Nat
  BY <1>2, <1>4, <1>5, TotalNat
<1>7. line.val \in Nat /\ Unit[line.tok] \in Nat
  BY NumastatAssumption DEF FileLine
<1>8. line.val * Unit[line.tok] \in Nat
  BY <1>7
<1> QED BY <1>6, <1>7, <1>8 DEF Value, huge

\* What a file says of a token: the value of the one line that names it.
LEMMA ValueOfIs ==
  ASSUME NEW n, FileFits(FileOf(n)), DOMAIN FileOf(n) = 1 .. Len(FileOf(n)), NEW tok
  PROVE  /\ ValueOf(n, tok) \in Nat
         /\ \A j \in 1 .. Len(FileOf(n)) : FileOf(n)[j].tok = tok => ValueOf(n, tok) = Value(FileOf(n)[j])
         /\ (\A j \in 1 .. Len(FileOf(n)) : FileOf(n)[j].tok # tok) => ValueOf(n, tok) = 0
<1> DEFINE lines == FileOf(n)
           at == {k \in DOMAIN lines : lines[k].tok = tok}
<1>1. ValueOf(n, tok) = IF at = {} THEN 0 ELSE Value(lines[CHOOSE k \in at : TRUE])
  BY DEF ValueOf, FileOf
<1>2. \A j \in at : j \in 1 .. Len(lines) /\ lines[j].tok = tok
  OBVIOUS
<1>3. \A j \in at, k \in at : j = k
  BY <1>2 DEF FileFits, Tokens
<1>4. \A j \in 1 .. Len(lines) : lines[j].tok = tok => j \in at
  OBVIOUS
<1>5. \A j \in 1 .. Len(lines) : Value(lines[j]) \in Nat
  BY ValueNat DEF FileFits
<1> HIDE DEF lines, at
<1>6. at # {} => (CHOOSE k \in at : TRUE) \in at
  OBVIOUS
<1>7. \A j \in at : ValueOf(n, tok) = Value(lines[j])
  BY <1>1, <1>3, <1>6
<1>8. at = {} => ValueOf(n, tok) = 0
  BY <1>1
<1>9. ValueOf(n, tok) \in Nat
  <2>1. CASE at = {}
    BY <1>8, <2>1
  <2>2. CASE at # {}
    <3>1. PICK j : j \in at
      BY <2>2
    <3> QED BY <1>2, <1>5, <1>7, <3>1
  <2> QED BY <2>1, <2>2
<1> QED BY <1>2, <1>4, <1>7, <1>8, <1>9 DEF lines

----------------------------------------------------------------------------
(* The tables of the files *)

\* A table of the rows that first names.
SysCells(first) == Grid(0 .. Len(first) - 1, Cols)

\* What Put leaves in the table.
PutTo(d, cell, first, row, k, v) ==
    /\ d \in SysCells(first)
    /\ \A r \in 0 .. Len(first) - 1, c \in Cols :
            Number(d[r][c]) = IF r = row /\ c = k - 1 THEN v
                              ELSE IF r = row /\ c = total_col THEN Number(cell[r][c]) + v
                              ELSE Number(cell[r][c])

\* A value goes to one cell and to the total of the row.
LEMMA PutRight ==
  \A first, cell, row, k, v :
    Shape /\ Len(first) \in Nat /\ cell \in SysCells(first) /\ k \in 1 .. num_nodes /\ v \in Nat /\
    row \in -1 .. Len(first) - 1 => PutTo(Put(cell, row, k, v), cell, first, row, k, v)
<1> SUFFICES ASSUME Shape, NEW first, Len(first) \in Nat, NEW cell \in SysCells(first), NEW k \in 1 .. num_nodes,
                    NEW v \in Nat, NEW row \in -1 .. Len(first) - 1, NEW d, d = Put(cell, row, k, v)
             PROVE  PutTo(d, cell, first, row, k, v)
  OBVIOUS
<1> USE DEF PutTo
<1> DEFINE R == 0 .. Len(first) - 1
           C == Cols
<1>0. num_nodes \in Nat /\ total_col \in C /\ k - 1 \in C /\ k - 1 # total_col
  BY DEF Shape, total_col, Cols
<1>1. CASE row < 0
  <2>1. d = cell /\ \A r \in R : r # row
    BY <1>1 DEF Put
  <2> QED BY <2>1
<1>2. CASE ~(row < 0)
  <2> DEFINE a == double_assign(cell, row, k - 1, v)
  <2>1. d = double_addto(a, row, total_col, v) /\ row \in R
    BY <1>2 DEF Put
  <2> HIDE DEF R, C
  <2>2. cell \in Grid(R, C)
    BY DEF SysCells, R, C
  <2>3. a \in Grid(R, C) /\ Only(a, cell, R, C, row, k - 1, v)
    <3>1. a = [cell EXCEPT ![row] = [cell[row] EXCEPT ![k - 1] = v]]
      BY DEF double_assign
    <3>2. cell[row] \in [C -> Int] /\ v \in Int
      BY <2>1, <2>2 DEF Grid
    <3>3. [cell[row] EXCEPT ![k - 1] = v] \in [C -> Int]
      BY <3>2
    <3> QED BY <1>0, <2>1, <2>2, <3>1, <3>2, <3>3 DEF Grid, Only
  <2> HIDE DEF a
  <2>4. v \in Int
    OBVIOUS
  <2>5. d \in Grid(R, C) /\ Only(d, a, R, C, row, total_col, Number(a[row][total_col]) + v)
    BY <1>0, <2>1, <2>3, <2>4, AddTo, Zenon
  <2>6. a[row][total_col] = cell[row][total_col]
    BY <1>0, <2>1, <2>3 DEF Only
  <2>7. ASSUME NEW r \in R, NEW c \in C
        PROVE  Number(d[r][c]) = IF r = row /\ c = k - 1 THEN v
                                 ELSE IF r = row /\ c = total_col THEN Number(cell[r][c]) + v
                                 ELSE Number(cell[r][c])
    <3>1. cell[r][c] \in Int
      BY <2>2 DEF Grid
    <3>2. a[r][c] = IF r = row /\ c = k - 1 THEN v ELSE cell[r][c]
      BY <2>3 DEF Only
    <3>3. d[r][c] = IF r = row /\ c = total_col THEN Number(cell[row][total_col]) + v ELSE a[r][c]
      BY <2>5, <2>6 DEF Only
    <3>4. Number(v) = v
      BY DEF Number
    <3>5. Number(cell[r][c]) \in Nat
      BY <3>1 DEF Number
    <3>6. Number(Number(cell[r][c]) + v) = Number(cell[r][c]) + v
      BY <3>5 DEF Number
    <3> QED BY <1>0, <3>2, <3>3, <3>4, <3>6
  <2> QED BY <2>5, <2>7 DEF SysCells, R, C
<1> QED BY <1>1, <1>2

\* One of the first j lines names the token.
Named(lines, j, tok) == \E i \in 1 .. j : lines[i].tok = tok
\* The table after j lines.
FileSum(d, cell, first, k, j) ==
    /\ d \in SysCells(first)
    /\ \A r \in 0 .. Len(first) - 1, c \in Cols :
            Number(d[r][c]) =
                IF ~Named(FileOf(nodes[k]), j, first[r + 1].tok) THEN Number(cell[r][c])
                ELSE IF c = k - 1 THEN ValueOf(nodes[k], first[r + 1].tok)
                ELSE IF c = total_col THEN Number(cell[r][c]) + ValueOf(nodes[k], first[r + 1].tok)
                ELSE Number(cell[r][c])

\* One more line of a file.
LEMMA FileSumNext ==
  ASSUME Shape, NEW first, Tokens(first), NEW h, Hashed(h, first, Len(first)), NEW k \in 1 .. num_nodes,
         FileFits(FileOf(nodes[k])), DOMAIN FileOf(nodes[k]) = 1 .. Len(FileOf(nodes[k])),
         NEW j \in 1 .. Len(FileOf(nodes[k])), NEW cell \in SysCells(first), NEW m,
         FileSum(m, cell, first, k, j - 1), NEW d, NEW row,
         row = hash_lookup(h, FileOf(nodes[k])[j].tok), d = Put(m, row, k, Value(FileOf(nodes[k])[j]))
  PROVE  row \in -1 .. Len(first) - 1 /\ FileSum(d, cell, first, k, j)
<1> DEFINE n == nodes[k]
           lines == FileOf(n)
           tok == lines[j].tok
           v == Value(lines[j])
<1>0. Len(lines) \in Nat /\ Len(first) \in Nat /\ tok \in DOMAIN Hash /\ num_nodes \in Nat
  BY DEF FileFits, Tokens, Shape
<1>1. /\ (\A i \in 1 .. Len(first) : first[i].tok # tok) => row = -1
      /\ \A i \in 1 .. Len(first) : first[i].tok = tok => row = i - 1
  BY <1>0, LookupRight
<1>2. row \in -1 .. Len(first) - 1 /\ \A r \in 0 .. Len(first) - 1 : r = row <=> first[r + 1].tok = tok
  <2>1. \A r \in 0 .. Len(first) - 1 : r + 1 \in 1 .. Len(first) /\ (r + 1) - 1 = r
    BY <1>0
  <2>2. \A r \in 0 .. Len(first) - 1 : first[r + 1].tok = tok => r = row
    BY <1>1, <2>1
  <2>3. CASE \A i \in 1 .. Len(first) : first[i].tok # tok
    <3>1. row = -1
      BY <1>1, <2>3
    <3> QED BY <1>0, <2>1, <2>3, <3>1
  <2>4. CASE \E i \in 1 .. Len(first) : first[i].tok = tok
    <3>1. PICK i \in 1 .. Len(first) : first[i].tok = tok
      BY <2>4
    <3>2. row = i - 1
      BY <1>1, <3>1
    <3>3. row \in 0 .. Len(first) - 1 /\ row + 1 = i
      BY <1>0, <3>2
    <3> QED BY <1>0, <2>2, <3>1, <3>3
  <2> QED BY <2>3, <2>4
<1>3. v \in Nat
  BY ValueNat DEF FileFits
<1>4. m \in SysCells(first)
  BY DEF FileSum
<1> HIDE DEF v
<1>5. /\ d \in SysCells(first)
      /\ \A r \in 0 .. Len(first) - 1, c \in Cols :
                Number(d[r][c]) =
                    IF r = row /\ c = k - 1 THEN v
                    ELSE IF r = row /\ c = total_col THEN Number(m[r][c]) + v
                    ELSE Number(m[r][c])
  <2>1. d = Put(m, row, k, v)
    BY DEF v
  <2>2. PutTo(Put(m, row, k, v), m, first, row, k, v)
    BY <1>0, <1>2, <1>3, <1>4, PutRight, Zenon
  <2> QED BY <2>1, <2>2 DEF PutTo
<1>6. ValueOf(n, tok) = v
  BY ValueOfIs DEF v
<1>7. ~Named(lines, j - 1, tok)
  <2> SUFFICES ASSUME NEW i \in 1 .. j - 1, lines[i].tok = tok PROVE FALSE
    BY DEF Named
  <2>1. i \in 1 .. Len(lines) /\ i # j
    BY <1>0
  <2> QED BY <2>1 DEF FileFits, Tokens
<1>8. ASSUME NEW r \in 0 .. Len(first) - 1, NEW c \in Cols
      PROVE  Number(d[r][c]) =
                IF ~Named(lines, j, first[r + 1].tok) THEN Number(cell[r][c])
                ELSE IF c = k - 1 THEN ValueOf(n, first[r + 1].tok)
                ELSE IF c = total_col THEN Number(cell[r][c]) + ValueOf(n, first[r + 1].tok)
                ELSE Number(cell[r][c])
  <2> DEFINE t == first[r + 1].tok
  <2>1. Number(m[r][c]) =
                IF ~Named(lines, j - 1, t) THEN Number(cell[r][c])
                ELSE IF c = k - 1 THEN ValueOf(n, t)
                ELSE IF c = total_col THEN Number(cell[r][c]) + ValueOf(n, t)
                ELSE Number(cell[r][c])
    BY DEF FileSum
  <2>2. Named(lines, j, t) <=> t = tok \/ Named(lines, j - 1, t)
    <3>1. \A i \in 1 .. j : i = j \/ i \in 1 .. j - 1
      OBVIOUS
    <3>2. j \in 1 .. j /\ \A i \in 1 .. j - 1 : i \in 1 .. j
      OBVIOUS
    <3> QED BY <3>1, <3>2 DEF Named
  <2>3. r = row <=> t = tok
    BY <1>2
  <2> HIDE DEF t
  <2>4. CASE t = tok
    <3>1. Number(m[r][c]) = Number(cell[r][c]) /\ Named(lines, j, t) /\ r = row /\ ValueOf(n, t) = v
      BY <1>6, <1>7, <2>1, <2>2, <2>3, <2>4
    <3> QED BY <1>5, <3>1 DEF t
  <2>5. CASE t # tok
    <3>1. Number(d[r][c]) = Number(m[r][c])
      BY <1>5, <2>3, <2>5
    <3>2. Named(lines, j, t) <=> Named(lines, j - 1, t)
      BY <2>2, <2>5
    <3> QED BY <2>1, <3>1, <3>2 DEF t
  <2> QED BY <2>4, <2>5
<1> QED BY <1>2, <1>5, <1>8 DEF FileSum

\* A row that was found is one of the table.
LEMMA LookupRange ==
  \A first, h, tok :
    Tokens(first) /\ Hashed(h, first, Len(first)) /\ tok \in DOMAIN Hash =>
        hash_lookup(h, tok) \in -1 .. Len(first) - 1
<1> SUFFICES ASSUME NEW first, Tokens(first), NEW h, Hashed(h, first, Len(first)), NEW tok \in DOMAIN Hash
             PROVE  hash_lookup(h, tok) \in -1 .. Len(first) - 1
  OBVIOUS
<1>0. Len(first) \in Nat
  BY DEF Tokens
<1>1. CASE \A i \in 1 .. Len(first) : first[i].tok # tok
  <2>1. hash_lookup(h, tok) = -1
    BY <1>1, LookupRight
  <2> QED BY <1>0, <2>1
<1>2. CASE \E i \in 1 .. Len(first) : first[i].tok = tok
  <2>1. PICK i \in 1 .. Len(first) : first[i].tok = tok
    BY <1>2
  <2>2. hash_lookup(h, tok) = i - 1
    BY <2>1, LookupRight
  <2> QED BY <1>0, <2>2
<1> QED BY <1>1, <1>2

\* All of a file was added.
FileDone(d, cell, first, k) ==
    /\ d \in SysCells(first)
    /\ \A r \in 0 .. Len(first) - 1, c \in Cols :
            Number(d[r][c]) = IF c = k - 1 THEN ValueOf(nodes[k], first[r + 1].tok)
                              ELSE IF c = total_col THEN Number(cell[r][c]) + ValueOf(nodes[k], first[r + 1].tok)
                              ELSE Number(cell[r][c])
\* Every node has a file.
Files ==
    /\ Shape /\ \A k \in 1 .. num_nodes : FileFits(FileOf(nodes[k])) /\ DOMAIN FileOf(nodes[k]) = 1 .. Len(FileOf(nodes[k]))
\* The column of the node is still empty.
Empty(cell, first, k) == \A r \in 0 .. Len(first) - 1 : Number(cell[r][k - 1]) = 0

\* A file puts its values in the column of its node, and adds them to the totals.
LEMMA FileAdded ==
  \A first, h, k, cell :
    Files /\ Tokens(first) /\ Hashed(h, first, Len(first)) /\ k \in 1 .. num_nodes /\ cell \in SysCells(first) =>
        /\ AddFile(cell, k, h) \in SysCells(first)
        /\ Empty(cell, first, k) => FileDone(AddFile(cell, k, h), cell, first, k)
<1> SUFFICES ASSUME Files, NEW first, Tokens(first), NEW h, Hashed(h, first, Len(first)), NEW k \in 1 .. num_nodes,
                    NEW cell \in SysCells(first), NEW d, d = AddFile(cell, k, h)
             PROVE  d \in SysCells(first) /\ (Empty(cell, first, k) => FileDone(d, cell, first, k))
  OBVIOUS
<1> DEFINE lines == FileOf(nodes[k])
           N == Len(lines)
           S == SysCells(first)
           Row(j) == hash_lookup(h, lines[j].tok)
           Step(m, j) == Put(m, Row(j), k, Value(lines[j]))
           Loop(g) == g = [j \in 0 .. N |-> IF j = 0 THEN cell ELSE Step(g[j - 1], j)]
           step == [j \in 1 .. N |-> [m \in S |-> Step(m, j)]]
<1>0. Shape /\ FileFits(lines) /\ DOMAIN lines = 1 .. N /\ Len(first) \in Nat
  BY DEF Files, Tokens
<1>1. N \in Nat
  BY <1>0 DEF FileFits, Tokens
<1>2. d = (CHOOSE g : Loop(g))[N]
  BY DEF AddFile, FileOf
<1> HIDE DEF N
<1>3. \A j \in 1 .. N : Row(j) \in -1 .. Len(first) - 1 /\ Value(lines[j]) \in Nat
  <2> SUFFICES ASSUME NEW j \in 1 .. N PROVE Row(j) \in -1 .. Len(first) - 1 /\ Value(lines[j]) \in Nat
    OBVIOUS
  <2>1. lines[j].tok \in DOMAIN Hash /\ FileLine(lines[j])
    BY <1>0 DEF FileFits, Tokens, N
  <2>2. Row(j) \in -1 .. Len(first) - 1
    BY <2>1, LookupRange, Zenon
  <2> QED BY <2>1, <2>2, ValueNat
<1>4. \A j \in 1 .. N, m \in S : Step(m, j) \in S
  <2> SUFFICES ASSUME NEW j \in 1 .. N, NEW m \in S PROVE Step(m, j) \in S
    OBVIOUS
  <2> DEFINE row == Row(j)
             v == Value(lines[j])
  <2>1. row \in -1 .. Len(first) - 1 /\ v \in Nat
    BY <1>3
  <2> HIDE DEF row, v
  <2>2. PutTo(Put(m, row, k, v), m, first, row, k, v)
    BY <1>0, <2>1, PutRight, Zenon
  <2>3. Put(m, row, k, v) \in S
    BY <2>2 DEF PutTo
  <2> QED BY <2>3 DEF row, v
<1> HIDE DEF S
<1>7. step \in [1 .. N -> [S -> S]]
  <2> HIDE DEF Step
  <2> QED BY <1>4
<1>8. \E g : Loop(g)
  <2>1. cell \in S
    BY DEF S
  <2> HIDE DEF step
  <2>2. PICK g : Loops(g, S, N, cell, step)
    BY <1>1, <1>7, <2>1, LoopExists, Zenon
  <2>3. g = [j \in 0 .. N |-> g[j]] /\ g[0] = cell
    BY <2>2 DEF Loops
  <2> HIDE DEF Step
  <2>4. ASSUME NEW j \in 1 .. N PROVE g[j] = Step(g[j - 1], j)
    <3>1. j - 1 \in 0 .. N
      BY <1>1
    <3>2. g[j - 1] \in S /\ g[j] = step[j][g[j - 1]]
      BY <2>2, <3>1 DEF Loops
    <3> QED BY <3>2 DEF step
  <2>5. \A j \in 0 .. N : g[j] = IF j = 0 THEN cell ELSE Step(g[j - 1], j)
    <3>1. \A j \in 0 .. N : j = 0 \/ j \in 1 .. N
      BY <1>1
    <3> QED BY <2>3, <2>4, <3>1
  <2> QED BY <2>3, <2>5
<1>9. PICK g : Loop(g) /\ d = g[N]
  <2> HIDE DEF Loop
  <2> QED BY <1>2, <1>8
<1>10. g[0] = cell /\ \A j \in 1 .. N : g[j] = Step(g[j - 1], j)
  <2> HIDE DEF Step
  <2>1. \A j \in 0 .. N : g[j] = IF j = 0 THEN cell ELSE Step(g[j - 1], j)
    BY <1>9
  <2> QED BY <1>1, <2>1
<1> DEFINE G == {j \in 0 .. N : FileSum(g[j], cell, first, k, j)}
<1>11. 0 \in G
  <2>1. FileSum(cell, cell, first, k, 0)
    <3>1. \A t : ~Named(lines, 0, t)
      BY DEF Named
    <3> QED BY <3>1 DEF FileSum
  <2> QED BY <1>1, <1>10, <2>1
<1>12. ASSUME NEW j \in 1 .. N, j - 1 \in G PROVE j \in G
  <2>1. FileSum(g[j - 1], cell, first, k, j - 1)
    BY <1>12
  <2>2. g[j] = Put(g[j - 1], hash_lookup(h, lines[j].tok), k, Value(lines[j]))
    BY <1>10
  <2>3. FileSum(g[j], cell, first, k, j)
    BY <1>0, <2>1, <2>2, FileSumNext DEF N
  <2> QED BY <1>1, <2>3
<1>13. N \in G
  <2> HIDE DEF G
  <2>1. \A j \in 1 .. N : j - 1 \in G => j \in G
    BY <1>12
  <2>2. \A j \in 0 .. N : j \in G
    BY <1>1, <1>11, <2>1, Steps
  <2> QED BY <1>1, <2>2
<1>14. FileSum(d, cell, first, k, N)
  BY <1>9, <1>13
<1>15. ASSUME Empty(cell, first, k) PROVE FileDone(d, cell, first, k)
  <2> SUFFICES ASSUME NEW r \in 0 .. Len(first) - 1, NEW c \in Cols
               PROVE  Number(d[r][c]) = IF c = k - 1 THEN ValueOf(nodes[k], first[r + 1].tok)
                                        ELSE IF c = total_col THEN Number(cell[r][c]) + ValueOf(nodes[k], first[r + 1].tok)
                                        ELSE Number(cell[r][c])
    BY <1>14 DEF FileSum, FileDone
  <2> DEFINE t == first[r + 1].tok
  <2>1. Number(d[r][c]) =
                IF ~Named(lines, N, t) THEN Number(cell[r][c])
                ELSE IF c = k - 1 THEN ValueOf(nodes[k], t)
                ELSE IF c = total_col THEN Number(cell[r][c]) + ValueOf(nodes[k], t)
                ELSE Number(cell[r][c])
    BY <1>14 DEF FileSum
  <2>2. ~Named(lines, N, t) => ValueOf(nodes[k], t) = 0
    BY <1>0, ValueOfIs DEF Named, N
  <2>3. c = k - 1 => Number(cell[r][c]) = 0
    BY <1>15 DEF Empty
  <2>4. Number(cell[r][c]) \in Int
    <3>1. cell[r][c] \in Int
      BY DEF SysCells, Grid
    <3> QED BY <3>1 DEF Number
  <2> HIDE DEF t
  <2> QED BY <2>1, <2>2, <2>3, <2>4 DEF t
<1> QED BY <1>14, <1>15 DEF FileSum

\* The values of the first k files for a token.
Values(k, tok) == [i \in 1 .. k |-> ValueOf(nodes[i], tok)]
\* The table after k files.
FilesSum(d, first, k) ==
    /\ d \in SysCells(first)
    /\ \A r \in 0 .. Len(first) - 1, c \in Cols :
            Number(d[r][c]) = IF c = total_col THEN Total(Values(k, first[r + 1].tok))
                              ELSE IF c < k THEN ValueOf(nodes[c + 1], first[r + 1].tok) ELSE 0

\* Their sum is not negative, and 0 where there are none.
LEMMA ValuesNat ==
  ASSUME Files, NEW k \in 0 .. num_nodes, NEW tok
  PROVE  /\ Values(k, tok) \in [1 .. k -> Nat] /\ Total(Values(k, tok)) \in Nat
         /\ k = 0 => Total(Values(k, tok)) = 0
<1>0. num_nodes \in Nat /\ k \in Nat /\ \A i \in 1 .. k : i \in 1 .. num_nodes
  BY DEF Files, Shape
<1>1. \A i \in 1 .. k : ValueOf(nodes[i], tok) \in Nat
  BY <1>0, ValueOfIs DEF Files
<1> DEFINE f == Values(k, tok)
<1>2. f \in [1 .. k -> Nat]
  BY <1>1 DEF Values
<1> HIDE DEF f
<1>3. f \in [1 .. k -> Int]
  BY <1>2
<1>4. Total(f) \in Nat /\ (k = 0 => Total(f) = 0)
  BY <1>0, <1>2, <1>3, TotalNat, TotalType
<1> QED BY <1>2, <1>4 DEF f

\* One more file.
LEMMA ValuesNext ==
  ASSUME Files, NEW k \in 1 .. num_nodes, NEW tok
  PROVE  Total(Values(k, tok)) = Total(Values(k - 1, tok)) + ValueOf(nodes[k], tok)
<1> DEFINE f == Values(k, tok)
           h == Values(k - 1, tok)
           n == k - 1
<1>1. n \in Nat /\ n + 1 = k /\ k \in 0 .. num_nodes
  BY DEF Files, Shape
<1>2. f \in [1 .. n + 1 -> Int]
  BY <1>1, ValuesNat
<1>3. h = [i \in 1 .. n |-> f[i]] /\ f[n + 1] = ValueOf(nodes[k], tok)
  BY <1>1 DEF Values
<1> HIDE DEF f, h, n
<1>4. Total(f) = Total(h) + f[n + 1]
  BY <1>1, <1>2, <1>3, TotalNext
<1> QED BY <1>3, <1>4 DEF f, h, n

\* All files: each column has the values of its node, the last their sums.
LEMMA FilesAdded ==
  ASSUME Files, NEW first, Tokens(first), NEW h, Hashed(h, first, Len(first)), NEW cell \in SysCells(first),
         \A r \in 0 .. Len(first) - 1, c \in Cols : cell[r][c] = Null, NEW d, d = AddFiles(cell, h)
  PROVE  FilesSum(d, first, num_nodes)
<1> DEFINE N == num_nodes
           S == SysCells(first)
           Step(m, k) == AddFile(m, k, h)
           Loop(g) == g = [k \in 0 .. N |-> IF k = 0 THEN cell ELSE Step(g[k - 1], k)]
           step == [k \in 1 .. N |-> [m \in S |-> Step(m, k)]]
<1>0. Len(first) \in Nat /\ total_col = N /\ Cols = 0 .. N
  BY DEF Tokens, total_col, Cols
<1>1. N \in Nat
  BY DEF Files, Shape
<1>2. d = (CHOOSE g : Loop(g))[N]
  BY DEF AddFiles
<1>3. \A k \in 1 .. N, m \in S :
            Step(m, k) \in S /\ (Empty(m, first, k) => FileDone(Step(m, k), m, first, k))
  BY FileAdded, Zenon
<1> HIDE DEF S, N
<1>7. step \in [1 .. N -> [S -> S]]
  <2> HIDE DEF Step
  <2> QED BY <1>3
<1>8. \E g : Loop(g)
  <2>1. cell \in S
    BY DEF S
  <2> HIDE DEF step
  <2>2. PICK g : Loops(g, S, N, cell, step)
    BY <1>1, <1>7, <2>1, LoopExists, Zenon
  <2>3. g = [k \in 0 .. N |-> g[k]] /\ g[0] = cell
    BY <2>2 DEF Loops
  <2> HIDE DEF Step
  <2>4. ASSUME NEW k \in 1 .. N PROVE g[k] = Step(g[k - 1], k)
    <3>1. k - 1 \in 0 .. N
      BY <1>1
    <3>2. g[k - 1] \in S /\ g[k] = step[k][g[k - 1]]
      BY <2>2, <3>1 DEF Loops
    <3> QED BY <3>2 DEF step
  <2>5. \A k \in 0 .. N : g[k] = IF k = 0 THEN cell ELSE Step(g[k - 1], k)
    <3>1. \A k \in 0 .. N : k = 0 \/ k \in 1 .. N
      BY <1>1
    <3> QED BY <2>3, <2>4, <3>1
  <2> QED BY <2>3, <2>5
<1>9. PICK g : Loop(g) /\ d = g[N]
  <2> HIDE DEF Loop
  <2> QED BY <1>2, <1>8
<1>10. g[0] = cell /\ \A k \in 1 .. N : g[k] = Step(g[k - 1], k)
  <2> HIDE DEF Step
  <2>1. \A k \in 0 .. N : g[k] = IF k = 0 THEN cell ELSE Step(g[k - 1], k)
    BY <1>9
  <2> QED BY <1>1, <2>1
<1> DEFINE G == {k \in 0 .. N : FilesSum(g[k], first, k)}
<1>11. 0 \in G
  <2>1. FilesSum(cell, first, 0)
    <3> SUFFICES ASSUME NEW r \in 0 .. Len(first) - 1, NEW c \in Cols
                 PROVE  Number(cell[r][c]) = IF c = total_col THEN Total(Values(0, first[r + 1].tok))
                                             ELSE IF c < 0 THEN ValueOf(nodes[c + 1], first[r + 1].tok) ELSE 0
      BY DEF FilesSum
    <3>1. Number(cell[r][c]) = 0 /\ ~(c < 0)
      BY <1>0, <1>1 DEF Number, Null
    <3>2. Total(Values(0, first[r + 1].tok)) = 0
      BY <1>1, ValuesNat DEF N
    <3> QED BY <3>1, <3>2
  <2> QED BY <1>1, <1>10, <2>1
<1>12. ASSUME NEW k \in 1 .. N, k - 1 \in G PROVE k \in G
  <2> DEFINE m == g[k - 1]
  <2>1. FilesSum(m, first, k - 1)
    BY <1>12
  <2>2. k - 1 \in Cols /\ k - 1 # total_col /\ ~(k - 1 < k - 1)
    BY <1>0, <1>1
  <2>3. m \in S /\ Empty(m, first, k)
    BY <2>1, <2>2 DEF FilesSum, Empty, S
  <2>4. FileDone(g[k], m, first, k)
    <3> HIDE DEF Step
    <3> QED BY <1>3, <1>10, <2>3
  <2> HIDE DEF m
  <2>5. FilesSum(g[k], first, k)
    <3> SUFFICES ASSUME NEW r \in 0 .. Len(first) - 1, NEW c \in Cols
                 PROVE  Number(g[k][r][c]) = IF c = total_col THEN Total(Values(k, first[r + 1].tok))
                                             ELSE IF c < k THEN ValueOf(nodes[c + 1], first[r + 1].tok) ELSE 0
      BY <2>4 DEF FilesSum, FileDone
    <3> DEFINE t == first[r + 1].tok
    <3>1. Number(m[r][c]) = IF c = total_col THEN Total(Values(k - 1, t))
                            ELSE IF c < k - 1 THEN ValueOf(nodes[c + 1], t) ELSE 0
      BY <2>1 DEF FilesSum
    <3>2. Number(g[k][r][c]) = IF c = k - 1 THEN ValueOf(nodes[k], t)
                               ELSE IF c = total_col THEN Number(m[r][c]) + ValueOf(nodes[k], t)
                               ELSE Number(m[r][c])
      BY <2>4 DEF FileDone
    <3>3. Total(Values(k, t)) = Total(Values(k - 1, t)) + ValueOf(nodes[k], t)
      BY ValuesNext DEF N
    <3>4. c \in Int /\ k \in Int /\ (c = k - 1 => c + 1 = k) /\ (c # k - 1 => (c < k <=> c < k - 1))
      BY <1>0, <1>1
    <3> HIDE DEF t
    <3>5. CASE c = k - 1
      <4>1. c < k /\ c # total_col /\ c + 1 = k
        BY <2>2, <3>4, <3>5
      <4> QED BY <3>2, <3>5, <4>1 DEF t
    <3>6. CASE c # k - 1
      BY <3>1, <3>2, <3>3, <3>4, <3>6 DEF t
    <3> QED BY <3>5, <3>6
  <2> QED BY <1>1, <2>5
<1>13. N \in G
  <2> HIDE DEF G
  <2>1. \A k \in 1 .. N : k - 1 \in G => k \in G
    BY <1>12
  <2>2. \A k \in 0 .. N : k \in G
    BY <1>1, <1>11, <2>1, Steps
  <2> QED BY <1>1, <2>2
<1> QED BY <1>9, <1>13 DEF N

\* What SystemTableRight says of one table.
System(s) ==
    ~Process(s) =>
        LET first == world.files[nodes[1]]
        IN \A r \in 0 .. Len(first) - 1, c \in Cols :
                Number(s.cell[r][c]) = OnNode(c, [n \in Range(nodes) |-> ValueOf(n, first[r + 1].tok)])

\* What is known of the files of nodes.
LEMMA FilesRight ==
  ASSUME PidInv, FlagsRight, NodesRight, nodes # <<>>, Range(nodes) \subseteq DOMAIN world.files
  PROVE  /\ Files /\ Tokens(FileOf(nodes[1]))
<1>0. Shape /\ World(world) /\ num_nodes \in Nat /\ DOMAIN nodes = 1 .. num_nodes /\ 1 \in 1 .. num_nodes
  <2>1. Shape /\ World(world)
    BY Shapes, NumastatAssumption DEF PidInv, ShownSoFar
  <2> QED BY <2>1 DEF Shape, num_nodes
<1>1. ASSUME NEW k \in 1 .. num_nodes
      PROVE  FileFits(FileOf(nodes[k])) /\ DOMAIN FileOf(nodes[k]) = 1 .. Len(FileOf(nodes[k]))
  <2> DEFINE lines == FileOf(nodes[k])
  <2>1. nodes[k] \in DOMAIN world.files
    BY <1>0 DEF Range
  <2>2. /\ lines \in Seq(Range(lines)) /\ \A l \in Range(lines) : FileLine(l)
        /\ \A i, j \in DOMAIN lines : lines[i].tok = lines[j].tok => i = j
    BY <1>0, <2>1 DEF World, FileOf
  <2> HIDE DEF lines
  <2>3. Len(lines) \in Nat /\ DOMAIN lines = 1 .. Len(lines)
    BY <2>2
  <2>4. \A i \in 1 .. Len(lines) : FileLine(lines[i])
    BY <2>2, <2>3 DEF Range
  <2>5. \A i \in 1 .. Len(lines) : lines[i].tok \in DOMAIN Hash
    BY <2>4 DEF FileLine
  <2> QED BY <2>2, <2>3, <2>4, <2>5 DEF FileFits, Tokens, lines
<1> QED BY <1>0, <1>1 DEF Files, FileFits

\* A table made of the files has what they say.
LEMMA SystemCells ==
  ASSUME PidInv, FlagsRight, NodesRight, nodes # <<>>, Range(nodes) \subseteq DOMAIN world.files,
         NEW first, first = world.files[nodes[1]],
         NEW t, t = [init_table(Len(first)) EXCEPT !.cell = AddFiles(@, RowHash(first))]
  PROVE  /\ Len(first) \in Nat /\ t \in Sheets(0 .. Len(first) - 1, Len(first))
         /\ Ordered(t.map, t.map, Len(first), Len(first))
         /\ \A r \in 0 .. Len(first) - 1, c \in Cols :
                Number(t.cell[r][c]) = OnNode(c, [n \in Range(nodes) |-> ValueOf(n, first[r + 1].tok)])
<1> DEFINE n == Len(first)
           x == Filled(n, Null)
           d == AddFiles(x, RowHash(first))
           id == [k \in 1 .. n |-> k - 1]
<1>0. Files /\ Tokens(first) /\ n \in Nat /\ num_nodes \in Nat /\ DOMAIN nodes = 1 .. num_nodes
      /\ total_col = num_nodes /\ Cols = 0 .. num_nodes
  <2>1. Files /\ Tokens(first)
    BY FilesRight DEF FileOf
  <2> QED BY <2>1 DEF Tokens, Files, Shape, num_nodes, Cols, total_col
<1>1. t = [cell |-> d, map |-> id, seenR |-> {}, seenC |-> {}, fullR |-> {}, fullC |-> {}]
  BY DEF init_table, NoTable
<1>2. x \in SysCells(first) /\ \A r \in 0 .. n - 1, c \in Cols : x[r][c] = Null
  BY DEF Filled, SysCells, Grid, Null
<1>3. Hashed(RowHash(first), first, n)
  BY <1>0, RowHashRight
<1> HIDE DEF x
<1>4. FilesSum(d, first, num_nodes)
  BY <1>0, <1>2, <1>3, FilesAdded
<1> HIDE DEF d
<1>5. id \in [1 .. n -> Nat] /\ OrderRight(id, n)
  <2>1. \A k \in 1 .. n : k - 1 \in Nat /\ k - 1 \in 0 .. n - 1
    BY <1>0
  <2>2. ASSUME NEW r \in 0 .. n - 1 PROVE \E k \in 1 .. n : id[k] = r
    <3>1. r + 1 \in 1 .. n /\ (r + 1) - 1 = r
      BY <1>0
    <3>2. id[r + 1] = r
      BY <3>1
    <3> QED BY <3>1, <3>2
  <2> QED BY <2>1, <2>2 DEF OrderRight
<1> HIDE DEF id
<1>6. t.cell = d /\ t.map = id
  BY <1>1
<1>7. t \in Sheets(0 .. n - 1, n)
  BY <1>1, <1>4, <1>5 DEF Sheets, FilesSum, SysCells
<1>8. Ordered(id, id, n, n)
  BY <1>5 DEF Ordered
<1>9. ASSUME NEW r \in 0 .. n - 1, NEW c \in Cols
      PROVE  Number(d[r][c]) = OnNode(c, [m \in Range(nodes) |-> ValueOf(m, first[r + 1].tok)])
  <2> DEFINE tok == first[r + 1].tok
             f == [m \in Range(nodes) |-> ValueOf(m, tok)]
  <2>1. Number(d[r][c]) = IF c = total_col THEN Total(Values(num_nodes, tok))
                          ELSE IF c < num_nodes THEN ValueOf(nodes[c + 1], tok) ELSE 0
    BY <1>4 DEF FilesSum
  <2>2. \A k \in 1 .. num_nodes : nodes[k] \in Range(nodes) /\ f[nodes[k]] = ValueOf(nodes[k], tok)
    BY <1>0 DEF Range
  <2> HIDE DEF f, tok
  <2>3. CASE c = total_col
    <3>1. Values(num_nodes, tok) = [k \in 1 .. num_nodes |-> f[nodes[k]]]
      BY <2>2 DEF Values
    <3> QED BY <2>1, <2>3, <3>1 DEF OnNode, f, tok
  <2>4. CASE c # total_col
    <3>1. c < num_nodes /\ c + 1 \in 1 .. num_nodes
      BY <1>0, <2>4
    <3>2. OnNode(c, f) = f[nodes[c + 1]]
      BY <2>4 DEF OnNode
    <3> QED BY <2>1, <2>2, <2>4, <3>1, <3>2 DEF f, tok
  <2> QED BY <2>3, <2>4
<1> QED BY <1>0, <1>6, <1>7, <1>8, <1>9

\* A table of the system that is shown is complete, in order and has what the files say.
LEMMA SystemShown ==
  ASSUME PidInv, FlagsRight, NodesRight, nodes # <<>>, NEW kind, kind # "process", NEW next,
         show_info_from_system_file(kind, next)
  PROVE  shown' = shown \/ \E s : /\ shown' = Append(shown, s) /\ ~Process(s)
                                  /\ System(s) /\ Complete(s) /\ Asked(s)
                                  /\ ~flags.zero => NoZeros(s)
<1>1. CASE ~(Range(nodes) \subseteq DOMAIN world.files)
  BY <1>1 DEF show_info_from_system_file, Stop
<1>2. CASE Range(nodes) \subseteq DOMAIN world.files
  <2> DEFINE first == world.files[nodes[1]]
             n == Len(first)
             t == [init_table(n) EXCEPT !.cell = AddFiles(@, RowHash(first))]
  <2>1. PICK map \in Sortings(t, n), width \in Widths :
            shown' = Append(shown, display_table(kind, 0, Marked([t EXCEPT !.map = map]), width))
    BY <1>2 DEF show_info_from_system_file
  <2>2. /\ n \in Nat /\ t \in Sheets(0 .. n - 1, n) /\ Ordered(t.map, t.map, n, n)
        /\ \A r \in 0 .. n - 1, c \in Cols :
               Number(t.cell[r][c]) = OnNode(c, [m \in Range(nodes) |-> ValueOf(m, first[r + 1].tok)])
    BY <1>2, SystemCells
  <2>3. Shape /\ num_nodes \in Nat
    BY Shapes DEF Shape
  <2>14. t.fullR = {} /\ t.fullC = {}
    BY DEF init_table, NoTable
  <2> HIDE DEF t, n
  <2> DEFINE u == [t EXCEPT !.map = map]
             s == display_table(kind, 0, Marked(u), width)
             R == 0 .. n - 1
  <2>4. \A r \in 0 .. n - 1, c \in Cols : t.cell[r][c] \in Int
    BY <2>2 DEF Sheets, Grid
  <2>5. /\ Ordered(map, t.map, n, n)
        /\ flags.sort /\ sort_col \in Cols => Falls(map, n, n, t.cell, sort_col)
    <3>1. n \in 0 .. n
      BY <2>2
    <3> QED BY <2>1, <2>2, <2>4, <3>1, SortingsRight
  <2>6. map \in [1 .. n -> Nat] /\ OrderRight(map, n)
    BY <2>5 DEF Ordered
  <2>7. u \in Sheets(R, n) /\ u.cell = t.cell /\ u.map = map /\ u.fullR = {} /\ u.fullC = {}
    <3>1. u = [cell |-> t.cell, map |-> map, seenR |-> t.seenR, seenC |-> t.seenC,
               fullR |-> t.fullR, fullC |-> t.fullC]
      BY <2>2 DEF Sheets
    <3> QED BY <2>2, <2>6, <2>14, <3>1 DEF Sheets
  <2> HIDE DEF u
  <2>8. Onto(u.map, R, n) /\ R \in SUBSET Nat
    BY <2>2, <2>6, <2>7 DEF Onto, OrderRight
  <2>9. s.kind = kind /\ s.cell = t.cell /\ s.order = map /\ Complete(s)
    <3>1. Displays(s, u, kind, 0)
      BY <2>1, <2>2, <2>3, <2>7, <2>8, Displayed, Zenon
    <3> QED BY <2>7, <3>1 DEF Displays
  <2>10. shown' = Append(shown, s)
    BY <2>1 DEF u
  <2>15. ~flags.zero => NoZeros(s)
    BY <2>1, <2>3, <2>7, <2>8, Hides, Zenon
  <2> HIDE DEF s
  <2>11. ~Process(s) /\ System(s)
    BY <2>2, <2>9 DEF Process, System, n, first
  <2>12. DataRows(s) \subseteq 1 .. n
    BY <2>6, <2>9 DEF DataRows
  <2>13. Asked(s)
    BY <2>2, <2>3, <2>5, <2>9, <2>12, AskedRight
  <2> QED BY <2>9, <2>10, <2>11, <2>13, <2>15
<1> QED BY <1>1, <1>2

\* A step of the system shows such a table or none.
LEMMA SystemAdds ==
  ASSUME PidInv, FlagsRight, NodesRight, ShowSystem \/ ShowNumastat
  PROVE  /\ UNCHANGED <<world, flags, list, asked, starved, nodes, nargs>>
         /\ phase \in {"system", "numastat"} /\ phase' \in {"numastat", "done", "failed"}
         /\ shown' = shown \/ \E s : /\ shown' = Append(shown, s) /\ ~Process(s)
                                     /\ System(s) /\ Complete(s) /\ Asked(s)
                                     /\ ~flags.zero => NoZeros(s)
<1>1. /\ UNCHANGED <<world, flags, list, asked, starved, nodes, nargs>>
      /\ phase \in {"system", "numastat"} /\ phase' \in {"numastat", "done", "failed"}
      /\ \/ shown' = shown
         \/ show_info_from_system_file("meminfo", "numastat")
         \/ show_info_from_system_file("numastat", "done")
  BY DEF ShowSystem, ShowNumastat, show_info_from_system_file, Stop
<1>2. nodes # <<>>
  BY <1>1 DEF NodesRight
<1>3. "meminfo" # "process" /\ "numastat" # "process"
  OBVIOUS
<1> QED BY <1>1, <1>2, <1>3, SystemShown

----------------------------------------------------------------------------
(* The invariant *)

\* SystemTableRight is about each table by itself,
LEMMA SystemRightOf == SystemTableRight <=> \A s \in Tables : System(s)
BY Zenon DEF SystemTableRight, System

\* also after a step,
LEMMA ShownRightNext == PrintedRight' <=> \A s \in Tables' : Complete(s)' /\ Asked(s)'
<1>1. DisplayComplete' <=> \A s \in Tables' : Complete(s)'
  BY Zenon DEF DisplayComplete, Complete, Narrowed, Lexical, Holds, LineWidth
<1>2. SortedAsAsked' <=> \A s \in Tables' : Asked(s)'
  BY Zenon DEF SortedAsAsked, Asked, DataRows, AskedCol
<1> QED BY <1>1, <1>2 DEF PrintedRight

\* and so it is after a step.
LEMMA SystemRightNext == SystemTableRight' <=> \A s \in Tables' : System(s)'
BY Zenon DEF SystemTableRight, System

\* A table that was shown stays as right as it was while what it was made of stays.
LEMMA ShownKept ==
  ASSUME UNCHANGED <<flags, list, nodes>>, NEW s
  PROVE  (Complete(s)' <=> Complete(s)) /\ (Asked(s)' <=> Asked(s))
<1>1. Cols' = Cols /\ data_rows' = data_rows /\ AskedCol' = AskedCol
  BY DEF Cols, data_rows, num_nodes, num_pids, show_sub_categories, AskedCol, total_col
<1>2. DataRows(s)' = DataRows(s)
  BY <1>1 DEF DataRows, Process
<1>3. Complete(s)' <=> Complete(s)
  BY <1>1, Zenon DEF Complete, Rows
<1>4. Asked(s)' <=> Asked(s)
  BY <1>1, <1>2 DEF Asked, Number
<1> QED BY <1>3, <1>4

\* What the files say of a row and a column.
Given(r, c) == OnNode(c, [n \in Range(nodes) |-> ValueOf(n, world.files[nodes[1]][r + 1].tok)])

\* A table from sysfs stays right while the files and the nodes stay.
LEMMA SystemKept ==
  ASSUME UNCHANGED <<world, nodes, nargs>>, NEW s, System(s)
  PROVE  System(s)'
<1>1. Cols' = Cols /\ num_nodes' = num_nodes /\ total_col' = total_col
  BY DEF Cols, num_nodes, total_col
<1>2. ASSUME NEW n, NEW tok PROVE ValueOf(n, tok)' = ValueOf(n, tok)
  <2>1. \A l : Value(l)' = Value(l)
    BY DEF Value
  <2> QED BY <2>1 DEF ValueOf
<1>3. ASSUME NEW r, NEW c PROVE Given(r, c)' = Given(r, c)
  <2> DEFINE f == [n \in Range(nodes) |-> ValueOf(n, world.files[nodes[1]][r + 1].tok)]
  <2>1. f' = f
    BY <1>2 DEF ValueOf, Value
  <2> QED BY <1>1, <2>1 DEF OnNode, Given
<1> SUFFICES ASSUME ~Process(s) PROVE System(s)'
  BY DEF System, Process
<1>4. \A r \in 0 .. Len(world.files[nodes[1]]) - 1, c \in Cols : Number(s.cell[r][c]) = Given(r, c)
  BY Zenon DEF System, Given
<1>5. \A r \in 0 .. Len(world.files[nodes[1]])' - 1, c \in Cols' : Number(s.cell[r][c]) = Given(r, c)'
  BY <1>1, <1>3, <1>4
<1> QED BY <1>5, Zenon DEF System, Given, Process

\* A table of zeros agrees with its totals.
Zeros(cell, D, K) ==
    /\ cell \in [0 .. D + 1 -> [0 .. K -> Int]]
    /\ \A r \in 0 .. D + 1, c \in 0 .. K : cell[r][c] = 0
    /\ \A c \in 0 .. K : Total([r \in 1 .. D |-> cell[r - 1][c]]) = 0
    /\ \A r \in 0 .. D - 1 : Total([k \in 1 .. K |-> cell[r][k - 1]]) = 0

\* The table that is made at first is such a table.
LEMMA ZerosRight ==
  ASSUME NEW D \in Nat, NEW K \in Nat, NEW cell, cell = [r \in 0 .. D + 1 |-> [c \in 0 .. K |-> 0]]
  PROVE  Zeros(cell, D, K)
<1>1. /\ cell \in [0 .. D + 1 -> [0 .. K -> Int]]
      /\ \A r \in 0 .. D + 1, c \in 0 .. K : cell[r][c] = 0
  OBVIOUS
<1>2. ASSUME NEW c \in 0 .. K PROVE Total([r \in 1 .. D |-> cell[r - 1][c]]) = 0
  <2> DEFINE f == [r \in 1 .. D |-> cell[r - 1][c]]
  <2>1. \A r \in 1 .. D : r - 1 \in 0 .. D + 1
    OBVIOUS
  <2>2. f \in [1 .. D -> Nat] /\ \A r \in 1 .. D : f[r] = 0
    BY <1>1, <2>1
  <2> HIDE DEF f
  <2>3. Total(f) = 0
    BY <2>2, TotalNat
  <2> QED BY <2>3 DEF f
<1>3. ASSUME NEW r \in 0 .. D - 1 PROVE Total([k \in 1 .. K |-> cell[r][k - 1]]) = 0
  <2> DEFINE f == [k \in 1 .. K |-> cell[r][k - 1]]
  <2>1. r \in 0 .. D + 1 /\ \A k \in 1 .. K : k - 1 \in 0 .. K
    OBVIOUS
  <2>2. f \in [1 .. K -> Nat] /\ \A k \in 1 .. K : f[k] = 0
    BY <1>1, <2>1
  <2> HIDE DEF f
  <2>3. Total(f) = 0
    BY <2>2, TotalNat
  <2> QED BY <2>3 DEF f
<1> QED BY <1>1, <1>2, <1>3 DEF Zeros

\* The directories are as many as the nodes in order.
LEMMA NodesListed ==
  ASSUME NEW w \in Worlds, NEW s, s = Ascending(Range(w.dirs)), w.dirs # <<>>
  PROVE  /\ s \in Seq(Nat) /\ Range(s) = Range(w.dirs) /\ Len(s) = Len(w.dirs) /\ s # <<>>
         /\ \A j, k \in 1 .. Len(s) : j < k => s[j] < s[k]
<1> DEFINE d == w.dirs
<1>1. d \in Seq(Nat) /\ \A a, b \in DOMAIN d : d[a] = d[b] => a = b
  BY NumastatAssumption DEF World, IsInjective
<1>2. Len(d) \in Nat /\ DOMAIN d = 1 .. Len(d)
  BY <1>1
<1>3. Range(d) \in SUBSET Nat /\ IsFiniteSet(Range(d))
  BY <1>1, RangeFinite
<1>4. Cardinality(Range(d)) = Len(d)
  <2>1. IsFiniteSet(1 .. Len(d)) /\ Cardinality(1 .. Len(d)) = Len(d)
    BY <1>2, FS_Interval
  <2>2. d \in Bijection(1 .. Len(d), Range(d))
    <3>1. d \in [1 .. Len(d) -> Range(d)]
      BY <1>1, <1>2 DEF Range
    <3> QED BY <1>1, <1>2, <3>1 DEF Range, Bijection, Injection, Surjection, IsInjective
  <2>3. ExistsBijection(1 .. Len(d), Range(d))
    BY <2>2 DEF ExistsBijection
  <2> QED BY <2>1, <2>3, FS_Bijection
<1>5. /\ s \in Seq(Nat) /\ Range(s) = Range(d) /\ Len(s) = Len(d)
      /\ \A j, k \in 1 .. Len(s) : j < k => s[j] < s[k]
  BY <1>3, <1>4, Ascends
<1>6. s # <<>>
  <2>1. Len(d) # 0
    BY <1>1
  <2> QED BY <1>2, <1>5, <2>1
<1> QED BY <1>5, <1>6

\* The table of processes starts with zeros, a column for each node and the rows in their order.
LEMMA BeginTable ==
  ASSUME TableInv, Begin
  PROVE  FlagsRight' /\ NodesRight' /\ CellsRight' /\ MapRight' /\ shown' = <<>>
<1>1. /\ UNCHANGED <<world, flags, asked, starved, ix, shown, nargs>> /\ phase = "args"
      /\ nodes = <<>> /\ shown = <<>> /\ world \in Worlds /\ ix = 1
  BY DEF Begin, TableInv, NodesRight, PidInv, ShownSoFar
<1>2. FlagsRight' /\ shown' = <<>>
  BY <1>1 DEF TableInv, FlagsRight
<1>3. CASE world.dirs = <<>>
  <2>1. phase' = "failed" /\ nodes' = <<>>
    BY <1>1, <1>3 DEF Begin
  <2>2. NodesRight'
    BY <2>1 DEF NodesRight, num_nodes
  <2> QED BY <1>2, <2>1, <2>2 DEF CellsRight, MapRight
<1>4. CASE world.dirs # <<>>
  <2> DEFINE pids == sort_pids_and_remove_duplicates(list.pids)
             sub == flags.verbose \/ Len(pids) = 1
             D == IF sub THEN 4 ELSE Len(pids)
             K == Len(world.dirs)
             cell == [r \in 0 .. D + 1 |-> [c \in 0 .. K |-> 0]]
             map == [k \in 1 .. D + 2 |-> k - 1]
  <2>1. list.pids \in Seq(Nat) /\ list \in Lists
    BY DEF TableInv, PidInv, Listed, Lists
  <2>2. pids \in Seq(Nat) /\ Len(pids) \in Nat /\ D \in Nat
    BY <2>1, SortedPids
  <2>3. list' = [list EXCEPT !.pids = pids] /\ nodes' = Ascending(Range(world.dirs))
        /\ phase' = IF pids = <<>> THEN "system" ELSE "pids"
    BY <1>4 DEF Begin
  <2>4. phase' = "pids" => table' = [NoTable EXCEPT !.cell = [r \in 0 .. (D + 2) - 1 |-> [c \in 0 .. K |-> 0]],
                                                    !.map = map]
    BY <1>4, <2>3 DEF Begin, PROCESS_MEMINFO_ROWS
  <2>5. /\ nodes' \in Seq(Nat) /\ Range(nodes') = Range(world.dirs) /\ Len(nodes') = K /\ nodes' # <<>>
        /\ \A j, k \in 1 .. Len(nodes') : j < k => nodes'[j] < nodes'[k]
    BY <1>1, <1>4, <2>3, NodesListed
  <2>6. NodesRight'
    BY <1>1, <2>3, <2>5 DEF NodesRight, num_nodes
  <2>7. list'.pids = pids
    BY <2>1, <2>2, <2>3, SortedList
  <2> HIDE DEF pids
  <2>8. /\ (show_sub_categories' <=> sub) /\ data_rows' = D /\ total_row' = D + 1 /\ Cols' = 0 .. K
        /\ total_col' = K /\ num_nodes' = K /\ K \in Nat /\ num_pids' = Len(pids)
    <3>1. K \in Nat
      BY <2>5
    <3> HIDE DEF K
    <3> QED BY <1>1, <2>5, <2>7, <3>1 DEF show_sub_categories, data_rows, total_row, Cols, total_col, num_nodes, num_pids,
                PROCESS_MEMINFO_ROWS
  <2> HIDE DEF D, K
  <2>9. ASSUME phase' = "pids"
        PROVE  table' = [cell |-> cell, map |-> map, seenR |-> {}, seenC |-> {}, fullR |-> {}, fullC |-> {}]
    <3>1. (D + 2) - 1 = D + 1
      BY <2>2
    <3> HIDE DEF map
    <3> QED BY <2>4, <2>9, <3>1 DEF NoTable
  <2>10. Zeros(cell, D, K)
    BY <2>2, <2>8, ZerosRight
  <2>11. /\ map \in Seq(Nat) /\ Len(map) = D + 2 /\ OrderRight(map, D)
         /\ map[D + 1] = D /\ map[D + 2] = D + 1
    <3>1. \A k \in 1 .. D + 2 : k - 1 \in Nat
      OBVIOUS
    <3>2. map \in [1 .. D + 2 -> Nat] /\ D + 2 \in Nat
      BY <2>2, <3>1
    <3>3. map \in Seq(Nat) /\ Len(map) = D + 2
      BY <3>2
    <3>4. map[D + 1] = D /\ map[D + 2] = D + 1
      BY <2>2
    <3>5. \A k \in 1 .. D : k \in 1 .. D + 2 /\ map[k] \in 0 .. D - 1
      BY <2>2
    <3>6. ASSUME NEW r \in 0 .. D - 1 PROVE \E k \in 1 .. D : map[k] = r
      <4>1. r + 1 \in 1 .. D /\ r + 1 \in 1 .. D + 2 /\ (r + 1) - 1 = r
        BY <2>2
      <4>2. map[r + 1] = r
        BY <4>1
      <4> QED BY <4>1, <4>2
    <3> QED BY <3>3, <3>4, <3>5, <3>6 DEF OrderRight
  <2> HIDE DEF cell, map, sub
  <2>12. Cells' = [0 .. D + 1 -> [0 .. K -> Int]]
    BY <2>8 DEF Cells
  <2>13. CellsRight'
    <3> SUFFICES ASSUME phase' = "pids" PROVE CellsRight'
      BY DEF CellsRight
    <3>1. table'.cell = cell
      BY <2>9
    <3>2. cell \in Cells' /\ \A r \in 0 .. D + 1, c \in 0 .. K : cell[r][c] = 0
      BY <2>10, <2>12 DEF Zeros
    <3>3. /\ \A r \in 0 .. D - 1 : r \in 0 .. D + 1
          /\ D + 1 \in 0 .. D + 1 /\ K \in 0 .. K
      BY <2>2, <2>8
    <3>4. Summed(table.cell)'
      <4>1. \A r \in (0 .. D - 1) \cup {D + 1}, c \in 0 .. K : table'.cell[r][c] >= 0
        BY <3>1, <3>2, <3>3
      <4>2. \A c \in 0 .. K : table'.cell[D + 1][c] = Total([r \in 1 .. D |-> table'.cell[r - 1][c]])
        BY <2>10, <3>1, <3>2, <3>3 DEF Zeros
      <4>3. \A r \in 0 .. D - 1 : table'.cell[r][K] = Total([k \in 1 .. K |-> table'.cell[r][k - 1]])
        BY <2>10, <3>1, <3>2, <3>3 DEF Zeros
      <4> QED BY <2>8, <4>1, <4>2, <4>3 DEF Summed
    <3> QED BY <2>8, <3>1, <3>2, <3>3, <3>4 DEF CellsRight
  <2>14. MapRight'
    <3> SUFFICES ASSUME phase' = "pids" PROVE MapRight'
      BY DEF MapRight
    <3>1. cell \in Cells'
      BY <2>10, <2>12 DEF Zeros
    <3>2. table' \in [cell : Cells', map : Seq(Nat), seenR : SUBSET Nat, seenC : SUBSET Cols',
                      fullR : SUBSET Nat, fullC : SUBSET Cols'] /\ table'.map = map
      BY <2>9, <2>11, <3>1
    <3> QED BY <2>8, <2>11, <3>2 DEF MapRight, OrderRight
  <2> QED BY <1>2, <2>6, <2>13, <2>14
<1> QED BY <1>3, <1>4

\* What the tables shown so far are.
Earlier == phase \in {"args", "pids"} => \A s \in Tables : Process(s)

\* Nothing was shown yet.
LEMMA NoneShown ==
  ASSUME shown' = <<>>
  PROVE  Earlier' /\ SystemTableRight' /\ PrintedRight'
<1>1. Tables' = {}
  BY DEF Tables, Range
<1> QED BY <1>1, ShownRightNext, SystemRightNext DEF Earlier

\* Tables are only added, by steps that leave alone what the earlier ones were made of.
LEMMA OneShown ==
  ASSUME TableInv, UNCHANGED <<world, flags, list, nodes, nargs>>,
         phase' \in {"args", "pids"} => phase \in {"args", "pids"},
         shown' = shown \/ \E s : /\ shown' = Append(shown, s) /\ System(s) /\ Complete(s) /\ Asked(s)
                                  /\ phase' \in {"args", "pids"} => Process(s)
  PROVE  Earlier' /\ SystemTableRight' /\ PrintedRight'
<1>1. \A s \in Tables : System(s) /\ Complete(s) /\ Asked(s) /\ (phase \in {"args", "pids"} => Process(s))
  BY ShownRightOf, SystemRightOf DEF TableInv
<1>2. \A s \in Tables' : System(s) /\ Complete(s) /\ Asked(s) /\ (phase' \in {"args", "pids"} => Process(s))
  <2>1. CASE shown' = shown
    BY <1>1, <2>1 DEF Tables
  <2>2. CASE shown' # shown
    <3>1. PICK s : /\ shown' = Append(shown, s) /\ System(s) /\ Complete(s) /\ Asked(s)
                   /\ phase' \in {"args", "pids"} => Process(s)
      BY <2>2
    <3>2. Tables' = Tables \cup {s}
      BY <3>1, AppendTables DEF TableInv, PidInv, ShownSoFar
    <3> QED BY <1>1, <3>1, <3>2
  <2> QED BY <2>1, <2>2
<1>3. ASSUME NEW s \in Tables' PROVE System(s)' /\ Complete(s)' /\ Asked(s)'
  BY <1>2, ShownKept, SystemKept
<1>4. \A s : Process(s)' <=> Process(s)
  BY DEF Process
<1> QED BY <1>2, <1>3, <1>4, ShownRightNext, SystemRightNext DEF Earlier

\* Nothing is shown at the start.
LEMMA TableInit == Init => TableInv
<1> SUFFICES ASSUME Init PROVE TableInv
  OBVIOUS
<1>1. PidInv
  BY PidInit
<1>2. FlagsRight /\ NodesRight /\ CellsRight /\ MapRight
  BY DEF Init, FlagsRight, NodesRight, CellsRight, MapRight, num_nodes
<1>3. Tables = {}
  BY DEF Init, Tables, Range
<1> QED BY <1>1, <1>2, <1>3, ShownRightOf, SystemRightOf DEF TableInv

\* Arguments come before any table.
LEMMA ArgTable ==
  ASSUME TableInv, PidInv',
         Option \/ \E pids, memory : AddPids(pids, memory)
  PROVE  TableInv'
<1>1. /\ phase = "args" /\ nargs' = nargs + 1 /\ UNCHANGED <<world, nodes, table, ix, shown>>
      /\ phase' \in {"args", "crashed"}
  BY DEF Option, AddPids, SetFlags, Arg
<1>2. nodes' = <<>> /\ shown' = <<>>
  BY <1>1 DEF TableInv, NodesRight
<1>3. FlagsRight'
  <2>0. FlagsRight
    BY DEF TableInv
  <2>1. CASE \E pids, memory : AddPids(pids, memory)
    BY <1>1, <2>0, <2>1 DEF AddPids, FlagsRight
  <2>2. CASE Option
    <3>1. nargs \in Nat /\ nargs + 1 \in Nat /\ flags.node \in Int /\ flags.node >= -1
      BY <2>0 DEF FlagsRight
    <3>2. \/ flags' = [flags EXCEPT !.verbose = TRUE]
          \/ flags' = [flags EXCEPT !.zero = FALSE]
          \/ flags' = [flags EXCEPT !.compress = TRUE]
          \/ flags' = [flags EXCEPT !.system = TRUE]
          \/ flags' = [flags EXCEPT !.numastat = TRUE]
          \/ \E n \in {flags.node} \cup 0 .. 2 : flags' = [flags EXCEPT !.sort = TRUE, !.node = n]
      BY <2>2 DEF Option, SetFlags
    <3>3. CASE \E n \in {flags.node} \cup 0 .. 2 : flags' = [flags EXCEPT !.sort = TRUE, !.node = n]
      <4>1. PICK n \in {flags.node} \cup 0 .. 2 : flags' = [flags EXCEPT !.sort = TRUE, !.node = n]
        BY <3>3
      <4>2. n \in Int /\ n >= -1
        BY <3>1
      <4> QED BY <1>1, <2>0, <3>1, <4>1, <4>2 DEF FlagsRight
    <3>4. CASE flags' = [flags EXCEPT !.verbose = TRUE]
      BY <1>1, <2>0, <3>1, <3>4 DEF FlagsRight
    <3>5. CASE flags' = [flags EXCEPT !.zero = FALSE]
      BY <1>1, <2>0, <3>1, <3>5 DEF FlagsRight
    <3>6. CASE flags' = [flags EXCEPT !.compress = TRUE]
      BY <1>1, <2>0, <3>1, <3>6 DEF FlagsRight
    <3>7. CASE flags' = [flags EXCEPT !.system = TRUE]
      BY <1>1, <2>0, <3>1, <3>7 DEF FlagsRight
    <3>8. CASE flags' = [flags EXCEPT !.numastat = TRUE]
      BY <1>1, <2>0, <3>1, <3>8 DEF FlagsRight
    <3> QED BY <3>2, <3>3, <3>4, <3>5, <3>6, <3>7, <3>8
  <2> QED BY <2>1, <2>2
<1>4. NodesRight' /\ CellsRight' /\ MapRight'
  BY <1>1, <1>2 DEF NodesRight, CellsRight, MapRight, num_nodes
<1> QED BY <1>2, <1>3, <1>4, NoneShown DEF TableInv, Earlier

\* One turn of the loop over the processes.
LEMMA PidStepTable ==
  ASSUME TableInv, PidInv', ShowPid
  PROVE  TableInv'
<1>1. Reading /\ MapRight
  BY ShowPidCases DEF TableInv, Reading
<1>2. UNCHANGED <<world, flags, list, nodes, nargs>> /\ phase = "pids" /\ phase' \in {"failed", "crashed", "pids"}
  BY ShowPidCases, ShowPidEffect DEF TableInv
<1>3. /\ MapRight' /\ CellsRight'
      /\ shown' = shown \/ \E s : shown' = Append(shown, s) /\ Process(s) /\ Complete(s) /\ Asked(s)
  BY <1>1, PidMap, PidCells
<1>4. Earlier' /\ SystemTableRight' /\ PrintedRight'
  <2>1. \A s : Process(s) => System(s)
    BY DEF System
  <2> QED BY <1>2, <1>3, <2>1, OneShown
<1>5. FlagsRight' /\ NodesRight'
  BY <1>2 DEF TableInv, FlagsRight, NodesRight, num_nodes
<1> QED BY <1>3, <1>4, <1>5 DEF TableInv, Earlier

\* The loop ends.
LEMMA EndTable ==
  ASSUME TableInv, PidInv', EndPids
  PROVE  TableInv'
<1>1. /\ UNCHANGED <<world, flags, list, nodes, nargs>> /\ shown' = shown /\ phase = "pids" /\ phase' = "system"
  BY DEF EndPids
<1>2. Earlier' /\ SystemTableRight' /\ PrintedRight'
  BY <1>1, OneShown
<1>3. FlagsRight' /\ NodesRight' /\ CellsRight' /\ MapRight'
  BY <1>1 DEF TableInv, FlagsRight, NodesRight, num_nodes, CellsRight, MapRight
<1> QED BY <1>2, <1>3 DEF TableInv, Earlier

\* The tables of the system.
LEMMA SystemStepTable ==
  ASSUME TableInv, PidInv', ShowSystem \/ ShowNumastat
  PROVE  TableInv'
<1>1. /\ UNCHANGED <<world, flags, list, asked, starved, nodes, nargs>>
      /\ phase \in {"system", "numastat"} /\ phase' \in {"numastat", "done", "failed"}
      /\ shown' = shown \/ \E s : /\ shown' = Append(shown, s) /\ ~Process(s)
                                  /\ System(s) /\ Complete(s) /\ Asked(s)
  BY SystemAdds DEF TableInv
<1>2. Earlier' /\ SystemTableRight' /\ PrintedRight'
  BY <1>1, OneShown
<1>3. FlagsRight' /\ NodesRight' /\ CellsRight' /\ MapRight'
  BY <1>1 DEF TableInv, FlagsRight, NodesRight, num_nodes, CellsRight, MapRight
<1> QED BY <1>2, <1>3 DEF TableInv, Earlier

\* Before a table is made of the files of nodes, the system may change.
LEMMA HotAddTable ==
  ASSUME TableInv, PidInv', HotAdd
  PROVE  TableInv'
<1>1. /\ UNCHANGED <<phase, flags, list, nodes, table, ix, shown, nargs>> /\ phase \in {"args", "pids"}
      /\ Range(world.dirs) \subseteq Range(world'.dirs)
  BY DEF HotAdd
<1>2. FlagsRight'
  BY <1>1 DEF TableInv, FlagsRight
<1>3. NodesRight'
  BY <1>1 DEF TableInv, NodesRight, num_nodes
<1>4. /\ Cols' = Cols /\ data_rows' = data_rows /\ total_row' = total_row /\ num_pids' = num_pids
      /\ total_col' = total_col /\ num_nodes' = num_nodes /\ (show_sub_categories' <=> show_sub_categories)
      /\ Cells' = Cells
  BY <1>1 DEF Cols, data_rows, total_row, num_pids, total_col, num_nodes, show_sub_categories, Cells
<1>5. CellsRight'
  <2>1. Summed(table.cell)' <=> Summed(table.cell)
    BY <1>1, <1>4 DEF Summed
  <2> QED BY <1>1, <1>4, <2>1 DEF TableInv, CellsRight
<1>6. MapRight'
  BY <1>1, <1>4 DEF TableInv, MapRight, OrderRight
<1>7. \A s \in Tables' : Process(s) /\ Complete(s)' /\ Asked(s)'
  <2>1. Tables' = Tables
    BY <1>1 DEF Tables
  <2>2. \A s \in Tables : Process(s) /\ Complete(s) /\ Asked(s)
    BY <1>1, ShownRightOf DEF TableInv
  <2> QED BY <1>1, <2>1, <2>2, ShownKept
<1>8. \A s \in Tables' : Process(s)' /\ System(s)'
  BY <1>7 DEF Process, System
<1> QED BY <1>2, <1>3, <1>5, <1>6, <1>7, <1>8, ShownRightNext, SystemRightNext DEF TableInv

\* Nothing happens.
LEMMA StillTable ==
  ASSUME TableInv, PidInv', UNCHANGED vars
  PROVE  TableInv'
<1>1. UNCHANGED <<world, phase, flags, list, nodes, table, ix, shown, nargs>>
  BY DEF vars
<1>2. Earlier' /\ SystemTableRight' /\ PrintedRight'
  BY <1>1, OneShown
<1>3. FlagsRight' /\ NodesRight'
  BY <1>1 DEF TableInv, FlagsRight, NodesRight, num_nodes
<1>4. /\ Cols' = Cols /\ data_rows' = data_rows /\ total_row' = total_row /\ num_pids' = num_pids
      /\ total_col' = total_col /\ num_nodes' = num_nodes /\ (show_sub_categories' <=> show_sub_categories)
      /\ Cells' = Cells
  BY <1>1 DEF Cols, data_rows, total_row, num_pids, total_col, num_nodes, show_sub_categories, Cells
<1>5. CellsRight'
  <2>1. Summed(table.cell)' <=> Summed(table.cell)
    BY <1>1, <1>4 DEF Summed
  <2> QED BY <1>1, <1>4, <2>1 DEF TableInv, CellsRight
<1>6. MapRight'
  BY <1>1, <1>4 DEF TableInv, MapRight, OrderRight
<1> QED BY <1>2, <1>3, <1>5, <1>6 DEF TableInv, Earlier

\* TableInv is inductive.
LEMMA TableStep == TableInv /\ [Next]_vars => TableInv'
<1> SUFFICES ASSUME TableInv, [Next]_vars PROVE TableInv'
  OBVIOUS
<1>1. PidInv'
  BY PidStep DEF TableInv
<1>2. CASE Begin
  <2>1. FlagsRight' /\ NodesRight' /\ CellsRight' /\ MapRight' /\ shown' = <<>>
    BY <1>2, BeginTable
  <2> QED BY <1>1, <2>1, NoneShown DEF TableInv, Earlier
<1>3. CASE Option \/ \E pids, memory : AddPids(pids, memory)
  BY <1>1, <1>3, ArgTable
<1> QED BY <1>1, <1>2, <1>3, PidStepTable, EndTable, SystemStepTable, HotAddTable, StillTable DEF Next

----------------------------------------------------------------------------
(* Zeros that are left out *)

\* What is asked of a table that is added.
Cleaned(s) == ~flags.zero /\ (shown = <<>> \/ ~Process(s)) => NoZeros(s)

\* Tables are only added, and an added one has no zeros where they are not asked for, unless it is
\* a later one of processes.
LEMMA ZerosKept ==
  ASSUME TableInv, ZerosHidden, UNCHANGED <<flags, nodes>>,
         shown' = shown \/ \E s : shown' = Append(shown, s) /\ Cleaned(s)
  PROVE  ZerosHidden'
<1>0. Cols' = Cols /\ shown \in Seq(Tables)
  BY DEF Cols, num_nodes, TableInv, PidInv, ShownSoFar
<1>1. \A s : (NoZeros(s)' <=> NoZeros(s)) /\ (Process(s)' <=> Process(s))
  BY <1>0 DEF NoZeros, Rows, Process
<1> SUFFICES ASSUME ~flags.zero, NEW k \in DOMAIN shown', k = 1 \/ ~Process(shown'[k])
             PROVE  NoZeros(shown'[k])
  BY <1>1 DEF ZerosHidden, Process, NoZeros, Rows, Cols, num_nodes
<1>2. CASE shown' = shown
  BY <1>2 DEF ZerosHidden
<1>3. CASE shown' # shown
  <2>1. PICK s : shown' = Append(shown, s) /\ Cleaned(s)
    BY <1>3
  <2>2. Len(shown) \in Nat /\ DOMAIN shown = 1 .. Len(shown) /\ DOMAIN shown' = 1 .. Len(shown) + 1
        /\ shown'[Len(shown) + 1] = s /\ \A j \in 1 .. Len(shown) : shown'[j] = shown[j]
    BY <1>0, <2>1
  <2>3. CASE k \in 1 .. Len(shown)
    BY <2>2, <2>3 DEF ZerosHidden
  <2>4. CASE k = Len(shown) + 1
    <3>1. k = 1 => shown = <<>>
      BY <1>0, <2>2, <2>4
    <3> QED BY <2>1, <2>2, <2>4, <3>1 DEF Cleaned
  <2> QED BY <2>2, <2>3, <2>4
<1> QED BY <1>2, <1>3

\* A turn of the loop marks only what it shows.
LEMMA PidUnmarked ==
  ASSUME TableInv, MarksClear, ShowPid
  PROVE  MarksClear'
<1> SUFFICES ASSUME phase' = "pids", shown' = <<>> PROVE table'.fullR = {} /\ table'.fullC = {}
  BY DEF MarksClear
<1>0. Reading /\ MapRight /\ Shape /\ phase = "pids" /\ shown \in Seq(Tables)
  BY ShowPidCases, Shapes DEF TableInv, Reading, PidInv, ShownSoFar
<1>1. ix' = ix + 1
  BY ShowPidCases DEF TableInv, Stop, Skip, Shows
<1>2. ASSUME NEW s, shown' = Append(shown, s) PROVE FALSE
  <2>1. Tables' = Tables \cup {s}
    BY <1>0, <1>2, AppendTables
  <2>2. Tables' = {}
    BY DEF Tables, Range
  <2> QED BY <2>1, <2>2
<1>3. \/ table' = [table EXCEPT !.cell = Clean] /\ shown' = shown
      \/ table' = [table EXCEPT !.cell = Counted] /\ shown' = shown
  BY <1>0, <1>1, <1>2, TableAfter DEF Shows
<1>4. table.fullR = {} /\ table.fullC = {}
  BY <1>0, <1>3 DEF MarksClear
<1> QED BY <1>0, <1>3, <1>4 DEF MapRight

\* What is marked and the tables without zeros, through every step.
LEMMA ZerosStep ==
  TableInv /\ MarksClear /\ ZerosHidden /\ [Next]_vars => MarksClear' /\ ZerosHidden'
<1> SUFFICES ASSUME TableInv, MarksClear, ZerosHidden, [Next]_vars PROVE MarksClear' /\ ZerosHidden'
  OBVIOUS
<1>1. CASE Option \/ \E pids, memory : AddPids(pids, memory)
  <2>1. phase = "args" /\ shown' = shown /\ phase' # "pids"
    BY <1>1 DEF Option, AddPids, SetFlags, Arg
  <2>2. shown' = <<>>
    BY <2>1 DEF TableInv, NodesRight
  <2> QED BY <2>1, <2>2 DEF MarksClear, ZerosHidden
<1>2. CASE Begin
  <2>1. shown' = <<>>
    BY <1>2, BeginTable
  <2>2. phase' = "pids" => table'.fullR = {} /\ table'.fullC = {}
    BY <1>2 DEF Begin, NoTable
  <2> QED BY <2>1, <2>2 DEF MarksClear, ZerosHidden
<1>3. CASE ShowPid
  <2>1. Reading /\ MapRight /\ UNCHANGED <<flags, nodes>> /\ phase = "pids"
    BY <1>3, ShowPidCases DEF TableInv, Reading
  <2>2. \/ shown' = shown
        \/ \E s : shown' = Append(shown, s) /\ Process(s) /\ Hidden(s)
    BY <1>3, <2>1, PidMap
  <2>3. shown = <<>> => Unmarked
    BY <2>1 DEF MarksClear, Unmarked
  <2>4. ZerosHidden'
    BY <2>1, <2>2, <2>3, ZerosKept DEF Hidden, Cleaned
  <2> QED BY <1>3, <2>4, PidUnmarked
<1>4. CASE ShowSystem \/ ShowNumastat
  <2>1. /\ UNCHANGED <<flags, nodes>> /\ phase' # "pids"
        /\ shown' = shown \/ \E s : shown' = Append(shown, s) /\ (~flags.zero => NoZeros(s))
    BY <1>4, SystemAdds DEF TableInv
  <2> QED BY <2>1, ZerosKept DEF MarksClear, Cleaned
<1>5. CASE EndPids \/ HotAdd \/ UNCHANGED vars
  <2>1. UNCHANGED <<flags, nodes, table, shown>> /\ (phase' = phase \/ phase' # "pids")
    BY <1>5 DEF EndPids, HotAdd, vars
  <2> QED BY <2>1, ZerosKept DEF MarksClear
<1> QED BY <1>1, <1>2, <1>3, <1>4, <1>5 DEF Next

----------------------------------------------------------------------------
(* Theorems *)

\* A process can only have pages on a node without a column if the node was added since.
LEMMA UnmappedAdded ==
  ASSUME Reading, Unmapped(File.lines)
  PROVE  Range(nodes) # Range(world.dirs)
<1>1. PICK k \in DOMAIN File.lines : ~(DOMAIN File.lines[k].pages \subseteq Range(nodes))
  BY DEF Unmapped
<1>2. world.dirs # <<>>
  <2>1. nodes # <<>> /\ nodes \in Seq(Nat) /\ Range(nodes) \subseteq Range(world.dirs)
    BY DEF Reading, NodesRight
  <2>2. Range(nodes) # {}
    <3>1. 1 \in DOMAIN nodes
      BY <2>1
    <3> QED BY <3>1 DEF Range
  <2>3. Range(<<>>) = {}
    BY DEF Range
  <2> QED BY <2>1, <2>2, <2>3
<1>3. DOMAIN File.lines[k].pages \subseteq Range(world.dirs)
  BY <1>2, FileRight
<1> QED BY <1>1, <1>3

\* A crash has its reason when it happens, and nothing happens after it.
LEMMA CrashStep == TableInv /\ CrashExplained /\ [Next]_vars => CrashExplained'
<1> SUFFICES ASSUME TableInv, CrashExplained, [Next]_vars, phase' = "crashed"
             PROVE  starved' \/ Range(nodes') # Range(world'.dirs)
  BY DEF CrashExplained
<1>1. PidInv'
  BY PidStep DEF TableInv
<1>2. ASSUME NEW pids, NEW memory, AddPids(pids, memory) PROVE starved'
  <2>1. list'.bad
    BY <1>2 DEF AddPids, Arg
  <2> QED BY <1>1, <2>1 DEF PidInv, Listed, Sane
<1>3. CASE ShowPid
  <2>1. Reading /\ Unmapped(File.lines) /\ UNCHANGED <<nodes, world>>
    BY <1>3, ShowPidCases DEF TableInv, Reading, Stop, Skip, Shows
  <2> QED BY <2>1, UnmappedAdded
<1>4. CASE UNCHANGED vars
  BY <1>4 DEF vars, CrashExplained
<1>5. ~Option /\ ~Begin /\ ~EndPids /\ ~ShowSystem /\ ~ShowNumastat /\ ~HotAdd
  BY DEF Option, SetFlags, Arg, Begin, EndPids, ShowSystem, ShowNumastat, show_info_from_system_file, Stop, HotAdd
<1> QED BY <1>2, <1>3, <1>4, <1>5 DEF Next

\* Tables from sysfs have the value of each node, however the lines of the files are ordered and
\* whichever tokens share a slot of the hash table (numastat.c:116-144, 910-911).
THEOREM SystemTablesAreRight == Spec => []SystemTableRight
<1>1. TableInv => SystemTableRight
  BY DEF TableInv
<1> QED BY <1>1, TableInit, TableStep, PTL DEF Spec

\* Memory outside an array is used only after a realloc failed or a node was added
\* (numastat.c:1085, 1284).
THEOREM CrashesAreExplained == Spec => []CrashExplained
<1>1. Init => CrashExplained
  BY DEF Init, CrashExplained
<1> QED BY <1>1, TableInit, TableStep, CrashStep, PTL DEF Spec

\* What is printed of a table is all of it, in sections within the screen (numastat.c:493-599).
\* With -s it is in the order asked for where nodes are numbered without holes
\* (numastat.c:290-310, 1133); with -z it has no rows and columns of zeros unless it is the table of
\* a later process (numastat.c:1008).  Nothing but a failed realloc or an added node ends the command
\* in a crash.
THEOREM ShowsAreRight == Spec => []ShownRight
<1>1. TableInv => PrintedRight
  BY DEF TableInv
<1>2. Init => MarksClear /\ ZerosHidden
  BY DEF Init, MarksClear, ZerosHidden
<1>3. PrintedRight /\ ZerosHidden /\ CrashExplained => ShownRight
  BY DEF ShownRight
<1> QED BY <1>1, <1>2, <1>3, CrashesAreExplained, TableInit, TableStep, ZerosStep, PTL DEF Spec

\* Each process read adds to a table exactly what its numa_maps says, and the totals of rows and
\* columns agree with the cells (numastat.c:1006-1009, 1088-1091).
THEOREM ProcessTablesAreRight == Spec => ProcessTableRight
<1> DEFINE Body ==
    phase = "pids" /\ ix' = ix + 1 /\ Readable(list.pids[ix]) =>
        LET t == table'.cell
            pid == list.pids[ix]
        IN /\ \A c \in Cols : t[total_row][c] = Total([r \in 1 .. data_rows |-> t[r - 1][c]])
           /\ IF show_sub_categories
              THEN \A r \in 0 .. 3, c \in Cols : t[r][c] = UsedOn(pid, c, {r})
              ELSE \A r \in 0 .. num_pids - 1, c \in Cols :
                        t[r][c] = IF r = ix - 1 THEN UsedOn(pid, c, 0 .. 3) ELSE table.cell[r][c]
           /\ shown' # shown => Last(shown').cell = t
<1>1. TableInv /\ [Next]_vars => [Body]_vars
  <2> SUFFICES ASSUME TableInv, Next, phase = "pids", ix' = ix + 1, Readable(list.pids[ix])
               PROVE  Body
    OBVIOUS
  <2>1. ix \in Nat /\ ix' # ix /\ shown \in Seq(Tables)
    <3>1. ix \in Nat /\ shown \in Seq(Tables)
      BY DEF TableInv, PidInv, ShownSoFar
    <3> QED BY <3>1
  <2>2. ShowPid
    <3>1. ASSUME NEW pids, NEW memory PROVE ~AddPids(pids, memory)
      BY DEF AddPids, Arg
    <3>2. ~Option /\ ~Begin /\ ~EndPids /\ ~ShowSystem /\ ~ShowNumastat /\ ~HotAdd
      BY <2>1 DEF Option, SetFlags, Arg, Begin, EndPids, ShowSystem, ShowNumastat, HotAdd
    <3> QED BY <3>1, <3>2 DEF Next
  <2>3. Reading /\ MapRight
    BY <2>2, ShowPidCases DEF TableInv, Reading
  <2> QED BY <2>1, <2>2, <2>3, PidTable, Zenon
<1>2. Spec => [][Body]_vars
  <2> HIDE DEF Body
  <2> QED BY <1>1, TableInit, TableStep, PTL DEF Spec
<1> QED BY <1>2, PTL DEF ProcessTableRight
=============================================================================
