------------------------- MODULE DistanceTableProofs -------------------------
(***************************************************************************)
(* Proofs about DistanceTable: any number of threads, any set of nodes at  *)
(* numa_init, nodes coming and going, stores in any order.                 *)
(***************************************************************************)
EXTENDS DistanceTable, FiniteSetTheorems, TLAPS

\* Two node numbers below the width index a cell of the table.
LEMMA CellInTable ==
  ASSUME NEW x \in 0 .. Width - 1, NEW y \in 0 .. Width - 1
  PROVE  x * Width + y \in Cells
<1>1. Width \in Nat \ {0}
  BY ConstantsAssumption DEF Width
<1>2. x * Width <= (Width - 1) * Width
  BY <1>1
<1>3. (Width - 1) * Width = Width * Width - Width
  BY <1>1
<1>4. x * Width \in Nat /\ Width * Width \in Nat
  BY <1>1
<1>5. x * Width + y <= Width * Width - 1
  BY <1>1, <1>2, <1>3, <1>4
<1> QED BY <1>4, <1>5 DEF Cells

LEMMA InitTypeOK == Init => TypeOK
<1> SUFFICES ASSUME Init PROVE TypeOK
  OBVIOUS
<1> USE ConstantsAssumption
<1>1. /\ 0 \in 0 .. MaxFile + 1 /\ 0 \in 0 .. MaxCalls
      /\ Known \subseteq Files
  BY DEF Files
<1>2. BlankTable \in [Cells -> Values] /\ None \in Values
  BY DEF BlankTable, Values
<1> QED BY <1>1, <1>2 DEF Init, TypeOK, PCs

\* Every step keeps the type invariant.
LEMMA NextTypeOK == IndInv /\ [Next]_vars => TypeOK'
<1> SUFFICES ASSUME IndInv, TypeOK, [Next]_vars
             PROVE  TypeOK'
  BY DEF IndInv
<1> USE ConstantsAssumption
<1>1. CASE UNCHANGED vars
  BY <1>1 DEF TypeOK, vars, sysfs, globals, args, reader
<1>2. ASSUME NEW n \in Files, NodeAppears(n) \/ NodeDisappears(n) PROVE TypeOK'
  BY <1>2 DEF NodeAppears, NodeDisappears, TypeOK, globals, args, reader
<1>3. CASE Numa_distance_cleanup
  BY <1>3 DEF Numa_distance_cleanup, TypeOK, BlankTable, Values, sysfs, args, reader
<1>4. ASSUME NEW t \in Threads, ThreadStep(t) PROVE TypeOK'
  <2>1. CASE TestTable(t)
    BY <2>1 DEF TestTable, TypeOK, Goto, Answer, PCs, sysfs, globals, args, reader
  <2>2. CASE RowAbsent(t)
    <3>1. nd[t] < Width => nd[t] + 1 \in 0 .. MaxFile + 1
      BY DEF TypeOK, Width
    <3>2. failed' \in BOOLEAN
      BY <2>2 DEF RowAbsent, TypeOK
    <3>3. nd' \in [Threads -> 0 .. MaxFile + 1]
      BY <2>2, <3>1 DEF RowAbsent, NextRow, TypeOK
    <3>4. pc' \in [Threads -> PCs]
      BY <2>2 DEF RowAbsent, Goto, TypeOK, PCs
    <3> QED BY <2>2, <3>2, <3>3, <3>4 DEF RowAbsent, TypeOK, globals, args
  <2>3. CASE RowUnopenable(t)
    <3>1. nd[t] < Width => nd[t] + 1 \in 0 .. MaxFile + 1
      BY DEF TypeOK, Width
    <3>3. nd' \in [Threads -> 0 .. MaxFile + 1]
      BY <2>3, <3>1 DEF RowUnopenable, NextRow, TypeOK
    <3>4. pc' \in [Threads -> PCs]
      BY <2>3 DEF RowUnopenable, Goto, TypeOK, PCs
    <3> QED BY <2>3, <3>3, <3>4 DEF RowUnopenable, TypeOK, globals, args
  <2>4. CASE RowUnreadable(t)
    BY <2>4 DEF RowUnreadable, TypeOK, Goto, Answer, PCs, sysfs, globals, args, reader
  <2>5. ASSUME NEW x \in Tables, RowParsed(t, x) PROVE TypeOK'
    <3>1. nd[t] \in Files /\ nd[t] + 1 \in 0 .. MaxFile + 1
      BY <2>5 DEF RowParsed, TypeOK, Files
    <3>2. \A f \in [Cells -> Values] : Parse_numbers(f, nd[t]) \in [Cells -> Values]
      <4> SUFFICES ASSUME NEW f \in [Cells -> Values], NEW i \in Cells
                   PROVE  Parse_numbers(f, nd[t])[i] \in Values
        BY DEF Parse_numbers
      <4>1. CASE \E o \in Printed : Target(nd[t], o) = i
        <5> DEFINE o == CHOOSE o \in Printed : Target(nd[t], o) = i
        <5>1. o \in Files
          BY <4>1 DEF Printed, TypeOK
        <5>2. Parse_numbers(f, nd[t])[i] = <<nd[t], o>>
          BY <4>1 DEF Parse_numbers
        <5> HIDE DEF o
        <5> QED BY <3>1, <5>1, <5>2 DEF Values
      <4>2. CASE ~ \E o \in Printed : Target(nd[t], o) = i
        BY <4>2 DEF Parse_numbers
      <4> QED BY <4>1, <4>2
    <3>3. BlankTable \in [Cells -> Values] /\ heap[x] \in [Cells -> Values]
      BY DEF BlankTable, Values, TypeOK
    <3>4. heap' \in [Tables -> [Cells -> Values]]
      BY <2>5, <3>2, <3>3 DEF RowParsed, TypeOK
    <3>5. oob' \in BOOLEAN
      BY <2>5 DEF RowParsed, TypeOK
    <3> QED BY <2>5, <3>1, <3>4, <3>5 DEF RowParsed, NextRow, TypeOK, args, sysfs
  <2>6. CASE GiveUp(t)
    BY <2>6 DEF GiveUp, DropTable, BlankTable, Values, TypeOK, Goto, Answer, PCs, sysfs, globals, args, reader
  <2>7. CASE LostRace(t)
    BY <2>7 DEF LostRace, DropTable, BlankTable, Values, TypeOK, Goto, Answer, PCs, sysfs, globals, args, reader
  <2>8. CASE WonRace(t)
    BY <2>8 DEF WonRace, TypeOK, Goto, Answer, PCs, sysfs, globals, args, reader
  <2>9. CASE StoreNumnodes(t)
    BY <2>9 DEF StoreNumnodes, TypeOK, Goto, Answer, PCs, sysfs, globals, args, reader
  <2>10. CASE StoreTable(t)
    BY <2>10 DEF StoreTable, TypeOK, Goto, Answer, PCs, sysfs, globals, args, reader
  <2>11. CASE EndStore(t)
    BY <2>11 DEF EndStore, TypeOK, Goto, Answer, PCs, sysfs, globals, args, reader
  <2>12. CASE StillNoTable(t)
    BY <2>12 DEF StillNoTable, Values, TypeOK, Goto, Answer, PCs, sysfs, globals, args, reader
  <2>13. CASE HaveTable(t)
    BY <2>13 DEF HaveTable, TypeOK, Goto, Answer, PCs, sysfs, globals, args, reader
  <2>14. CASE OutOfRange(t)
    BY <2>14 DEF OutOfRange, InTable, Values, TypeOK, Goto, Answer, PCs, sysfs, globals, args, reader
  <2>15. CASE InRange(t)
    BY <2>15 DEF InRange, TypeOK, Goto, Answer, PCs, sysfs, globals, args, reader
  <2>16. CASE Index(t)
    <3>1. pc[t] = "index" /\ table \in Tables
      BY <2>16 DEF Index, Answer, Goto, TypeOK
    <3>2. a[t] * numnodes + b[t] \in Cells
      BY <3>1, CellInTable DEF IndInv, IndexInRange
    <3>3. value' \in [Threads -> Values]
      BY <2>16, <3>1, <3>2 DEF Index, Answer, TypeOK
    <3>4. pc' \in [Threads -> PCs]
      BY <2>16 DEF Index, Answer, Goto, TypeOK, PCs
    <3> QED BY <2>16, <3>3, <3>4 DEF Index, TypeOK, sysfs, globals, args, reader
  <2>17. CASE NullIndex(t)
    BY <2>17 DEF NullIndex, TypeOK, Goto, Answer, PCs, sysfs, globals, args, reader
  <2>18. CASE Leave(t)
    BY <2>18 DEF Leave, Values, TypeOK, Goto, Answer, PCs, sysfs, globals, args, reader
  <2> QED
    BY <1>4, <2>1, <2>2, <2>3, <2>4, <2>5, <2>6, <2>7, <2>8, <2>9, <2>10, <2>11, <2>12, <2>13, <2>14, <2>15, <2>16, <2>17, <2>18
    DEF ThreadStep
<1>5. ASSUME NEW t \in Threads, NEW x \in Args, NEW y \in Args, Numa_distance(t, x, y)
      PROVE  TypeOK'
  BY <1>5 DEF Numa_distance, Goto, TypeOK, PCs, sysfs, globals, reader
<1> QED BY <1>1, <1>2, <1>3, <1>4, <1>5 DEF Next

\* The invariant but for the types.
Safe ==
    /\ TableSafety
    /\ NodeZero /\ ScanHasTable /\ StoreHasTable /\ IndexInRange
    /\ 0 \in Known => TableStays

LEMMA NextSafe == IndInv /\ [Next]_vars => Safe'
<1> SUFFICES ASSUME TypeOK, Safe, [Next]_vars
             PROVE  Safe'
  BY DEF IndInv, Safe
<1> USE ConstantsAssumption
<1> USE DEF Safe, TableSafety, NodeZero, ScanHasTable, StoreHasTable, IndexInRange,
            TableStays, Mine, Owning, TypeOK, Goto, Answer
<1>1. CASE UNCHANGED vars
  BY <1>1 DEF vars, sysfs, globals, args, reader
<1>2. ASSUME NEW n \in Files, NodeAppears(n) \/ NodeDisappears(n) PROVE Safe'
  BY <1>2 DEF NodeAppears, NodeDisappears, globals, args, reader
<1>3. CASE Numa_distance_cleanup
  BY <1>3 DEF Numa_distance_cleanup, sysfs, args, reader
<1>4. ASSUME NEW t \in Threads, ThreadStep(t) PROVE Safe'
  <2>1. CASE TestTable(t)
    BY <2>1 DEF TestTable, sysfs, globals, args, reader
  <2>2. CASE RowAbsent(t)
    BY <2>2 DEF RowAbsent, NextRow, sysfs, globals, args, reader
  <2>3. CASE RowUnopenable(t)
    BY <2>3 DEF RowUnopenable, NextRow, sysfs, globals, args, reader
  <2>4. CASE RowUnreadable(t)
    BY <2>4 DEF RowUnreadable, sysfs, globals, args, reader
  <2>5. ASSUME NEW x \in Tables, RowParsed(t, x) PROVE Safe'
    BY <2>5 DEF RowParsed, NextRow, sysfs, globals, args, reader
  <2>6. CASE GiveUp(t)
    BY <2>6 DEF GiveUp, DropTable, sysfs, globals, args, reader
  <2>7. CASE LostRace(t)
    BY <2>7 DEF LostRace, DropTable, sysfs, globals, args, reader
  <2>8. CASE WonRace(t)
    BY <2>8 DEF WonRace, sysfs, globals, args, reader
  <2>9. CASE StoreNumnodes(t)
    BY <2>9 DEF StoreNumnodes, sysfs, globals, args, reader
  <2>10. CASE StoreTable(t)
    BY <2>10 DEF StoreTable, sysfs, globals, args, reader
  <2>11. CASE EndStore(t)
    BY <2>11 DEF EndStore, sysfs, globals, args, reader
  <2>12. CASE StillNoTable(t)
    BY <2>12 DEF StillNoTable, sysfs, globals, args, reader
  <2>13. CASE HaveTable(t)
    BY <2>13 DEF HaveTable, sysfs, globals, args, reader
  <2>14. CASE OutOfRange(t)
    BY <2>14 DEF OutOfRange, InTable, sysfs, globals, args, reader
  <2>15. CASE InRange(t)
    BY <2>15 DEF InRange, InTable, sysfs, globals, args, reader
  <2>16. CASE Index(t)
    BY <2>16 DEF Index, sysfs, globals, args, reader
  <2>17. CASE NullIndex(t)
    BY <2>17 DEF NullIndex, sysfs, globals, args, reader
  <2>18. CASE Leave(t)
    BY <2>18 DEF Leave, sysfs, globals, args, reader
  <2> HIDE DEF Safe
  <2> QED
    BY <1>4, <2>1, <2>2, <2>3, <2>4, <2>5, <2>6, <2>7, <2>8, <2>9, <2>10, <2>11, <2>12, <2>13, <2>14, <2>15, <2>16, <2>17, <2>18
    DEF ThreadStep
<1>5. ASSUME NEW t \in Threads, NEW x \in Args, NEW y \in Args, Numa_distance(t, x, y)
      PROVE  Safe'
  BY <1>5 DEF Numa_distance, sysfs, globals, reader
<1> QED BY <1>1, <1>2, <1>3, <1>4, <1>5 DEF Next

LEMMA IndInvInit == Init => IndInv
<1> SUFFICES ASSUME Init PROVE IndInv
  OBVIOUS
<1>1. TypeOK
  BY InitTypeOK
<1>2. Safe
  BY ConstantsAssumption
  DEF Init, Safe, TableSafety, NodeZero, ScanHasTable, StoreHasTable, IndexInRange,
      TableStays, Mine, Owning
<1> QED BY <1>1, <1>2 DEF IndInv, Safe

LEMMA IndInvNext == IndInv /\ [Next]_vars => IndInv'
  BY NextTypeOK, NextSafe DEF IndInv, Safe

\* The inductive invariant of read_distance_table holds in every reachable state: who owns a
\* table, and that the published one is allocated; the theorems below follow from it.
THEOREM Invariance == Spec => []IndInv
  BY IndInvInit, IndInvNext, PTL DEF Spec

\* Types: sizes, cells and scan positions stay in range, whatever the threads
\* do; an index into the table is one of its cells.
THEOREM TypeCorrect == Spec => []TypeOK
<1>1. IndInv => TypeOK
  BY DEF IndInv
<1> QED BY <1>1, Invariance, PTL

\* The table being filled is private and the published one allocated, however
\* many threads scan sysfs at once and whatever fails.
THEOREM TablesSafe == Spec => []TableSafety
<1>1. IndInv => TableSafety
  BY DEF IndInv
<1> QED BY <1>1, Invariance, PTL

\* On a machine with a node 0, numa_distance never indexes a table that another
\* thread took away.
THEOREM NeverNull == ASSUME 0 \in Known PROVE Spec => []TableStays
<1>1. IndInv => TableStays
  BY DEF IndInv
<1> QED BY <1>1, Invariance, PTL
----------------------------------------------------------------------------
(* What numa_distance answers: AnswerInv, on top of IndInv. *)

\* A cell belongs to one row and one column.
LEMMA CellUnique ==
  ASSUME NEW r \in 0 .. Width - 1, NEW c \in 0 .. Width - 1,
         NEW s \in 0 .. Width - 1, NEW d \in 0 .. Width - 1,
         r * Width + c = s * Width + d
  PROVE  r = s /\ c = d
<1>1. Width \in Nat \ {0}
  BY ConstantsAssumption DEF Width
<1>2. ASSUME NEW x \in 0 .. Width - 1, NEW y \in 0 .. Width - 1, x < y
      PROVE  x * Width + Width <= y * Width
  <2>1. PICK k \in Nat : y = x + 1 + k
    <3>1. y - x - 1 \in Nat /\ y = x + 1 + (y - x - 1)
      BY <1>2, <1>1
    <3> QED BY <3>1
  <2>2. y * Width = x * Width + Width + k * Width
    BY <1>1, <2>1
  <2>3. k * Width \in Nat
    BY <1>1
  <2> QED BY <1>1, <2>2, <2>3
<1>3. r * Width \in Nat /\ s * Width \in Nat
  BY <1>1
<1>4. ~(r < s)
  <2>1. r < s => r * Width + Width <= s * Width
    BY <1>2
  <2> QED BY <1>1, <1>3, <2>1
<1>5. ~(s < r)
  <2>1. s < r => s * Width + Width <= r * Width
    BY <1>2
  <2> QED BY <1>1, <1>3, <2>1
<1>6. r = s
  BY <1>1, <1>4, <1>5
<1> QED BY <1>1, <1>3, <1>6

LEMMA KnownNodes ==
  /\ Known \subseteq 0 .. Width - 1 /\ Known \subseteq Nat
  /\ IsFiniteSet(Known) /\ Cardinality(Known) \in Nat /\ Cardinality(Known) <= Width
<1>1. Known \subseteq 0 .. Width - 1 /\ Known \subseteq Nat /\ 0 \in Int /\ Width - 1 \in Int /\ Width \in Nat \ {0}
  BY ConstantsAssumption DEF Width
<1>2. IsFiniteSet(0 .. Width - 1) /\ Cardinality(0 .. Width - 1) = Width
  BY <1>1, FS_Interval
<1>3. IsFiniteSet(Known) /\ Cardinality(Known) <= Width
  BY <1>1, <1>2, FS_Subset
<1> QED BY <1>1, <1>3, FS_CardinalityType

\* The number of nodes before a node tells the nodes apart.
LEMMA RankLess ==
  ASSUME NEW x \in Known, NEW S \in SUBSET Known, \A m \in S : m < x => m \in {k \in Known : k < x},
         {k \in Known : k < x} \subseteq S, x \in S
  PROVE  /\ Rank(Known, x) \in Nat /\ Cardinality(S) \in Nat
         /\ Rank(Known, x) < Cardinality(S)
<1> DEFINE below == {k \in Known : k < x}
<1>1. IsFiniteSet(S)
  BY KnownNodes, FS_Subset
<1>2. below \in SUBSET S /\ x \notin below
  BY KnownNodes
<1>3. IsFiniteSet(below) /\ Cardinality(below) <= Cardinality(S) /\ Cardinality(S) # Cardinality(below)
  BY <1>1, <1>2, FS_Subset
<1>4. Cardinality(below) \in Nat /\ Cardinality(S) \in Nat
  BY <1>1, <1>3, FS_CardinalityType
<1> QED BY <1>3, <1>4 DEF Rank

\* The k-th number of a line goes to the column of the k-th known node: while the
\* kernel shows the nodes of numa_init, that is the node the number is for.
LEMMA ColumnOf ==
  ASSUME online = Known
  PROVE  Printed = Known /\ \A o \in Known : Column(o) = o
<1>1. ASSUME NEW o \in Known PROVE Rank(Known, o) \in Nat /\ Rank(Known, o) < Cardinality(Known)
  BY <1>1, RankLess
<1>2. ASSUME NEW x \in Known, NEW y \in Known, x < y PROVE Rank(Known, x) < Rank(Known, y)
  <2> DEFINE S == {k \in Known : k < y}
  <2>1. /\ S \in SUBSET Known /\ x \in S /\ {k \in Known : k < x} \subseteq S
        /\ \A m \in S : m < x => m \in {k \in Known : k < x}
    <3>1. \A k \in Known : k \in Int
      BY KnownNodes
    <3>2. \A k \in Known : k < x => k < y
      BY <1>2, <3>1
    <3> QED BY <1>2, <3>2
  <2>2. Rank(Known, x) < Cardinality(S)
    <3> HIDE DEF S
    <3> QED BY <2>1, RankLess
  <2> QED BY <2>2 DEF Rank
<1>3. ASSUME NEW x \in Known, NEW y \in Known, Rank(Known, x) = Rank(Known, y) PROVE x = y
  <2>1. ~(x < y) /\ ~(y < x)
    BY <1>1, <1>2, <1>3
  <2>2. x \in Int /\ y \in Int
    BY KnownNodes
  <2> QED BY <2>1, <2>2
<1>4. Printed = Known
  <2>1. \A o \in Known : Rank(Known, o) < Width
    BY <1>1, KnownNodes, ConstantsAssumption DEF Width
  <2> QED BY <2>1 DEF Printed
<1>5. ASSUME NEW o \in Known PROVE Column(o) = o
  <2> DEFINE j == CHOOSE j \in Known : Rank(Known, j) = Rank(Known, o)
  <2>1. j \in Known /\ Rank(Known, j) = Rank(Known, o)
    OBVIOUS
  <2>2. Column(o) = j
    BY <1>1 DEF Column
  <2> HIDE DEF j
  <2> QED BY <1>3, <2>1, <2>2
<1> QED BY <1>4, <1>5

\* What parse_numbers does with the line of a node.
LEMMA Parsed ==
  ASSUME online = Known, NEW f, NEW row \in Known
  PROVE  /\ ~Overruns(row)
         /\ \A o \in Known : /\ row * Width + o \in Cells
                             /\ Parse_numbers(f, row)[row * Width + o] = <<row, o>>
         /\ \A i \in Cells : (\A o \in Known : i # row * Width + o) => Parse_numbers(f, row)[i] = f[i]
<1>1. Printed = Known /\ \A o \in Known : Target(row, o) = row * Width + o
  BY ColumnOf DEF Target
<1>2. \A o \in Known : row * Width + o \in Cells
  BY KnownNodes, CellInTable
<1>3. ASSUME NEW o \in Known PROVE Parse_numbers(f, row)[row * Width + o] = <<row, o>>
  <2> DEFINE i == row * Width + o
             c == CHOOSE c \in Printed : Target(row, c) = i
  <2>1. \E x \in Printed : Target(row, x) = i
    BY <1>1
  <2>2. c \in Known /\ row * Width + c = row * Width + o
    BY <1>1, <2>1
  <2>3. Parse_numbers(f, row)[i] = <<row, c>>
    BY <1>2, <2>1 DEF Parse_numbers
  <2> HIDE DEF c, i
  <2>4. c = o
    <3>1. row * Width \in Int /\ c \in Int /\ o \in Int
      BY <2>2, KnownNodes, ConstantsAssumption DEF Width
    <3> QED BY <2>2, <3>1
  <2> QED BY <2>3, <2>4 DEF i
<1>4. ASSUME NEW i \in Cells, \A o \in Known : i # row * Width + o PROVE Parse_numbers(f, row)[i] = f[i]
  BY <1>1, <1>4 DEF Parse_numbers
<1>5. ~Overruns(row)
  BY <1>1, <1>2 DEF Overruns
<1> QED BY <1>2, <1>3, <1>4, <1>5

\* A parsed line leaves distances of known nodes only, completes its row and
\* takes nothing from the others.
LEMMA ParsedRow ==
  ASSUME online = Known, NEW f, NEW row \in Known,
         \A i \in Cells : f[i] = None \/ \E r, c \in Known : i = r * Width + c /\ f[i] = <<r, c>>
  PROVE  /\ \A i \in Cells : \/ Parse_numbers(f, row)[i] = None
                            \/ \E r, c \in Known : /\ i = r * Width + c
                                                   /\ Parse_numbers(f, row)[i] = <<r, c>>
         /\ \A c \in Known : Parse_numbers(f, row)[row * Width + c] = <<row, c>>
         /\ \A r, c \in Known : f[r * Width + c] = <<r, c>> =>
                                Parse_numbers(f, row)[r * Width + c] = <<r, c>>
<1> DEFINE g == Parse_numbers(f, row)
<1>1. /\ \A o \in Known : g[row * Width + o] = <<row, o>>
      /\ \A i \in Cells : (\A o \in Known : i # row * Width + o) => g[i] = f[i]
  BY Parsed
<1> HIDE DEF g
<1>2. ASSUME NEW i \in Cells
      PROVE  g[i] = None \/ \E r, c \in Known : i = r * Width + c /\ g[i] = <<r, c>>
  <2>1. CASE \E o \in Known : i = row * Width + o
    BY <1>1, <2>1
  <2>2. CASE \A o \in Known : i # row * Width + o
    BY <1>1, <1>2, <2>2
  <2> QED BY <2>1, <2>2
<1>3. ASSUME NEW r \in Known, NEW c \in Known, f[r * Width + c] = <<r, c>>
      PROVE  g[r * Width + c] = <<r, c>>
  <2>0. r \in 0 .. Width - 1 /\ c \in 0 .. Width - 1 /\ row \in 0 .. Width - 1
    BY KnownNodes
  <2>1. CASE \E o \in Known : r * Width + c = row * Width + o
    <3>1. PICK o \in Known : r * Width + c = row * Width + o
      BY <2>1
    <3>2. o \in 0 .. Width - 1
      BY KnownNodes
    <3>3. r = row /\ c = o
      BY <2>0, <3>1, <3>2, CellUnique
    <3> QED BY <1>1, <3>3
  <2>2. CASE \A o \in Known : r * Width + c # row * Width + o
    <3>1. r * Width + c \in Cells
      BY <2>0, CellInTable
    <3> QED BY <1>1, <1>3, <2>2, <3>1
  <2> QED BY <2>1, <2>2
<1> QED BY <1>1, <1>2, <1>3 DEF g

\* Steps that touch no table: the scan goes on, ends, or an answer is given.
LEMMA KeepTables ==
  ASSUME AnswerInv, UNCHANGED <<online, oob, heap>>
  PROVE  (online = Known /\ StaysInside /\ CellsRight)'
BY DEF AnswerInv, StaysInside, CellsRight

LEMMA NextCells ==
  ASSUME TypeOK, ~HotAdd, ~HotRemove, AnswerInv, [Next]_vars
  PROVE  (online = Known /\ StaysInside /\ CellsRight)'
<1>1. CASE \E t \in Threads, x \in Tables : RowParsed(t, x)
  <2>1. PICK t \in Threads, x \in Tables : RowParsed(t, x)
    BY <1>1
  <2> DEFINE old == IF tab[t] = NULL THEN BlankTable ELSE heap[x]
             row == nd[t]
  <2>2. /\ heap' = [heap EXCEPT ![x] = Parse_numbers(old, row)] /\ online' = online
        /\ oob' = (oob \/ Overruns(row)) /\ row \in Known /\ online = Known
    BY <2>1 DEF RowParsed, sysfs, AnswerInv
  <2>3. \A i \in Cells : old[i] = None \/ \E r, c \in Known : i = r * Width + c /\ old[i] = <<r, c>>
    BY DEF BlankTable, AnswerInv, CellsRight
  <2> HIDE DEF old, row
  <2> DEFINE g == Parse_numbers(old, row)
  <2>4. \A i \in Cells : g[i] = None \/ \E r, c \in Known : i = r * Width + c /\ g[i] = <<r, c>>
    BY <2>2, <2>3, ParsedRow
  <2>5. ~Overruns(row)
    BY <2>2, Parsed
  <2>6. heap' = [heap EXCEPT ![x] = g]
    BY <2>2
  <2> HIDE DEF g
  <2>7. CellsRight'
    BY <2>4, <2>6 DEF CellsRight, AnswerInv, TypeOK
  <2>8. oob' = FALSE
    BY <2>2, <2>5 DEF AnswerInv, StaysInside
  <2> QED BY <2>2, <2>7, <2>8 DEF StaysInside
<1>2. CASE \E x \in Tables \cup {NULL} :
             /\ UNCHANGED <<online, oob>>
             /\ heap' = [y \in Tables |-> IF y = x THEN BlankTable ELSE heap[y]]
  BY <1>2 DEF AnswerInv, StaysInside, CellsRight, BlankTable
<1>3. CASE UNCHANGED <<online, oob, heap>>
  BY <1>3, KeepTables
<1>4. \/ \E t \in Threads, x \in Tables : RowParsed(t, x)
      \/ \E x \in Tables \cup {NULL} :
             /\ UNCHANGED <<online, oob>>
             /\ heap' = [y \in Tables |-> IF y = x THEN BlankTable ELSE heap[y]]
      \/ UNCHANGED <<online, oob, heap>>
  <2>1. CASE UNCHANGED vars
    BY <2>1 DEF vars, sysfs, globals
  <2>2. CASE \E n \in Files : NodeAppears(n) \/ NodeDisappears(n)
    BY <2>2 DEF NodeAppears, NodeDisappears
  <2>3. CASE Numa_distance_cleanup
    BY <2>3 DEF Numa_distance_cleanup, sysfs, TypeOK
  <2>4. CASE \E t \in Threads, x, y \in Args : Numa_distance(t, x, y)
    BY <2>4 DEF Numa_distance, sysfs, globals
  <2>5. ASSUME NEW t \in Threads, GiveUp(t) \/ LostRace(t)
        PROVE  \E x \in Tables \cup {NULL} :
                 /\ UNCHANGED <<online, oob>>
                 /\ heap' = [y \in Tables |-> IF y = x THEN BlankTable ELSE heap[y]]
    BY <2>5 DEF GiveUp, LostRace, DropTable, sysfs, TypeOK
  <2>6. ASSUME NEW t \in Threads,
               \/ TestTable(t) \/ RowAbsent(t) \/ RowUnopenable(t) \/ RowUnreadable(t)
               \/ WonRace(t) \/ StoreNumnodes(t) \/ StoreTable(t) \/ EndStore(t)
               \/ StillNoTable(t) \/ HaveTable(t) \/ OutOfRange(t) \/ InRange(t) \/ Index(t)
               \/ NullIndex(t) \/ Leave(t)
        PROVE  UNCHANGED <<online, oob, heap>>
    BY <2>6 DEF TestTable, RowAbsent, RowUnopenable, RowUnreadable, WonRace, StoreNumnodes,
         StoreTable, EndStore, StillNoTable, HaveTable, OutOfRange, InRange, Index, NullIndex,
         Leave, sysfs, globals
  <2> QED BY <2>1, <2>2, <2>3, <2>4, <2>5, <2>6 DEF Next, ThreadStep
<1> QED BY <1>1, <1>2, <1>3, <1>4

FilledWell == ~failed => ScanComplete /\ (table # NULL => Complete(heap[table]))

\* A scan without failures has every row, and whatever is published is complete.
LEMMA NextFilled ==
  ASSUME TypeOK, TypeOK', Safe, ~HotAdd, ~HotRemove, AnswerInv, [Next]_vars
  PROVE  FilledWell'
<1> SUFFICES ASSUME ~failed' PROVE (ScanComplete /\ (table # NULL => Complete(heap[table])))'
  BY DEF FilledWell
<1> USE ConstantsAssumption
<1> USE DEF ScanComplete, TypeOK, Goto, Answer
<1>0. ~failed
  <2>1. ASSUME NEW t \in Threads, ThreadStep(t) PROVE failed => failed'
    BY <2>1 DEF ThreadStep, TestTable, RowAbsent, RowUnopenable, RowUnreadable, RowParsed, GiveUp,
       LostRace, WonRace, StoreNumnodes, StoreTable, EndStore, StillNoTable, HaveTable, OutOfRange,
       InRange, Index, NullIndex, Leave, sysfs
  <2> QED BY <2>1 DEF Next, Numa_distance, NodeAppears, NodeDisappears, Numa_distance_cleanup,
                      vars, sysfs
<1>1. ScanComplete /\ (table # NULL => Complete(heap[table])) /\ online = Known
  BY <1>0 DEF AnswerInv
<1>2. CASE UNCHANGED vars
  BY <1>1, <1>2 DEF vars, sysfs, globals, args, reader
<1>3. ASSUME NEW n \in Files, NodeAppears(n) \/ NodeDisappears(n) PROVE FALSE
  BY <1>3 DEF NodeAppears, NodeDisappears
<1>4. CASE Numa_distance_cleanup
  BY <1>1, <1>4 DEF Numa_distance_cleanup, sysfs, args, reader
<1>5. ASSUME NEW t \in Threads, NEW x \in Args, NEW y \in Args, Numa_distance(t, x, y)
      PROVE  (ScanComplete /\ (table # NULL => Complete(heap[table])))'
  BY <1>1, <1>5 DEF Numa_distance, sysfs, globals, reader
<1>6. ASSUME NEW t \in Threads, ThreadStep(t)
      PROVE  (ScanComplete /\ (table # NULL => Complete(heap[table])))'
  <2> USE <1>1
  <2>1. CASE TestTable(t)
    <3>1. /\ UNCHANGED <<table, heap, todo>> /\ nd'[t] = 0
          /\ IF table = NULL THEN pc'[t] = "open" ELSE pc'[t] = "bounds"
          /\ \A u \in Threads : u # t => pc'[u] = pc[u] /\ nd'[u] = nd[u] /\ err'[u] = err[u]
                                       /\ tab'[u] = tab[u]
      BY <2>1 DEF TestTable, globals
    <3>2. \A r \in Known : ~(r < 0)
      BY KnownNodes
    <3> QED BY <3>1, <3>2
  <2>2. CASE RowAbsent(t)
    <3>1. /\ pc[t] = "open" /\ nd[t] \notin Known
          /\ UNCHANGED <<table, heap, todo, tab>> /\ err' = [err EXCEPT ![t] = FALSE]
          /\ IF nd[t] < Width THEN nd' = [nd EXCEPT ![t] = @ + 1] /\ pc' = pc
             ELSE pc' = [pc EXCEPT ![t] = "finish"] /\ nd' = nd
      BY <2>2 DEF RowAbsent, NextRow, globals
    <3>2. nd[t] \in Nat /\ Width \in Nat /\ \A r \in Known : r \in Nat /\ r < Width
      BY KnownNodes DEF Width
    <3>3. CASE nd[t] < Width
      <4>1. ASSUME NEW r \in Known, r < nd[t] + 1 PROVE r < nd[t]
        <5>1. r \in Int /\ nd[t] \in Int /\ r # nd[t]
          BY <3>1, <3>2
        <5> HIDE DEF TypeOK, ScanComplete
        <5> QED BY <4>1, <5>1
      <4> QED BY <3>1, <3>2, <3>3, <4>1
    <3>4. CASE ~(nd[t] < Width)
      <4>1. \A r \in Known : r < nd[t]
        BY <3>2, <3>4
      <4>2. tab[t] # NULL /\ Complete(heap[tab[t]])
        BY <3>1, <4>1 DEF Complete
      <4> QED BY <3>1, <3>4, <4>2
    <3> QED BY <3>3, <3>4
  <2>3. CASE RowUnopenable(t) \/ RowUnreadable(t)
    BY <2>3 DEF RowUnopenable, RowUnreadable
  <2>5. ASSUME NEW x \in Tables, RowParsed(t, x)
        PROVE  (ScanComplete /\ (table # NULL => Complete(heap[table])))'
    <3> DEFINE old == IF tab[t] = NULL THEN BlankTable ELSE heap[x]
               row == nd[t]
    <3>1. /\ pc[t] = "open" /\ heap' = [heap EXCEPT ![x] = Parse_numbers(old, row)]
          /\ row \in Known /\ tab' = [tab EXCEPT ![t] = x] /\ nd' = [nd EXCEPT ![t] = @ + 1]
          /\ UNCHANGED <<table, pc, err, todo>>
          /\ IF tab[t] = NULL THEN x \notin live ELSE x = tab[t]
      BY <2>5 DEF RowParsed, NextRow
    <3>2. \A i \in Cells : old[i] = None \/ \E r, c \in Known : i = r * Width + c /\ old[i] = <<r, c>>
      BY DEF BlankTable, AnswerInv, CellsRight
    <3>3. tab[t] # NULL => old = heap[x] /\ tab[t] = x
      BY <3>1
    <3> HIDE DEF old
    <3> DEFINE g == Parse_numbers(old, row)
    <3> HIDE DEF row
    <3>4. /\ \A c \in Known : g[row * Width + c] = <<row, c>>
          /\ \A r, c \in Known : old[r * Width + c] = <<r, c>> => g[r * Width + c] = <<r, c>>
      <4>1. online = Known /\ row \in Known
        BY <3>1
      <4> HIDE DEF ScanComplete, TypeOK
      <4> QED BY <3>2, <4>1, ParsedRow
    <3>5. heap' = [heap EXCEPT ![x] = g]
      BY <3>1
    <3> HIDE DEF g
    <3>6. x # NULL /\ x # table /\ \A u \in Threads : u # t /\ Mine(u) # NULL => Mine(u) # x
      BY <3>1 DEF Safe, TableSafety, Mine, Owning
    <3>7. \A y \in Tables : y # x => heap'[y] = heap[y]
      BY <3>5
    <3>8. (table # NULL => Complete(heap[table]))'
      BY <3>1, <3>6, <3>7
    <3>9. ASSUME NEW r \in Known, r < nd'[t] PROVE RowDone(g, r)
      <4>1. CASE r = row
        BY <3>4, <4>1 DEF RowDone
      <4>2. CASE r # row
        <5>1. r \in Int /\ nd[t] \in Int /\ nd'[t] = nd[t] + 1 /\ row = nd[t]
          BY <3>1, KnownNodes DEF row
        <5>2. r < nd[t]
          BY <3>9, <4>2, <5>1
        <5>3. tab[t] # NULL /\ RowDone(heap[tab[t]], r)
          BY <3>1, <5>2
        <5>4. RowDone(old, r)
          BY <3>3, <5>3
        <5> QED BY <3>4, <5>4 DEF RowDone
      <4> QED BY <4>1, <4>2
    <3>10. ASSUME NEW u \in Threads, u # t, tab[u] # NULL, pc[u] \in Owning
           PROVE  heap'[tab[u]] = heap[tab[u]]
      BY <3>6, <3>7, <3>10 DEF Mine
    <3>11. heap'[tab'[t]] = g /\ tab'[t] # NULL
      BY <3>1, <3>5, <3>6
    <3>12. \A u \in Threads : u # t => tab'[u] = tab[u] /\ nd'[u] = nd[u]
      BY <3>1
    <3>13. \A u \in Threads : pc[u] \in {"open", "finish", "store"} => pc[u] \in Owning
      BY DEF Owning
    <3> QED BY <3>1, <3>8, <3>9, <3>10, <3>11, <3>12, <3>13
  <2>6. CASE GiveUp(t)
    BY <2>6 DEF GiveUp
  <2>7. CASE LostRace(t)
    BY <2>7 DEF LostRace, DropTable, sysfs, globals, args, reader, Safe, TableSafety, Mine, Owning
  <2>8. CASE WonRace(t)
    BY <2>8 DEF WonRace, sysfs, globals, args, reader
  <2>9. CASE StoreNumnodes(t)
    BY <2>9 DEF StoreNumnodes, sysfs, globals, args, reader
  <2>10. CASE StoreTable(t)
    <3>1. /\ pc[t] = "store" /\ "table" \in todo[t] /\ table' = tab[t]
          /\ tab' = [tab EXCEPT ![t] = NULL] /\ todo' = [todo EXCEPT ![t] = @ \ {"table"}]
          /\ UNCHANGED <<heap, pc, nd, err>>
      BY <2>10 DEF StoreTable
    <3>2. tab[t] # NULL /\ Complete(heap[tab[t]])
      BY <3>1
    <3>3. (table # NULL => Complete(heap[table]))' /\ table' # NULL
      BY <3>1, <3>2
    <3>4. ASSUME NEW u \in Threads, u # t PROVE tab'[u] = tab[u] /\ todo'[u] = todo[u]
      BY <3>1, <3>4
    <3>5. "table" \notin todo'[t]
      BY <3>1
    <3> QED BY <3>1, <3>3, <3>4, <3>5
  <2>11. CASE EndStore(t)
    <3>1. /\ pc[t] = "store" /\ todo[t] = {} /\ pc' = [pc EXCEPT ![t] = "recheck"]
          /\ UNCHANGED <<heap, table, tab, todo, nd, err>>
      BY <2>11 DEF EndStore, globals, reader
    <3>2. table # NULL
      BY <3>1
    <3> QED BY <3>1, <3>2
  <2>12. CASE StillNoTable(t) \/ HaveTable(t) \/ OutOfRange(t) \/ InRange(t)
    BY <2>12 DEF StillNoTable, HaveTable, OutOfRange, InRange, sysfs, globals, args, reader
  <2>16. CASE Index(t)
    BY <2>16 DEF Index, sysfs, globals, args, reader
  <2>17. CASE NullIndex(t)
    BY <2>17 DEF NullIndex, sysfs, globals, args, reader
  <2>18. CASE Leave(t)
    BY <2>18 DEF Leave, sysfs, globals, args, reader
  <2> QED
    BY <1>6, <2>1, <2>2, <2>3, <2>5, <2>6, <2>7, <2>8, <2>9, <2>10, <2>11, <2>12, <2>16, <2>17, <2>18
    DEF ThreadStep
<1> QED BY <1>2, <1>3, <1>4, <1>5, <1>6 DEF Next

\* The size of the table is seen before the table.
LEMMA NextSize ==
  ASSUME TypeOK, ~StoreReorder, SizeFirst, [Next]_vars
  PROVE  SizeFirst'
<1> USE ConstantsAssumption
<1> USE DEF SizeFirst, TypeOK, Goto, Answer
<1>1. CASE UNCHANGED vars
  BY <1>1 DEF vars, globals, reader
<1>2. ASSUME NEW n \in Files, NodeAppears(n) \/ NodeDisappears(n) PROVE SizeFirst'
  BY <1>2 DEF NodeAppears, NodeDisappears, globals, reader
<1>3. CASE Numa_distance_cleanup
  BY <1>3 DEF Numa_distance_cleanup, reader
<1>4. ASSUME NEW t \in Threads, NEW x \in Args, NEW y \in Args, Numa_distance(t, x, y)
      PROVE  SizeFirst'
  BY <1>4 DEF Numa_distance, globals, reader
<1>5. ASSUME NEW t \in Threads, ThreadStep(t) PROVE SizeFirst'
  <2>1. CASE StoreTable(t)
    BY <2>1 DEF StoreTable
  <2>2. CASE StoreNumnodes(t)
    BY <2>2 DEF StoreNumnodes
  <2>3. CASE WonRace(t)
    BY <2>3 DEF WonRace, globals
  <2>4. CASE \/ TestTable(t) \/ RowAbsent(t) \/ RowUnopenable(t) \/ RowUnreadable(t)
             \/ \E x \in Tables : RowParsed(t, x)
             \/ GiveUp(t) \/ LostRace(t) \/ EndStore(t)
             \/ StillNoTable(t) \/ HaveTable(t) \/ OutOfRange(t) \/ InRange(t)
             \/ Index(t) \/ NullIndex(t) \/ Leave(t)
    <3>1. /\ UNCHANGED <<numnodes, table, todo>>
          /\ \A u \in Threads : pc'[u] = "store" => pc[u] = "store"
      BY <2>4 DEF TestTable, RowAbsent, RowUnopenable, RowUnreadable, RowParsed, GiveUp, LostRace,
         EndStore, StillNoTable, HaveTable, OutOfRange, InRange, Index, NullIndex, Leave,
         globals, reader
    <3> QED BY <3>1
  <2> QED BY <1>5, <2>1, <2>2, <2>3, <2>4 DEF ThreadStep
<1> QED BY <1>1, <1>2, <1>3, <1>4, <1>5 DEF Next

\* A cell of the table holds the distance of the two nodes it is for, or none;
\* a complete table holds that of every two known nodes.
LEMMA CellOf ==
  ASSUME TypeOK, CellsRight, table # NULL,
         NEW x \in 0 .. Width - 1, NEW y \in 0 .. Width - 1
  PROVE  /\ heap[table][x * Width + y] \in {None, <<x, y>>}
         /\ Complete(heap[table]) /\ x \in Known /\ y \in Known =>
              heap[table][x * Width + y] = <<x, y>>
<1> DEFINE i == x * Width + y
<1>1. i \in Cells /\ table \in Tables
  BY CellInTable DEF TypeOK
<1>2. CASE \E r, c \in Known : i = r * Width + c /\ heap[table][i] = <<r, c>>
  <2>1. PICK r \in Known, c \in Known : i = r * Width + c /\ heap[table][i] = <<r, c>>
    BY <1>2
  <2>2. r \in 0 .. Width - 1 /\ c \in 0 .. Width - 1
    BY KnownNodes
  <2>3. r = x /\ c = y
    BY <2>1, <2>2, CellUnique
  <2> QED BY <2>1, <2>3
<1>3. CASE heap[table][i] = None
  BY <1>3 DEF Complete, RowDone
<1> QED BY <1>1, <1>2, <1>3 DEF CellsRight

\* A call that answers does so for its own arguments; where it cannot tell, something failed.
LEMMA NextAnswers ==
  ASSUME TypeOK, Safe, ~HotAdd, ~HotRemove, AnswerInv, [Next]_vars
  PROVE  RightDistance' /\ (~StoreReorder => ZeroMeansUnknown')
<1> USE ConstantsAssumption
<1> DEFINE Asked(u) == pc[u] = "done" => value[u] \in {None, <<a[u], b[u]>>}
           Unknown(u) == pc[u] = "done" /\ a[u] \in Known /\ b[u] \in Known /\ value[u] = None => failed
           Goal == RightDistance' /\ (~StoreReorder => ZeroMeansUnknown')
<1>0. (\A u \in Threads : Asked(u)) /\ (~StoreReorder => \A u \in Threads : Unknown(u))
  BY DEF AnswerInv, RightDistance, ZeroMeansUnknown
<1>1. ASSUME NEW t \in Threads, failed => failed',
             \A u \in Threads : u # t =>
               /\ pc'[u] = pc[u] \/ pc'[u] # "done"
               /\ a'[u] = a[u] /\ b'[u] = b[u] /\ value'[u] = value[u],
             Asked(t)', ~StoreReorder => Unknown(t)'
      PROVE  Goal
  BY <1>0, <1>1 DEF RightDistance, ZeroMeansUnknown
<1>2. ASSUME failed => failed', UNCHANGED <<a, b, value>>,
             \A u \in Threads : pc'[u] = pc[u] \/ pc'[u] # "done"
      PROVE  Goal
  BY <1>0, <1>2 DEF RightDistance, ZeroMeansUnknown
<1>3. ASSUME UNCHANGED vars PROVE Goal
  BY <1>2, <1>3 DEF vars, sysfs, args
<1>4. ASSUME NEW n \in Files, NodeAppears(n) \/ NodeDisappears(n) PROVE FALSE
  BY <1>4 DEF NodeAppears, NodeDisappears
<1>5. ASSUME Numa_distance_cleanup PROVE Goal
  BY <1>2, <1>5 DEF Numa_distance_cleanup, sysfs, args
<1>6. ASSUME NEW t \in Threads, NEW x \in Args, NEW y \in Args, Numa_distance(t, x, y)
      PROVE  Goal
  <2>1. /\ failed' = failed /\ pc'[t] = "test"
        /\ \A u \in Threads : u # t => pc'[u] = pc[u] /\ a'[u] = a[u] /\ b'[u] = b[u] /\ value'[u] = value[u]
    BY <1>6 DEF Numa_distance, Goto, sysfs, TypeOK
  <2> QED BY <1>1, <2>1
<1>7. ASSUME NEW t \in Threads, ThreadStep(t) PROVE Goal
  <2>1. CASE \/ TestTable(t) \/ RowAbsent(t) \/ RowUnopenable(t) \/ RowUnreadable(t)
             \/ \E x \in Tables : RowParsed(t, x)
             \/ LostRace(t) \/ WonRace(t) \/ StoreNumnodes(t) \/ StoreTable(t) \/ EndStore(t)
             \/ HaveTable(t) \/ InRange(t) \/ NullIndex(t)
    <3>1. /\ failed => failed'
          /\ UNCHANGED <<a, b, value>>
          /\ \A u \in Threads : pc'[u] = pc[u] \/ pc'[u] # "done"
      BY <2>1 DEF TestTable, RowAbsent, RowUnopenable, RowUnreadable, RowParsed, LostRace, WonRace,
         StoreNumnodes, StoreTable, EndStore, HaveTable, InRange, NullIndex, Goto, TypeOK,
         sysfs, globals, args
    <3> QED BY <1>2, <3>1
  <2>2. ASSUME NEW v, NEW from \in {"finish", "recheck", "bounds", "index"}, Answer(t, from, v),
               UNCHANGED <<a, b, failed>>, v \in {None, <<a[t], b[t]>>},
               ~StoreReorder /\ a[t] \in Known /\ b[t] \in Known /\ v = None => failed
        PROVE  Goal
    <3>1. /\ failed' = failed /\ pc'[t] = "done" /\ value'[t] = v /\ a'[t] = a[t] /\ b'[t] = b[t]
          /\ \A u \in Threads : u # t => pc'[u] = pc[u] /\ a'[u] = a[u] /\ b'[u] = b[u] /\ value'[u] = value[u]
      BY <2>2 DEF Answer, Goto, TypeOK
    <3> QED BY <1>1, <2>2, <3>1
  <2>3. CASE GiveUp(t)
    <3>1. Answer(t, "finish", None) /\ UNCHANGED <<a, b, failed>> /\ err[t] /\ pc[t] = "finish"
      BY <2>3 DEF GiveUp, sysfs, args, Answer, Goto
    <3>2. failed
      BY <3>1 DEF AnswerInv, ScanComplete
    <3> QED BY <2>2, <3>1, <3>2
  <2>4. CASE StillNoTable(t)
    <3>1. Answer(t, "recheck", None) /\ UNCHANGED <<a, b, failed>> /\ table = NULL /\ pc[t] = "recheck"
      BY <2>4 DEF StillNoTable, sysfs, args, Answer, Goto
    <3>2. failed
      BY <3>1 DEF AnswerInv, ScanComplete
    <3> QED BY <2>2, <3>1, <3>2
  <2>5. CASE OutOfRange(t)
    <3>1. /\ Answer(t, "bounds", None) /\ UNCHANGED <<a, b, failed>> /\ pc[t] = "bounds"
          /\ ~(InTable(a[t]) /\ InTable(b[t]))
      BY <2>5 DEF OutOfRange, sysfs, args, Answer, Goto
    <3>2. ~StoreReorder /\ a[t] \in Known /\ b[t] \in Known => failed
      <4> SUFFICES ASSUME ~StoreReorder, a[t] \in Known, b[t] \in Known, ~failed PROVE FALSE
        OBVIOUS
      <4>1. numnodes = Width
        BY <3>1 DEF AnswerInv, ScanComplete, SizeFirst
      <4> QED BY <3>1, <4>1, KnownNodes DEF InTable
    <3> QED BY <2>2, <3>1, <3>2
  <2>6. CASE Index(t)
    <3> DEFINE v == heap[table][a[t] * numnodes + b[t]]
    <3>1. Answer(t, "index", v) /\ UNCHANGED <<a, b, failed>> /\ table # NULL /\ pc[t] = "index"
      BY <2>6 DEF Index, sysfs, args, Answer, Goto
    <3>2. numnodes = Width /\ a[t] \in 0 .. Width - 1 /\ b[t] \in 0 .. Width - 1
      BY <3>1 DEF Safe, IndexInRange
    <3>3. CellsRight
      BY DEF AnswerInv
    <3>4. /\ v \in {None, <<a[t], b[t]>>}
          /\ Complete(heap[table]) /\ a[t] \in Known /\ b[t] \in Known => v = <<a[t], b[t]>>
      BY <3>1, <3>2, <3>3, CellOf
    <3>5. ~failed => Complete(heap[table])
      BY <3>1 DEF AnswerInv
    <3> HIDE DEF v
    <3>6. <<a[t], b[t]>> # None
      BY DEF None
    <3> QED BY <2>2, <3>1, <3>4, <3>5, <3>6
  <2>7. CASE Leave(t)
    <3>1. /\ failed' = failed /\ pc'[t] = "idle"
          /\ \A u \in Threads : u # t => pc'[u] = pc[u] /\ a'[u] = a[u] /\ b'[u] = b[u] /\ value'[u] = value[u]
      BY <2>7 DEF Leave, Goto, sysfs, TypeOK
    <3> QED BY <1>1, <3>1
  <2> HIDE DEF Goal
  <2> QED BY <1>7, <2>1, <2>3, <2>4, <2>5, <2>6, <2>7 DEF ThreadStep
<1> HIDE DEF Goal
<1>8. Goal
  BY <1>3, <1>4, <1>5, <1>6, <1>7 DEF Next
<1> QED BY <1>8 DEF Goal


LEMMA AnswerInit == Init => AnswerInv
<1> SUFFICES ASSUME Init PROVE AnswerInv
  OBVIOUS
<1> USE DEF Init
<1>1. online = Known /\ StaysInside /\ RightDistance /\ ZeroMeansUnknown /\ SizeFirst
  BY DEF StaysInside, RightDistance, ZeroMeansUnknown, SizeFirst
<1>2. CellsRight
  BY DEF CellsRight, BlankTable
<1>3. ScanComplete /\ table = NULL
  BY DEF ScanComplete
<1> QED BY <1>1, <1>2, <1>3 DEF AnswerInv

LEMMA AnswerNext ==
  ASSUME ~HotAdd, ~HotRemove, IndInv, IndInv', AnswerInv, [Next]_vars
  PROVE  AnswerInv'
<1>0. TypeOK /\ TypeOK' /\ Safe
  BY DEF IndInv, Safe
<1>1. (online = Known /\ StaysInside /\ CellsRight)'
  BY <1>0, NextCells
<1>2. FilledWell'
  BY <1>0, NextFilled
<1>3. ~StoreReorder => SizeFirst'
  BY <1>0, NextSize DEF AnswerInv
<1>4. RightDistance' /\ (~StoreReorder => ZeroMeansUnknown')
  BY <1>0, NextAnswers
<1> QED BY <1>1, <1>2, <1>3, <1>4 DEF AnswerInv, FilledWell

LEMMA AnswerAlways ==
  ASSUME ~HotAdd, ~HotRemove
  PROVE  Spec => []AnswerInv
<1>1. IndInv /\ IndInv' /\ AnswerInv /\ [Next]_vars => AnswerInv'
  BY AnswerNext
<1> QED BY <1>1, AnswerInit, Invariance, PTL DEF Spec

\* numa_distance answers with the distance of the two nodes it was asked for, and
\* with 0 for known nodes only after a failure, whatever numbers the nodes have and
\* however many threads scan sysfs, while nodes neither come nor go and the two
\* stores of the publication are seen in order; parsing stays inside its table.
THEOREM AnswersAreRight ==
  ASSUME ~HotAdd, ~HotRemove, ~StoreReorder
  PROVE  Spec => []AnswersRight
<1>1. AnswerInv => AnswersRight
  BY DEF AnswerInv, AnswersRight
<1> QED BY <1>1, AnswerAlways, PTL

\* A table that is already published keeps its cells: whoever replaces it does
\* so with the same ones, unless a read failed.
LEMMA StableStep ==
  ASSUME ~HotAdd, ~HotRemove, IndInv, IndInv', AnswerInv, AnswerInv', [Next]_vars
  PROVE  TableStableStep
<1> SUFFICES ASSUME table # NULL, table' # NULL, ~failed', NEW i \in Cells
             PROVE  heap'[table'][i] = heap[table][i]
  BY DEF TableStableStep
<1>1. ~failed
  <2>1. ASSUME NEW t \in Threads, ThreadStep(t) PROVE failed => failed'
    BY <2>1 DEF ThreadStep, TestTable, RowAbsent, RowUnopenable, RowUnreadable, RowParsed, GiveUp,
       LostRace, WonRace, StoreNumnodes, StoreTable, EndStore, StillNoTable, HaveTable, OutOfRange,
       InRange, Index, NullIndex, Leave, sysfs
  <2> QED BY <2>1 DEF Next, Numa_distance, NodeAppears, NodeDisappears, Numa_distance_cleanup,
                      vars, sysfs
<1>2. /\ table \in Tables /\ table' \in Tables
      /\ CellsRight /\ CellsRight' /\ Complete(heap[table]) /\ Complete(heap[table])'
  BY <1>1 DEF AnswerInv, IndInv, TypeOK
<1>3. ASSUME NEW f, Complete(f), NEW r \in Known, NEW c \in Known, i = r * Width + c
      PROVE  f[i] = <<r, c>>
  BY <1>3 DEF Complete, RowDone
<1>4. CASE \E r, c \in Known : i = r * Width + c
  BY <1>2, <1>3, <1>4 DEF Complete, RowDone
<1>5. CASE ~ \E r, c \in Known : i = r * Width + c
  BY <1>2, <1>5 DEF CellsRight
<1> QED BY <1>4, <1>5

\* Two calls of numa_distance see the same table: a slower thread that replaces it
\* puts the same distances in, while nodes neither come nor go and no read fails.
THEOREM TableIsStable ==
  ASSUME ~HotAdd, ~HotRemove
  PROVE  Spec => TableStable
<1>1. IndInv /\ IndInv' /\ AnswerInv /\ AnswerInv' /\ [Next]_vars => [TableStableStep]_vars
  BY StableStep
<1> QED BY <1>1, AnswerAlways, Invariance, PTL DEF Spec, TableStable

----------------------------------------------------------------------------
(* Tables that are lost: LeakInv, on top of IndInv, where node 0 exists. *)

\* One more element.
LEMMA AddOne ==
  ASSUME NEW S, NEW x, IsFiniteSet(S)
  PROVE  IsFiniteSet(S \cup {x}) /\ Cardinality(S \cup {x}) <= Cardinality(S) + 1
<1>1. Cardinality(S) \in Nat
  BY FS_CardinalityType
<1>2. /\ IsFiniteSet(S \cup {x})
      /\ Cardinality(S \cup {x}) = IF x \in S THEN Cardinality(S) ELSE Cardinality(S) + 1
  BY FS_AddElement
<1> QED BY <1>1, <1>2

LEMMA Finite ==
  ASSUME IsFiniteSet(live)
  PROVE  /\ IsFiniteSet(Leaked) /\ IsFiniteSet(Racing) /\ IsFiniteSet(Threads)
         /\ Cardinality(Leaked) \in Nat /\ Cardinality(Racing) \in Nat
         /\ Cardinality(Threads) \in Nat \ {0}
<1>1. Leaked \in SUBSET live /\ Racing \in SUBSET Threads
  BY DEF Leaked, Racing
<1>2. IsFiniteSet(Threads) /\ Threads # {}
  BY ConstantsAssumption
<1>3. IsFiniteSet(Leaked) /\ IsFiniteSet(Racing)
  BY <1>1, <1>2, FS_Subset
<1>4. Cardinality(Threads) # 0
  BY <1>2, FS_EmptySet
<1> QED BY <1>2, <1>3, <1>4, FS_CardinalityType

LEMMA LeakedTable ==
  ASSUME NEW x
  PROVE  x \in Leaked <=> x \in live /\ x # table /\ \A t \in Threads : Mine(t) # x
BY DEF Leaked

\* What a step of a call other than the store of its table does to the tables.
LEMMA OtherLeak ==
  ASSUME TypeOK, TypeOK', LeakInv, 0 \in Known, TableStays, NEW t \in Threads, ThreadStep(t), ~StoreTable(t)
  PROVE  /\ table' = table /\ unloaded' = unloaded
         /\ Leaked' \subseteq Leaked
         /\ Racing' \subseteq Racing \/ table = NULL
         /\ IsFiniteSet(live')
         /\ \A u \in Threads : pc'[u] = "store" /\ "table" \notin todo'[u] => tab'[u] = NULL
<1> DEFINE P == /\ table' = table /\ unloaded' = unloaded
                /\ live' \subseteq live \cup {Mine(t)'}
                /\ Mine(t) # NULL => Mine(t)' = Mine(t) \/ Mine(t) \notin live'
                /\ \A u \in Threads : u # t => pc'[u] = pc[u] /\ tab'[u] = tab[u] /\ todo'[u] = todo[u]
                /\ t \in Racing' => t \in Racing \/ table = NULL
                /\ pc'[t] = "store" /\ "table" \notin todo'[t] => tab'[t] = NULL
<1> USE DEF Mine, Owning, Goto, Answer, Racing
<1>0. \A u \in Threads : pc[u] = "store" /\ "table" \notin todo[u] => tab[u] = NULL
  BY DEF LeakInv
<1>1. P
  <2> USE <1>0 DEF TypeOK
  <2>1. ASSUME TestTable(t) PROVE P
    BY <2>1 DEF TestTable, globals
  <2>2. ASSUME RowAbsent(t) \/ RowUnopenable(t) PROVE P
    BY <2>2 DEF RowAbsent, RowUnopenable, globals
  <2>3. ASSUME RowUnreadable(t) PROVE P
    BY <2>3 DEF RowUnreadable, globals, reader
  <2>4. ASSUME NEW x \in Tables, RowParsed(t, x) PROVE P
    BY <2>4 DEF RowParsed
  <2>5. ASSUME GiveUp(t) PROVE P
    BY <2>5 DEF GiveUp, DropTable
  <2>6. ASSUME LostRace(t) PROVE P
    BY <2>6 DEF LostRace, DropTable
  <2>7. ASSUME WonRace(t) PROVE P
    BY <2>7 DEF WonRace, globals
  <2>8. ASSUME StoreNumnodes(t) PROVE P
    BY <2>8 DEF StoreNumnodes
  <2>9. ASSUME EndStore(t) PROVE P
    BY <2>9 DEF EndStore, globals, reader
  <2>10. ASSUME StillNoTable(t) \/ HaveTable(t) \/ OutOfRange(t) \/ InRange(t) \/ Index(t) PROVE P
    BY <2>10 DEF StillNoTable, HaveTable, OutOfRange, InRange, Index, globals, reader
  <2>11. ~NullIndex(t)
    BY DEF NullIndex, TableStays
  <2>12. ASSUME Leave(t) PROVE P
    BY <2>12 DEF Leave, globals
  <2> HIDE DEF P
  <2> QED BY <2>1, <2>2, <2>3, <2>4, <2>5, <2>6, <2>7, <2>8, <2>9, <2>10, <2>11, <2>12 DEF ThreadStep
<1>2. \A u \in Threads : u # t => Mine(u)' = Mine(u)
  BY <1>1
<1>3. Leaked' \subseteq Leaked
  <2> SUFFICES ASSUME NEW x \in Leaked' PROVE x \in Leaked
    OBVIOUS
  <2>1. x \in live' /\ x # table' /\ \A u \in Threads : Mine(u)' # x
    BY DEF Leaked
  <2>2. x # NULL
    BY <2>1, ConstantsAssumption DEF TypeOK
  <2> HIDE DEF Mine
  <2>3. x \in live /\ x # table /\ Mine(t) # x
    BY <1>1, <2>1, <2>2
  <2> QED BY <1>2, <2>1, <2>3, LeakedTable
<1>4. IsFiniteSet(live')
  <2> DEFINE m == Mine(t)'
  <2>1. IsFiniteSet(live) /\ live' \subseteq live \cup {m}
    BY <1>1 DEF LeakInv
  <2> HIDE DEF m
  <2> QED BY <2>1, AddOne, FS_Subset
<1>5. Racing' \subseteq Racing \/ table = NULL
  BY <1>1
<1> QED BY <1>0, <1>1, <1>3, <1>4, <1>5

\* Storing a table over the one of another thread loses that one, and takes the
\* call out of the race.
LEMMA StoreLeak ==
  ASSUME TypeOK, Safe, LeakInv, 0 \in Known, NEW t \in Threads, StoreTable(t)
  PROVE  LeakInv'
<1>1. /\ pc[t] = "store" /\ "table" \in todo[t] /\ table' = tab[t] /\ tab[t] # NULL
      /\ tab' = [tab EXCEPT ![t] = NULL] /\ todo' = [todo EXCEPT ![t] = @ \ {"table"}]
      /\ UNCHANGED <<live, unloaded, pc>>
  BY DEF StoreTable, Safe, StoreHasTable
<1>2. ~unloaded /\ IsFiniteSet(live)
  BY <1>1 DEF LeakInv
<1>3. Leaked' \subseteq Leaked \cup {table}
  <2> SUFFICES ASSUME NEW x \in Leaked', x # table PROVE x \in Leaked
    OBVIOUS
  <2>1. x \in live /\ x # tab[t] /\ \A u \in Threads : Mine(u)' # x
    BY <1>1 DEF Leaked
  <2>2. \A u \in Threads : u # t => Mine(u)' = Mine(u)
    BY <1>1 DEF Mine, TypeOK
  <2>3. Mine(t) # x
    BY <1>1, <2>1 DEF Mine, Owning
  <2> QED BY <2>1, <2>2, <2>3, LeakedTable
<1>4. Racing' \subseteq Racing \ {t} /\ t \in Racing
  BY <1>1 DEF Racing, TypeOK
<1>5. \A u \in Threads : pc'[u] = "store" /\ "table" \notin todo'[u] => tab'[u] = NULL
  BY <1>1 DEF LeakInv, TypeOK
<1> DEFINE l == Cardinality(Leaked)   r == Cardinality(Racing)  k == Cardinality(Threads) - 1
<1>6. /\ l \in Nat /\ r \in Nat /\ k \in Nat /\ IsFiniteSet(Leaked) /\ IsFiniteSet(Racing) /\ IsFiniteSet(Threads)
  <2>1. Cardinality(Threads) \in Nat \ {0}
    BY <1>2, Finite
  <2> QED BY <1>2, <2>1, Finite
<1>7. IsFiniteSet(Racing \ {t}) /\ Cardinality(Racing \ {t}) = r - 1
  BY <1>4, <1>6, FS_RemoveElement
<1>8. IsFiniteSet(Racing') /\ Cardinality(Racing') <= r - 1 /\ Cardinality(Racing') \in Nat
  BY <1>4, <1>7, FS_Subset, FS_CardinalityType
<1>9. r - 1 <= k
  <2>1. Racing \in SUBSET Threads
    BY DEF Racing
  <2>2. Cardinality(Racing) <= Cardinality(Threads)
    BY <1>6, <2>1, FS_Subset
  <2>3. Cardinality(Racing) \in Nat /\ Cardinality(Threads) \in Nat
    BY <1>6, FS_CardinalityType
  <2> QED BY <2>2, <2>3
<1>10. Cardinality(Leaked') + Cardinality(Racing') <= k
  <2>1. CASE table = NULL
    <3>1. NULL \notin Leaked'
      BY <1>1, ConstantsAssumption DEF Leaked, TypeOK
    <3>2. Leaked' = {}
      BY <1>2, <1>3, <2>1, <3>1 DEF LeakInv
    <3>3. Cardinality(Leaked') = 0
      BY <3>2, FS_EmptySet
    <3> HIDE DEF l, r, k
    <3> QED BY <1>6, <1>8, <1>9, <3>3
  <2>2. CASE table # NULL
    <3>1. l + r <= k
      BY <1>2, <2>2 DEF LeakInv
    <3>2. IsFiniteSet(Leaked \cup {table}) /\ Cardinality(Leaked \cup {table}) <= l + 1
      BY <1>6, AddOne
    <3>3. /\ Cardinality(Leaked') <= Cardinality(Leaked \cup {table})
          /\ Cardinality(Leaked') \in Nat /\ Cardinality(Leaked \cup {table}) \in Nat
      BY <1>3, <3>2, FS_Subset, FS_CardinalityType
    <3> HIDE DEF l, r, k
    <3> QED BY <1>6, <1>8, <3>1, <3>2, <3>3
  <2> QED BY <2>1, <2>2
<1>11. table' # NULL
  BY <1>1
<1> QED BY <1>1, <1>2, <1>5, <1>10, <1>11 DEF LeakInv

\* Fewer lost tables and fewer calls in the race.
LEMMA FewerLeaks ==
  ASSUME IsFiniteSet(live), Leaked' \subseteq Leaked, Racing' \subseteq Racing,
         Cardinality(Leaked) + Cardinality(Racing) <= Cardinality(Threads) - 1
  PROVE  Cardinality(Leaked') + Cardinality(Racing') <= Cardinality(Threads) - 1
<1>1. /\ IsFiniteSet(Leaked') /\ IsFiniteSet(Racing')
      /\ Cardinality(Leaked') <= Cardinality(Leaked) /\ Cardinality(Racing') <= Cardinality(Racing)
  BY Finite, FS_Subset
<1>2. /\ Cardinality(Leaked') \in Nat /\ Cardinality(Racing') \in Nat
      /\ Cardinality(Leaked) \in Nat /\ Cardinality(Racing) \in Nat /\ Cardinality(Threads) \in Nat
  BY <1>1, Finite, FS_CardinalityType
<1> QED BY <1>1, <1>2

LEMMA NextLeak ==
  ASSUME TypeOK, TypeOK', Safe, LeakInv, 0 \in Known, [Next]_vars
  PROVE  LeakInv'
<1>1. CASE UNCHANGED vars
  <2>1. UNCHANGED <<live, table, unloaded, pc, tab, todo>>
    BY <1>1 DEF vars, globals, reader
  <2>2. Leaked' = Leaked /\ Racing' = Racing
    BY <2>1 DEF Leaked, Racing, Mine
  <2> QED BY <2>1, <2>2 DEF LeakInv
<1>2. CASE \/ \E n \in Files : NodeAppears(n) \/ NodeDisappears(n)
           \/ \E t \in Threads, x, y \in Args : Numa_distance(t, x, y)
  <2>1. /\ UNCHANGED <<live, table, unloaded, tab, todo>>
        /\ \A t \in Threads : pc'[t] = pc[t] \/ (pc[t] = "idle" /\ pc'[t] = "test")
        /\ unloaded => pc' = pc
    BY <1>2 DEF NodeAppears, NodeDisappears, Numa_distance, Goto, globals, reader, TypeOK
  <2>2. \A t \in Threads : Mine(t)' = Mine(t)
    BY <2>1 DEF Mine, Owning
  <2>3. Leaked' = Leaked
    BY <2>1, <2>2 DEF Leaked
  <2>4. Racing' = Racing
    BY <2>1 DEF Racing
  <2> QED BY <2>1, <2>3, <2>4 DEF LeakInv
<1>3. CASE Numa_distance_cleanup
  <2>1. /\ ~unloaded /\ unloaded' = TRUE /\ live' = live \ {table} /\ table' = NULL
        /\ UNCHANGED <<pc, tab, todo>> /\ \A t \in Threads : pc[t] = "idle"
    BY <1>3 DEF Numa_distance_cleanup, reader
  <2>2. Racing = {} /\ Racing' = {}
    BY <2>1 DEF Racing
  <2>3. Leaked' \subseteq Leaked
    BY <2>1 DEF Leaked, Mine
  <2>4. IsFiniteSet(live) /\ IsFiniteSet(live')
    BY <2>1, FS_Subset DEF LeakInv
  <2>5. Cardinality(Leaked) + Cardinality(Racing) <= Cardinality(Threads) - 1
    <3>1. CASE table = NULL
      <4>1. Leaked = {}
        BY <2>1, <3>1 DEF LeakInv
      <4>2. Cardinality(Leaked) = 0 /\ Cardinality(Racing) = 0 /\ Cardinality(Threads) \in Nat \ {0}
        BY <2>2, <2>4, <4>1, FS_EmptySet, Finite
      <4> QED BY <4>2
    <3>2. CASE table # NULL
      BY <3>2 DEF LeakInv
    <3> QED BY <3>1, <3>2
  <2>6. Cardinality(Leaked') + Cardinality(Racing') <= Cardinality(Threads) - 1
    BY <2>2, <2>3, <2>4, <2>5, FewerLeaks
  <2> QED BY <2>1, <2>4, <2>6 DEF LeakInv
<1>4. ASSUME NEW t \in Threads, ThreadStep(t) PROVE LeakInv'
  <2>1. CASE StoreTable(t)
    BY <2>1, StoreLeak
  <2>2. CASE ~StoreTable(t)
    <3>1. TableStays
      BY DEF Safe
    <3>2. /\ table' = table /\ unloaded' = unloaded
          /\ Leaked' \subseteq Leaked
          /\ Racing' \subseteq Racing \/ table = NULL
          /\ IsFiniteSet(live')
          /\ \A u \in Threads : pc'[u] = "store" /\ "table" \notin todo'[u] => tab'[u] = NULL
      BY <1>4, <2>2, <3>1, OtherLeak
    <3>3. ~unloaded /\ IsFiniteSet(live)
      <4>1. pc[t] # "idle"
        BY <1>4 DEF ThreadStep, TestTable, RowAbsent, RowUnopenable, RowUnreadable, RowParsed, GiveUp,
           LostRace, WonRace, StoreNumnodes, StoreTable, EndStore, StillNoTable, HaveTable, OutOfRange,
           InRange, Index, NullIndex, Leave, Goto, Answer
      <4> QED BY <4>1 DEF LeakInv
    <3>4. CASE table = NULL
      BY <3>2, <3>3, <3>4 DEF LeakInv
    <3>5. CASE table # NULL
      <4>1. Cardinality(Leaked) + Cardinality(Racing) <= Cardinality(Threads) - 1
        BY <3>5 DEF LeakInv
      <4>2. Cardinality(Leaked') + Cardinality(Racing') <= Cardinality(Threads) - 1
        BY <3>2, <3>3, <3>5, <4>1, FewerLeaks
      <4> QED BY <3>2, <3>3, <3>5, <4>2 DEF LeakInv
    <3> QED BY <3>4, <3>5
  <2> QED BY <2>1, <2>2
<1> QED BY <1>1, <1>2, <1>3, <1>4 DEF Next

LEMMA InitLeak == Init => LeakInv
<1> SUFFICES ASSUME Init PROVE LeakInv
  OBVIOUS
<1>1. IsFiniteSet(live)
  BY FS_EmptySet DEF Init
<1> QED BY <1>1 DEF LeakInv, Init, Leaked

\* However many threads are in numa_distance at once, on a machine with a node 0
\* the race for distance_table loses at most one table for each thread but one,
\* for the life of the process.
THEOREM LeakIsBounded == ASSUME 0 \in Known PROVE Spec => []LeakBound
<1>1. LeakInv => LeakBound
  <2> SUFFICES ASSUME LeakInv PROVE LeakBound
    OBVIOUS
  <2>1. /\ Cardinality(Leaked) \in Nat /\ Cardinality(Racing) \in Nat
        /\ Cardinality(Threads) \in Nat \ {0}
    BY Finite DEF LeakInv
  <2>2. Leaked = {} => Cardinality(Leaked) = 0
    BY FS_EmptySet
  <2> QED BY <2>1, <2>2 DEF LeakInv, LeakBound
<1>2. IndInv /\ IndInv' /\ LeakInv /\ [Next]_vars => LeakInv'
  <2>1. IndInv => TypeOK /\ Safe
    BY DEF IndInv, Safe
  <2>2. IndInv' => TypeOK'
    BY DEF IndInv
  <2> QED BY <2>1, <2>2, NextLeak
<1> QED BY <1>1, <1>2, InitLeak, Invariance, PTL DEF Spec
=============================================================================
