------------------------ MODULE NumastatTableProofs -------------------------
(* The tables of numastat, for any nodes, processes and screen: what the       *)
(* numa_maps of a process adds to its table, what sorting does to the order of  *)
(* the rows, and how a table is folded and displayed.  A loop is followed turn  *)
(* by turn (Steps): the set of turns after which its table is right has 0 and,  *)
(* with each turn, the next.                                                    *)
EXTENDS NumastatProofs

----------------------------------------------------------------------------
(* Loops and sums *)

\* What holds of 0, and of each number after one of which it holds, holds up to n.
LEMMA Steps ==
  ASSUME NEW n \in Nat, NEW G, 0 \in G, \A k \in 1 .. n : k - 1 \in G => k \in G
  PROVE  \A k \in 0 .. n : k \in G
<1> DEFINE Bad == {k \in 0 .. n : k \notin G}
<1> SUFFICES ASSUME Bad # {} PROVE FALSE
  OBVIOUS
<1>1. Bad \in SUBSET Nat
  OBVIOUS
<1>2. PICK k \in Bad : \A j \in Bad : k <= j
  <2> HIDE DEF Bad
  <2> QED BY <1>1, Least
<1>3. k \in 1 .. n /\ k \notin G
  BY <1>2
<1>4. k - 1 \in 0 .. n /\ k - 1 \notin Bad
  <2> HIDE DEF Bad
  <2> QED BY <1>1, <1>2, <1>3
<1> QED BY <1>3, <1>4

\* A loop whose steps stay in S is defined, step[k] being its k-th step.
Loops(g, S, n, x, step) ==
    g \in [0 .. n -> S] /\ g[0] = x /\ \A k \in 1 .. n : g[k] = step[k][g[k - 1]]

\* Such a loop exists.
LEMMA LoopExists ==
  \A S, n, x, step :
    n \in Nat /\ x \in S /\ step \in [1 .. n -> [S -> S]] => \E g : Loops(g, S, n, x, step)
<1> SUFFICES ASSUME NEW S, NEW n \in Nat, NEW x \in S, NEW step \in [1 .. n -> [S -> S]]
             PROVE  \E g : Loops(g, S, n, x, step)
  OBVIOUS
<1> DEFINE Has(m) == \E g \in [0 .. m -> S] : g[0] = x /\ \A k \in 1 .. m : g[k] = step[k][g[k - 1]]
           G == {m \in 0 .. n : Has(m)}
<1>1. 0 \in G
  <2> DEFINE g == [k \in 0 .. 0 |-> x]
  <2>1. g \in [0 .. 0 -> S] /\ g[0] = x /\ \A k \in 1 .. 0 : g[k] = step[k][g[k - 1]]
    OBVIOUS
  <2>2. Has(0)
    BY <2>1
  <2> QED BY <2>2
<1>2. ASSUME NEW m \in 1 .. n, m - 1 \in G PROVE m \in G
  <2>1. PICK g \in [0 .. m - 1 -> S] : g[0] = x /\ \A k \in 1 .. m - 1 : g[k] = step[k][g[k - 1]]
    BY <1>2
  <2> DEFINE h == [k \in 0 .. m |-> IF k = m THEN step[m][g[m - 1]] ELSE g[k]]
  <2>2. g[m - 1] \in S /\ step[m][g[m - 1]] \in S
    <3>1. m - 1 \in 0 .. m - 1
      OBVIOUS
    <3>2. g[m - 1] \in S
      BY <3>1
    <3> QED BY <3>2
  <2>3. h \in [0 .. m -> S]
    <3>1. \A k \in 0 .. m : k = m \/ k \in 0 .. m - 1
      OBVIOUS
    <3> QED BY <2>2, <3>1
  <2>4. h[0] = x
    BY <2>1
  <2>5. ASSUME NEW k \in 1 .. m PROVE h[k] = step[k][h[k - 1]]
    <3>1. k - 1 \in 0 .. m /\ k - 1 # m /\ h[k - 1] = g[k - 1]
      OBVIOUS
    <3>2. CASE k = m
      BY <3>1, <3>2
    <3>3. CASE k # m
      <4>1. k \in 1 .. m - 1 /\ h[k] = g[k]
        BY <3>3
      <4> QED BY <2>1, <3>1, <4>1
    <3> QED BY <3>2, <3>3
  <2> HIDE DEF h
  <2>6. Has(m)
    BY <2>3, <2>4, <2>5
  <2> HIDE DEF Has
  <2> QED BY <2>6
<1> HIDE DEF G
<1>3. \A k \in 1 .. n : k - 1 \in G => k \in G
  BY <1>2
<1>4. \A k \in 0 .. n : k \in G
  BY <1>1, <1>3, Steps
<1>5. Has(n)
  BY <1>4 DEF G
<1> QED BY <1>5 DEF Loops

\* The sums of longer and longer parts of a sequence.
Sum(u, f, n) ==
    /\ u \in [0 .. n -> Int] /\ f \in [1 .. n -> Int]
    /\ u[0] = 0 /\ \A k \in 1 .. n : u[k] = u[k - 1] + f[k]

\* Total of a sequence of numbers is the last of its sums.
LEMMA Sums ==
  ASSUME NEW n \in Nat, NEW f \in [1 .. n -> Int]
  PROVE  \E u : Sum(u, f, n) /\ u[n] = Total(f)
<1> DEFINE Loop(g) == g = [k \in 0 .. Len(f) |-> IF k = 0 THEN 0 ELSE g[k - 1] + f[k]]
           step == [k \in 1 .. n |-> [x \in Int |-> x + f[k]]]
<1>0. Len(f) = n /\ f \in Seq(Int) /\ \A k \in 1 .. n : f[k] \in Int
  OBVIOUS
<1>1. step \in [1 .. n -> [Int -> Int]]
  BY <1>0
<1>2. PICK g \in [0 .. n -> Int] : g[0] = 0 /\ \A k \in 1 .. n : g[k] = step[k][g[k - 1]]
  <2> HIDE DEF step
  <2>1. \E g : Loops(g, Int, n, 0, step)
    <3>1. 0 \in Int
      OBVIOUS
    <3> QED BY <1>1, <3>1, LoopExists, Zenon
  <2> QED BY <2>1 DEF Loops
<1>3. ASSUME NEW k \in 1 .. n PROVE k - 1 \in 0 .. n /\ g[k] = g[k - 1] + f[k]
  <2>1. k - 1 \in 0 .. n
    OBVIOUS
  <2>2. g[k - 1] \in Int
    BY <2>1
  <2> QED BY <1>2, <2>1, <2>2
<1>4. Loop(g)
  <2>1. g = [k \in 0 .. n |-> g[k]]
    OBVIOUS
  <2>2. \A k \in 0 .. n : g[k] = IF k = 0 THEN 0 ELSE g[k - 1] + f[k]
    BY <1>2, <1>3
  <2> QED BY <1>0, <2>1, <2>2
<1>5. PICK u : Loop(u) /\ Total(f) = u[n]
  <2>1. Total(f) = (CHOOSE u : Loop(u))[n]
    BY <1>0 DEF Total
  <2> HIDE DEF Loop
  <2> QED BY <1>4, <2>1
<1>6. u[0] = 0 /\ \A k \in 1 .. n : u[k] = u[k - 1] + f[k]
  <2>1. \A k \in 0 .. n : u[k] = IF k = 0 THEN 0 ELSE u[k - 1] + f[k]
    BY <1>0, <1>5
  <2> QED BY <1>0, <2>1
<1>7. DOMAIN u = 0 .. n /\ u = [k \in 0 .. n |-> u[k]]
  BY <1>0, <1>5
<1>8. \A k \in 0 .. n : u[k] \in Int
  <2> DEFINE G == {k \in 0 .. n : u[k] \in Int}
  <2>1. 0 \in G
    BY <1>6
  <2>2. \A k \in 1 .. n : k - 1 \in G => k \in G
    BY <1>0, <1>6
  <2> HIDE DEF G
  <2>3. \A k \in 0 .. n : k \in G
    BY <2>1, <2>2, Steps
  <2> QED BY <2>3 DEF G
<1>9. u \in [0 .. n -> Int]
  BY <1>7, <1>8
<1> QED BY <1>5, <1>6, <1>9 DEF Sum

\* The sum of numbers is a number, and that of none is 0.
LEMMA TotalType ==
  ASSUME NEW n \in Nat, NEW f \in [1 .. n -> Int]
  PROVE  Total(f) \in Int /\ (n = 0 => Total(f) = 0)
<1>1. PICK u : Sum(u, f, n) /\ u[n] = Total(f)
  BY Sums
<1> QED BY <1>1 DEF Sum

\* What h adds to f is d so far.
Shifted(f, h, d, n) ==
    /\ d \in [0 .. n -> Int] /\ d[0] = 0
    /\ \A k \in 1 .. n : h[k] + d[k - 1] = f[k] + d[k]

\* Two sums stay as far apart as what was added to one of them.
LEMMA SumsAgree ==
  ASSUME NEW n \in Nat, NEW f, NEW h, NEW d, NEW u, NEW v,
         Sum(u, f, n), Sum(v, h, n), Shifted(f, h, d, n)
  PROVE  v[n] = u[n] + d[n]
<1> DEFINE G == {k \in 0 .. n : v[k] = u[k] + d[k]}
<1>1. 0 \in G
  BY DEF Sum, Shifted
<1>2. ASSUME NEW k \in 1 .. n, k - 1 \in G PROVE k \in G
  <2>1. v[k - 1] = u[k - 1] + d[k - 1] /\ k - 1 \in 0 .. n /\ k \in 0 .. n
    BY <1>2
  <2>2. u[k] = u[k - 1] + f[k] /\ v[k] = v[k - 1] + h[k] /\ h[k] + d[k - 1] = f[k] + d[k]
    BY DEF Sum, Shifted
  <2>3. u[k - 1] \in Int /\ d[k - 1] \in Int /\ d[k] \in Int /\ f[k] \in Int /\ h[k] \in Int
    BY <2>1 DEF Sum, Shifted
  <2>4. v[k] = u[k] + d[k]
    BY <2>1, <2>2, <2>3
  <2> QED BY <2>1, <2>4
<1> HIDE DEF G
<1>3. n \in G
  BY <1>1, <1>2, Steps
<1> QED BY <1>3 DEF G

\* One more number.
LEMMA TotalNext ==
  ASSUME NEW n \in Nat, NEW f \in [1 .. n + 1 -> Int], NEW h, h = [k \in 1 .. n |-> f[k]]
  PROVE  Total(f) = Total(h) + f[n + 1]
<1>1. PICK u : Sum(u, f, n + 1) /\ u[n + 1] = Total(f)
  BY Sums
<1>2. h \in [1 .. n -> Int] /\ \A k \in 1 .. n : h[k] = f[k]
  OBVIOUS
<1>3. PICK v : Sum(v, h, n) /\ v[n] = Total(h)
  BY <1>2, Sums
<1> DEFINE w == [k \in 0 .. n |-> u[k]]
           d == [k \in 0 .. n |-> 0]
<1>4. w \in [0 .. n -> Int] /\ w[n] = u[n] /\ Sum(w, h, n)
  <2>1. \A k \in 1 .. n : k \in 1 .. n + 1 /\ k - 1 \in 0 .. n
    OBVIOUS
  <2> QED BY <1>1, <1>2, <2>1 DEF Sum
<1>5. d \in [0 .. n -> Int] /\ Shifted(h, h, d, n) /\ d[n] = 0
  BY <1>2 DEF Shifted
<1> HIDE DEF w, d
<1>6. v[n] = w[n] + d[n]
  BY <1>3, <1>4, <1>5, SumsAgree
<1>7. v[n] = u[n] /\ u[n] \in Int
  BY <1>1, <1>4, <1>5, <1>6 DEF Sum
<1>8. u[n + 1] = u[n] + f[n + 1]
  BY <1>1 DEF Sum
<1> QED BY <1>1, <1>3, <1>7, <1>8

\* h is f, but for the i-th number.
Bumped(h, f, n, i, x) ==
    /\ n \in Nat /\ f \in [1 .. n -> Int] /\ h \in [1 .. n -> Int] /\ i \in 1 .. n /\ x \in Int
    /\ h[i] = f[i] + x /\ \A k \in 1 .. n : k # i => h[k] = f[k]

\* One number changed.
LEMMA TotalBump == \A h, f, n, i, x : Bumped(h, f, n, i, x) => Total(h) = Total(f) + x
<1> SUFFICES ASSUME NEW n \in Nat, NEW f \in [1 .. n -> Int], NEW h \in [1 .. n -> Int],
                    NEW i \in 1 .. n, NEW x \in Int, h[i] = f[i] + x, \A k \in 1 .. n : k # i => h[k] = f[k]
             PROVE  Total(h) = Total(f) + x
  BY DEF Bumped
<1>1. PICK u : Sum(u, f, n) /\ u[n] = Total(f)
  BY Sums
<1>2. PICK v : Sum(v, h, n) /\ v[n] = Total(h)
  BY Sums
<1> DEFINE d == [k \in 0 .. n |-> IF k < i THEN 0 ELSE x]
<1>3. d \in [0 .. n -> Int] /\ d[n] = x
  OBVIOUS
<1>4. Shifted(f, h, d, n)
  <2>1. d[0] = 0
    OBVIOUS
  <2>2. ASSUME NEW k \in 1 .. n PROVE h[k] + d[k - 1] = f[k] + d[k]
    <3>1. f[k] \in Int /\ f[i] \in Int
      OBVIOUS
    <3>2. k - 1 \in 0 .. n /\ k \in 0 .. n
      OBVIOUS
    <3>3. CASE k < i
      <4>1. d[k - 1] = 0 /\ d[k] = 0 /\ h[k] = f[k]
        BY <3>2, <3>3
      <4> QED BY <4>1
    <3>4. CASE k = i
      <4>1. d[k - 1] = 0 /\ d[k] = x /\ h[k] = f[k] + x
        BY <3>2, <3>4
      <4> HIDE DEF d
      <4> QED BY <3>1, <4>1
    <3>5. CASE k > i
      <4>1. d[k - 1] = x /\ d[k] = x /\ h[k] = f[k]
        BY <3>2, <3>5
      <4> QED BY <4>1
    <3> QED BY <3>3, <3>4, <3>5
  <2> HIDE DEF d
  <2> QED BY <1>3, <2>1, <2>2 DEF Shifted
<1> HIDE DEF d
<1>5. v[n] = u[n] + d[n]
  BY <1>1, <1>2, <1>4, SumsAgree
<1> QED BY <1>1, <1>2, <1>3, <1>5 DEF Sum

\* Numbers that are not negative have such a sum, and zeros have 0.
LEMMA TotalNat ==
  ASSUME NEW n \in Nat, NEW f \in [1 .. n -> Nat]
  PROVE  Total(f) \in Nat /\ ((\A k \in 1 .. n : f[k] = 0) => Total(f) = 0)
<1>1. PICK u : Sum(u, f, n) /\ u[n] = Total(f)
  BY Sums
<1> DEFINE G == {k \in 0 .. n : u[k] \in Nat /\ ((\A j \in 1 .. n : f[j] = 0) => u[k] = 0)}
<1>2. 0 \in G
  BY <1>1 DEF Sum
<1>3. \A k \in 1 .. n : k - 1 \in G => k \in G
  <2> SUFFICES ASSUME NEW k \in 1 .. n, k - 1 \in G PROVE k \in G
    OBVIOUS
  <2>1. u[k] = u[k - 1] + f[k] /\ f[k] \in Nat /\ k \in 0 .. n
    BY <1>1 DEF Sum
  <2> QED BY <2>1
<1> HIDE DEF G
<1>4. \A k \in 0 .. n : k \in G
  BY <1>2, <1>3, Steps
<1>5. n \in G
  BY <1>4
<1> QED BY <1>1, <1>5 DEF G

----------------------------------------------------------------------------
(* The table of processes *)

\* What the proofs need of the sizes of a table.
Shape ==
    /\ nodes \in Seq(Nat) /\ num_nodes \in Nat /\ data_rows \in Nat
    /\ \A j, k \in 1 .. num_nodes : nodes[j] = nodes[k] => j = k

\* Tables of numbers with rows R and columns C, and one of which only one cell is new.
Grid(R, C) == [R -> [C -> Int]]
Only(d, cell, R, C, r, c, x) ==
    \A i \in R, j \in C : d[i][j] = IF i = r /\ j = c THEN x ELSE cell[i][j]

\* double_addto changes one cell, and keeps a number in it.
LEMMA AddTo ==
  \A R, C, cell, r, c, v :
    cell \in Grid(R, C) /\ r \in R /\ c \in C /\ v \in Int =>
        /\ double_addto(cell, r, c, v) \in Grid(R, C)
        /\ Only(double_addto(cell, r, c, v), cell, R, C, r, c, Number(cell[r][c]) + v)
<1> SUFFICES ASSUME NEW R, NEW C, NEW cell \in Grid(R, C), NEW r \in R, NEW c \in C, NEW v \in Int,
                    NEW d, d = double_addto(cell, r, c, v)
             PROVE  d \in Grid(R, C) /\ Only(d, cell, R, C, r, c, Number(cell[r][c]) + v)
  OBVIOUS
<1> USE DEF Grid, Only
<1>1. cell[r][c] \in Int /\ Number(cell[r][c]) \in Int
  BY DEF Number
<1>2. Number(cell[r][c]) + v \in Int
  BY <1>1
<1>3. d = [cell EXCEPT ![r] = [cell[r] EXCEPT ![c] = Number(cell[r][c]) + v]]
  BY DEF double_addto
<1>4. cell[r] \in [C -> Int]
  OBVIOUS
<1>5. [cell[r] EXCEPT ![c] = Number(cell[r][c]) + v] \in [C -> Int]
  BY <1>2, <1>4
<1> QED BY <1>3, <1>4, <1>5

\* Four cells are raised: that of the node, both totals and the total of totals.
LEMMA FourCells ==
  ASSUME Shape, NEW cell \in Cells, Summed(cell), NEW row \in 0 .. data_rows - 1,
         NEW col \in 0 .. num_nodes - 1, NEW v \in Nat, NEW d,
         d = double_addto(double_addto(double_addto(double_addto(
                cell, row, col, v), row, total_col, v), total_row, col, v), total_row, total_col, v)
  PROVE  /\ d \in Cells
         /\ \A i \in 0 .. total_row, j \in Cols :
                d[i][j] = IF i \in {row, total_row} /\ j \in {col, total_col} THEN cell[i][j] + v ELSE cell[i][j]
<1> DEFINE R == 0 .. total_row
           C == Cols
           a == double_addto(cell, row, col, v)
           b == double_addto(a, row, total_col, v)
           e == double_addto(b, total_row, col, v)
<1>1. /\ row \in R /\ total_row \in R /\ col \in C /\ total_col \in C /\ v \in Int
      /\ row # total_row /\ col # total_col
  BY DEF Shape, total_row, Cols, total_col
<1>2. \A i \in {row, total_row}, j \in C : Number(cell[i][j]) = cell[i][j]
  <2>1. \A i \in {row, total_row}, j \in C : cell[i][j] >= 0
    BY DEF Summed
  <2>2. \A i \in R, j \in C : cell[i][j] \in Int
    BY DEF Cells
  <2> HIDE DEF R, C
  <2> QED BY <1>1, <2>1, <2>2 DEF Number
<1>3. cell \in Grid(R, C)
  BY DEF Cells, Grid
<1>4. d = double_addto(e, total_row, total_col, v)
  OBVIOUS
<1> HIDE DEF R, C
<1>5. a \in Grid(R, C) /\ Only(a, cell, R, C, row, col, Number(cell[row][col]) + v)
  BY <1>1, <1>3, AddTo, Zenon
<1> HIDE DEF a
<1>6. b \in Grid(R, C) /\ Only(b, a, R, C, row, total_col, Number(a[row][total_col]) + v)
  BY <1>1, <1>5, AddTo, Zenon
<1> HIDE DEF b
<1>7. e \in Grid(R, C) /\ Only(e, b, R, C, total_row, col, Number(b[total_row][col]) + v)
  BY <1>1, <1>6, AddTo, Zenon
<1> HIDE DEF e
<1>8. d \in Grid(R, C) /\ Only(d, e, R, C, total_row, total_col, Number(e[total_row][total_col]) + v)
  BY <1>1, <1>4, <1>7, AddTo, Zenon
<1>9. /\ a[row][total_col] = cell[row][total_col]
      /\ b[total_row][col] = cell[total_row][col]
      /\ e[total_row][total_col] = cell[total_row][total_col]
  BY <1>1, <1>5, <1>6, <1>7 DEF Only
<1>10. ASSUME NEW i \in R, NEW j \in C
       PROVE  d[i][j] = IF i \in {row, total_row} /\ j \in {col, total_col} THEN cell[i][j] + v ELSE cell[i][j]
  <2>1. /\ Number(cell[row][col]) = cell[row][col]
        /\ Number(a[row][total_col]) = cell[row][total_col]
        /\ Number(b[total_row][col]) = cell[total_row][col]
        /\ Number(e[total_row][total_col]) = cell[total_row][total_col]
    BY <1>1, <1>2, <1>9
  <2>2. a[i][j] = IF i = row /\ j = col THEN cell[i][j] + v ELSE cell[i][j]
    BY <1>5, <2>1 DEF Only
  <2>3. b[i][j] = IF i = row /\ j = total_col THEN cell[i][j] + v ELSE a[i][j]
    BY <1>6, <2>1 DEF Only
  <2>4. e[i][j] = IF i = total_row /\ j = col THEN cell[i][j] + v ELSE b[i][j]
    BY <1>7, <2>1 DEF Only
  <2>5. d[i][j] = IF i = total_row /\ j = total_col THEN cell[i][j] + v ELSE e[i][j]
    BY <1>8, <2>1 DEF Only
  <2> QED BY <1>1, <2>2, <2>3, <2>4, <2>5
<1> QED BY <1>8, <1>10 DEF R, C, Cells, Grid

\* A table whose totals agree; one in which four cells were raised; what one node of a line adds.
Proper(cell) == cell \in Cells /\ Summed(cell)
Raised(d, cell, row, col, v) ==
    \A i \in 0 .. total_row, j \in Cols :
        d[i][j] = IF i \in {row, total_row} /\ j \in {col, total_col} THEN cell[i][j] + v ELSE cell[i][j]
Adds(d, cell, row, n, v) ==
    \A r \in 0 .. data_rows - 1, c \in 0 .. num_nodes - 1 :
        d[r][c] = cell[r][c] + (IF r = row /\ nodes[c + 1] = n THEN v ELSE 0)

\* The totals grow with the cell of the node.
LEMMA FourCellsSummed ==
  ASSUME Shape, NEW cell, Proper(cell), NEW row \in 0 .. data_rows - 1,
         NEW col \in 0 .. num_nodes - 1, NEW v \in Nat, NEW d \in Cells,
         Raised(d, cell, row, col, v)
  PROVE  Summed(d)
<1>0. /\ cell \in Cells /\ num_nodes \in Nat /\ data_rows \in Nat /\ total_row = data_rows + 1
      /\ total_col = num_nodes /\ total_row \in 0 .. total_row /\ total_col \in Cols
      /\ \A r \in 0 .. data_rows - 1 : r \in 0 .. total_row /\ r # total_row
      /\ \A c \in 0 .. num_nodes - 1 : c \in Cols /\ c # total_col
  BY DEF Proper, Shape, total_row, total_col, Cols
<1>1. \A i \in 0 .. total_row, j \in Cols : cell[i][j] \in Int /\ d[i][j] \in Int
  BY <1>0 DEF Cells
<1>5. \A i \in 0 .. total_row, j \in Cols :
        d[i][j] = IF i \in {row, total_row} /\ j \in {col, total_col} THEN cell[i][j] + v ELSE cell[i][j]
  BY DEF Raised
<1>2. \A r \in (0 .. data_rows - 1) \cup {total_row}, c \in Cols : d[r][c] >= 0
  <2> SUFFICES ASSUME NEW r \in (0 .. data_rows - 1) \cup {total_row}, NEW c \in Cols PROVE d[r][c] >= 0
    OBVIOUS
  <2>1. r \in 0 .. total_row
    BY <1>0
  <2>2. cell[r][c] >= 0 /\ cell[r][c] \in Int
    BY <1>1, <2>1 DEF Proper, Summed
  <2>3. d[r][c] = cell[r][c] + v \/ d[r][c] = cell[r][c]
    BY <1>5, <2>1
  <2> QED BY <2>2, <2>3
<1>3. ASSUME NEW c \in Cols PROVE d[total_row][c] = Total([r \in 1 .. data_rows |-> d[r - 1][c]])
  <2> DEFINE f == [r \in 1 .. data_rows |-> cell[r - 1][c]]
             h == [r \in 1 .. data_rows |-> d[r - 1][c]]
  <2>1. \A r \in 1 .. data_rows : r - 1 \in 0 .. data_rows - 1
    BY <1>0
  <2>2. f \in [1 .. data_rows -> Int] /\ h \in [1 .. data_rows -> Int]
    BY <1>0, <1>1, <2>1
  <2>3. cell[total_row][c] = Total(f)
    BY DEF Proper, Summed
  <2>4. CASE c \in {col, total_col}
    <3> DEFINE i == row + 1
    <3>1. i \in 1 .. data_rows /\ i - 1 = row /\ v \in Int /\ data_rows \in Nat
      BY <1>0
    <3>2. h[i] = f[i] + v
      BY <1>0, <1>5, <2>4, <3>1
    <3>3. \A r \in 1 .. data_rows : r # i => h[r] = f[r]
      BY <1>0, <1>5, <2>1, <2>4
    <3> HIDE DEF f, h, i
    <3>4. Bumped(h, f, data_rows, i, v)
      BY <2>2, <3>1, <3>2, <3>3 DEF Bumped
    <3>6. Total(h) = Total(f) + v
      BY <3>4, TotalBump
    <3>5. d[total_row][c] = cell[total_row][c] + v
      BY <1>0, <1>5, <2>4
    <3> QED BY <2>3, <3>5, <3>6 DEF h
  <2>5. CASE c \notin {col, total_col}
    <3>1. f = h
      BY <1>0, <1>5, <2>1, <2>5
    <3>2. d[total_row][c] = cell[total_row][c]
      BY <1>0, <1>5, <2>5
    <3> QED BY <2>3, <3>1, <3>2
  <2> QED BY <2>4, <2>5
<1>4. ASSUME NEW r \in 0 .. data_rows - 1
      PROVE  d[r][total_col] = Total([k \in 1 .. num_nodes |-> d[r][k - 1]])
  <2> DEFINE f == [k \in 1 .. num_nodes |-> cell[r][k - 1]]
             h == [k \in 1 .. num_nodes |-> d[r][k - 1]]
  <2>1. \A k \in 1 .. num_nodes : k - 1 \in 0 .. num_nodes - 1
    BY <1>0
  <2>2. f \in [1 .. num_nodes -> Int] /\ h \in [1 .. num_nodes -> Int]
    BY <1>0, <1>1, <2>1
  <2>3. cell[r][total_col] = Total(f)
    BY DEF Proper, Summed
  <2>4. CASE r = row
    <3> DEFINE i == col + 1
    <3>1. i \in 1 .. num_nodes /\ i - 1 = col /\ v \in Int /\ num_nodes \in Nat
      BY <1>0
    <3>2. h[i] = f[i] + v
      BY <1>0, <1>5, <2>4, <3>1
    <3>3. \A k \in 1 .. num_nodes : k # i => h[k] = f[k]
      BY <1>0, <1>5, <2>1, <2>4
    <3> HIDE DEF f, h, i
    <3>4. Bumped(h, f, num_nodes, i, v)
      BY <2>2, <3>1, <3>2, <3>3 DEF Bumped
    <3>6. Total(h) = Total(f) + v
      BY <3>4, TotalBump
    <3>5. d[r][total_col] = cell[r][total_col] + v
      BY <1>0, <1>5, <2>4
    <3> QED BY <2>3, <3>5, <3>6 DEF h
  <2>5. CASE r # row
    <3>1. f = h
      BY <1>0, <1>5, <2>1, <2>5
    <3>2. d[r][total_col] = cell[r][total_col]
      BY <1>0, <1>5, <2>5
    <3> QED BY <2>3, <3>1, <3>2
  <2> QED BY <2>4, <2>5
<1> QED BY <1>2, <1>3, <1>4 DEF Summed

\* One node of one line is added to its cell and to the totals of it.
LEMMA AmountAdded ==
  \A cell, row, n, v :
    Shape /\ Proper(cell) /\ row \in 0 .. data_rows - 1 /\ n \in Range(nodes) /\ v \in Nat =>
        Proper(AddAmount(cell, row, n, v)) /\ Adds(AddAmount(cell, row, n, v), cell, row, n, v)
<1> SUFFICES ASSUME Shape, NEW cell, Proper(cell), NEW row \in 0 .. data_rows - 1,
                    NEW n \in Range(nodes), NEW v \in Nat, NEW d, d = AddAmount(cell, row, n, v)
             PROVE  Proper(d) /\ Adds(d, cell, row, n, v)
  OBVIOUS
<1> DEFINE at == CHOOSE k \in DOMAIN nodes : nodes[k] = n
           col == at - 1
<1>1. DOMAIN nodes = 1 .. num_nodes /\ num_nodes \in Nat /\ data_rows \in Nat
  BY DEF Shape, num_nodes
<1>2. at \in 1 .. num_nodes /\ nodes[at] = n
  BY <1>1 DEF Range
<1>3. col \in 0 .. num_nodes - 1 /\ \A c \in 0 .. num_nodes - 1 : nodes[c + 1] = n <=> c = col
  <2> HIDE DEF at
  <2>1. col \in 0 .. num_nodes - 1 /\ col + 1 = at
    BY <1>1, <1>2
  <2>2. ASSUME NEW c \in 0 .. num_nodes - 1 PROVE nodes[c + 1] = n <=> c = col
    <3>1. c + 1 \in 1 .. num_nodes
      BY <1>1
    <3> QED BY <1>1, <1>2, <2>1, <3>1 DEF Shape
  <2> QED BY <2>1, <2>2
<1>4. d = double_addto(double_addto(double_addto(double_addto(
                cell, row, col, v), row, total_col, v), total_row, col, v), total_row, total_col, v)
  BY DEF AddAmount
<1> HIDE DEF at, col
<1>5. /\ d \in Cells
      /\ Raised(d, cell, row, col, v)
  BY <1>3, <1>4, FourCells DEF Proper, Raised
<1>6. Summed(d)
  BY <1>3, <1>5, FourCellsSummed
<1>7. ASSUME NEW r \in 0 .. data_rows - 1, NEW c \in 0 .. num_nodes - 1
      PROVE  d[r][c] = cell[r][c] + (IF r = row /\ nodes[c + 1] = n THEN v ELSE 0)
  <2>1. r \in 0 .. total_row /\ r # total_row /\ c \in Cols /\ c # total_col
    BY <1>1 DEF total_row, total_col, Cols
  <2>2. cell[r][c] \in Int
    BY <2>1 DEF Proper, Cells
  <2>3. d[r][c] = IF r = row /\ c = col THEN cell[r][c] + v ELSE cell[r][c]
    BY <1>5, <2>1 DEF Raised
  <2> QED BY <1>3, <2>2, <2>3
<1> QED BY <1>5, <1>6, <1>7 DEF Proper, Adds

\* A line that ShowPid reads.
Fits(line) ==
    /\ MapsLine(line) /\ RowOf(line) \in 0 .. data_rows - 1 /\ DOMAIN line.pages \subseteq Range(nodes)

\* Amounts are not negative.
LEMMA AmountNat ==
  ASSUME NEW line, MapsLine(line), NEW n \in DOMAIN line.pages
  PROVE  n \in Nat /\ Amount(line, n) \in Nat
<1>1. line.pages[n] \in Nat /\ line.size \in Nat /\ HugeSize \in Nat /\ PageSize \in Nat /\ n \in Nat
  BY NumastatAssumption DEF MapsLine
<1> DEFINE u == IF line.size # 0 THEN line.size
                ELSE IF line.cat = PROCESS_HUGE_INDEX THEN HugeSize ELSE PageSize
<1>2. u \in Nat
  BY <1>1
<1>3. Amount(line, n) = line.pages[n] * u
  BY DEF Amount
<1> HIDE DEF u
<1> QED BY <1>1, <1>2, <1>3

\* What a line says of the cell.
Says(line, r, c) ==
    IF r = RowOf(line) /\ nodes[c + 1] \in DOMAIN line.pages THEN Amount(line, nodes[c + 1]) ELSE 0
\* The same of the first j nodes of the line, then what a table has after them and after all.
SaysTo(line, on, j, r, c) ==
    IF r = RowOf(line) /\ \E i \in 1 .. j : on[i] = nodes[c + 1] THEN Amount(line, nodes[c + 1]) ELSE 0
AddsTo(d, cell, line, on, j) ==
    \A r \in 0 .. data_rows - 1, c \in 0 .. num_nodes - 1 :
        d[r][c] = cell[r][c] + SaysTo(line, on, j, r, c)
AddsLine(d, cell, line) ==
    \A r \in 0 .. data_rows - 1, c \in 0 .. num_nodes - 1 : d[r][c] = cell[r][c] + Says(line, r, c)

\* A cell of a proper table is a number.
LEMMA CellInt ==
  ASSUME Shape, NEW cell, Proper(cell), NEW r \in 0 .. data_rows - 1, NEW c \in 0 .. num_nodes - 1
  PROVE  cell[r][c] \in Int
<1>1. r \in 0 .. total_row /\ c \in Cols
  BY DEF Shape, total_row, Cols
<1> QED BY <1>1 DEF Proper, Cells

\* One more node of the line.
LEMMA AddsNext ==
  ASSUME Shape, NEW cell, Proper(cell), NEW line, Fits(line), NEW on \in Seq(Nat),
         \A j, k \in 1 .. Len(on) : j < k => on[j] < on[k], Range(on) = DOMAIN line.pages,
         NEW k \in 1 .. Len(on), NEW d, NEW e, AddsTo(d, cell, line, on, k - 1),
         Adds(e, d, RowOf(line), on[k], Amount(line, on[k]))
  PROVE  AddsTo(e, cell, line, on, k)
<1> SUFFICES ASSUME NEW r \in 0 .. data_rows - 1, NEW c \in 0 .. num_nodes - 1
             PROVE  e[r][c] = cell[r][c] + SaysTo(line, on, k, r, c)
  BY DEF AddsTo
<1> DEFINE n == nodes[c + 1]
           x == on[k]
<1>1. e[r][c] = d[r][c] + (IF r = RowOf(line) /\ n = x THEN Amount(line, x) ELSE 0)
  BY DEF Adds
<1>2. d[r][c] = cell[r][c] + SaysTo(line, on, k - 1, r, c)
  BY DEF AddsTo
<1>3. cell[r][c] \in Int
  BY CellInt
<1>4. Len(on) \in Nat /\ x \in Nat /\ k \in DOMAIN on
  OBVIOUS
<1>5. (\E i \in 1 .. k : on[i] = n) <=> n = x \/ \E i \in 1 .. k - 1 : on[i] = n
  <2>1. k \in Int /\ k >= 1
    BY <1>4
  <2>2. \A i : i \in 1 .. k <=> i = k \/ i \in 1 .. k - 1
    BY ONLY <2>1
  <2> HIDE DEF n
  <2> QED BY ONLY <2>2, Zenon DEF x
<1>6. ~(n = x /\ \E i \in 1 .. k - 1 : on[i] = n)
  <2> SUFFICES ASSUME NEW i \in 1 .. k - 1, on[i] = x PROVE FALSE
    OBVIOUS
  <2>1. i \in 1 .. Len(on) /\ i < k /\ on[i] \in Nat
    BY <1>4
  <2>2. on[i] < on[k]
    BY <2>1
  <2> QED BY <1>4, <2>1, <2>2
<1>7. x \in DOMAIN line.pages
  BY <1>4 DEF Range
<1>8. Amount(line, x) \in Int
  BY <1>7, AmountNat DEF Fits
<1> HIDE DEF n, x
<1>9. CASE r = RowOf(line) /\ n = x
  <2>1. SaysTo(line, on, k - 1, r, c) = 0 /\ SaysTo(line, on, k, r, c) = Amount(line, x)
    BY <1>5, <1>6, <1>9 DEF SaysTo, n
  <2> QED BY <1>1, <1>2, <1>3, <1>8, <1>9, <2>1
<1>10. CASE ~(r = RowOf(line) /\ n = x)
  <2>1. SaysTo(line, on, k, r, c) = SaysTo(line, on, k - 1, r, c)
    BY <1>5, <1>10 DEF SaysTo, n
  <2>2. SaysTo(line, on, k - 1, r, c) \in Int
    <3>1. CASE r = RowOf(line) /\ \E i \in 1 .. k - 1 : on[i] = n
      <4>1. n \in DOMAIN line.pages
        <5>1. PICK i \in 1 .. k - 1 : on[i] = n
          BY <3>1
        <5>2. i \in DOMAIN on
          BY <1>4
        <5> QED BY <5>1, <5>2 DEF Range
      <4>2. Amount(line, n) \in Int
        BY <4>1, AmountNat DEF Fits
      <4> QED BY <3>1, <4>2 DEF SaysTo, n
    <3>2. CASE ~(r = RowOf(line) /\ \E i \in 1 .. k - 1 : on[i] = n)
      BY <3>2 DEF SaysTo, n
    <3> QED BY <3>1, <3>2
  <2> QED BY <1>1, <1>2, <1>3, <1>10, <2>1, <2>2
<1> QED BY <1>9, <1>10

\* A line adds to each cell what it says of it.
LEMMA LineAdded ==
  \A cell, line : Shape /\ Proper(cell) /\ Fits(line) =>
        Proper(AddLine(cell, line)) /\ AddsLine(AddLine(cell, line), cell, line)
<1> SUFFICES ASSUME Shape, NEW cell, Proper(cell), NEW line, Fits(line), NEW d, d = AddLine(cell, line)
             PROVE  Proper(d) /\ AddsLine(d, cell, line)
  OBVIOUS
<1> DEFINE on == Ascending(DOMAIN line.pages)
           N == Len(on)
           S == {m \in Cells : Summed(m)}
           Step(m, k) == AddAmount(m, RowOf(line), on[k], Amount(line, on[k]))
           Loop(g) == g = [k \in 0 .. N |-> IF k = 0 THEN cell ELSE Step(g[k - 1], k)]
           step == [k \in 1 .. N |-> [m \in S |-> Step(m, k)]]
<1>1. /\ on \in Seq(Nat) /\ Range(on) = DOMAIN line.pages /\ N \in Nat
      /\ \A j, k \in 1 .. N : j < k => on[j] < on[k]
  <2>1. DOMAIN line.pages \in SUBSET Nat /\ IsFiniteSet(DOMAIN line.pages)
    BY DEF Fits, MapsLine
  <2> QED BY <2>1, Ascends
<1>2. \A k \in 1 .. N : on[k] \in Range(nodes) /\ Amount(line, on[k]) \in Nat /\ on[k] \in DOMAIN line.pages
  <2> SUFFICES ASSUME NEW k \in 1 .. N
               PROVE on[k] \in Range(nodes) /\ Amount(line, on[k]) \in Nat /\ on[k] \in DOMAIN line.pages
    OBVIOUS
  <2> HIDE DEF on
  <2>1. on[k] \in DOMAIN line.pages
    BY <1>1 DEF Range
  <2> QED BY <2>1, AmountNat DEF Fits
<1>3. d = (CHOOSE g : Loop(g))[N]
  BY DEF AddLine
<1>4. RowOf(line) \in 0 .. data_rows - 1
  BY DEF Fits
<1> HIDE DEF on, N
<1>5. \A m : Proper(m) <=> m \in S
  BY DEF Proper
<1>6. \A m, k : k \in 1 .. N /\ Proper(m) =>
            Proper(Step(m, k)) /\ Adds(Step(m, k), m, RowOf(line), on[k], Amount(line, on[k]))
  BY <1>2, <1>4, AmountAdded, Zenon
<1> HIDE DEF S
<1>7. step \in [1 .. N -> [S -> S]]
  <2> HIDE DEF Step
  <2> QED BY <1>5, <1>6
<1>8. \E g : Loop(g)
  <2>1. cell \in S
    BY <1>5
  <2> HIDE DEF step
  <2>2. PICK g : Loops(g, S, N, cell, step)
    BY <1>1, <1>7, <2>1, LoopExists, Zenon
  <2>3. g = [k \in 0 .. N |-> g[k]] /\ g[0] = cell
    BY <2>2 DEF Loops
  <2> HIDE DEF Step
  <2>4. ASSUME NEW k \in 1 .. N PROVE g[k] = Step(g[k - 1], k)
    <3>1. k - 1 \in 0 .. N
      BY <1>1
    <3>2. g[k - 1] \in S /\ g[k] = step[k][g[k - 1]]
      BY <2>2, <3>1 DEF Loops
    <3> QED BY <3>2 DEF step
  <2>5. \A k \in 0 .. N : g[k] = IF k = 0 THEN cell ELSE Step(g[k - 1], k)
    <3>1. \A k \in 0 .. N : k = 0 \/ k \in 1 .. N
      BY <1>1
    <3> QED BY <2>3, <2>4, <3>1
  <2> QED BY <2>3, <2>5
<1>9. PICK g : Loop(g) /\ d = g[N]
  <2> HIDE DEF Loop
  <2> QED BY <1>3, <1>8
<1>10. g[0] = cell /\ \A k \in 1 .. N : g[k] = Step(g[k - 1], k)
  <2> HIDE DEF Step
  <2>1. \A k \in 0 .. N : g[k] = IF k = 0 THEN cell ELSE Step(g[k - 1], k)
    BY <1>9
  <2> QED BY <1>1, <2>1
<1> DEFINE Good(m, k) == Proper(m) /\ AddsTo(m, cell, line, on, k)
           G == {k \in 0 .. N : Good(g[k], k)}
<1>11. 0 \in G
  <2>1. AddsTo(cell, cell, line, on, 0)
    <3> SUFFICES ASSUME NEW r \in 0 .. data_rows - 1, NEW c \in 0 .. num_nodes - 1
                 PROVE  cell[r][c] = cell[r][c] + SaysTo(line, on, 0, r, c)
      BY DEF AddsTo
    <3>1. SaysTo(line, on, 0, r, c) = 0
      BY DEF SaysTo
    <3> QED BY <3>1, CellInt
  <2> QED BY <1>1, <1>10, <2>1
<1>12. ASSUME NEW k \in 1 .. N, k - 1 \in G PROVE k \in G
  <2>1. Good(g[k - 1], k - 1)
    BY <1>12
  <2>2. Proper(g[k]) /\ Adds(g[k], g[k - 1], RowOf(line), on[k], Amount(line, on[k]))
    <3> HIDE DEF Step
    <3> QED BY <1>6, <1>10, <2>1
  <2>3. AddsTo(g[k], cell, line, on, k)
    BY <1>1, <2>1, <2>2, AddsNext DEF N
  <2> QED BY <1>1, <2>2, <2>3
<1>13. N \in G
  <2> HIDE DEF G
  <2>1. \A k \in 1 .. N : k - 1 \in G => k \in G
    BY <1>12
  <2>2. \A k \in 0 .. N : k \in G
    BY <1>1, <1>11, <2>1, Steps
  <2> QED BY <1>1, <2>2
<1>14. Proper(d) /\ AddsTo(d, cell, line, on, N)
  BY <1>9, <1>13
<1>15. AddsLine(d, cell, line)
  <2> SUFFICES ASSUME NEW r \in 0 .. data_rows - 1, NEW c \in 0 .. num_nodes - 1
               PROVE  SaysTo(line, on, N, r, c) = Says(line, r, c)
    BY <1>14 DEF AddsTo, AddsLine
  <2>1. (\E i \in 1 .. N : on[i] = nodes[c + 1]) <=> nodes[c + 1] \in DOMAIN line.pages
    BY <1>1 DEF Range, N
  <2> QED BY <2>1 DEF SaysTo, Says
<1> QED BY <1>14, <1>15

\* What a line says is not negative.
LEMMA SaysNat ==
  ASSUME NEW line, Fits(line), NEW r, NEW c
  PROVE  Says(line, r, c) \in Nat
<1>1. CASE r = RowOf(line) /\ nodes[c + 1] \in DOMAIN line.pages
  <2>1. Amount(line, nodes[c + 1]) \in Nat
    BY <1>1, AmountNat DEF Fits
  <2> QED BY <1>1, <2>1 DEF Says
<1>2. CASE ~(r = RowOf(line) /\ nodes[c + 1] \in DOMAIN line.pages)
  BY <1>2 DEF Says
<1> QED BY <1>1, <1>2

\* What each of the first k lines says, and the table after them.
Told(lines, k, r, c) == [i \in 1 .. k |-> Says(lines[i], r, c)]
AddsLines(d, cell, lines, k) ==
    \A r \in 0 .. data_rows - 1, c \in 0 .. num_nodes - 1 :
        d[r][c] = cell[r][c] + Total(Told(lines, k, r, c))

\* What lines say together is not negative, and nothing where each says nothing.
LEMMA ToldNat ==
  ASSUME NEW lines, NEW k \in Nat, \A i \in 1 .. k : Fits(lines[i]), NEW r, NEW c
  PROVE  /\ Told(lines, k, r, c) \in [1 .. k -> Nat]
         /\ Total(Told(lines, k, r, c)) \in Nat
         /\ (\A i \in 1 .. k : Says(lines[i], r, c) = 0) => Total(Told(lines, k, r, c)) = 0
<1> DEFINE f == Told(lines, k, r, c)
<1>1. \A i \in 1 .. k : Says(lines[i], r, c) \in Nat
  BY SaysNat
<1>2. f \in [1 .. k -> Nat] /\ \A i \in 1 .. k : f[i] = Says(lines[i], r, c)
  BY <1>1 DEF Told
<1> HIDE DEF f
<1>3. Total(f) \in Nat /\ ((\A i \in 1 .. k : f[i] = 0) => Total(f) = 0)
  BY <1>2, TotalNat
<1> QED BY <1>2, <1>3 DEF f

\* One more line.
LEMMA ToldNext ==
  ASSUME NEW lines, NEW k \in Nat \ {0}, \A i \in 1 .. k : Fits(lines[i]), NEW r, NEW c
  PROVE  Total(Told(lines, k, r, c)) = Total(Told(lines, k - 1, r, c)) + Says(lines[k], r, c)
<1> DEFINE f == Told(lines, k, r, c)
           h == Told(lines, k - 1, r, c)
           n == k - 1
<1>1. n \in Nat /\ n + 1 = k
  OBVIOUS
<1>2. f \in [1 .. n + 1 -> Int]
  BY <1>1, ToldNat
<1>3. h = [i \in 1 .. n |-> f[i]] /\ f[n + 1] = Says(lines[k], r, c)
  BY <1>1 DEF Told
<1> HIDE DEF f, h, n
<1>4. Total(f) = Total(h) + f[n + 1]
  BY <1>1, <1>2, <1>3, TotalNext
<1> QED BY <1>3, <1>4 DEF f, h, n

\* The lines of a file add to each cell what they say of it together.
LEMMA LinesAdded ==
  ASSUME Shape, NEW cell, Proper(cell), NEW lines, Len(lines) \in Nat,
         \A k \in 1 .. Len(lines) : Fits(lines[k]), NEW d, d = AddLines(cell, lines)
  PROVE  Proper(d) /\ AddsLines(d, cell, lines, Len(lines))
<1> DEFINE N == Len(lines)
           S == {m \in Cells : Summed(m)}
           Step(m, k) == AddLine(m, lines[k])
           Loop(g) == g = [k \in 0 .. N |-> IF k = 0 THEN cell ELSE Step(g[k - 1], k)]
           step == [k \in 1 .. N |-> [m \in S |-> Step(m, k)]]
<1>1. N \in Nat
  OBVIOUS
<1>3. d = (CHOOSE g : Loop(g))[N]
  BY DEF AddLines
<1>4. \A k \in 1 .. N : Fits(lines[k])
  OBVIOUS
<1> HIDE DEF N
<1>5. \A m : Proper(m) <=> m \in S
  BY DEF Proper
<1>6. \A m, k : k \in 1 .. N /\ Proper(m) => Proper(Step(m, k)) /\ AddsLine(Step(m, k), m, lines[k])
  BY <1>4, LineAdded, Zenon
<1> HIDE DEF S
<1>7. step \in [1 .. N -> [S -> S]]
  <2> HIDE DEF Step
  <2> QED BY <1>5, <1>6
<1>8. \E g : Loop(g)
  <2>1. cell \in S
    BY <1>5
  <2> HIDE DEF step
  <2>2. PICK g : Loops(g, S, N, cell, step)
    BY <1>1, <1>7, <2>1, LoopExists, Zenon
  <2>3. g = [k \in 0 .. N |-> g[k]] /\ g[0] = cell
    BY <2>2 DEF Loops
  <2> HIDE DEF Step
  <2>4. ASSUME NEW k \in 1 .. N PROVE g[k] = Step(g[k - 1], k)
    <3>1. k - 1 \in 0 .. N
      BY <1>1
    <3>2. g[k - 1] \in S /\ g[k] = step[k][g[k - 1]]
      BY <2>2, <3>1 DEF Loops
    <3> QED BY <3>2 DEF step
  <2>5. \A k \in 0 .. N : g[k] = IF k = 0 THEN cell ELSE Step(g[k - 1], k)
    <3>1. \A k \in 0 .. N : k = 0 \/ k \in 1 .. N
      BY <1>1
    <3> QED BY <2>3, <2>4, <3>1
  <2> QED BY <2>3, <2>5
<1>9. PICK g : Loop(g) /\ d = g[N]
  <2> HIDE DEF Loop
  <2> QED BY <1>3, <1>8
<1>10. g[0] = cell /\ \A k \in 1 .. N : g[k] = Step(g[k - 1], k)
  <2> HIDE DEF Step
  <2>1. \A k \in 0 .. N : g[k] = IF k = 0 THEN cell ELSE Step(g[k - 1], k)
    BY <1>9
  <2> QED BY <1>1, <2>1
<1> DEFINE Good(m, k) == Proper(m) /\ AddsLines(m, cell, lines, k)
           G == {k \in 0 .. N : Good(g[k], k)}
<1>11. 0 \in G
  <2>1. AddsLines(cell, cell, lines, 0)
    <3> SUFFICES ASSUME NEW r \in 0 .. data_rows - 1, NEW c \in 0 .. num_nodes - 1
                 PROVE  cell[r][c] = cell[r][c] + Total(Told(lines, 0, r, c))
      BY DEF AddsLines
    <3>1. Total(Told(lines, 0, r, c)) = 0
      BY ToldNat
    <3> QED BY <3>1, CellInt
  <2> QED BY <1>1, <1>10, <2>1
<1>12. ASSUME NEW k \in 1 .. N, k - 1 \in G PROVE k \in G
  <2>1. Good(g[k - 1], k - 1)
    BY <1>12
  <2>2. Proper(g[k]) /\ AddsLine(g[k], g[k - 1], lines[k])
    <3> HIDE DEF Step
    <3> QED BY <1>6, <1>10, <2>1
  <2>3. AddsLines(g[k], cell, lines, k)
    <3> SUFFICES ASSUME NEW r \in 0 .. data_rows - 1, NEW c \in 0 .. num_nodes - 1
                 PROVE  g[k][r][c] = cell[r][c] + Total(Told(lines, k, r, c))
      BY DEF AddsLines
    <3>1. g[k][r][c] = g[k - 1][r][c] + Says(lines[k], r, c)
      BY <2>2 DEF AddsLine
    <3>2. g[k - 1][r][c] = cell[r][c] + Total(Told(lines, k - 1, r, c))
      BY <2>1 DEF AddsLines
    <3>3. k \in Nat \ {0} /\ k - 1 \in Nat /\ \A i \in 1 .. k : i \in 1 .. N
      BY <1>1
    <3>4. \A i \in 1 .. k - 1 : i \in 1 .. k
      BY <3>3
    <3>5. \A i \in 1 .. k : Fits(lines[i])
      BY <1>4, <3>3
    <3>6. Total(Told(lines, k, r, c)) = Total(Told(lines, k - 1, r, c)) + Says(lines[k], r, c)
      BY <3>3, <3>5, ToldNext
    <3>7. Total(Told(lines, k - 1, r, c)) \in Int
      BY <3>3, <3>4, <3>5, ToldNat
    <3>8. Says(lines[k], r, c) \in Int
      BY <1>4, SaysNat
    <3>9. cell[r][c] \in Int
      BY CellInt
    <3> QED BY <3>1, <3>2, <3>6, <3>7, <3>8, <3>9
  <2> QED BY <1>1, <2>2, <2>3
<1>13. N \in G
  <2> HIDE DEF G
  <2>1. \A k \in 1 .. N : k - 1 \in G => k \in G
    BY <1>12
  <2>2. \A k \in 0 .. N : k \in G
    BY <1>1, <1>11, <2>1, Steps
  <2> QED BY <1>1, <2>2
<1> QED BY <1>9, <1>13 DEF N

\* What ShowPid reads and makes of it.
File == world.maps[list.pids[ix]]
Clean == IF show_sub_categories /\ ix > 1 THEN zero_table_data(table.cell) ELSE table.cell
Counted == AddLines(Clean, File.lines)
Ruled == [Counted EXCEPT ![data_rows] = [c \in Cols |-> Rule]]
Reading == phase = "pids" /\ ix <= num_pids /\ PidInv /\ FlagsRight /\ NodesRight /\ CellsRight
Known == File.state = "open" /\ ~Unmapped(File.lines)

\* How many nodes, processes and rows there are.
LEMMA Shapes ==
  ASSUME PidInv, FlagsRight, NodesRight
  PROVE  Shape /\ num_pids \in Nat /\ show_sub_categories \in BOOLEAN
<1>1. num_pids \in Nat /\ num_nodes \in Nat /\ nodes \in Seq(Nat)
  BY DEF PidInv, Listed, NodesRight, num_pids, num_nodes
<1>2. data_rows \in Nat
  BY <1>1 DEF data_rows, PROCESS_MEMINFO_ROWS
<1>3. ASSUME NEW j \in 1 .. num_nodes, NEW k \in 1 .. num_nodes, nodes[j] = nodes[k] PROVE j = k
  <2>1. nodes[j] \in Nat /\ nodes[k] \in Nat /\ j \in Int /\ k \in Int
    BY <1>1 DEF num_nodes
  <2>2. ~(j < k) /\ ~(k < j)
    BY <1>3, <2>1 DEF NodesRight
  <2> QED BY <2>1, <2>2
<1> QED BY <1>1, <1>2, <1>3 DEF Shape, show_sub_categories

\* A table of zeros agrees with its totals.
LEMMA ZeroSummed ==
  ASSUME Shape, NEW cell \in Cells,
         \A r \in (0 .. data_rows - 1) \cup {total_row}, c \in Cols : cell[r][c] = 0
  PROVE  Proper(cell)
<1>0. num_nodes \in Nat /\ data_rows \in Nat /\ total_col = num_nodes /\ total_col \in Cols
  BY DEF Shape, total_col, Cols
<1>1. ASSUME NEW c \in Cols PROVE cell[total_row][c] = Total([r \in 1 .. data_rows |-> cell[r - 1][c]])
  <2> DEFINE f == [r \in 1 .. data_rows |-> cell[r - 1][c]]
  <2>1. \A r \in 1 .. data_rows : r - 1 \in 0 .. data_rows - 1
    BY <1>0
  <2>2. f \in [1 .. data_rows -> Nat] /\ \A r \in 1 .. data_rows : f[r] = 0
    BY <2>1
  <2> HIDE DEF f
  <2>3. Total(f) = 0
    BY <1>0, <2>2, TotalNat
  <2> QED BY <2>3 DEF f
<1>2. ASSUME NEW r \in 0 .. data_rows - 1
      PROVE  cell[r][total_col] = Total([k \in 1 .. num_nodes |-> cell[r][k - 1]])
  <2> DEFINE f == [k \in 1 .. num_nodes |-> cell[r][k - 1]]
  <2>1. \A k \in 1 .. num_nodes : k - 1 \in Cols
    BY <1>0 DEF Cols
  <2>2. f \in [1 .. num_nodes -> Nat] /\ \A k \in 1 .. num_nodes : f[k] = 0
    BY <2>1
  <2> HIDE DEF f
  <2>3. Total(f) = 0
    BY <1>0, <2>2, TotalNat
  <2> QED BY <1>0, <2>3 DEF f
<1> QED BY <1>1, <1>2 DEF Proper, Summed

\* The rows that a process is read to were cleared, and others were not.
LEMMA CleanRight ==
  ASSUME Reading
  PROVE  /\ Proper(Clean)
         /\ \A r \in 0 .. data_rows - 1, c \in Cols :
                /\ show_sub_categories \/ r >= ix - 1 => Clean[r][c] = 0
                /\ ~show_sub_categories => Clean[r][c] = table.cell[r][c]
<1>0. Shape /\ table.cell \in Cells /\ ix \in Nat \ {0}
  BY Shapes DEF Reading, CellsRight, PidInv, ShownSoFar
<1>1. CASE show_sub_categories /\ ix > 1
  <2>1. Clean = [r \in Rows(table.cell) |-> [c \in Cols |-> 0]]
    BY <1>1 DEF Clean, zero_table_data
  <2>2. Rows(table.cell) = 0 .. total_row
    BY <1>0 DEF Rows, Cells
  <2>3. Clean \in Cells /\ \A r \in 0 .. total_row, c \in Cols : Clean[r][c] = 0
    BY <2>1, <2>2 DEF Cells
  <2>4. \A r \in (0 .. data_rows - 1) \cup {total_row} : r \in 0 .. total_row
    BY <1>0 DEF Shape, total_row
  <2>5. Proper(Clean)
    BY <1>0, <2>3, <2>4, ZeroSummed
  <2> QED BY <1>1, <2>3, <2>4, <2>5
<1>2. CASE ~(show_sub_categories /\ ix > 1)
  <2>1. Clean = table.cell
    BY <1>2 DEF Clean
  <2>2. ix <= num_pids /\ (show_sub_categories => ix = 1)
    BY <1>0, <1>2 DEF Reading
  <2> QED BY <1>0, <2>1, <2>2 DEF Reading, CellsRight, Proper
<1> QED BY <1>1, <1>2

\* What is known of the file of a process.
LEMMA FileRight ==
  ASSUME Reading
  PROVE  /\ world \in Worlds /\ list.pids[ix] \in DOMAIN world.maps /\ list.pids[ix] \in Nat
         /\ Len(File.lines) \in Nat /\ DOMAIN File.lines = 1 .. Len(File.lines)
         /\ \A k \in 1 .. Len(File.lines) : MapsLine(File.lines[k])
         /\ world.dirs # <<>> => \A k \in 1 .. Len(File.lines) :
                DOMAIN File.lines[k].pages \subseteq Range(world.dirs)
<1>1. world \in Worlds /\ World(world)
  BY NumastatAssumption DEF Reading, PidInv, ShownSoFar
<1>2. list.pids[ix] \in DOMAIN world.maps /\ list.pids[ix] \in Nat
  <2>1. list.pids \in Seq(Nat) /\ ix \in 1 .. Len(list.pids) /\ Len(list.pids) \in Nat
    BY DEF Reading, PidInv, Listed, ShownSoFar, num_pids
  <2>2. list.pids[ix] \in Range(list.pids)
    BY <2>1 DEF Range
  <2> QED BY <2>1, <2>2 DEF Reading, PidInv, Listed
<1>3. /\ File.lines \in Seq(Range(File.lines)) /\ \A l \in Range(File.lines) : MapsLine(l)
      /\ world.dirs # <<>> => \A l \in Range(File.lines) : DOMAIN l.pages \subseteq Range(world.dirs)
  BY <1>1, <1>2 DEF World, File
<1> QED BY <1>1, <1>2, <1>3 DEF Range

\* Each line that is read goes to a row of the table, on nodes that have a column.
LEMMA LinesFit ==
  ASSUME Reading, Known
  PROVE  \A k \in 1 .. Len(File.lines) : Fits(File.lines[k])
<1> SUFFICES ASSUME NEW k \in 1 .. Len(File.lines) PROVE Fits(File.lines[k])
  OBVIOUS
<1>1. MapsLine(File.lines[k]) /\ k \in DOMAIN File.lines
  BY FileRight
<1>2. DOMAIN File.lines[k].pages \subseteq Range(nodes)
  BY <1>1 DEF Known, Unmapped
<1>3. RowOf(File.lines[k]) \in 0 .. data_rows - 1
  <2>1. ix \in Nat \ {0} /\ ix <= num_pids /\ num_pids \in Nat
    BY Shapes DEF Reading, PidInv, ShownSoFar
  <2> QED BY <1>1, <2>1 DEF RowOf, data_rows, MapsLine, PROCESS_MEMINFO_ROWS
<1> QED BY <1>1, <1>2, <1>3 DEF Fits

\* The lines of the process are added to the table.
LEMMA CountedRight ==
  ASSUME Reading, Known
  PROVE  Proper(Counted) /\ AddsLines(Counted, Clean, File.lines, Len(File.lines))
<1>1. Shape /\ Proper(Clean) /\ Len(File.lines) \in Nat
  BY Shapes, CleanRight, FileRight DEF Reading
<1>2. \A k \in 1 .. Len(File.lines) : Fits(File.lines[k])
  BY LinesFit
<1> QED BY <1>1, <1>2, LinesAdded DEF Counted

\* A row that was 0 has what the process uses in the categories that go there.
LEMMA RowCounted ==
  ASSUME Reading, Known, NEW r \in 0 .. data_rows - 1, \A c \in Cols : Clean[r][c] = 0, NEW cats,
         \A k \in 1 .. Len(File.lines) : RowOf(File.lines[k]) = r <=> File.lines[k].cat \in cats
  PROVE  \A c \in Cols : Counted[r][c] = UsedOn(list.pids[ix], c, cats)
<1> DEFINE N == Len(File.lines)
           pid == list.pids[ix]
           f == [n \in Range(nodes) |-> Used(pid, n, cats)]
<1>0. /\ Shape /\ num_nodes \in Nat /\ DOMAIN nodes = 1 .. num_nodes /\ N \in Nat
      /\ total_col = num_nodes /\ Cols = 0 .. num_nodes
  BY Shapes, FileRight DEF Reading, Shape, num_nodes, total_col, Cols
<1>1. ASSUME NEW c \in 0 .. num_nodes - 1
      PROVE  c \in Cols /\ c # total_col /\ nodes[c + 1] \in Range(nodes) /\ Counted[r][c] = f[nodes[c + 1]]
  <2>1. c \in Cols /\ c # total_col /\ c + 1 \in 1 .. num_nodes
    BY <1>0
  <2>2. nodes[c + 1] \in Range(nodes)
    BY <1>0, <2>1 DEF Range
  <2>3. Counted[r][c] = Clean[r][c] + Total(Told(File.lines, N, r, c))
    BY CountedRight DEF AddsLines
  <2>4. Total(Told(File.lines, N, r, c)) \in Nat
    BY <1>0, LinesFit, ToldNat
  <2>5. Clean[r][c] = 0
    BY <2>1
  <2>6. Counted[r][c] = Total(Told(File.lines, N, r, c))
    BY <2>3, <2>4, <2>5
  <2>7. Told(File.lines, N, r, c) =
            [k \in 1 .. N |-> IF nodes[c + 1] \in DOMAIN File.lines[k].pages /\ File.lines[k].cat \in cats
                              THEN Amount(File.lines[k], nodes[c + 1]) ELSE 0]
    BY DEF Told, Says
  <2>8. f[nodes[c + 1]] = Used(pid, nodes[c + 1], cats)
    BY <2>2
  <2> QED BY <2>1, <2>2, <2>6, <2>7, <2>8 DEF Used, File
<1>2. ASSUME NEW c \in 0 .. num_nodes - 1 PROVE Counted[r][c] = UsedOn(pid, c, cats)
  BY <1>1 DEF UsedOn, OnNode
<1>3. Counted[r][total_col] = UsedOn(pid, total_col, cats)
  <2>1. Counted[r][total_col] = Total([k \in 1 .. num_nodes |-> Counted[r][k - 1]])
    BY CountedRight DEF Proper, Summed
  <2>2. \A k \in 1 .. num_nodes : k - 1 \in 0 .. num_nodes - 1 /\ (k - 1) + 1 = k
    BY <1>0
  <2>3. \A k \in 1 .. num_nodes : Counted[r][k - 1] = f[nodes[k]]
    BY <1>1, <2>2
  <2>4. [k \in 1 .. num_nodes |-> Counted[r][k - 1]] = [k \in 1 .. num_nodes |-> f[nodes[k]]]
    BY <2>3
  <2> QED BY <2>1, <2>4 DEF UsedOn, OnNode
<1> HIDE DEF pid, f, N
<1>4. \A c \in Cols : c \in 0 .. num_nodes - 1 \/ c = total_col
  BY <1>0
<1> QED BY <1>2, <1>3, <1>4 DEF pid

\* A row that no line goes to stays.
LEMMA RowKept ==
  ASSUME Reading, Known, NEW r \in 0 .. data_rows - 1,
         \A k \in 1 .. Len(File.lines) : RowOf(File.lines[k]) # r
  PROVE  \A c \in Cols : Counted[r][c] = Clean[r][c]
<1> DEFINE N == Len(File.lines)
<1>0. /\ Shape /\ num_nodes \in Nat /\ N \in Nat
      /\ total_col = num_nodes /\ Cols = 0 .. num_nodes
  BY Shapes, FileRight DEF Reading, Shape, total_col, Cols
<1>1. ASSUME NEW c \in 0 .. num_nodes - 1 PROVE Counted[r][c] = Clean[r][c]
  <2>1. Counted[r][c] = Clean[r][c] + Total(Told(File.lines, N, r, c))
    BY CountedRight DEF AddsLines
  <2>2. \A k \in 1 .. N : Says(File.lines[k], r, c) = 0
    BY DEF Says
  <2>3. Total(Told(File.lines, N, r, c)) = 0
    BY <1>0, <2>2, LinesFit, ToldNat
  <2>4. Clean[r][c] \in Int
    BY <1>0, CleanRight, CellInt
  <2> QED BY <2>1, <2>3, <2>4
<1>2. Counted[r][total_col] = Clean[r][total_col]
  <2>1. /\ Counted[r][total_col] = Total([k \in 1 .. num_nodes |-> Counted[r][k - 1]])
        /\ Clean[r][total_col] = Total([k \in 1 .. num_nodes |-> Clean[r][k - 1]])
    BY CountedRight, CleanRight DEF Proper, Summed
  <2>2. \A k \in 1 .. num_nodes : k - 1 \in 0 .. num_nodes - 1
    BY <1>0
  <2>3. [k \in 1 .. num_nodes |-> Counted[r][k - 1]] = [k \in 1 .. num_nodes |-> Clean[r][k - 1]]
    BY <1>1, <2>2
  <2> QED BY <2>1, <2>3
<1>3. \A c \in Cols : c \in 0 .. num_nodes - 1 \/ c = total_col
  BY <1>0
<1> QED BY <1>1, <1>2, <1>3

\* The rows have what the process uses, the others stay.
LEMMA PidRows ==
  ASSUME Reading, Known
  PROVE  IF show_sub_categories
         THEN \A r \in 0 .. 3, c \in Cols : Counted[r][c] = UsedOn(list.pids[ix], c, {r})
         ELSE \A r \in 0 .. num_pids - 1, c \in Cols :
                  Counted[r][c] = IF r = ix - 1 THEN UsedOn(list.pids[ix], c, 0 .. 3) ELSE table.cell[r][c]
<1>0. ix \in Nat \ {0} /\ ix <= num_pids /\ num_pids \in Nat /\ show_sub_categories \in BOOLEAN
  BY Shapes DEF Reading, PidInv, ShownSoFar
<1>1. CASE show_sub_categories
  <2>1. data_rows = 4 /\ \A k \in 1 .. Len(File.lines) : RowOf(File.lines[k]) = File.lines[k].cat
    BY <1>1 DEF data_rows, RowOf, PROCESS_MEMINFO_ROWS
  <2>2. ASSUME NEW r \in 0 .. 3 PROVE \A c \in Cols : Counted[r][c] = UsedOn(list.pids[ix], c, {r})
    <3>1. r \in 0 .. data_rows - 1
      BY <2>1
    <3>2. \A c \in Cols : Clean[r][c] = 0
      BY <1>1, <3>1, CleanRight
    <3>3. \A k \in 1 .. Len(File.lines) : RowOf(File.lines[k]) = r <=> File.lines[k].cat \in {r}
      BY <2>1
    <3> QED BY <3>1, <3>2, <3>3, RowCounted
  <2> QED BY <1>1, <2>2
<1>2. CASE ~show_sub_categories
  <2>1. data_rows = num_pids /\ \A k \in 1 .. Len(File.lines) : RowOf(File.lines[k]) = ix - 1
    BY <1>2 DEF data_rows, RowOf
  <2>2. ASSUME NEW r \in 0 .. num_pids - 1, r = ix - 1
        PROVE  \A c \in Cols : Counted[r][c] = UsedOn(list.pids[ix], c, 0 .. 3)
    <3>1. r \in 0 .. data_rows - 1 /\ r >= ix - 1
      BY <1>0, <2>1, <2>2
    <3>2. \A c \in Cols : Clean[r][c] = 0
      BY <3>1, CleanRight
    <3>3. \A k \in 1 .. Len(File.lines) : RowOf(File.lines[k]) = r <=> File.lines[k].cat \in 0 .. 3
      BY <2>1, <2>2, FileRight DEF MapsLine
    <3> QED BY <3>1, <3>2, <3>3, RowCounted
  <2>3. ASSUME NEW r \in 0 .. num_pids - 1, r # ix - 1
        PROVE  \A c \in Cols : Counted[r][c] = table.cell[r][c]
    <3>1. r \in 0 .. data_rows - 1
      BY <2>1
    <3>2. \A c \in Cols : Clean[r][c] = table.cell[r][c]
      BY <1>2, <3>1, CleanRight
    <3>3. \A k \in 1 .. Len(File.lines) : RowOf(File.lines[k]) # r
      BY <2>1, <2>3
    <3> QED BY <3>1, <3>2, <3>3, RowKept
  <2> QED BY <1>2, <2>2, <2>3
<1> QED BY <1>0, <1>1, <1>2

\* The dashes are in a row of their own.
LEMMA RuledRight ==
  ASSUME Reading, Known
  PROVE  /\ Ruled \in Cells /\ \A c \in Cols : Ruled[data_rows][c] = Rule
         /\ \A r \in (0 .. data_rows - 1) \cup {total_row} : Ruled[r] = Counted[r]
<1>0. data_rows \in Nat /\ total_row = data_rows + 1
  BY Shapes DEF Reading, Shape, total_row
<1>1. Counted \in Cells
  BY CountedRight DEF Proper
<1>2. data_rows \in 0 .. total_row /\ \A r \in (0 .. data_rows - 1) \cup {total_row} : r # data_rows /\ r \in 0 .. total_row
  BY <1>0
<1>3. [c \in Cols |-> Rule] \in [Cols -> Int]
  BY DEF Rule
<1> QED BY <1>1, <1>2, <1>3 DEF Ruled, Cells

\* One turn of the loop over the processes, taken apart.
Shows(map, width) ==
    LET t == Marked([table EXCEPT !.cell = Ruled, !.map = map])
    IN /\ table' = t /\ ix' = ix + 1 /\ UNCHANGED phase
       /\ shown' = Append(shown, display_table("process", list.pids[ix], t, width))

\* The cases of ShowPid: ended, denied, on a node not known, counted, shown.
LEMMA ShowPidCases ==
  ASSUME ShowPid
  PROVE  /\ phase = "pids" /\ ix <= num_pids
         /\ UNCHANGED <<world, flags, list, asked, starved, nodes, nargs>>
         /\ \/ File.state = "gone" /\ Skip(Clean)
            \/ File.state = "denied" /\ Stop("failed")
            \/ File.state = "open" /\ Unmapped(File.lines) /\ Stop("crashed")
            \/ Known /\ ~ShowsNow /\ Skip(Counted)
            \/ /\ Known /\ ShowsNow
               /\ \E map \in Sortings([table EXCEPT !.cell = Ruled], data_rows), width \in Widths :
                    Shows(map, width)
<1>1. /\ phase = "pids" /\ ix <= num_pids
      /\ UNCHANGED <<world, flags, list, asked, starved, nodes, nargs>>
  BY DEF ShowPid
<1>2. \/ File.state = "gone" /\ Skip(Clean)
      \/ File.state = "denied" /\ Stop("failed")
      \/ File.state = "open" /\ Unmapped(File.lines) /\ Stop("crashed")
      \/ Known /\ ~ShowsNow /\ Skip(Counted)
      \/ /\ Known /\ ShowsNow
         /\ \E map \in Sortings([table EXCEPT !.cell = Ruled], data_rows), width \in Widths :
              Shows(map, width)
  BY Zenon DEF ShowPid, File, Clean, Counted, Ruled, Known, Shows
<1> QED BY <1>1, <1>2

\* The table after a process was read has the counted cells.
LEMMA TableAfter ==
  ASSUME Reading, ShowPid, ix' = ix + 1, MapRight
  PROVE  /\ table'.cell \in Cells
         /\ \/ File.state = "gone" /\ table' = [table EXCEPT !.cell = Clean] /\ shown' = shown
            \/ Known /\ ~ShowsNow /\ table' = [table EXCEPT !.cell = Counted] /\ shown' = shown
            \/ /\ Known /\ ShowsNow /\ table'.cell = Ruled
               /\ \E map \in Sortings([table EXCEPT !.cell = Ruled], data_rows), width \in Widths :
                    Shows(map, width)
<1>0. ix # ix + 1 /\ DOMAIN table = {"cell", "map", "seenR", "seenC", "fullR", "fullC"}
  BY DEF Reading, PidInv, ShownSoFar, MapRight
<1>1. /\ \A x : [table EXCEPT !.cell = x].cell = x
      /\ \A x, y : Marked([table EXCEPT !.cell = x, !.map = y]).cell = x
  BY DEF Reading, MapRight, Marked
<1>2. \/ File.state = "gone" /\ Skip(Clean)
      \/ Known /\ ~ShowsNow /\ Skip(Counted)
      \/ /\ Known /\ ShowsNow
         /\ \E map \in Sortings([table EXCEPT !.cell = Ruled], data_rows), width \in Widths :
              Shows(map, width)
  BY <1>0, ShowPidCases DEF Stop
<1>3. CASE File.state = "gone" /\ Skip(Clean)
  BY <1>1, <1>3, CleanRight DEF Skip, Proper
<1>4. CASE Known /\ ~ShowsNow /\ Skip(Counted)
  BY <1>1, <1>4, CountedRight DEF Skip, Proper
<1>5. CASE Known /\ ShowsNow /\
            \E map \in Sortings([table EXCEPT !.cell = Ruled], data_rows), width \in Widths :
                Shows(map, width)
  <2>1. table'.cell = Ruled
    BY <1>1, <1>5, Zenon DEF Shows
  <2> QED BY <1>5, <2>1, RuledRight
<1> QED BY <1>2, <1>3, <1>4, <1>5

\* What ProcessTableRight says of one step.
LEMMA PidTable ==
  ASSUME Reading, MapRight, ShowPid, ix' = ix + 1, Readable(list.pids[ix]), shown \in Seq(Tables)
  PROVE  LET t == table'.cell
             pid == list.pids[ix]
         IN /\ \A c \in Cols : t[total_row][c] = Total([r \in 1 .. data_rows |-> t[r - 1][c]])
            /\ IF show_sub_categories
               THEN \A r \in 0 .. 3, c \in Cols : t[r][c] = UsedOn(pid, c, {r})
               ELSE \A r \in 0 .. num_pids - 1, c \in Cols :
                        t[r][c] = IF r = ix - 1 THEN UsedOn(pid, c, 0 .. 3) ELSE table.cell[r][c]
            /\ shown' # shown => Last(shown').cell = t
<1> DEFINE t == table'.cell
<1>0. data_rows \in Nat /\ total_row = data_rows + 1 /\ data_rows = IF show_sub_categories THEN 4 ELSE num_pids
  BY Shapes DEF Reading, Shape, total_row, data_rows, PROCESS_MEMINFO_ROWS
<1>1. Known /\ (t = Counted \/ t = Ruled)
  <2>1. File.state = "open"
    BY DEF Readable, File
  <2>2. \A x : [table EXCEPT !.cell = x].cell = x
    BY DEF Reading, MapRight
  <2> QED BY <2>1, <2>2, TableAfter
<1>2. \A r \in (0 .. data_rows - 1) \cup {total_row} : t[r] = Counted[r]
  BY <1>1, RuledRight
<1>3. ASSUME NEW c \in Cols PROVE t[total_row][c] = Total([r \in 1 .. data_rows |-> t[r - 1][c]])
  <2>1. Counted[total_row][c] = Total([r \in 1 .. data_rows |-> Counted[r - 1][c]])
    BY <1>1, CountedRight DEF Proper, Summed
  <2>2. \A r \in 1 .. data_rows : r - 1 \in 0 .. data_rows - 1
    BY <1>0
  <2>3. [r \in 1 .. data_rows |-> Counted[r - 1][c]] = [r \in 1 .. data_rows |-> t[r - 1][c]]
    BY <1>2, <2>2
  <2> QED BY <1>2, <2>1, <2>3
<1>4. IF show_sub_categories
      THEN \A r \in 0 .. 3, c \in Cols : t[r][c] = UsedOn(list.pids[ix], c, {r})
      ELSE \A r \in 0 .. num_pids - 1, c \in Cols :
               t[r][c] = IF r = ix - 1 THEN UsedOn(list.pids[ix], c, 0 .. 3) ELSE table.cell[r][c]
  <2>1. IF show_sub_categories THEN \A r \in 0 .. 3 : t[r] = Counted[r]
                               ELSE \A r \in 0 .. num_pids - 1 : t[r] = Counted[r]
    BY <1>0, <1>2
  <2> HIDE DEF t
  <2> QED BY <1>1, <2>1, PidRows
<1>5. shown' # shown => Last(shown').cell = t
  <2> SUFFICES ASSUME shown' # shown PROVE Last(shown').cell = t
    OBVIOUS
  <2>1. PICK map, width : Shows(map, width)
    BY TableAfter
  <2> DEFINE e == display_table("process", list.pids[ix], table', width)
  <2>2. shown' = Append(shown, e)
    BY <2>1 DEF Shows
  <2>3. e.cell = t
    BY DEF display_table
  <2> HIDE DEF e
  <2>4. Last(shown') = e
    <3>1. shown \in Seq(Tables \cup {e}) /\ e \in Tables \cup {e}
      OBVIOUS
    <3>2. Len(shown') = Len(shown) + 1 /\ shown'[Len(shown) + 1] = e
      BY <2>2, <3>1
    <3> QED BY <3>2 DEF Last
  <2> QED BY <2>3, <2>4
<1> HIDE DEF t
<1> QED BY <1>3, <1>4, <1>5 DEF t

\* The cells stay as CellsRight has them.
LEMMA PidCells ==
  ASSUME Reading, MapRight, ShowPid
  PROVE  CellsRight'
<1> SUFFICES ASSUME phase' = "pids" PROVE CellsRight'
  BY DEF CellsRight
<1>0. /\ UNCHANGED <<world, flags, list, asked, starved, nodes, nargs>> /\ ix' = ix + 1
      /\ ix \in Nat \ {0} /\ num_pids \in Nat /\ data_rows \in Nat /\ total_row = data_rows + 1
  <2>1. ix' = ix + 1
    BY ShowPidCases DEF Stop, Skip, Shows
  <2> QED BY <2>1, ShowPidCases, Shapes DEF Reading, PidInv, ShownSoFar, Shape, total_row
<1>1. /\ num_pids' = num_pids /\ show_sub_categories' = show_sub_categories /\ data_rows' = data_rows
      /\ Cols' = Cols /\ Cells' = Cells /\ total_row' = total_row /\ total_col' = total_col
      /\ num_nodes' = num_nodes
  BY <1>0 DEF num_pids, show_sub_categories, data_rows, Cols, Cells, total_row, total_col, num_nodes
<1>2. table'.cell \in Cells
  BY <1>0, TableAfter
<1>3. ASSUME ix' <= num_pids, show_sub_categories => ix' = 1
      PROVE  /\ Summed(table'.cell)
             /\ \A r \in 0 .. data_rows - 1, c \in Cols :
                    show_sub_categories \/ r >= ix' - 1 => table'.cell[r][c] = 0
  <2>1. ~show_sub_categories /\ ix < num_pids /\ ix' - 1 = ix /\ data_rows = num_pids
    BY <1>0, <1>3 DEF data_rows
  <2>2. ~ShowsNow
    BY <1>0, <2>1 DEF ShowsNow
  <2>3. \A x : [table EXCEPT !.cell = x].cell = x
    BY DEF Reading, MapRight
  <2>4. table'.cell = Clean \/ (Known /\ table'.cell = Counted)
    BY <1>0, <2>2, <2>3, TableAfter
  <2>5. \A r \in 0 .. data_rows - 1 : r >= ix => r # ix - 1 /\ r >= ix - 1
    BY <1>0
  <2>6. CASE table'.cell = Clean
    BY <2>1, <2>5, <2>6, CleanRight DEF Proper
  <2>7. CASE Known /\ table'.cell = Counted
    <3>1. \A r \in 0 .. data_rows - 1, c \in Cols : r >= ix => Counted[r][c] = table.cell[r][c]
      BY <2>1, <2>5, <2>7, PidRows
    <3>2. \A r \in 0 .. data_rows - 1, c \in Cols : r >= ix => table.cell[r][c] = 0
      BY <2>1, <2>5, CleanRight
    <3>3. Summed(Counted)
      BY <2>7, CountedRight DEF Proper
    <3> QED BY <2>1, <2>7, <3>1, <3>2, <3>3
  <2> QED BY <2>4, <2>6, <2>7
<1>4. Summed(table'.cell) => Summed(table.cell)'
  BY <1>1 DEF Summed
<1> QED BY <1>1, <1>2, <1>3, <1>4 DEF CellsRight

----------------------------------------------------------------------------
(* Sorting *)

\* The amounts compared are numbers.
Keyed(cell, n, col) == \A r \in 0 .. n - 1 : Number(cell[r][col]) \in Nat
Key(cell, col, r) == Number(cell[r][col])

\* An order of rows of which the first n are those of the data, and the rest is that of map.
Ordered(m, map, M, n) ==
    /\ m \in [1 .. M -> Nat] /\ OrderRight(m, n) /\ \A k \in 1 .. M : k > n => m[k] = map[k]
\* The first i rows descend, and none after them is bigger.
Falls(m, i, n, cell, col) ==
    \A j \in 1 .. i, k \in 1 .. n : j < k => Key(cell, col, m[j]) >= Key(cell, col, m[k])

\* k has the first biggest amount of the i-th to the j-th row.
Best(k, m, i, j, cell, col) ==
    /\ k \in i .. j
    /\ \A l \in i .. j : \/ Number(cell[m[k]][col]) > Number(cell[m[l]][col])
                         \/ Number(cell[m[k]][col]) = Number(cell[m[l]][col]) /\ k <= l

\* There is a biggest amount.
LEMMA BestExists ==
  ASSUME NEW n \in Nat, NEW m, OrderRight(m, n), NEW cell, NEW col, Keyed(cell, n, col), NEW i \in 1 .. n
  PROVE  \E k : Best(k, m, i, n, cell, col)
<1> DEFINE v(k) == Number(cell[m[k]][col])
           G == {j \in 0 .. n - i : \E k : Best(k, m, i, i + j, cell, col)}
<1>1. \A k \in 1 .. n : v(k) \in Nat
  BY DEF OrderRight, Keyed
<1>2. 0 \in G
  <2>1. i \in i .. i + 0 /\ \A l \in i .. i + 0 : l = i
    OBVIOUS
  <2>2. Best(i, m, i, i + 0, cell, col)
    BY <2>1 DEF Best
  <2> QED BY <2>2
<1>3. ASSUME NEW j \in 1 .. n - i, j - 1 \in G PROVE j \in G
  <2>1. PICK k : Best(k, m, i, i + (j - 1), cell, col)
    BY <1>3
  <2> DEFINE x == i + j
  <2>2. /\ x \in 1 .. n /\ k \in 1 .. n /\ k \in i .. x /\ k < x /\ x \in i .. x
        /\ \A l \in i .. x : l = x \/ l \in i .. i + (j - 1)
    BY <2>1 DEF Best
  <2>3. v(k) \in Nat /\ v(x) \in Nat /\ \A l \in i .. x : l \in 1 .. n /\ v(l) \in Nat
    BY <1>1, <2>2
  <2>4. \A l \in i .. i + (j - 1) : v(k) > v(l) \/ (v(k) = v(l) /\ k <= l)
    BY <2>1 DEF Best
  <2> HIDE DEF x
  <2>5. CASE v(x) > v(k)
    <3>1. ASSUME NEW l \in i .. x PROVE v(x) > v(l) \/ (v(x) = v(l) /\ x <= l)
      <4>1. CASE l = x
        BY <2>2, <4>1
      <4>2. CASE l # x
        <5>1. v(k) >= v(l)
          BY <2>2, <2>3, <2>4, <4>2
        <5> HIDE DEF v
        <5> QED BY <2>3, <2>5, <5>1
      <4> QED BY <4>1, <4>2
    <3>2. Best(x, m, i, x, cell, col)
      BY <2>2, <3>1 DEF Best
    <3> QED BY <3>2 DEF x
  <2>6. CASE ~(v(x) > v(k))
    <3>1. v(k) > v(x) \/ (v(k) = v(x) /\ k <= x)
      <4> HIDE DEF v
      <4> QED BY <2>2, <2>3, <2>6
    <3>2. ASSUME NEW l \in i .. x PROVE v(k) > v(l) \/ (v(k) = v(l) /\ k <= l)
      <4> HIDE DEF v
      <4> QED BY <2>2, <2>4, <3>1
    <3>3. Best(k, m, i, x, cell, col)
      BY <2>2, <3>2 DEF Best
    <3> QED BY <3>3 DEF x
  <2> QED BY <2>5, <2>6
<1>4. n - i \in Nat
  OBVIOUS
<1> HIDE DEF G
<1>5. \A j \in 1 .. n - i : j - 1 \in G => j \in G
  BY <1>3
<1>6. \A j \in 0 .. n - i : j \in G
  BY <1>2, <1>4, <1>5, Steps
<1>7. n - i \in G /\ i + (n - i) = n
  BY <1>4, <1>6
<1> QED BY <1>7 DEF G

\* Biggest finds it.
LEMMA BiggestRight ==
  ASSUME NEW n \in Nat, NEW m, OrderRight(m, n), NEW cell, NEW col, Keyed(cell, n, col), NEW i \in 1 .. n,
         NEW b, b = Biggest(m, i, n, cell, col)
  PROVE  b \in i .. n /\ \A l \in i .. n : Key(cell, col, m[b]) >= Key(cell, col, m[l])
<1> DEFINE v(k) == Number(cell[m[k]][col])
           P(k) == \A j \in i .. n : v(k) > v(j) \/ (v(k) = v(j) /\ k <= j)
<1>1. \E k \in i .. n : P(k)
  BY BestExists DEF Best
<1>2. b = CHOOSE k \in i .. n : P(k)
  BY DEF Biggest
<1> HIDE DEF P
<1>3. b \in i .. n /\ P(b)
  BY <1>1, <1>2
<1>4. \A k \in i .. n : k \in 1 .. n /\ v(k) \in Nat
  BY DEF OrderRight, Keyed
<1>5. ASSUME NEW l \in i .. n PROVE v(b) >= v(l)
  <2>1. v(b) > v(l) \/ v(b) = v(l)
    BY <1>3 DEF P
  <2>2. v(b) \in Nat /\ v(l) \in Nat
    BY <1>3, <1>4
  <2> HIDE DEF v
  <2> QED BY <2>1, <2>2
<1> QED BY <1>3, <1>5 DEF Key

\* A turn of the sort: two rows change places.
SortStep(m, i, n, cell, col) ==
    LET b == Biggest(m, i, n, cell, col) IN [m EXCEPT ![i] = m[b], ![b] = m[i]]

Swapped(d, m, n, i, b) ==
    \A k \in 1 .. n : d[k] = IF k = i THEN m[b] ELSE IF k = b THEN m[i] ELSE m[k]

Swap(m, i, b) == [m EXCEPT ![i] = m[b], ![b] = m[i]]

\* Two rows of data that change places.
LEMMA SwapOrdered ==
  \A M, n, map, m, i, b :
    M \in Nat /\ n \in 0 .. M /\ Ordered(m, map, M, n) /\ i \in 1 .. n /\ b \in i .. n =>
        Ordered(Swap(m, i, b), map, M, n) /\ Swapped(Swap(m, i, b), m, n, i, b)
<1> SUFFICES ASSUME NEW M \in Nat, NEW n \in 0 .. M, NEW map, NEW m, Ordered(m, map, M, n),
                    NEW i \in 1 .. n, NEW b \in i .. n, NEW d, d = Swap(m, i, b)
             PROVE  Ordered(d, map, M, n) /\ Swapped(d, m, n, i, b)
  OBVIOUS
<1> USE DEF Swap
<1>0. m \in [1 .. M -> Nat] /\ i \in 1 .. M /\ b \in 1 .. M /\ b \in 1 .. n /\ i <= n /\ b <= n
  BY DEF Ordered
<1>1. \A k \in 1 .. M : d[k] = IF k = i THEN m[b] ELSE IF k = b THEN m[i] ELSE m[k]
  BY <1>0
<1>2. m[i] \in Nat /\ m[b] \in Nat
  BY <1>0
<1>3. d \in [1 .. M -> Nat]
  BY <1>0, <1>2
<1>4. \A k \in 1 .. n : k \in 1 .. M
  OBVIOUS
<1>5. \A k \in 1 .. n : d[k] = IF k = i THEN m[b] ELSE IF k = b THEN m[i] ELSE m[k]
  BY <1>1, <1>4
<1>6. \A k \in 1 .. n : m[k] \in 0 .. n - 1
  BY DEF Ordered, OrderRight
<1>7. \A k \in 1 .. n : d[k] \in 0 .. n - 1
  BY <1>0, <1>5, <1>6
<1>8. ASSUME NEW r \in 0 .. n - 1 PROVE \E k \in 1 .. n : d[k] = r
  <2>1. PICK k \in 1 .. n : m[k] = r
    BY DEF Ordered, OrderRight
  <2>2. CASE k = i
    <3>1. d[b] = r
      BY <1>0, <1>5, <2>1, <2>2
    <3> QED BY <1>0, <3>1
  <2>3. CASE k = b
    <3>1. d[i] = r
      BY <1>0, <1>5, <2>1, <2>3
    <3> QED BY <3>1
  <2>4. CASE k # i /\ k # b
    <3>1. d[k] = r
      BY <1>5, <2>1, <2>4
    <3> QED BY <3>1
  <2> QED BY <2>2, <2>3, <2>4
<1>9. ASSUME NEW k \in 1 .. M, k > n PROVE d[k] = map[k]
  <2>1. k # i /\ k # b
    BY <1>0, <1>9
  <2> QED BY <1>1, <1>9, <2>1 DEF Ordered
<1> QED BY <1>3, <1>5, <1>7, <1>8, <1>9 DEF Ordered, OrderRight, Swapped

\* A turn of the sort puts the i-th row in its place.
LEMMA StepOrdered ==
  \A M, n, map, cell, col, m, i :
    M \in Nat /\ n \in 0 .. M /\ Keyed(cell, n, col) /\ Ordered(m, map, M, n) /\ i \in 1 .. n =>
        /\ Ordered(SortStep(m, i, n, cell, col), map, M, n)
        /\ Falls(m, i - 1, n, cell, col) => Falls(SortStep(m, i, n, cell, col), i, n, cell, col)
<1> SUFFICES ASSUME NEW M \in Nat, NEW n \in 0 .. M, NEW map, NEW cell, NEW col, Keyed(cell, n, col),
                    NEW m, Ordered(m, map, M, n), NEW i \in 1 .. n, NEW d, d = SortStep(m, i, n, cell, col)
             PROVE  /\ Ordered(d, map, M, n)
                    /\ Falls(m, i - 1, n, cell, col) => Falls(d, i, n, cell, col)
  OBVIOUS
<1> DEFINE b == Biggest(m, i, n, cell, col)
<1>1. n \in Nat /\ OrderRight(m, n)
  BY DEF Ordered
<1>2. b \in i .. n /\ \A l \in i .. n : Key(cell, col, m[b]) >= Key(cell, col, m[l])
  BY <1>1, BiggestRight
<1>3. d = Swap(m, i, b)
  BY DEF SortStep, Swap
<1> HIDE DEF b
<1>4. /\ Ordered(d, map, M, n)
      /\ \A k \in 1 .. n : d[k] = IF k = i THEN m[b] ELSE IF k = b THEN m[i] ELSE m[k]
  <2>1. Ordered(d, map, M, n) /\ Swapped(d, m, n, i, b)
    BY <1>2, <1>3, SwapOrdered, Zenon
  <2> QED BY <2>1 DEF Swapped
<1>5. ASSUME Falls(m, i - 1, n, cell, col), NEW j \in 1 .. i, NEW k \in 1 .. n, j < k
      PROVE  Key(cell, col, d[j]) >= Key(cell, col, d[k])
  <2>1. PICK l \in 1 .. n : d[k] = m[l] /\ (k >= i => l >= i) /\ (k < i => l = k)
    <3>1. CASE k = i
      BY <1>2, <1>4, <3>1
    <3>2. CASE k = b
      BY <1>2, <1>4, <3>2
    <3>3. CASE k # i /\ k # b
      BY <1>4, <3>3
    <3> QED BY <3>1, <3>2, <3>3
  <2>2. CASE j = i
    <3>1. l \in i .. n
      BY <1>5, <2>1, <2>2
    <3>2. d[j] = m[b]
      BY <1>4, <2>2
    <3> QED BY <1>2, <2>1, <3>1, <3>2
  <2>3. CASE j # i
    <3>1. j \in 1 .. i - 1 /\ j < l /\ j \in 1 .. n /\ j # b
      BY <1>2, <1>5, <2>1, <2>3
    <3>2. d[j] = m[j]
      BY <1>4, <2>3, <3>1
    <3> QED BY <1>5, <2>1, <3>1, <3>2 DEF Falls
  <2> QED BY <2>2, <2>3
<1> QED BY <1>4, <1>5 DEF Falls

\* The rows of data come out in descending order, each once.
LEMMA Sorts ==
  ASSUME NEW M \in Nat, NEW n \in 0 .. M, NEW map, Ordered(map, map, M, n), NEW cell, NEW col, Keyed(cell, n, col),
         NEW d, d = sort_rows_descending_by_col(map, n, cell, col)
  PROVE  Ordered(d, map, M, n) /\ Falls(d, n, n, cell, col)
<1> DEFINE S == {m \in [1 .. M -> Nat] : Ordered(m, map, M, n)}
           Step(m, k) == SortStep(m, k, n, cell, col)
           Loop(g) == g = [k \in 0 .. n |-> IF k = 0 THEN map ELSE Step(g[k - 1], k)]
           step == [k \in 1 .. n |-> [m \in S |-> Step(m, k)]]
<1>1. n \in Nat
  OBVIOUS
<1>2. d = (CHOOSE g : Loop(g))[n]
  BY DEF sort_rows_descending_by_col, SortStep
<1>5. \A m : Ordered(m, map, M, n) <=> m \in S
  BY DEF Ordered
<1>6. \A m, k : k \in 1 .. n /\ Ordered(m, map, M, n) =>
            /\ Ordered(Step(m, k), map, M, n)
            /\ Falls(m, k - 1, n, cell, col) => Falls(Step(m, k), k, n, cell, col)
  BY StepOrdered, Zenon
<1> HIDE DEF S
<1>7. step \in [1 .. n -> [S -> S]]
  <2> HIDE DEF Step
  <2> QED BY <1>5, <1>6
<1>8. \E g : Loop(g)
  <2>1. map \in S
    BY <1>5
  <2> HIDE DEF step
  <2>2. PICK g : Loops(g, S, n, map, step)
    BY <1>1, <1>7, <2>1, LoopExists, Zenon
  <2>3. g = [k \in 0 .. n |-> g[k]] /\ g[0] = map
    BY <2>2 DEF Loops
  <2> HIDE DEF Step
  <2>4. ASSUME NEW k \in 1 .. n PROVE g[k] = Step(g[k - 1], k)
    <3>1. k - 1 \in 0 .. n
      BY <1>1
    <3>2. g[k - 1] \in S /\ g[k] = step[k][g[k - 1]]
      BY <2>2, <3>1 DEF Loops
    <3> QED BY <3>2 DEF step
  <2>5. \A k \in 0 .. n : g[k] = IF k = 0 THEN map ELSE Step(g[k - 1], k)
    <3>1. \A k \in 0 .. n : k = 0 \/ k \in 1 .. n
      BY <1>1
    <3> QED BY <2>3, <2>4, <3>1
  <2> QED BY <2>3, <2>5
<1>9. PICK g : Loop(g) /\ d = g[n]
  <2> HIDE DEF Loop
  <2> QED BY <1>2, <1>8
<1>10. g[0] = map /\ \A k \in 1 .. n : g[k] = Step(g[k - 1], k)
  <2> HIDE DEF Step
  <2>1. \A k \in 0 .. n : g[k] = IF k = 0 THEN map ELSE Step(g[k - 1], k)
    BY <1>9
  <2> QED BY <1>1, <2>1
<1> DEFINE Good(m, k) == Ordered(m, map, M, n) /\ Falls(m, k, n, cell, col)
           G == {k \in 0 .. n : Good(g[k], k)}
<1>11. 0 \in G
  <2>1. Falls(map, 0, n, cell, col)
    BY DEF Falls
  <2> QED BY <1>1, <1>10, <2>1
<1>12. ASSUME NEW k \in 1 .. n, k - 1 \in G PROVE k \in G
  <2>1. Good(g[k - 1], k - 1)
    BY <1>12
  <2>2. Good(g[k], k)
    <3> HIDE DEF Step
    <3> QED BY <1>6, <1>10, <2>1
  <2> QED BY <1>1, <2>2
<1>13. n \in G
  <2> HIDE DEF G
  <2>1. \A k \in 1 .. n : k - 1 \in G => k \in G
    BY <1>12
  <2>2. \A k \in 0 .. n : k \in G
    BY <1>1, <1>11, <2>1, Steps
  <2> QED BY <1>1, <2>2
<1> QED BY <1>9, <1>13

\* Whatever the rows are sorted by, each stays one of the table, and the last rows stay where they are.
LEMMA SortingsRight ==
  ASSUME NEW M \in Nat, NEW n \in 0 .. M, NEW t, Ordered(t.map, t.map, M, n),
         \A r \in 0 .. n - 1, c \in Cols : t.cell[r][c] \in Int, NEW map \in Sortings(t, n)
  PROVE  /\ Ordered(map, t.map, M, n)
         /\ flags.sort /\ sort_col \in Cols => Falls(map, n, n, t.cell, sort_col)
<1>0. t.map \in [1 .. M -> Nat] /\ DOMAIN t.map = 1 .. M
  BY DEF Ordered
<1>1. CASE ~flags.sort
  <2>1. map = t.map
    BY <1>1 DEF Sortings
  <2> QED BY <1>1, <2>1
<1>2. CASE flags.sort /\ sort_col \in Cols
  <2>1. map = sort_rows_descending_by_col(t.map, n, t.cell, sort_col)
    BY <1>2 DEF Sortings
  <2>2. Keyed(t.cell, n, sort_col)
    BY <1>2 DEF Keyed, Number
  <2> QED BY <2>1, <2>2, Sorts
<1>3. CASE flags.sort /\ sort_col \notin Cols
  <2>1. PICK p \in Bijection(1 .. n, 1 .. n) : map = [k \in DOMAIN t.map |-> IF k <= n THEN t.map[p[k]] ELSE t.map[k]]
    BY <1>3 DEF Sortings
  <2>2. p \in [1 .. n -> 1 .. n] /\ \A w \in 1 .. n : \E v \in 1 .. n : p[v] = w
    BY DEF Bijection, Injection, Surjection
  <2>3. \A k \in 1 .. n : k \in 1 .. M /\ p[k] \in 1 .. n /\ p[k] \in 1 .. M
    BY <2>2
  <2>4. \A k \in 1 .. M : map[k] = IF k <= n THEN t.map[p[k]] ELSE t.map[k]
    BY <1>0, <2>1
  <2>5. \A k \in 1 .. n : map[k] = t.map[p[k]]
    BY <2>3, <2>4
  <2>6. \A k \in 1 .. M : k <= n => k \in 1 .. n
    OBVIOUS
  <2>7. \A k \in 1 .. M : map[k] \in Nat
    BY <1>0, <2>3, <2>4, <2>6
  <2>8. map \in [1 .. M -> Nat]
    BY <1>0, <2>1, <2>7
  <2>9. OrderRight(map, n)
    <3>1. \A k \in 1 .. n : map[k] \in 0 .. n - 1
      BY <2>3, <2>5 DEF Ordered, OrderRight
    <3>2. ASSUME NEW r \in 0 .. n - 1 PROVE \E k \in 1 .. n : map[k] = r
      <4>1. PICK w \in 1 .. n : t.map[w] = r
        BY DEF Ordered, OrderRight
      <4>2. PICK v \in 1 .. n : p[v] = w
        BY <2>2
      <4> QED BY <2>5, <4>1, <4>2
    <3> QED BY <3>1, <3>2 DEF OrderRight
  <2>10. \A k \in 1 .. M : k > n => map[k] = t.map[k]
    BY <2>4
  <2> QED BY <1>3, <2>8, <2>9, <2>10 DEF Ordered
<1> QED BY <1>1, <1>2, <1>3

----------------------------------------------------------------------------
(* Folding *)

\* The columns of a section are this wide.
LineWidth(line, width) == Total([i \in 1 .. Len(line) |-> width[line[i]]])

\* A section with one more column.
LEMMA LineWidthNext ==
  ASSUME NEW width \in [Cols -> Nat], NEW line \in Seq(Cols), NEW c \in Cols
  PROVE  LineWidth(line, width) \in Int /\ LineWidth(Append(line, c), width) = LineWidth(line, width) + width[c]
<1> DEFINE n == Len(line)
           more == Append(line, c)
           f == [i \in 1 .. n + 1 |-> width[more[i]]]
           h == [i \in 1 .. n |-> width[line[i]]]
<1>1. /\ n \in Nat /\ Len(more) = n + 1 /\ more[n + 1] = c /\ \A i \in 1 .. n : more[i] = line[i]
      /\ \A i \in 1 .. n + 1 : more[i] \in Cols
  OBVIOUS
<1>2. LineWidth(more, width) = Total(f) /\ LineWidth(line, width) = Total(h)
  BY <1>1 DEF LineWidth
<1> HIDE DEF more, n
<1>3. f \in [1 .. n + 1 -> Int] /\ h = [i \in 1 .. n |-> f[i]] /\ f[n + 1] = width[c]
  BY <1>1
<1>4. h \in [1 .. n -> Int]
  BY <1>1, <1>3
<1> HIDE DEF f, h
<1>5. Total(f) = Total(h) + f[n + 1] /\ Total(h) \in Int
  BY <1>1, <1>3, <1>4, TotalNext, TotalType
<1> QED BY <1>2, <1>3, <1>5 DEF more

\* A section of one column.
LEMMA LineWidthOne ==
  ASSUME NEW width \in [Cols -> Nat], NEW c \in Cols
  PROVE  LineWidth(<<c>>, width) = width[c]
<1>1. <<>> \in Seq(Cols) /\ Append(<<>>, c) = <<c>> /\ Len(<<>>) = 0
  OBVIOUS
<1>2. LineWidth(<<>>, width) = 0
  <2> DEFINE h == [i \in 1 .. 0 |-> width[<<>>[i]]]
  <2>1. LineWidth(<<>>, width) = Total(h)
    BY <1>1 DEF LineWidth
  <2>2. h \in [1 .. 0 -> Int]
    OBVIOUS
  <2> HIDE DEF h
  <2> QED BY <2>1, <2>2, TotalType
<1>3. LineWidth(<<c>>, width) = LineWidth(<<>>, width) + width[c]
  BY <1>1, LineWidthNext
<1> QED BY <1>2, <1>3

\* States of the loop over the columns.
Accs == [open : BOOLEAN, width : Int, lines : Seq(Seq(Cols))]

\* Each section fits or is one column.
Narrowed(lines, width) ==
    \A k \in DOMAIN lines : Len(lines[k]) = 1 \/ HeaderWidth + LineWidth(lines[k], width) <= ScreenWidth
\* The columns are in order, none twice, below k.
Lexical(lines) ==
    \A j, k \in DOMAIN lines : \A a \in DOMAIN lines[j], b \in DOMAIN lines[k] :
        j < k \/ (j = k /\ a < b) => lines[j][a] < lines[k][b]
Below(lines, n) == \A j \in DOMAIN lines : \A a \in DOMAIN lines[j] : lines[j][a] < n
\* All columns to show below k are in a section.
Holds(lines, c) == \E k \in DOMAIN lines : c \in Range(lines[k])
Covers(lines, cols, n) == \A c \in Cols : c \in cols /\ c < n => Holds(lines, c)
\* And no others.
Among(lines, cols) == \A j \in DOMAIN lines : \A a \in DOMAIN lines[j] : lines[j][a] \in cols

\* What holds after the columns below n.
FoldInv(acc, width, cols, n) ==
    /\ acc \in Accs /\ Narrowed(acc.lines, width) /\ Lexical(acc.lines)
    /\ Below(acc.lines, n) /\ Covers(acc.lines, cols, n) /\ Among(acc.lines, cols)
    /\ acc.open => acc.lines # <<>> /\ acc.width = HeaderWidth + LineWidth(acc.lines[Len(acc.lines)], width)

\* The lines with c behind the last, or in a line of its own.
Extends(e, lines, c) ==
    /\ Len(e) = Len(lines) /\ Len(lines) >= 1
    /\ \A k \in 1 .. Len(lines) - 1 : e[k] = lines[k]
    /\ e[Len(lines)] = Append(lines[Len(lines)], c)
StartsNew(e, lines, c) ==
    /\ Len(e) = Len(lines) + 1
    /\ \A k \in 1 .. Len(lines) : e[k] = lines[k]
    /\ e[Len(lines) + 1] = <<c>>

\* A step of the loop: the column is left out, or goes to one of the two.
FoldsTo(d, acc, c, width, cols) ==
    /\ d \in Accs /\ (d.open => d.lines # <<>>)
    /\ \/ c \notin cols /\ d.lines = acc.lines /\ d.width = acc.width /\ (d.open => acc.open)
       \/ /\ acc.open /\ acc.width + width[c] <= ScreenWidth /\ d.width = acc.width + width[c]
          /\ c \in cols /\ Extends(d.lines, acc.lines, c)
       \/ c \in cols /\ d.width = HeaderWidth + width[c] /\ StartsNew(d.lines, acc.lines, c)

\* A column is left out, goes to the open section, or opens one.
LEMMA FoldStepCases ==
  \A width, cols, c, acc :
    width \in [Cols -> Nat] /\ c \in Cols /\ acc \in Accs /\ (acc.open => acc.lines # <<>>) =>
        FoldsTo(FoldStep(acc, c, width, cols), acc, c, width, cols)
<1> SUFFICES ASSUME NEW width \in [Cols -> Nat], NEW cols, NEW c \in Cols, NEW acc \in Accs,
                    acc.open => acc.lines # <<>>, NEW d, d = FoldStep(acc, c, width, cols)
             PROVE  FoldsTo(d, acc, c, width, cols)
  OBVIOUS
<1> USE DEF FoldsTo
<1> DEFINE open == acc.open /\ acc.width + width[c] <= ScreenWidth
           lines == acc.lines
           n == Len(lines)
<1>0. /\ open \in BOOLEAN /\ width[c] \in Nat /\ HeaderWidth \in Nat /\ acc.width \in Int
      /\ lines \in Seq(Seq(Cols)) /\ n \in Nat
  BY NumastatAssumption DEF Accs
<1>1. CASE c \notin cols
  <2>1. d = [acc EXCEPT !.open = open]
    BY <1>1 DEF FoldStep
  <2>2. d \in Accs /\ d.open = open /\ d.lines = acc.lines /\ d.width = acc.width
    BY <1>0, <2>1 DEF Accs
  <2> QED BY <1>1, <2>2
<1>2. CASE c \in cols /\ open
  <2>1. d = Longer(acc, c, width)
    BY <1>2 DEF FoldStep
  <2> DEFINE e == [lines EXCEPT ![n] = Append(lines[n], c)]
  <2>2. d = [acc EXCEPT !.width = acc.width + width[c], !.lines = e]
    BY <2>1 DEF Longer
  <2>3. n >= 1 /\ n \in 1 .. n /\ lines[n] \in Seq(Cols)
    BY <1>0, <1>2
  <2>4. Append(lines[n], c) \in Seq(Cols)
    BY <2>3
  <2>5. lines \in [1 .. n -> Seq(Cols)]
    BY <1>0
  <2>6. e \in [1 .. n -> Seq(Cols)] /\ e[n] = Append(lines[n], c) /\ \A k \in 1 .. n - 1 : e[k] = lines[k]
    BY <1>0, <2>3, <2>4, <2>5
  <2>7. e \in Seq(Seq(Cols)) /\ Len(e) = n
    BY <1>0, <2>6
  <2> HIDE DEF e
  <2>8. d.open = acc.open /\ d.width = acc.width + width[c] /\ d.lines = e
    BY <2>2 DEF Accs
  <2>9. d \in Accs
    <3>1. d = [open |-> acc.open, width |-> acc.width + width[c], lines |-> e]
      BY <2>2 DEF Accs
    <3>2. acc.open \in BOOLEAN /\ acc.width + width[c] \in Int
      BY <1>0 DEF Accs
    <3> QED BY <2>7, <3>1, <3>2 DEF Accs
  <2>10. Extends(e, lines, c)
    BY <2>3, <2>6, <2>7 DEF Extends
  <2>11. e # <<>>
    BY <2>3, <2>7
  <2> QED BY <1>2, <2>8, <2>9, <2>10, <2>11
<1>3. CASE c \in cols /\ ~open
  <2>1. d = Section(acc, c, width)
    BY <1>3 DEF FoldStep
  <2> DEFINE e == Append(lines, <<c>>)
  <2>2. d = [open |-> TRUE, width |-> HeaderWidth + width[c], lines |-> e]
    BY <2>1 DEF Section
  <2>3. <<c>> \in Seq(Cols)
    OBVIOUS
  <2>4. e \in Seq(Seq(Cols)) /\ Len(e) = n + 1 /\ e[n + 1] = <<c>> /\ \A k \in 1 .. n : e[k] = lines[k]
    BY <1>0, <2>3
  <2> HIDE DEF e
  <2>5. d \in Accs /\ d.width = HeaderWidth + width[c] /\ d.lines = e /\ e # <<>>
    BY <1>0, <2>2, <2>4 DEF Accs
  <2> QED BY <1>3, <2>4, <2>5 DEF StartsNew
<1> QED BY <1>0, <1>1, <1>2, <1>3

\* A column of the sections is one that was there, or the new one.
Old(e, lines, j, a) == j \in DOMAIN lines /\ a \in DOMAIN lines[j] /\ e[j][a] = lines[j][a]
New(e, c, j, a) == j = Len(e) /\ a = Len(e[j]) /\ e[j][a] = c
Grows(e, lines, c) ==
    /\ e \in Seq(Seq(Cols)) /\ lines \in Seq(Seq(Cols)) /\ c \in Cols
    /\ \A j \in DOMAIN e : \A a \in DOMAIN e[j] : Old(e, lines, j, a) \/ New(e, c, j, a)
    /\ \A j \in DOMAIN lines : \A a \in DOMAIN lines[j] :
            j \in DOMAIN e /\ a \in DOMAIN e[j] /\ e[j][a] = lines[j][a]
    /\ Holds(e, c)

\* A longer section has the columns it had and one more.
LEMMA ExtendsGrows ==
  ASSUME NEW e \in Seq(Seq(Cols)), NEW lines \in Seq(Seq(Cols)), NEW c \in Cols, Extends(e, lines, c)
  PROVE  Grows(e, lines, c)
<1> DEFINE n == Len(lines)
           last == lines[n]
<1>1. /\ n \in Nat /\ n >= 1 /\ n \in 1 .. n /\ Len(e) = n /\ DOMAIN e = 1 .. n /\ DOMAIN lines = 1 .. n
      /\ e[n] = Append(last, c) /\ \A k \in 1 .. n - 1 : e[k] = lines[k]
  BY DEF Extends
<1>2. last \in Seq(Cols)
  BY <1>1
<1> HIDE DEF n, last
<1>3. /\ Len(last) \in Nat /\ Len(e[n]) = Len(last) + 1 /\ e[n][Len(last) + 1] = c
      /\ DOMAIN last = 1 .. Len(last) /\ DOMAIN e[n] = 1 .. Len(last) + 1
      /\ \A a \in 1 .. Len(last) : e[n][a] = last[a]
  BY <1>1, <1>2
<1>4. \A j \in 1 .. n : j = n \/ j \in 1 .. n - 1
  BY <1>1
<1>5. \A a \in 1 .. Len(last) + 1 : a \in 1 .. Len(last) \/ a = Len(last) + 1
  BY <1>3
<1>6. ASSUME NEW j \in DOMAIN e, NEW a \in DOMAIN e[j] PROVE Old(e, lines, j, a) \/ New(e, c, j, a)
  BY <1>1, <1>3, <1>4, <1>5 DEF Old, New, last
<1>7. ASSUME NEW j \in DOMAIN lines, NEW a \in DOMAIN lines[j]
      PROVE  j \in DOMAIN e /\ a \in DOMAIN e[j] /\ e[j][a] = lines[j][a]
  <2>1. CASE j = n
    <3>1. a \in 1 .. Len(last)
      BY <1>3, <2>1 DEF last
    <3> QED BY <1>1, <1>3, <2>1, <3>1 DEF last
  <2>2. CASE j \in 1 .. n - 1
    BY <1>1, <2>2
  <2> QED BY <1>1, <1>4, <2>1, <2>2
<1>8. Holds(e, c)
  <2>1. Len(last) + 1 \in DOMAIN e[n] /\ n \in DOMAIN e
    BY <1>1, <1>3
  <2> QED BY <1>3, <2>1 DEF Holds, Range
<1> QED BY <1>6, <1>7, <1>8 DEF Grows

\* So have the sections and a new one.
LEMMA StartsGrows ==
  ASSUME NEW e \in Seq(Seq(Cols)), NEW lines \in Seq(Seq(Cols)), NEW c \in Cols, StartsNew(e, lines, c)
  PROVE  Grows(e, lines, c)
<1> DEFINE n == Len(lines)
<1>1. /\ n \in Nat /\ Len(e) = n + 1 /\ DOMAIN e = 1 .. n + 1 /\ DOMAIN lines = 1 .. n
      /\ e[n + 1] = <<c>> /\ \A k \in 1 .. n : e[k] = lines[k]
  <2>1. n \in Nat /\ DOMAIN lines = 1 .. n /\ DOMAIN e = 1 .. Len(e)
    OBVIOUS
  <2> QED BY <2>1 DEF StartsNew
<1>2. Len(e[n + 1]) = 1 /\ DOMAIN e[n + 1] = 1 .. 1 /\ e[n + 1][1] = c
  BY <1>1
<1> HIDE DEF n
<1>3. \A j \in 1 .. n + 1 : j = n + 1 \/ j \in 1 .. n
  BY <1>1
<1>4. \A j \in 1 .. n : j \in 1 .. n + 1
  BY <1>1
<1>5. ASSUME NEW j \in DOMAIN e, NEW a \in DOMAIN e[j] PROVE Old(e, lines, j, a) \/ New(e, c, j, a)
  <2>1. CASE j = n + 1
    <3>1. a = 1
      BY <1>2, <2>1
    <3> QED BY <1>1, <1>2, <2>1, <3>1 DEF New
  <2>2. CASE j \in 1 .. n
    BY <1>1, <2>2 DEF Old
  <2> QED BY <1>1, <1>3, <2>1, <2>2
<1>6. ASSUME NEW j \in DOMAIN lines, NEW a \in DOMAIN lines[j]
      PROVE  j \in DOMAIN e /\ a \in DOMAIN e[j] /\ e[j][a] = lines[j][a]
  BY <1>1, <1>4
<1>7. Holds(e, c)
  <2>1. 1 \in DOMAIN e[n + 1] /\ n + 1 \in DOMAIN e
    BY <1>1, <1>2
  <2> QED BY <1>2, <2>1 DEF Holds, Range
<1> QED BY <1>5, <1>6, <1>7 DEF Grows

\* Columns stay in order when one behind all of them is added.
LEMMA GrowsRight ==
  ASSUME num_nodes \in Nat, NEW e, NEW lines, NEW c, Grows(e, lines, c), Lexical(lines), Below(lines, c)
  PROVE  /\ Lexical(e) /\ Below(e, c + 1) /\ Holds(e, c)
         /\ \A x : Holds(lines, x) => Holds(e, x)
<1>0. /\ c \in Int /\ Len(e) \in Nat /\ DOMAIN e = 1 .. Len(e)
      /\ \A j \in DOMAIN e : Len(e[j]) \in Nat /\ DOMAIN e[j] = 1 .. Len(e[j])
  BY DEF Grows, Cols
<1>1. ASSUME NEW j \in DOMAIN e, NEW a \in DOMAIN e[j]
      PROVE  e[j][a] \in Int /\ (Old(e, lines, j, a) => e[j][a] < c) /\ (Old(e, lines, j, a) \/ New(e, c, j, a))
  BY DEF Grows, Cols, Old, Below
<1>2. Below(e, c + 1)
  <2> SUFFICES ASSUME NEW j \in DOMAIN e, NEW a \in DOMAIN e[j] PROVE e[j][a] < c + 1
    BY DEF Below
  <2>1. e[j][a] \in Int /\ (e[j][a] < c \/ e[j][a] = c)
    BY <1>1 DEF New
  <2> QED BY <1>0, <2>1
<1>3. ASSUME NEW j \in DOMAIN e, NEW k \in DOMAIN e, NEW a \in DOMAIN e[j], NEW b \in DOMAIN e[k],
             j < k \/ (j = k /\ a < b)
      PROVE  e[j][a] < e[k][b]
  <2>1. ~New(e, c, j, a)
    <3> SUFFICES ASSUME New(e, c, j, a) PROVE FALSE
      OBVIOUS
    <3>1. j = Len(e) /\ a = Len(e[j])
      BY DEF New
    <3>2. k <= Len(e) /\ (j = k => b <= Len(e[j])) /\ k \in Int /\ b \in Int
      BY <1>0
    <3> QED BY <1>0, <1>3, <3>1, <3>2
  <2>2. Old(e, lines, j, a) /\ e[j][a] < c
    BY <1>1, <2>1
  <2>3. CASE Old(e, lines, k, b)
    BY <1>3, <2>2, <2>3 DEF Old, Lexical
  <2>4. CASE New(e, c, k, b)
    BY <2>2, <2>4 DEF New
  <2> QED BY <1>1, <2>3, <2>4
<1>4. ASSUME NEW x, Holds(lines, x) PROVE Holds(e, x)
  <2>1. PICK j \in DOMAIN lines : x \in Range(lines[j])
    BY <1>4 DEF Holds
  <2>2. PICK a \in DOMAIN lines[j] : lines[j][a] = x
    BY <2>1 DEF Range
  <2>3. j \in DOMAIN e /\ a \in DOMAIN e[j] /\ e[j][a] = x
    BY <2>2 DEF Grows
  <2> QED BY <2>3 DEF Holds, Range
<1> QED BY <1>2, <1>3, <1>4 DEF Lexical, Grows

\* One column keeps the sections right.
LEMMA FoldKept ==
  \A width, cols, c, acc :
    num_nodes \in Nat /\ width \in [Cols -> Nat] /\ c \in Cols /\ FoldInv(acc, width, cols, c) =>
        FoldInv(FoldStep(acc, c, width, cols), width, cols, c + 1)
<1> SUFFICES ASSUME num_nodes \in Nat, NEW width \in [Cols -> Nat], NEW cols, NEW c \in Cols,
                    NEW acc, FoldInv(acc, width, cols, c), NEW d, d = FoldStep(acc, c, width, cols)
             PROVE  FoldInv(d, width, cols, c + 1)
  OBVIOUS
<1> DEFINE lines == acc.lines
           e == d.lines
           n == Len(lines)
<1>0. /\ acc \in Accs /\ lines \in Seq(Seq(Cols)) /\ n \in Nat /\ DOMAIN lines = 1 .. n /\ acc.width \in Int
      /\ acc.open => lines # <<>> /\ acc.width = HeaderWidth + LineWidth(lines[n], width)
      /\ c \in Int /\ HeaderWidth \in Nat /\ ScreenWidth \in Nat /\ width[c] \in Nat
      /\ \A x \in Cols : x \in Int
  BY NumastatAssumption DEF FoldInv, Accs, Cols
<1>1. /\ d \in Accs /\ (d.open => e # <<>>)
      /\ \/ c \notin cols /\ e = lines /\ d.width = acc.width /\ (d.open => acc.open)
         \/ /\ acc.open /\ acc.width + width[c] <= ScreenWidth /\ d.width = acc.width + width[c]
            /\ c \in cols /\ Extends(e, lines, c)
         \/ c \in cols /\ d.width = HeaderWidth + width[c] /\ StartsNew(e, lines, c)
  <2>1. acc \in Accs /\ (acc.open => acc.lines # <<>>)
    BY <1>0
  <2>2. FoldsTo(d, acc, c, width, cols)
    BY <2>1, FoldStepCases, Zenon
  <2> QED BY <2>2 DEF FoldsTo
<1>2. e \in Seq(Seq(Cols)) /\ DOMAIN e = 1 .. Len(e)
  <2>1. d \in Accs
    BY <1>1
  <2>2. d.lines \in Seq(Seq(Cols))
    BY ONLY <2>1 DEF Accs
  <2>3. DOMAIN d.lines = 1 .. Len(d.lines)
    BY ONLY <2>2
  <2> QED BY <2>2, <2>3
<1>3. Lexical(lines) /\ Below(lines, c) /\ Narrowed(lines, width) /\ Covers(lines, cols, c) /\ Among(lines, cols)
  BY DEF FoldInv
<1>4. ASSUME Grows(e, lines, c), c \in cols
      PROVE  Lexical(e) /\ Below(e, c + 1) /\ Covers(e, cols, c + 1) /\ Among(e, cols)
  <2>0. Among(e, cols)
    BY <1>3, <1>4 DEF Grows, Old, New, Among
  <2>1. Lexical(e) /\ Below(e, c + 1) /\ Holds(e, c) /\ \A x : Holds(lines, x) => Holds(e, x)
    BY <1>3, <1>4, GrowsRight
  <2>2. \A x \in Cols : x < c + 1 => x = c \/ x < c
    BY <1>0
  <2> QED BY <1>3, <2>0, <2>1, <2>2 DEF Covers
<1>5. CASE c \notin cols /\ e = lines /\ d.width = acc.width /\ (d.open => acc.open)
  <2>1. Covers(e, cols, c + 1)
    <3>1. \A x \in Cols : x < c + 1 => x = c \/ x < c
      BY <1>0
    <3> QED BY <1>3, <1>5, <3>1 DEF Covers
  <2>2. Below(e, c + 1)
    <3> SUFFICES ASSUME NEW j \in DOMAIN lines, NEW a \in DOMAIN lines[j] PROVE lines[j][a] < c + 1
      BY <1>5 DEF Below
    <3>1. lines[j] \in Seq(Cols)
      BY <1>0
    <3>2. lines[j][a] \in Cols
      BY <3>1
    <3>3. lines[j][a] < c /\ lines[j][a] \in Int
      BY <1>0, <1>3, <3>2 DEF Below
    <3> QED BY <1>0, <3>3
  <2> QED BY <1>0, <1>1, <1>3, <1>5, <2>1, <2>2 DEF FoldInv
<1>6. CASE /\ acc.open /\ acc.width + width[c] <= ScreenWidth /\ d.width = acc.width + width[c]
           /\ c \in cols /\ Extends(e, lines, c)
  <2>1. Lexical(e) /\ Below(e, c + 1) /\ Covers(e, cols, c + 1) /\ Among(e, cols)
    BY <1>0, <1>2, <1>4, <1>6, ExtendsGrows
  <2>2. n \in 1 .. n /\ Len(e) = n /\ e[n] = Append(lines[n], c) /\ \A k \in 1 .. n - 1 : e[k] = lines[k]
    BY <1>0, <1>6 DEF Extends
  <2>3. lines[n] \in Seq(Cols)
    BY <1>0, <2>2
  <2>4. LineWidth(lines[n], width) \in Int /\ LineWidth(e[n], width) = LineWidth(lines[n], width) + width[c]
    BY <2>2, <2>3, LineWidthNext
  <2>5. d.width = HeaderWidth + LineWidth(e[n], width) /\ d.width <= ScreenWidth
    BY <1>0, <1>6, <2>4
  <2>6. Narrowed(e, width)
    <3> SUFFICES ASSUME NEW k \in 1 .. n
                 PROVE  Len(e[k]) = 1 \/ HeaderWidth + LineWidth(e[k], width) <= ScreenWidth
      BY <1>2, <2>2 DEF Narrowed
    <3>1. CASE k = n
      BY <2>5, <3>1
    <3>2. CASE k # n
      <4>1. k \in 1 .. n - 1 /\ k \in DOMAIN lines
        BY <1>0, <3>2
      <4> QED BY <1>3, <2>2, <4>1 DEF Narrowed
    <3> QED BY <3>1, <3>2
  <2> QED BY <1>1, <2>1, <2>2, <2>5, <2>6 DEF FoldInv
<1>7. CASE c \in cols /\ d.width = HeaderWidth + width[c] /\ StartsNew(e, lines, c)
  <2>1. Lexical(e) /\ Below(e, c + 1) /\ Covers(e, cols, c + 1) /\ Among(e, cols)
    BY <1>0, <1>2, <1>4, <1>7, StartsGrows
  <2>2. Len(e) = n + 1 /\ e[n + 1] = <<c>> /\ \A k \in 1 .. n : e[k] = lines[k]
    BY <1>0, <1>7 DEF StartsNew
  <2>3. LineWidth(e[n + 1], width) = width[c] /\ Len(e[n + 1]) = 1
    BY <2>2, LineWidthOne
  <2>4. Narrowed(e, width)
    <3> SUFFICES ASSUME NEW k \in 1 .. n + 1
                 PROVE  Len(e[k]) = 1 \/ HeaderWidth + LineWidth(e[k], width) <= ScreenWidth
      BY <1>2, <2>2 DEF Narrowed
    <3>1. CASE k = n + 1
      BY <2>3, <3>1
    <3>2. CASE k # n + 1
      <4>1. k \in 1 .. n
        BY <1>0, <3>2
      <4> QED BY <1>0, <1>3, <2>2, <4>1 DEF Narrowed
    <3> QED BY <3>1, <3>2
  <2> QED BY <1>1, <1>7, <2>1, <2>2, <2>3, <2>4 DEF FoldInv
<1> QED BY <1>1, <1>5, <1>6, <1>7

\* However a table is folded, its sections fit, are in order and have every column to show,
\* and no other.
LEMMA FoldedRight ==
  ASSUME num_nodes \in Nat, NEW width \in [Cols -> Nat], NEW cols, NEW lines, lines = Folded(cols, width)
  PROVE  /\ lines \in Seq(Seq(Cols)) /\ Narrowed(lines, width) /\ Lexical(lines)
         /\ Covers(lines, cols, num_nodes + 1) /\ Among(lines, cols)
<1> DEFINE N == num_nodes + 1
           x == [open |-> FALSE, width |-> 0, lines |-> <<>>]
           S == {acc \in Accs : acc.open => acc.lines # <<>>}
           Step(m, k) == FoldStep(m, k - 1, width, cols)
           Loop(g) == g = [k \in 0 .. N |-> IF k = 0 THEN x ELSE Step(g[k - 1], k)]
           step == [k \in 1 .. N |-> [m \in S |-> Step(m, k)]]
<1>1. N \in Nat /\ \A k \in 1 .. N : k - 1 \in Cols
  BY DEF Cols
<1>2. lines = (CHOOSE g : Loop(g))[N].lines
  BY DEF Folded
<1>3. x \in S /\ FoldInv(x, width, cols, 0)
  <2>1. x \in Accs /\ x.open = FALSE /\ x.lines = <<>>
    BY DEF Accs
  <2> HIDE DEF x
  <2>2. \A c \in Cols : ~(c < 0)
    BY DEF Cols
  <2>3. DOMAIN <<>> = {}
    OBVIOUS
  <2>4. Narrowed(<<>>, width) /\ Lexical(<<>>) /\ Below(<<>>, 0) /\ Among(<<>>, cols)
    BY <2>3 DEF Narrowed, Lexical, Below, Among
  <2>5. Covers(<<>>, cols, 0)
    BY <2>2 DEF Covers
  <2> QED BY <2>1, <2>4, <2>5 DEF FoldInv
<1> HIDE DEF N, x
<1>4. ASSUME NEW m \in S, NEW k \in 1 .. N PROVE Step(m, k) \in S
  <2>1. m \in Accs /\ (m.open => m.lines # <<>>) /\ k - 1 \in Cols
    BY <1>1
  <2>2. Step(m, k) \in Accs /\ (Step(m, k).open => Step(m, k).lines # <<>>)
    <3>1. FoldsTo(Step(m, k), m, k - 1, width, cols)
      BY <2>1, FoldStepCases, Zenon
    <3> QED BY <3>1 DEF FoldsTo
  <2> QED BY <2>2
<1> HIDE DEF S
<1>7. step \in [1 .. N -> [S -> S]]
  <2> HIDE DEF Step
  <2> QED BY <1>4
<1>8. \E g : Loop(g)
  <2> HIDE DEF step
  <2>2. PICK g : Loops(g, S, N, x, step)
    BY <1>1, <1>3, <1>7, LoopExists, Zenon
  <2>3. g = [k \in 0 .. N |-> g[k]] /\ g[0] = x
    BY <2>2 DEF Loops
  <2> HIDE DEF Step
  <2>4. ASSUME NEW k \in 1 .. N PROVE g[k] = Step(g[k - 1], k)
    <3>1. k - 1 \in 0 .. N
      BY <1>1
    <3>2. g[k - 1] \in S /\ g[k] = step[k][g[k - 1]]
      BY <2>2, <3>1 DEF Loops
    <3> QED BY <3>2 DEF step
  <2>5. \A k \in 0 .. N : g[k] = IF k = 0 THEN x ELSE Step(g[k - 1], k)
    <3>1. \A k \in 0 .. N : k = 0 \/ k \in 1 .. N
      BY <1>1
    <3> QED BY <2>3, <2>4, <3>1
  <2> QED BY <2>3, <2>5
<1>9. PICK g : Loop(g) /\ lines = g[N].lines
  <2> HIDE DEF Loop
  <2> QED BY <1>2, <1>8
<1>10. g[0] = x /\ \A k \in 1 .. N : g[k] = Step(g[k - 1], k)
  <2> HIDE DEF Step
  <2>1. \A k \in 0 .. N : g[k] = IF k = 0 THEN x ELSE Step(g[k - 1], k)
    BY <1>9
  <2> QED BY <1>1, <2>1
<1> DEFINE G == {k \in 0 .. N : FoldInv(g[k], width, cols, k)}
<1>11. 0 \in G
  BY <1>1, <1>3, <1>10
<1>12. ASSUME NEW k \in 1 .. N, k - 1 \in G PROVE k \in G
  <2> DEFINE c == k - 1
  <2>1. FoldInv(g[c], width, cols, c) /\ c \in Cols /\ c + 1 = k
    BY <1>1, <1>12
  <2>2. g[k] = FoldStep(g[c], c, width, cols)
    BY <1>10
  <2> HIDE DEF c
  <2>3. FoldInv(FoldStep(g[c], c, width, cols), width, cols, c + 1)
    BY <2>1, FoldKept, Zenon
  <2> QED BY <1>1, <2>1, <2>2, <2>3
<1>13. N \in G
  <2> HIDE DEF G
  <2>1. \A k \in 1 .. N : k - 1 \in G => k \in G
    BY <1>12
  <2>2. \A k \in 0 .. N : k \in G
    BY <1>1, <1>11, <2>1, Steps
  <2> QED BY <1>1, <2>2
<1> QED BY <1>9, <1>13 DEF FoldInv, Accs, N

----------------------------------------------------------------------------
(* Display *)

\* A table with rows R, and M rows shown.
Sheets(R, M) ==
    [cell : Grid(R, Cols), map : [1 .. M -> Nat], seenR : SUBSET Nat, seenC : SUBSET Cols,
     fullR : SUBSET Nat, fullC : SUBSET Cols]

\* What DisplayComplete and SortedAsAsked say of one table.
Complete(s) ==
    s.lines # <<>> =>
        /\ Narrowed(s.lines, s.width) /\ Lexical(s.lines)
        /\ \A r \in Rows(s.cell), c \in Cols :
            s.cell[r][c] > 0 \/ (flags.zero /\ s.cell[r][c] = 0)
                => Holds(s.lines, c) /\ r \in s.rows /\ r \in Range(s.order)
DataRows(s) == {k \in DOMAIN s.order : ~Process(s) \/ s.order[k] < data_rows}
AskedCol == IF flags.node \in 0 .. num_nodes - 1 THEN flags.node ELSE total_col
Asked(s) ==
    flags.sort /\ (\A k \in DOMAIN nodes : nodes[k] = k - 1) =>
        \A j, k \in DataRows(s) :
            j < k => Number(s.cell[s.order[j]][AskedCol]) >= Number(s.cell[s.order[k]][AskedCol])

\* PrintedRight is about each table by itself.
LEMMA ShownRightOf == PrintedRight <=> \A s \in Tables : Complete(s) /\ Asked(s)
<1>1. DisplayComplete <=> \A s \in Tables : Complete(s)
  BY Zenon DEF DisplayComplete, Complete, Narrowed, Lexical, Holds, LineWidth
<1>2. SortedAsAsked <=> \A s \in Tables : Asked(s)
  BY Zenon DEF SortedAsAsked, Asked, DataRows, AskedCol
<1> QED BY <1>1, <1>2 DEF PrintedRight

\* Every column has a width.
LEMMA WidthsRight ==
  ASSUME num_nodes \in Nat, NEW width \in Widths
  PROVE  width \in [Cols -> Nat]
<1>1. Wide \in Nat /\ Narrow \in Nat
  BY NumastatAssumption
<1> QED BY <1>1 DEF Widths

\* What has data is marked as seen, what has an amount as full; what is marked as full has an
\* amount, or was marked before.
IsMarked(u, t, R, M) ==
    /\ u \in Sheets(R, M) /\ u.cell = t.cell /\ u.map = t.map
    /\ \A r \in R, c \in Cols :
            /\ t.cell[r][c] >= 0 => r \in u.seenR /\ c \in u.seenC
            /\ t.cell[r][c] > 0 => r \in u.fullR /\ c \in u.fullC
    /\ \A r \in u.fullR : r \in t.fullR \/ \E c \in Cols : t.cell[r][c] > 0
    /\ \A c \in u.fullC : c \in t.fullC \/ \E r \in R : t.cell[r][c] > 0

\* Whatever has an amount, or data, is marked so, and nothing else.
LEMMA MarkedRight ==
  \A R, M, t : R \in SUBSET Nat /\ t \in Sheets(R, M) => IsMarked(Marked(t), t, R, M)
<1> SUFFICES ASSUME NEW R \in SUBSET Nat, NEW M, NEW t \in Sheets(R, M), NEW u, u = Marked(t)
             PROVE  IsMarked(u, t, R, M)
  OBVIOUS
<1> DEFINE cell == t.cell
           a == {r \in Rows(cell) : \E c \in Cols : cell[r][c] >= 0}
           b == {c \in Cols : \E r \in Rows(cell) : cell[r][c] >= 0}
           e == {r \in Rows(cell) : \E c \in Cols : cell[r][c] > 0}
           f == {c \in Cols : \E r \in Rows(cell) : cell[r][c] > 0}
<1>0. Rows(cell) = R
  BY DEF Sheets, Grid, Rows
<1>1. u = [t EXCEPT !.seenR = t.seenR \cup a, !.seenC = t.seenC \cup b,
                    !.fullR = t.fullR \cup e, !.fullC = t.fullC \cup f]
  BY DEF Marked
<1>2. a \in SUBSET Nat /\ b \in SUBSET Cols /\ e \in SUBSET Nat /\ f \in SUBSET Cols
  BY <1>0
<1>3. \A r \in R, c \in Cols : /\ t.cell[r][c] >= 0 => r \in a /\ c \in b
                               /\ t.cell[r][c] > 0 => r \in e /\ c \in f
  BY <1>0
<1>8. /\ \A r \in e : \E c \in Cols : t.cell[r][c] > 0
      /\ \A c \in f : \E r \in R : t.cell[r][c] > 0
  BY <1>0
<1> HIDE DEF a, b, e, f, cell
<1>4. u = [cell |-> t.cell, map |-> t.map, seenR |-> t.seenR \cup a, seenC |-> t.seenC \cup b,
           fullR |-> t.fullR \cup e, fullC |-> t.fullC \cup f]
  BY <1>1 DEF Sheets
<1>5. t.seenR \in SUBSET Nat /\ t.seenC \in SUBSET Cols /\ t.fullR \in SUBSET Nat /\ t.fullC \in SUBSET Cols
      /\ t.cell \in Grid(R, Cols) /\ t.map \in [1 .. M -> Nat]
  BY DEF Sheets
<1>6. t.seenR \cup a \in SUBSET Nat /\ t.seenC \cup b \in SUBSET Cols
      /\ t.fullR \cup e \in SUBSET Nat /\ t.fullC \cup f \in SUBSET Cols
  BY <1>2, <1>5
<1>7. u \in Sheets(R, M)
  BY <1>4, <1>5, <1>6 DEF Sheets
<1> QED BY <1>3, <1>4, <1>7, <1>8 DEF IsMarked

\* Every row is in the order; the table that was displayed.
Onto(map, R, M) == \A r \in R : \E k \in 1 .. M : map[k] = r
Displays(s, t, kind, pid) == s.kind = kind /\ s.pid = pid /\ s.cell = t.cell /\ s.order = t.map /\ Complete(s)

\* A table is displayed complete.
LEMMA Displayed ==
  \A R, M, t, width, kind, pid :
    num_nodes \in Nat /\ FlagsRight /\ R \in SUBSET Nat /\ M \in Nat /\ t \in Sheets(R, M) /\
    Onto(t.map, R, M) /\ width \in Widths => Displays(display_table(kind, pid, Marked(t), width), t, kind, pid)
<1> SUFFICES ASSUME num_nodes \in Nat, FlagsRight, NEW R \in SUBSET Nat, NEW M \in Nat, NEW t \in Sheets(R, M),
                    Onto(t.map, R, M), NEW width \in Widths, NEW kind, NEW pid,
                    NEW s, s = display_table(kind, pid, Marked(t), width)
             PROVE  Displays(s, t, kind, pid)
  OBVIOUS
<1> DEFINE u == Marked(t)
<1>1. /\ u \in Sheets(R, M) /\ u.cell = t.cell /\ u.map = t.map
      /\ \A r \in R, c \in Cols :
                /\ t.cell[r][c] >= 0 => r \in u.seenR /\ c \in u.seenC
                /\ t.cell[r][c] > 0 => r \in u.fullR /\ c \in u.fullC
  <2>1. IsMarked(u, t, R, M)
    BY MarkedRight, Zenon
  <2> QED BY <2>1 DEF IsMarked
<1> HIDE DEF u
<1> DEFINE some == \E r \in Rows(u.cell), c \in Cols : u.cell[r][c] >= 0
           more == \E r \in Rows(u.cell), c \in Cols : u.cell[r][c] > 0
           quiet == ~some \/ (~more /\ ~flags.zero)
<1>2. s = [kind |-> kind, pid |-> pid, cell |-> u.cell, width |-> width,
           lines |-> IF quiet THEN <<>> ELSE Folded(ShownCols(u), width),
           rows |-> IF quiet THEN {} ELSE ShownRows(u), order |-> u.map]
  BY DEF display_table, u
<1> HIDE DEF quiet
<1>3. /\ s.kind = kind /\ s.pid = pid /\ s.cell = t.cell /\ s.order = t.map /\ s.width = width
      /\ s.lines = IF quiet THEN <<>> ELSE Folded(ShownCols(u), width)
      /\ s.rows = IF quiet THEN {} ELSE ShownRows(u)
  BY <1>1, <1>2
<1>4. ASSUME s.lines # <<>>
      PROVE  /\ Narrowed(s.lines, s.width) /\ Lexical(s.lines)
             /\ \A r \in Rows(s.cell), c \in Cols :
                    s.cell[r][c] > 0 \/ (flags.zero /\ s.cell[r][c] = 0)
                        => Holds(s.lines, c) /\ r \in s.rows /\ r \in Range(s.order)
  <2>1. ~quiet /\ s.lines = Folded(ShownCols(u), width) /\ s.rows = ShownRows(u)
    BY <1>3, <1>4
  <2>2. width \in [Cols -> Nat]
    BY WidthsRight
  <2>3. Narrowed(s.lines, width) /\ Lexical(s.lines) /\ Covers(s.lines, ShownCols(u), num_nodes + 1)
    BY <2>1, <2>2, FoldedRight
  <2>4. ASSUME NEW r \in Rows(s.cell), NEW c \in Cols, s.cell[r][c] > 0 \/ (flags.zero /\ s.cell[r][c] = 0)
        PROVE  Holds(s.lines, c) /\ r \in s.rows /\ r \in Range(s.order)
    <3>1. r \in R /\ s.cell[r][c] = t.cell[r][c]
      BY <1>3 DEF Rows, Sheets, Grid
    <3>2. t.cell[r][c] \in Int
      BY <3>1 DEF Sheets, Grid
    <3>3. r \in u.seenR /\ c \in u.seenC /\ (flags.zero \/ (r \in u.fullR /\ c \in u.fullC))
      <4>1. t.cell[r][c] >= 0 /\ (flags.zero \/ t.cell[r][c] > 0)
        BY <2>4, <3>1, <3>2
      <4> QED BY <1>1, <3>1, <4>1
    <3>4. c \in ShownCols(u) /\ c < num_nodes + 1
      BY <3>3 DEF ShownCols, Cols
    <3>5. Holds(s.lines, c)
      BY <2>3, <3>4 DEF Covers
    <3>6. r \in Range(s.order)
      <4>1. PICK k \in 1 .. M : t.map[k] = r
        BY <3>1 DEF Onto
      <4>2. DOMAIN t.map = 1 .. M
        BY DEF Sheets
      <4> QED BY <1>3, <4>1, <4>2 DEF Range
    <3>7. r \in s.rows
      BY <1>1, <1>3, <2>1, <3>3, <3>6 DEF ShownRows
    <3> QED BY <3>5, <3>6, <3>7
  <2> QED BY <1>3, <2>3, <2>4
<1> QED BY <1>3, <1>4 DEF Complete, Displays

\* With -z a table in which nothing was marked before is displayed without zeros.
LEMMA Hides ==
  \A R, M, t, width, kind, pid :
    num_nodes \in Nat /\ R \in SUBSET Nat /\ t \in Sheets(R, M) /\ width \in Widths /\
    t.fullR = {} /\ t.fullC = {} /\ ~flags.zero => NoZeros(display_table(kind, pid, Marked(t), width))
<1> SUFFICES ASSUME num_nodes \in Nat, NEW R \in SUBSET Nat, NEW M, NEW t \in Sheets(R, M), NEW width \in Widths,
                    t.fullR = {}, t.fullC = {}, ~flags.zero, NEW kind, NEW pid,
                    NEW s, s = display_table(kind, pid, Marked(t), width)
             PROVE  NoZeros(s)
  OBVIOUS
<1> DEFINE u == Marked(t)
<1>1. /\ u.cell = t.cell /\ DOMAIN t.cell = R
      /\ \A r \in u.fullR : \E c \in Cols : t.cell[r][c] > 0
      /\ \A c \in u.fullC : \E r \in R : t.cell[r][c] > 0
  <2>1. IsMarked(u, t, R, M)
    BY MarkedRight, Zenon
  <2> QED BY <2>1 DEF IsMarked, Sheets, Grid
<1> HIDE DEF u
<1> DEFINE some == \E r \in Rows(u.cell), c \in Cols : u.cell[r][c] >= 0
           more == \E r \in Rows(u.cell), c \in Cols : u.cell[r][c] > 0
           quiet == ~some \/ (~more /\ ~flags.zero)
<1>2. s = [kind |-> kind, pid |-> pid, cell |-> u.cell, width |-> width,
           lines |-> IF quiet THEN <<>> ELSE Folded(ShownCols(u), width),
           rows |-> IF quiet THEN {} ELSE ShownRows(u), order |-> u.map]
  BY DEF display_table, u
<1> HIDE DEF quiet
<1>3. /\ s.cell = t.cell /\ s.lines = IF quiet THEN <<>> ELSE Folded(ShownCols(u), width)
      /\ s.rows = IF quiet THEN {} ELSE ShownRows(u)
  BY <1>1, <1>2
<1>4. Among(s.lines, u.fullC)
  <2>1. CASE quiet
    BY <1>3, <2>1 DEF Among
  <2>2. CASE ~quiet
    <3>1. width \in [Cols -> Nat] /\ s.lines = Folded(ShownCols(u), width)
      BY <1>3, <2>2, WidthsRight
    <3>2. Among(s.lines, ShownCols(u))
      BY <3>1, FoldedRight
    <3> QED BY <3>2 DEF Among, ShownCols
  <2> QED BY <2>1, <2>2
<1>5. ASSUME NEW k \in DOMAIN s.lines, NEW c \in Range(s.lines[k])
      PROVE  \E r \in Rows(s.cell) : s.cell[r][c] > 0
  <2>1. c \in u.fullC
    BY <1>4 DEF Among, Range
  <2> QED BY <1>1, <1>3, <2>1 DEF Rows
<1>6. ASSUME NEW r \in s.rows
      PROVE  s.cell[r][0] = Rule \/ \E c \in Cols : s.cell[r][c] > 0
  <2>1. r \in ShownRows(u)
    BY <1>3
  <2>2. t.cell[r][0] = Rule \/ r \in u.fullR
    BY <1>1, <2>1 DEF ShownRows
  <2> QED BY <1>1, <1>3, <2>2
<1> QED BY <1>5, <1>6 DEF NoZeros

\* Where nodes have no holes, the column that is sorted by is the one asked for.
LEMMA SortColAsked ==
  ASSUME Shape, FlagsRight, \A k \in DOMAIN nodes : nodes[k] = k - 1
  PROVE  sort_col = AskedCol /\ sort_col \in Cols
<1>0. num_nodes \in Nat /\ DOMAIN nodes = 1 .. num_nodes /\ flags.node \in Int /\ total_col = num_nodes
  BY DEF Shape, num_nodes, FlagsRight, total_col
<1>1. CASE flags.node \in 0 .. num_nodes - 1
  <2>1. flags.node + 1 \in DOMAIN nodes
    BY <1>0, <1>1
  <2>2. nodes[flags.node + 1] = flags.node
    BY <1>0, <1>1, <2>1
  <2>3. ~(flags.node < 0 \/ flags.node >= num_nodes)
    BY <1>0, <1>1
  <2> QED BY <1>0, <1>1, <2>2, <2>3 DEF sort_col, AskedCol, Cols
<1>2. CASE flags.node \notin 0 .. num_nodes - 1
  <2>1. flags.node < 0 \/ flags.node >= num_nodes
    BY <1>0, <1>2
  <2> QED BY <1>0, <1>2, <2>1 DEF sort_col, AskedCol, Cols
<1> QED BY <1>1, <1>2

\* A table whose rows of data descend is in the order asked for.
LEMMA AskedRight ==
  ASSUME Shape, FlagsRight, NEW s, NEW n \in Nat, DataRows(s) \subseteq 1 .. n,
         flags.sort /\ sort_col \in Cols => Falls(s.order, n, n, s.cell, sort_col)
  PROVE  Asked(s)
<1> SUFFICES ASSUME flags.sort, \A k \in DOMAIN nodes : nodes[k] = k - 1,
                    NEW j \in DataRows(s), NEW k \in DataRows(s), j < k
             PROVE  Number(s.cell[s.order[j]][AskedCol]) >= Number(s.cell[s.order[k]][AskedCol])
  BY DEF Asked
<1>1. sort_col = AskedCol /\ sort_col \in Cols
  BY SortColAsked
<1>2. Falls(s.order, n, n, s.cell, sort_col) /\ j \in 1 .. n /\ k \in 1 .. n
  BY <1>1
<1> QED BY <1>1, <1>2 DEF Falls, Key
=============================================================================
