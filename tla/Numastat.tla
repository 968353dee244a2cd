------------------------------ MODULE Numastat ------------------------------
(***************************************************************************)
(* The numastat command (numastat.c): arguments fill a list of processes,  *)
(* then tables of memory per node are filled from numa_maps of each        *)
(* process and from the nodes' files in sysfs, sorted, and shown folded to *)
(* the width of the screen.  Rows of a table are those of its data area,   *)
(* from 0; column k is that of the k-th node and the last the total.       *)
(* Amounts are numbers of a common unit, texts only have a width.          *)
(***************************************************************************)
EXTENDS Integers, Sequences, FiniteSets, TLC, FiniteSetsExt, SequencesExt, Functions

CONSTANTS
    Worlds,             \* the systems there may be, see World
    Matching,           \* processes that a pattern finds, in the order of /proc
    Hash,               \* hash_ix of each token
    HASH_TABLE_SIZE,
    Unit,               \* multiplier of the value after a token
    PageSize, HugeSize,
    FirstPids,          \* the list has room for twice as many when it is first allocated
    ScreenWidth, HeaderWidth, Wide, Narrow,     \* of screen and columns
    MaxArgs

\* dirs is the order in which the node directories are listed, maps the numa_maps
\* file of each process, files the sysfs file of each node.  A line of maps has a
\* category, a page size or 0, and pages on nodes; a line of files a token, a value
\* and the pages of each size of huge page where the token counts those.
MapsLine(l) ==
    /\ l.cat \in 0 .. 3 /\ l.size \in Nat
    /\ IsFiniteSet(DOMAIN l.pages) /\ \A n \in DOMAIN l.pages : n \in Nat /\ l.pages[n] \in Nat
FileLine(l) ==
    /\ l.tok \in DOMAIN Hash /\ l.val \in Nat
    /\ l.huge \in Seq(Range(l.huge)) /\ \A d \in Range(l.huge) : d.pages \in Nat /\ d.size \in Nat

\* A process has pages on nodes that have a directory, if there are any directories, and no file
\* names a token twice, which hash_insert assumes too.
World(w) ==
    /\ w.dirs \in Seq(Nat) /\ IsInjective(w.dirs)
    /\ DOMAIN w.maps \subseteq Nat
    /\ \A p \in DOMAIN w.maps :
        LET lines == w.maps[p].lines
        IN /\ w.maps[p].state \in {"open", "denied", "gone"}
           /\ lines \in Seq(Range(lines)) /\ \A l \in Range(lines) : MapsLine(l)
           /\ w.dirs # <<>> => \A l \in Range(lines) : DOMAIN l.pages \subseteq Range(w.dirs)
    /\ \A n \in DOMAIN w.files :
        LET lines == w.files[n]
        IN /\ lines \in Seq(Range(lines)) /\ \A l \in Range(lines) : FileLine(l)
           /\ \A j, k \in DOMAIN lines : lines[j].tok = lines[k].tok => j = k

ASSUME NumastatAssumption ==
    /\ \A w \in Worlds : World(w)
    /\ Matching \in Seq(Nat) /\ \A w \in Worlds : Range(Matching) \subseteq DOMAIN w.maps
    /\ \A t \in DOMAIN Hash : Hash[t] \in 0 .. HASH_TABLE_SIZE - 1 /\ Unit[t] \in Nat
    /\ IsFiniteSet(DOMAIN Hash) /\ HASH_TABLE_SIZE \in Nat /\ Cardinality(DOMAIN Hash) < HASH_TABLE_SIZE
    /\ FirstPids \in Nat \ {0} /\ MaxArgs \in Nat /\ PageSize \in Nat /\ HugeSize \in Nat
    /\ ScreenWidth \in Nat /\ HeaderWidth \in Nat /\ Wide \in Nat /\ Narrow \in Nat

PROCESS_MEMINFO_ROWS == 4
PROCESS_HUGE_INDEX == 0
Null == -1                  \* CELL_TYPE_NULL
Rule == -2                  \* CELL_TYPE_REPCHAR

VARIABLES
    world,
    phase,      \* what main does next, or how it ended; "crashed" when memory outside
                \* an array is used
    flags,      \* options: verbose, zero (show_zero_data), sort, node, system, numastat, compress
    list,       \* pid_array, its size and whether it was allocated
    asked,      \* processes asked for
    starved,    \* a realloc has failed
    nodes,      \* node_ix_map
    table,      \* of show_process_info
    ix,         \* pid_ix
    shown,      \* the tables shown
    nargs

vars == <<world, phase, flags, list, asked, starved, nodes, table, ix, shown, nargs>>

NoTable == [cell |-> <<>>, map |-> <<>>, seenR |-> {}, seenC |-> {}, fullR |-> {}, fullC |-> {}]

Init ==
    /\ world \in Worlds /\ phase = "args" /\ nargs = 0
    /\ flags = [verbose |-> FALSE, zero |-> TRUE, sort |-> FALSE, node |-> -1,
                system |-> FALSE, numastat |-> FALSE, compress |-> FALSE]
    /\ list = [pids |-> <<>>, max |-> 0, there |-> FALSE, bad |-> FALSE]
    /\ asked = {} /\ starved = FALSE /\ nodes = <<>> /\ table = NoTable /\ ix = 1 /\ shown = <<>>

\* The numbers of a finite set in order, and the sum of a sequence.
Ascending(S) == CHOOSE s \in [1 .. Cardinality(S) -> S] :
                    Range(s) = S /\ \A j, k \in DOMAIN s : j < k => s[j] < s[k]
Total(s) ==
    LET upto[k \in 0 .. Len(s)] == IF k = 0 THEN 0 ELSE upto[k - 1] + s[k]
    IN upto[Len(s)]

num_nodes == Len(nodes)
num_pids == Len(list.pids)
----------------------------------------------------------------------------
(* The list of processes *)

\* add_pid_to_list: doubles the array when it is full.  A first realloc that fails
\* leaves a size and no array, which the next call writes to.
add_pid_to_list(l, pid, memory) ==
    LET size == IF l.max = 0 THEN FirstPids ELSE l.max
    IN CASE l.bad -> l
         [] ~l.bad /\ Len(l.pids) < l.max ->
                IF l.there THEN [l EXCEPT !.pids = Append(@, pid)] ELSE [l EXCEPT !.bad = TRUE]
         [] ~l.bad /\ Len(l.pids) >= l.max ->
                IF memory THEN [l EXCEPT !.pids = Append(@, pid), !.max = 2 * size, !.there = TRUE]
                          ELSE [l EXCEPT !.max = size]

\* The processes one after the other.
AddAll(l, pids, memory) ==
    LET after[k \in 0 .. Len(pids)] ==
            IF k = 0 THEN l ELSE add_pid_to_list(after[k - 1], pids[k], memory)
    IN after[Len(pids)]

sort_pids_and_remove_duplicates(pids) == Ascending(Range(pids))

Arg == phase = "args" /\ nargs < MaxArgs /\ nargs' = nargs + 1

\* -p and the arguments after the options: a number, or a pattern.
AddPids(pids, memory) ==
    /\ Arg
    /\ list' = AddAll(list, pids, memory)
    /\ phase' = IF list'.bad THEN "crashed" ELSE phase
    /\ asked' = asked \cup Range(pids)
    /\ starved' = (starved \/ (~memory /\ Len(list'.pids) < num_pids + Len(pids)))
    /\ UNCHANGED <<world, flags, nodes, table, ix, shown>>

SetFlags(new) ==
    /\ Arg /\ flags' = new
    /\ UNCHANGED <<world, phase, list, asked, starved, nodes, table, ix, shown>>

Option ==
    \/ SetFlags([flags EXCEPT !.verbose = TRUE])
    \/ SetFlags([flags EXCEPT !.zero = FALSE])
    \/ SetFlags([flags EXCEPT !.compress = TRUE])
    \/ SetFlags([flags EXCEPT !.system = TRUE])
    \/ SetFlags([flags EXCEPT !.numastat = TRUE])
    \/ \E n \in {flags.node} \cup 0 .. 2 : SetFlags([flags EXCEPT !.sort = TRUE, !.node = n])
----------------------------------------------------------------------------
(* Tables *)

Rows(cell) == DOMAIN cell
Cols == 0 .. num_nodes
total_col == num_nodes
Filled(n, v) == [r \in 0 .. n - 1 |-> [c \in Cols |-> v]]

init_table(data_rows) ==
    [NoTable EXCEPT !.cell = Filled(data_rows, Null), !.map = [k \in 1 .. data_rows |-> k - 1]]

\* Mutant: the data of the process before stays.
zero_nothing(cell) == cell

zero_table_data(cell) == [r \in Rows(cell) |-> [c \in Cols |-> 0]]

Number(v) == IF v < 0 THEN 0 ELSE v
double_assign(cell, r, c, v) == [cell EXCEPT ![r][c] = v]
double_addto(cell, r, c, v) == [cell EXCEPT ![r][c] = Number(@) + v]

\* The column of -s<node>; above the last one it lies in another row.
sort_col == IF flags.node < 0 \/ flags.node >= num_nodes THEN total_col ELSE nodes[flags.node + 1]

\* The first of the biggest rows from the i-th to the n-th.
Biggest(map, i, n, cell, col) ==
    CHOOSE k \in i .. n : \A j \in i .. n :
        \/ Number(cell[map[k]][col]) > Number(cell[map[j]][col])
        \/ Number(cell[map[k]][col]) = Number(cell[map[j]][col]) /\ k <= j

\* sort_rows_descending_by_col: the biggest of the rest changes places with the i-th.
sort_rows_descending_by_col(map, n, cell, col) ==
    LET Swap(m, i, b) == [m EXCEPT ![i] = m[b], ![b] = m[i]]
        Step(m, i) == Swap(m, i, Biggest(m, i, n, cell, col))
        after[i \in 0 .. n] == IF i = 0 THEN map ELSE Step(after[i - 1], i)
    IN after[n]

\* The maps there may be after the first n rows were sorted: beyond the last column
\* the cells of other rows, labels and what follows the table are compared.
Sortings(t, n) ==
    IF ~flags.sort THEN {t.map}
    ELSE IF sort_col \in Cols THEN {sort_rows_descending_by_col(t.map, n, t.cell, sort_col)}
    ELSE {[k \in DOMAIN t.map |-> IF k <= n THEN t.map[p[k]] ELSE t.map[k]] : p \in Bijection(1 .. n, 1 .. n)}

\* display_table marks what has data, and never unmarks it.
Marked(t) ==
    LET cell == t.cell
        data(r, c) == cell[r][c] >= 0
    IN [t EXCEPT !.seenR = @ \cup {r \in Rows(cell) : \E c \in Cols : data(r, c)},
                 !.seenC = @ \cup {c \in Cols : \E r \in Rows(cell) : data(r, c)},
                 !.fullR = @ \cup {r \in Rows(cell) : \E c \in Cols : cell[r][c] > 0},
                 !.fullC = @ \cup {c \in Cols : \E r \in Rows(cell) : cell[r][c] > 0}]

ShownCols(t) == {c \in t.seenC : flags.zero \/ c \in t.fullC}

\* The row of dashes is always shown.
ShownRows(t) ==
    {r \in Range(t.map) :
        t.cell[r][0] = Rule \/ (r \in t.seenR /\ (flags.zero \/ r \in t.fullR))}

Longer(acc, c, width) == [acc EXCEPT !.width = @ + width[c], !.lines[Len(acc.lines)] = Append(@, c)]
Section(acc, c, width) ==
    [open |-> TRUE, width |-> HeaderWidth + width[c], lines |-> Append(acc.lines, <<c>>)]

\* Mutant: the column that does not fit is dropped.
FoldStepLost(acc, c, width, cols) ==
    LET open == acc.open /\ acc.width + width[c] <= ScreenWidth
    IN IF c \notin cols \/ (acc.open /\ ~open) THEN [acc EXCEPT !.open = open]
       ELSE IF open THEN Longer(acc, c, width) ELSE Section(acc, c, width)

\* One column: a section ends before the column that does not fit, shown or not,
\* and the next begins with the next shown one.
FoldStep(acc, c, width, cols) ==
    LET open == acc.open /\ acc.width + width[c] <= ScreenWidth
    IN IF c \notin cols THEN [acc EXCEPT !.open = open]
       ELSE IF open THEN Longer(acc, c, width) ELSE Section(acc, c, width)

Folded(cols, width) ==
    LET after[k \in 0 .. num_nodes + 1] ==
            IF k = 0 THEN [open |-> FALSE, width |-> 0, lines |-> <<>>]
            ELSE FoldStep(after[k - 1], k - 1, width, cols)
    IN after[num_nodes + 1].lines

\* display_table; nothing but a message when there is nothing to show.  The rows are
\* shown in the order of the index.
display_table(kind, pid, t, width) ==
    LET some == \E r \in Rows(t.cell), c \in Cols : t.cell[r][c] >= 0
        more == \E r \in Rows(t.cell), c \in Cols : t.cell[r][c] > 0
        quiet == ~some \/ (~more /\ ~flags.zero)
    IN [kind |-> kind, pid |-> pid, cell |-> t.cell, width |-> width,
        lines |-> IF quiet THEN <<>> ELSE Folded(ShownCols(t), width),
        rows |-> IF quiet THEN {} ELSE ShownRows(t), order |-> t.map]

\* set_col_width, and auto_set_col_width with -c.  Without arguments the column of
\* totals has no width.
Widths ==
    IF nargs = 0 THEN {[c \in Cols |-> IF c = total_col THEN 0 ELSE Wide]}
    ELSE [Cols -> IF flags.compress THEN {Narrow, Wide} ELSE {Wide}]
----------------------------------------------------------------------------
(* show_process_info *)

show_sub_categories == flags.verbose \/ num_pids = 1
data_rows == IF show_sub_categories THEN PROCESS_MEMINFO_ROWS ELSE num_pids
total_row == data_rows + 1

Amount(line, n) ==
    line.pages[n] * (IF line.size # 0 THEN line.size
                     ELSE IF line.cat = PROCESS_HUGE_INDEX THEN HugeSize ELSE PageSize)

\* One node of one line: its cell, both totals and the total of totals.
AddAmount(cell, row, n, v) ==
    LET col == CHOOSE k \in DOMAIN nodes : nodes[k] = n
    IN double_addto(double_addto(double_addto(double_addto(
            cell, row, col - 1, v), row, total_col, v), total_row, col - 1, v),
            total_row, total_col, v)

RowOf(line) == IF show_sub_categories THEN line.cat ELSE ix - 1

AddLine(cell, line) ==
    LET on == Ascending(DOMAIN line.pages)
        after[k \in 0 .. Len(on)] ==
            IF k = 0 THEN cell ELSE AddAmount(after[k - 1], RowOf(line), on[k], Amount(line, on[k]))
    IN after[Len(on)]

AddLines(cell, lines) ==
    LET after[k \in 0 .. Len(lines)] == IF k = 0 THEN cell ELSE AddLine(after[k - 1], lines[k])
    IN after[Len(lines)]

\* node_ix_map is searched without an end.
Unmapped(lines) == \E k \in DOMAIN lines : ~(DOMAIN lines[k].pages \subseteq Range(nodes))

\* Mutant: the table is shown one process early.
ShowsEarly == show_sub_categories \/ ix = num_pids - 1

ShowsNow == show_sub_categories \/ ix = num_pids

Skip(cell) ==
    /\ table' = [table EXCEPT !.cell = cell] /\ ix' = ix + 1
    /\ UNCHANGED <<phase, shown>>
Stop(how) == phase' = how /\ UNCHANGED <<table, ix, shown>>

\* One turn of the loop over the processes.
ShowPid ==
    /\ phase = "pids" /\ ix <= num_pids
    /\ LET file == world.maps[list.pids[ix]]
           clean == IF show_sub_categories /\ ix > 1 THEN zero_table_data(table.cell)
                                                     ELSE table.cell
           cell == AddLines(clean, file.lines)
           ruled == [cell EXCEPT ![data_rows] = [c \in Cols |-> Rule]]
           known == file.state = "open" /\ ~Unmapped(file.lines)
       IN \/ file.state = "gone" /\ Skip(clean)
          \/ file.state = "denied" /\ Stop("failed")
          \/ file.state = "open" /\ Unmapped(file.lines) /\ Stop("crashed")
          \/ known /\ ~ShowsNow /\ Skip(cell)
          \/ known /\ ShowsNow /\
                \E map \in Sortings([table EXCEPT !.cell = ruled], data_rows), width \in Widths :
                    LET t == Marked([table EXCEPT !.cell = ruled, !.map = map])
                    IN /\ table' = t /\ ix' = ix + 1
                       /\ shown' = Append(shown, display_table("process", list.pids[ix], t, width))
                       /\ UNCHANGED phase
    /\ UNCHANGED <<world, flags, list, asked, starved, nodes, nargs>>
----------------------------------------------------------------------------
(* show_info_from_system_file *)

\* Slots from that of the token on, in the order in which they are probed.
Probe(tok) == [k \in 1 .. HASH_TABLE_SIZE |-> (Hash[tok] + k - 1) % HASH_TABLE_SIZE]

hash_insert(h, tok, row) ==
    LET free == {k \in 1 .. HASH_TABLE_SIZE : Probe(tok)[k] \notin DOMAIN h}
        slot == Probe(tok)[Min(free)]
    IN [s \in DOMAIN h \cup {slot} |-> IF s = slot THEN [name |-> tok, index |-> row] ELSE h[s]]

\* Mutant: the first slot decides.
LookupFirst(h, tok) == IF Hash[tok] \in DOMAIN h THEN h[Hash[tok]].index ELSE -1

hash_lookup(h, tok) ==
    LET free == {k \in 1 .. HASH_TABLE_SIZE : Probe(tok)[k] \notin DOMAIN h}
        hits == {k \in 1 .. Min(free) - 1 : h[Probe(tok)[k]].name = tok}
    IN IF hits = {} THEN -1 ELSE h[Probe(tok)[Min(hits)]].index

\* The lines of the first node name the rows.
RowHash(lines) ==
    LET after[k \in 0 .. Len(lines)] ==
            IF k = 0 THEN [s \in {} |-> {}] ELSE hash_insert(after[k - 1], lines[k].tok, k - 1)
    IN after[Len(lines)]

\* Memory in huge pages of all sizes; none where the directory cannot be read.
update_hugepages_info(huge) == Total([k \in DOMAIN huge |-> huge[k].pages * huge[k].size])

Value(line) ==
    LET new == update_hugepages_info(line.huge)
    IN IF nargs = 0 THEN line.val ELSE IF new > 0 THEN new ELSE line.val * Unit[line.tok]

Put(cell, row, k, v) ==
    IF row < 0 THEN cell
    ELSE double_addto(double_assign(cell, row, k - 1, v), row, total_col, v)

AddFile(cell, k, h) ==
    LET lines == world.files[nodes[k]]
        after[j \in 0 .. Len(lines)] ==
            IF j = 0 THEN cell
            ELSE Put(after[j - 1], hash_lookup(h, lines[j].tok), k, Value(lines[j]))
    IN after[Len(lines)]

AddFiles(cell, h) ==
    LET after[k \in 0 .. num_nodes] == IF k = 0 THEN cell ELSE AddFile(after[k - 1], k, h)
    IN after[num_nodes]

\* All nodes must have their file.
show_info_from_system_file(kind, next) ==
    IF ~(Range(nodes) \subseteq DOMAIN world.files) THEN Stop("failed")
    ELSE LET first == world.files[nodes[1]]
             t == [init_table(Len(first)) EXCEPT !.cell = AddFiles(@, RowHash(first))]
         IN /\ \E map \in Sortings(t, Len(first)), width \in Widths :
                shown' = Append(shown, display_table(kind, 0, Marked([t EXCEPT !.map = map]), width))
            /\ phase' = next
            /\ UNCHANGED <<table, ix>>
----------------------------------------------------------------------------
(* main *)

\* The arguments are used up: init_node_ix_map_and_header, and the list is put in order.
Begin ==
    /\ phase = "args"
    /\ LET pids == sort_pids_and_remove_duplicates(list.pids)
           sub == flags.verbose \/ Len(pids) = 1
       IN /\ list' = [list EXCEPT !.pids = pids]
          /\ IF world.dirs = <<>>
             THEN phase' = "failed" /\ UNCHANGED <<nodes, table>>
             ELSE /\ nodes' = Ascending(Range(world.dirs))
                  /\ phase' = IF pids = <<>> THEN "system" ELSE "pids"
                  /\ table' = IF pids = <<>> THEN table
                              ELSE LET n == (IF sub THEN PROCESS_MEMINFO_ROWS ELSE Len(pids)) + 2
                                   IN [NoTable EXCEPT
                                        !.cell = [r \in 0 .. n - 1 |-> [c \in 0 .. Len(world.dirs) |-> 0]],
                                        !.map = [k \in 1 .. n |-> k - 1]]
    /\ UNCHANGED <<world, flags, asked, starved, ix, shown, nargs>>

EndPids ==
    /\ phase = "pids" /\ ix > num_pids /\ phase' = "system"
    /\ UNCHANGED <<world, flags, list, asked, starved, nodes, table, ix, shown, nargs>>

\* -m, then -n or nothing else asked for.
ShowSystem ==
    /\ phase = "system"
    /\ IF flags.system THEN show_info_from_system_file("meminfo", "numastat")
                       ELSE phase' = "numastat" /\ UNCHANGED <<table, ix, shown>>
    /\ UNCHANGED <<world, flags, list, asked, starved, nodes, nargs>>

ShowNumastat ==
    /\ phase = "numastat"
    /\ IF flags.numastat \/ (num_pids = 0 /\ ~flags.system)
       THEN show_info_from_system_file("numastat", "done")
       ELSE phase' = "done" /\ UNCHANGED <<table, ix, shown>>
    /\ UNCHANGED <<world, flags, list, asked, starved, nodes, nargs>>

\* The system changes meanwhile: nodes are added, memory moves, processes end.
HotAdd ==
    /\ phase \in {"args", "pids"}
    /\ \E w \in Worlds \ {world} :
            /\ Range(world.dirs) \subseteq Range(w.dirs)
            /\ DOMAIN w.maps = DOMAIN world.maps
            /\ \A p \in DOMAIN w.maps : world.maps[p].state = "gone" => w.maps[p].state = "gone"
            /\ world' = w
    /\ UNCHANGED <<phase, flags, list, asked, starved, nodes, table, ix, shown, nargs>>

Next ==
    \/ \E pid \in DOMAIN world.maps, memory \in BOOLEAN : AddPids(<<pid>>, memory)
    \/ \E memory \in BOOLEAN : AddPids(Matching, memory)
    \/ Option \/ Begin \/ ShowPid \/ EndPids \/ ShowSystem \/ ShowNumastat \/ HotAdd

Spec == Init /\ [][Next]_vars
----------------------------------------------------------------------------
(* Properties *)

Process(s) == s.kind = "process"
Tables == Range(shown)

\* The list that is worked through has each process once, in order, and all that were
\* asked for unless memory ran out (numastat.c:1276-1318); without a failed realloc
\* no process number is written to an array that is not there.
PidListRight ==
    /\ phase \in {"pids", "system", "numastat", "done"} =>
        /\ \A j, k \in 1 .. num_pids : j < k => list.pids[j] < list.pids[k]
        /\ Range(list.pids) \subseteq asked
        /\ ~starved => Range(list.pids) = asked
    /\ list.bad => starved

\* What a process has on a node in some categories; f on the node of a column, or on all.
Used(pid, n, cats) ==
    LET lines == world.maps[pid].lines
    IN Total([k \in 1 .. Len(lines) |->
                IF n \in DOMAIN lines[k].pages /\ lines[k].cat \in cats THEN Amount(lines[k], n) ELSE 0])
OnNode(c, f) == IF c = total_col THEN Total([k \in 1 .. num_nodes |-> f[nodes[k]]]) ELSE f[nodes[c + 1]]
UsedOn(pid, c, cats) == OnNode(c, [n \in Range(nodes) |-> Used(pid, n, cats)])

Readable(pid) == world.maps[pid].state = "open"

\* Each process read adds to a table exactly what its numa_maps says at that moment: its
\* own cells, whatever was shown before, and the totals of rows and columns always agree
\* with the cells (numastat.c:1006-1009, 1088-1091).
ProcessTableRight ==
    [][ phase = "pids" /\ ix' = ix + 1 /\ Readable(list.pids[ix]) =>
        LET t == table'.cell
            pid == list.pids[ix]
        IN /\ \A c \in Cols : t[total_row][c] = Total([r \in 1 .. data_rows |-> t[r - 1][c]])
           /\ IF show_sub_categories
              THEN \A r \in 0 .. 3, c \in Cols : t[r][c] = UsedOn(pid, c, {r})
              ELSE \A r \in 0 .. num_pids - 1, c \in Cols :
                        t[r][c] = IF r = ix - 1 THEN UsedOn(pid, c, 0 .. 3) ELSE table.cell[r][c]
           /\ shown' # shown => Last(shown').cell = t
      ]_vars

\* Every process that can be read is shown, except that a common table is lost when
\* the last process cannot be read (numastat.c:1030, 1110).
EveryPidShown ==
    phase = "system" /\ num_pids > 0 /\ (show_sub_categories \/ Readable(Last(list.pids))) =>
        IF show_sub_categories
        THEN \A k \in 1 .. num_pids : Readable(list.pids[k]) => \E s \in Tables : s.pid = list.pids[k]
        ELSE \E s \in Tables : Process(s)

\* Whoever was asked for is worked through once and shown.
PidsRight == PidListRight /\ EveryPidShown

\* What the file of a node says of a token, 0 when it says nothing.
ValueOf(n, tok) ==
    LET at == {k \in DOMAIN world.files[n] : world.files[n][k].tok = tok}
    IN IF at = {} THEN 0 ELSE Value(world.files[n][CHOOSE k \in at : TRUE])

\* A table from sysfs has the value of each node for each row of the first node, however
\* the files order their lines and whichever tokens share a slot of the hash table
\* (numastat.c:116-144, 910-911).
SystemTableRight ==
    \A s \in Tables : ~Process(s) =>
        LET first == world.files[nodes[1]]
        IN \A r \in 0 .. Len(first) - 1, c \in Cols :
                Number(s.cell[r][c]) = OnNode(c, [n \in Range(nodes) |-> ValueOf(n, first[r + 1].tok)])

\* However a table is folded, each section is within the screen or one column, every
\* column shown is in one section, in order, and no row or column with an amount is left out
\* (numastat.c:493-599), also with -z.
DisplayComplete ==
    \A s \in Tables : s.lines # <<>> =>
        /\ \A k \in DOMAIN s.lines :
            LET line == s.lines[k]
            IN Len(line) = 1 \/ HeaderWidth + Total([i \in 1 .. Len(line) |-> s.width[line[i]]]) <= ScreenWidth
        /\ \A j, k \in DOMAIN s.lines : \A a \in DOMAIN s.lines[j], b \in DOMAIN s.lines[k] :
            j < k \/ (j = k /\ a < b) => s.lines[j][a] < s.lines[k][b]
        /\ \A r \in Rows(s.cell), c \in Cols :
            s.cell[r][c] > 0 \/ (flags.zero /\ s.cell[r][c] = 0)
                => /\ \E k \in DOMAIN s.lines : c \in Range(s.lines[k])
                   /\ r \in s.rows /\ r \in Range(s.order)

\* With -s the rows of a table come in descending order of the column asked for, the total
\* without a node (numastat.c:290-310).  Only where nodes are numbered without holes:
\* elsewhere the number of the node is used as an index of the nodes there are, and what it
\* finds there as a column (numastat.c:1133), against numastat.8:96.
SortedAsAsked ==
    flags.sort /\ (\A k \in DOMAIN nodes : nodes[k] = k - 1) => \A s \in Tables :
        LET data == {k \in DOMAIN s.order : ~Process(s) \/ s.order[k] < data_rows}
            col == IF flags.node \in 0 .. num_nodes - 1 THEN flags.node ELSE total_col
        IN \A j, k \in data :
                j < k => Number(s.cell[s.order[j]][col]) >= Number(s.cell[s.order[k]][col])

\* What is printed of a table is all of it, and in the order asked for where nodes have no holes.
PrintedRight == DisplayComplete /\ SortedAsAsked

\* No column and no row of a table that is shown has zeros only; the row of dashes apart.
NoZeros(s) ==
    /\ \A k \in DOMAIN s.lines : \A c \in Range(s.lines[k]) : \E r \in Rows(s.cell) : s.cell[r][c] > 0
    /\ \A r \in s.rows : s.cell[r][0] = Rule \/ \E c \in Cols : s.cell[r][c] > 0

\* With -z rows and columns of zeros are left out of every table from sysfs and of the first one
\* of processes (numastat.c:505-516, 533-551); the marks of a table that is used again stay from
\* process to process (numastat.c:505-516, 1008), although numastat.8:114 speaks of every table.
ZerosHidden ==
    ~flags.zero => \A k \in DOMAIN shown : k = 1 \/ ~Process(shown[k]) => NoZeros(shown[k])

\* Memory outside an array is used only after a realloc failed or when the nodes are no
\* longer those that were listed at the start (numastat.c:1085, 1284).
CrashExplained == phase = "crashed" => starved \/ Range(nodes) # Range(world.dirs)

\* Each table is shown whole; in the order asked for where nodes are numbered without holes;
\* without zeros under -z unless it is a later one of several processes; and the command ends
\* early in a crash for no other reason than those two.
ShownRight == PrintedRight /\ ZerosHidden /\ CrashExplained
----------------------------------------------------------------------------
(* The inductive invariants behind the theorems of NumastatProofs. *)

\* Once the array was allocated, or before it was first needed, a process can be added.
Sane(l) == ~l.bad /\ (l.there \/ l.max = 0)

Listed ==
    /\ list \in [pids : Seq(Nat), max : Nat, there : BOOLEAN, bad : BOOLEAN]
    /\ Range(list.pids) \subseteq asked /\ asked \subseteq DOMAIN world.maps
    /\ ~starved => Sane(list) /\ Range(list.pids) = asked
    /\ phase \in {"pids", "system", "numastat", "done"} =>
          \A j, k \in 1 .. num_pids : j < k => list.pids[j] < list.pids[k]

\* A process that was passed by without a table has ended, and stays so.
ShownSoFar ==
    /\ world \in Worlds /\ shown \in Seq(Tables)
    /\ ix \in Nat \ {0} /\ (phase = "args" => ix = 1)
    /\ phase \in {"pids", "system"} =>
          /\ ix <= num_pids + 1
          /\ phase = "system" /\ num_pids > 0 => ix = num_pids + 1
          /\ show_sub_categories => \A k \in 1 .. ix - 1 :
                \/ world.maps[list.pids[k]].state = "gone"
                \/ \E s \in Tables : s.pid = list.pids[k]
          /\ ~show_sub_categories /\ ix = num_pids + 1 /\ num_pids > 0 =>
                \/ world.maps[Last(list.pids)].state = "gone"
                \/ \E s \in Tables : Process(s)

PidInv == Listed /\ ShownSoFar

FlagsRight ==
    /\ flags \in [verbose : BOOLEAN, zero : BOOLEAN, sort : BOOLEAN, node : Int,
                  system : BOOLEAN, numastat : BOOLEAN, compress : BOOLEAN]
    /\ flags.node >= -1 /\ nargs \in Nat

NodesRight ==
    /\ nodes \in Seq(Nat) /\ \A j, k \in 1 .. num_nodes : j < k => nodes[j] < nodes[k]
    /\ phase = "args" => nodes = <<>> /\ shown = <<>>
    /\ phase \in {"pids", "system", "numastat"} => nodes # <<>>
    /\ phase = "pids" => Range(nodes) \subseteq Range(world.dirs)

\* Amounts are not negative, and their totals are kept with them.
Cells == [0 .. total_row -> [Cols -> Int]]
Summed(cell) ==
    /\ \A r \in (0 .. data_rows - 1) \cup {total_row}, c \in Cols : cell[r][c] >= 0
    /\ \A c \in Cols : cell[total_row][c] = Total([r \in 1 .. data_rows |-> cell[r - 1][c]])
    /\ \A r \in 0 .. data_rows - 1 : cell[r][total_col] = Total([k \in 1 .. num_nodes |-> cell[r][k - 1]])

\* The table of one process is cleared before the next; in a common one the rows to come are 0.
CellsRight ==
    phase = "pids" =>
        /\ table.cell \in Cells
        /\ ix <= num_pids /\ (show_sub_categories => ix = 1) =>
              /\ Summed(table.cell)
              /\ \A r \in 0 .. data_rows - 1, c \in Cols :
                    show_sub_categories \/ r >= ix - 1 => table.cell[r][c] = 0

\* Sorting moves the rows of data only.
OrderRight(map, n) ==
    /\ \A k \in 1 .. n : map[k] \in 0 .. n - 1
    /\ \A r \in 0 .. n - 1 : \E k \in 1 .. n : map[k] = r
MapRight ==
    phase = "pids" =>
        /\ table \in [cell : Cells, map : Seq(Nat), seenR : SUBSET Nat, seenC : SUBSET Cols,
                      fullR : SUBSET Nat, fullC : SUBSET Cols]
        /\ Len(table.map) = data_rows + 2 /\ OrderRight(table.map, data_rows)
        /\ table.map[data_rows + 1] = data_rows /\ table.map[data_rows + 2] = total_row

\* Nothing is marked in the table of processes before it is first shown.
MarksClear == phase = "pids" /\ shown = <<>> => table.fullR = {} /\ table.fullC = {}

TableInv ==
    /\ PidInv /\ FlagsRight /\ NodesRight /\ CellsRight /\ MapRight
    /\ phase \in {"args", "pids"} => \A s \in Tables : Process(s)
    /\ SystemTableRight /\ PrintedRight
=============================================================================
