--------------------------- MODULE DistanceTable ---------------------------
(***************************************************************************)
(* The cached distance table of libnuma (distance.c): numa_distance fills  *)
(* it from sysfs on first use, without a lock.  Any number of threads may  *)
(* be in numa_distance at once, nodes come and go, files cannot be opened, *)
(* memory runs out.  A distance is abstracted to the pair of nodes whose   *)
(* distance the kernel printed; None is the 0 of a cell never written and  *)
(* of "cannot be determined".                                              *)
(***************************************************************************)
EXTENDS Integers, FiniteSets

CONSTANTS Threads,
          MaxNode,      \* numa_max_node(), fixed at numa_init
          Known,        \* numa_nodes_ptr: the nodes sysfs showed at numa_init
          Args,         \* what callers pass as node numbers
          MaxFile,      \* bound on the node numbers sysfs can ever show
          Tables,       \* addresses of calloc'ed tables
          NULL,
          StoreReorder, \* the two stores of the publication may be seen in any order
          HotAdd,       \* nodes may appear after numa_init
          HotRemove,    \* nodes may disappear after numa_init
          MaxCalls      \* bound on the calls of one thread

ASSUME ConstantsAssumption ==
    /\ IsFiniteSet(Threads) /\ Threads # {}
    /\ MaxNode \in Nat /\ MaxFile \in Nat /\ MaxNode <= MaxFile
    /\ Known \subseteq 0 .. MaxNode /\ MaxNode \in Known
    /\ NULL \notin Tables
    /\ Args \subseteq Int /\ 0 \in Args
    /\ StoreReorder \in BOOLEAN /\ HotAdd \in BOOLEAN /\ HotRemove \in BOOLEAN
    /\ MaxCalls \in Nat

Width == MaxNode + 1                    \* `maxnode' in read_distance_table
Files == 0 .. MaxFile
None == <<>>
Values == {None} \cup (Files \X Files)
Cells == 0 .. Width * Width - 1
BlankTable == [i \in Cells |-> None]

PCs == {"idle", "test", "open", "finish", "store", "recheck", "bounds",
        "index", "done", "crashed"}

VARIABLES
    online,      \* nodes that have a sysfs directory now
    numnodes,    \* distance_numnodes
    table,       \* distance_table
    heap,        \* the cells of every table
    live,        \* allocated tables
    unloaded,    \* the destructor has run
    oob,         \* history: a write went past the end of a table
    failed,      \* history: an open, a read or a calloc failed, or a node was missing
    pc, a, b,    \* the arguments of numa_distance
    nd, err, tab,\* locals of read_distance_table; err: no ENOENT yet
    todo,        \* the stores of the publication still to be seen
    value,       \* what numa_distance returned
    calls

sysfs == <<online, failed>>
globals == <<numnodes, table, heap, live, unloaded, oob>>
args == <<a, b, calls>>
reader == <<nd, err, tab, todo>>
vars == <<sysfs, globals, pc, args, reader, value>>

Init ==
    /\ online = Known
    /\ numnodes = 0 /\ table = NULL
    /\ heap = [x \in Tables |-> BlankTable]
    /\ live = {} /\ unloaded = FALSE /\ oob = FALSE /\ failed = FALSE
    /\ pc = [t \in Threads |-> "idle"]
    /\ a = [t \in Threads |-> 0] /\ b = [t \in Threads |-> 0]
    /\ nd = [t \in Threads |-> 0]
    /\ err = [t \in Threads |-> TRUE]
    /\ tab = [t \in Threads |-> NULL]
    /\ todo = [t \in Threads |-> {}]
    /\ value = [t \in Threads |-> None]
    /\ calls = [t \in Threads |-> 0]

----------------------------------------------------------------------------
(* The environment: node hotplug, and the library's destructor. *)

NodeAppears(n) ==
    /\ HotAdd /\ n \notin online
    /\ online' = online \cup {n}
    /\ UNCHANGED <<failed, globals, pc, args, reader, value>>

NodeDisappears(n) ==
    /\ HotRemove /\ n \in online /\ n # 0
    /\ online' = online \ {n}
    /\ UNCHANGED <<failed, globals, pc, args, reader, value>>

Numa_distance_cleanup ==
    /\ ~unloaded /\ \A t \in Threads : pc[t] = "idle"
    /\ unloaded' = TRUE
    /\ live' = live \ {table}
    /\ heap' = [x \in Tables |-> IF x = table THEN BlankTable ELSE heap[x]]
    /\ table' = NULL
    /\ numnodes' = 0
    /\ UNCHANGED <<oob, sysfs, pc, args, reader, value>>

----------------------------------------------------------------------------
(* parse_numbers: the k-th number of a line is for the k-th node the kernel  *)
(* has online, and goes to the column of the k-th node known at numa_init;   *)
(* numbers left over go to the columns after the last, at most Width in all. *)

Rank(S, n) == Cardinality({m \in S : m < n})

\* Mutant: the columns of unavailable nodes are not skipped.
ColumnNoSkip(o) == Rank(online, o)

Column(o) ==
    IF Rank(online, o) < Cardinality(Known)
    THEN CHOOSE j \in Known : Rank(Known, j) = Rank(online, o)
    ELSE Width + Rank(online, o) - Cardinality(Known)

Printed == {o \in online : Rank(online, o) < Width}

Target(row, o) == row * Width + Column(o)

\* Table f after the line of node `row' was parsed into it.
Parse_numbers(f, row) ==
    [i \in Cells |->
        IF \E o \in Printed : Target(row, o) = i
        THEN <<row, CHOOSE o \in Printed : Target(row, o) = i>>
        ELSE f[i]]

Overruns(row) == \E o \in Printed : Target(row, o) \notin Cells

----------------------------------------------------------------------------
(* read_distance_table and numa_distance. *)

Goto(t, from, to) == pc[t] = from /\ pc' = [pc EXCEPT ![t] = to]

Numa_distance(t, x, y) ==
    /\ Goto(t, "idle", "test")
    /\ ~unloaded /\ calls[t] < MaxCalls
    /\ calls' = [calls EXCEPT ![t] = @ + 1]
    /\ a' = [a EXCEPT ![t] = x] /\ b' = [b EXCEPT ![t] = y]
    /\ UNCHANGED <<sysfs, globals, reader, value>>

TestTable(t) ==
    /\ Goto(t, "test", IF table = NULL THEN "open" ELSE "bounds")
    /\ nd' = [nd EXCEPT ![t] = 0]
    /\ err' = [err EXCEPT ![t] = TRUE]
    /\ tab' = [tab EXCEPT ![t] = NULL]
    /\ UNCHANGED <<sysfs, globals, args, todo, value>>

NextRow(t) == nd' = [nd EXCEPT ![t] = @ + 1]

\* fopen says ENOENT: from now on holes are expected, below maxnode.
RowAbsent(t) ==
    /\ pc[t] = "open" /\ nd[t] \notin online
    /\ err' = [err EXCEPT ![t] = FALSE]
    /\ failed' = (failed \/ nd[t] \in Known)
    /\ IF nd[t] < Width THEN NextRow(t) /\ UNCHANGED pc
                        ELSE Goto(t, "open", "finish") /\ UNCHANGED nd
    /\ UNCHANGED <<online, globals, args, tab, todo, value>>

\* Mutant: the scan starts over when a file cannot be opened.
RowUnopenableRescan(t) ==
    /\ pc[t] = "open" /\ nd[t] \in online
    /\ failed' = TRUE
    /\ nd' = [nd EXCEPT ![t] = 0]
    /\ UNCHANGED <<online, globals, pc, args, err, tab, todo, value>>

\* fopen fails in another way: skipped after a hole, the end of it before one.
RowUnopenable(t) ==
    /\ pc[t] = "open" /\ nd[t] \in online
    /\ failed' = TRUE
    /\ IF ~err[t] /\ nd[t] < Width THEN NextRow(t) /\ UNCHANGED pc
                                   ELSE Goto(t, "open", "finish") /\ UNCHANGED nd
    /\ UNCHANGED <<online, globals, args, err, tab, todo, value>>

\* An empty read, or no memory for the table: the loop ends.
RowUnreadable(t) ==
    /\ Goto(t, "open", "finish")
    /\ nd[t] \in online
    /\ failed' = TRUE
    /\ UNCHANGED <<online, globals, args, reader, value>>

\* Mutant: the table is published as soon as it is allocated.
RowParsedEarly(t, x) ==
    /\ pc[t] = "open" /\ nd[t] \in online
    /\ IF tab[t] = NULL THEN x \notin live ELSE x = tab[t]
    /\ tab' = [tab EXCEPT ![t] = x]
    /\ live' = live \cup {x}
    /\ LET old == IF tab[t] = NULL THEN BlankTable ELSE heap[x]
       IN  heap' = [heap EXCEPT ![x] = Parse_numbers(old, nd[t])]
    /\ table' = x
    /\ NextRow(t)
    /\ UNCHANGED <<sysfs, numnodes, unloaded, oob, pc, args, err, todo, value>>

\* The line is read and parsed, into a table calloc'ed for the first one.
RowParsed(t, x) ==
    /\ pc[t] = "open" /\ nd[t] \in online
    /\ IF tab[t] = NULL THEN x \notin live ELSE x = tab[t]
    /\ tab' = [tab EXCEPT ![t] = x]
    /\ live' = live \cup {x}
    /\ LET old == IF tab[t] = NULL THEN BlankTable ELSE heap[x]
       IN  heap' = [heap EXCEPT ![x] = Parse_numbers(old, nd[t])]
    /\ oob' = (oob \/ Overruns(nd[t]))
    /\ NextRow(t)
    /\ UNCHANGED <<sysfs, numnodes, table, unloaded, pc, args, err, todo, value>>

\* free(table), which may be NULL.  Freed memory is blanked: nobody reads it.
DropTable(t) ==
    /\ live' = live \ {tab[t]}
    /\ heap' = [x \in Tables |-> IF x = tab[t] THEN BlankTable ELSE heap[x]]
    /\ tab' = [tab EXCEPT ![t] = NULL]

Answer(t, from, v) ==
    /\ Goto(t, from, "done")
    /\ value' = [value EXCEPT ![t] = v]

\* Mutant: the half-filled table is not freed.
GiveUpLeak(t) ==
    /\ Answer(t, "finish", None)
    /\ err[t]
    /\ tab' = [tab EXCEPT ![t] = NULL]
    /\ UNCHANGED <<sysfs, globals, args, nd, err, todo>>

\* err is still set: free the table and answer 0.
GiveUp(t) ==
    /\ Answer(t, "finish", None)
    /\ err[t]
    /\ DropTable(t)
    /\ UNCHANGED <<sysfs, numnodes, table, unloaded, oob, args, nd, err, todo>>

\* Mutant: the wrong table is freed.
LostRaceFreesOther(t) ==
    /\ Goto(t, "finish", "recheck")
    /\ ~err[t] /\ table # NULL
    /\ live' = live \ {table}
    /\ tab' = [tab EXCEPT ![t] = NULL]
    /\ UNCHANGED <<sysfs, numnodes, table, heap, unloaded, oob, args, nd, err, todo, value>>

\* Another thread was faster.
LostRace(t) ==
    /\ Goto(t, "finish", "recheck")
    /\ ~err[t] /\ table # NULL
    /\ DropTable(t)
    /\ UNCHANGED <<sysfs, numnodes, table, unloaded, oob, args, nd, err, todo, value>>

WonRace(t) ==
    /\ Goto(t, "finish", "store")
    /\ ~err[t] /\ table = NULL
    /\ todo' = [todo EXCEPT ![t] = {"numnodes", "table"}]
    /\ UNCHANGED <<sysfs, globals, args, nd, err, tab, value>>

\* Mutant: the highest node number instead of the number of nodes.
StoreNumnodesShort(t) ==
    /\ pc[t] = "store" /\ "numnodes" \in todo[t]
    /\ numnodes' = MaxNode
    /\ todo' = [todo EXCEPT ![t] = @ \ {"numnodes"}]
    /\ UNCHANGED <<sysfs, table, heap, live, unloaded, oob, pc, args, nd, err, tab, value>>

\* The two plain stores of the publication.
StoreNumnodes(t) ==
    /\ pc[t] = "store" /\ "numnodes" \in todo[t]
    /\ numnodes' = Width
    /\ todo' = [todo EXCEPT ![t] = @ \ {"numnodes"}]
    /\ UNCHANGED <<sysfs, table, heap, live, unloaded, oob, pc, args, nd, err, tab, value>>

\* Mutant: the old table is taken away first.
StoreTableTwice(t) ==
    /\ pc[t] = "store" /\ "table" \in todo[t]
    /\ StoreReorder \/ "numnodes" \notin todo[t]
    /\ IF table # NULL
       THEN table' = NULL /\ UNCHANGED <<tab, todo>>
       ELSE /\ table' = tab[t]
            /\ tab' = [tab EXCEPT ![t] = NULL]
            /\ todo' = [todo EXCEPT ![t] = @ \ {"table"}]
    /\ UNCHANGED <<sysfs, numnodes, heap, live, unloaded, oob, pc, args, nd, err, value>>

StoreTable(t) ==
    /\ pc[t] = "store" /\ "table" \in todo[t]
    /\ StoreReorder \/ "numnodes" \notin todo[t]
    /\ table' = tab[t]
    /\ tab' = [tab EXCEPT ![t] = NULL]
    /\ todo' = [todo EXCEPT ![t] = @ \ {"table"}]
    /\ UNCHANGED <<sysfs, numnodes, heap, live, unloaded, oob, pc, args, nd, err, value>>

EndStore(t) ==
    /\ Goto(t, "store", "recheck")
    /\ todo[t] = {}
    /\ UNCHANGED <<sysfs, globals, args, reader, value>>

\* Back in numa_distance: every node may have been missing.
StillNoTable(t) ==
    /\ Answer(t, "recheck", None)
    /\ table = NULL
    /\ UNCHANGED <<sysfs, globals, args, reader>>

HaveTable(t) ==
    /\ Goto(t, "recheck", "bounds")
    /\ table # NULL
    /\ UNCHANGED <<sysfs, globals, args, reader, value>>

InTable(x) == x \in 0 .. numnodes - 1

OutOfRange(t) ==
    /\ Answer(t, "bounds", None)
    /\ ~(InTable(a[t]) /\ InTable(b[t]))
    /\ UNCHANGED <<sysfs, globals, args, reader>>

InRange(t) ==
    /\ Goto(t, "bounds", "index")
    /\ InTable(a[t]) /\ InTable(b[t])
    /\ UNCHANGED <<sysfs, globals, args, reader, value>>

Index(t) ==
    /\ table # NULL
    /\ Answer(t, "index", heap[table][a[t] * numnodes + b[t]])
    /\ UNCHANGED <<sysfs, globals, args, reader>>

\* The table is gone: the read goes through a null pointer.
NullIndex(t) ==
    /\ pc[t] = "index" /\ table = NULL
    /\ unloaded' = TRUE
    /\ pc' = [u \in Threads |-> "crashed"]
    /\ UNCHANGED <<sysfs, numnodes, table, heap, live, oob, args, reader, value>>

Leave(t) ==
    /\ Goto(t, "done", "idle")
    /\ a' = [a EXCEPT ![t] = 0] /\ b' = [b EXCEPT ![t] = 0]
    /\ nd' = [nd EXCEPT ![t] = 0] /\ err' = [err EXCEPT ![t] = TRUE]
    /\ value' = [value EXCEPT ![t] = None]
    /\ UNCHANGED <<sysfs, globals, calls, tab, todo>>

ThreadStep(t) ==
    \/ TestTable(t)
    \/ RowAbsent(t) \/ RowUnopenable(t) \/ RowUnreadable(t)
    \/ \E x \in Tables : RowParsed(t, x)
    \/ GiveUp(t) \/ LostRace(t) \/ WonRace(t)
    \/ StoreNumnodes(t) \/ StoreTable(t) \/ EndStore(t)
    \/ StillNoTable(t) \/ HaveTable(t) \/ OutOfRange(t) \/ InRange(t) \/ Index(t) \/ NullIndex(t)
    \/ Leave(t)

Next ==
    \/ \E t \in Threads : ThreadStep(t)
    \/ \E t \in Threads, x, y \in Args : Numa_distance(t, x, y)
    \/ \E n \in Files : NodeAppears(n) \/ NodeDisappears(n)
    \/ Numa_distance_cleanup

Spec == Init /\ [][Next]_vars

FairSpec == Spec /\ \A t \in Threads : WF_vars(ThreadStep(t))
----------------------------------------------------------------------------
(* Properties. *)

\* The table of a thread is its own from the first parsed row to the store that
\* publishes it.
Owning == {"open", "finish", "store"}
Mine(t) == IF pc[t] \in Owning THEN tab[t] ELSE NULL

TypeOK ==
    /\ online \in SUBSET Files /\ failed \in BOOLEAN
    /\ numnodes \in {0, Width} /\ table \in Tables \cup {NULL}
    /\ heap \in [Tables -> [Cells -> Values]]
    /\ live \in SUBSET Tables /\ unloaded \in BOOLEAN /\ oob \in BOOLEAN
    /\ pc \in [Threads -> PCs]
    /\ a \in [Threads -> Args] /\ b \in [Threads -> Args]
    /\ nd \in [Threads -> 0 .. MaxFile + 1]
    /\ err \in [Threads -> BOOLEAN]
    /\ tab \in [Threads -> Tables \cup {NULL}]
    /\ todo \in [Threads -> SUBSET {"numnodes", "table"}]
    /\ value \in [Threads -> Values]
    /\ calls \in [Threads -> 0 .. MaxCalls]

\* The published table is allocated, and the table a call is filling is
\* allocated and belongs to that call alone, until it is published or freed.
TableSafety ==
    /\ table # NULL => table \in live
    /\ \A t \in Threads : Mine(t) # NULL =>
          /\ Mine(t) \in live /\ Mine(t) # table
          /\ \A u \in Threads \ {t} : Mine(u) # Mine(t)

\* numa.3, thread safety: a call that found a table still has one when it
\* indexes it.  Holds where node 0 exists; without it a scan can end with no
\* table and no error, and store its NULL over the table of another thread.
TableStays == \A t \in Threads : pc[t] \in {"bounds", "index"} => table # NULL

Leaked == live \ ({table} \cup {Mine(t) : t \in Threads})

\* However many threads race to fill the table, each but one loses at most one.
\* Holds where node 0 exists, for the same reason.
LeakBound == Cardinality(Leaked) <= Cardinality(Threads) - 1

\* Without nodes that appear after numa_init no number is stored outside the
\* table: the columns of unavailable nodes are skipped on the way.
StaysInside == oob = FALSE

\* numa.3: the answer is the distance between the two nodes asked for, or 0.
RightDistance ==
    \A t \in Threads : pc[t] = "done" => value[t] \in {None, <<a[t], b[t]>>}

\* numa.3: 0 means that the distance cannot be determined.  Two nodes known to
\* the library have one, unless something failed while the table was read.
\* Holds where stores are seen in order.
ZeroMeansUnknown ==
    \A t \in Threads :
        pc[t] = "done" /\ a[t] \in Known /\ b[t] \in Known /\ value[t] = None => failed

\* numa_distance never answers with the distance of other nodes, nor 0 for nodes whose
\* distance was read, and parsing stays inside its table, with holes in the numbers
\* and files that cannot be read, while nodes neither come nor go.
AnswersRight == StaysInside /\ RightDistance /\ ZeroMeansUnknown

TableStableStep ==
    table # NULL /\ table' # NULL /\ ~failed' =>
        \A i \in Cells : heap'[table'][i] = heap[table][i]

\* Once a thread got an answer from the table, that cell keeps its value while
\* nodes neither come nor go, even if a slower thread replaces the table.
\* (Only what the table shows: a failed read may publish rows of zeros.)
TableStable == [][TableStableStep]_vars

\* Every call returns: the scan of the node directories ends.
CallsReturn == \A t \in Threads : pc[t] = "test" ~> pc[t] \in {"done", "crashed"}
----------------------------------------------------------------------------
(* The inductive invariant behind the theorems of DistanceTableProofs. *)

\* Node 0 exists, and the boot node never goes offline.
NodeZero == 0 \in Known => 0 \in online

\* With a node 0 a scan that got past it, or may end well, has a table.
ScanHasTable ==
    \A t \in Threads : pc[t] \in {"open", "finish"} /\ (nd[t] > 0 \/ ~err[t]) =>
        (0 \in Known => tab[t] # NULL \/ (err[t] /\ pc[t] = "finish"))

StoreHasTable ==
    \A t \in Threads : pc[t] = "store" /\ "table" \in todo[t] /\ 0 \in Known => tab[t] # NULL

\* A call that is to index the table has passed the range check.
IndexInRange ==
    \A t \in Threads : pc[t] = "index" =>
        numnodes = Width /\ a[t] \in 0 .. Width - 1 /\ b[t] \in 0 .. Width - 1

IndInv ==
    /\ TypeOK
    /\ TableSafety
    /\ NodeZero /\ ScanHasTable /\ StoreHasTable /\ IndexInRange
    /\ 0 \in Known => TableStays

\* Nothing but distances of known nodes, each in its cell.
CellsRight ==
    \A x \in Tables, i \in Cells :
        \/ heap[x][i] = None
        \/ \E r, c \in Known : i = r * Width + c /\ heap[x][i] = <<r, c>>

\* Row r of table f, and all of it, has been parsed.
RowDone(f, r) == \A c \in Known : f[r * Width + c] = <<r, c>>
Complete(f) == \A r \in Known : RowDone(f, r)

\* A scan fills row after row, and what it publishes is complete.
ScanComplete ==
    \A t \in Threads :
        /\ pc[t] = "open" => \A r \in Known : r < nd[t] =>
              tab[t] # NULL /\ RowDone(heap[tab[t]], r)
        /\ pc[t] = "finish" => ~err[t] /\ tab[t] # NULL /\ Complete(heap[tab[t]])
        /\ pc[t] = "store" => IF "table" \in todo[t] THEN tab[t] # NULL /\ Complete(heap[tab[t]])
                              ELSE table # NULL
        /\ pc[t] \in {"recheck", "bounds", "index"} => table # NULL

\* Whoever sees the table sees its size.
SizeFirst ==
    /\ table # NULL => numnodes = Width
    /\ \A t \in Threads : pc[t] = "store" /\ "numnodes" \notin todo[t] => numnodes = Width

AnswerInv ==
    /\ online = Known /\ StaysInside /\ CellsRight /\ RightDistance
    /\ ~failed => ScanComplete /\ (table # NULL => Complete(heap[table]))
    /\ ~StoreReorder => SizeFirst /\ ZeroMeansUnknown

\* Calls on the way to storing their table, whatever is published by then.
Racing == {t \in Threads : pc[t] = "store" /\ "table" \in todo[t]}

LeakInv ==
    /\ IsFiniteSet(live)
    /\ \A t \in Threads : pc[t] = "store" /\ "table" \notin todo[t] => tab[t] = NULL
    /\ unloaded => \A t \in Threads : pc[t] = "idle"
    /\ IF table = NULL /\ ~unloaded THEN Leaked = {}
       ELSE Cardinality(Leaked) + Cardinality(Racing) <= Cardinality(Threads) - 1
============================================================================
