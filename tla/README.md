# TLA+ models of numactl and libnuma

This directory models the parts of the numactl repository whose correctness
depends on interleavings, on the order of system calls, on failures in the
middle of an operation, or on arithmetic at a boundary: the start of libnuma, the
two caches that it fills without a lock, its memory-policy and affinity calls, the
node and CPU lists, and the commands `numactl` and `numastat`.  TLC checks the
models on small instances; TLAPS proves the safety arguments for every number
of threads, nodes and addresses.

## Inventory

| Part | State | Operations | Interaction |
| --- | --- | --- | --- |
| Initialisation (`libnuma.c`, 90-134, 350-760) | sizes, counts and the masks `numa_*_ptr` | `numa_init`, `set_sizes`, `set_task_constraints`, `numa_fini` | once, from /proc, sysfs and two system calls; everything else reads the result |
| Bitmasks (`libnuma.c`, 147-270, 460-520, 1384-1415) | a size and words | `numa_bitmask_*`, copies, `read_mask`, `numa_parse_bitmap` | used by all others |
| Node to CPU cache (`libnuma.c`, 1418-1627) | `node_cpu_mask_v2[]`, `node_cpu_mask_v2_stale` | `numa_node_to_cpus`, `numa_node_to_cpu_update`, teardown in `numa_fini` | read by every affinity call; filled from sysfs without a lock by any thread |
| Affinity calls (`libnuma.c`, 1630-1949, 2374-2395) | affinity of the process | `numa_run_on_node`, `numa_run_on_node_mask` and `_all`, `numa_get_run_node_mask`, `numa_node_of_cpu`, `numa_is_cpuless_node` | the cache and the kernel |
| Distance table (`distance.c`) | `distance_table`, `distance_numnodes` | `numa_distance`, `numa_distance_cleanup` | filled once from sysfs by any thread; sized by `numa_max_node` |
| Memory policy (`libnuma.c`) | kernel: task and range policies; library: `bind_policy`, `mbind_flags` (thread-local), `has_preferred_many`, `has_home_node` (process-wide), `numa_exit_on_error`, `numa_exit_on_warn`, `numa_fail_alloc_on_error` | `numa_set_*`, `numa_bind`, `numa_alloc_*`, `numa_*_memory`, `numa_has_*`, getters | kernel, cpuset of the process, `numa_all_nodes_ptr` |
| Version 1 interface (`libnuma.c`, `*_v1`) | `numa_all_nodes`, `node_cpu_mask_v1[]` | policies, `numa_bind`, run masks and node to CPU maps on masks of fixed size | as the calls above, with a cache of its own |
| Node and CPU strings (`libnuma.c`, 2075-2337) | none | `numa_parse_nodestring`, `numa_parse_cpustring` and `_all` | read against the masks of the initialisation; used by the commands |
| Symbolic nodes (`affinity.c`, `rtnetlink.c`, `sysfs.c`) | none | `resolve_affinity` for `file:`, `block:`, `netdev:`, `ip:`, `pci:` | called by the node-string parser |
| `numactl` command (`numactl.c`) | chosen policy, `did_cpubind`, `did_strict`, `do_shm`, `parse_all`, ... | one per option, then `execvp` | calls the policy calls and shm.c |
| Shared memory (`shm.c`) | attached segment (`shmptr`, `shmlen`, `shmfd`) | `attach_shared`, `attach_sysvshm`, `dump_shm`, `verify_shm` | driven by the options of `numactl` |
| `numastat` command (`numastat.c`) | list of processes, tables, `node_ix_map`, token hash table | options and patterns, one table per source, sorting, marking, folding | /proc and sysfs, which change meanwhile |
| `numademo`, `memhog`, `migspeed`, `migratepages` | none worth checking | measure, or wrap one call | use the library |

Hard behaviours: threads that fill the same cache at once, publication by plain
stores, a refresh that overwrites shared data, a flag that is wrong while it is
being computed, a policy that is replaced for a test and must come back, CPU,
node, process and cpuset changes between two reads, sequences of system calls
of which a later one fails, masks of different sizes and numberings with
holes.  `PROJECT.json` lists each of them as a hazard, at its line and with the
properties that are about it.

## Modules

| Module | Models | Kind |
| --- | --- | --- |
| `NodeCpuCache` | node to CPU cache, version 2 interface | component |
| `NodeCpuCacheProofs`, `MCNodeCpuCache` | theorems; constants and symmetry | TLAPS, TLC |
| `DistanceTable` | distance table | component |
| `DistanceTableProofs`, `MCDistanceTable` | theorems; constants | TLAPS, TLC |
| `MemPolicy` | memory-policy calls and probes | component |
| `MemPolicyProofs`, `MCMemPolicy` | theorems about the probes, about the calls; constants | TLAPS, TLC |
| `Shm` | shared memory segments and files of `shm.c` | component |
| `Numactl` | the options of the `numactl` command; extends `Shm` | composition |
| `NumactlProofs`, `MCNumactl` | theorems about the loop and that it implements `Placement`, about what was asked for and reported; constants | TLAPS, TLC |
| `Placement` | what a command line promises about policies | abstract specification |
| `Bitmap` | masks and the kernel's texts of masks | operators |
| `LibInit` | start and end of the library; extends `Bitmap` | component |
| `Affinity` | symbolic nodes; extends `LibInit` | operators |
| `NodeString` | node and CPU lists; extends `Affinity` | operators |
| `RunOn` | affinity calls; extends `LibInit` | component |
| `Compat` | version 1 interface; extends `RunOn` | component |
| `Library` | start, lists and calls together; extends `NodeString` and `Compat` | composition |
| `LibraryProofs`, `MCLibrary` | theorems; machines, devices and lists | TLAPS, TLC |
| `Numastat` | the `numastat` command | component |
| `NumastatProofs`, `NumastatTableProofs`, `NumastatShowProofs`, `MCNumastat` | theorems about the list, lemmas about tables, theorems about what is shown; systems | TLAPS, TLC |

### NodeCpuCache

A thread is a program counter and the locals of one `numa_node_to_cpus_v2`
call; a step is one access to shared memory, so a copy between masks is one step
per word.  A word holds the *version* of the cpumap file it was read from, or
"all ones" (the fallback of a failed read), or zero: the properties only tell
versions apart.  Masks have addresses handed out by an allocator, so use after
free, leaks and sharing are visible.  The environment changes a cpumap
(`Hotplug`), makes it unreadable, and asks for an update at any moment.
`StoreReorder` allows a thread to see a mask pointer before the words of the mask,
which the plain store in the code permits on machines with weak ordering.

### DistanceTable

`read_distance_table` is one step per sysfs file and per shared access, with
directories that appear, disappear or cannot be opened; `numa_distance` is the
test, the fill and the two reads of the shared pair.  A distance is abstracted to
the pair of nodes it belongs to, so a number stored in the wrong cell is visible.

### MemPolicy

The kernel is a function that accepts or refuses a policy under the cpuset
(`AcceptsIn`) and says what it keeps (`KeptIn`), and features it may lack
(`Supports`).  Every library call that is one system call is one action;
`set_preferred_many` and `numa_has_home_node` are one action per access to their
flags and per system call, since the flags are shared by all threads without a
lock.  Where `ReadsFail` allows it, each read of a probe (`get_mempolicy`,
`numa_get_mems_allowed`) may fail, and the flag of the probe then stays 0.
`numa_bind` is one action: it touches only state of the calling thread and the
cached maps of the nodes' CPUs.  `cpu_mask` and `cpu_stale` are what that cache holds: no map, that of the
node, or the all ones that a failed refresh leaves there; in each call any
set of nodes may have a map that cannot be read (`RunNodes`), which is then warned about and left out
or, once cached, spoilt.  The CPUs of a node do not change in this module, and the races
inside the cache are those of `NodeCpuCache`.  `moved` and `misled` are history: whether the cpuset moved
during the call of a thread, and whether a probe was given no chance to see what the kernel has.
Malloc failures are left out, as are nodes beyond the last bit that the kernel
reads of a mask.

### Shm, Numactl and Placement

`Shm` has the objects that `--shm` and `--file` name (existence, size, and per page
the policy and the node it sits on) and the process variables of `shm.c`.
Sizes count units of which `PageSize` make a page, so unaligned lengths are there,
and sums are taken modulo `SizeMax + 1`, as the machine does.  `Numactl` is the loop of
`main`: one action per option with all its checks, in any order, then the end of
the command line.  An option works on the region if one is attached and on the
process otherwise.  A node list is the set of nodes it names, its complement after `!`, `same`, or a list that
is refused.  An empty text and `!all` come to the empty set, which is not refused: the options go on with it,
so `--interleave` sets `MPOL_DEFAULT` and the binding options are refused by the kernel.  When the command fails the process variables are gone and only
the objects keep what was done to them.  `asked` and `bound` remember what the
options asked for; `opt` remembers the last reporting option.  Library calls do here
for one thread what `MemPolicy` says of them.

`Placement` says what that loop is for: one policy is settled, once, for the
process or for a part of one shared object; only in the first case something is
executed; a refused command line has changed no more than the attached part.
`Numactl` instantiates it with `target` the attached object (`shmfd`), `part` the
pages of the region, `settled` the test `set_policy # Unset` that the code makes,
`own` the policy of the process, `shared` those of the pages, and `fate` the phase
of the command; `SettlesOnce` is `Placement`'s specification under this mapping.

### The library group

`Bitmap` has a mask as a size and a set of bits, with the bits between the size and
the end of the last word that a copy may leave there; a text of the kernel is its
sequence of fields.  `LibInit` is one step per file or system call of `numa_init`.  A
step may find its file missing (a *fault*), and the machine may be replaced by
another of `Machines` between two steps; `told` remembers what machine a file
showed.  `Affinity` and `NodeString` change no state, so they are operators: a list is
its signs, its items and whether the text ends where it should, and the
properties quantify over all `Strings` in every state in which they can be
parsed.  sysfs devices and netlink replies are constants.  `RunOn` and `Compat` are one
action per call, by one thread: the interleavings of a lookup are in
`NodeCpuCache`, and what is asked here is what the callers make of the maps.  In a
call one map may be unreadable or, for version 1, a malloc may fail; then the cache of version 1
holds memory of the application, which may write into it at any time (`AppWrites`); once a later call has used that
memory (`v1.foreign`) nothing more is asked.  What a loop of version 1 lookups reads, answers and keeps is
written in closed form (`MustRead1`, `Found1`, `LookedUp1`): only the first lookup meets the stale
flag, so a map is read if there is none or if it is that of the first node.
`Library` puts them together.

### Numastat

A step is an argument with the processes it adds, the end of the arguments, or the
reading, sorting and showing of one process or one file of the nodes.  A table has its rows in the order of the code's data area,
the index used for sorting, the marks for hidden rows and columns, and a column per
node and one for the total.  The environment ends processes, makes them
unreadable, moves memory, or adds a node between two steps.  Two outcomes that the
language leaves undefined end in the phase `crashed`: the process list is used after
its first `realloc` failed, and `node_ix_map` is searched for a node that it does not have.
Each loop of the code (over processes, lines, nodes, columns, turns of the sort) is a recursive function
of the number of turns made, so that the proofs can follow it turn by turn.  A shown table keeps its
cells, the order of its rows and its sections.  Where `-s<node>` names a column behind the last one, any order of
the rows of data is possible.

## Runs

Passing runs:

* `cache_race`: two threads with two calls each on one node and four addresses,
  stores of other threads seen late; every pair of first lookups, refresh against
  hit, refresh against refresh.  Memory safety, ownership of masks and the array
  installed once (`MasksSafe`), bounded leaks, a slot never becomes empty, a first
  lookup publishes no faulty map.
* `cache_words`: masks of two words, buffers of one or two, hotplug and updates.  A
  success fills the buffer, the call that takes the stale flag answers no older
  map, every call returns.
* `distance_race`: two threads with two calls each on nodes {0, 1, 3}: a hole in the
  numbering is what makes column and node number differ, and a row that cannot be
  read after a first good one is what makes a thread give up a table.  Ownership of
  tables, right distances and 0 only after a failure (`AnswersRight`).
* `distance_live`: no node 0, nodes that come and go, stores in either order; the
  endless loop over directories ends.
* `policy_probe`: two threads, three calls in all (`ThreeCalls`), among them `numa_has_preferred_many`, which
  probes for `MPOL_PREFERRED_MANY`, a cpuset that moves, reads of a probe that fail.  `ManySettled`: with no
  probe running, the flag is right, unless a probe was `misled`; `ProbeRestores`: the policy is put back, unless
  the cpuset moved during that very call.
* `policy_calls`: one thread, every call in sequences of two, then up to two more while the CPU cache that
  `numa_bind` left is out of date or spoilt, a cpuset that moves, a node without CPUs, maps that
  cannot be read, all exit flags, a kernel without `MPOL_PREFERRED_MANY`.  `BindConfines`: without an error
  `numa_bind` leaves the thread running and allocating where it asked, unless a node asked for has an all-ones
  map in the cache, which bind, update, bind, bind reaches.  `ReadBack`: each setter's own getter reports
  what it set, the interleave getters name nothing else, and `numa_get_membind` says all nodes after what
  binds no memory.
* `numactl`: all command lines of up to five options on two nodes, with shared
  objects that exist or not, are short or long, have pages or a policy.  What the
  executed command and the region get, what `--verify` and `--dump` say
  (`ReportsTrue`), and that the loop implements `Placement` (`SettlesOnce`).  Two CPUs, so
  that `--physcpubind` and `--cpunodebind` have something to choose from.
* `library`: five machines, one thing going wrong at any file, call or malloc, or the
  machine changing, then two calls.  `MeasuredRight`: counts, masks and the kernel's
  texts agree.  `ListsRight`: some 1500 lists, against a reference
  definition: numbers that are no allowed nodes, or no configured CPUs, are refused, other lists denote what
  they name; ! in node lists where nodes have no holes, devices where the allowed nodes are the first.  `RunConfined`, `BindTogether`: a process that was confined is, and after a
  failure stays where it was.  `MapsUsedRight`, `NodeOfCpuRight`: answers from the maps
  are true.  `OwnMemory`: memory of the application is kept only after a failed malloc.
* `numastat`: five systems, up to three arguments, processes that end or cannot be
  read, a failing `realloc`, a node added meanwhile.  Every process is shown once with
  its own amounts (`PidsRight`, `ProcessTableRight`), tokens that share a hash slot and
  lines in another order end up in the right rows (`SystemTableRight`), hiding and
  folding lose nothing, the rows are in the order asked for where nodes have no holes, `-z` hides the zeros of
  the first table of processes and those of the system, and memory outside an array
  is used only after a failed `realloc` or when a node was added (`ShownRight`).

Runs that end in a counterexample show where the code and a document or a
comment disagree; `PROJECT.json` quotes the sentence:

* `cache_faulty`: a failed read reaches the cache when it is a refresh.
* `policy_has`: a second thread is told "no" while the first one probes.
* `shm_remaining`: `--offset` without `--length` gives a region that ends past the
  segment.

Several properties are stated under a condition because the code does less without
it.  The hazards in `PROJECT.json` say so one by one:

* cache: one stale flag for all nodes, so other nodes keep their old map after an
  update (numa.3:970); words of two maps in one answer; a slow reader's older map
  over a newer one;
* distances: numbers in the wrong columns after a node went offline; `TableStays`
  without a node 0; 0 for two good nodes under store reordering;
* policies: after a refresh that failed `numa_bind` reports no error and leaves the thread on all CPUs
  (numa.3:619); `numa_preferred_many` names the nodes of an interleave policy (numa.3:465), `numa_get_membind`
  does not know the mode that `numa_set_membind_balancing` sets (numa.3:667); a probe that
  cannot read leaves its flag wrong for good; nothing is asked of a policy when the cpuset moved during
  the probe that replaces it;
* lists: `!` turns over as many bits as there are nodes, which leaves out nodes
  above a hole (numa.3:390); a device's node is compared with the number of
  allowed nodes, so in the cpuset {0, 3} one on node 3 is refused (numactl.8:110); `numa_node_of_cpu` is judged only while the cached maps are
  those of the machine, so not after a refresh that cached all ones;
* version 1: `sizeof(nodemask_t)` in bytes where bits are meant, so high nodes are
  ignored; the caller's buffer is kept and freed after a failed malloc;
* `numactl`: false complaints of `--verify`; a refused `--preferred` has changed the
  attached region;
* `numastat`: the common table is lost when the last process ended; with `-v -z` marks
  of earlier processes stay, and zeros with them (numastat.8:114); `-s<node>` takes an index for a node, so with
  holes another column is sorted (numastat.8:96); `node_ix_map` is searched without an end.

### Bounds

Two threads are enough for every race on one slot, table or flag: a race needs a
reader or a second writer, and the proofs below cover any number.  Two calls per
thread are what it takes to meet the result of one's own and of the other's
earlier call.  `policy_probe` needs three: a policy to lose and a probe in
each thread.  In `policy_calls` the constraint `LaterCallsOnCache` lets a thread make more than two calls only
where they are about the CPU cache: it takes four to bind with a spoilt mask.  `MaxVersion = 1` gives an
old and a new map.
Five options are enough to shape a region, attach it, bind it, touch it and verify
or dump it; `SizeMax = 15` with the size 14 makes a sum that overflows, and objects
of three pages tell a round robin from a constant.

In `library`, `IntBits = 4` makes words of 8 bits, so machines with a few CPUs have
masks of several words and fields; the machines have holes in their node numbers, a
cpuset smaller than the machine, all-ones CPU masks and a kernel without cpusets.
`FirstTry = 2` and `LastTry = 16` make the guessed size of node masks 4, less than the 16
bits that the kernel prints; `NUMA_NUM_NODES = 32` makes `sizeof(nodemask_t)` 4, with
node 3 beyond what the kernel then reads.  `MaxFaults = 1` lets everything else go well after a
failure, and `MaxCalls = 2` lets a call meet the maps left by another.  In `numastat`,
`HASH_TABLE_SIZE = 5` makes tokens collide, `ScreenWidth = 10` fits one wide column or
three narrow ones, and three arguments are two options and a process.

CHECK_DEADLOCK is off because the application may stop calling and the process may
exit.

### Fairness

Liveness assumes weak fairness of each thread's steps alone: nothing in the code
waits for another thread, so a scheduler that keeps running a thread is all a
call needs.  Hotplug, updates and the landing of stores are not assumed to happen.

## Proofs

Every theorem holds for any number of threads, nodes, calls, options, shared objects and
machines that the assumptions on the constants allow.  An inductive invariant is
in the component's module, and TLC was run on it with the instance of the component's run before
it was proved.

* `NodeCpuCacheProofs`: `TypeCorrect`, `MasksAreSafe`, `SlotsStay` from `IndInv`, which adds to
  the properties that a call past the range check works on a valid node, that a
  slot it saw filled is still filled, and that without an array there are no
  masks: a thread uses in a later step what it saw in an earlier one, and nothing but
  the teardown takes it away.  `AnswersAreComplete`, `ConsumerIsFresh` and
  `FirstPublishIsGood` from `AnswerInv`, which follows a buffer word by word: what a thread
  has copied so far, and that the version a fresh file showed cannot fall.
  `AnswersAreComplete` assumes `~StoreReorder`: a pointer seen before its words is the way a
  zero reaches an answer.  `LeakIsBounded` from `LeakInv`: a lost mask is charged to the node and
  the thread that published it over another, and one thread per node loses none.
* `DistanceTableProofs`: `TablesSafe` for any threads, nodes and failures; `NeverNull` under
  the assumption that node 0 exists; `TypeCorrect`.  The invariant says who owns a table
  while it is filled.  `AnswersAreRight` (every answered distance belongs to the two nodes asked about)
  assumes that no node comes or goes and that stores are not reordered; `TableIsStable`
  needs only the former, `LeakIsBounded` only a node 0.  Without these assumptions TLC finds
  the wrong answers that the hazards describe.
* `MemPolicyProofs`: `ManySettles`, `PolicyComesBack`, wherever the cpuset moves and whatever read fails; the
  properties themselves name the probes they excuse.
  The invariant `ProbeInv` says that the policy of every thread is `Stable`: the kernel
  would accept it and keep it unchanged; so the policy saved before the probe can
  always be set again.  `KeptStable` is the lemma about the kernel, and a thread between
  the query and the try knows the cpuset's nodes.
  Then about the calls: `TypeCorrect`, `AllocationsArePlaced`, `BindIsConfined`, `GettersReadBack`,
  `LooseIsUsable`, for a cpuset that moves as it likes.  `BindIsConfined` holds for any unreadable maps, with one
  exception, which `policy_calls` reaches: a cached map that a failed refresh has spoilt.
* `NumactlProofs`: `TypeCorrect`, `SegmentOrProcess`, `OnePolicy`, `RegionIsBacked`, `Implements`.
  `SegmentNotProcess` is not inductive alone: `--shm` must know that the process policy was
  not touched, which `PolicyRecorded` ties to `set_policy`, the variable the code looks at.
  `AttachedBacked` is the arithmetic: the range checks make the modular sum an ordinary
  one, and the file is extended to it.
  `Implements` is that `Spec` implies `SettlesOnce`: initial states map to initial states, and
  each option maps to a step of `Placement` or to a stutter, from these invariants and lemmas
  that binding and touching the region change pages of the region only.
  `RunsAsAsked`, `SegmentIsAsAsked`, from `AskedInv`: what was asked for
  is remembered in `asked` and `bound`, and the policy in the kernel is the one the last
  binding option left there.  `ReportsAreTrue` uses the same invariant, which for it also says
  which modes `set_policy` takes and that a region never has `MPOL_WEIGHTED_INTERLEAVE`.  That the
  ranges of a dump cover the region is proved by taking the last start of a range
  that is not after a page.  It assumes that the kernel has room for a node number above all nodes of
  the machine: `interleave_next` (`shm.c`) skips node 0 when it comes round from the last number
  there is, and then complains about pages that are where they should be.
* `LibraryProofs`: `TypeCorrect`, `OwnMemoryKept`, `NodeOfCpuAnswers`, `RunIsConfined`,
  `BindHoldsTogether`, and under `Ordinary` `MeasuresRight`, `MapsAreUsedRight` and `ListsAreRight`.  `CallInv` is
  typing, the masks that no call changes (`Untouched`), the maps of version 2 and their
  sizes (`MapsFit`), the owner of the maps of version 1 (`OwnerKnown`) and the last answer about a
  CPU (`NodeOfCpuKept`).  `MeasureInv` follows `numa_init` file by file: which counts are known at
  which step, and that they fit the masks (`NodesFit`, `CpusFit`).  A first group of lemmas is about
  division into words and fields, and about what a text of the kernel reads back as; a
  second one splits a call into its effect on the maps, on the process and on the answer, so that each property
  looks only at the calls that can touch it.
  `ListsAreRight` is for lists of any length.  It needs `MasksSized`, which goes along with `MeasureInv`: the masks a list is
  read against are as long as the mask it is read into, so that nothing is cut off.  `Loop` is a recursive function over
  the items; it is shown to exist and to stay within its type (`LoopIs`), and then four invariants go along it
  by induction over the number of items: what the items so far denote and whether one was refused (`Denotes`), that
  bits are allowed ones and there are some (`Within`), that the loop of an `_all` form is never behind (`Covered`),
  and that `!` changes nothing in it (`LoopSame`).  They are stated once for a set of valid numbers, which are the allowed
  nodes in a node list and the configured CPUs in a CPU list (`NodesDenoted`, `CpusDenoted`).  Relative numbers: counting set bits below a bit is the
  inverse of the increasing sequence of the set bits (`Positions`), so the `n`-th bit that `get_nr` searches is the `n`-th
  of the sorted nodes of the reference definition, and a range of positions is a range of bits (`PickedRelative`).
  A device sets what its file says before the first number that is no node of the task, whatever the mask had
  (`DeviceAnswers`).
* `NumastatProofs`: `PidsAreRight`, from `PidInv`.  `Listed` says that the list has what was asked for and that,
  unless memory ran out, its array is `Sane`: it is there, or was never needed; from the
  end of the arguments on it increases strictly.  `ShownSoFar` says
  that a process behind `ix` has its table or has ended: a process that was passed by
  stays ended, so the table that is missing at the end was rightly left out.  Lemmas:
  a finite set of numbers can be sorted, and a loop over added processes adds all of them.
* `NumastatTableProofs` has the lemmas about tables.  A number of `numa_maps` raises four cells, and with
  them the sums of its row and column (`Summed`); from there a line, then a file, adds to each cell what its
  lines say of it.  Sorting: after i turns the first i rows descend and none after them is bigger (`Falls`), and
  the order still has each row once.  Folding: after n columns (`FoldInv`) the sections fit, are in order, and have every
  column below n that is to be shown, and no other.
* `NumastatShowProofs`: `ProcessTablesAreRight`, `SystemTablesAreRight`, `ShowsAreRight`, `CrashesAreExplained`,
  from `TableInv`, which adds to `PidInv` that the cells of the process table agree with its totals and that the rows to
  come are 0 (`CellsRight`), that sorting has moved rows of data only (`MapRight`), that `node_ix_map` increases, and
  that until the tables of the system are made only process tables were shown: the world may change until then, and
  `SystemTableRight` is about the files as they are when they are read.  The hash table: a search for a token that
  was inserted comes to it before a free slot (`Reached`), whatever was inserted later.  That `-z` hides zeros
  is a second induction (`ZerosStep`): until a process table is shown nothing is marked in it (`MarksClear`), and what is
  shown is what is marked.

Where a proof needs an induction over numbers or finite sets it is made by least counterexample: `WFMin` of
the library takes a set, not an operator, and a smallest failing number has a predecessor that
does not fail.

Assumptions are those stated with the constants in the modules: threads are finite in number and
at least one; in `Numastat` a pattern finds processes that `/proc` has, no file names a token twice, there are
fewer tokens than slots, and a process has pages only on nodes that have a directory, if there are any; in `LibInit` guessed CPU masks are whole words and the doubling of the guess
ends; in `Library` a list is typed: two signs, items of the kinds of `Items`, an end.  `Ordinary` is a hypothesis of three theorems only.  It says that `get_mempolicy` is tried
up to the kernel's number of node bits, that CPU masks have room for the nodes and for the
configured CPUs, and that an affinity with more CPUs than are configured has all of those; the
second is needed because `numa_get_run_node_mask` (`libnuma.c`, 1874) takes the size of a CPU mask for a
mask of nodes.  The machines of the run satisfy it, which `MCLibrary` assumes and TLC evaluates.

Two proof attempts corrected the model's properties.  `NodeOfCpuRight` said of a failed
search that no cached map has the CPU, which three calls refute: after `numa_node_to_cpu_update` a refresh that
fails leaves "all ones" in the cache, and a map of all ones is now left out.  And
`CpusFit` was not inductive until it said that the counts of CPUs are -1 before the
step that sets them.

Only model-checked:

* liveness (`CallsReturn`): the prover has no fairness.

## Plan

Done: the two caches, the policy and affinity calls, the start of the library, lists,
version 1, shared memory, both commands, a refinement, and theorems for all
safety properties.  Left: what is listed below.

## Not modelled

System call wrappers (one call each), benchmarks (`numademo`, `stream_lib`, `mt`,
`clearcache`, `migspeed`), small commands around one call (`memhog`,
`migratepages`), declarations in headers, printing, build files and tests.  Of version 1,
`numa_tonodemask_memory_v1` and `numa_alloc_interleaved_subset_v1`, which differ from version 2
in the size of the mask only.  Of `numactl`, what `--show` and `--hardware` print.
