------------------------------ MODULE Library ------------------------------
(***************************************************************************)
(* One process that starts with libnuma, on a machine that may change      *)
(* under it: the constructor (LibInit) measures, node and CPU lists        *)
(* (NodeString, Affinity) are read against what it measured, and the       *)
(* affinity calls of version 2 (RunOn) and version 1 (Compat) use it.      *)
(* The lists change no state, so their properties quantify over Strings    *)
(* in every state in which they can be parsed.                             *)
(***************************************************************************)
EXTENDS NodeString, Compat

CONSTANTS Strings,      \* the lists that are parsed
          NodeSets,     \* the masks that are passed
          MaxCalls      \* bound on the calls after the start

ASSUME LibraryAssumption ==
    /\ MaxCalls \in Nat
    /\ \A s \in Strings : s \in [not : BOOLEAN, plus : BOOLEAN, items : Seq(Items), ends : BOOLEAN]

VARIABLE calls

vars == <<sys, faults, at, lib, told, cached, stale, v1, ret, pol, calls>>

Init == InitLib /\ RunOnInit /\ pol = Default /\ calls = 0

\* A call whose reads of the nodes in bad and, without memory, whose mallocs fail.
Call(bad, memory) ==
    \/ /\ \/ numa_node_to_cpu_update
          \/ numa_get_run_node_mask(bad)
          \/ \E nodes \in NodeSets :
                numa_run_on_node_mask(nodes, bad) \/ numa_run_on_node_mask_all(nodes, bad)
          \/ \E node \in -1 .. sys.nodeids :
                numa_run_on_node(node, bad) \/ numa_is_cpuless_node(node, bad)
          \/ \E cpu \in 0 .. lib.cpumask_sz + 1 : numa_node_of_cpu(cpu, bad)
       /\ UNCHANGED <<lib, pol>>
    \/ \E nodes \in NodeSets :
        \/ numa_set_membind_v1(nodes) \/ numa_set_interleave_mask_v1(nodes)
        \/ numa_bind_v1(nodes, bad) \/ numa_run_on_node_mask_v1(nodes, bad, memory)
    \/ numa_get_interleave_mask_v1 \/ numa_get_membind_v1 \/ numa_get_run_node_mask_v1(bad)
    \/ \E n \in 0 .. sys.nodeids : numa_node_to_cpus_v1(n, bad, memory)

\* The destructor also frees the node to CPU cache of version 2.
Fini ==
    /\ numa_fini
    /\ cached' = [n \in {} |-> {}]
    /\ UNCHANGED <<sys, faults, stale, v1, ret, pol, calls>>

Next ==
    \/ (Start \/ Change) /\ UNCHANGED <<cached, stale, v1, ret, pol, calls>>
    \/ /\ at = "ready" /\ calls < MaxCalls /\ ~v1.foreign
       /\ \E bad \in SUBSET sys.nodes, memory \in BOOLEAN :
            /\ Cardinality(bad) <= 1 /\ (memory \/ bad = {})
            /\ Fault(bad # {} \/ ~memory)
            /\ Call(bad, memory)
       /\ calls' = calls + 1
       /\ UNCHANGED <<at, told>>
    \/ AppWrites /\ UNCHANGED <<faults, at, told, calls>>
    \/ Fini

Spec == Init /\ [][Next]_vars
----------------------------------------------------------------------------
(* What the constructor measured *)

Ready == at = "ready"
\* Neither file was missing and the machine was the same for both.
Measured == told.nodes # None /\ told.status # None /\ told.nodes.nodes = told.status.nodes

TypeOK ==
    /\ sys.nodes \subseteq Nat /\ faults \in 0 .. MaxFaults /\ at \in Steps
    /\ lib.nodemask_sz \in Nat /\ lib.cpumask_sz \in Nat
    /\ DOMAIN cached \subseteq 0 .. numa_max_node /\ stale \in BOOLEAN
    /\ DOMAIN v1.masks \subseteq 0 .. numa_max_node
    /\ pol.mode \in {"DEFAULT", "BIND", "INTERLEAVE"} /\ calls \in 0 .. MaxCalls

\* set_task_constraints leaves counts and masks that agree (libnuma.c:572-589), also when
\* Cpus_allowed is all ones, or neither: a reader never sees a count without its mask.
ConstraintsWhole ==
    IF told.status = None
    THEN /\ lib.numprocnode = -1 /\ lib.numproccpu = -1
         /\ Seen(lib.numa_all_nodes_ptr) = {} /\ Seen(lib.numa_all_cpus_ptr) = {}
    ELSE /\ lib.numprocnode = numa_bitmask_weight(lib.numa_all_nodes_ptr)
         /\ lib.numproccpu = numa_bitmask_weight(lib.numa_all_cpus_ptr)
         /\ lib.numprocnode > 0 /\ lib.numproccpu > 0

\* The mask of allowed nodes is the kernel's, read from a text of any length
\* (libnuma.c:472-494), also when the size of the mask had to be guessed.
AllNodesExact ==
    told.status # None /\ told.status.cpusets
        => Seen(lib.numa_all_nodes_ptr) = told.status.mems

\* numa_num_configured_nodes counts every node directory there was, with holes in
\* the numbers too (libnuma.c:381-384, 705-708).
EveryNodeCounted ==
    told.nodes # None => numa_num_configured_nodes = Cardinality(told.nodes.nodes)

\* What the task may use is possible (libnuma.c:561-564), when the cpuset and the node
\* directories were read from one machine.
PossibleCoversAllowed ==
    Measured => /\ Seen(lib.numa_all_nodes_ptr) \subseteq Seen(lib.numa_possible_nodes_ptr)
                /\ told.status.runs \subseteq 0 .. hicpu =>
                    Seen(lib.numa_all_cpus_ptr) \subseteq Seen(lib.numa_possible_cpus_ptr)

\* Whatever of sysfs and /proc could be read, what the constructor leaves agrees with it:
\* counts with masks, masks with the kernel's texts, all of them with each other.
MeasuredRight ==
    Ready => ConstraintsWhole /\ AllNodesExact /\ EveryNodeCounted /\ PossibleCoversAllowed
----------------------------------------------------------------------------
(* What a list means *)

\* The numbers of a set, in order: the i-th has i - 1 below it.
Sorted(S) == [i \in 1 .. Cardinality(S) |-> CHOOSE x \in S : Cardinality({y \in S : y < x}) = i - 1]

\* The numbers of an item, through the sorted sequence of the allowed ones with +.
Picked(item, allowed, plus) ==
    LET hi == IF item.t = "range" THEN item.b ELSE item.a
        wanted == IF plus /\ item.a <= hi THEN {k \in item.a .. hi : k < Cardinality(allowed)}
                  ELSE item.a .. hi
    IN CASE item.t = "all" -> allowed
         [] item.t \in {"nr", "range"} /\ plus -> {Sorted(allowed)[k + 1] : k \in wanted \cup {item.a}}
         [] item.t \in {"nr", "range"} /\ ~plus -> (wanted \cap allowed) \cup {item.a}

\* The numbers that an item mentions.  Each must be valid; with + it is a position, and the
\* allowed number that is there must be.
Mentioned(item) == IF item.t = "range" THEN {item.a, item.b} ELSE {item.a}
WellFormed(s, allowed, valid) ==
    /\ s.ends
    /\ \A k \in DOMAIN s.items :
        \/ s.items[k].t = "all" /\ k = Len(s.items)
        \/ /\ s.items[k].t \in {"nr", "range"}
           /\ \A i \in Mentioned(s.items[k]) :
                IF s.plus THEN i < Cardinality(allowed) /\ Sorted(allowed)[i + 1] \in valid
                          ELSE i \in valid

\* The numbers of a list without names: an "all" at the end replaces the others.
Denoted(s, allowed) ==
    IF s.items # <<>> /\ Last(s.items).t = "all" THEN allowed
    ELSE UNION {Picked(s.items[k], allowed, s.plus) : k \in DOMAIN s.items}

Named(s) == \E k \in DOMAIN s.items : s.items[k].t = "dev"
Parsing == Ready /\ calls = 0 /\ told.status # None
Allowed == Seen(lib.numa_all_nodes_ptr)

AllowedCpus == Seen(lib.numa_all_cpus_ptr)
ConfiguredCpus == 0 .. numa_num_configured_cpus - 1

\* A parser returns m for s.  It accepts a list, with ! or without, just when each number in it,
\* with + the one at that allowed position, is valid; without ! it returns the numbers the list
\* denotes.  A range is its first number and the allowed ones in it, relative ranges are ranges
\* of positions (libnuma.c:2082-2097, 2111-2204, 2230-2317).
ListDenotes(s, m, allowed, valid) ==
    /\ (m # NULL) = WellFormed(s, allowed, valid)
    /\ m # NULL /\ ~s.not => m.bits = Denoted(s, allowed)

\* A list after ! is every node but those of the list, where nodes are numbered
\* without holes (libnuma.c:2190-2198 turns over as many bits as there are nodes);
\* above a hole nodes are missing, although numa.3:390 says "all nodes except this list".
ExceptDenotes(s, m) ==
    Measured /\ told.nodes.nodes = 0 .. numa_max_node /\ s.not /\ ~Named(s) /\ m # NULL =>
        m.bits = told.nodes.nodes \ Denoted(s, Allowed)

\* A device names an allowed node, when the allowed nodes are the first ones: its node
\* file is compared with their number only (sysfs.c:58-66, libnuma.c:2145-2151),
\* so that elsewhere a node of the cpuset is refused, although numactl.8:110 names no limit.
DeviceAllowed(s, m) ==
    /\ lib.numprocnode > 0 /\ Allowed = 0 .. numa_num_task_nodes - 1
    /\ Named(s) /\ ~s.not /\ m # NULL
    => m.bits # {} /\ m.bits \subseteq Allowed

\* An _all form returns all for s, the other m: it accepts every absolute list that the
\* other accepts and returns at least as much (libnuma.c:2221-2224, 2334-2337).
AllFormCovers(s, m, all) ==
    Measured /\ told.status.runs \subseteq 0 .. hicpu /\ ~s.plus /\ ~s.not /\ m # NULL =>
        all # NULL /\ m.bits \subseteq all.bits

\* With c for a CPU list and n for the same list with its ! put or taken away, no CPU is
\* in both or in neither, whatever CPUs the task may use (libnuma.c:2304-2311).
CpuExceptPartitions(c, n) ==
    /\ (c = NULL) = (n = NULL)
    /\ c # NULL => /\ \A i \in 0 .. hicpu : i < c.size => (i \in c.bits) = (i \notin n.bits)
                   /\ \A i \in c.bits : i > hicpu => i \in n.bits

\* Against what the constructor measured, a node list without names is accepted just when its
\* numbers are allowed nodes, a CPU list just when its numbers are configured CPUs, and
\* what is accepted denotes those numbers and the allowed ones of its ranges; ! is the
\* complement, for nodes where their numbers have no holes; an _all form covers the
\* other; and a device stands for allowed nodes where these are the first ones.
ListsRight ==
    Parsing => \A s \in {x \in Strings : x.items # <<>>} :
        \A m \in {numa_parse_nodestring(s)}, c \in {numa_parse_cpustring(s)} :
            /\ Named(s) \/ ListDenotes(s, m, Allowed, Allowed)
            /\ ListDenotes(s, c, AllowedCpus, ConfiguredCpus)
            /\ ExceptDenotes(s, m) /\ DeviceAllowed(s, m)
            /\ AllFormCovers(s, m, numa_parse_nodestring_all(s))
            /\ AllFormCovers(s, c, numa_parse_cpustring_all(s))
            /\ CpuExceptPartitions(c, numa_parse_cpustring([s EXCEPT !.not = ~s.not]))
----------------------------------------------------------------------------
(* The calls *)

RunCalls == {"numa_run_on_node", "numa_run_on_node_mask", "numa_run_on_node_mask_all",
             "numa_run_on_node_mask_v1"}

\* Every kept map is that of the machine now.
TrueMaps ==
    /\ \A n \in DOMAIN cached : n \in sys.nodes /\ cached[n] = sys.cpumap[n]
    /\ \A n \in DOMAIN v1.masks : n \in sys.nodes /\ v1.masks[n].cpus = sys.cpumap[n]

\* ... and none is all ones, which may stand for one that could not be read again.
AllRead == TrueMaps /\ \A n \in DOMAIN cached : cached[n] # AllOnes

CpusIn(S) == UNION {sys.cpumap[n] : n \in S \cap sys.nodes}

\* A call that runs the process on nodes and succeeds leaves it on CPUs of those
\* nodes, also when the maps of some could not be read; a call that fails leaves it where it was
\* (libnuma.c:1680, 1753, 1803, 1944).  The maps kept must be true.
RunConfined ==
    [][ calls' # calls /\ ret'.call \in RunCalls /\ ret'.arg # {-1} /\ TrueMaps' =>
            IF ret'.val = 0
            THEN sys'.runs \subseteq CpusIn(ret'.arg)
            ELSE sys'.runs = sys.runs ]_vars

\* numa_get_run_node_mask names exactly the allowed nodes with a CPU that the process
\* runs on (libnuma.c:1867-1905), once their maps are known and CPUs are
\* numbered below the configured number.
RunMaskExact ==
        LET allowed == Seen(lib.numa_all_nodes_ptr)
        IN /\ calls' # calls /\ ret'.call = "numa_get_run_node_mask" /\ AllRead'
           /\ GetaffinityOK /\ allowed \subseteq sys.nodes /\ allowed \subseteq DOMAIN cached'
           /\ sys.runs \subseteq 0 .. hicpu
           => ret'.val = {n \in allowed : sys.cpumap[n] \cap sys.runs # {}}

\* As long as the cached maps are those of the machine, numa_node_of_cpu names a node that has the
\* CPU, and fails only for a CPU that no node has whose map could be read (libnuma.c:1630-1657).
\* Nothing is said once a node has an old map, or the all ones that a failed refresh
\* has cached (libnuma.c:1604): then the first such node may be the answer.
NodeOfCpuRight ==
    ret.call = "numa_node_of_cpu" /\ TrueMaps /\ at = "ready" =>
        IF ret.val = Failed THEN \A n \in DOMAIN cached : ret.arg \notin cached[n] \/ cached[n] = AllOnes
        ELSE ret.val \in sys.nodes /\ ret.arg \in sys.cpumap[ret.val]

\* numa_is_cpuless_node never takes a node with CPUs for one without: a map that
\* cannot be read stands for all CPUs (libnuma.c:2389).
CpulessTrue ==
    calls' # calls /\ ret'.call = "numa_is_cpuless_node" /\ ret'.val = 1 /\ TrueMaps'
        => ret'.arg \in sys.nodes /\ sys.cpumap[ret'.arg] = {}

\* What is said about nodes from their CPU maps is true of the machine at that moment.
MapsUsedRight == [][RunMaskExact /\ CpulessTrue]_vars

\* Memory of the application is used behind its back only when a malloc had
\* failed (libnuma.c:1476-1523): a mask the library keeps is its own.
OwnMemory == v1.foreign => v1.starved

\* numa_bind of version 1 ties memory and CPUs to the nodes asked for: when both are
\* possible the process runs only on CPUs of those nodes and its memory is bound to nodes
\* among them (libnuma.c:2052-2060).
BindTogether ==
    [][ calls' # calls /\ ret'.call = "numa_bind_v1" /\ ret'.val = 0 /\ AllRead' =>
            /\ pol'.nodes \subseteq ret'.arg
            /\ SetaffinityOK(UNION {cached'[n] : n \in DOMAIN cached' \cap pol'.nodes
                                                        \cap Seen(lib.numa_all_nodes_ptr)})
                => sys'.runs \subseteq CpusIn(ret'.arg) ]_vars
----------------------------------------------------------------------------
(* The inductive invariants behind the theorems of LibraryProofs. *)

\* How far the constructor is.
NodesListed == at \notin {"numa_init", "set_configured_nodes"}
CpusSized == NodesListed /\ at # "set_numa_max_cpu"
CpusCounted == CpusSized /\ at # "set_configured_cpus"

Masks == [size : Nat, bits : SUBSET Nat]

\* Types in full.
LibType ==
    [nodemask_sz : Nat, cpumask_sz : Nat, maxconfigurednode : Int, maxconfiguredcpu : Int,
     numprocnode : Int, numproccpu : Int,
     numa_nodes_ptr : Masks, numa_memnode_ptr : Masks, numa_no_nodes_ptr : Masks,
     numa_all_nodes_ptr : Masks, numa_possible_nodes_ptr : Masks,
     numa_all_cpus_ptr : Masks, numa_possible_cpus_ptr : Masks,
     numa_all_nodes : SUBSET Int]

Typed ==
    /\ Sound(sys) /\ lib \in LibType /\ at \in Steps
    /\ told = [nodes |-> told.nodes, status |-> told.status]
    /\ faults \in 0 .. MaxFaults /\ calls \in 0 .. MaxCalls /\ stale \in BOOLEAN
    /\ v1 = [masks |-> v1.masks, stale |-> v1.stale, foreign |-> v1.foreign, starved |-> v1.starved]
    /\ pol \in [mode : {"DEFAULT", "BIND", "INTERLEAVE"}, nodes : SUBSET Nat]

\* Nothing is called before the constructor is through.
Untouched ==
    at \notin {"ready", "fini"} =>
        /\ sys \in Machines
        /\ DOMAIN cached = {} /\ Kept = {} /\ ret.call = "none"

\* Kept maps are of nodes there were and fit their masks, which are whole words.
MapsFit ==
    /\ DOMAIN cached \subseteq 0 .. numa_max_node /\ Kept \subseteq 0 .. numa_max_node
    /\ \A n \in DOMAIN cached : cached[n] \subseteq AllOnes
    /\ CpusSized => lib.cpumask_sz > 0 /\ lib.cpumask_sz % LongBits = 0

\* Whoever's memory the library may have kept, it had none of its own.
OwnerKnown ==
    v1.foreign \/ (\E n \in Kept : v1.masks[n].owner = "app") => v1.starved

\* The answer of numa_node_of_cpu, against what is cached.
NodeOfCpuKept ==
    ret.call = "numa_node_of_cpu" /\ Ready =>
        IF ret.val = Failed THEN \A n \in DOMAIN cached : ret.arg \notin cached[n] \/ cached[n] = AllOnes
        ELSE ret.val \in DOMAIN cached /\ ret.arg \in cached[ret.val]

CallInv == Typed /\ Untouched /\ MapsFit /\ OwnerKnown /\ NodeOfCpuKept

\* The machines MeasuredRight is for: get_mempolicy is tried up to the size of the kernel's node
\* masks, a guessed CPU mask has room for the configured CPUs and a CPU mask for
\* the nodes, and an affinity of more CPUs than are configured has all of those.
Ordinary ==
    \A m \in Machines :
        /\ m.nodeids <= LastTry /\ m.nodeids <= GuessedCpus /\ m.nodeids <= m.cpuids
        /\ m.nconf <= GuessedCpus
        /\ \A o \in Machines : Cardinality(o.runs) <= m.nconf \/ 0 .. m.nconf - 1 \subseteq o.runs

\* What each step of the constructor leaves for the next ones.
NodesFit ==
    /\ at # "numa_init" => sys.nodeids <= lib.nodemask_sz
    /\ NodesListed => IF told.nodes = None THEN numa_max_node = 0
                      ELSE /\ Sound(told.nodes) /\ told.nodes.nodeids = sys.nodeids
                           /\ numa_max_node = Max(told.nodes.nodes)
                           /\ at # "fini" => lib.numa_memnode_ptr = Mask(lib.nodemask_sz, told.nodes.nodes)

CpusFit ==
    /\ CpusSized => /\ sys.nodeids <= lib.cpumask_sz
                    /\ \A m \in Machines : m.cpuids = sys.cpuids => m.nconf <= lib.cpumask_sz
    /\ CpusCounted => \E m \in Machines : m.cpuids = sys.cpuids /\ hicpu = m.nconf - 1
    /\ at \notin {"compat", "ready", "fini"} => lib.numprocnode = -1 /\ lib.numproccpu = -1

MeasureInv ==
    /\ NodesFit /\ CpusFit
    /\ at \in {"compat", "ready"} => ConstraintsWhole /\ AllNodesExact /\ PossibleCoversAllowed

\* The masks that lists are read against have the size of the masks that are returned, with no
\* bits beyond it, but for that of the possible nodes, whose nodes there were.
MasksSized ==
    at \in {"compat", "ready"} /\ told.status # None =>
        /\ lib.numa_all_nodes_ptr.size = lib.nodemask_sz
        /\ \A n \in lib.numa_all_nodes_ptr.bits : n < lib.nodemask_sz
        /\ lib.numa_all_cpus_ptr.size = lib.cpumask_sz /\ lib.numa_possible_cpus_ptr.size = lib.cpumask_sz
        /\ Seen(lib.numa_possible_nodes_ptr) \subseteq 0 .. numa_max_node
=============================================================================
