------------------------------- MODULE RunOn -------------------------------
(***************************************************************************)
(* CPU affinity by node (libnuma.c, syscall.c): numa_run_on_node and its   *)
(* mask forms, numa_get_run_node_mask, numa_node_of_cpu and                *)
(* numa_is_cpuless_node, called by one thread after numa_init.  The map    *)
(* from nodes to CPUs is cached; NodeCpuCache has the steps of a lookup.   *)
(***************************************************************************)
EXTENDS LibInit

VARIABLES
    cached,     \* node_cpu_mask_v2: the CPUs of the nodes looked up
    stale,      \* node_cpu_mask_v2_stale
    v1,         \* node_cpu_mask_v1, its stale flag and the fate of its memory, see Compat
    ret         \* the last call with its arguments and its result

Returned(call, arg, val) == ret' = [call |-> call, arg |-> arg, val |-> val]

RunOnInit ==
    /\ cached = [n \in {} |-> {}] /\ stale = TRUE
    /\ v1 = [masks |-> [n \in {} |-> {}], stale |-> TRUE, foreign |-> FALSE, starved |-> FALSE]
    /\ ret = [call |-> "none", arg |-> {}, val |-> 0]

NodeBits(m, S) == {n \in S : numa_bitmask_isbitset(m, n)}
AllOnes == 0 .. lib.cpumask_sz - 1
----------------------------------------------------------------------------
(* numa_node_to_cpus, for the nodes of S one after the other. *)

\* Mutant: a node that came later is looked up.
InRangeAll(S) == S

\* Numbers above the highest node are refused at once.
InRange(S) == S \cap (0 .. numa_max_node)

\* The cpumap file of a node; those in bad cannot be read now.
ReadMap(n, bad) ==
    IF n \notin InRange(sys.nodes \ bad) THEN [ret |-> Failed, mask |-> allocate_cpumask]
    ELSE numa_parse_bitmap(Printed(sys.cpumap[n], sys.cpuids), allocate_cpumask)

\* What stands for a map that cannot be read.
Unread == AllOnes

\* The first lookup of the call takes the stale flag.
MustRead(n, S) == n \notin DOMAIN cached \/ (stale /\ n = Min(InRange(S)))

Found(n, S, bad) ==
    IF ~MustRead(n, S) THEN cached[n]
    ELSE IF ReadMap(n, bad).ret = 0 THEN ReadMap(n, bad).mask.bits ELSE Unread
Reads(n, S, bad) == ~MustRead(n, S) \/ ReadMap(n, bad).ret = 0

\* A map that was read is kept, and a refresh that failed is kept as well.
LookedUp(S, bad) ==
    /\ cached' = [n \in DOMAIN cached \cup {x \in S : Reads(x, S, bad)} |->
                    IF n \in S THEN Found(n, S, bad) ELSE cached[n]]
    /\ stale' = (stale /\ InRange(S) = {})

numa_node_to_cpu_update ==
    /\ stale' = TRUE /\ v1' = [v1 EXCEPT !.stale = TRUE]
    /\ Returned("numa_node_to_cpu_update", {}, 0)
    /\ UNCHANGED <<sys, cached>>
----------------------------------------------------------------------------
(* The kernel: sched_setaffinity refuses a mask without a usable CPU,      *)
(* sched_getaffinity a buffer that is too short.                           *)

SetaffinityOK(cpus) == cpus \cap sys.cpus # {}

\* numa_sched_setaffinity, and what the caller returns.
numa_sched_setaffinity(call, arg, cpus) ==
    /\ sys' = IF SetaffinityOK(cpus) THEN [sys EXCEPT !.runs = cpus \cap sys.cpus] ELSE sys
    /\ Returned(call, arg, IF SetaffinityOK(cpus) THEN 0 ELSE Failed)

GetaffinityOK == lib.cpumask_sz >= sys.cpuids
----------------------------------------------------------------------------
\* Mutant: a node whose map cannot be read stands for all CPUs.
CpusOfUnchecked(S, T, bad) == UNION {Found(n, T, bad) : n \in S}

CpusOf(S, T, bad) == UNION {Found(n, T, bad) : n \in {x \in S : Reads(x, T, bad)}}

\* Nodes outside the mask allowed are skipped, and those that cannot be read.
RunOnMask(call, nodes, allowed, bad) ==
    LET S == NodeBits(allowed, nodes)
    IN /\ numa_sched_setaffinity(call, nodes, CpusOf(S, S, bad))
       /\ LookedUp(S, bad)
       /\ UNCHANGED v1

numa_run_on_node_mask(nodes, bad) ==
    RunOnMask("numa_run_on_node_mask", nodes, lib.numa_all_nodes_ptr, bad)
numa_run_on_node_mask_all(nodes, bad) ==
    RunOnMask("numa_run_on_node_mask_all", nodes, lib.numa_possible_nodes_ptr, bad)

numa_run_on_node(node, bad) ==
    /\ IF node \notin -1 .. lib.nodemask_sz - 1
          THEN /\ Returned("numa_run_on_node", {node}, Failed)
               /\ UNCHANGED <<sys, cached, stale>>
       ELSE IF node = -1
          THEN /\ numa_sched_setaffinity("numa_run_on_node", {node}, AllOnes)
               /\ UNCHANGED <<cached, stale>>
       ELSE /\ LookedUp({node}, bad)
            /\ IF Reads(node, {node}, bad)
                  THEN numa_sched_setaffinity("numa_run_on_node", {node},
                                              Found(node, {node}, bad))
                  ELSE Returned("numa_run_on_node", {node}, Failed) /\ UNCHANGED sys
    /\ UNCHANGED v1

\* Mutant: the loop ends before the highest node.
EveryNodeShort == 0 .. numa_max_node - 1

EveryNode == 0 .. numa_max_node

\* Mutant: the last word is left out unless it is full.
InWordsDown(cpus) == {c \in cpus : c < (numa_num_configured_cpus \div LongBits) * LongBits}

\* The words compared are those of the configured CPUs.
InWords(cpus) == {c \in cpus : c < Longs(numa_num_configured_cpus) * LongBits}

\* Nodes of S with a CPU the process may run on, in a mask of size.
RunNodes(S, size, bad) ==
    {n \in S : /\ Reads(n, S, bad) /\ n < size
               /\ InWords(Found(n, S, bad)) \cap sys.runs # {}}

GetRunNodes(call, S, size, bad) ==
    /\ IF ~GetaffinityOK
          THEN Returned(call, {}, {}) /\ UNCHANGED <<cached, stale>>
          ELSE Returned(call, {}, RunNodes(S, size, bad)) /\ LookedUp(S, bad)
    /\ UNCHANGED <<sys, v1>>

numa_get_run_node_mask(bad) ==
    GetRunNodes("numa_get_run_node_mask", NodeBits(lib.numa_all_nodes_ptr, EveryNode),
                lib.cpumask_sz, bad)

\* numa_node_of_cpu: the first node that has the CPU; the lookups end with it.
numa_node_of_cpu(cpu, bad) ==
    LET all == EveryNode
        hits == {n \in all : Reads(n, all, bad) /\ cpu \in Found(n, all, bad)}
    IN /\ IF cpu > lib.cpumask_sz
             THEN Returned("numa_node_of_cpu", cpu, Failed) /\ UNCHANGED <<cached, stale>>
          ELSE IF cpu = lib.cpumask_sz \/ hits = {}
             THEN Returned("numa_node_of_cpu", cpu, Failed) /\ LookedUp(all, bad)
          ELSE Returned("numa_node_of_cpu", cpu, Min(hits)) /\ LookedUp(0 .. Min(hits), bad)
       /\ UNCHANGED <<sys, v1>>

\* numa_is_cpuless_node does not look at whether the map could be read.
numa_is_cpuless_node(node, bad) ==
    /\ IF node \notin 0 .. numa_max_node
          THEN /\ Returned("numa_is_cpuless_node", node, Failed)
               /\ UNCHANGED <<cached, stale>>
          ELSE /\ Returned("numa_is_cpuless_node", node,
                           IF Found(node, {node}, bad) = {} THEN 1 ELSE 0)
               /\ LookedUp({node}, bad)
    /\ UNCHANGED <<sys, v1>>
=============================================================================
