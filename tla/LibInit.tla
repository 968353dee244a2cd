------------------------------ MODULE LibInit ------------------------------
(***************************************************************************)
(* numa_init (libnuma.c): the constructor of the library measures the      *)
(* machine once, from /proc/self/status, sysfs and two system calls, and   *)
(* keeps sizes, counts and masks that every later call relies on.  Each    *)
(* source can be missing, and the machine may change between two of them.  *)
(***************************************************************************)
EXTENDS Bitmap, FiniteSetsExt

CONSTANTS Machines,     \* the machines there may be, see Machine
          MaxFaults,    \* bound on what goes wrong: see faults
          FirstTry,     \* node mask size before the first try without /proc
          LastTry,      \* ... and the size at which the tries end
          GuessedCpus   \* bits of a cpu_set_t

\* maxnodes and cpuids are the sizes of the kernel's masks, nodeids the bound it
\* has on node numbers; nodes are the node directories, mems the nodes the
\* cpuset leaves, cpus its CPUs, nconf the configured CPUs, runs the affinity
\* of the process, cpumap the CPUs of each node; without cpusets the status file
\* has no line Mems_allowed.
Machine(N) ==
    [maxnodes : Nat, nodeids : Nat, cpuids : Nat, nconf : Nat, cpusets : BOOLEAN,
     nodes : SUBSET Nat, mems : SUBSET Nat, cpus : SUBSET Nat, runs : SUBSET Nat,
     cpumap : [N -> SUBSET Nat]]

\* What a kernel guarantees.
Sound(m) ==
    /\ m \in Machine(m.nodes)
    /\ m.nodeids \in 1 .. m.maxnodes /\ m.maxnodes % 4 = 0
    /\ m.cpuids \in Nat \ {0} /\ m.nconf \in 1 .. m.cpuids
    /\ m.nodes \in (SUBSET (0 .. m.nodeids - 1)) \ {{}}
    /\ m.mems \in (SUBSET m.nodes) \ {{}} /\ (~m.cpusets => m.mems = m.nodes)
    /\ m.cpus \in (SUBSET (0 .. m.cpuids - 1)) \ {{}}
    /\ m.runs \in (SUBSET (0 .. m.cpuids - 1)) \ {{}}
    /\ \A n \in m.nodes : m.cpumap[n] \subseteq 0 .. m.cpuids - 1

ASSUME LibInitAssumption ==
    /\ \A m \in Machines : Sound(m)
    /\ MaxFaults \in Nat
    /\ FirstTry \in Nat \ {0} /\ LastTry \in Nat \ {0}
    /\ FirstTry * 2 ^ LastTry >= LastTry    \* the tries end
    /\ GuessedCpus \in Nat \ {0} /\ GuessedCpus % LongBits = 0

Steps == {"numa_init", "set_configured_nodes", "set_numa_max_cpu", "set_configured_cpus",
          "set_task_constraints", "compat", "ready", "fini"}

VARIABLES
    sys,        \* the machine
    faults,     \* unreadable files, failed calls and changes of the machine so far
    at,         \* where the constructor is
    lib,        \* the static variables of libnuma.c
    told        \* what the constructor was shown: the machine of each file, or None

None == [unread |-> TRUE]
NoMask == Mask(0, {})

Unmeasured ==
    [nodemask_sz |-> 0, cpumask_sz |-> 0, maxconfigurednode |-> -1, maxconfiguredcpu |-> -1,
     numprocnode |-> -1, numproccpu |-> -1,
     numa_nodes_ptr |-> NoMask, numa_memnode_ptr |-> NoMask, numa_no_nodes_ptr |-> NoMask,
     numa_all_nodes_ptr |-> NoMask, numa_possible_nodes_ptr |-> NoMask,
     numa_all_cpus_ptr |-> NoMask, numa_possible_cpus_ptr |-> NoMask,
     numa_all_nodes |-> {}]

InitLib ==
    /\ sys \in Machines /\ faults = 0
    /\ at = "numa_init" /\ lib = Unmeasured
    /\ told = [nodes |-> None, status |-> None]
----------------------------------------------------------------------------
(* Sizes.  numa_num_possible_nodes and _cpus are the fields themselves. *)

allocate_nodemask == numa_bitmask_alloc(lib.nodemask_sz)
allocate_cpumask == numa_bitmask_alloc(lib.cpumask_sz)

\* The tries double the size until get_mempolicy no longer says EINVAL.
Tries == {FirstTry * 2 ^ k : k \in 1 .. LastTry}
TriedSize == Min({s \in Tries : s >= sys.nodeids \/ s >= LastTry})

\* Every hexadecimal digit of Mems_allowed stands for four nodes.
set_nodemask_size(readable) ==
    /\ at = "numa_init" /\ at' = "set_configured_nodes"
    /\ lib' = [lib EXCEPT !.nodemask_sz = IF readable /\ sys.cpusets
                                            THEN howmany(sys.maxnodes, 4) * 4 ELSE TriedSize]
    /\ UNCHANGED told

HighestNode(S) == IF S = {} THEN -1 ELSE Max(S)

set_configured_nodes(readable) ==
    /\ at = "set_configured_nodes" /\ at' = "set_numa_max_cpu"
    /\ LET found == IF readable THEN sys.nodes ELSE {}
           nodes == SetBits(allocate_nodemask, found)
       IN lib' = [lib EXCEPT !.numa_nodes_ptr = nodes, !.numa_memnode_ptr = nodes,
                             !.maxconfigurednode = IF readable THEN HighestNode(found) ELSE 0]
    /\ told' = [told EXCEPT !.nodes = IF readable THEN sys ELSE None]

\* sched_getaffinity tells the size of the kernel's mask in bytes; when it cannot
\* be called the size of a cpu_set_t is taken.
set_numa_max_cpu(works) ==
    /\ at = "set_numa_max_cpu" /\ at' = "set_configured_cpus"
    /\ lib' = [lib EXCEPT !.cpumask_sz = IF works THEN round_up(sys.cpuids, LongBits)
                                                  ELSE GuessedCpus]
    /\ UNCHANGED told

set_configured_cpus ==
    /\ at = "set_configured_cpus" /\ at' = "set_task_constraints"
    /\ lib' = [lib EXCEPT !.maxconfiguredcpu = sys.nconf - 1]
    /\ UNCHANGED told
----------------------------------------------------------------------------
(* set_task_constraints *)

hicpu == lib.maxconfiguredcpu

\* Allowed CPUs and their number, from the count and the mask read_mask gave.
\* Mutant: surplus bits stay in the mask.
CpuConstraintUnclipped(r) ==
    IF r.ret <= 0
    THEN [ret |-> hicpu + 1, mask |-> SetBits(r.mask, 0 .. hicpu)]
    ELSE [r EXCEPT !.ret = IF @ > hicpu + 1 THEN hicpu + 1 ELSE @]

CpuConstraint(r) ==
    IF r.ret <= 0
    THEN [ret |-> hicpu + 1, mask |-> SetBits(r.mask, 0 .. hicpu)]
    ELSE IF r.ret > hicpu + 1
    THEN [ret |-> hicpu + 1, mask |-> ClearBits(r.mask, hicpu + 1 .. r.mask.size - 1)]
    ELSE r

PossibleNodes == 0 .. lib.maxconfigurednode

NodeConstraint(r) ==
    IF r.ret <= 0
    THEN [ret |-> lib.maxconfigurednode + 1,
          mask |-> SetBits(r.mask, 0 .. lib.maxconfigurednode)]
    ELSE r

\* The masks before anything is read; that of possible nodes has the size of a
\* CPU mask.
Allocated ==
    [lib EXCEPT !.numa_all_cpus_ptr = allocate_cpumask,
                !.numa_possible_cpus_ptr = allocate_cpumask,
                !.numa_all_nodes_ptr = allocate_nodemask,
                !.numa_possible_nodes_ptr = allocate_cpumask,
                !.numa_no_nodes_ptr = allocate_nodemask]

\* read_mask on the two lines of the status file.
CpusLine == read_mask(Printed(sys.runs, sys.cpuids), allocate_cpumask)
MemsLine ==
    IF sys.cpusets THEN read_mask(Printed(sys.mems, sys.maxnodes), allocate_nodemask)
                   ELSE [ret |-> lib.numprocnode, mask |-> allocate_nodemask]

\* Without /proc/self/status the function returns with empty masks and no counts.
set_task_constraints(readable) ==
    /\ at = "set_task_constraints" /\ at' = "compat"
    /\ LET C == CpuConstraint(CpusLine)
           N == NodeConstraint(MemsLine)
       IN lib' = IF ~readable THEN Allocated
                 ELSE [Allocated EXCEPT
                        !.numa_all_cpus_ptr = C.mask, !.numproccpu = C.ret,
                        !.numa_all_nodes_ptr = N.mask, !.numprocnode = N.ret,
                        !.numa_possible_cpus_ptr = SetBits(@, 0 .. hicpu),
                        !.numa_possible_nodes_ptr = SetBits(@, PossibleNodes)]
    /\ told' = [told EXCEPT !.status = IF readable THEN sys ELSE None]
----------------------------------------------------------------------------
(* What the calls report. *)

numa_max_node == lib.maxconfigurednode
numa_num_configured_nodes ==
    Cardinality({n \in 0 .. lib.maxconfigurednode :
                    numa_bitmask_isbitset(lib.numa_memnode_ptr, n)})
numa_num_configured_cpus == lib.maxconfiguredcpu + 1
numa_num_task_nodes == lib.numprocnode

\* The end of numa_init: the version 1 mask of all nodes.
SetAllNodes ==
    /\ at = "compat" /\ at' = "ready"
    /\ lib' = [lib EXCEPT !.numa_all_nodes = 0 .. numa_num_configured_nodes - 1]
    /\ UNCHANGED told

numa_fini ==
    /\ at = "ready" /\ at' = "fini"
    /\ lib' = [lib EXCEPT !.numa_all_cpus_ptr = NoMask, !.numa_possible_cpus_ptr = NoMask,
                          !.numa_all_nodes_ptr = NoMask, !.numa_possible_nodes_ptr = NoMask,
                          !.numa_no_nodes_ptr = NoMask, !.numa_memnode_ptr = NoMask,
                          !.numa_nodes_ptr = NoMask]
    /\ UNCHANGED told

\* Each failure uses up one of MaxFaults.
Fault(happens) ==
    /\ faults' = faults + (IF happens THEN 1 ELSE 0)
    /\ faults' <= MaxFaults

Start ==
    /\ \E works \in BOOLEAN :
        /\ Fault(~works)
        /\ \/ set_nodemask_size(works) \/ set_configured_nodes(works)
           \/ set_numa_max_cpu(works) \/ set_task_constraints(works)
           \/ works /\ (set_configured_cpus \/ SetAllNodes)
    /\ UNCHANGED sys

\* The administrator moves the cpuset, or nodes and CPUs come and go.
Change ==
    /\ Fault(TRUE)
    /\ \E m \in Machines \ {sys} :
        /\ m.maxnodes = sys.maxnodes /\ m.nodeids = sys.nodeids /\ m.cpuids = sys.cpuids
        /\ sys' = m
    /\ UNCHANGED <<at, lib, told>>
=============================================================================
