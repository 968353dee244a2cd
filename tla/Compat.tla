------------------------------- MODULE Compat -------------------------------
(***************************************************************************)
(* The version 1 interface (libnuma.c): masks of a fixed number of nodes,  *)
(* the global mask numa_all_nodes, and a node to CPU cache of its own that *)
(* keeps the memory it was built in, whoever owns it.                      *)
(***************************************************************************)
EXTENDS RunOn

CONSTANT NUMA_NUM_NODES     \* bits of a nodemask_t

ASSUME CompatAssumption == NUMA_NUM_NODES \in Nat /\ NUMA_NUM_NODES % 8 = 0

VARIABLE pol    \* memory policy of the process

Policy(mode, nodes) == [mode |-> mode, nodes |-> nodes]
Default == Policy("DEFAULT", {})
----------------------------------------------------------------------------
(* The kernel reads one bit less than it is told of and keeps the nodes of *)
(* the cpuset; a policy without nodes is refused.                          *)

KernelNodes(nodes, size) == {n \in nodes : n < size - 1} \cap sys.mems

Setpol(call, mode, nodes, size) ==
    LET kept == KernelNodes(nodes, size)
        ok == mode = "DEFAULT" \/ kept # {}
    IN /\ pol' = IF ~ok THEN pol ELSE IF mode = "DEFAULT" THEN Default ELSE Policy(mode, kept)
       /\ Returned(call, nodes, IF ok THEN 0 ELSE Failed)

\* sizeof(nodemask_t): bytes, where the calls mean bits.
sizeof_nodemask == NUMA_NUM_NODES \div 8

numa_set_membind_v1(nodes) ==
    /\ Setpol("numa_set_membind_v1", "BIND", nodes, sizeof_nodemask)
    /\ UNCHANGED <<sys, cached, stale, v1, lib>>

\* The copy to a bitmask has its right size.
numa_set_interleave_mask_v1(nodes) ==
    /\ Setpol("numa_set_interleave_mask_v1", IF nodes = {} THEN "DEFAULT" ELSE "INTERLEAVE",
              nodes, NUMA_NUM_NODES)
    /\ UNCHANGED <<sys, cached, stale, v1, lib>>

HasMode(mode) == pol.mode = mode

numa_get_interleave_mask_v1 ==
    /\ Returned("numa_get_interleave_mask_v1", {},
                IF HasMode("INTERLEAVE") THEN pol.nodes ELSE {})
    /\ UNCHANGED <<sys, cached, stale, v1, pol, lib>>

\* Any policy but BIND puts its nodes, and so none, in numa_all_nodes.
numa_get_membind_v1 ==
    /\ Returned("numa_get_membind_v1", {}, pol.nodes)
    /\ lib' = IF HasMode("BIND") THEN lib ELSE [lib EXCEPT !.numa_all_nodes = pol.nodes]
    /\ UNCHANGED <<sys, cached, stale, v1, pol>>

\* Mutant: only the memory is bound.
BindMemoryOnly(nodes, bad) ==
    /\ Setpol("numa_bind_v1", "BIND", nodes, sizeof_nodemask)
    /\ LookedUp({n \in nodes : n < sizeof_nodemask}, bad)
    /\ UNCHANGED <<sys, v1, lib>>

\* numa_bind_v1: the affinity by the version 2 call, then the policy.
numa_bind_v1(nodes, bad) ==
    LET seen == {n \in nodes : n < sizeof_nodemask}
        S == NodeBits(lib.numa_all_nodes_ptr, seen)
        cpus == CpusOf(S, S, bad)
    IN /\ sys' = IF SetaffinityOK(cpus) THEN [sys EXCEPT !.runs = cpus \cap sys.cpus] ELSE sys
       /\ LookedUp(S, bad)
       /\ Setpol("numa_bind_v1", "BIND", nodes, sizeof_nodemask)
       /\ UNCHANGED <<v1, lib>>
----------------------------------------------------------------------------
(* numa_node_to_cpus_v1, for the nodes of S one after the other.  In v1,    *)
(* masks gives the CPUs kept for a node and who owns the memory they are    *)
(* in, stale is the flag, foreign is set when memory of the application is  *)
(* used after the call it was given to, starved when a malloc has failed.   *)

\* Mutant: the answer is kept in the caller's buffer.
OwnerCaller(memory) == "app"

\* Without memory the mask is built in the caller's buffer.
Owner(memory) == IF memory THEN "lib" ELSE "app"

Kept == DOMAIN v1.masks

\* The map is read when there is none, or by the first lookup after the flag was set.
MustRead1(n, S) == n \notin Kept \/ (v1.stale /\ n = Min(InRange(S)))

Found1(n, S, bad) ==
    IF ~MustRead1(n, S) THEN v1.masks[n].cpus
    ELSE IF ReadMap(n, bad).ret = 0 THEN ReadMap(n, bad).mask.bits ELSE Unread
Err1(n, S, bad) == IF ~MustRead1(n, S) THEN 0 ELSE ReadMap(n, bad).ret

\* The map is kept whether it could be read or not.  Kept memory is overwritten where
\* there is some, and the new one freed, whoever owns it.
LookedUp1(S, bad, memory) ==
    LET read == {n \in InRange(S) : MustRead1(n, S)}
        Memory(n) == IF n \in Kept THEN v1.masks[n].owner ELSE Owner(memory)
    IN v1' = [masks |-> [n \in Kept \cup InRange(S) |->
                            IF n \in read THEN [cpus |-> Found1(n, S, bad), owner |-> Memory(n)]
                            ELSE v1.masks[n]],
              stale |-> v1.stale /\ InRange(S) = {},
              foreign |-> \/ v1.foreign
                          \/ \E n \in Kept \cap InRange(S) : v1.masks[n].owner = "app"
                          \/ read \cap Kept # {} /\ Owner(memory) = "app",
              starved |-> v1.starved \/ (read # {} /\ ~memory)]

numa_node_to_cpus_v1(n, bad, memory) ==
    /\ Returned("numa_node_to_cpus_v1", n,
                IF n \notin 0 .. numa_max_node THEN [err |-> Failed, cpus |-> {}]
                ELSE [err |-> Err1(n, {n}, bad), cpus |-> Found1(n, {n}, bad)])
    /\ LookedUp1({n}, bad, memory)
    /\ UNCHANGED <<sys, cached, stale, pol, lib>>

\* The application writes what it likes to memory of its own, the library's cache or not.
AppWrites ==
    /\ at = "ready"
    /\ \E n \in Kept, cpus \in {{}, AllOnes} :
        /\ v1.masks[n].owner = "app"
        /\ v1' = [v1 EXCEPT !.masks[n].cpus = cpus]
    /\ UNCHANGED <<sys, cached, stale, pol, lib, ret>>

\* The lookups go into a buffer on the stack.  A mask that is refused is tried
\* again in longer buffers, which does not help.
numa_run_on_node_mask_v1(nodes, bad, memory) ==
    LET S == {n \in nodes : n < NUMA_NUM_NODES}
        good == {n \in InRange(S) : Err1(n, S, bad) = 0}
    IN /\ numa_sched_setaffinity("numa_run_on_node_mask_v1", nodes,
                                 UNION {Found1(n, S, bad) : n \in good})
       /\ LookedUp1(S, bad, memory)
       /\ UNCHANGED <<cached, stale, pol, lib>>

\* The nodes are not cut to the cpuset.
numa_get_run_node_mask_v1(bad) ==
    /\ GetRunNodes("numa_get_run_node_mask_v1", EveryNode, NUMA_NUM_NODES, bad)
    /\ UNCHANGED <<pol, lib>>
=============================================================================
