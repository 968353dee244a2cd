---------------------------- MODULE MCMemPolicy ----------------------------
(* Workloads, kernels and symmetry for checking MemPolicy with TLC. *)
EXTENDS MemPolicy, FiniteSetsExt, TLC

CONSTANTS t1, t2, r1

MCSymmetry == Permutations({t1, t2})

NewKernel == Features
OldKernel == Features \ {"many"}

\* Three calls in all, begun or over: a probe by each thread and one that sets a policy before, for
\* instance, or a thread that probes twice while the other one does.
ThreeCalls ==
    MapThenSumSet(LAMBDA t : ops[t] + (IF pc[t] = "idle" THEN 0 ELSE 1), Threads) <= 3

\* A third call only right after numa_bind or numa_node_to_cpu_update, where it may refresh
\* masks of the CPU cache, and a fourth only where that has spoilt one.
LaterCallsOnCache ==
    \A t \in Threads :
        \/ ops[t] < 2 \/ pc[t] # "idle"
        \/ /\ last[t].op \in {"bind", "update"} /\ ~fail_alloc
           /\ \A r \in Regions : ~region[r].mapped
           /\ \/ cpu_stale /\ \E n \in Nodes : cpu_mask[n] # "none"
              \/ \E n \in Nodes : cpu_mask[n] = "ones"
=============================================================================
