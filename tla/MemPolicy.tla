----------------------------- MODULE MemPolicy -----------------------------
(***************************************************************************)
(* The memory-policy calls of libnuma (libnuma.c): the task policy set and *)
(* read through set_mempolicy and get_mempolicy, the policy of memory      *)
(* ranges set through mbind, the per-thread bind_policy and mbind_flags,   *)
(* the affinity part of numa_bind, and the two run-time probes of kernel   *)
(* features (set_preferred_many, numa_has_home_node) with their process-   *)
(* wide flags.  The kernel is modelled by what these calls rely on.        *)
(***************************************************************************)
EXTENDS Integers, FiniteSets, FiniteSetsExt

CONSTANTS Threads,
          NNodes,       \* numa_num_possible_nodes()
          CpuNodes,     \* the nodes that have CPUs
          Supports,     \* features of the running kernel
          Regions,      \* memory ranges the application maps
          CpusetMoves,  \* the administrator may change the cpuset
          ReadsFail,    \* get_mempolicy may fail, and a cpumap be unreadable
          Calls,        \* the library calls the application makes
          Flags,        \* the error flags the application may set
          MaxOps        \* bound on the library calls of one thread

Features == {"many", "balancing", "weighted", "home"}

\* "has", "strict", "loose", "set" are numa_has_preferred_many,
\* numa_set_bind_policy(1) and (0), numa_set_preferred_many.
ProbingCalls == {"has", "strict", "loose", "set"}
TaskPolicyCalls == {"interleave", "weighted", "membind", "balancing", "preferred", "localalloc",
                    "set_strict", "bind", "update", "home"}
RangeCalls == {"interleave_memory", "weighted_memory", "tonode", "tonodemask", "setlocal",
               "set_home", "police", "free", "realloc"}
AllocCalls == {"alloc_onnode", "alloc_local", "alloc_interleaved", "alloc_weighted"}
AllCalls == ProbingCalls \cup TaskPolicyCalls \cup RangeCalls \cup AllocCalls \cup {"alloc"}

ASSUME ConstantsAssumption ==
    /\ NNodes \in Nat \ {0}
    /\ CpuNodes \subseteq 0 .. NNodes - 1
    /\ Supports \subseteq Features
    /\ CpusetMoves \in BOOLEAN /\ ReadsFail \in BOOLEAN /\ MaxOps \in Nat
    /\ Calls \subseteq AllCalls
    /\ Flags \subseteq {"exit_on_error", "exit_on_warn", "fail_alloc"}

Nodes == 0 .. NNodes - 1
NodeArgs == -1 .. NNodes
Modes == {"DEFAULT", "LOCAL", "PREFERRED", "MANY", "BIND", "BALANCED", "INTERLEAVE", "WEIGHTED"}
Policies == [mode : Modes, nodes : SUBSET Nodes]
Default == [mode |-> "DEFAULT", nodes |-> {}]

VARIABLES
    \* the kernel
    allowed,      \* nodes the cpuset of the process allows
    pol,          \* memory policy of every thread
    run,          \* nodes on whose CPUs a thread may run
    \* the library
    all_nodes,    \* numa_all_nodes_ptr
    many,         \* has_preferred_many
    home,         \* has_home_node
    bind_policy,  \* thread-local
    strict,       \* thread-local mbind_flags has MPOL_MF_STRICT
    cpu_mask,     \* node_cpu_mask_v2: "none", the node's "own" CPUs, or all "ones"
    cpu_stale,    \* node_cpu_mask_v2_stale
    \* the application
    exit_on_error, exit_on_warn, fail_alloc,   \* the numa_... flags it sets at its start
    exited,
    region,       \* state and policy of every memory range
    \* the call a thread is in
    pc, op, arg, old, tmp,
    entry,        \* history: the policy of the thread when its call began
    moved,        \* history: the cpuset changed during the call of the thread
    last,         \* history: the last finished call of every thread
    ops,
    misled        \* history: a probe was told a lie, see ProbeQuery and CpusetChange

kernel == <<allowed, pol, run>>
cpumaps == <<cpu_mask, cpu_stale>>
library == <<all_nodes, many, home, bind_policy, strict, cpumaps>>
flags == <<exit_on_error, exit_on_warn, fail_alloc>>
app == <<flags, exited, region>>
locals == <<op, arg, old, tmp, entry, moved>>
frame == <<pc, locals>>
history == <<last, ops, misled>>
vars == <<kernel, library, app, frame, history>>

Unmapped == [mapped |-> FALSE, touched |-> FALSE, by |-> "none", policy |-> Default]
NoCall == [op |-> "none", nodes |-> {}, failed |-> FALSE, value |-> 0]

Init ==
    /\ allowed \in (SUBSET Nodes) \ {{}}
    /\ pol = [t \in Threads |-> Default]
    /\ run = [t \in Threads |-> CpuNodes]
    /\ all_nodes = allowed
    /\ many = -1 /\ home = -1
    /\ bind_policy = [t \in Threads |-> "BIND"]
    /\ strict = [t \in Threads |-> FALSE]
    /\ cpu_mask = [n \in Nodes |-> "none"] /\ cpu_stale = FALSE
    /\ exit_on_error \in {FALSE, "exit_on_error" \in Flags}
    /\ exit_on_warn \in {FALSE, "exit_on_warn" \in Flags}
    /\ fail_alloc \in {FALSE, "fail_alloc" \in Flags}
    /\ exited = FALSE
    /\ region = [r \in Regions |-> Unmapped]
    /\ pc = [t \in Threads |-> "idle"]
    /\ op = [t \in Threads |-> "none"]
    /\ arg = [t \in Threads |-> {}]
    /\ old = [t \in Threads |-> Default]
    /\ tmp = [t \in Threads |-> {}]
    /\ entry = [t \in Threads |-> Default]
    /\ moved = [t \in Threads |-> FALSE]
    /\ last = [t \in Threads |-> NoCall]
    /\ ops = [t \in Threads |-> 0]
    /\ misled = FALSE

----------------------------------------------------------------------------
(* The kernel. *)

\* Does the kernel accept a policy?  Only nodes of the cpuset, S, count.
AcceptsIn(S, mode, nodes) ==
    CASE mode \in {"DEFAULT", "LOCAL"} -> nodes = {}
      [] mode = "PREFERRED" -> nodes = {} \/ nodes \cap S # {}
      [] mode = "MANY" -> "many" \in Supports /\ nodes \cap S # {}
      [] mode = "BALANCED" -> "balancing" \in Supports /\ nodes \cap S # {}
      [] mode = "WEIGHTED" -> "weighted" \in Supports /\ nodes \cap S # {}
      [] OTHER -> nodes \cap S # {}

\* What it keeps of an accepted policy, and get_mempolicy gives back.
KeptIn(S, mode, nodes) ==
    CASE mode = "PREFERRED" /\ nodes = {} -> [mode |-> "LOCAL", nodes |-> {}]
      [] mode = "PREFERRED" /\ nodes # {} -> [mode |-> mode, nodes |-> {Min(nodes \cap S)}]
      [] OTHER -> [mode |-> mode, nodes |-> nodes \cap S]

Accepts(mode, nodes) == AcceptsIn(allowed, mode, nodes)
Kept(mode, nodes) == KeptIn(allowed, mode, nodes)

\* The cpuset of the process changes, and the kernel moves every policy.  A probe
\* that is about to try the nodes it was told tries the wrong ones.
CpusetChange(S) ==
    /\ CpusetMoves /\ ~exited /\ S # {} /\ S # allowed
    /\ allowed' = S
    /\ pol' = [t \in Threads |->
                 IF pol[t].nodes = {} \/ pol[t].nodes \subseteq S THEN pol[t]
                 ELSE [pol[t] EXCEPT !.nodes = IF @ \cap S # {} THEN @ \cap S ELSE {Min(S)}]]
    /\ moved' = [t \in Threads |-> moved[t] \/ pc[t] # "idle"]
    /\ misled' = (misled \/ \E t \in Threads : pc[t] = "try")
    /\ UNCHANGED <<run, library, app, pc, op, arg, old, tmp, entry, last, ops>>

\* What reading something of the kernel may come to.
Readable == IF ReadsFail THEN BOOLEAN ELSE {TRUE}

----------------------------------------------------------------------------
(* One call of the library that makes one system call. *)

Calling(t, name) == ~exited /\ pc[t] = "idle" /\ name \in Calls /\ ops[t] < MaxOps

Finish(t, name, nodes, failed, value) ==
    /\ last' = [last EXCEPT ![t] =
                  [op |-> name, nodes |-> nodes, failed |-> failed, value |-> value]]
    /\ ops' = [ops EXCEPT ![t] = @ + 1]
    /\ UNCHANGED misled

\* numa_error and numa_warn end the process if the application asked for it; a
\* warning printed only once makes no difference to that.
Numa_error(failed) == exited' = (failed /\ exit_on_error)
WarnExits(warns) == warns /\ exit_on_warn

\* setpol
Setpol(t, mode, nodes) ==
    pol' = IF Accepts(mode, nodes) THEN [pol EXCEPT ![t] = Kept(mode, nodes)] ELSE pol

\* A call that is one setpol.
PolicyCall(t, name, nodes, mode, kernelnodes) ==
    /\ Calling(t, name)
    /\ Setpol(t, mode, kernelnodes)
    /\ Numa_error(~Accepts(mode, kernelnodes))
    /\ Finish(t, name, nodes, ~Accepts(mode, kernelnodes), 0)
    /\ UNCHANGED <<allowed, run, library, flags, region, frame>>

Numa_set_interleave_mask(t, S) ==
    PolicyCall(t, "interleave", S, IF S = {} THEN "DEFAULT" ELSE "INTERLEAVE", S)

\* Mutant: the mode of numa_set_interleave_mask.
Numa_set_weighted_as_interleave(t, S) ==
    PolicyCall(t, "weighted", S, IF S = {} THEN "DEFAULT" ELSE "INTERLEAVE", S)

Numa_set_weighted_interleave_mask(t, S) ==
    PolicyCall(t, "weighted", S, IF S = {} THEN "DEFAULT" ELSE "WEIGHTED", S)

Numa_set_membind(t, S) == PolicyCall(t, "membind", S, "BIND", S)

\* Balancing is given up where the kernel says EINVAL.
Numa_set_membind_balancing(t, S) ==
    PolicyCall(t, "balancing", S, IF Accepts("BALANCED", S) THEN "BALANCED" ELSE "BIND", S)

\* numa_bitmask_setbit ignores a bit outside the mask, which leaves no node.
OneNode(n) == {n} \cap Nodes

Numa_set_preferred(t, n) ==
    PolicyCall(t, "preferred", OneNode(n), IF OneNode(n) = {} THEN "LOCAL" ELSE "PREFERRED",
               OneNode(n))

Numa_set_localalloc(t) == PolicyCall(t, "localalloc", {}, "LOCAL", {})

Numa_set_strict(t, flag) ==
    /\ Calling(t, "set_strict")
    /\ strict' = [strict EXCEPT ![t] = flag]
    /\ Finish(t, "set_strict", {}, FALSE, 0)
    /\ UNCHANGED <<kernel, all_nodes, many, home, bind_policy, cpumaps, app, frame>>

\* numa_node_to_cpu_update
Numa_node_to_cpu_update(t) ==
    /\ Calling(t, "update")
    /\ cpu_stale' = TRUE
    /\ Finish(t, "update", {}, FALSE, 0)
    /\ UNCHANGED <<kernel, all_nodes, many, home, bind_policy, strict, cpu_mask, app, frame>>

\* The nodes that numa_run_on_node_mask_v2 asks numa_node_to_cpus_v2 about; the
\* others are skipped with a warning.
Asked(S) == S \cap all_nodes

\* The cpumap files it opens for them: of nodes without a mask, and of the first
\* node after an update, which alone sees and clears the flag.
Opened(S) == {n \in Asked(S) : cpu_mask[n] = "none" \/ (cpu_stale /\ n = Min(Asked(S)))}

\* The masks afterwards, when the files of the nodes in bad could not be read:
\* such a read leaves an old mask all ones and makes no new one.
MasksAfter(S, bad) ==
    [n \in Nodes |-> CASE n \notin Opened(S) -> cpu_mask[n]
                       [] n \in Opened(S) \ bad -> "own"
                       [] n \in Opened(S) /\ n \in bad -> IF cpu_mask[n] = "none" THEN "none" ELSE "ones"]

\* The nodes whose CPUs the mask m of node n names.
CpusIn(m, n) == CASE m = "own" -> {n} \cap CpuNodes
                  [] m = "ones" -> CpuNodes
                  [] OTHER -> {}

\* Mutant: the error of numa_node_to_cpus_v2 is not looked at, and its buffer,
\* all ones then, is used.
RunNodesUnchecked(S, bad) ==
    UNION {IF n \in bad THEN CpuNodes ELSE CpusIn(MasksAfter(S, bad)[n], n) : n \in Asked(S)}

\* Where the thread is sent: a node that cannot be read is skipped with a warning.
RunNodes(S, bad) ==
    UNION {CpusIn(MasksAfter(S, bad)[n], n) : n \in Asked(S) \ bad}

\* Affinity first, where sched_setaffinity refuses a set without CPUs, then the
\* policy, each with its own error; an exit on a warning or on the first error
\* leaves the second undone.
Numa_bind(t, S) ==
    \E bad \in IF ReadsFail THEN SUBSET Nodes ELSE {{}} :
    LET warned == WarnExits(~(S \subseteq all_nodes) \/ bad # {})
        unplaced == RunNodes(S, bad) = {}
        failed == unplaced \/ ~Accepts("BIND", S)
    IN  /\ Calling(t, "bind")
        /\ bad \subseteq Opened(S)
        /\ cpu_mask' = MasksAfter(S, bad)
        /\ cpu_stale' = (cpu_stale /\ Asked(S) = {})
        /\ run' = IF warned \/ unplaced THEN run ELSE [run EXCEPT ![t] = RunNodes(S, bad)]
        /\ IF warned \/ (unplaced /\ exit_on_error) THEN UNCHANGED pol ELSE Setpol(t, "BIND", S)
        /\ exited' = (warned \/ (failed /\ exit_on_error))
        /\ Finish(t, "bind", S, failed, 0)
        /\ UNCHANGED <<allowed, all_nodes, many, home, bind_policy, strict, flags, region, frame>>
----------------------------------------------------------------------------
(* Memory ranges: dombind on mapped memory, mmap and dombind_or_free. *)

\* mbind: with MPOL_MF_STRICT it also refuses a range whose pages are already
\* elsewhere.  A refused policy changes nothing.
MemoryCall(t, name, r, mode, nodes) ==
    /\ Calling(t, name) /\ region[r].mapped
    /\ \E misplaced \in IF strict[t] /\ region[r].touched THEN BOOLEAN ELSE {FALSE} :
          LET failed == ~Accepts(mode, nodes) \/ misplaced
          IN  /\ region' = IF failed THEN region
                           ELSE [region EXCEPT ![r].policy = Kept(mode, nodes)]
              /\ Numa_error(failed)
              /\ Finish(t, name, nodes, failed, 0)
    /\ UNCHANGED <<kernel, library, flags, frame>>

Numa_interleave_memory(t, r, S) == MemoryCall(t, "interleave_memory", r, "INTERLEAVE", S)
Numa_weighted_interleave_memory(t, r, S) == MemoryCall(t, "weighted_memory", r, "WEIGHTED", S)
Numa_tonode_memory(t, r, n) == MemoryCall(t, "tonode", r, bind_policy[t], OneNode(n))
Numa_tonodemask_memory(t, r, S) == MemoryCall(t, "tonodemask", r, bind_policy[t], S)
Numa_setlocal_memory(t, r) == MemoryCall(t, "setlocal", r, "LOCAL", {})

Numa_police_memory(t, r) ==
    /\ Calling(t, "police") /\ region[r].mapped
    /\ region' = [region EXCEPT ![r].touched = TRUE]
    /\ Finish(t, "police", {}, FALSE, 0)
    /\ UNCHANGED <<kernel, library, flags, exited, frame>>

\* Mutant: numa_fail_alloc_on_error is ignored.
KeepsMappingAlways(mode, nodes) == TRUE

\* What dombind_or_free leaves mapped when mbind refuses the policy.
KeepsMapping(mode, nodes) == Accepts(mode, nodes) \/ ~fail_alloc

Mapped(name, mode, nodes) ==
    [mapped |-> TRUE, touched |-> FALSE, by |-> name,
     policy |-> IF Accepts(mode, nodes) THEN Kept(mode, nodes) ELSE Default]

AllocCall(t, name, r, mode, nodes) ==
    /\ Calling(t, name) /\ ~region[r].mapped
    /\ \/ /\ region' = IF KeepsMapping(mode, nodes)
                       THEN [region EXCEPT ![r] = Mapped(name, mode, nodes)]
                       ELSE region
          /\ Numa_error(~Accepts(mode, nodes))
          /\ Finish(t, name, nodes, ~Accepts(mode, nodes),
                    IF KeepsMapping(mode, nodes) THEN 1 ELSE 0)
       \/ \* mmap fails
          /\ Finish(t, name, nodes, TRUE, 0)
          /\ UNCHANGED <<region, exited>>
    /\ UNCHANGED <<kernel, library, flags, frame>>

Numa_alloc_onnode(t, r, n) == AllocCall(t, "alloc_onnode", r, bind_policy[t], OneNode(n))
Numa_alloc_local(t, r) == AllocCall(t, "alloc_local", r, "LOCAL", {})
Numa_alloc_interleaved_subset(t, r, S) == AllocCall(t, "alloc_interleaved", r, "INTERLEAVE", S)
Numa_alloc_interleaved(t, r) == Numa_alloc_interleaved_subset(t, r, all_nodes)
Numa_alloc_weighted_interleaved_subset(t, r, S) ==
    AllocCall(t, "alloc_weighted", r, "WEIGHTED", S)
Numa_alloc_weighted_interleaved(t, r) == Numa_alloc_weighted_interleaved_subset(t, r, all_nodes)

\* numa_alloc sets no policy and touches every page.
Numa_alloc(t, r) ==
    /\ Calling(t, "alloc") /\ ~region[r].mapped
    /\ \E mmaps \in BOOLEAN :
          /\ region' = IF mmaps
                       THEN [region EXCEPT ![r] =
                               [Mapped("alloc", "DEFAULT", {}) EXCEPT !.touched = TRUE]]
                       ELSE region
          /\ Finish(t, "alloc", {}, ~mmaps, IF mmaps THEN 1 ELSE 0)
    /\ UNCHANGED <<kernel, library, flags, exited, frame>>

\* mremap keeps the policy of the range, and the range when it fails.
Numa_realloc(t, r) ==
    /\ Calling(t, "realloc") /\ region[r].mapped
    /\ \E done \in BOOLEAN : Finish(t, "realloc", {}, ~done, IF done THEN 1 ELSE 0)
    /\ UNCHANGED <<kernel, library, app, frame>>

\* A home node is for ranges with a policy that takes one.
Numa_set_mempolicy_home_node(t, r, n) ==
    LET failed == ~(/\ "home" \in Supports /\ n \in allowed
                    /\ region[r].policy.mode \in {"BIND", "MANY"})
    IN  /\ Calling(t, "set_home") /\ region[r].mapped
        /\ Numa_error(failed)
        /\ Finish(t, "set_home", OneNode(n), failed, 0)
        /\ UNCHANGED <<kernel, library, flags, region, frame>>

Numa_free(t, r) ==
    /\ Calling(t, "free") /\ region[r].mapped
    /\ region' = [region EXCEPT ![r] = Unmapped]
    /\ Finish(t, "free", {}, FALSE, 0)
    /\ UNCHANGED <<kernel, library, flags, exited, frame>>

----------------------------------------------------------------------------
(* Calls that first probe the kernel for MPOL_PREFERRED_MANY. *)

StartProbe(t, name, S) ==
    /\ Calling(t, name)
    /\ pc' = [pc EXCEPT ![t] = IF name = "home" THEN "home_test" ELSE "test"]
    /\ op' = [op EXCEPT ![t] = name]
    /\ arg' = [arg EXCEPT ![t] = S]
    /\ entry' = [entry EXCEPT ![t] = pol[t]]
    /\ UNCHANGED <<kernel, library, app, old, tmp, moved, history>>

Goto(t, from, to) == ~exited /\ pc[t] = from /\ pc' = [pc EXCEPT ![t] = to]

ProbeTest(t) ==
    /\ Goto(t, "test", IF many >= 0 THEN "probed" ELSE "clear")
    /\ UNCHANGED <<kernel, library, app, locals, history>>

\* The flag says "no" while the probe runs.
ProbeClear(t) ==
    /\ Goto(t, "clear", "query")
    /\ many' = 0
    /\ UNCHANGED <<kernel, all_nodes, home, bind_policy, strict, cpumaps, app, locals, history>>

\* numa_get_mems_allowed, which lists no node when it fails and tells numa_error
\* so, and the get_mempolicy of the old policy, without which the probe gives up.
ProbeQuery(t) ==
    \E listed \in Readable, known \in Readable :
       /\ Goto(t, "query", IF known THEN "try" ELSE "probed")
       /\ tmp' = [tmp EXCEPT ![t] = IF listed THEN allowed ELSE {}]
       /\ old' = [old EXCEPT ![t] = IF known THEN pol[t] ELSE Default]
       /\ Numa_error(~listed)
       /\ misled' = (misled \/ ~listed \/ ~known)
       /\ UNCHANGED <<kernel, library, flags, region, op, arg, entry, moved, last, ops>>

ProbeTry(t) ==
    /\ Goto(t, "try", IF Accepts("MANY", tmp[t]) THEN "mark" ELSE "probed")
    /\ Setpol(t, "MANY", tmp[t])
    /\ UNCHANGED <<allowed, run, library, app, locals, history>>

\* Mutant: a counter of successful probes instead of a flag.
ProbeMarkCount(t) ==
    /\ Goto(t, "mark", "restore")
    /\ many' = many + 1
    /\ UNCHANGED <<kernel, all_nodes, home, bind_policy, strict, cpumaps, app, locals, history>>

\* Mutant: the success of the probe is not recorded.
ProbeMarkForgotten(t) ==
    /\ Goto(t, "mark", "restore")
    /\ UNCHANGED <<kernel, library, app, locals, history>>

ProbeMark(t) ==
    /\ Goto(t, "mark", "restore")
    /\ many' = 1
    /\ UNCHANGED <<kernel, all_nodes, home, bind_policy, strict, cpumaps, app, locals, history>>

\* Mutant: the default policy instead of the saved one.
ProbeRestoreDefault(t) ==
    /\ Goto(t, "restore", "probed")
    /\ Setpol(t, "DEFAULT", {})
    /\ UNCHANGED <<allowed, run, library, app, locals, history>>

\* Errors of the reset are ignored.
ProbeRestore(t) ==
    /\ Goto(t, "restore", "probed")
    /\ Setpol(t, old[t].mode, old[t].nodes)
    /\ UNCHANGED <<allowed, run, library, app, locals, history>>

EndFrame(t) ==
    /\ op' = [op EXCEPT ![t] = "none"]
    /\ arg' = [arg EXCEPT ![t] = {}]
    /\ old' = [old EXCEPT ![t] = Default]
    /\ tmp' = [tmp EXCEPT ![t] = {}]
    /\ entry' = [entry EXCEPT ![t] = Default]
    /\ moved' = [moved EXCEPT ![t] = FALSE]

Numa_has_preferred_many(t) ==
    /\ Goto(t, "probed", "idle")
    /\ op[t] = "has"
    /\ Finish(t, "has", {}, FALSE, many)
    /\ EndFrame(t)
    /\ UNCHANGED <<kernel, library, app>>

\* Mutant: kernel support is not looked at.
LoosePolicyAlways == "MANY"

LoosePolicy == IF many # 0 THEN "MANY" ELSE "PREFERRED"

Numa_set_bind_policy(t) ==
    /\ Goto(t, "probed", "idle")
    /\ op[t] \in {"strict", "loose"}
    /\ bind_policy' = [bind_policy EXCEPT ![t] = IF op[t] = "strict" THEN "BIND" ELSE LoosePolicy]
    /\ Finish(t, op[t], {}, FALSE, 0)
    /\ EndFrame(t)
    /\ UNCHANGED <<kernel, all_nodes, many, home, strict, cpumaps, app>>

\* Without kernel support the call warns and prefers the first node; no node
\* means local.
Numa_set_preferred_many(t) ==
    LET warned == WarnExits(many = 0)
        first == IF arg[t] = {} THEN {} ELSE {Min(arg[t])}
        mode == IF many # 0 THEN "MANY" ELSE IF arg[t] = {} THEN "LOCAL" ELSE "PREFERRED"
        nodes == IF many # 0 THEN arg[t] ELSE first
    IN  /\ Goto(t, "probed", "idle")
        /\ op[t] = "set"
        /\ IF warned THEN UNCHANGED pol ELSE Setpol(t, mode, nodes)
        /\ exited' = (warned \/ (~Accepts(mode, nodes) /\ exit_on_error))
        /\ Finish(t, "set", arg[t], ~Accepts(mode, nodes), 0)
        /\ EndFrame(t)
        /\ UNCHANGED <<allowed, run, library, flags, region>>

----------------------------------------------------------------------------
(* numa_has_home_node: the same pattern, on a page of its own. *)

HomeTest(t) ==
    /\ Goto(t, "home_test", IF home >= 0 THEN "home_done" ELSE "home_clear")
    /\ \E listed \in Readable : /\ tmp' = [tmp EXCEPT ![t] = IF listed THEN allowed ELSE {}]
                               /\ Numa_error(~listed)
    /\ UNCHANGED <<kernel, library, flags, region, op, arg, old, entry, moved, history>>

HomeClear(t) ==
    /\ Goto(t, "home_clear", "home_try")
    /\ home' = 0
    /\ UNCHANGED <<kernel, all_nodes, many, bind_policy, strict, cpumaps, app, locals, history>>

\* mmap, which may fail, mbind and set_mempolicy_home_node of one page.
HomeTry(t) ==
    LET bound == Accepts("BIND", tmp[t])
    IN  /\ Goto(t, "home_try", "home_done")
        /\ \/ UNCHANGED <<home, exited>>
           \/ /\ home' = IF bound /\ "home" \in Supports THEN 1 ELSE home
              /\ Numa_error(~bound)
        /\ UNCHANGED <<kernel, all_nodes, many, bind_policy, strict, cpumaps, flags, region,
                       locals, history>>

Numa_has_home_node(t) ==
    /\ Goto(t, "home_done", "idle")
    /\ Finish(t, "home", {}, FALSE, home)
    /\ EndFrame(t)
    /\ UNCHANGED <<kernel, library, app>>

----------------------------------------------------------------------------
(* Calls that only read. *)

Numa_get_membind(t) == IF pol[t].mode = "BIND" THEN pol[t].nodes ELSE all_nodes
Numa_get_interleave_mask(t) == IF pol[t].mode = "INTERLEAVE" THEN pol[t].nodes ELSE {}
Numa_get_weighted_interleave_mask(t) == IF pol[t].mode = "WEIGHTED" THEN pol[t].nodes ELSE {}
Numa_preferred_many(t) == pol[t].nodes

\* The calls that leave their thread a policy of their own.
SetsPolicy == {"interleave", "weighted", "membind", "balancing", "preferred", "localalloc",
               "bind", "set"}

----------------------------------------------------------------------------

TaskCalls(t) ==
    \/ \E S \in SUBSET Nodes :
          \/ Numa_set_interleave_mask(t, S) \/ Numa_set_weighted_interleave_mask(t, S)
          \/ Numa_set_membind(t, S) \/ Numa_set_membind_balancing(t, S)
          \/ Numa_bind(t, S) \/ StartProbe(t, "set", S)
    \/ \E n \in NodeArgs : Numa_set_preferred(t, n)
    \/ Numa_set_localalloc(t) \/ Numa_node_to_cpu_update(t)
    \/ \E flag \in BOOLEAN : Numa_set_strict(t, flag)
    \/ \E name \in {"has", "strict", "loose", "home"} : StartProbe(t, name, {})

MemoryCalls(t) ==
    \E r \in Regions :
        \/ \E S \in SUBSET Nodes :
              \/ Numa_interleave_memory(t, r, S) \/ Numa_weighted_interleave_memory(t, r, S)
              \/ Numa_tonodemask_memory(t, r, S)
              \/ Numa_alloc_interleaved_subset(t, r, S)
              \/ Numa_alloc_weighted_interleaved_subset(t, r, S)
        \/ \E n \in NodeArgs : Numa_tonode_memory(t, r, n) \/ Numa_alloc_onnode(t, r, n)
                             \/ Numa_set_mempolicy_home_node(t, r, n)
        \/ Numa_setlocal_memory(t, r) \/ Numa_police_memory(t, r)
        \/ Numa_alloc_local(t, r) \/ Numa_alloc_interleaved(t, r)
        \/ Numa_alloc_weighted_interleaved(t, r)
        \/ Numa_alloc(t, r) \/ Numa_realloc(t, r) \/ Numa_free(t, r)

ProbeStep(t) ==
    \/ ProbeTest(t) \/ ProbeClear(t) \/ ProbeQuery(t) \/ ProbeTry(t) \/ ProbeMark(t)
    \/ ProbeRestore(t)
    \/ Numa_has_preferred_many(t) \/ Numa_set_bind_policy(t) \/ Numa_set_preferred_many(t)
    \/ HomeTest(t) \/ HomeClear(t) \/ HomeTry(t) \/ Numa_has_home_node(t)

Next ==
    \/ \E t \in Threads : TaskCalls(t) \/ MemoryCalls(t) \/ ProbeStep(t)
    \/ \E S \in SUBSET Nodes : CpusetChange(S)

Spec == Init /\ [][Next]_vars

----------------------------------------------------------------------------
(* Properties. *)

TypeOK ==
    /\ allowed \in (SUBSET Nodes) \ {{}} /\ all_nodes \in SUBSET Nodes
    /\ pol \in [Threads -> Policies]
    /\ old \in [Threads -> Policies] /\ entry \in [Threads -> Policies]
    /\ run \in [Threads -> SUBSET Nodes]
    /\ many \in {-1, 0, 1} /\ home \in {-1, 0, 1}
    /\ bind_policy \in [Threads -> {"BIND", "MANY", "PREFERRED"}]
    /\ strict \in [Threads -> BOOLEAN]
    /\ cpu_mask \in [Nodes -> {"none", "own", "ones"}] /\ cpu_stale \in BOOLEAN
    /\ exit_on_error \in BOOLEAN /\ exit_on_warn \in BOOLEAN /\ fail_alloc \in BOOLEAN
    /\ exited \in BOOLEAN
    /\ region \in [Regions -> [mapped : BOOLEAN, touched : BOOLEAN,
                               by : AllCalls \cup {"none"}, policy : Policies]]
    /\ pc \in [Threads -> {"idle", "test", "clear", "query", "try", "mark", "restore", "probed",
                           "home_test", "home_clear", "home_try", "home_done"}]
    /\ op \in [Threads -> AllCalls \cup {"none"}]
    /\ arg \in [Threads -> SUBSET Nodes] /\ tmp \in [Threads -> SUBSET Nodes]
    /\ moved \in [Threads -> BOOLEAN] /\ misled \in BOOLEAN
    /\ last \in [Threads -> [op : AllCalls \cup {"none"}, nodes : SUBSET Nodes,
                             failed : BOOLEAN, value : {-1, 0, 1}]]
    /\ ops \in [Threads -> Nat]

\* The cached answer of the probe settles (libnuma.c:651-667), however many
\* threads probe at once and wherever the cpuset moves: has_preferred_many is 1
\* only on a kernel with MPOL_PREFERRED_MANY, and 0 on such a kernel only while
\* some thread is between clearing and marking it, or for good once a probe could
\* not read what it asked for or had the cpuset taken away between reading its
\* nodes and trying them.
ManySettled ==
    /\ many = 1 => "many" \in Supports
    /\ many = 0 /\ "many" \in Supports =>
          misled \/ \E t \in Threads : pc[t] \in {"query", "try", "mark"}

\* The probe replaces the memory policy of the calling thread by
\* MPOL_PREFERRED_MANY and must put the old one back (libnuma.c:666-670): where
\* it is over, whatever of it failed, the thread has the policy it called with,
\* unless the cpuset changed during this call.
ProbeRestores == \A t \in Threads : pc[t] = "probed" /\ ~moved[t] => pol[t] = entry[t]

\* numa_set_bind_policy(0) never leaves a thread with a policy its kernel does
\* not know, which would make every later numa_alloc_onnode and
\* numa_tonode_memory of the thread fail.
LooseUsable == \A t \in Threads : bind_policy[t] = "MANY" => "many" \in Supports

\* With numa_fail_alloc_on_error, memory that a numa_alloc_... call with a policy
\* returned has a policy, whatever later calls do to it (dombind_or_free).
AllocHasPolicy ==
    \A r \in Regions :
        fail_alloc /\ region[r].mapped /\ region[r].by \in AllocCalls
            => region[r].policy.mode # "DEFAULT"

\* Did a refresh that failed leave the mask of one of these nodes all ones?
SpoiltMask(masks, S) == \E n \in S : masks[n] = "ones"

BindStep ==
    \A t \in Threads :
        /\ ops'[t] # ops[t] /\ last'[t].op = "bind" /\ ~last'[t].failed /\ ~exited'
        => /\ run'[t] # {}
           /\ run'[t] \subseteq last'[t].nodes \/ SpoiltMask(cpu_mask', last'[t].nodes)
           /\ pol'[t].mode = "BIND" /\ pol'[t].nodes # {}
           /\ pol'[t].nodes \subseteq last'[t].nodes \cap allowed

\* A numa_bind that saw no error leaves its thread running and allocating only
\* on nodes it asked for, and on at least one each, even when the cpuset has
\* moved since numa_all_nodes_ptr was read and some cpumaps cannot be read.  The
\* CPUs may be any when a node asked for has a cached mask that a failed refresh
\* has set to all ones (libnuma.c:1602-1606), although numa.3:619 knows no such
\* exception.
BindConfines == [][BindStep]_vars

ReadBackStep ==
    \A t \in Threads :
        ops'[t] # ops[t] /\ ~last'[t].failed /\ ~exited' =>
           LET did(calls) == last'[t].op \in calls
               got == last'[t].nodes \cap allowed
           IN  /\ did({"membind", "bind"}) => Numa_get_membind(t)' = got /\ got # {}
               /\ did({"interleave"}) => Numa_get_interleave_mask(t)' = got
               /\ did({"weighted"}) => Numa_get_weighted_interleave_mask(t)' = got
               /\ did({"preferred", "localalloc"}) => Numa_preferred_many(t)' = got
               /\ did({"set"}) => IF many # 0 THEN Numa_preferred_many(t)' = got
                                  ELSE Numa_preferred_many(t)' \subseteq got
               /\ did({"balancing"}) => Numa_get_membind(t)' \in {got, all_nodes}
               /\ did(SetsPolicy \ {"membind", "bind", "balancing"}) =>
                     Numa_get_membind(t)' = all_nodes
               /\ did(SetsPolicy \ {"interleave"}) => Numa_get_interleave_mask(t)' = {}
               /\ did(SetsPolicy \ {"weighted"}) => Numa_get_weighted_interleave_mask(t)' = {}

\* What a call that sets the policy of its thread set without an error, the
\* getter of that policy reads back, as far as the cpuset allows (for
\* numa_set_preferred_many told that the kernel lacks it, no other nodes).  The
\* two interleave getters name no node after any other call, and numa_get_membind
\* says "all" after a call that binds no memory.  Two getters are not held to
\* more, because they ignore part of the mode: numa_get_membind may also say
\* "all" after numa_set_membind_balancing (libnuma.c:1319, against numa.3:667), and
\* numa_preferred_many is judged only after a call that prefers nodes, since it
\* names the nodes of every policy (libnuma.c:1964, against numa.3:465).
ReadBack == [][ReadBackStep]_vars

\* numa_has_preferred_many returns > 0 if, and only if, the kernel has
\* MPOL_PREFERRED_MANY.
HasManyTruthful ==
    \A t \in Threads :
        last[t].op = "has" => (last[t].value > 0 <=> "many" \in Supports)
=============================================================================
