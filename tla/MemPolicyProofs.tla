-------------------------- MODULE MemPolicyProofs --------------------------
(***************************************************************************)
(* Proofs about MemPolicy: any number of threads and nodes, any kernel.    *)
(* About the probes, then about the calls: types, what a task-policy call  *)
(* leaves its thread with, what an allocation hands out.  Nothing is       *)
(* assumed about the cpuset, which may move between any two steps.         *)
(***************************************************************************)
EXTENDS MemPolicy, TLAPS, WellFoundedInduction

----------------------------------------------------------------------------
(* Policies the kernel has kept. *)

\* A policy that get_mempolicy may report under the cpuset S: setting it again
\* changes nothing.
Stable(S, p) == /\ p \in Policies
                /\ AcceptsIn(S, p.mode, p.nodes)
                /\ KeptIn(S, p.mode, p.nodes) = p

Probing == {"query", "try", "mark", "restore", "probed"}
PCs == {"idle", "test", "clear", "query", "try", "mark", "restore", "probed",
        "home_test", "home_clear", "home_try", "home_done"}

\* The part of the state the probe works on.
ProbeTypes ==
    /\ allowed \in SUBSET Nodes /\ allowed # {}
    /\ all_nodes \in SUBSET Nodes
    /\ pol \in [Threads -> Policies]
    /\ old \in [Threads -> Policies] /\ entry \in [Threads -> Policies]
    /\ many \in {-1, 0, 1}
    /\ bind_policy \in [Threads -> {"BIND", "MANY", "PREFERRED"}]
    /\ pc \in [Threads -> PCs]
    /\ op \in [Threads -> AllCalls \cup {"none"}]
    /\ arg \in [Threads -> SUBSET Nodes] /\ tmp \in [Threads -> SUBSET Nodes]
    /\ moved \in [Threads -> BOOLEAN] /\ misled \in BOOLEAN

\* What every thread knows along the probe.
ProbeThread(t) ==
    /\ Stable(allowed, pol[t])
    /\ pc[t] \in Probing => many # -1
    /\ pc[t] \in {"test", "clear", "query", "try", "probed"} /\ ~moved[t] => pol[t] = entry[t]
    /\ pc[t] = "try" => tmp[t] = allowed \/ misled
    /\ pc[t] \in {"try", "mark", "restore"} /\ ~moved[t] =>
          old[t] = entry[t] /\ Stable(allowed, entry[t])
    /\ pc[t] = "mark" => "many" \in Supports

ProbeInv ==
    /\ ProbeTypes
    /\ \A t \in Threads : ProbeThread(t)
    /\ ManySettled
    /\ LooseUsable

\* The smallest node of a set is one of its nodes.
LEMMA MinNode ==
  ASSUME NEW S \in SUBSET Nodes, S # {}
  PROVE  Min(S) \in S
<1>1. S \subseteq Nat
  BY ConstantsAssumption DEF Nodes
<1> DEFINE Less == OpToRel(<, Nat)
<1>2. IsWellFoundedOn(Less, Nat)
  BY NatLessThanWellFounded
<1>3. \A m, n \in Nat : <<m, n>> \in Less <=> m < n
  BY DEF OpToRel
<1> HIDE DEF Less
<1>4. PICK x \in S : \A y \in S : ~(<<y, x>> \in Less)
  BY <1>1, <1>2, WFMin, Zenon
<1>5. ASSUME NEW y \in S PROVE x =< y
  <2>1. x \in Nat /\ y \in Nat
    BY <1>1
  <2>2. ~(y < x)
    BY <1>3, <1>4, <2>1
  <2> QED BY <2>1, <2>2
<1> QED BY <1>5 DEF Min

LEMMA MinSingle ==
  ASSUME NEW n \in Nodes
  PROVE  Min({n}) = n
<1>1. {n} \in SUBSET Nodes /\ {n} # {}
  OBVIOUS
<1> QED BY <1>1, MinNode

\* What the kernel keeps of a policy it accepts, it would accept and keep.
LEMMA KeptStable ==
  ASSUME NEW S \in SUBSET Nodes, S # {},
         NEW mode \in Modes, NEW nodes \in SUBSET Nodes, AcceptsIn(S, mode, nodes)
  PROVE  Stable(S, KeptIn(S, mode, nodes))
<1> DEFINE k == KeptIn(S, mode, nodes)
<1>1. CASE mode = "PREFERRED" /\ nodes = {}
  <2>1. k = [mode |-> "LOCAL", nodes |-> {}]
    BY <1>1 DEF KeptIn
  <2>2. KeptIn(S, "LOCAL", {}) = [mode |-> "LOCAL", nodes |-> {}]
    BY DEF KeptIn
  <2> QED BY <2>1, <2>2 DEF Stable, Policies, Modes, AcceptsIn
<1>2. CASE mode = "PREFERRED" /\ nodes # {}
  <2> DEFINE m == Min(nodes \cap S)
  <2>1. nodes \cap S # {}
    BY <1>2 DEF AcceptsIn
  <2>2. m \in nodes \cap S
    BY <2>1, MinNode
  <2>3. k = [mode |-> "PREFERRED", nodes |-> {m}]
    BY <1>2 DEF KeptIn
  <2>4. {m} \cap S = {m} /\ {m} \in SUBSET Nodes /\ m \in Nodes
    BY <2>2
  <2>5. Min({m} \cap S) = m
    BY <2>4, MinSingle
  <2> HIDE DEF m
  <2>6. KeptIn(S, "PREFERRED", {m}) = k
    BY <2>3, <2>5 DEF KeptIn
  <2>7. AcceptsIn(S, "PREFERRED", {m})
    BY <2>4 DEF AcceptsIn
  <2>8. k \in Policies
    BY <2>3, <2>4 DEF Policies, Modes
  <2> QED BY <2>3, <2>6, <2>7, <2>8 DEF Stable
<1>3. CASE mode # "PREFERRED"
  <2>1. k = [mode |-> mode, nodes |-> nodes \cap S]
    BY <1>3 DEF KeptIn
  <2>2. (nodes \cap S) \cap S = nodes \cap S
    OBVIOUS
  <2>3. KeptIn(S, mode, nodes \cap S) = k
    BY <1>3, <2>1, <2>2 DEF KeptIn
  <2>4. AcceptsIn(S, mode, nodes \cap S)
    BY <1>3, <2>2 DEF AcceptsIn, Modes
  <2>5. k \in Policies
    BY <2>1 DEF Policies
  <2> QED BY <2>1, <2>3, <2>4, <2>5 DEF Stable
<1> QED BY <1>1, <1>2, <1>3

\* Whatever it is asked for, set_mempolicy leaves every thread a kept policy
\* and the other threads theirs.
LEMMA SetpolStable ==
  ASSUME ProbeTypes, NEW t \in Threads, Stable(allowed, pol[t]),
         NEW mode \in Modes, NEW nodes \in SUBSET Nodes, Setpol(t, mode, nodes)
  PROVE  /\ pol' \in [Threads -> Policies]
         /\ Stable(allowed, pol'[t])
         /\ \A u \in Threads \ {t} : pol'[u] = pol[u]
         /\ Accepts(mode, nodes) => pol'[t] = Kept(mode, nodes)
         /\ ~Accepts(mode, nodes) => pol' = pol
<1>1. CASE Accepts(mode, nodes)
  <2>1. Stable(allowed, Kept(mode, nodes))
    BY <1>1, KeptStable DEF ProbeTypes, Accepts, Kept
  <2>2. Kept(mode, nodes) \in Policies
    BY <2>1 DEF Stable
  <2>3. pol' = [pol EXCEPT ![t] = Kept(mode, nodes)]
    BY <1>1 DEF Setpol
  <2> QED BY <1>1, <2>1, <2>2, <2>3 DEF ProbeTypes
<1>2. CASE ~Accepts(mode, nodes)
  BY <1>2 DEF Setpol, ProbeTypes
<1> QED BY <1>1, <1>2

----------------------------------------------------------------------------
(* The steps, by what they do to the state of the probe. *)

\* Calls about memory ranges, and stuttering, leave it alone.
LEMMA QuietStep ==
  ASSUME ProbeInv, UNCHANGED <<allowed, pol, all_nodes, many, bind_policy, misled, frame>>
  PROVE  ProbeInv'
<1> USE DEF frame, locals
<1>1. ProbeTypes'
  BY DEF ProbeInv, ProbeTypes
<1>2. \A t \in Threads : ProbeThread(t)'
  BY DEF ProbeInv, ProbeThread
<1>3. ManySettled' /\ LooseUsable'
  BY DEF ProbeInv, ManySettled, LooseUsable
<1> QED BY <1>1, <1>2, <1>3 DEF ProbeInv

\* A thread that is not in a probing call sets its policy.
LEMMA PolicyStep ==
  ASSUME ProbeInv, NEW t \in Threads, pc[t] = "idle",
         NEW mode \in Modes, NEW nodes \in SUBSET Nodes, Setpol(t, mode, nodes),
         UNCHANGED <<allowed, all_nodes, many, bind_policy, misled, frame>>
  PROVE  ProbeInv'
<1> USE DEF frame, locals
<1>1. /\ pol' \in [Threads -> Policies]
      /\ Stable(allowed, pol'[t])
      /\ \A u \in Threads \ {t} : pol'[u] = pol[u]
  BY SetpolStable DEF ProbeInv, ProbeThread
<1>2. ProbeTypes'
  BY <1>1 DEF ProbeInv, ProbeTypes
<1>3. ASSUME NEW u \in Threads PROVE ProbeThread(u)'
  BY <1>1 DEF ProbeInv, ProbeThread, Probing
<1>4. ManySettled' /\ LooseUsable'
  BY DEF ProbeInv, ManySettled, LooseUsable
<1> QED BY <1>2, <1>3, <1>4 DEF ProbeInv

\* A step of the current call: the other threads keep what they know when the
\* thread that moves keeps the flag above -1, and the cpuset stands still.
LEMMA OthersKeep ==
  ASSUME ProbeInv, NEW t \in Threads, NEW u \in Threads \ {t},
         allowed' = allowed, many # -1 => many' # -1, misled => misled',
         pol'[u] = pol[u], pc'[u] = pc[u], old'[u] = old[u], tmp'[u] = tmp[u],
         entry'[u] = entry[u], moved'[u] = moved[u]
  PROVE  ProbeThread(u)'
BY DEF ProbeInv, ProbeThread

\* The beginning of a call in several steps, and numa_has_home_node.
LEMMA OutsideStep ==
  ASSUME ProbeInv, NEW t \in Threads,
         \/ \E name \in AllCalls, S \in SUBSET Nodes : StartProbe(t, name, S)
         \/ HomeTest(t) \/ HomeClear(t) \/ HomeTry(t) \/ Numa_has_home_node(t)
  PROVE  ProbeInv'
<1> USE DEF frame, locals, history, kernel, library, cpumaps, app, EndFrame, Goto
<1>1. /\ UNCHANGED <<allowed, pol, all_nodes, many, bind_policy, misled>>
      /\ pc[t] \in {"idle", "home_test", "home_clear", "home_try", "home_done"}
      /\ \E next \in {"idle", "test", "home_test", "home_clear", "home_try", "home_done"} :
            /\ pc' = [pc EXCEPT ![t] = next]
            /\ next = "test" => entry' = [entry EXCEPT ![t] = pol[t]]
      /\ op' \in [Threads -> AllCalls \cup {"none"}]
      /\ arg' \in [Threads -> SUBSET Nodes] /\ tmp' \in [Threads -> SUBSET Nodes]
      /\ old' \in [Threads -> Policies] /\ entry' \in [Threads -> Policies]
      /\ moved' \in [Threads -> BOOLEAN]
      /\ \A u \in Threads \ {t} : /\ old'[u] = old[u] /\ tmp'[u] = tmp[u]
                                 /\ entry'[u] = entry[u] /\ moved'[u] = moved[u]
  <2>1. Default \in Policies /\ {} \in SUBSET Nodes
    BY DEF Default, Policies, Modes
  <2>2. ProbeTypes
    BY DEF ProbeInv
  <2> USE <2>1, <2>2 DEF ProbeTypes
  <2>3. CASE \E name \in AllCalls, S \in SUBSET Nodes : StartProbe(t, name, S)
    <3>1. PICK name \in AllCalls, S \in SUBSET Nodes : StartProbe(t, name, S)
      BY <2>3
    <3>2. /\ pc[t] = "idle" /\ pol[t] \in Policies
          /\ pc' = [pc EXCEPT ![t] = IF name = "home" THEN "home_test" ELSE "test"]
          /\ entry' = [entry EXCEPT ![t] = pol[t]]
          /\ op' = [op EXCEPT ![t] = name] /\ arg' = [arg EXCEPT ![t] = S]
          /\ UNCHANGED <<allowed, pol, all_nodes, many, bind_policy, misled, old, tmp, moved>>
      BY <3>1 DEF StartProbe, Calling
    <3> QED BY <3>2
  <2>4. CASE HomeTest(t)
    BY <2>4 DEF HomeTest
  <2>5. CASE HomeClear(t)
    BY <2>5 DEF HomeClear
  <2>6. CASE HomeTry(t)
    BY <2>6 DEF HomeTry
  <2>7. CASE Numa_has_home_node(t)
    BY <2>7 DEF Numa_has_home_node, Finish
  <2> QED BY <2>3, <2>4, <2>5, <2>6, <2>7
<1>2. ProbeTypes'
  <2>1. PICK next \in PCs : pc' = [pc EXCEPT ![t] = next]
    BY <1>1 DEF PCs
  <2>2. pc' \in [Threads -> PCs]
    BY <2>1 DEF ProbeInv, ProbeTypes
  <2> QED BY <1>1, <2>2 DEF ProbeInv, ProbeTypes
<1>3. ASSUME NEW u \in Threads \ {t} PROVE ProbeThread(u)'
  <2>1. pc'[u] = pc[u] /\ pol'[u] = pol[u]
    BY <1>1 DEF ProbeInv, ProbeTypes
  <2> QED BY <1>1, <2>1, OthersKeep
<1>4. ProbeThread(t)'
  BY <1>1 DEF ProbeInv, ProbeTypes, ProbeThread, Probing
<1>5. ManySettled' /\ LooseUsable'
  BY <1>1 DEF ProbeInv, ProbeTypes, ManySettled, LooseUsable
<1> QED BY <1>2, <1>3, <1>4, <1>5 DEF ProbeInv

\* The steps of set_preferred_many: reading and clearing the flag, asking for
\* the nodes and the old policy.
LEMMA ProbeBegin ==
  ASSUME ProbeInv, NEW t \in Threads, ProbeTest(t) \/ ProbeClear(t) \/ ProbeQuery(t)
  PROVE  ProbeInv'
<1> USE DEF frame, locals, history, kernel, library, cpumaps, app, Goto
<1>1. ProbeTypes /\ ProbeThread(t) /\ ManySettled /\ LooseUsable
  BY DEF ProbeInv
<1>2. CASE ProbeTest(t)
  <2>1. ProbeTypes'
    BY <1>1, <1>2 DEF ProbeTest, ProbeTypes, PCs
  <2>2. \A u \in Threads \ {t} : ProbeThread(u)'
    BY <1>1, <1>2, OthersKeep DEF ProbeTest, ProbeTypes
  <2>3. ProbeThread(t)'
    BY <1>1, <1>2 DEF ProbeTest, ProbeTypes, ProbeThread, Probing
  <2>4. ManySettled' /\ LooseUsable'
    BY <1>1, <1>2 DEF ProbeTest, ProbeTypes, ManySettled, LooseUsable
  <2> QED BY <2>1, <2>2, <2>3, <2>4 DEF ProbeInv
<1>3. CASE ProbeClear(t)
  <2>1. ProbeTypes'
    BY <1>1, <1>3 DEF ProbeClear, ProbeTypes, PCs
  <2>2. \A u \in Threads \ {t} : ProbeThread(u)'
    BY <1>1, <1>3, OthersKeep DEF ProbeClear, ProbeTypes
  <2>3. ProbeThread(t)'
    BY <1>1, <1>3 DEF ProbeClear, ProbeTypes, ProbeThread, Probing
  <2>4. ManySettled' /\ LooseUsable'
    BY <1>1, <1>3 DEF ProbeClear, ProbeTypes, ManySettled, LooseUsable
  <2> QED BY <2>1, <2>2, <2>3, <2>4 DEF ProbeInv
<1>4. CASE ProbeQuery(t)
  <2>0. PICK listed \in BOOLEAN, known \in BOOLEAN :
          /\ pc[t] = "query" /\ pc' = [pc EXCEPT ![t] = IF known THEN "try" ELSE "probed"]
          /\ tmp' = [tmp EXCEPT ![t] = IF listed THEN allowed ELSE {}]
          /\ old' = [old EXCEPT ![t] = IF known THEN pol[t] ELSE Default]
          /\ misled' = (misled \/ ~listed \/ ~known)
          /\ UNCHANGED <<kernel, library, op, arg, entry, moved>>
    BY <1>4 DEF ProbeQuery, Readable
  <2>1. ProbeTypes'
    <3>1. Default \in Policies
      BY DEF Default, Policies, Modes
    <3> QED BY <1>1, <2>0, <3>1 DEF ProbeTypes, PCs
  <2>2. \A u \in Threads \ {t} : ProbeThread(u)'
    BY <1>1, <2>0, OthersKeep DEF ProbeTypes
  <2>3. ProbeThread(t)'
    BY <1>1, <2>0 DEF ProbeTypes, ProbeThread, Probing
  <2>4. ManySettled' /\ LooseUsable'
    <3>1. /\ misled' \/ pc'[t] = "try"
          /\ misled => misled'
          /\ \A u \in Threads \ {t} : pc'[u] = pc[u]
      BY <1>1, <2>0 DEF ProbeTypes
    <3> QED BY <1>1, <2>0, <3>1 DEF ManySettled, LooseUsable
  <2> QED BY <2>1, <2>2, <2>3, <2>4 DEF ProbeInv
<1> QED BY <1>2, <1>3, <1>4

\* The steps of set_preferred_many that try the new policy, mark the flag and
\* put the old policy back.
LEMMA ProbeEnd ==
  ASSUME ProbeInv, NEW t \in Threads, ProbeTry(t) \/ ProbeMark(t) \/ ProbeRestore(t)
  PROVE  ProbeInv'
<1> USE DEF frame, locals, history, kernel, library, cpumaps, app, Goto
<1>1. ProbeTypes /\ ProbeThread(t) /\ ManySettled /\ LooseUsable
  BY DEF ProbeInv
<1>2. CASE ProbeTry(t)
  <2>0. /\ pc[t] = "try" /\ (tmp[t] = allowed \/ misled) /\ many # -1
        /\ UNCHANGED <<allowed, all_nodes, many, bind_policy, locals, misled>>
        /\ pc' = [pc EXCEPT ![t] = IF Accepts("MANY", tmp[t]) THEN "mark" ELSE "probed"]
    BY <1>1, <1>2 DEF ProbeTry, ProbeThread, Probing
  <2>1. /\ pol' \in [Threads -> Policies] /\ Stable(allowed, pol'[t])
        /\ \A u \in Threads \ {t} : pol'[u] = pol[u]
        /\ ~Accepts("MANY", tmp[t]) => pol' = pol
    BY <1>1, <1>2, SetpolStable DEF ProbeTry, Modes, ProbeTypes, ProbeThread
  <2>2. /\ Accepts("MANY", tmp[t]) => "many" \in Supports
        /\ "many" \in Supports => Accepts("MANY", tmp[t]) \/ misled
    BY <1>1, <2>0 DEF ProbeTypes, Accepts, AcceptsIn
  <2>3. ProbeTypes'
    BY <1>1, <2>0, <2>1 DEF ProbeTypes, PCs
  <2>4. \A u \in Threads \ {t} : ProbeThread(u)'
    BY <1>1, <2>0, <2>1, OthersKeep DEF ProbeTypes
  <2>5. ProbeThread(t)'
    BY <1>1, <2>0, <2>1, <2>2 DEF ProbeTypes, ProbeThread, Probing
  <2>6. ManySettled'
    <3>1. /\ "many" \in Supports => pc'[t] = "mark" \/ misled
          /\ \A u \in Threads \ {t} : pc'[u] = pc[u]
      BY <1>1, <2>0, <2>2 DEF ProbeTypes
    <3> QED BY <1>1, <2>0, <3>1 DEF ManySettled
  <2>7. LooseUsable'
    BY <1>1, <2>0 DEF LooseUsable
  <2> QED BY <2>3, <2>4, <2>5, <2>6, <2>7 DEF ProbeInv
<1>3. CASE ProbeMark(t)
  <2>1. ProbeTypes'
    BY <1>1, <1>3 DEF ProbeMark, ProbeTypes, PCs
  <2>2. \A u \in Threads \ {t} : ProbeThread(u)'
    BY <1>1, <1>3, OthersKeep DEF ProbeMark, ProbeTypes
  <2>3. ProbeThread(t)'
    BY <1>1, <1>3 DEF ProbeMark, ProbeTypes, ProbeThread, Probing
  <2>4. ManySettled' /\ LooseUsable'
    BY <1>1, <1>3 DEF ProbeMark, ProbeThread, ManySettled, LooseUsable
  <2> QED BY <2>1, <2>2, <2>3, <2>4 DEF ProbeInv
<1>4. CASE ProbeRestore(t)
  <2>0. /\ pc[t] = "restore" /\ many # -1
        /\ ~moved[t] => old[t] = entry[t] /\ Stable(allowed, entry[t])
        /\ UNCHANGED <<allowed, all_nodes, many, bind_policy, locals, misled>>
        /\ pc' = [pc EXCEPT ![t] = "probed"]
    BY <1>1, <1>4 DEF ProbeRestore, ProbeThread, Probing
  <2>1. old[t].mode \in Modes /\ old[t].nodes \in SUBSET Nodes
    BY <1>1 DEF ProbeTypes, Policies
  <2>2. ~moved[t] => Accepts(old[t].mode, old[t].nodes) /\ Kept(old[t].mode, old[t].nodes) = entry[t]
    BY <2>0 DEF Stable, Accepts, Kept
  <2>3. /\ pol' \in [Threads -> Policies] /\ Stable(allowed, pol'[t])
        /\ \A u \in Threads \ {t} : pol'[u] = pol[u]
        /\ ~moved[t] => pol'[t] = entry[t]
    BY <1>1, <1>4, <2>1, <2>2, SetpolStable DEF ProbeRestore, ProbeThread
  <2>4. ProbeTypes'
    BY <1>1, <2>0, <2>3 DEF ProbeTypes, PCs
  <2>5. \A u \in Threads \ {t} : ProbeThread(u)'
    BY <1>1, <2>0, <2>3, OthersKeep DEF ProbeTypes
  <2>6. ProbeThread(t)'
    BY <1>1, <2>0, <2>3 DEF ProbeTypes, ProbeThread, Probing
  <2>7. ManySettled' /\ LooseUsable'
    <3>1. pc'[t] = "probed" /\ \A u \in Threads \ {t} : pc'[u] = pc[u]
      BY <1>1, <2>0 DEF ProbeTypes
    <3> QED BY <1>1, <2>0, <3>1 DEF ManySettled, LooseUsable
  <2> QED BY <2>4, <2>5, <2>6, <2>7 DEF ProbeInv
<1> QED BY <1>2, <1>3, <1>4

\* The end of the calls that probe.
LEMMA ProbedCalls ==
  ASSUME ProbeInv, NEW t \in Threads,
         Numa_has_preferred_many(t) \/ Numa_set_bind_policy(t) \/ Numa_set_preferred_many(t)
  PROVE  ProbeInv'
<1> USE DEF kernel, library, cpumaps, app, Goto
<1>1. ProbeTypes /\ ProbeThread(t) /\ ManySettled /\ LooseUsable
  BY DEF ProbeInv
<1>2. /\ pc[t] = "probed" /\ pc' = [pc EXCEPT ![t] = "idle"]
      /\ UNCHANGED <<allowed, all_nodes, many, misled>> /\ EndFrame(t)
  BY DEF Numa_has_preferred_many, Numa_set_bind_policy, Numa_set_preferred_many, Finish
<1>3. /\ many # -1
      /\ pc'[t] = "idle" /\ \A u \in Threads \ {t} : pc'[u] = pc[u]
  BY <1>1, <1>2 DEF ProbeTypes, ProbeThread, Probing
<1>4. ManySettled'
  BY <1>1, <1>2, <1>3 DEF ManySettled
<1>5. /\ op' \in [Threads -> AllCalls \cup {"none"}]
      /\ arg' \in [Threads -> SUBSET Nodes] /\ tmp' \in [Threads -> SUBSET Nodes]
      /\ old' \in [Threads -> Policies] /\ entry' \in [Threads -> Policies]
      /\ pc' \in [Threads -> PCs] /\ moved' \in [Threads -> BOOLEAN]
      /\ \A u \in Threads \ {t} : /\ old'[u] = old[u] /\ tmp'[u] = tmp[u]
                                 /\ entry'[u] = entry[u] /\ moved'[u] = moved[u]
  <2>1. Default \in Policies /\ {} \in SUBSET Nodes /\ "idle" \in PCs
    BY DEF Default, Policies, Modes, PCs
  <2> QED BY <1>1, <1>2, <2>1 DEF EndFrame, ProbeTypes
<1>6. /\ pol' \in [Threads -> Policies] /\ Stable(allowed, pol'[t])
      /\ \A u \in Threads \ {t} : pol'[u] = pol[u]
  <2>1. CASE UNCHANGED pol
    BY <1>1, <2>1 DEF ProbeTypes, ProbeThread
  <2>2. CASE \E mode \in Modes, nodes \in SUBSET Nodes : Setpol(t, mode, nodes)
    BY <1>1, <2>2, SetpolStable DEF ProbeThread
  <2>3. CASE Numa_has_preferred_many(t) \/ Numa_set_bind_policy(t)
    BY <2>1, <2>3 DEF Numa_has_preferred_many, Numa_set_bind_policy
  <2>4. CASE Numa_set_preferred_many(t)
    <3> DEFINE mode == IF many # 0 THEN "MANY" ELSE IF arg[t] = {} THEN "LOCAL" ELSE "PREFERRED"
               first == IF arg[t] = {} THEN {} ELSE {Min(arg[t])}
               nodes == IF many # 0 THEN arg[t] ELSE first
    <3>1. UNCHANGED pol \/ Setpol(t, mode, nodes)
      BY <2>4 DEF Numa_set_preferred_many
    <3>2. arg[t] \in SUBSET Nodes
      BY <1>1 DEF ProbeTypes
    <3>3. arg[t] # {} => Min(arg[t]) \in Nodes
      BY <3>2, MinNode
    <3>4. mode \in Modes /\ nodes \in SUBSET Nodes
      BY <3>2, <3>3 DEF Modes
    <3> HIDE DEF mode, nodes
    <3> QED BY <2>1, <2>2, <3>1, <3>4
  <2> QED BY <2>3, <2>4
<1>7. /\ bind_policy' \in [Threads -> {"BIND", "MANY", "PREFERRED"}]
      /\ LooseUsable'
  <2>1. CASE UNCHANGED bind_policy
    BY <1>1, <2>1 DEF ProbeTypes, LooseUsable
  <2>2. CASE Numa_set_bind_policy(t)
    <3>1. many = 0 \/ "many" \in Supports
      BY <1>1, <1>3 DEF ManySettled, ProbeTypes
    <3> QED BY <1>1, <2>2, <3>1 DEF Numa_set_bind_policy, LoosePolicy, ProbeTypes, LooseUsable
  <2> QED BY <2>1, <2>2 DEF Numa_has_preferred_many, Numa_set_preferred_many
<1>8. ProbeTypes'
  BY <1>1, <1>2, <1>5, <1>6, <1>7 DEF ProbeTypes
<1>9. \A u \in Threads \ {t} : ProbeThread(u)'
  BY <1>2, <1>3, <1>5, <1>6, OthersKeep
<1>10. ProbeThread(t)'
  BY <1>2, <1>3, <1>6 DEF ProbeThread, Probing
<1> QED BY <1>4, <1>7, <1>8, <1>9, <1>10 DEF ProbeInv

----------------------------------------------------------------------------

LEMMA InitProbeInv == Init => ProbeInv
<1> SUFFICES ASSUME Init PROVE ProbeInv
  OBVIOUS
<1>1. Default \in Policies /\ {} \in SUBSET Nodes
  BY DEF Default, Policies, Modes
<1>2. Stable(allowed, Default)
  BY <1>1 DEF Stable, Default, AcceptsIn, KeptIn
<1>3. ProbeTypes
  <2>0. /\ allowed \in SUBSET Nodes /\ allowed # {} /\ all_nodes \in SUBSET Nodes
        /\ many = -1
    BY DEF Init
  <2>1. /\ bind_policy \in [Threads -> {"BIND", "MANY", "PREFERRED"}]
        /\ pc \in [Threads -> PCs] /\ op \in [Threads -> AllCalls \cup {"none"}]
    BY DEF Init, PCs
  <2>2. /\ pol \in [Threads -> Policies] /\ old \in [Threads -> Policies]
        /\ entry \in [Threads -> Policies]
        /\ arg \in [Threads -> SUBSET Nodes] /\ tmp \in [Threads -> SUBSET Nodes]
        /\ moved \in [Threads -> BOOLEAN] /\ misled \in BOOLEAN
    BY <1>1 DEF Init
  <2> QED BY <2>0, <2>1, <2>2 DEF ProbeTypes
<1>4. \A t \in Threads : ProbeThread(t)
  BY <1>2 DEF Init, ProbeThread, Probing
<1>5. ManySettled /\ LooseUsable
  BY DEF Init, ManySettled, LooseUsable
<1> QED BY <1>3, <1>4, <1>5 DEF ProbeInv

\* A call that is one setpol.
LEMMA PolicyCalls ==
  ASSUME ProbeInv, NEW t \in Threads, NEW name, NEW wanted,
         NEW mode \in Modes, NEW nodes \in SUBSET Nodes,
         PolicyCall(t, name, wanted, mode, nodes)
  PROVE  ProbeInv'
BY PolicyStep DEF PolicyCall, Calling, library, Finish

LEMMA TaskStep ==
  ASSUME ProbeInv, NEW t \in Threads, TaskCalls(t)
  PROVE  ProbeInv'
<1>1. ASSUME NEW S \in SUBSET Nodes,
             \/ Numa_set_interleave_mask(t, S) \/ Numa_set_weighted_interleave_mask(t, S)
             \/ Numa_set_membind(t, S) \/ Numa_set_membind_balancing(t, S)
      PROVE  ProbeInv'
  BY <1>1, PolicyCalls DEF Numa_set_interleave_mask, Numa_set_weighted_interleave_mask,
     Numa_set_membind, Numa_set_membind_balancing, Modes
<1>2. ASSUME NEW S \in SUBSET Nodes, Numa_bind(t, S) PROVE ProbeInv'
  <2>1. /\ UNCHANGED <<allowed, all_nodes, many, bind_policy, misled, frame>> /\ pc[t] = "idle"
        /\ UNCHANGED pol \/ Setpol(t, "BIND", S)
    BY <1>2 DEF Numa_bind, Calling, Finish
  <2>2. CASE UNCHANGED pol
    BY <2>1, <2>2, QuietStep
  <2>3. CASE Setpol(t, "BIND", S)
    BY <2>1, <2>3, PolicyStep DEF Modes
  <2> QED BY <2>1, <2>2, <2>3
<1>3. ASSUME NEW n \in NodeArgs, Numa_set_preferred(t, n) PROVE ProbeInv'
  <2>1. OneNode(n) \in SUBSET Nodes
    BY DEF OneNode
  <2> QED BY <1>3, <2>1, PolicyCalls DEF Numa_set_preferred, Modes
<1>4. CASE Numa_set_localalloc(t)
  BY <1>4, PolicyCalls DEF Numa_set_localalloc, Modes
<1>5. ASSUME NEW flag \in BOOLEAN, Numa_set_strict(t, flag) PROVE ProbeInv'
  BY <1>5, QuietStep DEF Numa_set_strict, Finish, kernel
<1>8. CASE Numa_node_to_cpu_update(t)
  BY <1>8, QuietStep DEF Numa_node_to_cpu_update, Finish, kernel
<1>6. ASSUME NEW S \in SUBSET Nodes, StartProbe(t, "set", S) PROVE ProbeInv'
  BY <1>6, OutsideStep DEF AllCalls, ProbingCalls
<1>7. ASSUME NEW name \in {"has", "strict", "loose", "home"}, StartProbe(t, name, {})
      PROVE  ProbeInv'
  <2>1. name \in AllCalls /\ {} \in SUBSET Nodes
    BY DEF AllCalls, ProbingCalls, TaskPolicyCalls
  <2> QED BY <1>7, <2>1, OutsideStep
<1> QED BY <1>1, <1>2, <1>3, <1>4, <1>5, <1>6, <1>7, <1>8 DEF TaskCalls

LEMMA MemoryStep ==
  ASSUME ProbeInv, NEW t \in Threads, MemoryCalls(t)
  PROVE  ProbeInv'
<1>1. PICK r \in Regions :
        \/ \E name \in AllCalls : \E mode, nodes :
              MemoryCall(t, name, r, mode, nodes) \/ AllocCall(t, name, r, mode, nodes)
        \/ Numa_police_memory(t, r) \/ Numa_alloc(t, r) \/ Numa_realloc(t, r) \/ Numa_free(t, r)
        \/ \E n \in NodeArgs : Numa_set_mempolicy_home_node(t, r, n)
  BY DEF MemoryCalls, Numa_interleave_memory, Numa_weighted_interleave_memory,
     Numa_tonodemask_memory, Numa_alloc_interleaved_subset,
     Numa_alloc_weighted_interleaved_subset, Numa_tonode_memory, Numa_alloc_onnode,
     Numa_setlocal_memory, Numa_alloc_local, Numa_alloc_interleaved,
     Numa_alloc_weighted_interleaved, AllCalls, AllocCalls, RangeCalls
<1>2. UNCHANGED <<kernel, library, frame>>
  BY <1>1 DEF MemoryCall, AllocCall, Numa_police_memory, Numa_alloc, Numa_realloc, Numa_free,
     Numa_set_mempolicy_home_node
<1>3. \E name, nodes, failed, value : Finish(t, name, nodes, failed, value)
  <2>1. CASE \E name, mode, nodes : MemoryCall(t, name, r, mode, nodes)
    BY <2>1 DEF MemoryCall
  <2>2. CASE \E name, mode, nodes : AllocCall(t, name, r, mode, nodes)
    BY <2>2 DEF AllocCall
  <2>3. CASE \/ Numa_police_memory(t, r) \/ Numa_alloc(t, r)
             \/ Numa_realloc(t, r) \/ Numa_free(t, r)
    BY <2>3 DEF Numa_police_memory, Numa_alloc, Numa_realloc, Numa_free
  <2>4. CASE \E n \in NodeArgs : Numa_set_mempolicy_home_node(t, r, n)
    BY <2>4 DEF Numa_set_mempolicy_home_node
  <2> QED BY <1>1, <2>1, <2>2, <2>3, <2>4
<1>4. UNCHANGED misled
  BY <1>3 DEF Finish
<1> QED BY <1>2, <1>4, QuietStep DEF kernel, library

\* The policy that the kernel moves p to when the cpuset becomes S.
MovedTo(S, p) ==
    IF p.nodes = {} \/ p.nodes \subseteq S THEN p
    ELSE [p EXCEPT !.nodes = IF @ \cap S # {} THEN @ \cap S ELSE {Min(S)}]

\* A policy that could be set again under the old cpuset is moved to one that can
\* be set again under the new one.
LEMMA MovedStable ==
  ASSUME NEW R \in SUBSET Nodes, NEW S \in SUBSET Nodes, S # {}, NEW p, Stable(R, p)
  PROVE  Stable(S, MovedTo(S, p))
<1>1. /\ p \in Policies /\ p.mode \in Modes /\ p.nodes \in SUBSET Nodes
      /\ p = [mode |-> p.mode, nodes |-> p.nodes]
  BY DEF Stable, Policies
<1>2. Min(S) \in S
  BY MinNode
<1>3. CASE p.nodes = {}
  <2>1. MovedTo(S, p) = p
    BY <1>3 DEF MovedTo
  <2>2. p.mode \in {"DEFAULT", "LOCAL"}
    <3>1. p.mode # "PREFERRED"
      BY <1>3 DEF Stable, KeptIn
    <3> QED BY <1>1, <1>3, <3>1 DEF Stable, AcceptsIn, Modes
  <2>3. AcceptsIn(S, p.mode, p.nodes) /\ KeptIn(S, p.mode, p.nodes) = p
    BY <1>1, <1>3, <2>2 DEF AcceptsIn, KeptIn
  <2> QED BY <1>1, <2>1, <2>3 DEF Stable
<1>4. CASE p.nodes # {}
  <2>1. p.mode \notin {"DEFAULT", "LOCAL"}
    BY <1>4 DEF Stable, AcceptsIn
  <2> DEFINE nodes == IF p.nodes \subseteq S THEN p.nodes
                      ELSE IF p.nodes \cap S # {} THEN p.nodes \cap S ELSE {Min(S)}
  <2>2. /\ nodes \in SUBSET Nodes /\ nodes \subseteq S /\ nodes # {}
        /\ MovedTo(S, p) = [mode |-> p.mode, nodes |-> nodes]
    BY <1>1, <1>2, <1>4 DEF MovedTo
  <2>3. \A m \in Nodes : p.nodes = {m} => \E k \in Nodes : nodes = {k}
    BY <1>2
  <2> HIDE DEF nodes
  <2>4. AcceptsIn(S, p.mode, nodes)
    <3>1. nodes \cap S # {}
      BY <2>2
    <3> QED BY <1>1, <2>1, <3>1 DEF Stable, AcceptsIn
  <2>5. KeptIn(S, p.mode, nodes) = [mode |-> p.mode, nodes |-> nodes]
    <3>1. CASE p.mode # "PREFERRED"
      <4>1. nodes \cap S = nodes
        BY <2>2
      <4> QED BY <3>1, <4>1 DEF KeptIn
    <3>2. CASE p.mode = "PREFERRED"
      <4>1. p.nodes \cap R # {} /\ p = [mode |-> "PREFERRED", nodes |-> {Min(p.nodes \cap R)}]
        BY <1>4, <3>2 DEF Stable, AcceptsIn, KeptIn
      <4>2. Min(p.nodes \cap R) \in p.nodes \cap R
        BY <1>1, <4>1, MinNode
      <4>3. p.nodes = {Min(p.nodes \cap R)} /\ Min(p.nodes \cap R) \in Nodes
        BY <1>1, <4>1, <4>2
      <4>4. PICK k \in Nodes : nodes = {k}
        BY <2>3, <4>3
      <4>5. nodes \cap S = {k}
        BY <2>2, <4>4
      <4>6. Min(nodes \cap S) = k
        BY <4>5, MinSingle
      <4> QED BY <2>2, <3>2, <4>4, <4>6 DEF KeptIn
    <3> QED BY <3>1, <3>2
  <2>6. [mode |-> p.mode, nodes |-> nodes] \in Policies
    BY <1>1, <2>2 DEF Policies
  <2> QED BY <2>2, <2>4, <2>5, <2>6 DEF Stable
<1> QED BY <1>3, <1>4

\* The cpuset moves, between any two steps of any probes.
LEMMA CpusetMove ==
  ASSUME ProbeInv, NEW S \in SUBSET Nodes, CpusetChange(S)
  PROVE  ProbeInv'
<1>1. ProbeTypes /\ S # {}
  BY DEF ProbeInv, CpusetChange
<1>2. /\ allowed' = S
      /\ UNCHANGED <<all_nodes, many, bind_policy, pc, op, arg, old, tmp, entry>>
      /\ moved' = [t \in Threads |-> moved[t] \/ pc[t] # "idle"]
      /\ misled' = (misled \/ \E t \in Threads : pc[t] = "try")
  BY DEF CpusetChange, library
<1>3. pol' = [t \in Threads |-> MovedTo(S, pol[t])]
  BY DEF CpusetChange, MovedTo
<1>4. \A t \in Threads : Stable(S, MovedTo(S, pol[t]))
  BY <1>1, MovedStable DEF ProbeInv, ProbeThread, ProbeTypes
<1>5. ProbeTypes'
  <2>1. pol' \in [Threads -> Policies]
    BY <1>3, <1>4 DEF Stable
  <2> QED BY <1>1, <1>2, <2>1 DEF ProbeTypes
<1>6. ASSUME NEW t \in Threads PROVE ProbeThread(t)'
  <2>1. ProbeThread(t)
    BY DEF ProbeInv
  <2>2. Stable(allowed', pol'[t])
    BY <1>2, <1>3, <1>4
  <2>3. pc[t] # "idle" => moved'[t]
    BY <1>2
  <2>4. pc[t] = "try" => misled'
    BY <1>2
  <2> QED BY <1>2, <2>1, <2>2, <2>3, <2>4 DEF ProbeThread
<1>7. ManySettled' /\ LooseUsable'
  BY <1>2 DEF ProbeInv, ManySettled, LooseUsable
<1> QED BY <1>5, <1>6, <1>7 DEF ProbeInv

\* The inductive invariant of the probe: every thread's policy is one it could
\* set again, and so comes back while the cpuset stands still.
THEOREM ProbeInvariant == Spec => []ProbeInv
<1>1. ProbeInv /\ [Next]_vars => ProbeInv'
  <2> SUFFICES ASSUME ProbeInv, [Next]_vars PROVE ProbeInv'
    OBVIOUS
  <2>1. CASE UNCHANGED vars
    BY <2>1, QuietStep DEF vars, kernel, library, history
  <2>2. ASSUME NEW t \in Threads, ProbeStep(t) PROVE ProbeInv'
    BY <2>2, ProbeBegin, ProbeEnd, ProbedCalls, OutsideStep DEF ProbeStep
  <2> QED BY <2>1, <2>2, CpusetMove, TaskStep, MemoryStep DEF Next
<1> QED BY <1>1, InitProbeInv, PTL DEF Spec

\* However many threads probe at once and wherever the cpuset moves, the cached
\* answer of set_preferred_many is right as soon as no thread is between clearing
\* and marking it, unless a probe was told wrongly what to try.
THEOREM ManySettles == Spec => []ManySettled
<1>1. ProbeInv => ManySettled
  BY DEF ProbeInv
<1> QED BY <1>1, ProbeInvariant, PTL

\* The probe gives every thread its memory policy back, whatever of it fails,
\* unless the cpuset moved during the call of that thread.
THEOREM PolicyComesBack == Spec => []ProbeRestores
<1>1. ProbeInv => ProbeRestores
  BY DEF ProbeInv, ProbeThread, ProbeRestores
<1> QED BY <1>1, ProbeInvariant, PTL

----------------------------------------------------------------------------
(* Types, by who owns the state. *)

KernelOK ==
    /\ allowed \in (SUBSET Nodes) \ {{}}
    /\ pol \in [Threads -> Policies]
    /\ run \in [Threads -> SUBSET Nodes]

LibraryOK ==
    /\ all_nodes \in SUBSET Nodes
    /\ many \in {-1, 0, 1} /\ home \in {-1, 0, 1}
    /\ bind_policy \in [Threads -> {"BIND", "MANY", "PREFERRED"}]
    /\ strict \in [Threads -> BOOLEAN]
    /\ cpu_mask \in [Nodes -> {"none", "own", "ones"}] /\ cpu_stale \in BOOLEAN

FlagsOK == exit_on_error \in BOOLEAN /\ exit_on_warn \in BOOLEAN /\ fail_alloc \in BOOLEAN

Ranges == [mapped : BOOLEAN, touched : BOOLEAN, by : AllCalls \cup {"none"}, policy : Policies]

AppOK == FlagsOK /\ exited \in BOOLEAN /\ region \in [Regions -> Ranges]

FrameOK ==
    /\ pc \in [Threads -> PCs]
    /\ op \in [Threads -> AllCalls \cup {"none"}]
    /\ arg \in [Threads -> SUBSET Nodes] /\ tmp \in [Threads -> SUBSET Nodes]
    /\ old \in [Threads -> Policies] /\ entry \in [Threads -> Policies]
    /\ moved \in [Threads -> BOOLEAN]

Outcomes == [op : AllCalls \cup {"none"}, nodes : SUBSET Nodes,
             failed : BOOLEAN, value : {-1, 0, 1}]

CallsOK == last \in [Threads -> Outcomes] /\ ops \in [Threads -> Nat] /\ misled \in BOOLEAN

LEMMA TypeParts == TypeOK <=> KernelOK /\ LibraryOK /\ AppOK /\ FrameOK /\ CallsOK
BY DEF TypeOK, KernelOK, LibraryOK, AppOK, FlagsOK, Ranges, FrameOK, PCs, CallsOK, Outcomes

LEMMA TypePartsNext == TypeOK' <=> KernelOK' /\ LibraryOK' /\ AppOK' /\ FrameOK' /\ CallsOK'
BY DEF TypeOK, KernelOK, LibraryOK, AppOK, FlagsOK, Ranges, FrameOK, PCs, CallsOK, Outcomes

\* What a step leaves alone keeps its type.
LEMMA KernelKept == ASSUME KernelOK, UNCHANGED kernel PROVE KernelOK'
BY DEF KernelOK, kernel

LEMMA LibraryKept == ASSUME LibraryOK, UNCHANGED library PROVE LibraryOK'
BY DEF LibraryOK, library, cpumaps

LEMMA AppKept == ASSUME AppOK, UNCHANGED app PROVE AppOK'
BY DEF AppOK, FlagsOK, app, flags

LEMMA FrameKept == ASSUME FrameOK, UNCHANGED frame PROVE FrameOK'
BY DEF FrameOK, frame, locals

LEMMA CallsKept == ASSUME CallsOK, UNCHANGED <<last, ops>>, misled' \in BOOLEAN PROVE CallsOK'
BY DEF CallsOK

----------------------------------------------------------------------------
(* The kernel's answers. *)

LEMMA SomePolicies ==
  /\ Default \in Policies /\ {} \in SUBSET Nodes
  /\ Unmapped \in Ranges /\ NoCall \in Outcomes
BY DEF Default, Policies, Modes, Unmapped, Ranges, NoCall, Outcomes

\* What the kernel keeps of a policy is a policy, with nodes of the cpuset only
\* and none but the ones it was given.
LEMMA KeptPolicy ==
  ASSUME KernelOK, NEW mode \in Modes, NEW nodes \in SUBSET Nodes, Accepts(mode, nodes)
  PROVE  /\ Kept(mode, nodes) \in Policies
         /\ Kept(mode, nodes).nodes \subseteq nodes \cap allowed
         /\ mode # "DEFAULT" => Kept(mode, nodes).mode # "DEFAULT"
         /\ mode = "PREFERRED" => Kept(mode, nodes).mode \in {"PREFERRED", "LOCAL"}
         /\ mode # "PREFERRED" =>
               Kept(mode, nodes) = [mode |-> mode, nodes |-> nodes \cap allowed]
<1>1. allowed \in SUBSET Nodes /\ allowed # {}
  BY DEF KernelOK
<1>2. Kept(mode, nodes) \in Policies
  BY <1>1, KeptStable DEF Accepts, Kept, Stable
<1>3. CASE mode = "PREFERRED" /\ nodes = {}
  BY <1>2, <1>3 DEF Kept, KeptIn
<1>4. CASE mode = "PREFERRED" /\ nodes # {}
  <2>1. nodes \cap allowed # {} /\ nodes \cap allowed \in SUBSET Nodes
    BY <1>4 DEF Accepts, AcceptsIn
  <2>2. Min(nodes \cap allowed) \in nodes \cap allowed
    BY <2>1, MinNode
  <2> QED BY <1>2, <1>4, <2>2 DEF Kept, KeptIn
<1>5. CASE mode # "PREFERRED"
  BY <1>2, <1>5 DEF Kept, KeptIn
<1> QED BY <1>3, <1>4, <1>5

LEMMA SetpolKernel ==
  ASSUME KernelOK, NEW t \in Threads, NEW mode \in Modes, NEW nodes \in SUBSET Nodes,
         Setpol(t, mode, nodes)
  PROVE  /\ pol' \in [Threads -> Policies]
         /\ Accepts(mode, nodes) => pol'[t] = Kept(mode, nodes)
<1>1. CASE Accepts(mode, nodes)
  BY <1>1, KeptPolicy DEF Setpol, KernelOK
<1>2. CASE ~Accepts(mode, nodes)
  BY <1>2 DEF Setpol, KernelOK
<1> QED BY <1>1, <1>2

\* A call ends with an outcome.
Ends(t, o) ==
    /\ last' = [last EXCEPT ![t] = o] /\ ops' = [ops EXCEPT ![t] = @ + 1]
    /\ UNCHANGED misled

LEMMA FinishEnds ==
  ASSUME NEW t, NEW name, NEW nodes, NEW failed, NEW value, Finish(t, name, nodes, failed, value)
  PROVE  Ends(t, [op |-> name, nodes |-> nodes, failed |-> failed, value |-> value])
BY DEF Finish, Ends

LEMMA EndsType ==
  ASSUME CallsOK, NEW t \in Threads, NEW o \in Outcomes, Ends(t, o)
  PROVE  CallsOK' /\ last'[t] = o /\ \A u \in Threads \ {t} : ops'[u] = ops[u]
BY DEF CallsOK, Ends

----------------------------------------------------------------------------
(* The task-policy calls, by what they leave behind. *)

\* A call that is one setpol.
LEMMA PolicyCallStep ==
  ASSUME TypeOK, NEW t \in Threads, NEW name \in AllCalls, NEW wanted \in SUBSET Nodes,
         NEW mode \in Modes, NEW nodes \in SUBSET Nodes,
         PolicyCall(t, name, wanted, mode, nodes)
  PROVE  /\ TypeOK'
         /\ last'[t].op = name /\ last'[t].nodes = wanted
         /\ last'[t].failed <=> ~Accepts(mode, nodes)
         /\ \A u \in Threads \ {t} : ops'[u] = ops[u]
         /\ Accepts(mode, nodes) => pol'[t] = Kept(mode, nodes)
<1> USE TypeParts
<1>1. KernelOK' /\ (Accepts(mode, nodes) => pol'[t] = Kept(mode, nodes))
  BY SetpolKernel DEF PolicyCall, KernelOK
<1>2. LibraryOK' /\ FrameOK'
  BY LibraryKept, FrameKept DEF PolicyCall
<1>3. AppOK'
  BY DEF PolicyCall, Numa_error, AppOK, FlagsOK, flags
<1> DEFINE o == [op |-> name, nodes |-> wanted, failed |-> ~Accepts(mode, nodes), value |-> 0]
<1>4. /\ o \in Outcomes /\ o.op = name /\ o.nodes = wanted
      /\ o.failed <=> ~Accepts(mode, nodes)
  BY DEF Outcomes
<1>5. Ends(t, o)
  BY FinishEnds DEF PolicyCall
<1> HIDE DEF o
<1>6. CallsOK' /\ last'[t] = o /\ \A u \in Threads \ {t} : ops'[u] = ops[u]
  BY <1>4, <1>5, EndsType
<1> QED BY <1>1, <1>2, <1>3, <1>4, <1>6, TypePartsNext

\* The CPUs numa_run_on_node_mask_v2 picks are of nodes it was asked for, unless
\* one of them has a mask of all ones.
LEMMA RunNodesWithin ==
  ASSUME LibraryOK, NEW S \in SUBSET Nodes, NEW bad \in SUBSET Nodes
  PROVE  /\ MasksAfter(S, bad) \in [Nodes -> {"none", "own", "ones"}]
         /\ RunNodes(S, bad) \in SUBSET Nodes
         /\ RunNodes(S, bad) \subseteq S \/ SpoiltMask(MasksAfter(S, bad), S)
<1> DEFINE masks == MasksAfter(S, bad)
<1>1. masks \in [Nodes -> {"none", "own", "ones"}]
  BY DEF MasksAfter, LibraryOK
<1> HIDE DEF masks
<1>2. ASSUME NEW n \in Nodes PROVE CpusIn(masks[n], n) \in SUBSET Nodes
  BY ConstantsAssumption DEF CpusIn, Nodes
<1>3. ASSUME NEW n \in S, masks[n] # "ones" PROVE CpusIn(masks[n], n) \subseteq S
  BY <1>3 DEF CpusIn
<1>4. Asked(S) \subseteq S
  BY DEF Asked
<1>5. RunNodes(S, bad) = UNION {CpusIn(masks[n], n) : n \in Asked(S) \ bad}
  BY DEF RunNodes, masks
<1>6. RunNodes(S, bad) \in SUBSET Nodes
  BY <1>2, <1>4, <1>5
<1>7. RunNodes(S, bad) \subseteq S \/ SpoiltMask(masks, S)
  BY <1>3, <1>4, <1>5 DEF SpoiltMask
<1> QED BY <1>1, <1>6, <1>7 DEF masks

\* numa_bind: the affinity, then the policy.
LEMMA BindCallStep ==
  ASSUME TypeOK, NEW t \in Threads, NEW S \in SUBSET Nodes, Numa_bind(t, S)
  PROVE  /\ TypeOK'
         /\ last'[t].op = "bind" /\ last'[t].nodes = S
         /\ \A u \in Threads \ {t} : ops'[u] = ops[u]
         /\ ~last'[t].failed /\ ~exited' =>
               /\ run'[t] # {} /\ (run'[t] \subseteq S \/ SpoiltMask(cpu_mask', S))
               /\ Accepts("BIND", S) /\ pol'[t] = Kept("BIND", S)
<1> USE TypeParts
<1>0. PICK bad \in SUBSET Nodes :
        LET warned == WarnExits(~(S \subseteq all_nodes) \/ bad # {})
            unplaced == RunNodes(S, bad) = {}
            failed == unplaced \/ ~Accepts("BIND", S)
        IN  /\ cpu_mask' = MasksAfter(S, bad)
            /\ cpu_stale' = (cpu_stale /\ Asked(S) = {})
            /\ run' = IF warned \/ unplaced THEN run ELSE [run EXCEPT ![t] = RunNodes(S, bad)]
            /\ IF warned \/ (unplaced /\ exit_on_error) THEN UNCHANGED pol ELSE Setpol(t, "BIND", S)
            /\ exited' = (warned \/ (failed /\ exit_on_error))
            /\ Finish(t, "bind", S, failed, 0)
            /\ UNCHANGED <<allowed, all_nodes, many, home, bind_policy, strict, flags, region, frame>>
  <2>1. (IF ReadsFail THEN SUBSET Nodes ELSE {{}}) \subseteq SUBSET Nodes
    OBVIOUS
  <2> QED BY <2>1 DEF Numa_bind
<1> DEFINE warned == WarnExits(~(S \subseteq all_nodes) \/ bad # {})
           cpus == RunNodes(S, bad)
           unplaced == cpus = {}
           failed == unplaced \/ ~Accepts("BIND", S)
<1>1. /\ cpu_mask' = MasksAfter(S, bad) /\ cpu_stale' = (cpu_stale /\ Asked(S) = {})
      /\ run' = IF warned \/ unplaced THEN run ELSE [run EXCEPT ![t] = cpus]
      /\ IF warned \/ (unplaced /\ exit_on_error) THEN UNCHANGED pol ELSE Setpol(t, "BIND", S)
      /\ exited' = (warned \/ (failed /\ exit_on_error))
      /\ Finish(t, "bind", S, failed, 0)
      /\ UNCHANGED <<allowed, all_nodes, many, home, bind_policy, strict, flags, region, frame>>
  BY <1>0
<1>2. /\ cpus \in SUBSET Nodes /\ MasksAfter(S, bad) \in [Nodes -> {"none", "own", "ones"}]
      /\ cpus \subseteq S \/ SpoiltMask(MasksAfter(S, bad), S)
      /\ "BIND" \in Modes /\ "bind" \in AllCalls
  BY RunNodesWithin DEF Modes, AllCalls, TaskPolicyCalls
<1> HIDE DEF cpus
<1>3. failed \in BOOLEAN /\ (failed <=> unplaced \/ ~Accepts("BIND", S))
  OBVIOUS
<1>4. exited' \in BOOLEAN /\ (~exited' => ~warned)
  BY <1>1
<1> HIDE DEF warned, failed
<1>5. run' \in [Threads -> SUBSET Nodes] /\ (~warned /\ ~unplaced => run'[t] = cpus /\ cpus # {})
  BY <1>1, <1>2 DEF KernelOK
<1> HIDE DEF unplaced
<1>6. /\ pol' \in [Threads -> Policies]
      /\ ~warned /\ ~unplaced /\ Accepts("BIND", S) => pol'[t] = Kept("BIND", S)
  BY <1>1, <1>2, SetpolKernel DEF KernelOK
<1> DEFINE o == [op |-> "bind", nodes |-> S, failed |-> failed, value |-> 0]
<1>7. CallsOK' /\ last'[t] = o /\ \A u \in Threads \ {t} : ops'[u] = ops[u]
  <2>1. o \in Outcomes
    BY <1>2, <1>3 DEF Outcomes
  <2>2. Ends(t, o)
    BY <1>1, FinishEnds
  <2> HIDE DEF o
  <2> QED BY <2>1, <2>2, EndsType
<1>8. LibraryOK'
  <2>1. cpu_stale' \in BOOLEAN
    BY <1>1 DEF LibraryOK
  <2> QED BY <1>1, <1>2, <2>1 DEF LibraryOK
<1>9. TypeOK'
  BY <1>1, <1>4, <1>5, <1>6, <1>7, <1>8, FrameKept, TypePartsNext
  DEF KernelOK, AppOK, FlagsOK, flags
<1>10. cpu_mask' = MasksAfter(S, bad)
  BY <1>1
<1> QED BY <1>2, <1>3, <1>4, <1>5, <1>6, <1>7, <1>9, <1>10

\* A call that sets no task policy.
Other == AllCalls \ SetsPolicy

LEMMA OtherCall ==
  ASSUME TypeOK, NEW t \in Threads, NEW o \in Outcomes, o.op \in Other, Ends(t, o)
  PROVE  CallsOK' /\ BindStep /\ ReadBackStep
<1>1. CallsOK' /\ last'[t] = o /\ \A u \in Threads \ {t} : ops'[u] = ops[u]
  BY EndsType, TypeParts
<1>2. BindStep
  BY <1>1 DEF BindStep, Other, SetsPolicy
<1>3. ReadBackStep
  BY <1>1 DEF ReadBackStep, Other, SetsPolicy
<1> QED BY <1>1, <1>2, <1>3

\* A step inside a call.
LEMMA InsideCall ==
  ASSUME UNCHANGED ops
  PROVE  BindStep /\ ReadBackStep
BY DEF BindStep, ReadBackStep

\* What every step does.
StepOK == TypeOK' /\ BindStep /\ ReadBackStep /\ (AllocHasPolicy => AllocHasPolicy')

LEMMA RegionsKept ==
  ASSUME UNCHANGED <<flags, region>>
  PROVE  AllocHasPolicy => AllocHasPolicy'
BY DEF AllocHasPolicy, flags

\* The policy p is what the getters look for after the call `name' for the nodes
\* of `wanted'.
Answers(name, wanted, p) ==
    LET got == wanted \cap allowed
    IN  /\ name \in {"membind", "bind"} => p.mode = "BIND" /\ p.nodes = got /\ got # {}
        /\ name = "interleave" => /\ p.mode \in {"DEFAULT", "INTERLEAVE"} /\ p.nodes = got
                                  /\ p.mode = "DEFAULT" => got = {}
        /\ name = "weighted" => /\ p.mode \in {"DEFAULT", "WEIGHTED"} /\ p.nodes = got
                                /\ p.mode = "DEFAULT" => got = {}
        /\ name = "balancing" => p.mode \in {"BALANCED", "BIND"} /\ p.nodes = got
        /\ name \in {"preferred", "localalloc"} =>
              p.mode \in {"PREFERRED", "LOCAL"} /\ p.nodes = got
        /\ name = "set" => /\ p.mode \in {"PREFERRED", "LOCAL", "MANY"} /\ p.nodes \subseteq got
                           /\ many # 0 => p.nodes = got

\* The getters after one call of a thread, by its outcome.
LEMMA AnswersRead ==
  ASSUME NEW t \in Threads, NEW name \in SetsPolicy, NEW wanted,
         last'[t].op = name, last'[t].nodes = wanted, UNCHANGED all_nodes,
         \A u \in Threads \ {t} : ops'[u] = ops[u],
         ~last'[t].failed /\ ~exited' => Answers(name, wanted, pol'[t])
  PROVE  ReadBackStep
<1> SUFFICES ASSUME NEW u \in Threads, ops'[u] # ops[u], ~last'[u].failed, ~exited'
             PROVE  LET did(calls) == last'[u].op \in calls
                        got == last'[u].nodes \cap allowed
                    IN  /\ did({"membind", "bind"}) => Numa_get_membind(u)' = got /\ got # {}
                        /\ did({"interleave"}) => Numa_get_interleave_mask(u)' = got
                        /\ did({"weighted"}) => Numa_get_weighted_interleave_mask(u)' = got
                        /\ did({"preferred", "localalloc"}) => Numa_preferred_many(u)' = got
                        /\ did({"set"}) => IF many # 0 THEN Numa_preferred_many(u)' = got
                                           ELSE Numa_preferred_many(u)' \subseteq got
                        /\ did({"balancing"}) => Numa_get_membind(u)' \in {got, all_nodes}
                        /\ did(SetsPolicy \ {"membind", "bind", "balancing"}) =>
                              Numa_get_membind(u)' = all_nodes
                        /\ did(SetsPolicy \ {"interleave"}) => Numa_get_interleave_mask(u)' = {}
                        /\ did(SetsPolicy \ {"weighted"}) =>
                              Numa_get_weighted_interleave_mask(u)' = {}
  BY DEF ReadBackStep
<1>1. u = t
  OBVIOUS
<1> DEFINE p == pol'[t]
<1>2. Answers(name, wanted, p)
  BY <1>1
<1>3. /\ Numa_get_membind(t)' = IF p.mode = "BIND" THEN p.nodes ELSE all_nodes
      /\ Numa_get_interleave_mask(t)' = IF p.mode = "INTERLEAVE" THEN p.nodes ELSE {}
      /\ Numa_get_weighted_interleave_mask(t)' = IF p.mode = "WEIGHTED" THEN p.nodes ELSE {}
      /\ Numa_preferred_many(t)' = p.nodes
  BY DEF Numa_get_membind, Numa_get_interleave_mask, Numa_get_weighted_interleave_mask,
         Numa_preferred_many
<1> HIDE DEF p
<1> QED BY <1>1, <1>2, <1>3 DEF Answers, SetsPolicy

\* The memory policy that a successful task-policy call leaves its thread with is
\* the one the getter looks for.
LEMMA PolicyCallReads ==
  ASSUME TypeOK, NEW t \in Threads, NEW name \in (AllCalls \cap SetsPolicy) \ {"bind"},
         NEW wanted \in SUBSET Nodes,
         NEW mode \in Modes, NEW nodes \in SUBSET Nodes,
         PolicyCall(t, name, wanted, mode, nodes),
         Accepts(mode, nodes) => Answers(name, wanted, Kept(mode, nodes))
  PROVE  StepOK
<1>1. /\ TypeOK'
      /\ last'[t].op = name /\ last'[t].nodes = wanted
      /\ last'[t].failed <=> ~Accepts(mode, nodes)
      /\ \A u \in Threads \ {t} : ops'[u] = ops[u]
      /\ Accepts(mode, nodes) => pol'[t] = Kept(mode, nodes)
  BY PolicyCallStep
<1>2. UNCHANGED <<allowed, all_nodes, flags, region>>
  BY DEF PolicyCall, library
<1>3. BindStep
  BY <1>1 DEF BindStep
<1>4. ReadBackStep
  <2>1. ~last'[t].failed => Answers(name, wanted, pol'[t])
    BY <1>1
  <2> QED BY <1>1, <1>2, <2>1, AnswersRead
<1> QED BY <1>1, <1>2, <1>3, <1>4, RegionsKept DEF StepOK

\* Every call that sets the policy of its thread and nothing else.
LEMMA PolicyCallsStep ==
  ASSUME TypeOK, NEW t \in Threads,
         \/ \E S \in SUBSET Nodes :
               \/ Numa_set_interleave_mask(t, S) \/ Numa_set_weighted_interleave_mask(t, S)
               \/ Numa_set_membind(t, S) \/ Numa_set_membind_balancing(t, S)
         \/ \E n \in NodeArgs : Numa_set_preferred(t, n)
         \/ Numa_set_localalloc(t)
  PROVE  StepOK
<1> USE DEF AllCalls, TaskPolicyCalls, SetsPolicy, Modes
<1>0. KernelOK
  BY TypeParts
<1>1. ASSUME NEW S \in SUBSET Nodes, Numa_set_interleave_mask(t, S) PROVE StepOK
  <2> DEFINE mode == IF S = {} THEN "DEFAULT" ELSE "INTERLEAVE"
  <2>1. mode \in Modes /\ mode # "PREFERRED" /\ (mode = "DEFAULT" <=> S = {})
        /\ mode \in {"DEFAULT", "INTERLEAVE"}
    OBVIOUS
  <2>2. PolicyCall(t, "interleave", S, mode, S)
    BY <1>1 DEF Numa_set_interleave_mask
  <2> HIDE DEF mode
  <2>3. Accepts(mode, S) => Answers("interleave", S, Kept(mode, S))
    BY <1>0, <2>1, KeptPolicy DEF Answers
  <2>4. "interleave" \in (AllCalls \cap SetsPolicy) \ {"bind"}
    OBVIOUS
  <2> HIDE DEF AllCalls, SetsPolicy
  <2> QED BY <2>1, <2>2, <2>3, <2>4, PolicyCallReads
<1>2. ASSUME NEW S \in SUBSET Nodes, Numa_set_weighted_interleave_mask(t, S) PROVE StepOK
  <2> DEFINE mode == IF S = {} THEN "DEFAULT" ELSE "WEIGHTED"
  <2>1. mode \in Modes /\ mode # "PREFERRED" /\ (mode = "DEFAULT" <=> S = {})
        /\ mode \in {"DEFAULT", "WEIGHTED"}
    OBVIOUS
  <2>2. PolicyCall(t, "weighted", S, mode, S)
    BY <1>2 DEF Numa_set_weighted_interleave_mask
  <2> HIDE DEF mode
  <2>3. Accepts(mode, S) => Answers("weighted", S, Kept(mode, S))
    BY <1>0, <2>1, KeptPolicy DEF Answers
  <2>4. "weighted" \in (AllCalls \cap SetsPolicy) \ {"bind"}
    OBVIOUS
  <2> HIDE DEF AllCalls, SetsPolicy
  <2> QED BY <2>1, <2>2, <2>3, <2>4, PolicyCallReads
<1>3. ASSUME NEW S \in SUBSET Nodes, Numa_set_membind(t, S) PROVE StepOK
  <2>1. Accepts("BIND", S) => Answers("membind", S, Kept("BIND", S))
    BY <1>0, KeptPolicy DEF Accepts, AcceptsIn, Answers
  <2>2. PolicyCall(t, "membind", S, "BIND", S)
    BY <1>3 DEF Numa_set_membind
  <2>3. "membind" \in (AllCalls \cap SetsPolicy) \ {"bind"} /\ "BIND" \in Modes
    OBVIOUS
  <2> HIDE DEF AllCalls, SetsPolicy, Modes
  <2> QED BY <2>1, <2>2, <2>3, PolicyCallReads
<1>4. ASSUME NEW S \in SUBSET Nodes, Numa_set_membind_balancing(t, S) PROVE StepOK
  <2> DEFINE mode == IF Accepts("BALANCED", S) THEN "BALANCED" ELSE "BIND"
  <2>1. PolicyCall(t, "balancing", S, mode, S) /\ mode \in Modes
    BY <1>4 DEF Numa_set_membind_balancing
  <2>2. "balancing" \in (AllCalls \cap SetsPolicy) \ {"bind"} /\ mode \in {"BALANCED", "BIND"}
    OBVIOUS
  <2>3. Accepts(mode, S) => Answers("balancing", S, Kept(mode, S))
    <3> HIDE DEF mode
    <3> QED BY <1>0, <2>1, <2>2, KeptPolicy DEF Answers
  <2> HIDE DEF mode, AllCalls, SetsPolicy
  <2> QED BY <2>1, <2>2, <2>3, PolicyCallReads
<1>5. ASSUME NEW n \in NodeArgs, Numa_set_preferred(t, n) PROVE StepOK
  <2> DEFINE S == OneNode(n)
             mode == IF S = {} THEN "LOCAL" ELSE "PREFERRED"
  <2>1. S \in SUBSET Nodes /\ mode \in Modes
    BY DEF OneNode
  <2>2. PolicyCall(t, "preferred", S, mode, S)
    BY <1>5 DEF Numa_set_preferred
  <2>3. ASSUME Accepts(mode, S)
        PROVE  Kept(mode, S).nodes = S \cap allowed /\ Kept(mode, S).mode \in {"PREFERRED", "LOCAL"}
    <3>1. CASE S = {}
      BY <1>0, <2>1, <2>3, <3>1, KeptPolicy
    <3>2. CASE S # {}
      <4>1. S = {n} /\ n \in Nodes /\ mode = "PREFERRED"
        BY <3>2 DEF OneNode
      <4>2. S \cap allowed = {n}
        BY <2>3, <4>1 DEF Accepts, AcceptsIn
      <4>3. Kept(mode, S) = [mode |-> "PREFERRED", nodes |-> {n}]
        BY <4>1, <4>2, MinSingle DEF Kept, KeptIn
      <4> QED BY <4>2, <4>3
    <3> QED BY <3>1, <3>2
  <2> HIDE DEF S, mode
  <2>4. "preferred" \in (AllCalls \cap SetsPolicy) \ {"bind"}
        /\ (Accepts(mode, S) => Answers("preferred", S, Kept(mode, S)))
    BY <2>3 DEF Answers
  <2> HIDE DEF AllCalls, SetsPolicy
  <2> QED BY <2>1, <2>2, <2>4, PolicyCallReads
<1>6. CASE Numa_set_localalloc(t)
  <2>1. PolicyCall(t, "localalloc", {}, "LOCAL", {}) /\ {} \in SUBSET Nodes
    BY <1>6 DEF Numa_set_localalloc
  <2>2. Accepts("LOCAL", {}) => Answers("localalloc", {}, Kept("LOCAL", {}))
    BY <1>0, <2>1, KeptPolicy DEF Answers
  <2>3. "localalloc" \in (AllCalls \cap SetsPolicy) \ {"bind"} /\ "LOCAL" \in Modes
    OBVIOUS
  <2> HIDE DEF AllCalls, SetsPolicy, Modes
  <2> QED BY <2>1, <2>2, <2>3, PolicyCallReads
<1> QED BY <1>1, <1>2, <1>3, <1>4, <1>5, <1>6

LEMMA BindStepOK ==
  ASSUME TypeOK, NEW t \in Threads, NEW S \in SUBSET Nodes, Numa_bind(t, S)
  PROVE  StepOK
<1>1. /\ TypeOK'
      /\ last'[t].op = "bind" /\ last'[t].nodes = S
      /\ \A u \in Threads \ {t} : ops'[u] = ops[u]
      /\ ~last'[t].failed /\ ~exited' =>
            /\ run'[t] # {} /\ (run'[t] \subseteq S \/ SpoiltMask(cpu_mask', S))
            /\ Accepts("BIND", S) /\ pol'[t] = Kept("BIND", S)
  BY BindCallStep
<1>2. Accepts("BIND", S) => /\ Kept("BIND", S) = [mode |-> "BIND", nodes |-> S \cap allowed]
                            /\ S \cap allowed # {}
  BY TypeParts, KeptPolicy DEF Accepts, AcceptsIn, Modes
<1>3. "bind" \in SetsPolicy /\ UNCHANGED all_nodes
  BY DEF SetsPolicy, Numa_bind
<1>4. BindStep
  BY <1>1, <1>2 DEF BindStep
<1>5. ReadBackStep
  <2>1. ~last'[t].failed /\ ~exited' => Answers("bind", S, pol'[t])
    BY <1>1, <1>2 DEF Answers
  <2> QED BY <1>1, <1>3, <2>1, AnswersRead
<1>6. UNCHANGED <<flags, region>>
  BY DEF Numa_bind
<1> QED BY <1>1, <1>4, <1>5, <1>6, RegionsKept DEF StepOK

----------------------------------------------------------------------------
(* Memory ranges. *)

\* A call about ranges that changes no policy of a thread and ends with an
\* outcome o.
LEMMA RangeStep ==
  ASSUME TypeOK, NEW t \in Threads, NEW o \in Outcomes, o.op \in Other, Ends(t, o),
         UNCHANGED <<kernel, library, flags, frame>>,
         exited' \in BOOLEAN, region' \in [Regions -> Ranges],
         AllocHasPolicy => AllocHasPolicy'
  PROVE  StepOK
<1>1. CallsOK' /\ BindStep /\ ReadBackStep
  BY OtherCall
<1>2. KernelOK' /\ LibraryOK' /\ FrameOK'
  BY TypeParts, KernelKept, LibraryKept, FrameKept
<1>3. AppOK'
  BY TypeParts DEF AppOK, FlagsOK, flags
<1> QED BY <1>1, <1>2, <1>3, TypePartsNext DEF StepOK

\* mbind of a mapped range with a mode that is not the default.
LEMMA MemoryCallStep ==
  ASSUME TypeOK, NEW t \in Threads, NEW name \in RangeCalls, NEW r \in Regions,
         NEW mode \in Modes \ {"DEFAULT"}, NEW nodes \in SUBSET Nodes,
         MemoryCall(t, name, r, mode, nodes)
  PROVE  StepOK
<1>1. PICK misplaced \in BOOLEAN :
          LET failed == ~Accepts(mode, nodes) \/ misplaced
          IN  /\ region' = IF failed THEN region
                           ELSE [region EXCEPT ![r].policy = Kept(mode, nodes)]
              /\ Numa_error(failed)
              /\ Finish(t, name, nodes, failed, 0)
  BY DEF MemoryCall
<1> DEFINE failed == ~Accepts(mode, nodes) \/ misplaced
           o == [op |-> name, nodes |-> nodes, failed |-> failed, value |-> 0]
<1>2. failed \in BOOLEAN /\ (~failed => Accepts(mode, nodes))
  OBVIOUS
<1>3. /\ region' = IF failed THEN region ELSE [region EXCEPT ![r].policy = Kept(mode, nodes)]
      /\ exited' \in BOOLEAN
  BY <1>1 DEF Numa_error
<1>4. Ends(t, o)
  BY <1>1, FinishEnds
<1>5. name \in Other
  BY DEF Other, SetsPolicy, AllCalls, RangeCalls
<1> HIDE DEF failed
<1>6. o \in Outcomes /\ o.op \in Other
  BY <1>2, <1>5 DEF Outcomes, Other
<1> HIDE DEF o
<1>7. CASE failed
  <2>1. UNCHANGED <<flags, region>>
    BY <1>3, <1>7 DEF MemoryCall
  <2>2. region' \in [Regions -> Ranges]
    BY <2>1, TypeParts DEF AppOK
  <2> QED BY <1>3, <1>4, <1>6, <2>1, <2>2, RegionsKept, RangeStep DEF MemoryCall
<1>8. CASE ~failed
  <2> DEFINE k == Kept(mode, nodes)
  <2>1. k \in Policies /\ k.mode # "DEFAULT"
    BY <1>2, <1>8, TypeParts, KeptPolicy
  <2> HIDE DEF k
  <2>2. region' = [region EXCEPT ![r].policy = k]
    BY <1>3, <1>8 DEF k
  <2>3. region' \in [Regions -> Ranges]
    BY <2>1, <2>2, TypeParts DEF AppOK, Ranges
  <2>4. UNCHANGED flags
    BY DEF MemoryCall
  <2>5. AllocHasPolicy => AllocHasPolicy'
    BY <2>1, <2>2, <2>4, TypeParts DEF AppOK, Ranges, AllocHasPolicy, flags
  <2> QED BY <1>3, <1>4, <1>6, <2>3, <2>5, RangeStep DEF MemoryCall
<1> QED BY <1>7, <1>8

\* mmap and dombind_or_free.
LEMMA AllocCallStep ==
  ASSUME TypeOK, NEW t \in Threads, NEW name \in AllocCalls, NEW r \in Regions,
         NEW mode \in Modes \ {"DEFAULT"}, NEW nodes \in SUBSET Nodes,
         AllocCall(t, name, r, mode, nodes)
  PROVE  StepOK
<1>1. name \in Other /\ name \in AllCalls
  BY DEF Other, SetsPolicy, AllCalls, AllocCalls
<1>2. UNCHANGED <<kernel, library, flags, frame>> /\ AppOK
  BY TypeParts DEF AllocCall
<1>3. CASE Finish(t, name, nodes, TRUE, 0) /\ UNCHANGED <<region, exited>>
  <2> DEFINE o == [op |-> name, nodes |-> nodes, failed |-> TRUE, value |-> 0]
  <2>1. o \in Outcomes /\ o.op \in Other
    BY <1>1 DEF Outcomes
  <2>2. Ends(t, o)
    BY <1>3, FinishEnds
  <2> HIDE DEF o
  <2> QED BY <1>2, <1>3, <2>1, <2>2, RegionsKept, RangeStep DEF AppOK
<1>4. CASE /\ region' = IF KeepsMapping(mode, nodes)
                        THEN [region EXCEPT ![r] = Mapped(name, mode, nodes)] ELSE region
           /\ Numa_error(~Accepts(mode, nodes))
           /\ Finish(t, name, nodes, ~Accepts(mode, nodes),
                     IF KeepsMapping(mode, nodes) THEN 1 ELSE 0)
  <2> DEFINE o == [op |-> name, nodes |-> nodes, failed |-> ~Accepts(mode, nodes),
                   value |-> IF KeepsMapping(mode, nodes) THEN 1 ELSE 0]
             m == Mapped(name, mode, nodes)
  <2>1. o \in Outcomes /\ o.op \in Other
    BY <1>1 DEF Outcomes
  <2>2. Ends(t, o)
    BY <1>4, FinishEnds
  <2>3. exited' \in BOOLEAN
    BY <1>4 DEF Numa_error
  <2> DEFINE p == IF Accepts(mode, nodes) THEN Kept(mode, nodes) ELSE Default
  <2>4. p \in Policies /\ (Accepts(mode, nodes) => p.mode # "DEFAULT")
    BY TypeParts, KeptPolicy, SomePolicies
  <2>5. m = [mapped |-> TRUE, touched |-> FALSE, by |-> name, policy |-> p]
    BY DEF Mapped
  <2> HIDE DEF o, m, p
  <2>6. m \in Ranges /\ m.policy = p
    BY <1>1, <2>4, <2>5 DEF Ranges
  <2>7. region' \in [Regions -> Ranges]
    BY <1>2, <1>4, <2>6 DEF AppOK, m
  <2>8. AllocHasPolicy => AllocHasPolicy'
    <3>1. CASE KeepsMapping(mode, nodes)
      <4>1. fail_alloc => p.mode # "DEFAULT"
        BY <2>4, <3>1 DEF KeepsMapping
      <4>2. region' = [region EXCEPT ![r] = m]
        BY <1>4, <3>1 DEF m
      <4> QED BY <1>2, <2>6, <4>1, <4>2 DEF AllocHasPolicy, AppOK, flags
    <3>2. CASE ~KeepsMapping(mode, nodes)
      BY <1>2, <1>4, <3>2, RegionsKept
    <3> QED BY <3>1, <3>2
  <2> QED BY <1>2, <2>1, <2>2, <2>3, <2>7, <2>8, RangeStep
<1> QED BY <1>3, <1>4 DEF AllocCall

\* The calls about ranges that set no policy.
LEMMA PlainRangeStep ==
  ASSUME TypeOK, NEW t \in Threads, NEW r \in Regions,
         \/ Numa_police_memory(t, r) \/ Numa_alloc(t, r) \/ Numa_realloc(t, r) \/ Numa_free(t, r)
         \/ \E n \in NodeArgs : Numa_set_mempolicy_home_node(t, r, n)
  PROVE  StepOK
<1> USE SomePolicies
<1>0. AppOK /\ {"police", "alloc", "realloc", "free", "set_home"} \subseteq Other
      /\ "alloc" \in AllCalls /\ "alloc" \notin AllocCalls
  BY TypeParts DEF Other, SetsPolicy, AllCalls, RangeCalls, AllocCalls
<1>1. CASE Numa_police_memory(t, r)
  <2> DEFINE o == [op |-> "police", nodes |-> {}, failed |-> FALSE, value |-> 0]
  <2>1. o \in Outcomes /\ o.op \in Other
    BY <1>0 DEF Outcomes, Other
  <2>2. Ends(t, o)
    BY <1>1, FinishEnds DEF Numa_police_memory
  <2>3. /\ region' = [region EXCEPT ![r].touched = TRUE]
        /\ UNCHANGED <<kernel, library, flags, exited, frame>>
    BY <1>1 DEF Numa_police_memory
  <2>4. region' \in [Regions -> Ranges] /\ (AllocHasPolicy => AllocHasPolicy')
    BY <1>0, <2>3 DEF AppOK, Ranges, AllocHasPolicy, flags
  <2> HIDE DEF o
  <2> QED BY <1>0, <2>1, <2>2, <2>3, <2>4, RangeStep DEF AppOK
<1>2. CASE Numa_alloc(t, r)
  <2>1. PICK mmaps \in BOOLEAN :
          /\ region' = IF mmaps
                       THEN [region EXCEPT ![r] =
                               [Mapped("alloc", "DEFAULT", {}) EXCEPT !.touched = TRUE]]
                       ELSE region
          /\ Finish(t, "alloc", {}, ~mmaps, IF mmaps THEN 1 ELSE 0)
    BY <1>2 DEF Numa_alloc
  <2> DEFINE o == [op |-> "alloc", nodes |-> {}, failed |-> ~mmaps,
                   value |-> IF mmaps THEN 1 ELSE 0]
             fresh == Mapped("alloc", "DEFAULT", {})
             m == [fresh EXCEPT !.touched = TRUE]
             p == IF Accepts("DEFAULT", {}) THEN Kept("DEFAULT", {}) ELSE Default
  <2>2. o \in Outcomes /\ o.op \in Other
    BY <1>0 DEF Outcomes, Other
  <2>3. Ends(t, o)
    BY <2>1, FinishEnds
  <2>4. p \in Policies
    BY TypeParts, KeptPolicy DEF Modes
  <2>5. fresh = [mapped |-> TRUE, touched |-> FALSE, by |-> "alloc", policy |-> p]
    BY DEF Mapped
  <2>6. m \in Ranges /\ m.by \notin AllocCalls
    <3> HIDE DEF fresh, p
    <3>1. fresh \in Ranges /\ fresh.by = "alloc"
      BY <1>0, <2>4, <2>5 DEF Ranges
    <3> QED BY <1>0, <3>1 DEF Ranges
  <2>7. region' = region \/ region' = [region EXCEPT ![r] = m]
    BY <2>1
  <2> HIDE DEF m, o
  <2>8. UNCHANGED <<kernel, library, flags, exited, frame>>
    BY <1>2 DEF Numa_alloc
  <2>9. region' \in [Regions -> Ranges]
    BY <1>0, <2>6, <2>7 DEF AppOK
  <2>10. AllocHasPolicy => AllocHasPolicy'
    BY <1>0, <2>6, <2>7, <2>8 DEF AppOK, AllocHasPolicy, flags
  <2> QED BY <1>0, <2>2, <2>3, <2>8, <2>9, <2>10, RangeStep DEF AppOK
<1>3. CASE Numa_realloc(t, r)
  <2>1. PICK relocated \in BOOLEAN : Finish(t, "realloc", {}, ~relocated, IF relocated THEN 1 ELSE 0)
    BY <1>3 DEF Numa_realloc
  <2> DEFINE o == [op |-> "realloc", nodes |-> {}, failed |-> ~relocated,
                   value |-> IF relocated THEN 1 ELSE 0]
  <2>2. o \in Outcomes /\ o.op \in Other
    BY <1>0 DEF Outcomes, Other
  <2>3. Ends(t, o)
    BY <2>1, FinishEnds
  <2> HIDE DEF o
  <2>4. UNCHANGED <<kernel, library, flags, exited, region, frame>>
    BY <1>3 DEF Numa_realloc, app
  <2> QED BY <1>0, <2>2, <2>3, <2>4, RegionsKept, RangeStep DEF AppOK
<1>4. CASE Numa_free(t, r)
  <2> DEFINE o == [op |-> "free", nodes |-> {}, failed |-> FALSE, value |-> 0]
  <2>1. o \in Outcomes /\ o.op \in Other
    BY <1>0 DEF Outcomes, Other
  <2>2. Ends(t, o)
    BY <1>4, FinishEnds DEF Numa_free
  <2>3. /\ region' = [region EXCEPT ![r] = Unmapped]
        /\ UNCHANGED <<kernel, library, flags, exited, frame>>
    BY <1>4 DEF Numa_free
  <2>4. region' \in [Regions -> Ranges] /\ (AllocHasPolicy => AllocHasPolicy')
    BY <1>0, <2>3 DEF AppOK, Unmapped, AllocHasPolicy, flags
  <2> HIDE DEF o
  <2> QED BY <1>0, <2>1, <2>2, <2>3, <2>4, RangeStep DEF AppOK
<1>5. ASSUME NEW n \in NodeArgs, Numa_set_mempolicy_home_node(t, r, n) PROVE StepOK
  <2> DEFINE failed == ~(/\ "home" \in Supports /\ n \in allowed
                         /\ region[r].policy.mode \in {"BIND", "MANY"})
             o == [op |-> "set_home", nodes |-> OneNode(n), failed |-> failed, value |-> 0]
  <2>1. Ends(t, o) /\ exited' \in BOOLEAN
    BY <1>5, FinishEnds DEF Numa_set_mempolicy_home_node, Numa_error
  <2>2. UNCHANGED <<kernel, library, flags, region, frame>>
    BY <1>5 DEF Numa_set_mempolicy_home_node
  <2>3. failed \in BOOLEAN /\ OneNode(n) \in SUBSET Nodes
    BY DEF OneNode
  <2> HIDE DEF failed
  <2>4. o \in Outcomes /\ o.op \in Other
    BY <1>0, <2>3 DEF Outcomes, Other
  <2> HIDE DEF o
  <2> QED BY <1>0, <2>1, <2>2, <2>4, RegionsKept, RangeStep DEF AppOK
<1> QED BY <1>1, <1>2, <1>3, <1>4, <1>5

LEMMA MemoryCallsStep ==
  ASSUME TypeOK, NEW t \in Threads, MemoryCalls(t)
  PROVE  StepOK
<1>1. /\ bind_policy[t] \in Modes \ {"DEFAULT"} /\ all_nodes \in SUBSET Nodes
      /\ {"INTERLEAVE", "WEIGHTED", "LOCAL"} \subseteq Modes \ {"DEFAULT"}
      /\ {} \in SUBSET Nodes /\ \A n \in NodeArgs : OneNode(n) \in SUBSET Nodes
  BY TypeParts DEF LibraryOK, Modes, OneNode
<1>2. PICK r \in Regions :
        \/ \E name \in RangeCalls, mode \in Modes \ {"DEFAULT"}, nodes \in SUBSET Nodes :
              MemoryCall(t, name, r, mode, nodes)
        \/ \E name \in AllocCalls, mode \in Modes \ {"DEFAULT"}, nodes \in SUBSET Nodes :
              AllocCall(t, name, r, mode, nodes)
        \/ Numa_police_memory(t, r) \/ Numa_alloc(t, r) \/ Numa_realloc(t, r) \/ Numa_free(t, r)
        \/ \E n \in NodeArgs : Numa_set_mempolicy_home_node(t, r, n)
  BY <1>1 DEF MemoryCalls, Numa_interleave_memory, Numa_weighted_interleave_memory,
     Numa_tonodemask_memory, Numa_alloc_interleaved_subset,
     Numa_alloc_weighted_interleaved_subset, Numa_tonode_memory, Numa_alloc_onnode,
     Numa_setlocal_memory, Numa_alloc_local, Numa_alloc_interleaved,
     Numa_alloc_weighted_interleaved, AllocCalls, RangeCalls
<1> QED BY <1>2, MemoryCallStep, AllocCallStep, PlainRangeStep

----------------------------------------------------------------------------
(* The calls in several steps. *)

\* A step inside a call, which the application does not see the end of yet.
LEMMA InnerStep ==
  ASSUME TypeOK, UNCHANGED <<flags, region, last, ops>>, misled' \in BOOLEAN,
         KernelOK', LibraryOK', exited' \in BOOLEAN, FrameOK'
  PROVE  StepOK
<1>1. AppOK'
  BY TypeParts DEF AppOK, FlagsOK, flags
<1>2. CallsOK'
  BY TypeParts, CallsKept
<1> QED BY <1>1, <1>2, TypePartsNext, InsideCall, RegionsKept DEF StepOK

LEMMA StartProbeStep ==
  ASSUME TypeOK, NEW t \in Threads, NEW name \in AllCalls, NEW S \in SUBSET Nodes,
         StartProbe(t, name, S)
  PROVE  StepOK
<1>1. FrameOK'
  <2>1. pc' = [pc EXCEPT ![t] = IF name = "home" THEN "home_test" ELSE "test"]
    BY DEF StartProbe
  <2> QED BY <2>1, TypeParts DEF StartProbe, FrameOK, KernelOK, PCs
<1>2. UNCHANGED <<kernel, library, flags, exited, region, history>>
  BY DEF StartProbe, app
<1> QED BY <1>1, <1>2, TypeParts, KernelKept, LibraryKept, InnerStep DEF AppOK, CallsOK, history

\* set_preferred_many up to its end.
LEMMA ProbeStepOK ==
  ASSUME TypeOK, NEW t \in Threads,
         \/ ProbeTest(t) \/ ProbeClear(t) \/ ProbeQuery(t) \/ ProbeTry(t) \/ ProbeMark(t)
         \/ ProbeRestore(t)
  PROVE  StepOK
<1> USE TypeParts, KernelKept, LibraryKept, FrameKept, InnerStep
    DEF Goto, app, AppOK, CallsOK, history
<1>1. CASE ProbeTest(t)
  <2>1. FrameOK'
    BY <1>1 DEF ProbeTest, FrameOK, locals, PCs
  <2> QED BY <1>1, <2>1 DEF ProbeTest
<1>2. CASE ProbeClear(t)
  <2>1. FrameOK' /\ LibraryOK'
    BY <1>2 DEF ProbeClear, FrameOK, LibraryOK, cpumaps, locals, PCs
  <2> QED BY <1>2, <2>1 DEF ProbeClear
<1>3. CASE ProbeQuery(t)
  <2>0. PICK listed \in BOOLEAN, known \in BOOLEAN :
          /\ pc' = [pc EXCEPT ![t] = IF known THEN "try" ELSE "probed"]
          /\ tmp' = [tmp EXCEPT ![t] = IF listed THEN allowed ELSE {}]
          /\ old' = [old EXCEPT ![t] = IF known THEN pol[t] ELSE Default]
          /\ Numa_error(~listed) /\ misled' = (misled \/ ~listed \/ ~known)
          /\ UNCHANGED <<kernel, library, flags, region, op, arg, entry, moved, last, ops>>
    BY <1>3 DEF ProbeQuery, Readable
  <2>1. FrameOK'
    BY <2>0, SomePolicies DEF FrameOK, KernelOK, PCs
  <2>2. exited' \in BOOLEAN /\ misled' \in BOOLEAN
    BY <2>0 DEF Numa_error
  <2> QED BY <2>0, <2>1, <2>2
<1>4. CASE ProbeTry(t)
  <2>1. FrameOK'
    BY <1>4 DEF ProbeTry, FrameOK, locals, PCs
  <2>2. KernelOK'
    BY <1>4, SetpolKernel DEF ProbeTry, FrameOK, KernelOK, Modes
  <2> QED BY <1>4, <2>1, <2>2 DEF ProbeTry
<1>5. CASE ProbeMark(t)
  <2>1. FrameOK' /\ LibraryOK'
    BY <1>5 DEF ProbeMark, FrameOK, LibraryOK, cpumaps, locals, PCs
  <2> QED BY <1>5, <2>1 DEF ProbeMark
<1>6. CASE ProbeRestore(t)
  <2>1. FrameOK'
    BY <1>6 DEF ProbeRestore, FrameOK, locals, PCs
  <2>2. old[t].mode \in Modes /\ old[t].nodes \in SUBSET Nodes
    BY DEF FrameOK, Policies
  <2>3. KernelOK'
    BY <1>6, <2>2, SetpolKernel DEF ProbeRestore, KernelOK
  <2> QED BY <1>6, <2>1, <2>3 DEF ProbeRestore
<1> QED BY <1>1, <1>2, <1>3, <1>4, <1>5, <1>6

\* numa_has_home_node up to its end.
LEMMA HomeStepOK ==
  ASSUME TypeOK, NEW t \in Threads, HomeTest(t) \/ HomeClear(t) \/ HomeTry(t)
  PROVE  StepOK
<1> USE TypeParts, KernelKept, LibraryKept, FrameKept, InnerStep
    DEF Goto, app, AppOK, CallsOK, history
<1>1. CASE HomeTest(t)
  <2>1. FrameOK'
    BY <1>1, SomePolicies DEF HomeTest, FrameOK, KernelOK, PCs
  <2>2. exited' \in BOOLEAN
    BY <1>1 DEF HomeTest, Numa_error
  <2> QED BY <1>1, <2>1, <2>2 DEF HomeTest
<1>2. CASE HomeClear(t)
  <2>1. FrameOK' /\ LibraryOK'
    BY <1>2 DEF HomeClear, FrameOK, LibraryOK, cpumaps, locals, PCs
  <2> QED BY <1>2, <2>1 DEF HomeClear
<1>3. CASE HomeTry(t)
  <2>1. FrameOK' /\ LibraryOK'
    BY <1>3 DEF HomeTry, FrameOK, LibraryOK, cpumaps, locals, PCs
  <2>2. exited' \in BOOLEAN
    BY <1>3 DEF HomeTry, Numa_error
  <2> QED BY <1>3, <2>1, <2>2 DEF HomeTry
<1> QED BY <1>1, <1>2, <1>3

\* The end of a call in several steps.
LEMMA LastStepOK ==
  ASSUME TypeOK, NEW t \in Threads, NEW o \in Outcomes, Ends(t, o),
         o.op \in Other \/ (BindStep /\ ReadBackStep),
         pc' = [pc EXCEPT ![t] = "idle"], EndFrame(t),
         KernelOK', LibraryOK', exited' \in BOOLEAN, UNCHANGED <<flags, region>>
  PROVE  StepOK
<1>1. CallsOK' /\ BindStep /\ ReadBackStep
  BY OtherCall, EndsType, TypeParts
<1>2. FrameOK'
  BY TypeParts, SomePolicies DEF FrameOK, EndFrame, PCs
<1>3. AppOK'
  BY TypeParts DEF AppOK, FlagsOK, flags
<1> QED BY <1>1, <1>2, <1>3, TypePartsNext, RegionsKept DEF StepOK

LEMMA ProbedStepOK ==
  ASSUME TypeOK, NEW t \in Threads,
         \/ Numa_has_preferred_many(t) \/ Numa_set_bind_policy(t) \/ Numa_set_preferred_many(t)
         \/ Numa_has_home_node(t)
  PROVE  StepOK
<1> USE TypeParts, SomePolicies
<1>0. {"has", "strict", "loose", "home"} \subseteq Other /\ "set" \in AllCalls
  BY DEF Other, SetsPolicy, AllCalls, ProbingCalls, TaskPolicyCalls
<1>1. CASE Numa_has_preferred_many(t)
  <2> DEFINE o == [op |-> "has", nodes |-> {}, failed |-> FALSE, value |-> many]
  <2>1. o \in Outcomes /\ o.op \in Other
    BY <1>0 DEF Outcomes, LibraryOK, Other
  <2>2. Ends(t, o)
    BY <1>1, FinishEnds DEF Numa_has_preferred_many
  <2> HIDE DEF o
  <2>3. /\ pc' = [pc EXCEPT ![t] = "idle"] /\ EndFrame(t)
        /\ UNCHANGED <<kernel, library, flags, exited, region>>
    BY <1>1 DEF Numa_has_preferred_many, Goto, app
  <2> QED BY <2>1, <2>2, <2>3, KernelKept, LibraryKept, LastStepOK DEF AppOK
<1>2. CASE Numa_set_bind_policy(t)
  <2> DEFINE o == [op |-> op[t], nodes |-> {}, failed |-> FALSE, value |-> 0]
  <2>1. o \in Outcomes /\ o.op \in Other
    BY <1>0, <1>2 DEF Numa_set_bind_policy, Outcomes, Other
  <2>2. Ends(t, o)
    BY <1>2, FinishEnds DEF Numa_set_bind_policy
  <2> HIDE DEF o
  <2>3. /\ pc' = [pc EXCEPT ![t] = "idle"] /\ EndFrame(t)
        /\ UNCHANGED <<kernel, flags, exited, region>>
    BY <1>2 DEF Numa_set_bind_policy, Goto, app
  <2>4. LibraryOK'
    BY <1>2 DEF Numa_set_bind_policy, LibraryOK, LoosePolicy, cpumaps
  <2> QED BY <2>1, <2>2, <2>3, <2>4, KernelKept, LastStepOK DEF AppOK
<1>3. CASE Numa_set_preferred_many(t)
  <2> DEFINE warned == WarnExits(many = 0)
             first == IF arg[t] = {} THEN {} ELSE {Min(arg[t])}
             mode == IF many # 0 THEN "MANY" ELSE IF arg[t] = {} THEN "LOCAL" ELSE "PREFERRED"
             nodes == IF many # 0 THEN arg[t] ELSE first
             o == [op |-> "set", nodes |-> arg[t], failed |-> ~Accepts(mode, nodes), value |-> 0]
  <2>1. arg[t] \in SUBSET Nodes /\ (arg[t] # {} => Min(arg[t]) \in Nodes)
    BY MinNode DEF FrameOK
  <2>2. mode \in Modes /\ nodes \in SUBSET Nodes
    BY <2>1 DEF Modes
  <2>3. /\ pc' = [pc EXCEPT ![t] = "idle"] /\ EndFrame(t)
        /\ IF warned THEN UNCHANGED pol ELSE Setpol(t, mode, nodes)
        /\ exited' = (warned \/ (~Accepts(mode, nodes) /\ exit_on_error))
        /\ Finish(t, "set", arg[t], ~Accepts(mode, nodes), 0)
        /\ UNCHANGED <<allowed, run, library, flags, region>>
    BY <1>3 DEF Numa_set_preferred_many, Goto
  <2> HIDE DEF warned, mode, nodes
  <2>4. Ends(t, o)
    BY <2>3, FinishEnds
  <2>5. o \in Outcomes /\ o.op = "set" /\ o.nodes = arg[t] /\ (o.failed <=> ~Accepts(mode, nodes))
    BY <1>0, <2>1 DEF Outcomes
  <2> HIDE DEF o
  <2>6. exited' \in BOOLEAN /\ (~exited' => ~warned)
    BY <2>3
  <2>7. KernelOK' /\ (Accepts(mode, nodes) /\ ~warned => pol'[t] = Kept(mode, nodes))
    BY <2>2, <2>3, SetpolKernel DEF KernelOK
  <2>8. last'[t] = o /\ \A u \in Threads \ {t} : ops'[u] = ops[u]
    BY <2>4, <2>5, EndsType
  <2>9. BindStep
    BY <2>5, <2>8 DEF BindStep
  <2>10. Accepts(mode, nodes) => Answers("set", arg[t], Kept(mode, nodes))
    <3> DEFINE k == Kept(mode, nodes)
    <3> SUFFICES ASSUME Accepts(mode, nodes) PROVE Answers("set", arg[t], k)
      OBVIOUS
    <3>1. /\ k.nodes \subseteq nodes \cap allowed
          /\ mode = "PREFERRED" => k.mode \in {"PREFERRED", "LOCAL"}
          /\ mode # "PREFERRED" => k = [mode |-> mode, nodes |-> nodes \cap allowed]
      BY <2>2, KeptPolicy
    <3>2. /\ mode \in {"MANY", "LOCAL", "PREFERRED"} /\ nodes \subseteq arg[t]
          /\ many # 0 => mode = "MANY" /\ nodes = arg[t]
      BY <2>1, MinNode DEF mode, nodes, first
    <3> HIDE DEF k
    <3> QED BY <3>1, <3>2 DEF Answers
  <2>11. ReadBackStep
    <3>1. ~last'[t].failed /\ ~exited' => Answers("set", arg[t], pol'[t])
      BY <2>5, <2>6, <2>7, <2>8, <2>10
    <3>2. "set" \in SetsPolicy /\ UNCHANGED all_nodes
      BY <2>3 DEF SetsPolicy, library
    <3> QED BY <2>5, <2>8, <3>1, <3>2, AnswersRead
  <2> QED BY <2>3, <2>4, <2>5, <2>6, <2>7, <2>9, <2>11, LibraryKept, LastStepOK
<1>4. CASE Numa_has_home_node(t)
  <2> DEFINE o == [op |-> "home", nodes |-> {}, failed |-> FALSE, value |-> home]
  <2>1. o \in Outcomes /\ o.op \in Other
    BY <1>0 DEF Outcomes, LibraryOK, Other
  <2>2. Ends(t, o)
    BY <1>4, FinishEnds DEF Numa_has_home_node
  <2> HIDE DEF o
  <2>3. /\ pc' = [pc EXCEPT ![t] = "idle"] /\ EndFrame(t)
        /\ UNCHANGED <<kernel, library, flags, exited, region>>
    BY <1>4 DEF Numa_has_home_node, Goto, app
  <2> QED BY <2>1, <2>2, <2>3, KernelKept, LibraryKept, LastStepOK DEF AppOK
<1> QED BY <1>1, <1>2, <1>3, <1>4

LEMMA TaskCallsStep ==
  ASSUME TypeOK, NEW t \in Threads, TaskCalls(t)
  PROVE  StepOK
<1>1. ASSUME NEW flag \in BOOLEAN, Numa_set_strict(t, flag) PROVE StepOK
  <2> DEFINE o == [op |-> "set_strict", nodes |-> {}, failed |-> FALSE, value |-> 0]
  <2>1. o \in Outcomes /\ o.op \in Other
    BY DEF Outcomes, Other, SetsPolicy, AllCalls, TaskPolicyCalls
  <2>2. Ends(t, o)
    BY <1>1, FinishEnds DEF Numa_set_strict
  <2> HIDE DEF o
  <2>3. CallsOK' /\ BindStep /\ ReadBackStep
    BY <2>1, <2>2, OtherCall
  <2>4. LibraryOK'
    BY <1>1, TypeParts DEF Numa_set_strict, LibraryOK, cpumaps
  <2>5. UNCHANGED <<kernel, app, frame>>
    BY <1>1 DEF Numa_set_strict
  <2>6. AllocHasPolicy => AllocHasPolicy'
    BY <2>5, RegionsKept DEF app
  <2> QED BY <2>3, <2>4, <2>5, <2>6, TypeParts, TypePartsNext, KernelKept, AppKept, FrameKept
          DEF StepOK
<1>2. ASSUME NEW name \in {"has", "strict", "loose", "home", "set"}, NEW S \in SUBSET Nodes,
             StartProbe(t, name, S)
      PROVE  StepOK
  <2>1. name \in AllCalls
    BY DEF AllCalls, ProbingCalls, TaskPolicyCalls
  <2> QED BY <1>2, <2>1, StartProbeStep
<1>3. CASE Numa_node_to_cpu_update(t)
  <2> DEFINE o == [op |-> "update", nodes |-> {}, failed |-> FALSE, value |-> 0]
  <2>1. o \in Outcomes /\ o.op \in Other
    BY DEF Outcomes, Other, SetsPolicy, AllCalls, TaskPolicyCalls
  <2>2. Ends(t, o)
    BY <1>3, FinishEnds DEF Numa_node_to_cpu_update
  <2> HIDE DEF o
  <2>3. CallsOK' /\ BindStep /\ ReadBackStep
    BY <2>1, <2>2, OtherCall
  <2>4. LibraryOK'
    BY <1>3, TypeParts DEF Numa_node_to_cpu_update, LibraryOK
  <2>5. UNCHANGED <<kernel, app, frame>>
    BY <1>3 DEF Numa_node_to_cpu_update
  <2>6. AllocHasPolicy => AllocHasPolicy'
    BY <2>5, RegionsKept DEF app
  <2> QED BY <2>3, <2>4, <2>5, <2>6, TypeParts, TypePartsNext, KernelKept, AppKept, FrameKept
          DEF StepOK
<1> QED BY <1>1, <1>2, <1>3, PolicyCallsStep, BindStepOK, SomePolicies DEF TaskCalls

\* The administrator moves the cpuset, and the kernel moves the policies along.
LEMMA CpusetStep ==
  ASSUME TypeOK, NEW S \in SUBSET Nodes, CpusetChange(S)
  PROVE  StepOK
<1>1. /\ S # {} /\ allowed' = S
      /\ UNCHANGED <<run, library, flags, exited, region, pc, op, arg, old, tmp, entry, last, ops>>
      /\ moved' \in [Threads -> BOOLEAN] /\ misled' \in BOOLEAN
  <2>1. /\ S # {} /\ allowed' = S
        /\ UNCHANGED <<run, library, flags, exited, region, pc, op, arg, old, tmp, entry, last, ops>>
        /\ moved' = [t \in Threads |-> moved[t] \/ pc[t] # "idle"]
        /\ misled' = (misled \/ \E t \in Threads : pc[t] = "try")
    BY DEF CpusetChange, app
  <2> QED BY <2>1, TypeParts DEF FrameOK
<1>2. Min(S) \in Nodes
  BY <1>1, MinNode
<1>3. ASSUME NEW u \in Threads PROVE MovedTo(S, pol[u]) \in Policies
  <2>1. pol[u] \in Policies
    BY TypeParts DEF KernelOK
  <2> DEFINE nodes == IF pol[u].nodes \cap S # {} THEN pol[u].nodes \cap S ELSE {Min(S)}
  <2>2. nodes \in SUBSET Nodes
    BY <1>2
  <2>3. MovedTo(S, pol[u]) = pol[u] \/ MovedTo(S, pol[u]) = [pol[u] EXCEPT !.nodes = nodes]
    BY DEF MovedTo
  <2> HIDE DEF nodes
  <2> QED BY <2>1, <2>2, <2>3 DEF Policies
<1>4. pol' = [u \in Threads |-> MovedTo(S, pol[u])]
  BY DEF CpusetChange, MovedTo
<1>5. KernelOK'
  BY <1>1, <1>3, <1>4, TypeParts DEF KernelOK
<1>6. FrameOK'
  BY <1>1, TypeParts DEF FrameOK
<1> QED BY <1>1, <1>5, <1>6, TypeParts, LibraryKept, InnerStep DEF AppOK

LEMMA EveryStep ==
  ASSUME TypeOK, [Next]_vars
  PROVE  StepOK
<1>1. CASE UNCHANGED vars
  BY <1>1, TypeParts, KernelKept, LibraryKept, FrameKept, InnerStep
     DEF vars, app, AppOK, history, CallsOK
<1>2. ASSUME NEW t \in Threads, ProbeStep(t) PROVE StepOK
  BY <1>2, ProbeStepOK, HomeStepOK, ProbedStepOK DEF ProbeStep
<1> QED BY <1>1, <1>2, TaskCallsStep, MemoryCallsStep, CpusetStep DEF Next

LEMMA InitTypeOK == Init => TypeOK
<1> SUFFICES ASSUME Init PROVE TypeOK
  OBVIOUS
<1> USE SomePolicies
<1>1. KernelOK
  BY ConstantsAssumption DEF Init, KernelOK, Nodes
<1>2. LibraryOK
  BY DEF Init, LibraryOK
<1>3. AppOK
  <2>0. /\ exit_on_error \in {FALSE, "exit_on_error" \in Flags}
        /\ exit_on_warn \in {FALSE, "exit_on_warn" \in Flags}
        /\ fail_alloc \in {FALSE, "fail_alloc" \in Flags}
    BY Zenon DEF Init
  <2>1. FlagsOK
    <3>1. ASSUME NEW f, NEW b \in {FALSE, (f \in Flags)} PROVE b \in BOOLEAN
      <4>1. CASE b = FALSE
        BY <4>1
      <4>2. CASE b = (f \in Flags)
        <5>1. (f \in Flags) \in BOOLEAN
          OBVIOUS
        <5> QED BY <4>2, <5>1, Zenon
      <4> QED BY <4>1, <4>2, Zenon
    <3> QED BY <2>0, <3>1, Zenon DEF FlagsOK
  <2>2. exited \in BOOLEAN /\ region \in [Regions -> Ranges]
    BY DEF Init
  <2> QED BY <2>1, <2>2 DEF AppOK
<1>4. FrameOK
  BY DEF Init, FrameOK, PCs
<1>5. CallsOK
  BY DEF Init, CallsOK
<1> QED BY <1>1, <1>2, <1>3, <1>4, <1>5, TypeParts

----------------------------------------------------------------------------
(* Results. *)

\* The memory-policy calls are well typed: what the kernel keeps of any policy,
\* whatever moves the cpuset meanwhile, is a policy over known nodes.
THEOREM TypeCorrect == Spec => []TypeOK
<1>1. TypeOK /\ [Next]_vars => TypeOK'
  BY EveryStep DEF StepOK
<1> QED BY <1>1, InitTypeOK, PTL DEF Spec

\* dombind_or_free: with numa_fail_alloc_on_error, memory handed out by a call
\* that places it has a policy for as long as it is mapped.
THEOREM AllocationsArePlaced == Spec => []AllocHasPolicy
<1>1. Init => AllocHasPolicy
  BY DEF Init, Unmapped, AllocHasPolicy
<1>2. TypeOK /\ AllocHasPolicy /\ [Next]_vars => AllocHasPolicy'
  BY EveryStep DEF StepOK
<1> QED BY <1>1, <1>2, TypeCorrect, PTL DEF Spec

\* numa_bind: no error means that the thread allocates on nodes that were asked
\* for and nowhere else, and runs on their CPUs and no other, whichever cpumaps
\* could not be read, unless a failed refresh has left all ones in the cached
\* mask of one of these nodes.
THEOREM BindIsConfined == Spec => BindConfines
<1>1. TypeOK /\ [Next]_vars => [BindStep]_vars
  BY EveryStep DEF StepOK
<1> QED BY <1>1, TypeCorrect, PTL DEF Spec, BindConfines

\* What a call that sets the policy of its thread set, its getter reads back; the
\* two interleave getters and, balancing excepted, numa_get_membind claim the
\* nodes of no other call.
THEOREM GettersReadBack == Spec => ReadBack
<1>1. TypeOK /\ [Next]_vars => [ReadBackStep]_vars
  BY EveryStep DEF StepOK
<1> QED BY <1>1, TypeCorrect, PTL DEF Spec, ReadBack

----------------------------------------------------------------------------
(* numa_set_bind_policy.  Other threads may clear and mark the flag between    *)
(* the probe of a thread and its use of the answer.                           *)

\* A flag above 0 was set by a probe that the kernel accepted, and a thread past
\* its probe never finds the flag unset again.
LooseInv ==
    /\ many = 1 => "many" \in Supports
    /\ \A t \in Threads : /\ pc[t] \in Probing => many # -1
                          /\ pc[t] = "mark" => "many" \in Supports
    /\ LooseUsable

LEMMA LooseKept ==
  ASSUME LooseInv, UNCHANGED <<many, bind_policy, pc>>
  PROVE  LooseInv'
BY DEF LooseInv, LooseUsable

\* A thread moves outside the probe, or into it once the flag is there.
LEMMA LooseMoves ==
  ASSUME TypeOK, LooseInv, NEW t \in Threads, NEW next \in PCs,
         pc' = [pc EXCEPT ![t] = next], next # "mark",
         next \in Probing => many' # -1,
         many' = many \/ many' = 0, UNCHANGED bind_policy
  PROVE  LooseInv'
<1>1. \A u \in Threads : pc'[u] = IF u = t THEN next ELSE pc[u]
  BY DEF TypeOK
<1> QED BY <1>1 DEF LooseInv, LooseUsable

LEMMA LooseStep == TypeOK /\ LooseInv /\ [Next]_vars => LooseInv'
<1> SUFFICES ASSUME TypeOK, LooseInv, [Next]_vars PROVE LooseInv'
  OBVIOUS
<1> USE DEF kernel, library, frame, locals, Goto
<1>1. CASE UNCHANGED vars
  BY <1>1, LooseKept DEF vars
<1>2. ASSUME NEW t \in Threads, MemoryCalls(t) PROVE LooseInv'
  <2>1. PICK r \in Regions :
        \/ \E name \in AllCalls : \E mode, nodes :
              MemoryCall(t, name, r, mode, nodes) \/ AllocCall(t, name, r, mode, nodes)
        \/ Numa_police_memory(t, r) \/ Numa_alloc(t, r) \/ Numa_realloc(t, r) \/ Numa_free(t, r)
        \/ \E n \in NodeArgs : Numa_set_mempolicy_home_node(t, r, n)
    BY <1>2 DEF MemoryCalls, Numa_interleave_memory, Numa_weighted_interleave_memory,
     Numa_tonodemask_memory, Numa_alloc_interleaved_subset,
     Numa_alloc_weighted_interleaved_subset, Numa_tonode_memory, Numa_alloc_onnode,
     Numa_setlocal_memory, Numa_alloc_local, Numa_alloc_interleaved,
     Numa_alloc_weighted_interleaved, AllCalls, AllocCalls, RangeCalls
  <2>2. UNCHANGED <<many, bind_policy, pc>>
    BY <2>1 DEF MemoryCall, AllocCall, Numa_police_memory, Numa_alloc, Numa_realloc, Numa_free,
       Numa_set_mempolicy_home_node
  <2> QED BY <2>2, LooseKept
<1>3. ASSUME NEW t \in Threads, TaskCalls(t) PROVE LooseInv'
  <2>1. CASE \E name, S : StartProbe(t, name, S)
    <3>1. PICK name, S : StartProbe(t, name, S)
      BY <2>1
    <3> DEFINE next == IF name = "home" THEN "home_test" ELSE "test"
    <3>2. next \in PCs /\ next # "mark" /\ next \notin Probing
      BY DEF PCs, Probing
    <3>3. pc' = [pc EXCEPT ![t] = next] /\ UNCHANGED <<many, bind_policy>>
      BY <3>1 DEF StartProbe
    <3> HIDE DEF next
    <3> QED BY <3>2, <3>3, LooseMoves
  <2>2. CASE UNCHANGED <<many, bind_policy, pc>>
    BY <2>2, LooseKept
  <2> QED BY <1>3, <2>1, <2>2 DEF TaskCalls, Numa_set_interleave_mask,
        Numa_set_weighted_interleave_mask, Numa_set_membind, Numa_set_membind_balancing,
        Numa_set_preferred, Numa_set_localalloc, PolicyCall, Numa_bind, Numa_set_strict,
        Numa_node_to_cpu_update
<1>4. ASSUME NEW t \in Threads, ProbeStep(t) PROVE LooseInv'
  <2>0. /\ {"clear", "query", "try", "probed", "restore", "idle", "home_clear", "home_try",
            "home_done"} \subseteq PCs \ {"mark"}
        /\ many \in {-1, 0, 1}
        /\ pc[t] \in Probing => many # -1
    BY DEF PCs, TypeOK, LooseInv
  <2>1. CASE ProbeTest(t)
    <3> DEFINE next == IF many >= 0 THEN "probed" ELSE "clear"
    <3>1. next \in PCs /\ next # "mark" /\ (next \in Probing => many # -1)
      BY <2>0 DEF Probing
    <3>2. pc' = [pc EXCEPT ![t] = next] /\ UNCHANGED <<many, bind_policy>>
      BY <2>1 DEF ProbeTest
    <3> HIDE DEF next
    <3> QED BY <3>1, <3>2, LooseMoves
  <2>2. CASE ProbeClear(t)
    <3>1. pc' = [pc EXCEPT ![t] = "query"] /\ many' = 0 /\ UNCHANGED bind_policy
      BY <2>2 DEF ProbeClear
    <3>2. "query" \in PCs /\ "query" # "mark" /\ many' # -1
      BY <3>1 DEF PCs
    <3> QED BY <3>1, <3>2, LooseMoves
  <2>3. CASE ProbeQuery(t)
    <3>1. PICK known \in BOOLEAN : pc' = [pc EXCEPT ![t] = IF known THEN "try" ELSE "probed"]
      BY <2>3 DEF ProbeQuery, Readable
    <3>2. pc[t] \in Probing /\ UNCHANGED <<many, bind_policy>>
      BY <2>3 DEF ProbeQuery, Probing
    <3> DEFINE next == IF known THEN "try" ELSE "probed"
    <3>3. next \in PCs /\ next # "mark" /\ pc' = [pc EXCEPT ![t] = next]
      BY <2>0, <3>1
    <3> HIDE DEF next
    <3> QED BY <2>0, <3>2, <3>3, LooseMoves
  <2>4. CASE ProbeTry(t)
    <3>1. /\ pc' = [pc EXCEPT ![t] = IF Accepts("MANY", tmp[t]) THEN "mark" ELSE "probed"]
          /\ UNCHANGED <<many, bind_policy>> /\ many # -1
      BY <2>0, <2>4 DEF ProbeTry, Probing
    <3>2. Accepts("MANY", tmp[t]) => "many" \in Supports
      BY DEF Accepts, AcceptsIn
    <3>3. \A u \in Threads : /\ u # t => pc'[u] = pc[u]
                             /\ pc'[t] = "mark" => Accepts("MANY", tmp[t])
      BY <3>1 DEF TypeOK
    <3> QED BY <3>1, <3>2, <3>3 DEF LooseInv, LooseUsable
  <2>5. CASE ProbeMark(t)
    <3>1. /\ \A u \in Threads : pc'[u] = IF u = t THEN "restore" ELSE pc[u]
          /\ pc[t] = "mark" /\ many' = 1 /\ UNCHANGED bind_policy
      BY <2>5 DEF ProbeMark, TypeOK
    <3> QED BY <3>1 DEF LooseInv, LooseUsable
  <2>6. CASE ProbeRestore(t)
    BY <2>0, <2>6, LooseMoves DEF ProbeRestore, Probing
  <2>7. CASE Numa_has_preferred_many(t) \/ Numa_set_preferred_many(t) \/ Numa_has_home_node(t)
    <3>1. pc' = [pc EXCEPT ![t] = "idle"] /\ UNCHANGED <<many, bind_policy>>
      BY <2>7 DEF Numa_has_preferred_many, Numa_set_preferred_many, Numa_has_home_node
    <3>2. "idle" \in PCs /\ "idle" # "mark" /\ "idle" \notin Probing
      BY DEF PCs, Probing
    <3> QED BY <3>1, <3>2, LooseMoves
  <2>8. CASE Numa_set_bind_policy(t)
    <3>1. /\ pc' = [pc EXCEPT ![t] = "idle"] /\ UNCHANGED many /\ pc[t] = "probed"
          /\ bind_policy' = [bind_policy EXCEPT ![t] = IF op[t] = "strict" THEN "BIND"
                                                      ELSE LoosePolicy]
      BY <2>8 DEF Numa_set_bind_policy
    <3>2. many # 0 => "many" \in Supports
      BY <2>0, <3>1 DEF LooseInv, Probing
    <3>3. LooseUsable'
      BY <3>1, <3>2 DEF LoosePolicy, TypeOK, LooseInv, LooseUsable
    <3>4. \A u \in Threads : pc'[u] = IF u = t THEN "idle" ELSE pc[u]
      BY <3>1 DEF TypeOK
    <3> QED BY <3>1, <3>3, <3>4 DEF LooseInv, Probing
  <2>9. CASE HomeTest(t)
    <3> DEFINE next == IF home >= 0 THEN "home_done" ELSE "home_clear"
    <3>1. next \in PCs /\ next # "mark" /\ next \notin Probing
      BY <2>0 DEF Probing
    <3>2. pc' = [pc EXCEPT ![t] = next] /\ UNCHANGED <<many, bind_policy>>
      BY <2>9 DEF HomeTest
    <3> HIDE DEF next
    <3> QED BY <3>1, <3>2, LooseMoves
  <2>10. CASE HomeClear(t)
    BY <2>0, <2>10, LooseMoves DEF HomeClear, Probing
  <2>11. CASE HomeTry(t)
    BY <2>0, <2>11, LooseMoves DEF HomeTry, Probing
  <2> QED BY <1>4, <2>1, <2>2, <2>3, <2>4, <2>5, <2>6, <2>7, <2>8, <2>9, <2>10, <2>11
          DEF ProbeStep
<1>5. ASSUME NEW S \in SUBSET Nodes, CpusetChange(S) PROVE LooseInv'
  BY <1>5, LooseKept DEF CpusetChange
<1> QED BY <1>1, <1>2, <1>3, <1>4, <1>5 DEF Next

\* numa_set_bind_policy(0) picks a policy the kernel knows, whatever other
\* threads probe at the same time and wherever the cpuset moves.
THEOREM LooseIsUsable == Spec => []LooseUsable
<1>1. Init => LooseInv
  BY DEF Init, LooseInv, LooseUsable, Probing
<1>2. LooseInv => LooseUsable
  BY DEF LooseInv
<1> QED BY <1>1, <1>2, LooseStep, TypeCorrect, PTL DEF Spec
=============================================================================
