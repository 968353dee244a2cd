------------------------- MODULE NodeCpuCacheProofs -------------------------
(***************************************************************************)
(* Proofs about NodeCpuCache for any number of threads, nodes, words and   *)
(* addresses, with stores seen in order or not.                            *)
(***************************************************************************)
EXTENDS NodeCpuCache, FiniteSetTheorems, TLAPS

LEMMA InitTypeOK == Init => TypeOK
<1> SUFFICES ASSUME Init PROVE TypeOK
  OBVIOUS
<1> USE ConstantsAssumption
<1>1. 0 \in Nodes /\ 0 \in NodeArgs /\ 0 \in Versions /\ NWords \in Words
  BY DEF Nodes, NodeArgs, Versions, Words
<1>3. 1 \in 1 .. NWords + 1 /\ 0 \in 0 .. MaxCalls
  OBVIOUS
<1>2. BlankMask \in [Words -> Contents]
  BY DEF BlankMask, Contents
<1> QED
  BY <1>1, <1>2, <1>3 DEF Init, TypeOK, PCs, Results

\* Every step keeps the type invariant.
LEMMA NextTypeOK == IndInv /\ [Next]_vars => TypeOK'
<1> SUFFICES ASSUME IndInv, [Next]_vars
             PROVE  TypeOK'
  OBVIOUS
<1> USE ConstantsAssumption
<1>a. /\ TypeOK
      /\ \A t \in Threads : pc[t] \in InNode => node[t] \in Nodes
      /\ \A t \in Threads : pc[t] \in Copying => ptr[t] \in MaskIds
      /\ \A t \in Threads : pc[t] \in Holding => mask[t] \in MaskIds
  BY DEF IndInv, NodeInRange, MemorySafety, TypeOK
<1>1. CASE UNCHANGED vars
  BY <1>a, <1>1 DEF TypeOK, vars, shared, sysfs, locals
<1>2. CASE Environment
  <2>1. ASSUME NEW n \in Nodes, Hotplug(n) PROVE TypeOK'
    BY <1>a, <2>1 DEF TypeOK, Hotplug, shared, locals, Versions, Contents
  <2>2. ASSUME NEW n \in Nodes, ToggleReadable(n) PROVE TypeOK'
    BY <1>a, <2>2 DEF TypeOK, ToggleReadable, shared, locals
  <2>3. ASSUME NEW m \in MaskIds, StoresLand(m) PROVE TypeOK'
    BY <1>a, <2>3 DEF TypeOK, StoresLand, sysfs, locals
  <2>4. CASE Numa_node_to_cpu_update
    BY <1>a, <2>4 DEF TypeOK, Numa_node_to_cpu_update, locals
  <2>5. CASE Numa_fini
    BY <1>a, <2>5 DEF TypeOK, Numa_fini, sysfs, locals
  <2> QED BY <1>2, <2>1, <2>2, <2>3, <2>4, <2>5 DEF Environment
<1>3. ASSUME NEW t \in Threads, NEW n \in NodeArgs, NEW b \in Words, Call(t, n, b)
      PROVE  TypeOK'
  BY <1>a, <1>3 DEF TypeOK, Call, Goto, shared, sysfs, PCs
<1>4. ASSUME NEW t \in Threads, ThreadStep(t)
      PROVE  TypeOK'
  <2> USE DEF Goto, Return
  <2>1. CASE LoadArray(t)
    BY <1>a, <2>1 DEF TypeOK, LoadArray, shared, sysfs, locals, PCs
  <2>2. CASE Init_node_cpu_mask_v2(t)
    BY <1>a, <2>2 DEF TypeOK, Init_node_cpu_mask_v2, sysfs, locals, PCs
  <2>3. CASE InitArrayNoMemory(t)
    BY <1>a, <2>3 DEF TypeOK, InitArrayNoMemory, sysfs, locals, PCs
  <2>4. CASE RangeError(t)
    BY <1>a, <2>4 DEF TypeOK, RangeError, shared, sysfs, PCs, Results
  <2>5. CASE ClearBuffer(t)
    BY <1>a, <2>5 DEF TypeOK, ClearBuffer, shared, sysfs, PCs, BlankMask, Contents, Zero
  <2>6. CASE FetchStale(t)
    BY <1>a, <2>6 DEF InNode, InCall, PCs, TypeOK, FetchStale, shared, sysfs
  <2>7. CASE NullArray(t)
    BY <1>a, <2>7 DEF TypeOK, NullArray, sysfs, locals
  <2>8. CASE SizeMismatch(t)
    BY <1>a, <2>8 DEF TypeOK, SizeMismatch, shared, sysfs, PCs, Results
  <2>9. CASE Hit(t)
    BY <1>a, <2>9 DEF TypeOK, Hit, shared, sysfs, locals, PCs
  <2>10. CASE Miss(t)
    BY <1>a, <2>10 DEF TypeOK, Miss, shared, sysfs, locals, PCs
  <2>11. CASE StartCopyOut(t)
    <3>1. node[t] \in Nodes
      BY <1>a, <2>11 DEF InNode, InCall, PCs, StartCopyOut
    <3>2. cache[node[t]] \in MaskIds \cup {NULL}
      BY <1>a, <3>1 DEF TypeOK
    <3>3. 1 \in 1 .. NWords + 1
      OBVIOUS
    <3> QED
      BY <1>a, <2>11, <3>2, <3>3 DEF PCs, TypeOK, StartCopyOut, shared, sysfs
  <2>12. CASE CopyOut(t)
    <3>1. word[t] \in Words /\ word[t] + 1 \in 1 .. NWords + 1
      BY <1>a, <2>12 DEF TypeOK, CopyOut, Words
    <3>2. PICK c \in Readable(t, ptr[t], word[t]) : buf' = [buf EXCEPT ![t][word[t]] = c]
      BY <2>12 DEF CopyOut
    <3>3. c \in Contents
      BY <1>a, <2>12, <3>1, <3>2 DEF TypeOK, CopyOut, Readable, Copying, Contents
    <3>4. buf' \in [Threads -> [Words -> Contents]]
      BY <1>a, <3>1, <3>2, <3>3 DEF TypeOK
    <3>5. word' \in [Threads -> 1 .. NWords + 1]
      BY <1>a, <2>12, <3>1 DEF TypeOK, CopyOut
    <3> QED
      BY <1>a, <2>12, <3>4, <3>5 DEF TypeOK, CopyOut, shared, sysfs
  <2>13. CASE EndCopyOut(t)
    BY <1>a, <2>13 DEF TypeOK, EndCopyOut, shared, sysfs, PCs, Results
  <2>14. ASSUME NEW m \in MaskIds, Numa_allocate_cpumask(t, m) PROVE TypeOK'
    BY <1>a, <2>14 DEF TypeOK, Numa_allocate_cpumask, sysfs, PCs, BlankMask, Contents
  <2>15. CASE OutOfMemory(t)
    BY <1>a, <2>15 DEF TypeOK, OutOfMemory, sysfs, locals
  <2>16. CASE ReadCpumap(t)
    BY <1>a, <2>16 DEF Holding, InNode, InCall, PCs, TypeOK, ReadCpumap, sysfs, Contents
  <2>17. CASE SaveOverwrite(t)
    BY <1>a, <2>17 DEF TypeOK, SaveOverwrite, shared, sysfs, locals, PCs
  <2>18. CASE SaveDrop(t)
    BY <1>a, <2>18 DEF TypeOK, SaveDrop, DropMask, Outcome, sysfs, PCs, Results, BlankMask, Contents
  <2>19. CASE SavePublish(t)
    BY <1>a, <2>19 DEF TypeOK, SavePublish, shared, sysfs, locals, PCs
  <2>20. CASE StartCopyIn(t)
    <3>1. node[t] \in Nodes
      BY <1>a, <2>20 DEF InNode, InCall, PCs, StartCopyIn
    <3>2. cache[node[t]] \in MaskIds \cup {NULL}
      BY <1>a, <3>1 DEF TypeOK
    <3>3. 1 \in 1 .. NWords + 1
      OBVIOUS
    <3> QED
      BY <1>a, <2>20, <3>2, <3>3 DEF PCs, TypeOK, StartCopyIn, shared, sysfs
  <2>21. CASE CopyIn(t)
    <3>1. word[t] \in Words /\ word[t] + 1 \in 1 .. NWords + 1
      BY <1>a, <2>21 DEF TypeOK, CopyIn, Words
    <3>2. ptr[t] \in MaskIds /\ mask[t] \in MaskIds
      BY <1>a, <2>21 DEF CopyIn, Copying, Holding
    <3>3. content' \in [MaskIds -> [Words -> Contents]]
      BY <1>a, <2>21, <3>1, <3>2 DEF TypeOK, CopyIn
    <3>4. word' \in [Threads -> 1 .. NWords + 1]
      BY <1>a, <2>21, <3>1 DEF TypeOK, CopyIn
    <3> QED
      BY <1>a, <2>21, <3>3, <3>4 DEF TypeOK, CopyIn, sysfs
  <2>22. CASE EndCopyIn(t)
    BY <1>a, <2>22 DEF TypeOK, EndCopyIn, DropMask, Outcome, sysfs, PCs, Results, BlankMask, Contents
  <2>23. CASE Publish(t)
    BY <1>a, <2>23 DEF TypeOK, Publish, sysfs, PCs, Results
  <2>24. CASE Leave(t)
    <3>1. 0 \in NodeArgs /\ NWords \in Words /\ 0 \in Versions /\ 1 \in 1 .. NWords + 1
      BY DEF NodeArgs, Words, Versions
    <3>2. BlankMask \in [Words -> Contents]
      BY DEF BlankMask, Contents
    <3> QED BY <1>a, <2>24, <3>1, <3>2 DEF TypeOK, Leave, shared, sysfs, PCs, Results
  <2> QED
    BY <1>4, <2>1, <2>2, <2>3, <2>4, <2>5, <2>6, <2>7, <2>8, <2>9, <2>10, <2>11, <2>12,
       <2>13, <2>14, <2>15, <2>16, <2>17, <2>18, <2>19, <2>20, <2>21, <2>22, <2>23, <2>24
    DEF ThreadStep
<1> QED BY <1>1, <1>2, <1>3, <1>4 DEF Next

\* The parts of the invariant that are not about types, with the sets that
\* Published stands for spelled out.
SlotsLive == \A n \in Nodes : cache[n] # NULL => cache[n] \in live
CopiesLive == \A t \in Threads : pc[t] \in Copying => ptr[t] \in live
HeldLive == \A t \in Threads : pc[t] \in Holding => mask[t] \in live
HeldUncached == \A t \in Threads, n \in Nodes : pc[t] \in Holding => cache[n] # mask[t]
HeldUncopied ==
    \A t, u \in Threads : pc[t] \in Holding /\ pc[u] \in Copying => ptr[u] # mask[t]
HeldOnce ==
    \A t, u \in Threads : pc[t] \in Holding /\ pc[u] \in Holding /\ t # u => mask[u] # mask[t]

Safe ==
    /\ NodeInRange /\ SlotStillThere /\ NoArrayNoMasks /\ ArrayOrNoMemory
    /\ SlotsLive /\ CopiesLive /\ HeldLive
    /\ HeldUncached /\ HeldUncopied /\ HeldOnce

LEMMA SafeIsIndInv == TypeOK => (Safe <=> IndInv)
<1> SUFFICES ASSUME TypeOK PROVE Safe <=> IndInv
  OBVIOUS
<1> USE ConstantsAssumption
<1>1. (SlotsLive /\ CopiesLive /\ HeldLive) <=> MemorySafety
  BY DEF MemorySafety, Published, SlotsLive, CopiesLive, HeldLive
<1>2. HeldLive => ((HeldUncached /\ HeldUncopied /\ HeldOnce) <=> PrivateMask)
  <2> SUFFICES ASSUME HeldLive
               PROVE  (HeldUncached /\ HeldUncopied /\ HeldOnce) <=> PrivateMask
    OBVIOUS
  <2>1. \A t \in Threads : pc[t] \in Holding => mask[t] # NULL
    BY DEF HeldLive, TypeOK
  <2>2. \A t \in Threads : pc[t] \in Holding =>
           ((\A n \in Nodes : cache[n] # mask[t]) <=> mask[t] \notin Published)
    BY <2>1 DEF Published
  <2> QED
    BY <2>2 DEF PrivateMask, HeldUncached, HeldUncopied, HeldOnce
<1> QED
  BY <1>1, <1>2 DEF IndInv, Safe

LEMMA NextSafe == TypeOK /\ Safe /\ [Next]_vars => Safe'
<1> SUFFICES ASSUME TypeOK, Safe, [Next]_vars
             PROVE  Safe'
  OBVIOUS
<1> USE ConstantsAssumption
<1> USE DEF Safe, NodeInRange, SlotStillThere, NoArrayNoMasks, ArrayOrNoMemory,
            CrashOnlyWithoutMemory, SlotsLive, CopiesLive, HeldLive, HeldUncached,
            HeldUncopied, HeldOnce, TypeOK, Copying, Holding, InCall, InNode, Indexing, PCs
<1>1. CASE UNCHANGED vars
  BY <1>1 DEF vars, shared, sysfs, locals
<1>2. CASE Environment
  <2>1. ASSUME NEW n \in Nodes, Hotplug(n) PROVE Safe'
    BY <2>1 DEF Hotplug, shared, locals
  <2>2. ASSUME NEW n \in Nodes, ToggleReadable(n) PROVE Safe'
    BY <2>2 DEF ToggleReadable, shared, locals
  <2>3. ASSUME NEW m \in MaskIds, StoresLand(m) PROVE Safe'
    BY <2>3 DEF StoresLand, sysfs, locals
  <2>4. CASE Numa_node_to_cpu_update
    BY <2>4 DEF Numa_node_to_cpu_update, locals
  <2>5. CASE Numa_fini
    BY <2>5 DEF Numa_fini, sysfs, locals
  <2> QED BY <1>2, <2>1, <2>2, <2>3, <2>4, <2>5 DEF Environment
<1>3. ASSUME NEW t \in Threads, NEW n \in NodeArgs, NEW b \in Words, Call(t, n, b)
      PROVE  Safe'
  BY <1>3 DEF Call, Goto, shared, sysfs
<1>4. ASSUME NEW t \in Threads, ThreadStep(t)
      PROVE  Safe'
  <2> USE DEF Goto, Return
  <2>1. CASE LoadArray(t)
    BY <2>1 DEF LoadArray, shared, sysfs, locals
  <2>2. CASE Init_node_cpu_mask_v2(t)
    <3>1. /\ cache' = cache /\ array' = TRUE
          /\ pc[t] = "init" /\ pc' = [pc EXCEPT ![t] = "range"]
          /\ UNCHANGED <<phase, live, nomem, node, mask, ptr>>
      BY <2>2 DEF Init_node_cpu_mask_v2, locals
    <3>2. (NodeInRange /\ SlotStillThere /\ NoArrayNoMasks /\ ArrayOrNoMemory)'
      BY <3>1
    <3>3. (SlotsLive /\ CopiesLive /\ HeldLive)'
      BY <3>1
    <3>4. (HeldUncached /\ HeldUncopied /\ HeldOnce)'
      BY <3>1
    <3> QED
      BY <3>2, <3>3, <3>4
  <2>3. CASE InitArrayNoMemory(t)
    BY <2>3 DEF InitArrayNoMemory, shared, sysfs, locals
  <2>4. CASE RangeError(t)
    BY <2>4 DEF RangeError, shared, sysfs, locals
  <2>5. CASE ClearBuffer(t)
    BY <2>5 DEF ClearBuffer, shared, sysfs, locals
  <2>6. CASE FetchStale(t)
    BY <2>6 DEF FetchStale, shared, sysfs, locals
  <2>7. CASE NullArray(t)
    BY <2>7 DEF NullArray, shared, sysfs, locals
  <2>8. CASE SizeMismatch(t)
    BY <2>8 DEF SizeMismatch, CanHit, shared, sysfs, locals
  <2>9. CASE Hit(t)
    BY <2>9 DEF Hit, CanHit, shared, sysfs, locals
  <2>10. CASE Miss(t)
    BY <2>10 DEF Miss, CanHit, shared, sysfs, locals
  <2>11. CASE StartCopyOut(t)
    <3>1. /\ node[t] \in Nodes /\ cache[node[t]] # NULL
          /\ ptr' = [ptr EXCEPT ![t] = cache[node[t]]]
          /\ pc[t] = "hit" /\ pc' = [pc EXCEPT ![t] = "copyout"]
          /\ UNCHANGED <<phase, array, cache, live, nomem, node, mask>>
      BY <2>11 DEF StartCopyOut, shared
    <3>2. (NodeInRange /\ SlotStillThere /\ NoArrayNoMasks /\ ArrayOrNoMemory)'
      BY <3>1
    <3>3. (SlotsLive /\ CopiesLive /\ HeldLive)'
      BY <3>1
    <3>4. (HeldUncached /\ HeldUncopied /\ HeldOnce)'
      BY <3>1
    <3> QED
      BY <3>2, <3>3, <3>4
  <2>12. CASE CopyOut(t)
    BY <2>12 DEF CopyOut, Readable, shared, sysfs, locals
  <2>13. CASE EndCopyOut(t)
    BY <2>13 DEF EndCopyOut, shared, sysfs, locals
  <2>14. ASSUME NEW m \in MaskIds, Numa_allocate_cpumask(t, m) PROVE Safe'
    <3>1. /\ m \notin live /\ live' = live \cup {m}
          /\ mask' = [mask EXCEPT ![t] = m]
          /\ pc[t] = "alloc" /\ pc' = [pc EXCEPT ![t] = "read"]
          /\ UNCHANGED <<phase, array, cache, nomem, node, ptr>>
      BY <2>14 DEF Numa_allocate_cpumask
    <3>2. (NodeInRange /\ SlotStillThere /\ NoArrayNoMasks /\ ArrayOrNoMemory)'
      BY <3>1
    <3>3. (SlotsLive /\ CopiesLive /\ HeldLive)'
      BY <3>1
    <3>4. (HeldUncached /\ HeldUncopied /\ HeldOnce)'
      BY <3>1
    <3> QED
      BY <3>2, <3>3, <3>4
  <2>15. CASE OutOfMemory(t)
    BY <2>15 DEF OutOfMemory, shared, sysfs, locals
  <2>16. CASE ReadCpumap(t)
    <3>1. /\ pc[t] = "read" /\ pc' = [pc EXCEPT ![t] = "save"]
          /\ UNCHANGED <<phase, array, cache, live, nomem, node, mask, ptr>>
      BY <2>16 DEF ReadCpumap
    <3>2. (NodeInRange /\ SlotStillThere /\ NoArrayNoMasks /\ ArrayOrNoMemory)'
      BY <3>1
    <3>3. (SlotsLive /\ CopiesLive /\ HeldLive)'
      BY <3>1
    <3>4. (HeldUncached /\ HeldUncopied /\ HeldOnce)'
      BY <3>1
    <3> QED
      BY <3>2, <3>3, <3>4
  <2>17. CASE SaveOverwrite(t)
    BY <2>17 DEF SaveOverwrite, shared, sysfs, locals
  <2>18. CASE SaveDrop(t)
    <3>1. /\ live' = live \ {mask[t]} /\ mask' = [mask EXCEPT ![t] = NULL]
          /\ pc[t] \in Holding /\ pc' = [pc EXCEPT ![t] = "done"]
          /\ ptr' \in {ptr, [ptr EXCEPT ![t] = NULL]}
          /\ UNCHANGED <<phase, array, cache, nomem, node>>
      BY <2>18 DEF SaveDrop, DropMask, sysfs
    <3>2. (NodeInRange /\ SlotStillThere /\ NoArrayNoMasks /\ ArrayOrNoMemory)'
      BY <3>1
    <3>3. (SlotsLive /\ CopiesLive /\ HeldLive)'
      BY <3>1
    <3>4. (HeldUncached /\ HeldUncopied /\ HeldOnce)'
      BY <3>1
    <3> QED
      BY <3>2, <3>3, <3>4
  <2>19. CASE SavePublish(t)
    <3>1. /\ pc[t] = "save" /\ pc' = [pc EXCEPT ![t] = "publish"]
          /\ UNCHANGED <<phase, array, cache, live, nomem, node, mask, ptr>>
      BY <2>19 DEF SavePublish, shared, locals
    <3>2. (NodeInRange /\ SlotStillThere /\ NoArrayNoMasks /\ ArrayOrNoMemory)'
      BY <3>1
    <3>3. (SlotsLive /\ CopiesLive /\ HeldLive)'
      BY <3>1
    <3>4. (HeldUncached /\ HeldUncopied /\ HeldOnce)'
      BY <3>1
    <3> QED
      BY <3>2, <3>3, <3>4
  <2>20. CASE StartCopyIn(t)
    <3>1. /\ node[t] \in Nodes /\ cache[node[t]] # NULL
          /\ ptr' = [ptr EXCEPT ![t] = cache[node[t]]]
          /\ pc[t] = "overwrite" /\ pc' = [pc EXCEPT ![t] = "copyin"]
          /\ UNCHANGED <<phase, array, cache, live, nomem, node, mask>>
      BY <2>20 DEF StartCopyIn, shared
    <3>2. (NodeInRange /\ SlotStillThere /\ NoArrayNoMasks /\ ArrayOrNoMemory)'
      BY <3>1
    <3>3. (SlotsLive /\ CopiesLive /\ HeldLive)'
      BY <3>1
    <3>4. (HeldUncached /\ HeldUncopied /\ HeldOnce)'
      BY <3>1
    <3> QED
      BY <3>2, <3>3, <3>4
  <2>21. CASE CopyIn(t)
    BY <2>21 DEF CopyIn, shared, sysfs, locals
  <2>22. CASE EndCopyIn(t)
    <3>1. /\ live' = live \ {mask[t]} /\ mask' = [mask EXCEPT ![t] = NULL]
          /\ pc[t] \in Holding /\ pc' = [pc EXCEPT ![t] = "done"]
          /\ ptr' \in {ptr, [ptr EXCEPT ![t] = NULL]}
          /\ UNCHANGED <<phase, array, cache, nomem, node>>
      BY <2>22 DEF EndCopyIn, DropMask, sysfs
    <3>2. (NodeInRange /\ SlotStillThere /\ NoArrayNoMasks /\ ArrayOrNoMemory)'
      BY <3>1
    <3>3. (SlotsLive /\ CopiesLive /\ HeldLive)'
      BY <3>1
    <3>4. (HeldUncached /\ HeldUncopied /\ HeldOnce)'
      BY <3>1
    <3> QED
      BY <3>2, <3>3, <3>4
  <2>23. CASE Publish(t)
    <3>1. /\ cache' = [cache EXCEPT ![node[t]] = mask[t]] /\ node[t] \in Nodes
          /\ mask[t] \in live /\ mask' = [mask EXCEPT ![t] = NULL]
          /\ pc[t] = "publish" /\ pc' = [pc EXCEPT ![t] = "done"]
          /\ array
          /\ UNCHANGED <<phase, array, live, nomem, node, ptr>>
      BY <2>23 DEF Publish
    <3>2. (NodeInRange /\ SlotStillThere /\ NoArrayNoMasks /\ ArrayOrNoMemory)'
      BY <3>1
    <3>3. (SlotsLive /\ CopiesLive /\ HeldLive)'
      BY <3>1
    <3>4. (HeldUncached /\ HeldUncopied /\ HeldOnce)'
      BY <3>1
    <3> QED
      BY <3>2, <3>3, <3>4
  <2>24. CASE Leave(t)
    BY <2>24 DEF Leave, shared, sysfs, locals
  <2> HIDE DEF Safe
  <2> QED
    BY <1>4, <2>1, <2>2, <2>3, <2>4, <2>5, <2>6, <2>7, <2>8, <2>9, <2>10, <2>11, <2>12,
       <2>13, <2>14, <2>15, <2>16, <2>17, <2>18, <2>19, <2>20, <2>21, <2>22, <2>23, <2>24
    DEF ThreadStep
<1> QED BY <1>1, <1>2, <1>3, <1>4 DEF Next
LEMMA IndInvInit == Init => IndInv
<1> SUFFICES ASSUME Init PROVE IndInv
  OBVIOUS
<1>1. TypeOK
  BY InitTypeOK
<1>2. Safe
  BY <1>1, ConstantsAssumption
  DEF Init, Safe, NodeInRange, SlotStillThere, NoArrayNoMasks, ArrayOrNoMemory,
      CrashOnlyWithoutMemory, SlotsLive, CopiesLive, HeldLive, HeldUncached, HeldUncopied,
      HeldOnce, Copying, Holding, InCall, InNode, Indexing
<1> QED
  BY <1>1, <1>2, SafeIsIndInv

LEMMA IndInvNext == IndInv /\ [Next]_vars => IndInv'
<1> SUFFICES ASSUME IndInv, [Next]_vars PROVE IndInv'
  OBVIOUS
<1>1. TypeOK /\ TypeOK' /\ Safe
  BY NextTypeOK, SafeIsIndInv DEF IndInv
<1>2. Safe'
  BY <1>1, NextSafe
<1>3. (TypeOK => (Safe <=> IndInv))'
  BY SafeIsIndInv, PTL
<1> QED
  BY <1>1, <1>2, <1>3

\* The inductive invariant of numa_node_to_cpus_v2 holds in every reachable state, for any
\* interleaving of calls, updates and failures; the theorems below follow from it.
THEOREM Invariance == Spec => []IndInv
  BY IndInvInit, IndInvNext, PTL DEF Spec

\* The type invariant holds in every behaviour: in particular a call that is
\* past the range check never indexes the cache outside it.
THEOREM TypeCorrect == Spec => []TypeOK
<1>1. IndInv => TypeOK
  BY DEF IndInv
<1> QED BY <1>1, Invariance, PTL

\* Whatever the number of threads in numa_node_to_cpus_v2 and however their steps
\* interleave, no mask is used after it is freed, the mask a call is filling or freeing is
\* out of reach of every other thread, and the compare-and-exchange of
\* init_node_cpu_mask_v2 gives every caller an array unless memory ran out.
THEOREM MasksAreSafe == Spec => []MasksSafe
<1>1. IndInv => MasksSafe
  BY DEF IndInv, ArrayOrNoMemory, MasksSafe
<1> QED BY <1>1, Invariance, PTL

\* No step but the teardown empties a slot.
LEMMA NextKeepsSlots == IndInv /\ [Next]_vars => [SlotsStep]_vars
<1> SUFFICES ASSUME IndInv, Next PROVE SlotsStep
  BY DEF vars
<1>1. CASE Environment
  BY <1>1 DEF Environment, Hotplug, ToggleReadable, StoresLand, Numa_node_to_cpu_update,
              Numa_fini, SlotsStep, shared
<1>2. ASSUME NEW t \in Threads, NEW n \in NodeArgs, NEW b \in Words, Call(t, n, b)
      PROVE  SlotsStep
  BY <1>2 DEF Call, SlotsStep, shared
<1>3. ASSUME NEW t \in Threads, ThreadStep(t)
      PROVE  SlotsStep
  <2>1. CASE Init_node_cpu_mask_v2(t)
    BY <2>1 DEF Init_node_cpu_mask_v2, SlotsStep, IndInv, NoArrayNoMasks
  <2>2. CASE Publish(t)
    <3>1. mask[t] # NULL
      BY <2>2, ConstantsAssumption
      DEF Publish, Return, Goto, IndInv, MemorySafety, TypeOK, Holding
    <3> QED
      BY <2>2, <3>1 DEF Publish, SlotsStep, IndInv, TypeOK
  <2>3. CASE cache' = cache
    BY <2>3 DEF SlotsStep
  <2>4. ThreadStep(t) => Init_node_cpu_mask_v2(t) \/ Publish(t) \/ cache' = cache
    BY DEF ThreadStep, LoadArray, InitArrayNoMemory, RangeError, ClearBuffer, FetchStale,
           NullArray, SizeMismatch, Hit, Miss, StartCopyOut, CopyOut, EndCopyOut,
           Numa_allocate_cpumask, OutOfMemory, ReadCpumap, SaveOverwrite, SaveDrop,
           SavePublish, StartCopyIn, CopyIn, EndCopyIn, Leave, shared
  <2> QED BY <1>3, <2>1, <2>2, <2>3, <2>4
<1> QED BY <1>1, <1>2, <1>3 DEF Next

\* A node that has a cached mask keeps one until numa_fini, whichever threads
\* publish, refresh or install the array at once.
THEOREM SlotsStay == Spec => SlotsKept
  BY Invariance, NextKeepsSlots, PTL DEF Spec, SlotsKept
----------------------------------------------------------------------------
(* What calls answer: AnswerInv, on top of IndInv. *)

\* The words of masks that are cached, copied or filled.  A step that stores to a
\* mask stores to its own, or copies its own into a cached one.
LEMMA NextMasksWhole ==
  ASSUME TypeOK, Safe, MasksWhole, [Next]_vars
  PROVE  MasksWhole'
<1> USE ConstantsAssumption
<1> USE DEF MasksWhole, Safe, NodeInRange, SlotsLive, CopiesLive, HeldLive, HeldUncached,
            HeldUncopied, HeldOnce, SlotStillThere, TypeOK, Copying, Holding, Filled,
            InCall, InNode, PCs
<1>1. CASE UNCHANGED vars
  BY <1>1 DEF vars, shared, sysfs, locals
<1>2. CASE Environment
  <2>1. CASE ~Numa_fini
    BY <1>2, <2>1 DEF Environment, Hotplug, ToggleReadable, StoresLand, Numa_node_to_cpu_update,
                      shared, sysfs, locals
  <2>2. CASE Numa_fini
    BY <2>2 DEF Numa_fini, sysfs, locals
  <2> QED BY <2>1, <2>2
<1>3. ASSUME NEW t \in Threads, NEW n \in NodeArgs, NEW b \in Words, Call(t, n, b)
      PROVE  MasksWhole'
  BY <1>3 DEF Call, Goto, shared, sysfs
<1>4. ASSUME NEW t \in Threads, ThreadStep(t)
      PROVE  MasksWhole'
  <2> USE DEF Goto, Return
  <2>1. CASE \/ LoadArray(t) \/ InitArrayNoMemory(t) \/ RangeError(t) \/ ClearBuffer(t)
             \/ FetchStale(t) \/ NullArray(t)
    BY <2>1 DEF LoadArray, InitArrayNoMemory, RangeError, ClearBuffer, FetchStale, NullArray,
                shared, sysfs, locals
  <2>2. CASE Init_node_cpu_mask_v2(t)
    BY <2>2 DEF Init_node_cpu_mask_v2, sysfs, locals
  <2>3. CASE \/ SizeMismatch(t) \/ Hit(t) \/ Miss(t) \/ EndCopyOut(t) \/ Leave(t)
    <3>1. /\ UNCHANGED <<cache, content, mask>>
          /\ \E to \in {"hit", "alloc", "done", "idle"} : pc' = [pc EXCEPT ![t] = to]
          /\ \A u \in Threads \ {t} : ptr'[u] = ptr[u] /\ err'[u] = err[u]
      BY <2>3 DEF SizeMismatch, Hit, Miss, EndCopyOut, Leave, shared, sysfs, locals
    <3> QED BY <3>1
  <2>12. CASE CopyOut(t) \/ OutOfMemory(t)
    BY <2>12 DEF CopyOut, OutOfMemory, shared, sysfs, locals
  <2>4. CASE StartCopyOut(t) \/ StartCopyIn(t)
    <3>1. /\ UNCHANGED <<cache, content, mask, err>>
          /\ ptr' = [ptr EXCEPT ![t] = cache[node[t]]] /\ cache[node[t]] # NULL /\ node[t] \in Nodes
          /\ \/ pc' = [pc EXCEPT ![t] = "copyout"]
             \/ pc[t] = "overwrite" /\ pc' = [pc EXCEPT ![t] = "copyin"]
      BY <2>4 DEF StartCopyOut, StartCopyIn, shared, sysfs, locals
    <3>2. \A u \in Threads : pc'[u] \in Copying => \A w \in Words : content'[ptr'[u]][w] # Zero
      BY <3>1
    <3>3. \A u \in Threads : pc'[u] \in Filled => pc[u] \in Filled
      BY <3>1
    <3>4. \A u \in Threads : pc'[u] = "publish" => pc[u] = "publish"
      BY <3>1
    <3> QED BY <3>1, <3>2, <3>3, <3>4
  <2>5. ASSUME NEW m \in MaskIds, Numa_allocate_cpumask(t, m) PROVE MasksWhole'
    BY <2>5 DEF Numa_allocate_cpumask, sysfs, locals
  <2>6. CASE ReadCpumap(t)
    <3> DEFINE c == IF readable[node[t]] THEN sys[node[t]] ELSE Faulty
    <3>1. /\ UNCHANGED <<cache, mask, ptr>> /\ pc[t] = "read" /\ pc' = [pc EXCEPT ![t] = "save"]
          /\ err' = [err EXCEPT ![t] = ~readable[node[t]]]
          /\ content' = [content EXCEPT ![mask[t]] = [w \in Words |-> c]]
          /\ mask[t] \in MaskIds /\ node[t] \in Nodes
      BY <2>6 DEF ReadCpumap
    <3>2. IF err'[t] THEN c = Faulty ELSE c \in Versions
      BY <3>1
    <3>3. \A w \in Words : content'[mask[t]][w] = c
      BY <3>1
    <3>4. \A m \in MaskIds : m # mask[t] => content'[m] = content[m]
      BY <3>1
    <3> HIDE DEF c
    <3>5. \A n \in Nodes : cache'[n] # NULL => \A w \in Words : content'[cache'[n]][w] # Zero
      BY <3>1, <3>4
    <3>6. \A u \in Threads : pc'[u] \in Copying => \A w \in Words : content'[ptr'[u]][w] # Zero
      BY <3>1, <3>4
    <3>7. \A u \in Threads : pc'[u] \in Filled =>
            \A w \in Words : IF err'[u] THEN content'[mask'[u]][w] = Faulty
                                       ELSE content'[mask'[u]][w] \in Versions
      <4> TAKE u \in Threads
      <4>1. CASE u = t
        BY <3>1, <3>2, <3>3, <4>1
      <4>2. CASE u # t
        BY <3>1, <3>4, <4>2
      <4> QED BY <4>1, <4>2
    <3> QED BY <3>1, <3>5, <3>6, <3>7
  <2>7. CASE SaveOverwrite(t) \/ SavePublish(t)
    BY <2>7 DEF SaveOverwrite, SavePublish, shared, sysfs, locals
  <2>8. CASE SaveDrop(t)
    BY <2>8 DEF SaveDrop, DropMask, sysfs, locals
  <2>9. CASE CopyIn(t)
    BY <2>9 DEF CopyIn, sysfs, locals, Zero, Faulty, Versions
  <2>10. CASE EndCopyIn(t)
    BY <2>10 DEF EndCopyIn, DropMask, sysfs, locals
  <2>11. CASE Publish(t)
    <3>1. /\ UNCHANGED <<content, ptr, err>> /\ pc[t] = "publish" /\ pc' = [pc EXCEPT ![t] = "done"]
          /\ cache' = [cache EXCEPT ![node[t]] = mask[t]] /\ node[t] \in Nodes
          /\ mask' = [mask EXCEPT ![t] = NULL]
      BY <2>11 DEF Publish
    <3>2. \A w \in Words : content[mask[t]][w] # Zero
      <4>1. ~err[t] /\ \A w \in Words : content[mask[t]][w] \in Versions
        BY <3>1
      <4>2. Zero \notin Versions
        BY DEF Zero, Versions
      <4> QED BY <4>1, <4>2
    <3>3. \A n \in Nodes : cache'[n] # NULL => \A w \in Words : content'[cache'[n]][w] # Zero
      BY <3>1, <3>2
    <3>4. \A u \in Threads : pc'[u] \in Copying \cup Filled => u # t /\ pc'[u] = pc[u]
      BY <3>1
    <3>5. \A u \in Threads : u # t => mask'[u] = mask[u]
      BY <3>1
    <3> QED BY <3>1, <3>3, <3>4, <3>5
  <2> HIDE DEF MasksWhole
  <2> QED
    BY <1>4, <2>1, <2>2, <2>3, <2>4, <2>5, <2>6, <2>7, <2>8, <2>9, <2>10, <2>11, <2>12 DEF ThreadStep
<1> HIDE DEF MasksWhole
<1> QED BY <1>1, <1>2, <1>3, <1>4 DEF Next

LEMMA NextStoresInOrder ==
  ASSUME TypeOK, StoresInOrder, [Next]_vars
  PROVE  StoresInOrder'
<1> USE DEF StoresInOrder, TypeOK
<1> SUFFICES ASSUME ~StoreReorder, NEW m \in MaskIds PROVE pending'[m] = NULL
  OBVIOUS
<1>1. \/ pending' = pending
      \/ \E x : pending' = [pending EXCEPT ![x] = NULL]
  BY DEF Next, ThreadStep, Environment, Call, Hotplug, ToggleReadable, StoresLand,
       Numa_node_to_cpu_update, Numa_fini, LoadArray, Init_node_cpu_mask_v2, InitArrayNoMemory,
       RangeError, ClearBuffer, FetchStale, NullArray, SizeMismatch, Hit, Miss, StartCopyOut,
       CopyOut, EndCopyOut, Numa_allocate_cpumask, OutOfMemory, ReadCpumap, SaveOverwrite,
       SaveDrop, SavePublish, StartCopyIn, CopyIn, EndCopyIn, Publish, Leave, DropMask, shared, vars
<1> QED BY <1>1

LEMMA NextWantOld ==
  ASSUME TypeOK, Safe, WantOld, [Next]_vars
  PROVE  WantOld'
<1> USE ConstantsAssumption
<1> USE DEF WantOld, TypeOK, Safe, NodeInRange, InNode, InCall, PCs, Versions
<1>1. CASE UNCHANGED vars
  BY <1>1 DEF vars, shared, sysfs, locals
<1>2. CASE Environment
  BY <1>2 DEF Environment, Hotplug, ToggleReadable, StoresLand, Numa_node_to_cpu_update, Numa_fini,
              shared, sysfs, locals
<1>3. ASSUME NEW t \in Threads, NEW n \in NodeArgs, NEW b \in Words, Call(t, n, b)
      PROVE  WantOld'
  BY <1>3 DEF Call, Goto, shared, sysfs
<1>4. ASSUME NEW t \in Threads, ThreadStep(t)
      PROVE  WantOld'
  <2> USE DEF Goto, Return, sysfs, locals
  <2>1. CASE FetchStale(t)
    BY <2>1 DEF FetchStale
  <2>2. CASE Leave(t)
    BY <2>2 DEF Leave
  <2>3. CASE ~FetchStale(t) /\ ~Leave(t)
    <3>1. /\ UNCHANGED <<sys, asked, want, node>>
          /\ \/ pc' = pc
             \/ \E to \in {"range", "init", "fetch", "done"} : pc' = [pc EXCEPT ![t] = to]
             \/ pc[t] \in InNode \ {"fetch"} /\ \E to \in PCs : pc' = [pc EXCEPT ![t] = to]
      BY <1>4, <2>3 DEF ThreadStep, LoadArray, Init_node_cpu_mask_v2, InitArrayNoMemory,
       RangeError, ClearBuffer, NullArray, SizeMismatch, Hit, Miss, StartCopyOut,
       CopyOut, EndCopyOut, Numa_allocate_cpumask, OutOfMemory, ReadCpumap, SaveOverwrite,
       SaveDrop, SavePublish, StartCopyIn, CopyIn, EndCopyIn, Publish
    <3>2. ASSUME NEW u \in Threads, pc'[u] \in InNode \ {"fetch"}
          PROVE  pc[u] \in InNode \ {"fetch"}
      <4>1. CASE u = t
        BY <3>1, <3>2, <4>1
      <4>2. CASE u # t
        BY <3>1, <3>2, <4>2
      <4> QED BY <4>1, <4>2
    <3> QED BY <3>1, <3>2
  <2> QED BY <2>1, <2>2, <2>3
<1> QED BY <1>1, <1>2, <1>3, <1>4 DEF Next

\* One call after the other fills its buffer, from a cached mask or from sysfs.
LEMMA NextBufferSoFar ==
  ASSUME TypeOK, Safe, AnswerInv, [Next]_vars
  PROVE  BufferSoFar'
<1> USE ConstantsAssumption
<1> USE DEF BufferSoFar, TypeOK, Holding, Filled, PCs
<1>1. CASE UNCHANGED vars \/ Environment
  BY <1>1 DEF Environment, Hotplug, ToggleReadable, StoresLand, Numa_node_to_cpu_update, Numa_fini,
              vars, shared, sysfs, locals, AnswerInv
<1>2. ASSUME NEW t \in Threads, NEW n \in NodeArgs, NEW b \in Words, Call(t, n, b)
      PROVE  BufferSoFar'
  BY <1>2 DEF Call, Goto, shared, sysfs, AnswerInv
<1>3. ASSUME NEW t \in Threads, ThreadStep(t)
      PROVE  BufferSoFar'
  <2> USE DEF Goto, Return, AnswerInv
  <2>1. CASE CopyOut(t)
    <3>1. PICK c \in Readable(t, ptr[t], word[t]) : buf' = [buf EXCEPT ![t][word[t]] = c]
      BY <2>1 DEF CopyOut
    <3>2. /\ pc[t] = "copyout" /\ word[t] \in Words /\ word' = [word EXCEPT ![t] = @ + 1]
          /\ UNCHANGED <<pc, update, blen, err, want>>
      BY <2>1 DEF CopyOut, Words
    <3>3. ~StoreReorder => c # Zero
      <4>1. ptr[t] \in MaskIds
        BY <3>2 DEF Safe, CopiesLive, Copying
      <4>2. content[ptr[t]][word[t]] # Zero
        BY <3>2 DEF MasksWhole, Copying
      <4> QED BY <3>1, <4>1, <4>2 DEF Readable, StoresInOrder
    <3>4. \A u \in Threads : u # t => buf'[u] = buf[u] /\ word'[u] = word[u]
      BY <3>1, <3>2
    <3>5. ~StoreReorder => \A w \in Words : w < word'[t] => buf'[t][w] # Zero
      <4> SUFFICES ASSUME ~StoreReorder, NEW w \in Words, w < word[t] + 1 PROVE buf'[t][w] # Zero
        BY <3>2
      <4>1. CASE w = word[t]
        BY <3>1, <3>2, <3>3, <4>1
      <4>2. CASE w # word[t]
        <5>1. w < word[t]
          BY <3>2, <4>2 DEF Words
        <5>2. buf'[t][w] = buf[t][w]
          BY <3>1, <4>2
        <5> QED BY <3>2, <5>1, <5>2
      <4> QED BY <4>1, <4>2
    <3>6. ~update[t]
      BY <3>2
    <3> QED BY <3>2, <3>4, <3>5, <3>6
  <2>2. CASE ReadCpumap(t)
    <3> DEFINE c == IF readable[node[t]] THEN sys[node[t]] ELSE Faulty
    <3>1. /\ pc[t] = "read" /\ pc' = [pc EXCEPT ![t] = "save"]
          /\ err' = [err EXCEPT ![t] = ~readable[node[t]]]
          /\ buf' = [buf EXCEPT ![t] = [w \in Words |-> IF w <= blen[t] THEN c ELSE Zero]]
          /\ UNCHANGED <<blen, update, word, want>>
      BY <2>2 DEF ReadCpumap
    <3>2. node[t] \in Nodes /\ want[t] <= sys[node[t]]
      BY <3>1 DEF WantOld, InNode, InCall, Safe, NodeInRange
    <3>3. IF err'[t] THEN c = Faulty ELSE c >= want[t]
      BY <3>1, <3>2 DEF Versions
    <3>4. \A w \in 1 .. blen[t] : w \in Words /\ buf'[t][w] = c
      BY <3>1 DEF Words
    <3> HIDE DEF c
    <3>5. \A w \in 1 .. blen[t] : IF err'[t] THEN buf'[t][w] = Faulty ELSE buf'[t][w] >= want[t]
      BY <3>3, <3>4
    <3>6. \A u \in Threads : u # t => buf'[u] = buf[u] /\ err'[u] = err[u] /\ pc'[u] = pc[u]
      BY <3>1
    <3> QED BY <3>1, <3>5, <3>6
  <2>3. CASE \/ LoadArray(t) \/ Init_node_cpu_mask_v2(t) \/ InitArrayNoMemory(t) \/ RangeError(t)
             \/ ClearBuffer(t) \/ FetchStale(t) \/ NullArray(t) \/ SizeMismatch(t) \/ Miss(t)
             \/ OutOfMemory(t) \/ Leave(t)
    BY <2>3 DEF LoadArray, Init_node_cpu_mask_v2, InitArrayNoMemory, RangeError, ClearBuffer,
                FetchStale, NullArray, SizeMismatch, Miss, OutOfMemory, Leave, shared, sysfs, locals
  <2>4. CASE Hit(t) \/ StartCopyOut(t)
    <3>1. /\ UNCHANGED <<blen, update, err, buf, want>> /\ ~update[t]
          /\ \A u \in Threads : u # t => pc'[u] = pc[u] /\ word'[u] = word[u]
          /\ pc'[t] \in {"hit", "copyout"} /\ (pc'[t] = "copyout" => word'[t] = 1)
      BY <2>4 DEF Hit, StartCopyOut, CanHit, shared, sysfs, locals
    <3>2. \A w \in Words : ~(w < 1)
      BY DEF Words
    <3> QED BY <3>1, <3>2
  <2>5. CASE \/ EndCopyOut(t) \/ SaveOverwrite(t) \/ SaveDrop(t)
             \/ SavePublish(t) \/ StartCopyIn(t) \/ CopyIn(t) \/ EndCopyIn(t) \/ Publish(t)
             \/ \E m \in MaskIds : Numa_allocate_cpumask(t, m)
    <3>1. /\ UNCHANGED <<blen, update, err, buf, want>>
          /\ \A u \in Threads : u # t => pc'[u] = pc[u] /\ word'[u] = word[u]
          /\ pc'[t] \notin {"hit", "copyout"} /\ (pc'[t] \in Filled => pc[t] \in Filled)
      BY <2>5 DEF EndCopyOut, Numa_allocate_cpumask, SaveOverwrite, SaveDrop, SavePublish,
                  StartCopyIn, CopyIn, EndCopyIn, Publish, DropMask, shared, sysfs, locals
    <3> QED BY <3>1
  <2> HIDE DEF BufferSoFar
  <2> QED BY <1>3, <2>1, <2>2, <2>3, <2>4, <2>5 DEF ThreadStep
<1> QED BY <1>1, <1>2, <1>3 DEF Next

\* A call that is done answers with what is in its buffer.
LEMMA NextAnswered ==
  ASSUME TypeOK, AnswerInv, [Next]_vars
  PROVE  Answered'
<1> USE ConstantsAssumption
<1> USE DEF Answered, TypeOK, Holding, Filled, PCs
<1>1. CASE UNCHANGED vars \/ Environment
  BY <1>1 DEF Environment, Hotplug, ToggleReadable, StoresLand, Numa_node_to_cpu_update, Numa_fini,
              vars, shared, sysfs, locals, AnswerInv
<1>2. ASSUME NEW t \in Threads, NEW n \in NodeArgs, NEW b \in Words, Call(t, n, b)
      PROVE  Answered'
  BY <1>2 DEF Call, Goto, shared, sysfs, AnswerInv
<1>3. ASSUME NEW t \in Threads, ThreadStep(t)
      PROVE  Answered'
  <2> USE DEF Goto, Return, AnswerInv
  <2>1. CASE EndCopyOut(t)
    <3>1. /\ pc[t] = "copyout" /\ pc' = [pc EXCEPT ![t] = "done"]
          /\ result' = [result EXCEPT ![t] = "ok"] /\ word[t] > NWords
          /\ UNCHANGED <<blen, buf, update, want>>
      BY <2>1 DEF EndCopyOut
    <3>2. \A w \in 1 .. blen[t] : w \in Words /\ w < word[t]
      BY <3>1 DEF Words
    <3>3. ~update[t] /\ (~StoreReorder => \A w \in 1 .. blen[t] : buf[t][w] # Zero)
      BY <3>1, <3>2 DEF BufferSoFar
    <3> QED BY <3>1, <3>3
  <2>2. CASE SaveDrop(t) \/ EndCopyIn(t) \/ Publish(t)
    <3>1. /\ pc[t] \in Filled /\ pc' = [pc EXCEPT ![t] = "done"]
          /\ \E r : result' = [result EXCEPT ![t] = r] /\ (r = "ok" => ~err[t])
          /\ UNCHANGED <<blen, buf, update, want>>
      BY <2>2 DEF SaveDrop, EndCopyIn, Publish, Outcome, MasksWhole
    <3>2. ~err[t] => \A w \in 1 .. blen[t] : buf[t][w] >= want[t]
      BY <3>1 DEF BufferSoFar
    <3>3. \A w \in 1 .. blen[t] : buf[t][w] >= want[t] => buf[t][w] # Zero
      BY DEF Zero, Versions
    <3>4. \A u \in Threads : u # t => result'[u] = result[u] /\ pc'[u] = pc[u]
      BY <3>1
    <3>5. result'[t] = "ok" => ~err[t]
      BY <3>1
    <3> QED BY <3>1, <3>2, <3>3, <3>4, <3>5
  <2>3. CASE \/ LoadArray(t) \/ Init_node_cpu_mask_v2(t) \/ InitArrayNoMemory(t) \/ RangeError(t)
             \/ ClearBuffer(t) \/ FetchStale(t) \/ NullArray(t) \/ SizeMismatch(t) \/ Hit(t) \/ Miss(t)
             \/ OutOfMemory(t) \/ Leave(t)
    BY <2>3 DEF LoadArray, Init_node_cpu_mask_v2, InitArrayNoMemory, RangeError, ClearBuffer,
                FetchStale, NullArray, SizeMismatch, Hit, Miss, OutOfMemory, Leave, shared, sysfs, locals
  <2>4. CASE \/ StartCopyOut(t) \/ CopyOut(t) \/ ReadCpumap(t) \/ SaveOverwrite(t)
             \/ SavePublish(t) \/ StartCopyIn(t) \/ CopyIn(t)
             \/ \E m \in MaskIds : Numa_allocate_cpumask(t, m)
    <3>1. /\ pc[t] # "done" /\ UNCHANGED <<blen, update, want, result>>
          /\ \A u \in Threads : u # t => pc'[u] = pc[u] /\ buf'[u] = buf[u]
      BY <2>4 DEF StartCopyOut, CopyOut, ReadCpumap, SaveOverwrite, SavePublish, StartCopyIn,
                  CopyIn, Numa_allocate_cpumask, shared, sysfs, locals
    <3>2. result[t] = "none"
      BY <3>1
    <3> QED BY <3>1, <3>2
  <2> HIDE DEF Answered
  <2> QED BY <1>3, <2>1, <2>2, <2>3, <2>4 DEF ThreadStep
<1> QED BY <1>1, <1>2, <1>3 DEF Next

LEMMA InitAnswerInv == Init => AnswerInv
BY ConstantsAssumption DEF Init, AnswerInv, MasksWhole, StoresInOrder, WantOld, BufferSoFar, Answered,
   Copying, Holding, Filled, InNode, InCall

LEMMA AnswerAlways == Spec => [](IndInv /\ AnswerInv)
<1>1. IndInv => TypeOK /\ Safe
  BY SafeIsIndInv DEF IndInv
<1>2. IndInv /\ AnswerInv /\ [Next]_vars => AnswerInv'
  BY <1>1, NextMasksWhole, NextStoresInOrder, NextWantOld, NextBufferSoFar, NextAnswered DEF AnswerInv
<1> QED BY <1>2, InitAnswerInv, IndInvInit, IndInvNext, PTL DEF Spec

\* Where stores are seen in order, a successful call has filled every word of the
\* caller's buffer, be it from the cache while another call publishes or
\* overwrites the mask, or from sysfs.
THEOREM AnswersAreComplete ==
  ASSUME ~StoreReorder
  PROVE  Spec => []AnswerComplete
<1>1. AnswerInv => AnswerComplete
  BY DEF AnswerInv, Answered, AnswerComplete
<1> QED BY <1>1, AnswerAlways, PTL

\* The call that took the stale flag never answers from the cache, and what it
\* reads is no older than the update it took the flag of.
THEOREM ConsumerIsFresh == Spec => []FreshForConsumer
<1>1. AnswerInv => FreshForConsumer
  BY DEF AnswerInv, Answered, FreshForConsumer
<1> QED BY <1>1, AnswerAlways, PTL

LEMMA NextFirstPublish == IndInv /\ AnswerInv /\ [Next]_vars => [FirstPublishStep]_vars
<1> SUFFICES ASSUME IndInv, AnswerInv, Next PROVE FirstPublishStep
  BY DEF vars
<1>1. CASE \A n \in Nodes : cache'[n] \in {cache[n], NULL}
  BY <1>1 DEF FirstPublishStep
<1>2. ASSUME NEW t \in Threads, Publish(t) PROVE FirstPublishStep
  <2>1. /\ pc[t] = "publish" /\ cache' = [cache EXCEPT ![node[t]] = mask[t]] /\ content' = content
        /\ \A w \in Words : content[mask[t]][w] \in Versions
    BY <1>2 DEF Publish, Return, Goto, AnswerInv, MasksWhole, Filled, Holding
  <2> QED BY <2>1 DEF FirstPublishStep, IndInv, TypeOK
<1>3. ASSUME ~(\E t \in Threads : Publish(t)) PROVE \A n \in Nodes : cache'[n] \in {cache[n], NULL}
  BY <1>3 DEF Next, ThreadStep, Environment, Call, Hotplug, ToggleReadable, StoresLand,
       Numa_node_to_cpu_update, Numa_fini, LoadArray, Init_node_cpu_mask_v2, InitArrayNoMemory,
       RangeError, ClearBuffer, FetchStale, NullArray, SizeMismatch, Hit, Miss, StartCopyOut,
       CopyOut, EndCopyOut, Numa_allocate_cpumask, OutOfMemory, ReadCpumap, SaveOverwrite,
       SaveDrop, SavePublish, StartCopyIn, CopyIn, EndCopyIn, Leave, shared
<1> QED BY <1>1, <1>2, <1>3

\* The first mask that numa_node_to_cpus_v2 caches for a node was read without
\* error, whoever wins the race for the slot.
THEOREM FirstPublishIsGood == Spec => FirstPublishGood
  BY AnswerAlways, NextFirstPublish, PTL DEF Spec, FirstPublishGood
----------------------------------------------------------------------------
(* Masks that are lost: LeakInv, on top of IndInv. *)

LEMMA AddOne ==
  ASSUME NEW S, NEW x, IsFiniteSet(S)
  PROVE  IsFiniteSet(S \cup {x}) /\ Cardinality(S \cup {x}) <= Cardinality(S) + 1
<1>1. Cardinality(S) \in Nat
  BY FS_CardinalityType
<1>2. /\ IsFiniteSet(S \cup {x})
      /\ Cardinality(S \cup {x}) = IF x \in S THEN Cardinality(S) ELSE Cardinality(S) + 1
  BY FS_AddElement
<1> QED BY <1>1, <1>2

LEMMA Finite ==
  ASSUME TypeOK, IsFiniteSet(live)
  PROVE  /\ IsFiniteSet(Leaked) /\ IsFiniteSet(Racing) /\ IsFiniteSet(Taken)
         /\ Cardinality(Leaked) \in Nat /\ Cardinality(Racing) \in Nat /\ Cardinality(Taken) \in Nat
         /\ Cardinality(Taken) <= MaxNode + 1
         /\ Cardinality(Threads) \in Nat \ {0}
<1>1. Leaked \in SUBSET live /\ Racing \in SUBSET Threads /\ Taken \in SUBSET Nodes
  BY DEF Leaked, Racing, Taken
<1>2. 0 \in Int /\ MaxNode \in Int /\ MaxNode >= 0 /\ IsFiniteSet(Threads)
  BY ConstantsAssumption
<1>3. IsFiniteSet(Nodes) /\ Cardinality(Nodes) = MaxNode + 1
  BY <1>2, FS_Interval DEF Nodes
<1>4. /\ IsFiniteSet(Leaked) /\ IsFiniteSet(Racing) /\ IsFiniteSet(Taken)
      /\ Cardinality(Taken) <= Cardinality(Nodes)
  BY <1>1, <1>2, <1>3, FS_Subset
<1>5. Cardinality(Threads) # 0
  BY FS_EmptySet, ConstantsAssumption
<1> QED BY <1>2, <1>3, <1>4, <1>5, FS_CardinalityType

\* What a leaked mask is, without the sets.
LEMMA LeakedMask ==
  ASSUME TypeOK, NEW m
  PROVE  m \in Leaked <=> /\ m \in live
                          /\ \A n \in Nodes : cache[n] # m
                          /\ \A t \in Threads : pc[t] \in Holding => mask[t] # m
<1>1. m \in live => m # NULL
  BY ConstantsAssumption DEF TypeOK
<1> QED BY <1>1 DEF Leaked, Published

LEMMA LeaksFewer ==
  ASSUME TypeOK, IsFiniteSet(live), Leaked' \subseteq Leaked, Racing' \subseteq Racing, Taken' = Taken,
         Cardinality(Leaked) + Cardinality(Racing) <= Cardinality(Taken) * (Cardinality(Threads) - 1)
  PROVE  Cardinality(Leaked') + Cardinality(Racing') <= Cardinality(Taken') * (Cardinality(Threads) - 1)
<1>1. /\ IsFiniteSet(Leaked') /\ IsFiniteSet(Racing')
      /\ Cardinality(Leaked') <= Cardinality(Leaked) /\ Cardinality(Racing') <= Cardinality(Racing)
  BY Finite, FS_Subset
<1>2. Cardinality(Leaked') \in Nat /\ Cardinality(Racing') \in Nat
  BY <1>1, FS_CardinalityType
<1> DEFINE bound == Cardinality(Taken) * (Cardinality(Threads) - 1)
<1>3. bound \in Int
  BY Finite
<1> HIDE DEF bound
<1>4. Cardinality(Leaked) + Cardinality(Racing) <= bound
  BY DEF bound
<1>5. Cardinality(Leaked') + Cardinality(Racing') <= bound
  BY <1>1, <1>2, <1>3, <1>4, Finite
<1> QED BY <1>5 DEF bound

\* The step that may lose a mask: the first publication of a node sets the
\* calls that saw its slot empty racing, a later one ends the race of its call.
LEMMA PublishLeak ==
  ASSUME TypeOK, Safe, IsFiniteSet(live), NEW t \in Threads, Publish(t),
         Cardinality(Leaked) + Cardinality(Racing) <= Cardinality(Taken) * (Cardinality(Threads) - 1)
  PROVE  Cardinality(Leaked') + Cardinality(Racing') <= Cardinality(Taken') * (Cardinality(Threads) - 1)
<1> USE ConstantsAssumption
<1>1. /\ pc[t] = "publish" /\ pc' = [pc EXCEPT ![t] = "done"]
      /\ cache' = [cache EXCEPT ![node[t]] = mask[t]] /\ node[t] \in Nodes
      /\ mask' = [mask EXCEPT ![t] = NULL] /\ mask[t] \in live /\ mask[t] # NULL
      /\ UNCHANGED <<live, node>>
  BY DEF Publish, Return, Goto, TypeOK, Safe, NodeInRange, HeldLive, Holding, InNode, InCall, PCs
<1>2. ASSUME NEW m, m \in Leaked' PROVE m \in Leaked \/ m = cache[node[t]]
  <2>1. /\ m \in live /\ \A n \in Nodes : cache'[n] # m
        /\ \A u \in Threads : pc'[u] \in Holding => mask'[u] # m
    <3>1. m \in live /\ m # NULL
      BY <1>1, <1>2 DEF Leaked, TypeOK
    <3> QED BY <1>1, <1>2, <3>1 DEF Leaked, Published
  <2>2. \A u \in Threads : pc[u] \in Holding => mask[u] # m
    <3>1. mask[t] # m
      BY <1>1, <2>1 DEF TypeOK
    <3> QED BY <1>1, <2>1, <3>1 DEF TypeOK
  <2>3. m # cache[node[t]] => \A n \in Nodes : cache[n] # m
    BY <1>1, <2>1 DEF TypeOK
  <2> QED BY <2>1, <2>2, <2>3, LeakedMask
<1>3. Racing' \subseteq Threads \ {t}
  BY <1>1 DEF Racing, TypeOK
<1>4. CASE cache[node[t]] = NULL
  <2>1. Leaked' \subseteq Leaked
    <3>1. NULL \notin Leaked'
      BY <1>1 DEF Leaked, TypeOK
    <3> QED BY <1>2, <1>4, <3>1
  <2>2. Taken' = Taken \cup {node[t]} /\ node[t] \notin Taken
    BY <1>1, <1>4 DEF Taken, TypeOK
  <2>3. Cardinality(Taken') = Cardinality(Taken) + 1
    BY <2>2, Finite, FS_AddElement
  <2>4. IsFiniteSet(Threads \ {t}) /\ Cardinality(Threads \ {t}) = Cardinality(Threads) - 1
    BY FS_RemoveElement
  <2>5. /\ IsFiniteSet(Racing') /\ Cardinality(Racing') <= Cardinality(Threads) - 1
        /\ IsFiniteSet(Leaked') /\ Cardinality(Leaked') <= Cardinality(Leaked)
    BY <1>3, <2>1, <2>4, Finite, FS_Subset
  <2>6. Cardinality(Leaked') \in Nat /\ Cardinality(Racing') \in Nat
    BY <2>5, FS_CardinalityType
  <2> DEFINE l == Cardinality(Leaked)
             r == Cardinality(Racing)
             n == Cardinality(Taken)
             k == Cardinality(Threads) - 1
  <2>7. l \in Nat /\ r \in Nat /\ n \in Nat /\ k \in Nat /\ l + r <= n * k
    BY Finite
  <2>8. Cardinality(Leaked') <= l /\ Cardinality(Racing') <= k /\ Cardinality(Taken') = n + 1
    BY <2>3, <2>5
  <2> HIDE DEF l, r, n, k
  <2>9. (n + 1) * k = n * k + k
    BY <2>7
  <2>10. Cardinality(Leaked') + Cardinality(Racing') <= (n + 1) * k
    BY <2>6, <2>7, <2>8, <2>9
  <2> QED BY <2>8, <2>10 DEF k
<1>5. CASE cache[node[t]] # NULL
  <2>1. Leaked' \subseteq Leaked \cup {cache[node[t]]}
    BY <1>2
  <2>2. Taken' = Taken
    BY <1>1, <1>5 DEF Taken, TypeOK
  <2>3. Racing' \subseteq Racing \ {t} /\ t \in Racing
    <3>1. \A n \in Nodes : cache[n] # NULL <=> cache'[n] # NULL
      BY <2>2 DEF Taken
    <3>2. \A u \in Threads : pc[u] = "publish" => node[u] \in Nodes
      BY DEF Safe, NodeInRange, InNode, InCall, PCs
    <3> QED BY <1>1, <1>5, <3>1, <3>2 DEF Racing, TypeOK
  <2>4. /\ IsFiniteSet(Leaked \cup {cache[node[t]]})
        /\ Cardinality(Leaked \cup {cache[node[t]]}) <= Cardinality(Leaked) + 1
        /\ IsFiniteSet(Racing \ {t}) /\ Cardinality(Racing \ {t}) = Cardinality(Racing) - 1
    <3>1. /\ IsFiniteSet(Leaked) /\ Cardinality(Leaked) \in Nat
          /\ IsFiniteSet(Racing) /\ Cardinality(Racing) \in Nat
      BY Finite
    <3>2. /\ IsFiniteSet(Leaked \cup {cache[node[t]]})
          /\ Cardinality(Leaked \cup {cache[node[t]]}) <= Cardinality(Leaked) + 1
      BY <3>1, AddOne
    <3>3. IsFiniteSet(Racing \ {t}) /\ Cardinality(Racing \ {t}) = Cardinality(Racing) - 1
      BY <2>3, <3>1, FS_RemoveElement
    <3> QED BY <3>2, <3>3
  <2>5. /\ IsFiniteSet(Racing') /\ Cardinality(Racing') <= Cardinality(Racing \ {t})
        /\ IsFiniteSet(Leaked') /\ Cardinality(Leaked') <= Cardinality(Leaked \cup {cache[node[t]]})
    BY <2>1, <2>3, <2>4, FS_Subset
  <2>6. /\ Cardinality(Leaked') \in Nat /\ Cardinality(Racing') \in Nat
        /\ Cardinality(Leaked \cup {cache[node[t]]}) \in Nat
    BY <2>4, <2>5, FS_CardinalityType
  <2> DEFINE bound == Cardinality(Taken) * (Cardinality(Threads) - 1)
  <2>7. bound \in Int
    BY Finite
  <2> HIDE DEF bound
  <2>8. Cardinality(Leaked) + Cardinality(Racing) <= bound
    BY DEF bound
  <2>9. Cardinality(Leaked') + Cardinality(Racing') <= bound
    BY <2>4, <2>5, <2>6, <2>7, <2>8, Finite
  <2> QED BY <2>2, <2>9 DEF bound
<1> QED BY <1>4, <1>5

\* No other step loses a mask or lets a call into the race.
LEMMA OtherLeak ==
  ASSUME TypeOK, TypeOK', Safe, [Next]_vars, phase' = "running", \A t \in Threads : ~Publish(t)
  PROVE  /\ Leaked' \subseteq Leaked /\ Racing' \subseteq Racing /\ Taken' = Taken
         /\ \E m : live' \subseteq live \cup {m}
<1> USE ConstantsAssumption
<1> USE DEF Safe, NodeInRange, HeldLive, HeldOnce, TypeOK, Holding, InNode, InCall, PCs
<1> DEFINE Keeps == /\ cache' = cache
                    /\ \E m : live' \subseteq live \cup {m}
                    /\ \A m \in live' :
                          (m \in live => \A u \in Threads : pc[u] \in Holding /\ mask[u] = m =>
                                           pc'[u] \in Holding /\ mask'[u] = m)
                          /\ (m \notin live => \E u \in Threads : pc'[u] \in Holding /\ mask'[u] = m)
                    /\ \A u \in Threads : pc'[u] = "publish" /\ cache[node'[u]] # NULL =>
                                         pc[u] = "publish" /\ node'[u] = node[u]
<1>1. ASSUME UNCHANGED vars \/ Environment PROVE Keeps
  BY <1>1 DEF Environment, Hotplug, ToggleReadable, StoresLand, Numa_node_to_cpu_update, Numa_fini,
              vars, shared, sysfs, locals
<1>2. ASSUME NEW t \in Threads, NEW n \in NodeArgs, NEW b \in Words, Call(t, n, b) PROVE Keeps
  BY <1>2 DEF Call, Goto, shared, sysfs
<1>3. ASSUME NEW t \in Threads, ThreadStep(t) PROVE Keeps
  <2> USE DEF Goto, Return
  <2>1. CASE \/ LoadArray(t) \/ InitArrayNoMemory(t) \/ RangeError(t) \/ ClearBuffer(t)
             \/ FetchStale(t) \/ NullArray(t) \/ SizeMismatch(t) \/ Hit(t) \/ Miss(t)
             \/ StartCopyOut(t) \/ CopyOut(t) \/ EndCopyOut(t) \/ OutOfMemory(t)
             \/ Init_node_cpu_mask_v2(t)
    <3>1. /\ UNCHANGED <<live, cache, mask, node>>
          /\ \E to \in PCs \ Holding : pc' = [pc EXCEPT ![t] = to] \/ pc' = pc
          /\ pc[t] \notin Holding
      BY <2>1 DEF LoadArray, InitArrayNoMemory, RangeError, ClearBuffer, FetchStale, NullArray,
           SizeMismatch, Hit, Miss, StartCopyOut, CopyOut, EndCopyOut, OutOfMemory,
           Init_node_cpu_mask_v2, NoArrayNoMasks, shared, sysfs, locals
    <3> QED BY <3>1
  <2>2. CASE ReadCpumap(t) \/ SaveOverwrite(t) \/ StartCopyIn(t) \/ CopyIn(t) \/ SavePublish(t)
    <3>1. /\ UNCHANGED <<live, cache, mask, node>> /\ pc[t] \in Holding /\ pc'[t] \in Holding
          /\ pc'[t] = "publish" => cache[node[t]] = NULL
          /\ \A u \in Threads : u # t => pc'[u] = pc[u]
      BY <2>2 DEF ReadCpumap, SaveOverwrite, StartCopyIn, CopyIn, SavePublish, shared, sysfs, locals
    <3> QED BY <3>1
  <2>3. CASE SaveDrop(t) \/ EndCopyIn(t)
    <3>1. /\ UNCHANGED <<cache, node>> /\ pc[t] \in Holding /\ pc' = [pc EXCEPT ![t] = "done"]
          /\ live' = live \ {mask[t]} /\ mask' = [mask EXCEPT ![t] = NULL]
      BY <2>3 DEF SaveDrop, EndCopyIn, DropMask
    <3> QED BY <3>1
  <2>4. ASSUME NEW m \in MaskIds, Numa_allocate_cpumask(t, m) PROVE Keeps
    <3>1. /\ UNCHANGED <<cache, node>> /\ pc[t] = "alloc" /\ pc' = [pc EXCEPT ![t] = "read"]
          /\ live' = live \cup {m} /\ m \notin live /\ mask' = [mask EXCEPT ![t] = m]
      BY <2>4 DEF Numa_allocate_cpumask
    <3> QED BY <3>1
  <2>5. CASE Leave(t)
    <3>1. /\ UNCHANGED <<live, cache, mask>> /\ pc[t] = "done" /\ pc' = [pc EXCEPT ![t] = "idle"]
          /\ node' = [node EXCEPT ![t] = 0]
      BY <2>5 DEF Leave, shared
    <3> QED BY <3>1
  <2> HIDE DEF Keeps
  <2> QED BY <1>3, <2>1, <2>2, <2>3, <2>4, <2>5 DEF ThreadStep
<1>4. Keeps
  <2> HIDE DEF Keeps
  <2> QED BY <1>1, <1>2, <1>3 DEF Next
<1>5. Leaked' \subseteq Leaked
  <2> SUFFICES ASSUME NEW m \in Leaked' PROVE m \in Leaked
    OBVIOUS
  <2>1. /\ m \in live' /\ \A n \in Nodes : cache'[n] # m
        /\ \A u \in Threads : pc'[u] \in Holding => mask'[u] # m
    <3>1. m \in live' /\ m # NULL
      BY DEF Leaked
    <3> QED BY <3>1 DEF Leaked, Published
  <2>2. m \in live
    BY <1>4, <2>1
  <2>3. \A u \in Threads : pc[u] \in Holding => mask[u] # m
    BY <1>4, <2>1, <2>2
  <2> QED BY <1>4, <2>1, <2>2, <2>3, LeakedMask
<1>6. Racing' \subseteq Racing /\ Taken' = Taken
  BY <1>4 DEF Racing, Taken
<1> QED BY <1>4, <1>5, <1>6

LEMMA NextLeak ==
  ASSUME IndInv, LeakInv, [Next]_vars
  PROVE  LeakInv'
<1>1. TypeOK /\ TypeOK' /\ Safe /\ IsFiniteSet(live)
  BY NextTypeOK, SafeIsIndInv DEF IndInv, LeakInv
<1>2. \E m : live' \subseteq live \cup {m}
  BY DEF Next, ThreadStep, Environment, Call, Hotplug, ToggleReadable, StoresLand,
       Numa_node_to_cpu_update, Numa_fini, LoadArray, Init_node_cpu_mask_v2, InitArrayNoMemory,
       RangeError, ClearBuffer, FetchStale, NullArray, SizeMismatch, Hit, Miss, StartCopyOut,
       CopyOut, EndCopyOut, Numa_allocate_cpumask, OutOfMemory, ReadCpumap, SaveOverwrite,
       SaveDrop, SavePublish, StartCopyIn, CopyIn, EndCopyIn, Publish, Leave, DropMask, shared, vars
<1>3. IsFiniteSet(live')
  <2>1. PICK m : live' \subseteq live \cup {m}
    BY <1>2
  <2>2. IsFiniteSet(live \cup {m})
    BY <1>1, FS_AddElement
  <2> QED BY <2>1, <2>2, FS_Subset
<1>4. ASSUME phase' = "running"
      PROVE  Cardinality(Leaked') + Cardinality(Racing')
                <= Cardinality(Taken') * (Cardinality(Threads) - 1)
  <2>1. phase = "running"
    <3>1. CASE UNCHANGED vars
      BY <1>4, <3>1 DEF vars, shared
    <3>2. CASE Environment
      BY <1>4, <3>2 DEF Environment, Hotplug, ToggleReadable, StoresLand, Numa_node_to_cpu_update,
                        Numa_fini
    <3>3. ASSUME NEW t \in Threads, NEW n \in NodeArgs, NEW b \in Words, Call(t, n, b)
          PROVE  phase = "running"
      BY <3>3 DEF Call, Goto
    <3>4. ASSUME NEW t \in Threads, ThreadStep(t) PROVE phase = "running"
      BY <3>4 DEF ThreadStep, LoadArray, Init_node_cpu_mask_v2, InitArrayNoMemory, RangeError,
         ClearBuffer, FetchStale, NullArray, SizeMismatch, Hit, Miss, StartCopyOut, CopyOut,
         EndCopyOut, Numa_allocate_cpumask, OutOfMemory, ReadCpumap, SaveOverwrite, SaveDrop,
         SavePublish, StartCopyIn, CopyIn, EndCopyIn, Publish, Leave, Return, Goto
    <3> QED BY <3>1, <3>2, <3>3, <3>4 DEF Next
  <2>2. Cardinality(Leaked) + Cardinality(Racing) <= Cardinality(Taken) * (Cardinality(Threads) - 1)
    BY <2>1 DEF LeakInv
  <2>3. CASE \E t \in Threads : Publish(t)
    BY <1>1, <2>2, <2>3, PublishLeak
  <2>4. CASE \A t \in Threads : ~Publish(t)
    BY <1>1, <1>4, <2>2, <2>4, OtherLeak, LeaksFewer
  <2> QED BY <2>3, <2>4
<1> QED BY <1>3, <1>4 DEF LeakInv

LEMMA InitLeak == Init => LeakInv
<1> SUFFICES ASSUME Init PROVE LeakInv
  OBVIOUS
<1>1. live = {} /\ Leaked = {} /\ Racing = {} /\ Taken = {}
  BY DEF Init, Leaked, Racing, Taken
<1>2. IsFiniteSet(live) /\ Cardinality(Leaked) = 0 /\ Cardinality(Racing) = 0 /\ Cardinality(Taken) = 0
  BY <1>1, FS_EmptySet
<1>3. Cardinality(Threads) \in Nat
  BY ConstantsAssumption, FS_CardinalityType
<1> QED BY <1>2, <1>3 DEF LeakInv

\* The plain store of numa_node_to_cpus_v2 that publishes a mask may lose the one
\* of another call, but never more than one for every thread but one and every
\* node, however long the process runs and calls.
THEOREM LeakIsBounded == Spec => []LeakBound
<1>1. IndInv /\ LeakInv => LeakBound
  <2> SUFFICES ASSUME IndInv, LeakInv, phase = "running"
               PROVE  Cardinality(Leaked) <= (MaxNode + 1) * (Cardinality(Threads) - 1)
    BY DEF LeakBound
  <2> DEFINE l == Cardinality(Leaked)
             r == Cardinality(Racing)
             n == Cardinality(Taken)
             k == Cardinality(Threads) - 1
  <2>1. l \in Nat /\ r \in Nat /\ n \in Nat /\ k \in Nat /\ n <= MaxNode + 1 /\ l + r <= n * k
    BY Finite DEF IndInv, LeakInv
  <2> HIDE DEF l, r, n, k
  <2>2. n * k <= (MaxNode + 1) * k
    BY <2>1, ConstantsAssumption
  <2>3. l <= (MaxNode + 1) * k
    <3>1. n * k \in Int /\ (MaxNode + 1) * k \in Int
      BY <2>1, ConstantsAssumption
    <3> QED BY <2>1, <2>2, <3>1
  <2> QED BY <2>3 DEF l, k
<1>2. IndInv /\ LeakInv /\ [Next]_vars => LeakInv'
  BY NextLeak
<1> QED BY <1>1, <1>2, InitLeak, IndInvInit, IndInvNext, PTL DEF Spec
=============================================================================
