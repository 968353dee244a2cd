---------------------------- MODULE NodeCpuCache ----------------------------
(***************************************************************************)
(* The node -> CPUs cache of libnuma (libnuma.c): the array                *)
(* node_cpu_mask_v2 of published bitmasks, the flag node_cpu_mask_v2_stale *)
(* and numa_node_to_cpus_v2, which any number of threads call at once      *)
(* without a lock, while sysfs changes under them (CPU hotplug) and        *)
(* somebody calls numa_node_to_cpu_update.  A thread step is one access to *)
(* shared memory; a copy between masks is one step per word.               *)
(***************************************************************************)
EXTENDS Integers, FiniteSets

CONSTANTS Threads,     \* the threads of the process
          MaxNode,     \* numa_max_node()
          MaskIds,     \* the addresses the allocator can hand out
          NULL,        \* the null pointer, not an address
          NWords,      \* words of a cpu mask
          StoreReorder,\* the machine may show a store to another thread late
          MaxVersion,  \* bound on the hotplug events of one node
          MaxCalls     \* bound on the calls of one thread

ASSUME ConstantsAssumption ==
    /\ IsFiniteSet(Threads) /\ Threads # {}
    /\ MaxNode \in Nat
    /\ NULL \notin MaskIds \cup Threads
    /\ NWords \in Nat \ {0}
    /\ StoreReorder \in BOOLEAN
    /\ MaxVersion \in Nat
    /\ MaxCalls \in Nat

Nodes == 0 .. MaxNode
NodeArgs == -1 .. MaxNode + 1          \* what a caller may pass as `node'
Words == 1 .. NWords

\* What a word of a mask holds, abstracted to where it came from: a version of
\* the node's cpumap file, the all-ones mask of a failed read, or zero.
Versions == 0 .. MaxVersion
Faulty == -1
Zero == -2
Contents == Versions \cup {Faulty, Zero}
BlankMask == [w \in Words |-> Zero]

PCs == {"idle", "load", "init", "range", "fetch", "lookup", "hit", "copyout",
        "alloc", "read", "save", "overwrite", "copyin", "publish", "done"}
Results == {"none", "ok", "fail", "ERANGE", "EINVAL"}

VARIABLES
    \* the process
    phase,      \* "running", "exited" (exit or fini), "crashed" (SIGSEGV)
    array,      \* node_cpu_mask_v2 # NULL
    cache,      \* node_cpu_mask_v2[n]
    stale,      \* node_cpu_mask_v2_stale
    live,       \* allocated masks
    content,    \* the words of every mask
    pending,    \* the thread whose stores to mask m others may not see yet
    nomem,      \* history: a calloc of the array has failed
    \* sysfs
    sys,        \* version of node n's cpumap file
    readable,   \* the file can be opened, read and parsed
    asked,      \* history: sys[n] when an update was last requested
    \* the locals of a numa_node_to_cpus_v2 call
    pc, node, blen, update, mask, ptr, err, buf, word, result,
    want,       \* history: asked[node] when the call fetched the flag
    calls       \* calls started, to bound them

shared == <<phase, array, cache, stale, live, content, pending, nomem>>
sysfs == <<sys, readable, asked>>
locals == <<node, blen, update, mask, ptr, err, buf, word, result, want, calls>>
vars == <<shared, sysfs, pc, locals>>

Init ==
    /\ phase = "running"
    /\ array = FALSE
    /\ cache = [n \in Nodes |-> NULL]
    /\ stale = TRUE
    /\ live = {}
    /\ content = [m \in MaskIds |-> BlankMask]
    /\ pending = [m \in MaskIds |-> NULL]
    /\ nomem = FALSE
    /\ sys = [n \in Nodes |-> 0]
    /\ readable \in [Nodes -> BOOLEAN]
    /\ asked = [n \in Nodes |-> 0]
    /\ pc = [t \in Threads |-> "idle"]
    /\ node = [t \in Threads |-> 0]
    /\ blen = [t \in Threads |-> NWords]
    /\ update = [t \in Threads |-> FALSE]
    /\ mask = [t \in Threads |-> NULL]
    /\ ptr = [t \in Threads |-> NULL]
    /\ err = [t \in Threads |-> FALSE]
    /\ buf = [t \in Threads |-> BlankMask]
    /\ word = [t \in Threads |-> 1]
    /\ result = [t \in Threads |-> "none"]
    /\ want = [t \in Threads |-> 0]
    /\ calls = [t \in Threads |-> 0]

----------------------------------------------------------------------------
(* The environment. *)

\* CPU hotplug on node n: the kernel serves another cpumap.
Hotplug(n) ==
    /\ phase = "running" /\ sys[n] < MaxVersion
    /\ sys' = [sys EXCEPT ![n] = @ + 1]
    /\ UNCHANGED <<shared, readable, asked, pc, locals>>

\* The directory of node n comes and goes, or its map gets too long to parse.
ToggleReadable(n) ==
    /\ phase = "running"
    /\ readable' = [readable EXCEPT ![n] = ~@]
    /\ UNCHANGED <<shared, sys, asked, pc, locals>>

\* The stores to mask m become visible to every thread.
StoresLand(m) ==
    /\ phase = "running" /\ pending[m] # NULL
    /\ pending' = [pending EXCEPT ![m] = NULL]
    /\ UNCHANGED <<phase, array, cache, stale, live, content, nomem, sysfs, pc, locals>>

Numa_node_to_cpu_update ==
    /\ phase = "running"
    /\ stale' = TRUE
    /\ asked' = sys
    /\ UNCHANGED <<phase, array, cache, live, content, pending, nomem, sys, readable,
                   pc, locals>>

Published == {cache[n] : n \in Nodes} \ {NULL}

\* The destructor, once no thread is in the library.
Numa_fini ==
    /\ phase = "running" /\ \A t \in Threads : pc[t] = "idle"
    /\ phase' = "exited"
    /\ live' = live \ Published
    /\ cache' = [n \in Nodes |-> NULL]
    /\ array' = FALSE
    /\ UNCHANGED <<stale, content, pending, nomem, sysfs, pc, locals>>

----------------------------------------------------------------------------
(* numa_node_to_cpus_v2, one step per access to shared memory. *)

Goto(t, from, to) ==
    /\ phase = "running" /\ pc[t] = from
    /\ pc' = [pc EXCEPT ![t] = to]

Return(t, from, r) ==
    /\ Goto(t, from, "done")
    /\ result' = [result EXCEPT ![t] = r]

\* Mutant: the failure is reported with a code of its own.
OutcomeOwnCode(t) == IF err[t] THEN "EIO" ELSE "ok"

Outcome(t) == IF err[t] THEN "fail" ELSE "ok"

\* Mutant: the mask that lost the race is not freed.
DropMaskLeak(t) ==
    /\ mask' = [mask EXCEPT ![t] = NULL]
    /\ UNCHANGED <<live, content, pending>>

\* Free the private mask of t and forget it.  What freed memory holds does not
\* matter as long as nobody reads it (MemorySafety), so it is blanked.
DropMask(t) ==
    /\ live' = live \ {mask[t]}
    /\ content' = [content EXCEPT ![mask[t]] = BlankMask]
    /\ pending' = [pending EXCEPT ![mask[t]] = NULL]
    /\ mask' = [mask EXCEPT ![t] = NULL]

Call(t, n, b) ==
    /\ Goto(t, "idle", "load")
    /\ calls[t] < MaxCalls
    /\ calls' = [calls EXCEPT ![t] = @ + 1]
    /\ node' = [node EXCEPT ![t] = n]
    /\ blen' = [blen EXCEPT ![t] = b]
    /\ UNCHANGED <<shared, sysfs, update, mask, ptr, err, buf, word, result, want>>

LoadArray(t) ==
    /\ Goto(t, "load", IF array THEN "range" ELSE "init")
    /\ UNCHANGED <<shared, sysfs, locals>>

\* Mutant: a plain store of the new array.
InitArrayStore(t) ==
    /\ Goto(t, "init", "range")
    /\ array' = TRUE
    /\ cache' = [n \in Nodes |-> NULL]
    /\ UNCHANGED <<phase, stale, live, content, pending, nomem, sysfs, locals>>

\* calloc and the compare-and-exchange that keeps an array another thread
\* installed in the meantime.
Init_node_cpu_mask_v2(t) ==
    /\ Goto(t, "init", "range")
    /\ array' = TRUE
    /\ cache' = IF array THEN cache ELSE [n \in Nodes |-> NULL]
    /\ UNCHANGED <<phase, stale, live, content, pending, nomem, sysfs, locals>>

\* Mutant: the allocation is retried until it succeeds.
InitArrayRetry(t) ==
    /\ Goto(t, "init", "load")
    /\ nomem' = TRUE
    /\ UNCHANGED <<phase, array, cache, stale, live, content, pending, sysfs, locals>>

\* The calloc fails and the call goes on without an array of its own.
InitArrayNoMemory(t) ==
    /\ Goto(t, "init", "range")
    /\ nomem' = TRUE
    /\ UNCHANGED <<phase, array, cache, stale, live, content, pending, sysfs, locals>>

RangeError(t) ==
    /\ node[t] \notin Nodes
    /\ Return(t, "range", "ERANGE")
    /\ UNCHANGED <<shared, sysfs, node, blen, update, mask, ptr, err, buf, word, want, calls>>

\* Clear the caller's buffer.
ClearBuffer(t) ==
    /\ node[t] \in Nodes
    /\ Goto(t, "range", "fetch")
    /\ buf' = [buf EXCEPT ![t] = BlankMask]
    /\ UNCHANGED <<shared, sysfs, node, blen, update, mask, ptr, err, word, result, want, calls>>

\* The atomic exchange of the stale flag.
FetchStale(t) ==
    /\ Goto(t, "fetch", "lookup")
    /\ update' = [update EXCEPT ![t] = stale]
    /\ stale' = FALSE
    /\ want' = [want EXCEPT ![t] = asked[node[t]]]
    /\ UNCHANGED <<phase, array, cache, live, content, pending, nomem, sysfs,
                   node, blen, mask, ptr, err, buf, word, result, calls>>

\* Mutant: the flag is ignored.
CanHitAlways(t) == cache[node[t]] # NULL

CanHit(t) == cache[node[t]] # NULL /\ ~update[t]

\* Indexing an array that was never allocated.
NullArray(t) ==
    /\ phase = "running" /\ pc[t] = "lookup" /\ ~array
    /\ phase' = "crashed"
    /\ UNCHANGED <<array, cache, stale, live, content, pending, nomem, sysfs, pc, locals>>

\* A cached mask, and the caller's buffer is too short for it.
SizeMismatch(t) ==
    /\ Return(t, "lookup", "EINVAL")
    /\ array /\ CanHit(t) /\ blen[t] < NWords
    /\ UNCHANGED <<shared, sysfs, node, blen, update, mask, ptr, err, buf, word, want, calls>>

Hit(t) ==
    /\ Goto(t, "lookup", "hit")
    /\ array /\ CanHit(t) /\ blen[t] >= NWords
    /\ UNCHANGED <<shared, sysfs, locals>>

Miss(t) ==
    /\ Goto(t, "lookup", "alloc")
    /\ array /\ ~CanHit(t)
    /\ UNCHANGED <<shared, sysfs, locals>>

\* The slot is read again for the copy.
StartCopyOut(t) ==
    /\ Goto(t, "hit", "copyout")
    /\ ptr' = [ptr EXCEPT ![t] = cache[node[t]]]
    /\ word' = [word EXCEPT ![t] = 1]
    /\ UNCHANGED <<shared, sysfs, node, blen, update, mask, err, buf, result, want, calls>>

\* What thread t may read from word w of mask m.
Readable(t, m, w) ==
    {content[m][w]} \cup (IF pending[m] \in {NULL, t} THEN {} ELSE {Zero})

CopyOut(t) ==
    /\ phase = "running" /\ pc[t] = "copyout" /\ word[t] <= NWords
    /\ \E c \in Readable(t, ptr[t], word[t]) : buf' = [buf EXCEPT ![t][word[t]] = c]
    /\ word' = [word EXCEPT ![t] = @ + 1]
    /\ UNCHANGED <<shared, sysfs, pc, node, blen, update, mask, ptr, err, result, want, calls>>

\* Mutant: the copy stops one word early.
EndCopyOutEarly(t) ==
    /\ word[t] >= NWords
    /\ Return(t, "copyout", "ok")
    /\ ptr' = [ptr EXCEPT ![t] = NULL]
    /\ UNCHANGED <<shared, sysfs, node, blen, update, mask, err, buf, word, want, calls>>

EndCopyOut(t) ==
    /\ word[t] > NWords
    /\ Return(t, "copyout", "ok")
    /\ ptr' = [ptr EXCEPT ![t] = NULL]
    /\ UNCHANGED <<shared, sysfs, node, blen, update, mask, err, buf, word, want, calls>>

Numa_allocate_cpumask(t, m) ==
    /\ m \notin live
    /\ Goto(t, "alloc", "read")
    /\ mask' = [mask EXCEPT ![t] = m]
    /\ live' = live \cup {m}
    /\ content' = [content EXCEPT ![m] = BlankMask]
    /\ pending' = [pending EXCEPT ![m] = NULL]
    /\ UNCHANGED <<phase, array, cache, stale, nomem, sysfs,
                   node, blen, update, ptr, err, buf, word, result, want, calls>>

\* numa_bitmask_alloc ends the process when memory runs out.
OutOfMemory(t) ==
    /\ phase = "running" /\ pc[t] = "alloc"
    /\ phase' = "exited"
    /\ UNCHANGED <<array, cache, stale, live, content, pending, nomem, sysfs, pc, locals>>

\* Read and parse the cpumap file, or take all CPUs and an error, into the
\* private mask, then copy as much as fits to the caller's buffer.
ReadCpumap(t) ==
    LET c == IF readable[node[t]] THEN sys[node[t]] ELSE Faulty
    IN  /\ Goto(t, "read", "save")
        /\ err' = [err EXCEPT ![t] = ~readable[node[t]]]
        /\ content' = [content EXCEPT ![mask[t]] = [w \in Words |-> c]]
        /\ pending' = [pending EXCEPT ![mask[t]] = IF StoreReorder THEN t ELSE NULL]
        /\ buf' = [buf EXCEPT ![t] = [w \in Words |-> IF w <= blen[t] THEN c ELSE Zero]]
        /\ UNCHANGED <<phase, array, cache, stale, live, nomem, sysfs,
                       node, blen, update, mask, ptr, word, result, want, calls>>

\* The slot is taken and the flag was set: go on to overwrite it in place.
SaveOverwrite(t) ==
    /\ Goto(t, "save", "overwrite")
    /\ cache[node[t]] # NULL /\ update[t]
    /\ UNCHANGED <<shared, sysfs, locals>>

\* The slot is taken, or the mask is faulty: throw the mask away.
SaveDrop(t) ==
    /\ Return(t, "save", Outcome(t))
    /\ IF cache[node[t]] # NULL THEN ~update[t] ELSE err[t]
    /\ DropMask(t)
    /\ UNCHANGED <<phase, array, cache, stale, nomem, sysfs,
                   node, blen, update, ptr, err, buf, word, want, calls>>

\* Mutant: the error of the read is not looked at.
SavePublishAny(t) ==
    /\ Goto(t, "save", "publish")
    /\ cache[node[t]] = NULL
    /\ UNCHANGED <<shared, sysfs, locals>>

SavePublish(t) ==
    /\ Goto(t, "save", "publish")
    /\ cache[node[t]] = NULL /\ ~err[t]
    /\ UNCHANGED <<shared, sysfs, locals>>

StartCopyIn(t) ==
    /\ Goto(t, "overwrite", "copyin")
    /\ ptr' = [ptr EXCEPT ![t] = cache[node[t]]]
    /\ word' = [word EXCEPT ![t] = 1]
    /\ UNCHANGED <<shared, sysfs, node, blen, update, mask, err, buf, result, want, calls>>

CopyIn(t) ==
    /\ phase = "running" /\ pc[t] = "copyin" /\ word[t] <= NWords
    /\ content' = [content EXCEPT ![ptr[t]][word[t]] = content[mask[t]][word[t]]]
    /\ word' = [word EXCEPT ![t] = @ + 1]
    /\ UNCHANGED <<phase, array, cache, stale, live, pending, nomem, sysfs, pc,
                   node, blen, update, mask, ptr, err, buf, result, want, calls>>

EndCopyIn(t) ==
    /\ word[t] > NWords
    /\ Return(t, "copyin", Outcome(t))
    /\ DropMask(t)
    /\ ptr' = [ptr EXCEPT ![t] = NULL]
    /\ UNCHANGED <<phase, array, cache, stale, nomem, sysfs,
                   node, blen, update, err, buf, word, want, calls>>

\* Mutant: the mask found in the slot is freed, so that no race leaks one.
PublishFreeOld(t) ==
    /\ Return(t, "publish", "ok")
    /\ live' = live \ {cache[node[t]]}
    /\ cache' = [cache EXCEPT ![node[t]] = mask[t]]
    /\ mask' = [mask EXCEPT ![t] = NULL]
    /\ UNCHANGED <<phase, array, stale, content, pending, nomem, sysfs,
                   node, blen, update, ptr, err, buf, word, want, calls>>

\* The plain store that shares the mask with every later call.
Publish(t) ==
    /\ Return(t, "publish", "ok")
    /\ cache' = [cache EXCEPT ![node[t]] = mask[t]]
    /\ mask' = [mask EXCEPT ![t] = NULL]
    /\ UNCHANGED <<phase, array, stale, live, content, pending, nomem, sysfs,
                   node, blen, update, ptr, err, buf, word, want, calls>>

\* The caller takes the answer; the locals of the call are gone.
Leave(t) ==
    /\ Goto(t, "done", "idle")
    /\ node' = [node EXCEPT ![t] = 0]
    /\ blen' = [blen EXCEPT ![t] = NWords]
    /\ result' = [result EXCEPT ![t] = "none"]
    /\ buf' = [buf EXCEPT ![t] = BlankMask]
    /\ update' = [update EXCEPT ![t] = FALSE]
    /\ err' = [err EXCEPT ![t] = FALSE]
    /\ word' = [word EXCEPT ![t] = 1]
    /\ want' = [want EXCEPT ![t] = 0]
    /\ UNCHANGED <<shared, sysfs, mask, ptr, calls>>

ThreadStep(t) ==
    \/ LoadArray(t) \/ Init_node_cpu_mask_v2(t) \/ InitArrayNoMemory(t)
    \/ RangeError(t) \/ ClearBuffer(t) \/ FetchStale(t)
    \/ NullArray(t) \/ SizeMismatch(t) \/ Hit(t) \/ Miss(t)
    \/ StartCopyOut(t) \/ CopyOut(t) \/ EndCopyOut(t)
    \/ \E m \in MaskIds : Numa_allocate_cpumask(t, m)
    \/ OutOfMemory(t) \/ ReadCpumap(t)
    \/ SaveOverwrite(t) \/ SaveDrop(t) \/ SavePublish(t)
    \/ StartCopyIn(t) \/ CopyIn(t) \/ EndCopyIn(t) \/ Publish(t) \/ Leave(t)

Environment ==
    \/ \E n \in Nodes : Hotplug(n) \/ ToggleReadable(n)
    \/ \E m \in MaskIds : StoresLand(m)
    \/ Numa_node_to_cpu_update
    \/ Numa_fini

Next ==
    \/ \E t \in Threads : ThreadStep(t)
    \/ \E t \in Threads, n \in NodeArgs, b \in Words : Call(t, n, b)
    \/ Environment

Spec == Init /\ [][Next]_vars

\* No thread waits for another: each one that keeps being scheduled moves on.
FairSpec == Spec /\ \A t \in Threads : WF_vars(ThreadStep(t))
----------------------------------------------------------------------------
(* Properties. *)

Holding == {"read", "save", "overwrite", "copyin", "publish"}
Copying == {"copyout", "copyin"}

TypeOK ==
    /\ phase \in {"running", "exited", "crashed"}
    /\ array \in BOOLEAN /\ stale \in BOOLEAN /\ nomem \in BOOLEAN
    /\ cache \in [Nodes -> MaskIds \cup {NULL}]
    /\ live \in SUBSET MaskIds
    /\ content \in [MaskIds -> [Words -> Contents]]
    /\ pending \in [MaskIds -> Threads \cup {NULL}]
    /\ sys \in [Nodes -> Versions]
    /\ readable \in [Nodes -> BOOLEAN]
    /\ asked \in [Nodes -> Versions]
    /\ pc \in [Threads -> PCs]
    /\ node \in [Threads -> NodeArgs]
    /\ blen \in [Threads -> Words]
    /\ update \in [Threads -> BOOLEAN]
    /\ mask \in [Threads -> MaskIds \cup {NULL}]
    /\ ptr \in [Threads -> MaskIds \cup {NULL}]
    /\ err \in [Threads -> BOOLEAN]
    /\ buf \in [Threads -> [Words -> Contents]]
    /\ word \in [Threads -> 1 .. NWords + 1]
    /\ result \in [Threads -> Results]
    /\ want \in [Threads -> Versions]
    /\ calls \in [Threads -> 0 .. MaxCalls]

\* Whatever the interleaving, no mask is used after free: published masks,
\* the shared mask a copy reads or writes, and the private mask of a call are
\* all allocated.
MemorySafety ==
    /\ Published \subseteq live
    /\ \A t \in Threads : pc[t] \in Copying => ptr[t] \in live
    /\ \A t \in Threads : pc[t] \in Holding => mask[t] \in live

\* A mask a call is still filling or is about to free is seen by no other
\* thread: not through the cache, not through a copy in progress, and no other
\* call owns it.
PrivateMask ==
    \A t \in Threads : pc[t] \in Holding =>
        /\ mask[t] \notin Published
        /\ \A u \in Threads : pc[u] \in Copying => ptr[u] # mask[t]
        /\ \A u \in Threads \ {t} : pc[u] \in Holding => mask[u] # mask[t]

\* The array is dereferenced while NULL only after a calloc of it failed: two
\* threads racing to install it never leave a caller without one.
CrashOnlyWithoutMemory == phase = "crashed" => nomem

\* All three at once: the unlocked cache of numa_node_to_cpus_v2 is memory safe.
MasksSafe == MemorySafety /\ PrivateMask /\ CrashOnlyWithoutMemory

Leaked == live \ (Published \cup {mask[t] : t \in {u \in Threads : pc[u] \in Holding}})

\* The unlocked publication can lose a mask, but a bounded number of them: per
\* node at most one for every thread but one ("the races are relatively
\* harmless").
LeakBound ==
    phase = "running" =>
        Cardinality(Leaked) <= (MaxNode + 1) * (Cardinality(Threads) - 1)

\* numa.3, thread safety: a successful call has filled every word of the
\* buffer, be it from the cache or from sysfs.  It holds where stores are seen in
\* order; with StoreReorder the plain store of the mask may overtake its words.
AnswerComplete ==
    \A t \in Threads : result[t] = "ok" => \A w \in 1 .. blen[t] : buf[t][w] # Zero

\* The call that consumed the stale flag answers with a map no older than the
\* last numa_node_to_cpu_update before it.
FreshForConsumer ==
    \A t \in Threads :
        result[t] = "ok" /\ update[t] => \A w \in 1 .. blen[t] : buf[t][w] >= want[t]

SlotsStep == phase' # "exited" => \A n \in Nodes : cache[n] # NULL => cache'[n] # NULL

\* A node that has a cached mask keeps having one until the library is torn
\* down: neither an update nor a second array makes it vanish.
SlotsKept == [][SlotsStep]_vars

FirstPublishStep ==
    \A n \in Nodes : cache[n] = NULL /\ cache'[n] # NULL =>
        \A w \in Words : content'[cache'[n]][w] \in Versions

\* The first mask cached for a node was read from sysfs without error.
FirstPublishGood == [][FirstPublishStep]_vars

\* Every call returns, unless the process ends first: no thread waits for
\* another one.
CallsReturn ==
    \A t \in Threads : pc[t] = "load" ~> (pc[t] = "done" \/ phase # "running")

----------------------------------------------------------------------------
(* What the documentation and the comments say, and the code does not do. *)

\* The comment in numa_node_to_cpus_v2: a faulty result is not cached.
FaultyNotCached ==
    \A n \in Nodes : cache[n] # NULL => \A w \in Words : content[cache[n]][w] # Faulty
----------------------------------------------------------------------------
(* The inductive invariant behind the theorems of NodeCpuCacheProofs. *)

InCall == PCs \ {"idle", "load", "init", "done"}
InNode == InCall \ {"range"}

\* A call past the range check works on a valid node.
NodeInRange == \A t \in Threads : pc[t] \in InNode => node[t] \in Nodes

\* A slot seen non-NULL stays so while the call goes on to use it.
SlotStillThere ==
    \A t \in Threads : pc[t] \in {"hit", "overwrite"} => cache[node[t]] # NULL

NoArrayNoMasks == ~array => cache = [n \in Nodes |-> NULL]

Indexing == InNode \ {"fetch", "lookup"}

\* A call past the installation has an array, unless the calloc failed; past
\* the first use of the array there is one.
ArrayOrNoMemory ==
    /\ \A t \in Threads : pc[t] \in Indexing => array
    /\ \A t \in Threads : pc[t] \in InCall => array \/ nomem
    /\ CrashOnlyWithoutMemory

IndInv ==
    /\ TypeOK
    /\ NodeInRange
    /\ SlotStillThere
    /\ NoArrayNoMasks
    /\ ArrayOrNoMemory
    /\ MemorySafety
    /\ PrivateMask

\* Between the read of the cpumap and the end of the call.
Filled == Holding \ {"read"}

\* Every word of a mask that others can reach has been stored, and a mask that a
\* call has filled holds what the call read.
MasksWhole ==
    /\ \A n \in Nodes : cache[n] # NULL => \A w \in Words : content[cache[n]][w] # Zero
    /\ \A t \in Threads : pc[t] \in Copying => \A w \in Words : content[ptr[t]][w] # Zero
    /\ \A t \in Threads : pc[t] \in Filled =>
          \A w \in Words : IF err[t] THEN content[mask[t]][w] = Faulty
                                     ELSE content[mask[t]][w] \in Versions
    /\ \A t \in Threads : pc[t] = "publish" => ~err[t]

StoresInOrder == ~StoreReorder => \A m \in MaskIds : pending[m] = NULL

\* No update asks for a map that sysfs does not have yet.
WantOld ==
    /\ \A n \in Nodes : asked[n] <= sys[n]
    /\ \A t \in Threads : pc[t] \in InNode \ {"fetch"} => want[t] <= sys[node[t]]

\* How far the buffer of a call is filled, and from where.
BufferSoFar ==
    \A t \in Threads :
        /\ pc[t] \in {"hit", "copyout"} => ~update[t]
        /\ pc[t] = "copyout" /\ ~StoreReorder =>
              \A w \in Words : w < word[t] => buf[t][w] # Zero
        /\ pc[t] \in Filled =>
              \A w \in 1 .. blen[t] : IF err[t] THEN buf[t][w] = Faulty ELSE buf[t][w] >= want[t]

\* Only a call that is done has a result.
Answered ==
    \A t \in Threads :
        /\ result[t] # "none" => pc[t] = "done"
        /\ result[t] = "ok" /\ ~StoreReorder => \A w \in 1 .. blen[t] : buf[t][w] # Zero
        /\ result[t] = "ok" /\ update[t] => \A w \in 1 .. blen[t] : buf[t][w] >= want[t]

AnswerInv == MasksWhole /\ StoresInOrder /\ WantOld /\ BufferSoFar /\ Answered

\* Calls that saw an empty slot another call has filled since: each of them will
\* replace a mask that nobody frees.
Racing == {t \in Threads : pc[t] = "publish" /\ cache[node[t]] # NULL}
Taken == {n \in Nodes : cache[n] # NULL}

LeakInv ==
    /\ IsFiniteSet(live)
    /\ phase = "running" =>
          Cardinality(Leaked) + Cardinality(Racing) <= Cardinality(Taken) * (Cardinality(Threads) - 1)
=============================================================================
