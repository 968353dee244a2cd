--------------------------- MODULE NumactlProofs ---------------------------
(* Safety of the numactl command for every number of nodes and options, every *)
(* cpuset, kernel and state of the shared memory; then that it gets what its  *)
(* options ask for.                                                           *)
EXTENDS Numactl, FiniteSetTheorems, WellFoundedInduction, TLAPS

USE DEF Unset, None

LEMMA SpecNodes ==
  ASSUME TypeOK, NEW S \in Specs
  PROVE  /\ Spec_of(S) \in Specs
         /\ Parses(S) => Spec_of(S) \in SUBSET Nodes
BY DEF TypeOK, Specs, Spec_of, Parses, Same

LEMMA NoSpec == NULL \in Specs /\ {} \in Specs /\ \A nodes \in SUBSET Nodes : nodes \in Specs
BY DEF Specs, Same

\* mbind changes policies only.
LEMMA BoundKeeps ==
  ASSUME TypeOK, attached, NEW policy \in Policies
  PROVE  /\ Bound(policy) \in Contents
         /\ \A o \in Objects : Bound(policy)[o].size = seg[o].size
<1> DEFINE new == [p \in Pages |-> IF p \in Region
                       THEN Policy(policy.mode, policy.nodes \cap Allowed)
                       ELSE seg[shmfd].pol[p]]
<1>1. shmfd \in Objects /\ seg[shmfd].pol \in [Pages -> Policies]
  BY DEF TypeOK, attached, Contents
<1>2. Policy(policy.mode, policy.nodes \cap Allowed) \in Policies
  BY DEF Policies, Policy
<1>3. new \in [Pages -> Policies]
  BY <1>1, <1>2
<1>4. Bound(policy) = [seg EXCEPT ![shmfd].pol = new]
  BY <1>1 DEF Bound, TypeOK, Contents
<1> HIDE DEF new
<1> QED BY <1>1, <1>3, <1>4 DEF TypeOK, Contents

\* Touching changes the places of pages only.
LEMMA TouchKeeps ==
  ASSUME TypeOK, attached, NEW h \in [Pages -> Nodes \cup {None}]
  PROVE  /\ WithHome(h) \in Contents
         /\ \A o \in Objects : WithHome(h)[o].size = seg[o].size
<1>1. shmfd \in Objects BY DEF TypeOK, attached
<1> QED BY <1>1 DEF TypeOK, Contents, WithHome

LEMMA ResizeKeeps ==
  ASSUME TypeOK, NEW o \in Objects, NEW n \in 0 .. MaxObject
  PROVE  /\ Resize(o, n) \in Contents
         /\ Resize(o, n)[o].size = n
         /\ \A x \in Objects \ {o} : Resize(o, n)[x].size = seg[x].size
BY DEF TypeOK, Contents, Resize

\* The process is gone, with whatever it had attached.
LEMMA FailStep ==
  ASSUME Fail, TaskGone, seg' \in Contents, nopts' \in 0 .. MaxOpts
  PROVE  IndInv'
<1>1. ~attached' /\ phase' = "failed" /\ pol' = Default
  BY DEF Fail, TaskGone, attached
<1>2. PolicyRecorded' /\ SegmentNotProcess' /\ RegionBacked'
  BY <1>1 DEF PolicyRecorded, SegmentNotProcess, RegionBacked
<1>3. Default \in Policies /\ NoWish.nodes = {}
  BY DEF Default, Policy, Policies, Modes, NoWish
<1>4. 0 \in 0 .. SizeMax
  BY ShmAssumption
<1>5. CpusAllowed \in SUBSET Cpus
  BY NumactlAssumption
<1>6. TypeOK'
  BY <1>3, <1>4, <1>5, NoSpec DEF Fail, TaskGone, TypeOK
<1> QED BY <1>2, <1>6 DEF IndInv

LEMMA RefuseStep ==
  ASSUME IndInv, NEW o, Option(o), Refuse
  PROVE  IndInv'
BY FailStep, NumactlAssumption DEF Refuse, Option, IndInv, TypeOK
\* A policy for the region or for the process.
LEMMA ApplyStep ==
  ASSUME IndInv, NEW o, Option(o),
         NEW nodes \in SUBSET Nodes, NEW policy \in Modes, NEW rp \in Policies, NEW pp \in Policies,
         set_policy = Unset,
         mask' \in Specs, last' \in Specs, did_node_cpu_parse' \in BOOLEAN,
         Apply(o, nodes, policy, rp, pp)
  PROVE  IndInv'
<1> USE DEF IndInv
<1>1. nopts' \in 0 .. MaxOpts /\ phase = "options" /\ phase' = phase
  BY NumactlAssumption DEF Option, TypeOK, Apply
<1>2. UNCHANGED <<process, phase, flags, affinity, bound>> /\ set_policy' = policy
      /\ asked'.nodes = nodes
  BY DEF Apply
<1>3. seg' \in Contents /\ \A x \in Objects : seg'[x].size = seg[x].size
  BY BoundKeeps DEF Apply, TypeOK, Contents
<1>4. pol' \in Policies /\ (attached => pol' = pol)
  <2>1. Policy(pp.mode, pp.nodes \cap Allowed) \in Policies
    BY DEF Policies, Policy
  <2> QED BY <2>1 DEF Apply, Setpol, TypeOK
<1>5. TypeOK'
  BY <1>1, <1>2, <1>3, <1>4 DEF TypeOK, process, flags
<1>6. PolicyRecorded'
  BY <1>2 DEF PolicyRecorded, Modes
<1>7. SegmentNotProcess'
  BY <1>1, <1>2, <1>4 DEF SegmentNotProcess, attached, process
<1>8. RegionBacked'
  BY <1>2, <1>3 DEF RegionBacked, Backed, attached, process, TypeOK
<1> QED BY <1>5, <1>6, <1>7, <1>8

LEMMA PolicyStep ==
  ASSUME IndInv, NEW o, NEW S \in Specs, NEW policy \in Modes, NEW rp, NEW pp,
         Parses(S) => rp \in Policies /\ pp \in Policies, PolicyOption(o, S, policy, rp, pp)
  PROVE  IndInv'
<1>2. CASE Parses(S) /\ CanApply(rp, pp)
  <2>1. Spec_of(S) \in SUBSET Nodes
    BY <1>2, SpecNodes DEF IndInv
  <2>2. Parsed(S) /\ Option(o) /\ set_policy = Unset /\ Apply(o, Spec_of(S), policy, rp, pp)
    BY <1>2 DEF PolicyOption, CanApply
  <2> QED BY <1>2, <2>1, <2>2, NoSpec, ApplyStep DEF Parsed
<1>3. CASE ~(Parses(S) /\ CanApply(rp, pp))
  BY <1>3, RefuseStep DEF PolicyOption
<1> QED BY <1>2, <1>3

\* What --preferred asks of a region, which for one node is that node.
LEMMA TonodePolicy ==
  ASSUME NEW nodes \in SUBSET Nodes
  PROVE  Tonode(nodes) \in Policies /\ Tonode(nodes).mode \in {"LOCAL", "MANY", "PREFERRED"}
BY DEF Tonode, Policies, Policy, Modes, Loose, First

LEMMA PreferredRegionStep ==
  ASSUME IndInv, NEW o, NEW S \in Specs, PreferredRegion(o, S)
  PROVE  IndInv'
<1> DEFINE p == Tonode(Spec_of(S))
<1>1. Parses(S) => Spec_of(S) \in SUBSET Nodes
  BY SpecNodes DEF IndInv
<1>2. (Parses(S) => p \in Policies) /\ Loose \in Modes
  BY <1>1, TonodePolicy DEF Modes, Loose
<1>3. attached /\ Option(o)
  BY DEF PreferredRegion
<1>4. CASE ~(Parses(S) /\ MbindOK(p))
  BY <1>3, <1>4, RefuseStep DEF PreferredRegion
<1>5. CASE Parses(S) /\ MbindOK(p) /\ set_policy = Unset
  <2>1. Parsed(S) /\ Apply(o, Spec_of(S), Loose, p, p)
    BY <1>5 DEF PreferredRegion
  <2> HIDE DEF p
  <2> QED BY <1>1, <1>2, <1>3, <1>5, <2>1, NoSpec, ApplyStep DEF Parsed
<1>6. CASE Parses(S) /\ MbindOK(p) /\ set_policy # Unset
  <2>1. Fail /\ TaskGone /\ seg' = Bound(p)
    BY <1>6 DEF PreferredRegion
  <2>2. seg' \in Contents
    BY <1>2, <1>3, <1>6, <2>1, BoundKeeps DEF IndInv
  <2>3. nopts' \in 0 .. MaxOpts
    BY <1>3, NumactlAssumption DEF IndInv, TypeOK, Option
  <2> QED BY <2>1, <2>2, <2>3, FailStep
<1> QED BY <1>4, <1>5, <1>6

LEMMA PreferredStep ==
  ASSUME IndInv, NEW S \in Specs, Opt_preferred(S) \/ Opt_preferred_many(S)
  PROVE  IndInv'
<1>1. Parses(S) => Spec_of(S) \in SUBSET Nodes
  BY SpecNodes DEF IndInv
<1>2. /\ Parses(S) => /\ Policy("PREFERRED", Spec_of(S)) \in Policies
                      /\ Policy("MANY", Spec_of(S)) \in Policies
      /\ "PREFERRED" \in Modes /\ "MANY" \in Modes
  BY <1>1 DEF Policies, Policy, Modes
<1>3. CASE Opt_preferred(S)
  BY <1>2, <1>3, PolicyStep, PreferredRegionStep, RefuseStep DEF Opt_preferred
<1>4. CASE Opt_preferred_many(S)
  BY <1>2, <1>4, PolicyStep, PreferredRegionStep, RefuseStep DEF Opt_preferred_many
<1> QED BY <1>3, <1>4

LEMMA PolicyOptionsStep ==
  ASSUME IndInv, NEW S \in Specs,
         Opt_interleave(S) \/ Opt_weighted_interleave(S) \/ Opt_membind(S) \/ Opt_localalloc
  PROVE  IndInv'
<1>1. Parses(S) => Spec_of(S) \in SUBSET Nodes
  BY SpecNodes DEF IndInv
<1>2. /\ \A m \in Modes : Parses(S) => Policy(m, Spec_of(S)) \in Policies
      /\ Policy("LOCAL", {}) \in Policies
      /\ \A m \in Modes : Parses(S) => Interleaving(m, Spec_of(S)) \in Policies
  BY <1>1 DEF Policies, Policy, Interleaving, Default, Modes
<1>3. {"INTERLEAVE", "WEIGHTED", "BIND", "BALANCED", "LOCAL"} \subseteq Modes
  BY DEF Modes
<1>4. CASE Opt_interleave(S)
  BY <1>2, <1>3, <1>4, PolicyStep DEF Opt_interleave
<1>5. CASE Opt_weighted_interleave(S)
  BY <1>2, <1>3, <1>5, PolicyStep DEF Opt_weighted_interleave
<1>6. CASE Opt_membind(S)
  BY <1>2, <1>3, <1>6, PolicyStep DEF Opt_membind
<1>7. CASE Opt_localalloc
  <2> DEFINE p == Policy("LOCAL", {})
  <2>1. p \in Policies /\ "LOCAL" \in Modes
    BY <1>2, <1>3
  <2>2. CASE CanApply(p, p)
    <3>1. Option("localalloc") /\ Apply("localalloc", {}, "LOCAL", p, p) /\ UNCHANGED parsed
          /\ set_policy = Unset
      BY <1>7, <2>2 DEF Opt_localalloc, CanApply
    <3> HIDE DEF p
    <3> QED BY <2>1, <3>1, ApplyStep DEF parsed, IndInv, TypeOK
  <2>3. CASE ~CanApply(p, p)
    BY <1>7, <2>3, RefuseStep DEF Opt_localalloc
  <2> QED BY <2>2, <2>3
<1> QED BY <1>4, <1>5, <1>6, <1>7
\* Options that leave the process policy, the objects and the region alone.
LEMMA FlagStep ==
  ASSUME IndInv, nopts' \in 0 .. MaxOpts,
         seg' \in Contents, \A x \in Objects : seg'[x].size = seg[x].size,
         UNCHANGED <<shmfd, shmlen, shmoffset, set_policy, pol>>,
         phase' \in {"options", "exited", "crashed", "execd"},
         phase' = "execd" => ~attached,
         strict' \in BOOLEAN, exitcode' \in {0, 1},
         shmoption' \in BOOLEAN, did_node_cpu_parse' \in BOOLEAN, did_cpubind' \in BOOLEAN,
         do_dump' \in BOOLEAN, do_hardware' \in BOOLEAN, parse_all' \in BOOLEAN,
         numa_balancing' \in BOOLEAN, mask' \in Specs, last' \in Specs,
         affinity' \in SUBSET Cpus, bound' \in SUBSET Cpus, asked' = asked
  PROVE  IndInv'
<1>1. TypeOK'
  BY DEF IndInv, TypeOK
<1>2. PolicyRecorded' /\ SegmentNotProcess'
  BY DEF IndInv, PolicyRecorded, SegmentNotProcess, attached
<1>3. RegionBacked'
  BY DEF IndInv, RegionBacked, Backed, attached, TypeOK
<1> QED BY <1>1, <1>2, <1>3 DEF IndInv

LEMMA AffinityStep ==
  ASSUME IndInv, NEW S \in Specs, NEW C \in SUBSET Cpus, Opt_cpunodebind(S) \/ Opt_physcpubind(C)
  PROVE  IndInv'
<1>1. Spec_of(S) \in Specs
  BY SpecNodes DEF IndInv
<1>2. ASSUME NEW o, Option(o) PROVE nopts' \in 0 .. MaxOpts /\ phase = "options"
  BY <1>2, NumactlAssumption DEF Option, IndInv, TypeOK
<1>3. ASSUME Opt_cpunodebind(S), ~Refuse PROVE IndInv'
  <2>1. /\ Option("cpunodebind") /\ Parsed(S) /\ Setaffinity(Spec_of(S) \cap Cpus)
        /\ bound' = Spec_of(S) \cap Cpus
    BY <1>3 DEF Opt_cpunodebind
  <2> QED BY <1>1, <1>2, <2>1, FlagStep DEF Parsed, Setaffinity, process, IndInv, TypeOK
<1>4. ASSUME Opt_physcpubind(C), ~Refuse PROVE IndInv'
  <2>1. /\ Option("physcpubind") /\ Setaffinity(C) /\ bound' = C
        /\ did_node_cpu_parse' = TRUE /\ UNCHANGED <<mask, last>>
    BY <1>4 DEF Opt_physcpubind
  <2> QED BY <1>2, <2>1, FlagStep DEF Setaffinity, process, IndInv, TypeOK
<1>5. ASSUME Refuse PROVE IndInv'
  BY <1>5, RefuseStep DEF Opt_cpunodebind, Opt_physcpubind
<1> QED BY <1>3, <1>4, <1>5

\* An attached region lies inside its object: attach_shared makes the file long
\* enough, attach_sysvshm checks the length, and nothing overflows.
LEMMA AttachedBacked ==
  ASSUME TypeOK, Attach_sysvshm \/ Attach_shared \/ AttachDenied
  PROVE  /\ seg' \in Contents
         /\ \/ Fail
            \/ /\ shmfd' \in Objects /\ shmlen' \in 0 .. SizeMax
               /\ UNCHANGED <<shmoffset, strict, exitcode, printed, phase>>
               /\ shmfd' = "file" \/ shmoffset = 0 =>
                     shmoffset + shmlen' <= seg'[shmfd'].size
<1> USE ShmAssumption
<1>0. /\ shmlen \in Nat /\ shmoffset \in Nat /\ shmlen <= SizeMax /\ shmoffset <= SizeMax
      /\ \A o \in Objects : seg[o].size \in 0 .. MaxObject
      /\ seg \in Contents /\ "shm" \in Objects /\ "file" \in Objects
  BY DEF TypeOK, Contents, Objects
<1>1. shmlen + shmoffset <= SizeMax => Plus(shmlen, shmoffset) = shmlen + shmoffset
  BY <1>0 DEF Plus
<1>2. CASE AttachDenied
  BY <1>0, <1>2 DEF AttachDenied
<1>3. CASE Attach_sysvshm_existing
  <2> DEFINE len == IF shmlen = 0 THEN seg["shm"].size ELSE shmlen
  <2>1. seg' = seg /\ (Fail \/ (shmlen <= seg["shm"].size /\ Attach("shm", len)))
    BY <1>3 DEF Attach_sysvshm_existing
  <2>2. len \in 0 .. SizeMax /\ (shmlen <= seg["shm"].size => len <= seg["shm"].size)
    BY <1>0
  <2> HIDE DEF len
  <2> QED BY <1>0, <2>1, <2>2 DEF Attach
<1>4. CASE Attach_sysvshm_create
  <2>1. CASE ~OutOfRangeSysv /\ shmlen # 0 /\ Plus(shmlen, shmoffset) <= MaxObject
    <3>1. Plus(shmlen, shmoffset) = shmlen + shmoffset
      BY <1>0, <1>1, <2>1 DEF OutOfRangeSysv
    <3>2. shmlen + shmoffset \in 0 .. MaxObject
      BY <1>0, <2>1, <3>1
    <3>3. seg' = Resize("shm", shmlen + shmoffset) /\ (Attach("shm", shmlen) \/ Fail)
      BY <1>4, <2>1, <3>1 DEF Attach_sysvshm_create
    <3>4. seg' \in Contents /\ seg'["shm"].size = shmlen + shmoffset
      BY <1>0, <3>2, <3>3, ResizeKeeps
    <3> QED BY <1>0, <3>3, <3>4 DEF Attach
  <2>2. CASE ~(~OutOfRangeSysv /\ shmlen # 0 /\ Plus(shmlen, shmoffset) <= MaxObject)
    BY <1>0, <1>4, <2>2 DEF Attach_sysvshm_create
  <2> QED BY <2>1, <2>2
<1>5. CASE Attach_shared
  <2>1. CASE OutOfRangeShared \/ (~seg["file"].exists /\ shmlen = 0)
    BY <1>0, <1>5, <2>1 DEF Attach_shared
  <2>2. CASE ~(OutOfRangeShared \/ (~seg["file"].exists /\ shmlen = 0)) /\ Extend > MaxObject
    <3>1. Fail /\ seg' = Resize("file", seg["file"].size)
      BY <1>5, <2>2 DEF Attach_shared
    <3> QED BY <1>0, <3>1, ResizeKeeps
  <2>3. CASE ~(OutOfRangeShared \/ (~seg["file"].exists /\ shmlen = 0)) /\ ~(Extend > MaxObject)
    <3>1. seg' = Resize("file", Extend) /\ (Attach("file", shmlen) \/ Fail)
      BY <1>5, <2>3 DEF Attach_shared
    <3>2. MaxOff \in Nat /\ MaxOff <= SizeMax
      BY DEF MaxOff
    <3>3. Plus(shmlen, shmoffset) = shmlen + shmoffset
      BY <1>0, <1>1, <2>3, <3>2 DEF OutOfRangeShared
    <3>4. Extend \in 0 .. MaxObject /\ shmlen + shmoffset <= Extend
      BY <1>0, <2>3, <3>3 DEF Extend
    <3>5. seg' \in Contents /\ seg'["file"].size = Extend
      BY <1>0, <3>1, <3>4, ResizeKeeps
    <3> QED BY <1>0, <3>1, <3>4, <3>5 DEF Attach
  <2> QED BY <2>1, <2>2, <2>3
<1> QED BY <1>2, <1>3, <1>4, <1>5 DEF Attach_sysvshm

LEMMA AttachStep ==
  ASSUME IndInv, Opt_shm \/ Opt_file
  PROVE  IndInv'
<1>1. PICK o : Option(o) /\ (MayAttach => Attach_sysvshm \/ Attach_shared \/ AttachDenied)
               /\ (~MayAttach => Refuse)
               /\ (MayAttach => IF phase' = "failed" THEN TaskGone
                                ELSE UNCHANGED <<set_policy, flags, parsed, task, wish>>)
  BY DEF Opt_shm, Opt_file, Attaching
<1>2. nopts' \in 0 .. MaxOpts /\ phase = "options"
  BY <1>1, NumactlAssumption DEF Option, IndInv, TypeOK
<1>3. CASE ~MayAttach
  BY <1>1, <1>3, RefuseStep
<1>4. CASE MayAttach /\ Fail
  <2>1. seg' \in Contents
    BY <1>1, <1>4, AttachedBacked DEF IndInv
  <2>2. TaskGone
    BY <1>1, <1>4 DEF Fail
  <2> QED BY <1>2, <1>4, <2>1, <2>2, FailStep
<1>5. CASE MayAttach /\ ~Fail
  <2>1. /\ seg' \in Contents /\ shmfd' \in Objects /\ shmlen' \in 0 .. SizeMax
        /\ UNCHANGED <<shmoffset, strict, exitcode, printed, phase>>
        /\ shmfd' = "file" \/ shmoffset = 0 => shmoffset + shmlen' <= seg'[shmfd'].size
    BY <1>1, <1>5, AttachedBacked DEF IndInv
  <2>2. UNCHANGED <<set_policy, flags, parsed, task, wish>>
    BY <1>1, <1>2, <1>5, <2>1
  <2>3. pol = Default
    BY <1>5 DEF MayAttach, nopolicy, IndInv, PolicyRecorded
  <2>4. TypeOK'
    BY <1>2, <2>1, <2>2 DEF IndInv, TypeOK, flags, parsed, task, wish
  <2>5. PolicyRecorded' /\ SegmentNotProcess'
    BY <1>2, <2>1, <2>2, <2>3 DEF PolicyRecorded, SegmentNotProcess, task
  <2>6. RegionBacked'
    BY <2>1 DEF RegionBacked, Backed
  <2> QED BY <2>4, <2>5, <2>6 DEF IndInv
<1> QED BY <1>3, <1>4, <1>5
\* The region takes shape before anything is attached.
LEMMA ShapeStep ==
  ASSUME IndInv, NEW o, NEW len \in 0 .. SizeMax, NEW off \in 0 .. SizeMax, ShmOption(o, len, off)
  PROVE  IndInv'
<1>1. Option(o) /\ nopts' \in 0 .. MaxOpts
  BY NumactlAssumption DEF ShmOption, Option, IndInv, TypeOK
<1>2. CASE ~MayShape
  BY <1>1, <1>2, RefuseStep DEF ShmOption
<1>3. CASE MayShape
  <2>1. /\ shmoption' = TRUE /\ shmlen' = len /\ shmoffset' = off
        /\ UNCHANGED <<seg, shmfd, strict, exitcode, printed, phase, set_policy, did_cpubind,
                       do_dump, do_hardware, parse_all, numa_balancing, parsed, task, wish>>
    BY <1>3 DEF ShmOption
  <2>2. ~attached /\ ~attached'
    BY <1>3, <2>1 DEF MayShape, attached
  <2>3. TypeOK'
    BY <1>1, <2>1 DEF IndInv, TypeOK, parsed, task, wish
  <2>4. PolicyRecorded' /\ SegmentNotProcess' /\ RegionBacked'
    BY <2>1, <2>2 DEF IndInv, PolicyRecorded, SegmentNotProcess, RegionBacked, task
  <2> QED BY <2>3, <2>4 DEF IndInv
<1> QED BY <1>2, <1>3

\* A --verify without a mask: the pages were touched, then the command fails.
NoMask == Fail /\ TaskGone /\ \E h \in [Pages -> Nodes \cup {None}] : seg' = WithHome(h)

LEMMA VerifySteps ==
  ASSUME Opt_verify, ~Refuse
  PROVE  /\ attached /\ set_policy # Unset /\ phase = "options"
         /\ \/ NoMask
            \/ /\ mask # NULL /\ Rest /\ UNCHANGED <<printed, phase, do_dump>>
               /\ \E h \in [Pages -> Nodes \cup {None}] :
                    seg' = WithHome(h) /\ Verify_shm(set_policy, mask, h)
<1>1. MayTouch /\ set_policy # Unset /\ phase = "options"
  BY DEF Opt_verify, Option
<1>2. PICK h \in [Pages -> Nodes \cup {None}] :
        /\ seg' = WithHome(h)
        /\ IF mask = NULL THEN Fail /\ TaskGone
           ELSE /\ Verify_shm(set_policy, mask, h)
                /\ Rest /\ UNCHANGED <<printed, phase, do_dump>>
  BY <1>1 DEF Opt_verify
<1>3. CASE mask = NULL
  BY <1>1, <1>2, <1>3 DEF NoMask, MayTouch
<1>4. CASE mask # NULL
  BY <1>1, <1>2, <1>4 DEF MayTouch
<1> QED BY <1>3, <1>4

\* Options that report on the region or bring its pages in.
LEMMA ReportStep ==
  ASSUME IndInv, Opt_dump \/ Opt_dump_nodes \/ Opt_touch \/ Opt_verify
  PROVE  IndInv'
<1>0. PICK o : Option(o)
  BY DEF Opt_dump, Opt_dump_nodes, Opt_touch, Opt_verify
<1>1. nopts' \in 0 .. MaxOpts /\ phase = "options"
  BY <1>0, NumactlAssumption DEF Option, IndInv, TypeOK
<1>2. CASE Refuse
  BY <1>0, <1>2, RefuseStep
<1>4. CASE Opt_verify /\ NoMask /\ ~Refuse
  <2>1. seg' \in Contents
    BY <1>4, VerifySteps, TouchKeeps DEF NoMask, IndInv
  <2> QED BY <1>1, <1>4, <2>1, FailStep DEF NoMask
<1>3. CASE ~Refuse /\ ~(Opt_verify /\ NoMask)
  <2>1. /\ attached /\ Rest
        /\ phase' \in {"options", "crashed"} /\ do_dump' \in BOOLEAN
        /\ \/ seg' = seg
           \/ \E h \in [Pages -> Nodes \cup {None}] : seg' = WithHome(h)
    <3>1. CASE Opt_dump
      BY <1>1, <1>3, <3>1 DEF Opt_dump
    <3>2. CASE Opt_dump_nodes
      BY <1>1, <1>3, <3>2 DEF Opt_dump_nodes
    <3>3. CASE Opt_touch
      BY <1>1, <1>3, <3>3 DEF Opt_touch, MayTouch, IndInv, TypeOK
    <3>4. CASE Opt_verify
      BY <1>1, <1>3, <3>4, VerifySteps DEF IndInv, TypeOK
    <3> QED BY <3>1, <3>2, <3>3, <3>4
  <2>2. exitcode' \in {0, 1}
    <3>1. CASE Opt_dump \/ Opt_dump_nodes \/ Opt_touch
      BY <1>3, <3>1 DEF Opt_dump, Opt_dump_nodes, Opt_touch, IndInv, TypeOK
    <3>2. CASE Opt_verify
      BY <1>3, <3>2, VerifySteps DEF Verify_shm, IndInv, TypeOK
    <3> QED BY <3>1, <3>2
  <2>3. seg' \in Contents /\ \A x \in Objects : seg'[x].size = seg[x].size
    BY <2>1, TouchKeeps DEF IndInv, TypeOK
  <2> QED BY <1>1, <2>1, <2>2, <2>3, FlagStep DEF Rest, parsed, task, wish, IndInv, TypeOK
<1> QED BY <1>2, <1>3, <1>4

\* Options that set a flag or end the command.
LEMMA PlainStep ==
  ASSUME IndInv,
         \/ Opt_quiet("shmid") \/ Opt_strict \/ Opt_all \/ Opt_balancing \/ Opt_hardware
         \/ Opt_show \/ Opt_version \/ Opt_invalid
  PROVE  IndInv'
<1>0. PICK o : Option(o)
  BY DEF Opt_quiet, Opt_strict, Opt_all, Opt_balancing, Opt_hardware, Opt_show, Opt_version,
     Opt_invalid
<1>1. nopts' \in 0 .. MaxOpts /\ phase = "options"
  BY <1>0, NumactlAssumption DEF Option, IndInv, TypeOK
<1>2. CASE Refuse
  BY <1>0, <1>2, RefuseStep
<1> USE DEF parsed, task, wish, flags, process, shmVars
<1>3. CASE Opt_quiet("shmid")
  BY <1>1, <1>3, FlagStep DEF Opt_quiet, IndInv, TypeOK
<1>4. CASE Opt_strict
  BY <1>1, <1>4, FlagStep DEF Opt_strict, IndInv, TypeOK
<1>5. CASE Opt_all /\ ~Refuse
  BY <1>1, <1>5, FlagStep DEF Opt_all, IndInv, TypeOK
<1>6. CASE Opt_balancing /\ ~Refuse
  BY <1>1, <1>6, FlagStep DEF Opt_balancing, IndInv, TypeOK
<1>7. CASE Opt_hardware /\ ~Refuse
  BY <1>1, <1>7, FlagStep DEF Opt_hardware, IndInv, TypeOK
<1>8. CASE (Opt_show \/ Opt_version) /\ ~Refuse
  BY <1>1, <1>8, FlagStep DEF Opt_show, Opt_version, Over, IndInv, TypeOK
<1> QED BY <1>2, <1>3, <1>4, <1>5, <1>6, <1>7, <1>8 DEF Opt_invalid

\* The end of the command line: a command is executed only when nothing is
\* attached.
LEMMA FinishStep ==
  ASSUME IndInv, NEW command \in BOOLEAN, Finish(command) \/ CannotExec
  PROVE  IndInv'
<1>1. nopts' \in 0 .. MaxOpts
  BY DEF Finish, CannotExec, IndInv, TypeOK
<1>2. CASE Refuse
  BY <1>1, <1>2, FailStep DEF Refuse, IndInv, TypeOK
<1>3. CASE ~Refuse
  <2>1. Over("exited") \/ (Over("execd") /\ ~attached)
    BY <1>3 DEF Finish, CannotExec
  <2> QED BY <1>1, <2>1, FlagStep DEF Over, parsed, task, wish, flags, process, IndInv, TypeOK
<1> QED BY <1>2, <1>3

\* Every step of the command keeps the inductive invariant.
LEMMA NextStep ==
  ASSUME IndInv, [Next]_vars
  PROVE  IndInv'
<1>1. CASE UNCHANGED vars
  BY <1>1 DEF vars, shmVars, flags, parsed, task, wish, IndInv, TypeOK, PolicyRecorded,
     SegmentNotProcess, RegionBacked, Backed, attached
<1>2. ASSUME NEW S \in Specs,
             \/ Opt_interleave(S) \/ Opt_weighted_interleave(S) \/ Opt_membind(S)
             \/ Opt_preferred(S) \/ Opt_preferred_many(S)
      PROVE  IndInv'
  BY <1>2, PolicyOptionsStep, PreferredStep
<1>3. ASSUME NEW S \in Specs, Opt_cpunodebind(S) PROVE IndInv'
  <2>1. {} \in SUBSET Cpus
    OBVIOUS
  <2> QED BY <1>3, <2>1, AffinityStep
<1>4. ASSUME NEW C \in SUBSET Cpus, Opt_physcpubind(C) PROVE IndInv'
  <2>1. {} \in Specs
    BY NoSpec
  <2> QED BY <1>4, <2>1, AffinityStep
<1>5. CASE Opt_localalloc
  <2>1. {} \in Specs
    BY NoSpec
  <2> QED BY <1>5, <2>1, PolicyOptionsStep
<1>6. ASSUME NEW n \in Sizes, Opt_length(n) \/ Opt_offset(n) PROVE IndInv'
  BY <1>6, ShapeStep, NumactlAssumption DEF Opt_length, Opt_offset, IndInv, TypeOK
<1>7. CASE Opt_shmmode
  BY <1>7, ShapeStep DEF Opt_shmmode, IndInv, TypeOK
<1>8. ASSUME NEW command \in BOOLEAN, Finish(command) \/ CannotExec PROVE IndInv'
  BY <1>8, FinishStep
<1> QED BY <1>1, <1>2, <1>3, <1>4, <1>5, <1>6, <1>7, <1>8, AttachStep, ReportStep, PlainStep DEF Next

LEMMA InitHolds == Init => IndInv
<1> SUFFICES ASSUME Init PROVE IndInv
  OBVIOUS
<1>1. ~attached /\ pol = Default /\ phase = "options"
  BY DEF Init, ShmInit, TaskInit, attached
<1>2. Default \in Policies /\ NoWish.nodes = {} /\ CpusAllowed \in SUBSET Cpus
      /\ 0 \in 0 .. SizeMax /\ 0 \in 0 .. MaxOpts
  BY ShmAssumption, NumactlAssumption DEF Default, Policy, Policies, Modes, NoWish
<1>3. TypeOK
  BY <1>2, NoSpec, NumactlAssumption DEF Init, ShmInit, TaskInit, TypeOK
<1> QED BY <1>1, <1>3 DEF IndInv, PolicyRecorded, SegmentNotProcess, RegionBacked

\* The inductive invariant of the numactl command.
THEOREM Invariant == Spec => []IndInv
BY InitHolds, NextStep, PTL DEF Spec

\* Shared memory and process policies do not mix: numactl with shared memory
\* attached has left its own policy alone and executes nothing, for every
\* order of any number of options.
THEOREM SegmentOrProcess == Spec => []SegmentNotProcess
<1>1. IndInv => SegmentNotProcess
  BY DEF IndInv
<1> QED BY <1>1, Invariant, PTL

\* A mapped file covers the region, and so does a segment from its beginning on:
\* the range checks of attach_shared and attach_sysvshm leave no overflow.
THEOREM RegionIsBacked == Spec => []RegionBacked
<1>1. IndInv => RegionBacked
  BY DEF IndInv
<1> QED BY <1>1, Invariant, PTL

\* The command is well typed.
THEOREM TypeCorrect == Spec => []TypeOK
<1>1. IndInv => TypeOK
  BY DEF IndInv
<1> QED BY <1>1, Invariant, PTL

\* An option that gets past setpolicy finds the inherited policy.
LEMMA FirstPolicy ==
  ASSUME IndInv, NEW o, NEW S, NEW policy, NEW rp, NEW pp, PolicyOption(o, S, policy, rp, pp)
  PROVE  OnePolicyStep
<1>1. CASE set_policy = Unset
  BY <1>1 DEF IndInv, PolicyRecorded, OnePolicyStep
<1>2. CASE set_policy # Unset
  <2>1. Refuse
    BY <1>2 DEF PolicyOption, CanApply
  <2> QED BY <2>1 DEF Refuse, Fail, OnePolicyStep
<1> QED BY <1>1, <1>2

\* The process never gets a second policy over a first, whatever the options.
THEOREM OnePolicy == Spec => OneProcessPolicy
<1>1. ASSUME IndInv, [Next]_vars PROVE OnePolicyStep
  <2> USE DEF OnePolicyStep, task, Refuse, Fail
  <2>0. set_policy = Unset => OnePolicyStep
    BY <1>1 DEF IndInv, PolicyRecorded
  <2>1. CASE UNCHANGED vars
    BY <2>1 DEF vars
  <2>2. ASSUME NEW S \in Specs, Opt_interleave(S) \/ Opt_weighted_interleave(S) \/ Opt_membind(S)
        PROVE  OnePolicyStep
    BY <1>1, <2>2, FirstPolicy DEF Opt_interleave, Opt_weighted_interleave, Opt_membind
  <2>3. ASSUME NEW o, NEW S \in Specs, PreferredRegion(o, S) PROVE OnePolicyStep
    BY <2>0, <2>3 DEF PreferredRegion
  <2>4. ASSUME NEW S \in Specs, Opt_preferred(S) \/ Opt_preferred_many(S) PROVE OnePolicyStep
    BY <1>1, <2>3, <2>4, FirstPolicy DEF Opt_preferred, Opt_preferred_many
  <2>5. CASE Opt_localalloc
    BY <2>0, <2>5 DEF Opt_localalloc, CanApply
  <2>6. ASSUME NEW S \in Specs, Opt_cpunodebind(S) PROVE OnePolicyStep
    BY <2>6 DEF Opt_cpunodebind, Setaffinity
  <2>7. ASSUME NEW C \in SUBSET Cpus, Opt_physcpubind(C) PROVE OnePolicyStep
    BY <2>7 DEF Opt_physcpubind, Setaffinity
  <2>8. CASE Opt_shm \/ Opt_file
    BY <2>0, <2>8 DEF Opt_shm, Opt_file, Attaching, MayAttach, nopolicy
  <2>9. ASSUME NEW n \in Sizes, Opt_length(n) \/ Opt_offset(n) PROVE OnePolicyStep
    BY <2>9 DEF Opt_length, Opt_offset, ShmOption
  <2>10. CASE Opt_shmmode \/ Opt_quiet("shmid") \/ Opt_strict
    BY <2>10 DEF Opt_shmmode, ShmOption, Opt_quiet, Opt_strict
  <2>11. CASE Opt_dump \/ Opt_dump_nodes \/ Opt_touch \/ Opt_verify
    BY <2>11, VerifySteps DEF Opt_dump, Opt_dump_nodes, Opt_touch, NoMask, Rest
  <2>12. CASE Opt_all \/ Opt_balancing \/ Opt_hardware \/ Opt_show \/ Opt_version \/ Opt_invalid
    BY <2>12 DEF Opt_all, Opt_balancing, Opt_hardware, Opt_show, Opt_version, Opt_invalid, Over
  <2>13. ASSUME NEW command \in BOOLEAN, Finish(command) \/ CannotExec PROVE OnePolicyStep
    BY <2>13 DEF Finish, CannotExec, Over
  <2> QED BY <1>1, <2>1, <2>2, <2>4, <2>5, <2>6, <2>7, <2>8, <2>9, <2>10, <2>11, <2>12, <2>13
          DEF Next
<1> QED BY <1>1, Invariant, PTL DEF Spec, OneProcessPolicy

----------------------------------------------------------------------------
(* The command implements Placement: every option of a command line is a step *)
(* of it or changes nothing that it sees.                                     *)

Seen == <<shmfd, shmlen, shmoffset, set_policy, pol, phase>>
PoliciesKept == \A o \in Objects : seg'[o].pol = seg[o].pol
RegionOnly ==
    \A o \in Objects, p \in Pages : seg'[o].pol[p] # seg[o].pol[p] => o = shmfd /\ p \in Region

LEMMA SameRegion == ASSUME UNCHANGED <<shmlen, shmoffset>> PROVE Region' = Region
BY DEF Region, InRegion

LEMMA RegionPages == Region \in SUBSET Pages /\ Region' \in SUBSET Pages
BY DEF Region

LEMMA SeenSame == ASSUME UNCHANGED Seen, PoliciesKept PROVE UNCHANGED P!vars
<1>1. Region' = Region
  BY SameRegion DEF Seen
<1> QED BY <1>1 DEF Seen, PoliciesKept, P!vars

\* The command is refused: at most the region was bound.
LEMMA RefusedMaps ==
  ASSUME phase = "options", Fail, TaskGone, RegionOnly
  PROVE  P!Next
<1>1. P!OnlyPart
  BY DEF P!OnlyPart, RegionOnly
<1>2. P!Refuse
  BY <1>1, RegionPages DEF P!Refuse, Fail, TaskGone
<1> QED BY <1>2 DEF P!Next

LEMMA RefuseMaps == ASSUME phase = "options", Refuse PROVE P!Next
BY RefusedMaps DEF Refuse, RegionOnly

LEMMA BoundRegion ==
  ASSUME TypeOK, attached, NEW policy, seg' = Bound(policy)
  PROVE  RegionOnly
BY DEF TypeOK, attached, Contents, Bound, RegionOnly

\* The first policy is settled, for the region or for the process.
LEMMA ApplyMaps ==
  ASSUME IndInv, IndInv', NEW o, NEW nodes, NEW policy \in Modes, NEW rp, NEW pp,
         phase = "options", set_policy = Unset, Apply(o, nodes, policy, rp, pp)
  PROVE  P!Next
<1>1. UNCHANGED <<shmfd, shmlen, shmoffset, phase>> /\ set_policy' = policy
  BY DEF Apply, process
<1>2. Region' = Region
  BY <1>1, SameRegion
<1>3. set_policy' # Unset
  BY <1>1 DEF Modes
<1>4. CASE attached
  <2>1. pol' = pol /\ RegionOnly
    BY <1>4, BoundRegion DEF Apply, IndInv
  <2>2. P!OnlyPart
    BY <2>1 DEF P!OnlyPart, RegionOnly
  <2>3. P!Settle
    BY <1>1, <1>2, <1>3, <1>4, <2>1, <2>2 DEF P!Settle, attached
  <2> QED BY <2>3 DEF P!Next
<1>5. CASE ~attached
  <2>1. pol' \in Policies /\ seg' = seg
    BY <1>5 DEF Apply, IndInv, TypeOK
  <2>2. P!Settle
    BY <1>1, <1>2, <1>3, <1>5, <2>1 DEF P!Settle, attached
  <2> QED BY <2>2 DEF P!Next
<1> QED BY <1>4, <1>5

LEMMA PolicyMaps ==
  ASSUME IndInv, IndInv', NEW o, NEW S, NEW policy \in Modes, NEW rp, NEW pp,
         PolicyOption(o, S, policy, rp, pp)
  PROVE  P!Next
<1>1. phase = "options"
  BY DEF PolicyOption, Option
<1>2. CASE Parses(S) /\ CanApply(rp, pp)
  BY <1>1, <1>2, ApplyMaps DEF PolicyOption, CanApply
<1>3. CASE ~(Parses(S) /\ CanApply(rp, pp))
  BY <1>1, <1>3, RefuseMaps DEF PolicyOption
<1> QED BY <1>2, <1>3

LEMMA PreferredRegionMaps ==
  ASSUME IndInv, IndInv', NEW o, NEW S, PreferredRegion(o, S)
  PROVE  P!Next
<1> DEFINE p == Tonode(Spec_of(S))
<1>1. attached /\ phase = "options" /\ Loose \in Modes
  BY DEF PreferredRegion, Option, Loose, Modes
<1>2. CASE ~(Parses(S) /\ MbindOK(p))
  BY <1>1, <1>2, RefuseMaps DEF PreferredRegion
<1>3. CASE Parses(S) /\ MbindOK(p) /\ set_policy = Unset
  <2>1. Apply(o, Spec_of(S), Loose, p, p)
    BY <1>3 DEF PreferredRegion
  <2> HIDE DEF p
  <2> QED BY <1>1, <1>3, <2>1, ApplyMaps
<1>4. CASE Parses(S) /\ MbindOK(p) /\ set_policy # Unset
  <2>1. Fail /\ TaskGone /\ seg' = Bound(p)
    BY <1>4 DEF PreferredRegion
  <2>2. RegionOnly
    BY <1>1, <2>1, BoundRegion DEF IndInv
  <2> QED BY <1>1, <2>1, <2>2, RefusedMaps
<1> QED BY <1>2, <1>3, <1>4

LEMMA PolicyOptionsMap ==
  ASSUME IndInv, IndInv', NEW S,
         \/ Opt_interleave(S) \/ Opt_weighted_interleave(S) \/ Opt_membind(S)
         \/ Opt_preferred(S) \/ Opt_preferred_many(S) \/ Opt_localalloc
  PROVE  P!Next
<1>1. {"INTERLEAVE", "WEIGHTED", "BIND", "PREFERRED", "MANY", "LOCAL"} \subseteq Modes
  BY DEF Modes
<1>2. CASE Opt_interleave(S) \/ Opt_weighted_interleave(S) \/ Opt_membind(S)
  BY <1>1, <1>2, PolicyMaps DEF Opt_interleave, Opt_weighted_interleave, Opt_membind
<1>3. CASE Opt_preferred(S)
  BY <1>1, <1>3, PolicyMaps, PreferredRegionMaps, RefuseMaps DEF Opt_preferred, Option
<1>4. CASE Opt_preferred_many(S)
  BY <1>1, <1>4, PolicyMaps, PreferredRegionMaps, RefuseMaps DEF Opt_preferred_many, Option
<1>5. CASE Opt_localalloc
  <2> DEFINE p == Policy("LOCAL", {})
  <2>1. phase = "options" /\ (CanApply(p, p) => set_policy = Unset)
    BY <1>5 DEF Opt_localalloc, Option, CanApply
  <2>2. (Apply("localalloc", {}, "LOCAL", p, p) /\ CanApply(p, p)) \/ Refuse
    BY <1>5 DEF Opt_localalloc
  <2> HIDE DEF p
  <2> QED BY <1>1, <2>1, <2>2, ApplyMaps, RefuseMaps
<1> QED BY <1>2, <1>3, <1>4, <1>5
----------------------------------------------------------------------------
\* Attaching leaves the policies of both objects alone.
LEMMA AttachKeeps ==
  ASSUME TypeOK, Attach_sysvshm \/ Attach_shared \/ AttachDenied
  PROVE  /\ PoliciesKept
         /\ \/ Fail
            \/ shmfd' \in Objects /\ UNCHANGED phase
<1>1. ASSUME NEW o \in Objects, NEW n, seg' = Resize(o, n) PROVE PoliciesKept
  BY <1>1 DEF PoliciesKept, Resize, TypeOK, Contents
<1>2. "shm" \in Objects /\ "file" \in Objects
  BY DEF Objects
<1>3. CASE Attach_sysvshm
  BY <1>1, <1>2, <1>3 DEF Attach_sysvshm, Attach_sysvshm_existing, Attach_sysvshm_create, Attach,
     PoliciesKept
<1>4. CASE Attach_shared
  BY <1>1, <1>2, <1>4 DEF Attach_shared, Attach, PoliciesKept
<1>5. CASE AttachDenied
  BY <1>5 DEF AttachDenied, PoliciesKept
<1> QED BY <1>3, <1>4, <1>5

LEMMA AttachMaps == ASSUME IndInv, Opt_shm \/ Opt_file PROVE P!Next
<1>1. phase = "options"
  BY DEF Opt_shm, Opt_file, Attaching, Option
<1>2. CASE ~MayAttach
  BY <1>1, <1>2, RefuseMaps DEF Opt_shm, Opt_file, Attaching
<1>3. CASE MayAttach
  <2>1. /\ Attach_sysvshm \/ Attach_shared \/ AttachDenied
        /\ IF phase' = "failed" THEN TaskGone
           ELSE UNCHANGED <<set_policy, flags, parsed, task, wish>>
    BY <1>3 DEF Opt_shm, Opt_file, Attaching
  <2>2. PoliciesKept /\ (Fail \/ (shmfd' \in Objects /\ UNCHANGED phase))
    BY <2>1, AttachKeeps DEF IndInv
  <2>3. CASE Fail
    BY <1>1, <2>1, <2>2, <2>3, RefusedMaps DEF Fail, RegionOnly, PoliciesKept
  <2>4. CASE ~Fail
    <3>1. UNCHANGED <<set_policy, pol, phase>> /\ shmfd' \in Objects
      BY <1>1, <2>1, <2>2, <2>4 DEF task
    <3>2. P!Attach
      BY <1>1, <1>3, <2>2, <3>1, RegionPages
         DEF P!Attach, MayAttach, nopolicy, PoliciesKept
    <3> QED BY <3>2 DEF P!Next
  <2> QED BY <2>3, <2>4
<1> QED BY <1>2, <1>3

LEMMA ShapeMaps == ASSUME NEW o, NEW len, NEW off, ShmOption(o, len, off) PROVE P!Next
<1>1. phase = "options"
  BY DEF ShmOption, Option
<1>2. CASE ~MayShape
  BY <1>1, <1>2, RefuseMaps DEF ShmOption
<1>3. CASE MayShape
  <2>1. UNCHANGED <<seg, shmfd, phase, set_policy, pol>> /\ shmfd = "none"
    BY <1>3 DEF ShmOption, task, MayShape, attached
  <2>2. P!Describe
    BY <1>1, <2>1, RegionPages DEF P!Describe
  <2> QED BY <2>2 DEF P!Next
<1> QED BY <1>2, <1>3
----------------------------------------------------------------------------
\* The command ends as it is.
LEMMA EndMaps ==
  ASSUME phase = "options", phase' \in {"exited", "execd", "crashed"},
         phase' = "execd" => ~attached,
         UNCHANGED <<shmfd, shmlen, shmoffset, set_policy, pol>>, PoliciesKept
  PROVE  P!Next
<1>1. Region' = Region
  BY SameRegion
<1>2. P!End
  BY <1>1 DEF P!End, attached, PoliciesKept
<1> QED BY <1>2 DEF P!Next

LEMMA TouchPolicies ==
  ASSUME TypeOK, attached, NEW h, seg' = WithHome(h)
  PROVE  PoliciesKept
BY DEF TypeOK, attached, Contents, WithHome, PoliciesKept

LEMMA ReportMaps ==
  ASSUME IndInv, Opt_dump \/ Opt_dump_nodes \/ Opt_touch \/ Opt_verify
  PROVE  P!Next \/ UNCHANGED P!vars
<1>1. phase = "options"
  BY DEF Opt_dump, Opt_dump_nodes, Opt_touch, Opt_verify, Option
<1>2. CASE Refuse
  BY <1>1, <1>2, RefuseMaps
<1>4. CASE Opt_verify /\ NoMask /\ ~Refuse
  <2>1. PoliciesKept
    BY <1>4, VerifySteps, TouchPolicies DEF NoMask, IndInv
  <2> QED BY <1>1, <1>4, <2>1, RefusedMaps DEF NoMask, RegionOnly, PoliciesKept
<1>3. CASE ~Refuse /\ ~(Opt_verify /\ NoMask)
  <2>1. /\ attached /\ Rest /\ phase' \in {"options", "crashed"}
        /\ \/ seg' = seg
           \/ \E h \in [Pages -> Nodes \cup {None}] : seg' = WithHome(h)
    <3>1. CASE Opt_dump
      BY <1>1, <1>3, <3>1 DEF Opt_dump
    <3>2. CASE Opt_dump_nodes
      BY <1>1, <1>3, <3>2 DEF Opt_dump_nodes
    <3>3. CASE Opt_touch
      BY <1>1, <1>3, <3>3 DEF Opt_touch, MayTouch
    <3>4. CASE Opt_verify
      BY <1>1, <1>3, <3>4, VerifySteps
    <3> QED BY <3>1, <3>2, <3>3, <3>4
  <2>2. PoliciesKept
    BY <2>1, TouchPolicies DEF IndInv, PoliciesKept
  <2>3. UNCHANGED <<shmfd, shmlen, shmoffset, set_policy, pol>>
    BY <2>1 DEF Rest, task
  <2>4. CASE phase' = "crashed"
    BY <1>1, <2>2, <2>3, <2>4, EndMaps
  <2>5. CASE phase' = "options"
    BY <1>1, <2>2, <2>3, <2>5, SeenSame DEF Seen
  <2> QED BY <2>1, <2>4, <2>5
<1> QED BY <1>2, <1>3, <1>4

LEMMA OverMaps ==
  ASSUME phase = "options", NEW how \in {"exited", "execd"}, how = "execd" => ~attached, Over(how)
  PROVE  P!Next
<1>1. UNCHANGED <<shmfd, shmlen, shmoffset, set_policy, pol>> /\ PoliciesKept /\ phase' = how
  BY DEF Over, process, task, PoliciesKept
<1> QED BY <1>1, EndMaps

\* Flags, affinity and the end of the command line.
LEMMA OtherMaps ==
  ASSUME NEW S, NEW C, NEW command \in BOOLEAN,
         \/ Opt_cpunodebind(S) \/ Opt_physcpubind(C)
         \/ Opt_quiet("shmid") \/ Opt_strict \/ Opt_all \/ Opt_balancing \/ Opt_hardware
         \/ Opt_show \/ Opt_version \/ Opt_invalid \/ Finish(command) \/ CannotExec
  PROVE  P!Next \/ UNCHANGED P!vars
<1> USE DEF process, task, shmVars, PoliciesKept
<1>1. phase = "options"
  BY DEF Opt_cpunodebind, Opt_physcpubind, Opt_quiet, Opt_strict, Opt_all, Opt_balancing,
     Opt_hardware, Opt_show, Opt_version, Opt_invalid, Finish, CannotExec, Option
<1>2. CASE Refuse
  BY <1>1, <1>2, RefuseMaps
<1>3. ASSUME ~Refuse, Opt_cpunodebind(S) \/ Opt_physcpubind(C) PROVE UNCHANGED P!vars
  BY <1>3, SeenSame DEF Opt_cpunodebind, Opt_physcpubind, Setaffinity, Seen
<1>4. ASSUME ~Refuse, Opt_quiet("shmid") \/ Opt_strict PROVE UNCHANGED P!vars
  BY <1>4, SeenSame DEF Opt_quiet, Opt_strict, Seen
<1>5. ASSUME ~Refuse, Opt_all \/ Opt_balancing \/ Opt_hardware PROVE UNCHANGED P!vars
  BY <1>5, SeenSame DEF Opt_all, Opt_balancing, Opt_hardware, Seen
<1>6. ASSUME ~Refuse, Opt_show \/ Opt_version PROVE P!Next
  <2>1. Over("exited")
    BY <1>6 DEF Opt_show, Opt_version
  <2> QED BY <1>1, <2>1, OverMaps
<1>7. ASSUME ~Refuse, Finish(command) \/ CannotExec PROVE P!Next
  <2>1. Over("exited") \/ (Over("execd") /\ ~attached)
    BY <1>7 DEF Finish, CannotExec
  <2> QED BY <1>1, <2>1, OverMaps
<1> QED BY <1>2, <1>3, <1>4, <1>5, <1>6, <1>7 DEF Opt_invalid

LEMMA StepMaps ==
  ASSUME IndInv, IndInv', [Next]_vars
  PROVE  [P!Next]_P!vars
<1>1. CASE UNCHANGED vars
  BY <1>1, SeenSame DEF vars, shmVars, task, Seen, PoliciesKept
<1>2. ASSUME NEW S \in Specs,
             \/ Opt_interleave(S) \/ Opt_weighted_interleave(S) \/ Opt_membind(S)
             \/ Opt_preferred(S) \/ Opt_preferred_many(S) \/ Opt_localalloc
      PROVE  P!Next
  BY <1>2, PolicyOptionsMap
<1>3. CASE Opt_localalloc
  <2>1. {} \in Specs
    BY NoSpec
  <2> QED BY <1>2, <1>3, <2>1
<1>4. ASSUME NEW S \in Specs, Opt_cpunodebind(S) PROVE P!Next \/ UNCHANGED P!vars
  <2>1. TRUE \in BOOLEAN
    OBVIOUS
  <2> QED BY <1>4, <2>1, OtherMaps
<1>5. ASSUME NEW C \in SUBSET Cpus, Opt_physcpubind(C) PROVE P!Next \/ UNCHANGED P!vars
  <2>1. TRUE \in BOOLEAN
    OBVIOUS
  <2> QED BY <1>5, <2>1, OtherMaps
<1>6. ASSUME NEW n \in Sizes, Opt_length(n) \/ Opt_offset(n) PROVE P!Next
  BY <1>6, ShapeMaps DEF Opt_length, Opt_offset
<1>7. CASE Opt_shmmode
  BY <1>7, ShapeMaps DEF Opt_shmmode
<1>8. ASSUME NEW command \in BOOLEAN, Finish(command) \/ CannotExec
      PROVE  P!Next \/ UNCHANGED P!vars
  BY <1>8, OtherMaps
<1>9. CASE Opt_quiet("shmid") \/ Opt_strict \/ Opt_all \/ Opt_balancing \/ Opt_hardware
           \/ Opt_show \/ Opt_version \/ Opt_invalid
  <2>1. TRUE \in BOOLEAN
    OBVIOUS
  <2> QED BY <1>9, <2>1, OtherMaps
<1> QED BY <1>1, <1>2, <1>3, <1>4, <1>5, <1>6, <1>7, <1>8, <1>9, AttachMaps, ReportMaps DEF Next

LEMMA InitMaps == ASSUME Init PROVE P!Init
<1>1. seg \in Contents
  BY NumactlAssumption DEF Init
<1>2. [o \in Objects |-> seg[o].pol] \in [Objects -> [Pages -> Policies]]
  BY <1>1 DEF Contents
<1>3. Region \in SUBSET Pages
  BY RegionPages
<1> QED BY <1>2, <1>3 DEF Init, ShmInit, TaskInit, P!Init

\* For every number of nodes, pages and options, every kernel and every content of the
\* shared objects, numactl settles one policy in one place, leaves everything outside
\* the attached region alone and executes nothing once shared memory is attached.
THEOREM Implements == Spec => SettlesOnce
<1>1. Init => P!Init
  BY InitMaps
<1>2. IndInv /\ IndInv' /\ [Next]_vars => [P!Next]_P!vars
  BY StepMaps
<1> QED BY <1>1, <1>2, Invariant, PTL DEF Spec, SettlesOnce, P!Spec

----------------------------------------------------------------------------
(* The command gets what its options ask for: the memory policy and the CPUs  *)
(* of the process that executes a command, or the policy of the pages of the  *)
(* shared memory that is attached.  AskedInv rests on IndInv.                 *)

\* A command that fails asks for nothing any more.
LEMMA GoneAsked ==
  ASSUME Fail, TaskGone
  PROVE  AskedInv'
<1>1. /\ ~attached' /\ set_policy' = Unset /\ asked' = NoWish
      /\ pol' = Default /\ affinity' = CpusAllowed /\ bound' = CpusAllowed
  BY DEF Fail, TaskGone, attached
<1>2. Wanted' = Default
  BY <1>1 DEF Wanted, Described, NoWish
<1> QED BY <1>1, <1>2 DEF AskedInv, SetModes

LEMMA RefusedAsked ==
  ASSUME Refuse
  PROVE  AskedInv'
BY GoneAsked DEF Refuse

\* What is asked for depends on --balancing, which must come before it.
LEMMA WantedKept ==
  ASSUME AskedInv, UNCHANGED <<asked, set_policy>>,
         numa_balancing' = numa_balancing \/ set_policy = Unset,
         attached' <=> attached
  PROVE  Wanted' = Wanted
<1>1. CASE set_policy = Unset
  <2>1. asked = NoWish /\ asked' = NoWish
    BY <1>1 DEF AskedInv
  <2> QED BY <2>1 DEF Wanted, Described, NoWish
<1>2. CASE numa_balancing' = numa_balancing
  <2>1. CASE attached
    <3>1. attached'
      BY <2>1
    <3> QED BY <1>2, <2>1, <3>1 DEF Wanted, Described
  <2>2. CASE ~attached
    <3>1. ~attached'
      BY <2>2
    <3> QED BY <1>2, <2>2, <3>1 DEF Wanted, Described
  <2> QED BY <2>1, <2>2
<1> QED BY <1>1, <1>2

\* Steps that leave the policies of the process and of the region alone.
LEMMA KeptAsked ==
  ASSUME AskedInv, UNCHANGED <<shmfd, asked, set_policy, pol>>,
         numa_balancing' = numa_balancing \/ set_policy = Unset,
         affinity' = bound' \cap CpusAllowed,
         attached => /\ UNCHANGED <<shmlen, shmoffset>>
                     /\ seg'[shmfd].pol = seg[shmfd].pol
  PROVE  AskedInv'
<1>1. attached' <=> attached
  BY DEF attached
<1>2. Wanted' = Wanted
  BY <1>1, WantedKept
<1>3. (Bindable' <=> Bindable)
  BY DEF Bindable
<1>4. attached => Region' = Region
  BY DEF Region, InRegion
<1>5. /\ set_policy' = Unset => asked' = NoWish
      /\ ~attached' => pol' = Wanted'
  BY <1>1, <1>2 DEF AskedInv
<1>6. attached' /\ set_policy' # Unset /\ Bindable' =>
        \A p \in Region' : seg'[shmfd'].pol[p] = Wanted'
  BY <1>1, <1>2, <1>3, <1>4 DEF AskedInv
<1>7. attached' /\ set_policy' = "WEIGHTED" =>
        \A p \in Region' : seg'[shmfd'].pol[p].mode = "INTERLEAVE"
  BY <1>1, <1>4 DEF AskedInv
<1>8. set_policy' \in SetModes
  BY DEF AskedInv, SetModes
<1> QED BY <1>5, <1>6, <1>7, <1>8 DEF AskedInv, SetModes

LEMMA TouchPol ==
  ASSUME TypeOK, attached, NEW h
  PROVE  WithHome(h)[shmfd].pol = seg[shmfd].pol
<1>1. shmfd \in Objects
  BY DEF TypeOK, attached
<1> QED BY <1>1 DEF WithHome, TypeOK, Contents

\* mbind gives every page of the region the policy, within the cpuset.
LEMMA BoundPol ==
  ASSUME TypeOK, attached, NEW policy \in Policies
  PROVE  \A p \in Region :
            Bound(policy)[shmfd].pol[p] = Policy(policy.mode, policy.nodes \cap Allowed)
<1> DEFINE new == [p \in Pages |-> IF p \in Region
                       THEN Policy(policy.mode, policy.nodes \cap Allowed)
                       ELSE seg[shmfd].pol[p]]
<1>1. shmfd \in Objects
  BY DEF TypeOK, attached
<1>2. Bound(policy) = [seg EXCEPT ![shmfd].pol = new]
  BY <1>1 DEF Bound, TypeOK, Contents
<1>3. \A p \in Region : new[p] = Policy(policy.mode, policy.nodes \cap Allowed)
  BY DEF Region
<1> HIDE DEF new
<1>4. Bound(policy)[shmfd].pol = new
  BY <1>1, <1>2 DEF TypeOK, Contents
<1> QED BY <1>3, <1>4

\* A policy option that is taken gives the process, or the region, the policy
\* that the manual describes.
LEMMA ApplyAsked ==
  ASSUME IndInv, AskedInv, NEW o, NEW nodes \in SUBSET Nodes, NEW policy \in Modes,
         NEW rp \in Policies, NEW pp \in Policies,
         Apply(o, nodes, policy, rp, pp), policy \in SetModes,
         policy = "WEIGHTED" => rp.mode = "INTERLEAVE",
         ~attached => Policy(pp.mode, pp.nodes \cap Allowed) = Described(o, nodes \cap Allowed),
         attached /\ o # "weighted-interleave" /\
            (o \in {"preferred", "preferred-many"} => Cardinality(nodes) = 1) =>
            Policy(rp.mode, rp.nodes \cap Allowed) = Described(o, nodes \cap Allowed)
  PROVE  AskedInv'
<1>1. /\ set_policy' = policy /\ asked' = [opt |-> o, nodes |-> nodes]
      /\ UNCHANGED <<shmfd, shmlen, shmoffset, numa_balancing, affinity, bound>>
  BY DEF Apply, process, flags
<1>2. set_policy' # Unset
  BY <1>1 DEF Modes
<1>3. (attached' <=> attached) /\ Region' = Region
  BY <1>1 DEF attached, Region, InRegion
<1>4. Wanted' = Described(o, nodes \cap Allowed)
  <2>1. CASE attached
    <3>1. attached'
      BY <1>3, <2>1
    <3> QED BY <1>1, <2>1, <3>1 DEF Wanted, Described
  <2>2. CASE ~attached
    <3>1. ~attached'
      BY <1>3, <2>2
    <3> QED BY <1>1, <2>2, <3>1 DEF Wanted, Described
  <2> QED BY <2>1, <2>2
<1>5. affinity' = bound' \cap CpusAllowed
  BY <1>1 DEF AskedInv
<1>6. ~attached' => pol' = Wanted'
  BY <1>3, <1>4 DEF Apply, Setpol
<1>7. ASSUME attached', Bindable', NEW p \in Region' PROVE seg'[shmfd'].pol[p] = Wanted'
  <2>1. seg' = Bound(rp)
    BY <1>3, <1>7 DEF Apply
  <2>2. Policy(rp.mode, rp.nodes \cap Allowed) = Described(o, nodes \cap Allowed)
    BY <1>1, <1>3, <1>7 DEF Bindable
  <2>3. Bound(rp)[shmfd].pol[p] = Policy(rp.mode, rp.nodes \cap Allowed)
    BY <1>3, <1>7, BoundPol DEF IndInv
  <2> QED BY <1>1, <1>4, <2>1, <2>2, <2>3
<1>8. ASSUME attached', policy = "WEIGHTED", NEW p \in Region'
      PROVE  seg'[shmfd'].pol[p].mode = "INTERLEAVE"
  <2>1. seg' = Bound(rp)
    BY <1>3, <1>8 DEF Apply
  <2>2. Bound(rp)[shmfd].pol[p] = Policy(rp.mode, rp.nodes \cap Allowed)
    BY <1>3, <1>8, BoundPol DEF IndInv
  <2> QED BY <1>1, <1>8, <2>1, <2>2 DEF Policy
<1> QED BY <1>1, <1>2, <1>5, <1>6, <1>7, <1>8 DEF AskedInv, SetModes

\* One of the options that set_mempolicy and mbind take with the same nodes.
LEMMA PolicyAsked ==
  ASSUME IndInv, AskedInv, NEW o, NEW S \in Specs, NEW policy \in Modes,
         NEW rp, NEW pp, PolicyOption(o, S, policy, rp, pp), policy \in SetModes,
         policy = "WEIGHTED" => rp.mode = "INTERLEAVE",
         Parses(S) => rp \in Policies /\ pp \in Policies,
         SetpolOK(pp) /\ Parses(S) /\ ~attached =>
            Policy(pp.mode, pp.nodes \cap Allowed) = Described(o, Spec_of(S) \cap Allowed),
         MbindOK(rp) /\ Parses(S) /\ attached /\ o # "weighted-interleave" /\
            (o \in {"preferred", "preferred-many"} => Cardinality(Spec_of(S)) = 1) =>
            Policy(rp.mode, rp.nodes \cap Allowed) = Described(o, Spec_of(S) \cap Allowed)
  PROVE  AskedInv'
<1>2. CASE Parses(S) /\ CanApply(rp, pp)
  <2>1. Apply(o, Spec_of(S), policy, rp, pp)
    BY <1>2 DEF PolicyOption
  <2>2. Spec_of(S) \in SUBSET Nodes
    BY <1>2, SpecNodes DEF IndInv
  <2>3. (~attached => SetpolOK(pp)) /\ (attached => MbindOK(rp))
    BY <1>2 DEF CanApply
  <2> QED BY <1>2, <2>1, <2>2, <2>3, ApplyAsked
<1>3. CASE ~(Parses(S) /\ CanApply(rp, pp))
  BY <1>3, RefusedAsked DEF PolicyOption
<1> QED BY <1>2, <1>3

\* find_first of a single node.
LEMMA FirstOfOne ==
  ASSUME NEW nodes \in SUBSET Nodes, Cardinality(nodes) = 1
  PROVE  First(nodes) = nodes
<1>1. IsFiniteSet(nodes)
  <2>1. 0 \in Int /\ NNodes - 1 \in Int
    BY ShmAssumption
  <2>2. IsFiniteSet(Nodes)
    BY <2>1, FS_Interval DEF Nodes
  <2> QED BY <2>2, FS_Subset
<1>2. PICK n : nodes = {n}
  BY <1>1, FS_Singleton
<1>3. n \in Int
  BY <1>2 DEF Nodes
<1> QED BY <1>2, <1>3 DEF First

\* --preferred and --preferred-many on shared memory.
LEMMA PreferredRegionAsked ==
  ASSUME IndInv, AskedInv, NEW o \in {"preferred", "preferred-many"}, NEW S \in Specs,
         PreferredRegion(o, S), o = "preferred-many" => "many" \in Features
  PROVE  AskedInv'
<1> DEFINE p == Tonode(Spec_of(S))
<1>1. Parses(S) => Spec_of(S) \in SUBSET Nodes
  BY SpecNodes DEF IndInv
<1>2. (Parses(S) => p \in Policies) /\ Loose \in Modes /\ Loose \in SetModes /\ Loose # "WEIGHTED"
  BY <1>1, TonodePolicy DEF Modes, Loose, SetModes
<1>3. attached
  BY DEF PreferredRegion
<1>4. CASE Parses(S) /\ MbindOK(p) /\ set_policy = Unset
  <2>1. Apply(o, Spec_of(S), Loose, p, p)
    BY <1>4 DEF PreferredRegion
  <2>2. Cardinality(Spec_of(S)) = 1 =>
          Policy(p.mode, p.nodes \cap Allowed) = Described(o, Spec_of(S) \cap Allowed)
    <3> SUFFICES ASSUME Cardinality(Spec_of(S)) = 1
                 PROVE  Policy(p.mode, p.nodes \cap Allowed) = Described(o, Spec_of(S) \cap Allowed)
      OBVIOUS
    <3>1. First(Spec_of(S)) = Spec_of(S) /\ Spec_of(S) # {}
      BY <1>1, <1>4, FirstOfOne, FS_EmptySet
    <3>2. p = Policy(Loose, Spec_of(S))
      BY <3>1 DEF Tonode
    <3> QED BY <1>3, <3>2 DEF Policy, Described, Loose
  <2> HIDE DEF p
  <2> QED BY <1>1, <1>2, <1>3, <1>4, <2>1, <2>2, ApplyAsked
<1>5. CASE ~(Parses(S) /\ MbindOK(p) /\ set_policy = Unset)
  BY <1>5, RefusedAsked, GoneAsked DEF PreferredRegion
<1> QED BY <1>4, <1>5

LEMMA PreferredAsked ==
  ASSUME IndInv, AskedInv, NEW S \in Specs, Opt_preferred(S) \/ Opt_preferred_many(S)
  PROVE  AskedInv'
<1>1. Parses(S) => Spec_of(S) \in SUBSET Nodes
  BY SpecNodes DEF IndInv
<1> DEFINE p == Policy("PREFERRED", Spec_of(S))
           m == Policy("MANY", Spec_of(S))
<1>2. /\ (Parses(S) => p \in Policies /\ m \in Policies) /\ "PREFERRED" \in Modes /\ "MANY" \in Modes
      /\ p.mode = "PREFERRED" /\ m.mode = "MANY" /\ p.nodes = Spec_of(S) /\ m.nodes = Spec_of(S)
  BY <1>1 DEF Policies, Policy, Modes
<1>3. ~attached =>
        /\ Policy(p.mode, p.nodes \cap Allowed) = Described("preferred", Spec_of(S) \cap Allowed)
        /\ Policy(m.mode, m.nodes \cap Allowed) = Described("preferred-many", Spec_of(S) \cap Allowed)
  BY <1>2 DEF Described
<1>4. CASE Refuse
  BY <1>4, RefusedAsked
<1>5. CASE attached /\ ~Refuse
  BY <1>5, PreferredRegionAsked DEF Opt_preferred, Opt_preferred_many
<1>6. CASE ~attached /\ ~Refuse
  <2>1. \/ PolicyOption("preferred", S, "PREFERRED", p, p)
        \/ PolicyOption("preferred-many", S, "MANY", m, m)
    BY <1>6 DEF Opt_preferred, Opt_preferred_many
  <2> HIDE DEF p, m
  <2> QED BY <1>2, <1>3, <1>6, <2>1, PolicyAsked DEF SetModes
<1> QED BY <1>4, <1>5, <1>6

\* Within the cpuset the policy asked for is the policy described.
LEMMA InterleavingDescribed ==
  ASSUME NEW nodes \in SUBSET Nodes, NEW o \in {"interleave", "weighted-interleave"}, NEW m,
         m = IF o = "interleave" THEN "INTERLEAVE" ELSE "WEIGHTED",
         NEW p, p = Interleaving(m, nodes), SetpolOK(p)
  PROVE  Policy(p.mode, p.nodes \cap Allowed) = Described(o, nodes \cap Allowed)
<1>1. CASE nodes = {}
  <2>1. p = Default /\ nodes \cap Allowed = {}
    BY <1>1 DEF Interleaving
  <2>2. Described(o, {}) = Default
    BY DEF Described
  <2> QED BY <2>1, <2>2 DEF Default, Policy
<1>2. CASE nodes # {}
  <2>1. p.mode = m /\ p.nodes = nodes
    BY <1>2 DEF Interleaving, Policy
  <2>2. nodes \cap Allowed # {}
    BY <2>1 DEF SetpolOK
  <2>3. Described(o, nodes \cap Allowed) = Policy(m, nodes \cap Allowed)
    BY <2>2 DEF Described
  <2> QED BY <2>1, <2>3
<1> QED BY <1>1, <1>2

LEMMA PolicyOptionsAsked ==
  ASSUME IndInv, AskedInv, NEW S \in Specs,
         Opt_interleave(S) \/ Opt_weighted_interleave(S) \/ Opt_membind(S)
  PROVE  AskedInv'
<1>1. Parses(S) => Spec_of(S) \in SUBSET Nodes
  BY SpecNodes DEF IndInv
<1> DEFINE p(m) == Policy(m, Spec_of(S))
           balanced == IF numa_balancing /\ "balancing" \in Features THEN "BALANCED" ELSE "BIND"
           q == p("INTERLEAVE")
<1>2. /\ \A m \in Modes : /\ Parses(S) => p(m) \in Policies /\ Interleaving(m, Spec_of(S)) \in Policies
                          /\ p(m).mode = m /\ p(m).nodes = Spec_of(S)
      /\ {"INTERLEAVE", "WEIGHTED", "BIND", balanced} \subseteq Modes
  BY <1>1 DEF Policies, Policy, Modes, Interleaving, Default
<1>3. CASE Opt_interleave(S)
  <2> DEFINE r == Interleaving("INTERLEAVE", Spec_of(S))
  <2>1. PolicyOption("interleave", S, "INTERLEAVE", q, r)
    BY <1>3 DEF Opt_interleave
  <2>2. (Parses(S) => q \in Policies /\ r \in Policies) /\ "INTERLEAVE" \in Modes
        /\ q.mode = "INTERLEAVE" /\ q.nodes = Spec_of(S)
    BY <1>2
  <2>3. Parses(S) /\ SetpolOK(r) =>
          Policy(r.mode, r.nodes \cap Allowed) = Described("interleave", Spec_of(S) \cap Allowed)
    BY <1>1, InterleavingDescribed
  <2>4. MbindOK(q) =>
          Policy(q.mode, q.nodes \cap Allowed) = Described("interleave", Spec_of(S) \cap Allowed)
    BY <2>2 DEF MbindOK, Described
  <2> HIDE DEF q, r
  <2> QED BY <2>1, <2>2, <2>3, <2>4, PolicyAsked DEF SetModes
<1>4. CASE Opt_weighted_interleave(S)
  <2> DEFINE r == Interleaving("WEIGHTED", Spec_of(S))
  <2>1. PolicyOption("weighted-interleave", S, "WEIGHTED", q, r)
    BY <1>4 DEF Opt_weighted_interleave
  <2>2. (Parses(S) => q \in Policies /\ r \in Policies) /\ "WEIGHTED" \in Modes
        /\ q.mode = "INTERLEAVE"
    BY <1>2
  <2>3. Parses(S) /\ SetpolOK(r) =>
          Policy(r.mode, r.nodes \cap Allowed) = Described("weighted-interleave", Spec_of(S) \cap Allowed)
    BY <1>1, InterleavingDescribed
  <2> HIDE DEF q, r
  <2> QED BY <2>1, <2>2, <2>3, PolicyAsked DEF SetModes
<1>5. CASE Opt_membind(S)
  <2> DEFINE b == p("BIND")
             r == p(balanced)
  <2>1. PolicyOption("membind", S, "BIND", b, r)
    BY <1>5 DEF Opt_membind
  <2>2. /\ (Parses(S) => b \in Policies /\ r \in Policies) /\ "BIND" \in Modes
        /\ b.mode = "BIND" /\ r.mode = balanced
        /\ b.nodes = Spec_of(S) /\ r.nodes = Spec_of(S)
    BY <1>2
  <2>3. ~attached =>
          Policy(r.mode, r.nodes \cap Allowed) = Described("membind", Spec_of(S) \cap Allowed)
    BY <2>2 DEF Described
  <2>4. attached =>
          Policy(b.mode, b.nodes \cap Allowed) = Described("membind", Spec_of(S) \cap Allowed)
    BY <2>2 DEF Described
  <2> HIDE DEF b, r
  <2> QED BY <2>1, <2>2, <2>3, <2>4, PolicyAsked DEF SetModes
<1> QED BY <1>3, <1>4, <1>5

LEMMA LocalallocAsked ==
  ASSUME IndInv, AskedInv, Opt_localalloc
  PROVE  AskedInv'
<1> DEFINE p == Policy("LOCAL", {})
<1>1. p \in Policies /\ "LOCAL" \in Modes /\ {} \in SUBSET Nodes
      /\ Policy(p.mode, p.nodes \cap Allowed) = Described("localalloc", {} \cap Allowed)
  BY DEF Policies, Policy, Modes, Described
<1>2. CASE CanApply(p, p)
  <2>1. Apply("localalloc", {}, "LOCAL", p, p)
    BY <1>2 DEF Opt_localalloc
  <2> HIDE DEF p
  <2> QED BY <1>1, <2>1, ApplyAsked DEF SetModes
<1>3. CASE ~CanApply(p, p)
  BY <1>3, RefusedAsked DEF Opt_localalloc
<1> QED BY <1>2, <1>3

\* Shared memory is attached while nothing has been asked for.
LEMMA AttachAsked ==
  ASSUME IndInv, AskedInv, Opt_shm \/ Opt_file
  PROVE  AskedInv'
<1>1. /\ MayAttach => /\ Attach_sysvshm \/ Attach_shared \/ AttachDenied
                      /\ IF phase' = "failed" THEN TaskGone
                         ELSE UNCHANGED <<set_policy, flags, parsed, task, wish>>
      /\ ~MayAttach => Refuse
      /\ phase = "options"
  BY DEF Opt_shm, Opt_file, Attaching, Option
<1>2. CASE ~MayAttach
  BY <1>1, <1>2, RefusedAsked
<1>3. CASE MayAttach /\ Fail
  BY <1>1, <1>3, GoneAsked DEF Fail
<1>4. CASE MayAttach /\ ~Fail
  <2>1. shmfd' \in Objects /\ phase' = phase
    BY <1>1, <1>4, AttachedBacked DEF IndInv
  <2>2. UNCHANGED <<set_policy, asked, affinity, bound>> /\ set_policy = Unset
    BY <1>1, <1>4, <2>1 DEF task, wish, MayAttach, nopolicy
  <2>3. attached'
    BY <2>1 DEF attached, Objects
  <2> QED BY <2>2, <2>3 DEF AskedInv
<1> QED BY <1>2, <1>3, <1>4

LEMMA AffinityAsked ==
  ASSUME AskedInv, NEW S, NEW C, Opt_cpunodebind(S) \/ Opt_physcpubind(C)
  PROVE  AskedInv'
<1>1. CASE Refuse
  BY <1>1, RefusedAsked
<1>2. CASE ~Refuse
  <2>1. PICK cpus : Setaffinity(cpus) /\ bound' = cpus
    BY <1>2 DEF Opt_cpunodebind, Opt_physcpubind
  <2> QED BY <2>1, KeptAsked DEF Setaffinity, process
<1> QED BY <1>1, <1>2

LEMMA ReportAsked ==
  ASSUME IndInv, AskedInv, Opt_dump \/ Opt_dump_nodes \/ Opt_touch \/ Opt_verify
  PROVE  AskedInv'
<1>1. CASE Refuse \/ NoMask
  BY <1>1, RefusedAsked, GoneAsked DEF NoMask
<1>2. CASE ~Refuse /\ ~NoMask
  <2>1. attached /\ Rest /\ (seg' = seg \/ \E h : seg' = WithHome(h))
    BY <1>2, VerifySteps DEF Opt_dump, Opt_dump_nodes, Opt_touch, MayTouch
  <2>2. seg'[shmfd].pol = seg[shmfd].pol
    BY <2>1, TouchPol DEF IndInv
  <2> QED BY <2>1, <2>2, KeptAsked DEF Rest, task, wish, AskedInv
<1> QED BY <1>1, <1>2

\* The options of a region come before it; --balancing before the policy.
LEMMA PlainAsked ==
  ASSUME AskedInv,
         \/ \E o, len, off : ShmOption(o, len, off)
         \/ Opt_quiet("shmid") \/ Opt_strict \/ Opt_all \/ Opt_balancing \/ Opt_hardware
         \/ Opt_show \/ Opt_version \/ Opt_invalid
         \/ \E command : Finish(command)
         \/ CannotExec
         \/ UNCHANGED vars
  PROVE  AskedInv'
<1> USE DEF parsed, task, wish, flags, process, shmVars
<1>1. CASE Refuse
  BY <1>1, RefusedAsked
<1>2. CASE ~Refuse
  <2>1. /\ UNCHANGED <<shmfd, asked, set_policy, pol, affinity, bound, seg>>
        /\ numa_balancing' = numa_balancing \/ set_policy = Unset
        /\ attached => UNCHANGED <<shmlen, shmoffset>>
    <3>1. CASE \E o, len, off : ShmOption(o, len, off)
      BY <1>2, <3>1 DEF ShmOption, MayShape
    <3>2. CASE Opt_quiet("shmid") \/ Opt_strict \/ Opt_all \/ Opt_hardware
      BY <1>2, <3>2 DEF Opt_quiet, Opt_strict, Opt_all, Opt_hardware
    <3>3. CASE Opt_balancing
      BY <1>2, <3>3 DEF Opt_balancing, nopolicy
    <3>4. CASE Opt_show \/ Opt_version \/ CannotExec \/ \E command : Finish(command)
      BY <1>2, <3>4 DEF Opt_show, Opt_version, CannotExec, Finish, Over
    <3>5. CASE UNCHANGED vars
      BY <3>5 DEF vars
    <3> QED BY <1>2, <3>1, <3>2, <3>3, <3>4, <3>5 DEF Opt_invalid
  <2> QED BY <2>1, KeptAsked DEF AskedInv
<1> QED BY <1>1, <1>2

\* Every step of the command keeps AskedInv.
LEMMA AskedStep ==
  ASSUME IndInv, AskedInv, [Next]_vars
  PROVE  AskedInv'
<1>1. ASSUME NEW S \in Specs,
             \/ Opt_interleave(S) \/ Opt_weighted_interleave(S) \/ Opt_membind(S)
             \/ Opt_preferred(S) \/ Opt_preferred_many(S) \/ Opt_cpunodebind(S)
      PROVE  AskedInv'
  BY <1>1, PolicyOptionsAsked, PreferredAsked, AffinityAsked
<1>2. ASSUME NEW C \in SUBSET Cpus, Opt_physcpubind(C) PROVE AskedInv'
  BY <1>2, AffinityAsked
<1>3. ASSUME NEW n \in Sizes, Opt_length(n) \/ Opt_offset(n) PROVE AskedInv'
  BY <1>3, PlainAsked DEF Opt_length, Opt_offset
<1>4. CASE Opt_shmmode
  BY <1>4, PlainAsked DEF Opt_shmmode
<1> QED BY <1>1, <1>2, <1>3, <1>4, LocalallocAsked, AttachAsked, ReportAsked, PlainAsked DEF Next

LEMMA InitAsked == Init => AskedInv
<1> SUFFICES ASSUME Init PROVE AskedInv
  OBVIOUS
<1>1. /\ ~attached /\ pol = Default /\ asked = NoWish /\ affinity = CpusAllowed /\ bound = CpusAllowed
      /\ set_policy = Unset
  BY DEF Init, ShmInit, TaskInit, attached
<1>2. Wanted = Default
  BY <1>1 DEF Wanted, Described, NoWish
<1> QED BY <1>1, <1>2 DEF AskedInv, SetModes

LEMMA AskedAlways == Spec => [](IndInv /\ AskedInv)
BY InitHolds, NextStep, InitAsked, AskedStep, PTL DEF Spec

\* The command that numactl executes runs under the policy that the options ask
\* for, within the cpuset, and on the CPUs that they ask for: --balancing and
\* --all reach set_mempolicy and sched_setaffinity in whatever order options come.
THEOREM RunsAsAsked == Spec => []ExecAsAsked
<1>1. IndInv /\ AskedInv => ExecAsAsked
  BY DEF IndInv, AskedInv, SegmentNotProcess, ExecAsAsked, Wanted
<1> QED BY <1>1, AskedAlways, PTL

\* The pages of the attached region have the policy that was asked for: no later
\* option, --touch or --dump-nodes among them, takes it away from them.
THEOREM SegmentIsAsAsked == Spec => []SegmentAsAsked
<1>1. AskedInv => SegmentAsAsked
  BY DEF AskedInv, SegmentAsAsked, Wanted, Bindable
<1> QED BY <1>1, AskedAlways, PTL

----------------------------------------------------------------------------
(* What --dump and --verify report.  A range is found by its last start not    *)
(* after a page, and no value changes between a start and the next one.       *)

LEMMA Least ==
  ASSUME NEW S \in SUBSET Nat, S # {}
  PROVE  Min(S) \in S /\ \A y \in S : Min(S) <= y
<1> DEFINE Less == OpToRel(<, Nat)
<1>1. IsWellFoundedOn(Less, Nat)
  BY NatLessThanWellFounded
<1>2. \A x, y \in Nat : <<y, x>> \in Less <=> y < x
  BY DEF OpToRel
<1> HIDE DEF Less
<1>3. \E x \in S : \A y \in S : ~(<<y, x>> \in Less)
  BY <1>1, WFMin, Zenon
<1>4. PICK x \in S : \A y \in S : ~(y < x)
  BY <1>2, <1>3
<1>5. \A y \in S : x <= y
  BY <1>4
<1> QED BY <1>5 DEF Min

LEMMA Greatest ==
  ASSUME NEW N \in Nat, NEW S \in SUBSET (0 .. N), S # {}
  PROVE  \E x \in S : \A y \in S : y <= x
<1> DEFINE T == {N - x : x \in S}
<1>1. T \in SUBSET Nat /\ T # {}
  <2>1. \A x \in S : N - x \in Nat
    OBVIOUS
  <2>2. PICK x \in S : TRUE
    OBVIOUS
  <2>3. N - x \in T
    BY <2>2
  <2> QED BY <2>1, <2>3
<1>2. Min(T) \in T /\ \A y \in T : Min(T) <= y
  <2> HIDE DEF T
  <2> QED BY <1>1, Least
<1>3. PICK x \in S : Min(T) = N - x
  BY <1>2
<1>4. \A y \in S : N - x <= N - y
  BY <1>2, <1>3
<1>5. \A y \in S : y <= x
  <2> TAKE y \in S
  <2>1. x \in Int /\ y \in Int /\ N - x <= N - y
    BY <1>4
  <2> QED BY <2>1
<1> QED BY <1>5

\* The pages of a region follow each other.
LEMMA RegionConvex ==
  ASSUME TypeOK
  PROVE  /\ Region \in SUBSET Nat
         /\ MaxObject \div PageSize \in Nat /\ Region \in SUBSET (0 .. MaxObject \div PageSize)
         /\ \A a, b \in Region : \A x \in a .. b : x \in Region
<1>1. MaxObject \div PageSize \in Nat
  BY ShmAssumption
<1>2. Pages \in SUBSET Nat /\ Pages \in SUBSET (0 .. MaxObject \div PageSize)
  BY <1>1 DEF Pages
<1>3. Region \in SUBSET Pages
  BY DEF Region
<1>4. ASSUME NEW a \in Region, NEW b \in Region, NEW x \in a .. b
      PROVE  x \in Region
  <2>1. a \in Nat /\ b \in Nat /\ x \in Nat /\ x \in Pages /\ a <= x /\ x <= b
    BY <1>1, <1>3 DEF Pages
  <2>2. \A c, d \in Nat : c <= d => c * PageSize <= d * PageSize
    BY ShmAssumption
  <2>3. a * PageSize <= x * PageSize /\ x * PageSize <= b * PageSize
    BY <2>1, <2>2
  <2>4. shmoffset \in Nat /\ shmlen \in Nat /\ PageSize \in Nat
    BY ShmAssumption DEF TypeOK
  <2>5. /\ a * PageSize \in Nat /\ b * PageSize \in Nat /\ x * PageSize \in Nat
        /\ shmoffset <= a * PageSize /\ b * PageSize < shmoffset + shmlen
    BY <2>1, <2>4 DEF Region, InRegion
  <2>6. shmoffset <= x * PageSize /\ x * PageSize < shmoffset + shmlen
    BY <2>3, <2>4, <2>5
  <2> QED BY <2>1, <2>6 DEF Region, InRegion
<1> QED BY <1>1, <1>2, <1>3, <1>4

\* Every page of the region is in one range of a dump, with its own value.
LEMMA RangesCover ==
  ASSUME TypeOK, NEW f, NEW p \in Region
  PROVE  \E r \in Runs(f) : /\ {q \in Runs(f) : q.from <= p /\ p < q.to} = {r}
                            /\ r.value = f[p]
<1> DEFINE N == MaxObject \div PageSize
           End(x) == Min({q \in Ends(f) : x <= q})
           Run(x) == [from |-> x, to |-> End(x) + 1, value |-> f[x]]
           Before_p == {a \in Starts(f) : a <= p}
<1>1. /\ Region \in SUBSET Nat /\ N \in Nat /\ Region \in SUBSET (0 .. N)
      /\ \A a, b \in Region : \A x \in a .. b : x \in Region
  BY RegionConvex
<1>2. Starts(f) \in SUBSET Region /\ Ends(f) \in SUBSET Region
  BY DEF Starts, Ends
<1> HIDE DEF N
<1>3. \E e \in Ends(f) : \A y \in Region : y <= e
  <2>1. PICK e \in Region : \A y \in Region : y <= e
    BY <1>1, Greatest
  <2>2. e + 1 \notin Region
    BY <1>1, <2>1
  <2> QED BY <2>1, <2>2 DEF Ends
<1>4. \A x \in Region : End(x) \in Ends(f) /\ x <= End(x)
                       /\ \A q \in Ends(f) : x <= q => End(x) <= q
  <2> SUFFICES ASSUME NEW x \in Region
               PROVE  End(x) \in Ends(f) /\ x <= End(x)
                      /\ \A q \in Ends(f) : x <= q => End(x) <= q
    OBVIOUS
  <2> DEFINE E == {q \in Ends(f) : x <= q}
  <2>1. E # {} /\ E \in SUBSET Nat
    BY <1>1, <1>2, <1>3
  <2>2. Min(E) \in E /\ \A y \in E : Min(E) <= y
    <3> HIDE DEF E
    <3> QED BY <2>1, Least
  <2> QED BY <2>2
<1> HIDE DEF End
<1>5. PICK s \in Before_p : \A a \in Before_p : a <= s
  <2>1. Min(Region) \in Region /\ \A y \in Region : Min(Region) <= y
    BY <1>1, Least
  <2>2. PICK m \in Region : \A y \in Region : m <= y
    BY <2>1
  <2>3. m - 1 \notin Region /\ m <= p
    BY <1>1, <2>2
  <2>4. m \in Before_p
    BY <2>3 DEF Starts
  <2>5. Before_p \in SUBSET (0 .. N)
    BY <1>1, <1>2
  <2> HIDE DEF Before_p
  <2> QED BY <1>1, <2>4, <2>5, Greatest
<1>6. s \in Starts(f) /\ s \in Region /\ s \in Nat /\ p \in Nat /\ s <= p /\ End(s) \in Nat
  BY <1>1, <1>2, <1>4, <1>5
<1>7. p <= End(s)
  <2> SUFFICES ASSUME End(s) < p PROVE FALSE
    BY <1>6
  <2>1. End(s) + 1 \in Region /\ End(s) \in Region
    BY <1>1, <1>2, <1>4, <1>6
  <2>2. f[End(s) + 1] # f[End(s)]
    BY <1>4, <1>6, <2>1 DEF Ends
  <2>3. End(s) + 1 \in Starts(f)
    BY <1>6, <2>1, <2>2 DEF Starts
  <2> QED BY <1>4, <1>5, <1>6, <2>3
<1>8. f[p] = f[s]
  <2> DEFINE D == {x \in s .. p : f[x] # f[s]}
  <2> SUFFICES ASSUME D # {} PROVE FALSE
    BY <1>6
  <2>1. D \in SUBSET Nat
    BY <1>6
  <2>2. Min(D) \in D /\ \A y \in D : Min(D) <= y
    <3> HIDE DEF D
    <3> QED BY <2>1, Least
  <2>3. PICK d \in D : \A y \in D : d <= y
    BY <2>2
  <2>4. d \in Nat /\ s < d /\ d <= p /\ f[d] # f[s]
    BY <1>6, <2>3
  <2>5. d - 1 \in s .. p /\ d - 1 \notin D
    BY <1>6, <2>3, <2>4
  <2>6. f[d - 1] = f[s]
    BY <2>5
  <2>7. d \in Region
    BY <1>1, <1>6, <2>4
  <2>8. d \in Starts(f)
    BY <2>4, <2>6, <2>7 DEF Starts
  <2> QED BY <1>5, <1>6, <2>4, <2>8
<1>9. Runs(f) = {Run(x) : x \in Starts(f)}
  BY DEF Runs, End
<1>10. ASSUME NEW x \in Starts(f), x <= p, p < End(x) + 1 PROVE x = s
  <2>1. x \in Region /\ x \in Nat /\ x <= s /\ End(x) \in Nat
    BY <1>1, <1>2, <1>4, <1>5, <1>10
  <2> SUFFICES ASSUME x < s PROVE FALSE
    BY <1>6, <2>1
  <2>2. s - 1 \in Region /\ s - 1 + 1 = s
    BY <1>1, <1>6, <2>1
  <2>3. f[s] # f[s - 1]
    BY <1>6, <2>2 DEF Starts
  <2>4. s - 1 \in Ends(f)
    BY <2>2, <2>3 DEF Ends
  <2>5. End(x) <= s - 1
    BY <1>4, <1>6, <2>1, <2>4
  <2> QED BY <1>6, <1>10, <2>1, <2>5
<1>11. \A x : Run(x).from = x /\ Run(x).to = End(x) + 1 /\ Run(x).value = f[x]
  OBVIOUS
<1>12. Run(s) \in Runs(f) /\ Run(s).from <= p /\ p < Run(s).to /\ Run(s).value = f[p]
  BY <1>6, <1>7, <1>8, <1>9, <1>11
<1>13. ASSUME NEW q \in Runs(f), q.from <= p, p < q.to PROVE q = Run(s)
  <2>1. PICK x \in Starts(f) : q = Run(x)
    BY <1>9
  <2>2. x <= p /\ p < End(x) + 1
    BY <1>11, <1>13, <2>1
  <2> QED BY <1>10, <2>1, <2>2
<1> HIDE DEF Run
<1> QED BY <1>12, <1>13

\* dump_shm leaves out default policies and nothing else.
LEMMA DumpReports ==
  ASSUME TypeOK, Opt_dump \/ Opt_dump_nodes
  PROVE  DumpComplete'
<1> SUFFICES ASSUME phase' = "options", NEW p \in Region',
                    NEW value, value = IF opt' = "dump" THEN seg'[shmfd'].pol[p] ELSE seg'[shmfd'].home[p]
             PROVE  IF opt' = "dump" /\ value = Default THEN Covering(p)' = {}
                    ELSE \E r \in printed' : Covering(p)' = {r} /\ r.value = value
  BY DEF DumpComplete
<1>1. attached /\ UNCHANGED <<shmfd, shmlen, shmoffset>> /\ shmfd \in Objects
  BY DEF Opt_dump, Opt_dump_nodes, Refuse, Fail, Rest, TypeOK, attached
<1>2. p \in Region
  BY <1>1 DEF Region, InRegion
<1>3. CASE Opt_dump
  <2> DEFINE f == seg[shmfd].pol
  <2>1. opt' = "dump" /\ seg' = seg /\ printed' = Dump_shm
    BY <1>3 DEF Opt_dump, Option, Reports, Refuse, Fail
  <2>2. value = f[p] /\ printed' = {r \in Runs(f) : r.value # Default}
    BY <1>1, <2>1 DEF Dump_shm
  <2> HIDE DEF f
  <2>3. PICK r \in Runs(f) : /\ {q \in Runs(f) : q.from <= p /\ p < q.to} = {r}
                            /\ r.value = f[p]
    BY <1>2, RangesCover
  <2> QED BY <2>1, <2>2, <2>3 DEF Covering
<1>4. CASE Opt_dump_nodes
  <2>1. PICK h : seg' = WithHome(h) /\ printed' = Dump_shm_nodes(h)
    BY <1>4 DEF Opt_dump_nodes, Refuse, Fail
  <2>2. opt' = "dump-nodes"
    BY <1>4 DEF Opt_dump_nodes, Option, Reports
  <2>3. seg'[shmfd'].home = h
    BY <1>1, <2>1 DEF WithHome, TypeOK, Contents
  <2>4. value = h[p] /\ printed' = Runs(h)
    BY <2>1, <2>2, <2>3 DEF Dump_shm_nodes
  <2>5. PICK r \in Runs(h) : /\ {q \in Runs(h) : q.from <= p /\ p < q.to} = {r}
                            /\ r.value = h[p]
    BY <1>2, RangesCover
  <2> QED BY <2>2, <2>4, <2>5 DEF Covering
<1> QED BY <1>3, <1>4

\* interleave_next goes round the mask, where the last possible number is no node.
LEMMA InterleaveNext ==
  ASSUME NNodes < NPossible, NEW nodes \in SUBSET Nodes, nodes # {}, NEW n \in Nodes
  PROVE  Interleave_next(n, nodes) = After(n, nodes)
<1> DEFINE Far(m) == (m - (n + 1)) % NPossible
           x == After(n, nodes)
<1>1. /\ n \in Nat /\ NNodes \in Nat /\ NPossible \in Nat \ {0} /\ n + 1 < NPossible
      /\ nodes \in SUBSET Nat /\ \A m \in nodes : m < NPossible
  BY ShmAssumption DEF Nodes
<1>2. \A a \in Int : a >= 0 /\ a < NPossible => a % NPossible = a
  BY <1>1
<1>3. \A a \in Int : a < 0 /\ a + NPossible >= 0 => a % NPossible = a + NPossible
  BY <1>1
<1>4. \A m \in nodes : Far(m) = IF m > n THEN m - (n + 1) ELSE m - (n + 1) + NPossible
  BY <1>1, <1>2, <1>3
<1>5. Interleave_next(n, nodes) = CHOOSE y \in nodes : \A m \in nodes : Far(y) <= Far(m)
  BY <1>1 DEF Interleave_next
<1> HIDE DEF Far
<1>6. /\ x \in nodes
      /\ \A m \in nodes : IF x > n THEN m > n => x <= m ELSE x <= m /\ m <= n
  <2>1. CASE \E m \in nodes : m > n
    <3> DEFINE S == {m \in nodes : m > n}
    <3>1. S # {} /\ S \in SUBSET Nat
      BY <1>1, <2>1
    <3>2. x = Min(S)
      BY <2>1 DEF After
    <3>3. Min(S) \in S /\ \A y \in S : Min(S) <= y
      <4> HIDE DEF S
      <4> QED BY <3>1, Least
    <3> QED BY <3>2, <3>3
  <2>2. CASE ~\E m \in nodes : m > n
    <3>1. x = Min(nodes)
      BY <2>2 DEF After
    <3>2. Min(nodes) \in nodes /\ \A y \in nodes : Min(nodes) <= y
      BY <1>1, Least
    <3> QED BY <1>1, <2>2, <3>1, <3>2
  <2> QED BY <2>1, <2>2
<1> HIDE DEF x
<1>7. \A m \in nodes : Far(x) <= Far(m)
  BY <1>1, <1>4, <1>6
<1>8. \A y \in nodes : (\A m \in nodes : Far(y) <= Far(m)) => y = x
  <2> SUFFICES ASSUME NEW y \in nodes, \A m \in nodes : Far(y) <= Far(m) PROVE y = x
    OBVIOUS
  <2>1. Far(y) <= Far(x) /\ Far(x) <= Far(y) /\ x \in nodes
    BY <1>6, <1>7
  <2>2. y \in Nat /\ x \in Nat /\ y < NPossible /\ x < NPossible
    BY <1>1, <1>6
  <2> QED BY <1>1, <1>4, <2>1, <2>2
<1>9. (CHOOSE y \in nodes : \A m \in nodes : Far(y) <= Far(m)) = x
  BY <1>6, <1>7, <1>8
<1> QED BY <1>5, <1>9 DEF x

\* A silent verify_shm has compared every page with the policy and the nodes of the options.
LEMMA VerifyReports ==
  ASSUME NNodes < NPossible, IndInv, AskedInv, Opt_verify
  PROVE  VerifySound'
<1> SUFFICES ASSUME phase' = "options", exitcode' = 0
             PROVE  VerifySound'
  BY DEF VerifySound
<1>1. attached /\ set_policy # Unset /\ mask # NULL /\ ~Refuse
  BY VerifySteps DEF NoMask, Refuse, Fail
<1>2. PICK h \in [Pages -> Nodes \cup {None}] :
         seg' = WithHome(h) /\ Verify_shm(set_policy, mask, h) /\ Rest
  BY <1>1, VerifySteps DEF NoMask, Fail
<1>3. /\ UNCHANGED <<shmfd, shmlen, shmoffset, set_policy>> /\ Region' = Region
      /\ attached /\ shmfd \in Objects /\ TypeOK
  BY <1>1, <1>2 DEF Rest, Region, InRegion, attached, IndInv, TypeOK
<1>4. seg'[shmfd'].home = h /\ seg'[shmfd'].pol = seg[shmfd].pol
  BY <1>2, <1>3 DEF WithHome, TypeOK, Contents
<1>5. Verify_shm_silent(set_policy, mask, h)
  BY <1>2 DEF Verify_shm
<1>6. ASSUME NEW p \in Region
      PROVE  /\ seg[shmfd].pol[p].mode = set_policy /\ seg[shmfd].pol[p].nodes = mask
             /\ set_policy # "LOCAL" => h[p] \in mask
             /\ set_policy = "INTERLEAVE" /\ p + 1 \in Region =>
                   h[p + 1] = Interleave_next(h[p], mask)
  <2>1. seg[shmfd].pol[p] = Policy(set_policy, mask)
    BY <1>5 DEF Verify_shm_silent
  <2>2. seg[shmfd].pol[p].mode = set_policy /\ seg[shmfd].pol[p].nodes = mask
    BY <2>1 DEF Policy
  <2>3. set_policy # "WEIGHTED"
    BY <1>3, <2>2 DEF AskedInv
  <2>4. set_policy # "LOCAL" => h[p] \in mask
    BY <1>1, <1>5, <2>3 DEF Verify_shm_silent, AskedInv, SetModes
  <2>5. p \in Nat /\ (p + 1) - 1 = p
    BY <1>3, RegionConvex
  <2>6. set_policy = "INTERLEAVE" /\ p + 1 \in Region => h[p + 1] = Interleave_next(h[p], mask)
    BY <1>5, <2>5 DEF Verify_shm_silent
  <2> QED BY <2>2, <2>4, <2>6
<1>7. \A p \in Region : set_policy = "INTERLEAVE" => Interleave_next(h[p], mask) = After(h[p], mask)
  <2>1. mask \in SUBSET Nodes
    BY <1>1, <1>3 DEF TypeOK, Specs, Same
  <2> QED BY <1>1, <1>6, <2>1, InterleaveNext
<1> QED BY <1>3, <1>4, <1>6, <1>7 DEF VerifySound

\* Other options leave no report behind.
LEMMA OtherOptions ==
  ASSUME Next, ~Opt_dump, ~Opt_dump_nodes, ~Opt_verify
  PROVE  opt' = "other"
<1> USE DEF Option, Reports
<1>1. CASE \E S \in Specs : \/ Opt_interleave(S) \/ Opt_weighted_interleave(S) \/ Opt_membind(S)
                            \/ Opt_cpunodebind(S)
  BY <1>1 DEF Opt_interleave, Opt_weighted_interleave, Opt_membind, Opt_cpunodebind, PolicyOption
<1>2. CASE \E S \in Specs : Opt_preferred(S) \/ Opt_preferred_many(S)
  BY <1>2 DEF Opt_preferred, Opt_preferred_many, PreferredRegion, PolicyOption
<1>3. CASE \/ \E C \in SUBSET Cpus : Opt_physcpubind(C)
           \/ \E n \in Sizes : Opt_length(n) \/ Opt_offset(n)
           \/ Opt_localalloc \/ Opt_shm \/ Opt_file \/ Opt_shmmode
  BY <1>3 DEF Opt_physcpubind, Opt_length, Opt_offset, Opt_localalloc, Opt_shm, Opt_file, Opt_shmmode,
              Attaching, ShmOption
<1>4. CASE \/ Opt_quiet("shmid") \/ Opt_strict \/ Opt_touch \/ Opt_all \/ Opt_balancing
           \/ Opt_hardware \/ Opt_show \/ Opt_version \/ Opt_invalid
  BY <1>4 DEF Opt_quiet, Opt_strict, Opt_touch, Opt_all, Opt_balancing, Opt_hardware, Opt_show,
              Opt_version, Opt_invalid
<1>5. CASE (\E command \in BOOLEAN : Finish(command)) \/ CannotExec
  BY <1>5 DEF Finish, CannotExec
<1> QED BY <1>1, <1>2, <1>3, <1>4, <1>5 DEF Next

\* --verify, --dump and --dump-nodes say of the region what the kernel has: every page is
\* in one range of the dump with its policy or node, and a silent verify has found
\* every page as the options ask for.  The assumption is that the last possible node
\* number is not in use: interleave_next skips number 0 when it wraps there.
THEOREM ReportsAreTrue ==
  ASSUME NNodes < NPossible
  PROVE  Spec => []ReportsTrue
<1>1. Init => ReportsTrue
  BY DEF Init, ReportsTrue, VerifySound, DumpComplete
<1>2. ASSUME IndInv, AskedInv, ReportsTrue, [Next]_vars PROVE ReportsTrue'
  <2>1. CASE UNCHANGED vars
    BY <1>2, <2>1 DEF vars, shmVars, ReportsTrue, VerifySound, DumpComplete, Covering, Region, InRegion
  <2>2. CASE Opt_dump \/ Opt_dump_nodes
    <3>1. opt' # "verify"
      BY <2>2 DEF Opt_dump, Opt_dump_nodes, Option, Reports
    <3>2. DumpComplete'
      BY <1>2, <2>2, DumpReports DEF IndInv
    <3> QED BY <3>1, <3>2 DEF ReportsTrue, VerifySound
  <2>3. CASE Opt_verify
    <3>1. opt' \notin {"dump", "dump-nodes"}
      BY <2>3 DEF Opt_verify, Option, Reports
    <3>2. VerifySound'
      BY <1>2, <2>3, VerifyReports
    <3> QED BY <3>1, <3>2 DEF ReportsTrue, DumpComplete
  <2>4. CASE Next /\ ~Opt_dump /\ ~Opt_dump_nodes /\ ~Opt_verify
    BY <2>4, OtherOptions DEF ReportsTrue, VerifySound, DumpComplete
  <2> QED BY <1>2, <2>1, <2>2, <2>3, <2>4
<1> QED BY <1>1, <1>2, AskedAlways, PTL DEF Spec
=============================================================================
