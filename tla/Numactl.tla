------------------------------ MODULE Numactl ------------------------------
(***************************************************************************)
(* The numactl command (numactl.c): main handles one option at a time, in  *)
(* the order of the command line, and each option takes effect at once, on *)
(* the process or on the shared memory attached by then.  When the options *)
(* are used up it executes the command, or exits.  Composes Shm.           *)
(*                                                                         *)
(* A node specification is the set of nodes it comes to, which is empty    *)
(* for an empty string and for !all; Same stands for "same".  What --all   *)
(* lets it name beyond the nodes of the machine is left out.  Library      *)
(* calls do what MemPolicy says they do, here for one thread; a call that  *)
(* fails leaves errno set and the command exits.                           *)
(***************************************************************************)
EXTENDS Shm, FiniteSets, FiniteSetsExt

CONSTANTS Cpus,         \* CPU c is the CPU of node c; nodes without one have memory only
          CpusAllowed,  \* CPUs of the cpuset
          Features,     \* of the kernel: "many", "balancing", "weighted"
          Before,       \* the shared objects there may be at the start
          Sizes,        \* arguments of --length and --offset
          MaxOpts       \* bound on the options of one command line

Contents ==
    [Objects -> [exists : BOOLEAN, size : 0 .. MaxObject, pol : [Pages -> Policies],
                 home : [Pages -> Nodes \cup {None}]]]

ASSUME NumactlAssumption ==
    /\ Cpus \subseteq Nodes /\ CpusAllowed \in (SUBSET Cpus) \ {{}}
    /\ Features \subseteq {"many", "balancing", "weighted"}
    /\ Before \subseteq Contents
    /\ Sizes \subseteq 0 .. SizeMax /\ MaxOpts \in Nat

NULL == {None}                       \* no bitmask, no string: not a set of nodes
Same == NULL
Specs == (SUBSET Nodes) \cup {Same}
Unset == "unset"
Reports == {"dump", "dump-nodes", "verify"}

VARIABLES
    set_policy, shmoption, did_node_cpu_parse, did_cpubind, do_dump, do_hardware, parse_all,
    numa_balancing,
    mask,         \* nodes of the last node option
    last,         \* previous node specification
    pol,          \* memory policy of the process
    affinity,     \* CPUs the process may run on
    opt,          \* the option handled last, if it reports on the region
    asked,        \* the policy option given, with its nodes
    bound,        \* CPUs of the last cpu or node binding asked for
    nopts

flags == <<shmoption, did_cpubind, do_dump, do_hardware, parse_all, numa_balancing>>
parsed == <<did_node_cpu_parse, mask, last>>
task == <<pol, affinity>>
wish == <<asked, bound>>
vars == <<shmVars, set_policy, flags, parsed, task, wish, opt, nopts>>

NoWish == [opt |-> "none", nodes |-> {}]

TaskInit ==
    /\ set_policy = Unset /\ shmoption = FALSE /\ did_node_cpu_parse = FALSE
    /\ did_cpubind = FALSE /\ do_dump = FALSE /\ do_hardware = FALSE /\ parse_all = FALSE
    /\ numa_balancing = FALSE /\ mask = NULL /\ last = NULL
    /\ pol = Default /\ affinity = CpusAllowed
    /\ asked = NoWish /\ bound = CpusAllowed

Init ==
    /\ seg \in Before
    /\ ShmInit /\ TaskInit
    /\ phase = "options" /\ opt = "other" /\ nopts = 0

\* getopt_long returns the next option.  Only those that report on the region are
\* remembered.
Option(o) ==
    /\ phase = "options" /\ nopts < MaxOpts
    /\ opt' = (IF o \in Reports THEN o ELSE "other") /\ nopts' = nopts + 1

\* The process has exited.
TaskGone ==
    /\ set_policy' = Unset /\ shmoption' = FALSE /\ did_node_cpu_parse' = FALSE
    /\ did_cpubind' = FALSE /\ do_dump' = FALSE /\ do_hardware' = FALSE /\ parse_all' = FALSE
    /\ numa_balancing' = FALSE /\ mask' = NULL /\ last' = NULL
    /\ pol' = Default /\ affinity' = CpusAllowed
    /\ asked' = NoWish /\ bound' = CpusAllowed

\* usage() or a failing call: the command exits without doing more.
Refuse == Fail /\ TaskGone /\ UNCHANGED seg
----------------------------------------------------------------------------
(* Node specifications. *)

\* numactl_parse_nodestring: "same" stands for the specification before it.
Spec_of(S) == IF S = Same THEN last ELSE S

\* __numa_parse_nodestring: without --all the nodes named are of the cpuset, all
\* those of S or, after a "!", all the others, of which there must be one then.
Parses(S) ==
    LET T == Spec_of(S)
    IN  T # NULL /\ (parse_all \/ T \subseteq Allowed \/ (T # Nodes /\ Nodes \ T \subseteq Allowed))


Parsed(S) ==
    /\ did_node_cpu_parse' = TRUE
    /\ mask' = Spec_of(S)
    /\ last' = Spec_of(S)
----------------------------------------------------------------------------
(* Policies: set_mempolicy for the process, mbind for an attached region. *)

\* set_mempolicy: the kernel knows the mode, and a node is left to it.
SetpolOK(policy) ==
    /\ policy.mode = "WEIGHTED" => "weighted" \in Features
    /\ policy.mode \notin {"LOCAL", "DEFAULT"} => policy.nodes \cap Allowed # {}

Setpol(policy) == pol' = Policy(policy.mode, policy.nodes \cap Allowed)

\* setpolicy and the call that follows, on the region or on the process.
CanApply(onregion, onprocess) ==
    /\ set_policy = Unset
    /\ IF attached THEN MbindOK(onregion) ELSE SetpolOK(onprocess)

Apply(o, nodes, policy, onregion, onprocess) ==
    /\ set_policy' = policy
    /\ asked' = [opt |-> o, nodes |-> nodes]
    /\ IF attached THEN seg' = Bound(onregion) /\ UNCHANGED pol
                   ELSE Setpol(onprocess) /\ UNCHANGED seg
    /\ UNCHANGED <<process, phase, flags, affinity, bound>>

PolicyOption(o, S, policy, onregion, onprocess) ==
    /\ Option(o)
    /\ IF Parses(S) /\ CanApply(onregion, onprocess)
       THEN Parsed(S) /\ Apply(o, Spec_of(S), policy, onregion, onprocess)
       ELSE Refuse

\* numa_set_interleave_mask and its weighted form: no node asks for MPOL_DEFAULT.
Interleaving(mode, nodes) == IF nodes = {} THEN Default ELSE Policy(mode, nodes)

Opt_interleave(S) ==
    PolicyOption("interleave", S, "INTERLEAVE",
                 Policy("INTERLEAVE", Spec_of(S)), Interleaving("INTERLEAVE", Spec_of(S)))

\* --weighted-interleave falls into the code of --interleave, which has one call
\* for shared memory.
Opt_weighted_interleave(S) ==
    PolicyOption("weighted-interleave", S, "WEIGHTED",
                 Policy("INTERLEAVE", Spec_of(S)), Interleaving("WEIGHTED", Spec_of(S)))

\* Mutant: --balancing is dropped on the way to set_mempolicy.
MembindUnbalanced(S) ==
    PolicyOption("membind", S, "BIND", Policy("BIND", Spec_of(S)), Policy("BIND", Spec_of(S)))

Opt_membind(S) ==
    LET balanced == numa_balancing /\ "balancing" \in Features
    IN  PolicyOption("membind", S, "BIND", Policy("BIND", Spec_of(S)),
                     Policy(IF balanced THEN "BALANCED" ELSE "BIND", Spec_of(S)))

\* numa_set_bind_policy(0)
Loose == IF "many" \in Features THEN "MANY" ELSE "PREFERRED"

\* find_first, which is of no node for no nodes.
First(nodes) == {n \in nodes : \A m \in nodes : n <= m}

\* numa_tonode_memory: MPOL_PREFERRED without a node is MPOL_LOCAL.
Tonode(nodes) ==
    IF nodes = {} /\ Loose = "PREFERRED" THEN Policy("LOCAL", {}) ELSE Policy(Loose, First(nodes))

\* Mutant: the binding is loosened only after the region was bound.
PreferredRegionBound(o, S) ==
    LET p == Policy("BIND", First(Spec_of(S)))
    IN  /\ attached /\ Option(o)
        /\ IF Parses(S) /\ MbindOK(p)
           THEN IF set_policy = Unset
                THEN Parsed(S) /\ Apply(o, Spec_of(S), Loose, p, p)
                ELSE Fail /\ TaskGone /\ seg' = Bound(p)
           ELSE Refuse

\* --preferred and --preferred-many on shared memory bind the region to the first
\* node before they look for another policy.
PreferredRegion(o, S) ==
    LET p == Tonode(Spec_of(S))
    IN  /\ attached /\ Option(o)
        /\ IF Parses(S) /\ MbindOK(p)
           THEN IF set_policy = Unset
                THEN Parsed(S) /\ Apply(o, Spec_of(S), Loose, p, p)
                ELSE Fail /\ TaskGone /\ seg' = Bound(p)
           ELSE Refuse

Opt_preferred(S) ==
    IF attached THEN PreferredRegion("preferred", S)
    ELSE IF Cardinality(Spec_of(S)) # 1 THEN Option("preferred") /\ Refuse
    ELSE LET p == Policy("PREFERRED", Spec_of(S))
         IN  PolicyOption("preferred", S, "PREFERRED", p, p)

Opt_preferred_many(S) ==
    IF "many" \notin Features THEN Option("preferred-many") /\ Refuse
    ELSE IF attached THEN PreferredRegion("preferred-many", S)
    ELSE LET p == Policy("MANY", Spec_of(S))
         IN  PolicyOption("preferred-many", S, "MANY", p, p)

Opt_localalloc ==
    LET p == Policy("LOCAL", {})
    IN  /\ Option("localalloc")
        /\ IF CanApply(p, p)
           THEN Apply("localalloc", {}, "LOCAL", p, p) /\ UNCHANGED parsed
           ELSE Refuse
----------------------------------------------------------------------------
(* Affinity.  do_shm is never set, so shared memory does not forbid it. *)

\* sched_setaffinity
SetaffinityOK(cpus) == cpus \cap CpusAllowed # {}
Setaffinity(cpus) ==
    /\ affinity' = cpus \cap CpusAllowed
    /\ did_cpubind' = TRUE
    /\ UNCHANGED <<seg, process, phase, set_policy, shmoption, do_dump, do_hardware, parse_all,
                   numa_balancing, pol, asked>>

Opt_cpunodebind(S) ==
    /\ Option("cpunodebind")
    /\ IF ~shmoption /\ Parses(S) /\ SetaffinityOK(Spec_of(S) \cap Cpus)
       THEN /\ Parsed(S)
            /\ Setaffinity(Spec_of(S) \cap Cpus)
            /\ bound' = Spec_of(S) \cap Cpus
       ELSE Refuse

\* numa_parse_cpustring takes every number below that of the configured CPUs.
Opt_physcpubind(C) ==
    /\ Option("physcpubind")
    /\ IF ~shmoption /\ SetaffinityOK(C)
       THEN /\ did_node_cpu_parse' = TRUE
            /\ Setaffinity(C)
            /\ bound' = C
            /\ UNCHANGED <<mask, last>>
       ELSE Refuse
----------------------------------------------------------------------------
(* Shared memory options. *)

nopolicy == set_policy = Unset

\* Mutant: a policy of the process does not keep --shm away.
MayAttachAnyway == ~did_cpubind

\* check_cpubind(did_cpubind), nopolicy(), then attach.
MayAttach == ~did_cpubind /\ nopolicy

Attaching(o, how) ==
    /\ Option(o)
    /\ IF MayAttach
       THEN /\ how
            /\ IF phase' = "failed" THEN TaskGone
               ELSE UNCHANGED <<set_policy, flags, parsed, task, wish>>
       ELSE Refuse

Opt_shm == Attaching("shm", Attach_sysvshm \/ AttachDenied)
Opt_file == Attaching("file", Attach_shared \/ AttachDenied)

\* noshm: these come before the shared memory they are about.
MayShape == ~attached

ShmOption(o, len, off) ==
    /\ Option(o)
    /\ IF MayShape
       THEN /\ shmoption' = TRUE /\ shmlen' = len /\ shmoffset' = off
            /\ UNCHANGED <<seg, shmfd, strict, exitcode, printed, phase, set_policy, did_cpubind,
                           do_dump, do_hardware, parse_all, numa_balancing, parsed, task, wish>>
       ELSE Refuse

Opt_length(n) == ShmOption("length", n, shmoffset)
Opt_offset(n) == ShmOption("offset", shmlen, n)

\* --shmmode and --huge; mode and page size are left out.
Opt_shmmode == ShmOption("shmmode", shmlen, shmoffset)

\* --shmid and --cpu-compress change nothing that is modelled.
Opt_quiet(o) == Option(o) /\ UNCHANGED <<shmVars, set_policy, flags, parsed, task, wish>>

Opt_strict ==
    /\ Option("strict") /\ strict' = TRUE
    /\ UNCHANGED <<seg, shmfd, shmlen, shmoffset, exitcode, printed, phase, set_policy, flags,
                   parsed, task, wish>>

Rest == UNCHANGED <<shmfd, shmlen, shmoffset, strict, set_policy, shmoption, did_cpubind,
                    do_hardware, parse_all, numa_balancing, parsed, task, wish>>

Opt_dump ==
    /\ Option("dump")
    /\ IF attached /\ Backed
       THEN /\ printed' = Dump_shm /\ do_dump' = TRUE
            /\ Rest /\ UNCHANGED <<seg, exitcode, phase>>
       ELSE Refuse

Opt_dump_nodes ==
    /\ Option("dump-nodes")
    /\ IF attached /\ Backed
       THEN \E h \in [Pages -> Nodes \cup {None}] :
            /\ Touched(h) /\ seg' = WithHome(h)
            /\ printed' = Dump_shm_nodes(h) /\ do_dump' = TRUE
            /\ Rest /\ UNCHANGED <<exitcode, phase>>
       ELSE Refuse

\* needshm and check_shmbeyond, which compares the offset with the length.
MayTouch == attached /\ shmoffset < shmlen

\* A region that is not backed to its end gives SIGSEGV.
Opt_touch ==
    /\ Option("touch")
    /\ IF ~MayTouch THEN Refuse
       ELSE /\ IF Backed
               THEN phase' = phase /\ \E h \in [Pages -> Nodes \cup {None}] :
                                        Touched(h) /\ seg' = WithHome(h)
               ELSE phase' = "crashed" /\ UNCHANGED seg
            /\ Rest /\ UNCHANGED <<exitcode, printed, do_dump>>

\* The pages are touched before the complaint that there is no mask.  The region is
\* backed, for it has a policy.
Opt_verify ==
    /\ Option("verify")
    /\ IF ~MayTouch \/ set_policy = Unset THEN Refuse
       ELSE \E h \in [Pages -> Nodes \cup {None}] :
            /\ Touched(h) /\ seg' = WithHome(h)
            /\ IF mask = NULL THEN Fail /\ TaskGone
               ELSE /\ Verify_shm(set_policy, mask, h)
                    /\ Rest /\ UNCHANGED <<printed, phase, do_dump>>
----------------------------------------------------------------------------
(* Flags and the end of the command line. *)

MayAll == ~did_node_cpu_parse

Opt_all ==
    /\ Option("all")
    /\ IF MayAll
       THEN /\ parse_all' = TRUE
            /\ UNCHANGED <<shmVars, set_policy, shmoption, did_cpubind, do_dump, do_hardware,
                           numa_balancing, parsed, task, wish>>
       ELSE Refuse

Opt_balancing ==
    /\ Option("balancing")
    /\ IF nopolicy
       THEN /\ numa_balancing' = TRUE
            /\ UNCHANGED <<shmVars, set_policy, shmoption, did_cpubind, do_dump, do_hardware,
                           parse_all, parsed, task, wish>>
       ELSE Refuse

Opt_hardware ==
    /\ Option("hardware")
    /\ IF nopolicy
       THEN /\ do_hardware' = TRUE
            /\ UNCHANGED <<shmVars, set_policy, shmoption, did_cpubind, do_dump, parse_all,
                           numa_balancing, parsed, task, wish>>
       ELSE Refuse

Over(how) ==
    /\ phase' = how
    /\ UNCHANGED <<seg, process, set_policy, flags, parsed, task, wish>>

\* --show exits at once, --version unless a policy was set.
Opt_show == Option("show") /\ Over("exited")
Opt_version == Option("version") /\ IF nopolicy THEN Over("exited") ELSE Refuse

\* An option that is not one, or a list or number that cannot be parsed.
Opt_invalid == Option("invalid") /\ Refuse

\* The options are used up; the rest of the line is a command or empty.
Finish(command) ==
    /\ phase = "options" /\ opt' = "other" /\ UNCHANGED nopts
    /\ IF do_hardware THEN Over("exited")
       ELSE IF attached THEN IF command THEN Refuse ELSE Over("exited")
       ELSE IF do_dump \/ shmoption \/ ~command THEN Refuse
       ELSE Over("execd")

\* execvp fails.
CannotExec ==
    /\ phase = "options" /\ opt' = "other" /\ UNCHANGED nopts
    /\ ~do_hardware /\ ~attached /\ ~do_dump /\ ~shmoption
    /\ Refuse

Next ==
    \/ \E S \in Specs : \/ Opt_interleave(S) \/ Opt_weighted_interleave(S) \/ Opt_membind(S)
                        \/ Opt_preferred(S) \/ Opt_preferred_many(S) \/ Opt_cpunodebind(S)
    \/ \E C \in SUBSET Cpus : Opt_physcpubind(C)
    \/ Opt_localalloc \/ Opt_shm \/ Opt_file
    \/ \E n \in Sizes : Opt_length(n) \/ Opt_offset(n)
    \/ Opt_shmmode \/ Opt_quiet("shmid") \/ Opt_strict \/ Opt_dump \/ Opt_dump_nodes \/ Opt_touch \/ Opt_verify
    \/ Opt_all \/ Opt_balancing \/ Opt_hardware \/ Opt_show \/ Opt_version
    \/ Opt_invalid
    \/ \E command \in BOOLEAN : Finish(command)
    \/ CannotExec

Spec == Init /\ [][Next]_vars
----------------------------------------------------------------------------
(* Properties. *)

TypeOK ==
    /\ seg \in Contents
    /\ shmfd \in Objects \cup {"none"}
    /\ shmlen \in 0 .. SizeMax /\ shmoffset \in 0 .. SizeMax
    /\ strict \in BOOLEAN /\ exitcode \in {0, 1}
    /\ phase \in {"options", "failed", "exited", "execd", "crashed"}
    /\ set_policy \in Modes \cup {Unset}
    /\ shmoption \in BOOLEAN /\ did_node_cpu_parse \in BOOLEAN /\ did_cpubind \in BOOLEAN
    /\ do_dump \in BOOLEAN /\ do_hardware \in BOOLEAN /\ parse_all \in BOOLEAN
    /\ numa_balancing \in BOOLEAN
    /\ mask \in Specs /\ last \in Specs
    /\ pol \in Policies /\ affinity \in SUBSET Cpus
    /\ bound \in SUBSET Cpus /\ asked.nodes \in SUBSET Nodes /\ nopts \in 0 .. MaxOpts

\* The policy that numactl.8 describes for a policy option.  An empty mask turns
\* interleaving off (numa.3:512, numa.3:541).
Described(o, nodes) ==
    CASE o = "none" -> Default
      [] o \in {"interleave", "weighted-interleave"} /\ nodes = {} -> Default
      [] o = "interleave" /\ nodes # {} -> Policy("INTERLEAVE", nodes)
      [] o = "weighted-interleave" /\ nodes # {} -> Policy("WEIGHTED", nodes)
      [] o = "membind" -> Policy(IF numa_balancing /\ "balancing" \in Features /\ ~attached
                                 THEN "BALANCED" ELSE "BIND", nodes)
      [] o = "preferred" -> Policy(IF attached THEN Loose ELSE "PREFERRED", nodes)
      [] o = "preferred-many" -> Policy("MANY", nodes)
      [] o = "localalloc" -> Policy("LOCAL", {})

\* numactl.8: the command runs with the memory policy and on the CPUs that the
\* options ask for, in whatever order they came.  A list without nodes binds
\* nothing: the command either is not executed or does not interleave.
ExecAsAsked ==
    phase = "execd" =>
        /\ pol = Described(asked.opt, asked.nodes \cap Allowed)
        /\ affinity = bound \cap CpusAllowed

OnePolicyStep == pol' # pol /\ phase' # "failed" => pol = Default

\* "Conflicting policies": the process never gets a second policy over a first.
OneProcessPolicy == [][OnePolicyStep]_vars

\* Policies for shared memory and for a process do not mix: a command line that
\* has attached shared memory left the policy of its own process alone, and so
\* executes nothing under a half-set policy.
SegmentNotProcess == attached => pol = Default /\ phase # "execd"

\* The pages of the attached region have the policy that was asked for, as long
\* as the command goes well.  --weighted-interleave is left out, which gets
\* MPOL_INTERLEAVE here, and lists of several nodes for the preferred policies,
\* of which only the first one counts.
SegmentAsAsked ==
    /\ attached /\ set_policy # Unset /\ phase \in {"options", "exited"}
    /\ asked.opt # "weighted-interleave"
    /\ asked.opt \in {"preferred", "preferred-many"} => Cardinality(asked.nodes) = 1
    => \A p \in Region : seg[shmfd].pol[p] = Described(asked.opt, asked.nodes \cap Allowed)

\* The comment in attach_shared: the file covers the mapped region, so that no
\* access gives SIGBUS.  A segment does when the region starts at its beginning.
RegionBacked == attached /\ (shmfd = "file" \/ shmoffset = 0) => Backed

\* The node after n in a mask, round robin.
After(n, nodes) ==
    IF \E m \in nodes : m > n THEN Min({m \in nodes : m > n}) ELSE Min(nodes)

\* A --verify that says nothing has seen every page of the region under the
\* policy of the command line, on a node of that policy, and in turn if it is
\* interleaved.  Holds where the last possible node number is unused.
VerifySound ==
    opt = "verify" /\ phase = "options" /\ exitcode = 0 =>
        LET s == seg[shmfd]
        IN  \A p \in Region :
                /\ s.pol[p].mode = set_policy
                /\ s.pol[p].mode # "LOCAL" => s.home[p] \in s.pol[p].nodes
                /\ set_policy = "INTERLEAVE" /\ p + 1 \in Region =>
                      s.home[p + 1] = After(s.home[p], s.pol[p].nodes)

Covering(p) == {r \in printed : r.from <= p /\ p < r.to}

\* --dump and --dump-nodes account for every page of the region once: for the
\* policy of a page unless it is the default, and for the node of a page.
DumpComplete ==
    opt \in {"dump", "dump-nodes"} /\ phase = "options" =>
        \A p \in Region :
            LET value == IF opt = "dump" THEN seg[shmfd].pol[p] ELSE seg[shmfd].home[p]
            IN  IF opt = "dump" /\ value = Default THEN Covering(p) = {}
                ELSE \E r \in printed : Covering(p) = {r} /\ r.value = value

\* What --verify and --dump say of the region is what the kernel has.
ReportsTrue == VerifySound /\ DumpComplete

\* The command line as Placement sees it.
P == INSTANCE Placement WITH
        target <- shmfd, part <- Region, settled <- set_policy # Unset, own <- pol,
        shared <- [o \in Objects |-> seg[o].pol], fate <- phase

\* However options are ordered, a command line settles one policy in one place, changes
\* nothing outside the attached region even when it is refused after mbind
\* (numactl.c:652), and with shared memory attached executes nothing.
SettlesOnce == P!Spec

----------------------------------------------------------------------------
(* The inductive invariant behind the theorems of NumactlProofs. *)

\* Whoever changed the policy of the process has set set_policy, which the
\* options that attach shared memory look at.
PolicyRecorded == pol # Default => set_policy # Unset

IndInv == TypeOK /\ PolicyRecorded /\ SegmentNotProcess /\ RegionBacked

\* What the policy option asks for, and whether the region can be given just that.
Wanted == Described(asked.opt, asked.nodes \cap Allowed)
Bindable ==
    /\ asked.opt # "weighted-interleave"
    /\ asked.opt \in {"preferred", "preferred-many"} => Cardinality(asked.nodes) = 1

\* The modes that some option gives to set_policy.
SetModes == {Unset, "INTERLEAVE", "WEIGHTED", "BIND", "PREFERRED", "MANY", "LOCAL"}

\* Until the policy option comes nothing is asked for.  After it the process, or
\* the region if one is attached, has what was asked for.  A region never has
\* MPOL_WEIGHTED_INTERLEAVE.
AskedInv ==
    /\ set_policy = Unset => asked = NoWish
    /\ affinity = bound \cap CpusAllowed
    /\ ~attached => pol = Wanted
    /\ attached /\ set_policy # Unset /\ Bindable => \A p \in Region : seg[shmfd].pol[p] = Wanted
    /\ set_policy \in SetModes
    /\ attached /\ set_policy = "WEIGHTED" => \A p \in Region : seg[shmfd].pol[p].mode = "INTERLEAVE"
----------------------------------------------------------------------------
(* What the documentation says, and the code does not do. *)

\* numactl.8, --length: the default is to use the remaining length.
RemainingLength == attached => Backed
============================================================================
