-------------------------------- MODULE Shm --------------------------------
(***************************************************************************)
(* Shared memory policies of the numactl command (shm.c): attaching a SysV *)
(* segment or a shared file, binding a region of it, touching, dumping and *)
(* verifying it.  Sizes, offsets and lengths are in units of which         *)
(* PageSize make a page; SizeMax plays the part of SIZE_MAX.  The kernel   *)
(* is modelled by what mbind, get_mempolicy and page faults do to shared   *)
(* memory.  Huge pages are left out.                                       *)
(***************************************************************************)
EXTENDS Integers, Sequences, SequencesExt

CONSTANTS NNodes,      \* nodes of the machine
          NPossible,   \* numa_num_possible_nodes()
          Allowed,     \* nodes of the cpuset
          PageSize,
          SizeMax,     \* the largest unsigned number
          MaxObject    \* the largest segment or file the kernel grants

ASSUME ShmAssumption ==
    /\ NNodes \in Nat \ {0} /\ NPossible \in Nat /\ NNodes <= NPossible
    /\ Allowed \in (SUBSET (0 .. NNodes - 1)) \ {{}}
    /\ PageSize \in Nat \ {0} /\ MaxObject \in Nat /\ SizeMax \in Nat
    /\ 2 * MaxObject < SizeMax

None == -1
Nodes == 0 .. NNodes - 1
Objects == {"shm", "file"}                \* what --shm and --file name
Pages == 0 .. MaxObject \div PageSize - 1
Policy(mode, nodes) == [mode |-> mode, nodes |-> nodes]
Modes == {"DEFAULT", "INTERLEAVE", "WEIGHTED", "BIND", "BALANCED", "PREFERRED", "MANY", "LOCAL"}
Policies == [mode : Modes, nodes : SUBSET Nodes]
Default == Policy("DEFAULT", {})
MaxOff == SizeMax \div 2                  \* the largest off_t

VARIABLES
    seg,          \* the objects in the kernel: existence, size, policies, pages
    shmfd, shmlen, shmoffset,
    strict,       \* mbind_flags has MPOL_MF_STRICT
    exitcode,
    printed,      \* ranges written by the last dump
    phase         \* how far the command got

shmVars == <<seg, shmfd, shmlen, shmoffset, strict, exitcode, printed, phase>>
process == <<shmfd, shmlen, shmoffset, strict, exitcode, printed>>

Absent == [exists |-> FALSE, size |-> 0,
           pol |-> [p \in Pages |-> Default], home |-> [p \in Pages |-> None]]

ShmInit ==
    /\ shmfd = "none" /\ shmlen = 0 /\ shmoffset = 0 /\ strict = FALSE
    /\ exitcode = 0 /\ printed = {}

attached == shmfd # "none"

\* An error message and exit(1): the process and its variables are gone, what was
\* done to an object stays done.
Fail ==
    /\ phase' = "failed"
    /\ shmfd' = "none" /\ shmlen' = 0 /\ shmoffset' = 0 /\ strict' = FALSE
    /\ exitcode' = 0 /\ printed' = {}

\* The sum of two sizes, as the machine computes it.
Plus(x, y) == (x + y) % (SizeMax + 1)
----------------------------------------------------------------------------
(* Attaching. *)

\* Mutant: the check that the region fits the address space is missing.
NeverOutOfRange == FALSE

OutOfRangeSysv == shmlen > SizeMax - shmoffset
OutOfRangeShared == shmoffset > MaxOff \/ shmlen > MaxOff - shmoffset

\* The region must be made of whole pages and must not be empty.
Check_region(len) == len % PageSize = 0 /\ len # 0

Resize(o, size) == [seg EXCEPT ![o].exists = TRUE, ![o].size = size]

Attach(o, len) ==
    /\ shmfd' = o /\ shmlen' = len
    /\ UNCHANGED <<shmoffset, strict, exitcode, printed, phase>>

\* shmget of an existing segment, of its whole length if none was asked for.
Attach_sysvshm_existing ==
    LET len == IF shmlen = 0 THEN seg["shm"].size ELSE shmlen
    IN  /\ seg["shm"].exists /\ UNCHANGED seg
        /\ IF /\ ~OutOfRangeSysv /\ shmlen <= seg["shm"].size
              /\ len <= SizeMax - shmoffset
              /\ shmoffset % PageSize = 0 /\ Check_region(len)
           THEN Attach("shm", len)
           ELSE Fail

\* ENOENT: the segment is created, and stays even if the region is refused.
Attach_sysvshm_create ==
    /\ ~seg["shm"].exists
    /\ IF ~OutOfRangeSysv /\ shmlen # 0 /\ Plus(shmlen, shmoffset) <= MaxObject
       THEN /\ seg' = Resize("shm", Plus(shmlen, shmoffset))
            /\ IF shmoffset % PageSize = 0 /\ Check_region(shmlen)
               THEN Attach("shm", shmlen) ELSE Fail
       ELSE Fail /\ UNCHANGED seg

Attach_sysvshm == Attach_sysvshm_existing \/ Attach_sysvshm_create

\* ftruncate, when the file ends before the region.
Extend ==
    IF Plus(shmlen, shmoffset) > seg["file"].size
    THEN Plus(shmlen, shmoffset) ELSE seg["file"].size

\* open or create, extend, check and map.
Attach_shared ==
    IF OutOfRangeShared \/ (~seg["file"].exists /\ shmlen = 0)
    THEN Fail /\ UNCHANGED seg
    ELSE IF Extend > MaxObject
    THEN Fail /\ seg' = Resize("file", seg["file"].size)
    ELSE /\ seg' = Resize("file", Extend)
         /\ IF Check_region(shmlen) /\ shmoffset % PageSize = 0
            THEN Attach("file", shmlen) ELSE Fail

\* A key file, segment, file or mapping that the system denies.
AttachDenied == Fail /\ UNCHANGED seg
----------------------------------------------------------------------------
(* The attached region. *)

InRegion(p) == shmoffset <= p * PageSize /\ p * PageSize < shmoffset + shmlen
Region == {p \in Pages : InRegion(p)}

\* No part of the region lies past the end of the object.
Backed == shmoffset + shmlen <= seg[shmfd].size

\* mbind: the region is mapped, a node is left under the cpuset, and with
\* MPOL_MF_STRICT no page is already somewhere else.
MbindOK(policy) ==
    /\ Backed
    /\ policy.mode # "LOCAL" => policy.nodes \cap Allowed # {}
    /\ strict => \A p \in Region : seg[shmfd].home[p] \in policy.nodes \cup {None}

Bound(policy) ==
    [seg EXCEPT ![shmfd].pol =
        [p \in Pages |-> IF p \in Region THEN Policy(policy.mode, policy.nodes \cap Allowed)
                                         ELSE @[p]]]

\* Where a page may be once it was touched.  Only MPOL_BIND forbids falling back
\* to another node.
Placements(p) ==
    LET s == seg[shmfd]
    IN  IF s.home[p] # None THEN {s.home[p]}
        ELSE IF s.pol[p].mode = "BIND" THEN s.pol[p].nodes ELSE Allowed

\* numa_police_memory over the region.
Touched(h) ==
    /\ h \in [Pages -> Nodes \cup {None}]
    /\ \A p \in Pages : IF p \in Region THEN h[p] \in Placements(p) ELSE h[p] = seg[shmfd].home[p]

WithHome(h) == [seg EXCEPT ![shmfd].home = h]

\* The loop shared by dump_shm and dump_shm_nodes: a page that differs from the one
\* before it starts a range, which ends where the next one starts or the region ends.
Starts(f) == {p \in Region : p - 1 \in Region => f[p] # f[p - 1]}
Ends(f) == {p \in Region : p + 1 \in Region => f[p + 1] # f[p]}
Runs(f) ==
    {[from |-> p, to |-> Min({q \in Ends(f) : p <= q}) + 1, value |-> f[p]] : p \in Starts(f)}

\* dumppol says nothing of MPOL_DEFAULT.
Dump_shm == {r \in Runs(seg[shmfd].pol) : r.value # Default}

\* Asking for the node of a page brings the page in.
Dump_shm_nodes(h) == Runs(h)

\* Mutant: the search starts at the current node itself.
InterleaveSame(cur, nodes) == cur

\* interleave_next: the next node of the mask; the search wraps at NPossible,
\* one position too far when it starts at the last number.
Interleave_next(cur, nodes) ==
    LET start == IF cur + 1 < NPossible THEN cur + 1 ELSE (cur + 2) % NPossible
        Far(n) == (n - start) % NPossible
    IN  CHOOSE n \in nodes : \A m \in nodes : Far(n) <= Far(m)

\* verify_shm is silent: every page has the policy and the mask, and sits on a
\* node of the mask, in turn for MPOL_INTERLEAVE.
Verify_shm_silent(policy, mask, h) ==
    \A p \in Region :
        /\ seg[shmfd].pol[p] = Policy(policy, mask)
        /\ policy \in {"BIND", "PREFERRED", "MANY", "INTERLEAVE"} => h[p] \in mask
        /\ policy = "INTERLEAVE" /\ p - 1 \in Region => h[p] = Interleave_next(h[p - 1], mask)

\* Mutant: complaints are counted.
VerifyCounts(policy, mask, h) ==
    exitcode' = IF Verify_shm_silent(policy, mask, h) THEN exitcode ELSE exitcode + 1

Verify_shm(policy, mask, h) ==
    exitcode' = IF Verify_shm_silent(policy, mask, h) THEN exitcode ELSE 1
============================================================================
