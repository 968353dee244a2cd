----------------------------- MODULE Placement -----------------------------
(***************************************************************************)
(* What one numactl command line promises about memory policies, without   *)
(* its options: it settles one policy, once, either for the process that   *)
(* will execute the command or for a part of one shared object, and only   *)
(* in the first case it executes anything.  A command line that is refused *)
(* has no process any more; of the shared objects it can have changed no   *)
(* more than the part that it had attached.                                *)
(***************************************************************************)
CONSTANTS Objects, Pages, Policies, Default

VARIABLES target,       \* the attached object, "none" for the process itself
          part,         \* the pages of an object that are meant
          settled,      \* a policy was given
          own,          \* policy of the process
          shared,       \* policies of the pages of the objects
          fate          \* "options" until the command line is used up

vars == <<target, part, settled, own, shared, fate>>

Init ==
    /\ target = "none" /\ part \in SUBSET Pages /\ settled = FALSE /\ own = Default
    /\ shared \in [Objects -> [Pages -> Policies]] /\ fate = "options"

\* Nothing but the attached part differs.
OnlyPart ==
    \A o \in Objects, p \in Pages : shared'[o][p] # shared[o][p] => o = target /\ p \in part

\* The part is described before an object is attached.
Describe ==
    /\ fate = "options" /\ target = "none" /\ part' \in SUBSET Pages
    /\ UNCHANGED <<target, settled, own, shared, fate>>

Attach ==
    /\ fate = "options" /\ ~settled
    /\ target' \in Objects /\ part' \in SUBSET Pages
    /\ UNCHANGED <<settled, own, shared, fate>>

Settle ==
    /\ fate = "options" /\ ~settled /\ settled' = TRUE
    /\ IF target = "none" THEN own' \in Policies /\ UNCHANGED shared
                          ELSE OnlyPart /\ UNCHANGED own
    /\ UNCHANGED <<target, part, fate>>

Refuse ==
    /\ fate = "options" /\ fate' = "failed"
    /\ target' = "none" /\ settled' = FALSE /\ own' = Default /\ part' \in SUBSET Pages
    /\ OnlyPart

End ==
    /\ fate = "options" /\ fate' \in {"exited", "execd", "crashed"}
    /\ fate' = "execd" => target = "none"
    /\ UNCHANGED <<target, part, settled, own, shared>>

Next == Describe \/ Attach \/ Settle \/ Refuse \/ End

Spec == Init /\ [][Next]_vars
============================================================================
