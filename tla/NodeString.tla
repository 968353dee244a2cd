----------------------------- MODULE NodeString -----------------------------
(***************************************************************************)
(* Node and CPU lists (libnuma.c): numa_parse_nodestring,                  *)
(* numa_parse_cpustring and their _all forms.  A string is its leading     *)
(* signs, the items between commas and whether it ends after the last      *)
(* item; a name takes in all that follows it, so only the last item can be *)
(* one, but for pci: whose format ignores what it does not need.  Only the *)
(* empty string has no items: a sign with nothing after it is junk.        *)
(***************************************************************************)
EXTENDS Affinity

Nr(a) == [t |-> "nr", a |-> a, b |-> a]
Range2(a, b) == [t |-> "range", a |-> a, b |-> b]
Open(a) == [t |-> "open", a |-> a, b |-> a]         \* a number and a dash
All == [t |-> "all"]
Device(how, id) == [t |-> "dev", how |-> how, id |-> id]
Junk == [t |-> "junk"]                              \* no number where one is needed

\* What stands between commas.
Items ==
    [t : {"nr", "range", "open"}, a : Nat, b : Nat] \cup [t : {"all", "junk"}]
        \cup [t : {"dev"}, how : STRING, id : STRING]

String(not, plus, items, ends) ==
    [not |-> not, plus |-> plus, items |-> items, ends |-> ends]

NULL == [null |-> TRUE]
----------------------------------------------------------------------------
\* Mutant: the search stops one bit early.
NthShort(m, nr) ==
    LET hits == {i \in Seen(m) : Cardinality({j \in Seen(m) : j < i}) = nr}
    IN IF hits = {} \/ nr = 1 THEN m.size ELSE Min(hits)

\* The nr-th set bit, counted from 0; the size when there are fewer.
NthBit(m, nr) ==
    LET hits == {i \in Seen(m) : Cardinality({j \in Seen(m) : j < i}) = nr}
    IN IF hits = {} THEN m.size ELSE Min(hits)

get_nr(nr, m, relative) == IF relative THEN NthBit(m, nr) ELSE nr

\* One turn of the loop on the number a or the range from a to b: each number must
\* be in valid, and a range is cut to the mask allowed.
Numbers(acc, t, a, b, allowed, valid) ==
    CASE a \notin valid \/ t = "open" -> [acc EXCEPT !.st = "err"]
      [] a \in valid /\ t = "nr" -> [acc EXCEPT !.mask = numa_bitmask_setbit(@, a)]
      [] a \in valid /\ t = "range" ->
            IF b \notin valid THEN [acc EXCEPT !.st = "err"]
            ELSE [acc EXCEPT !.mask =
                    SetBits(@, {a} \cup {i \in a .. b : numa_bitmask_isbitset(allowed, i)})]

\* "all" replaces what came before it.
TakeAll(acc, allowed, last) ==
    IF last THEN [mask |-> copy_bitmask_to_bitmask(allowed, acc.mask), st |-> "done"]
            ELSE [acc EXCEPT !.st = "err"]

\* A device, for which resolve_affinity returned r.
TakeDevice(acc, item, last, r) ==
    IF (last \/ item.how = "pci") /\ r.ret >= 0 THEN [mask |-> r.mask, st |-> "done"]
    ELSE [acc EXCEPT !.st = "err"]

\* One turn, unless the loop was left; the name of a device is an item of node lists only.
Turn(acc, item, last, allowed, relative, valid, names) ==
    IF acc.st # "go" THEN acc
    ELSE CASE item.t = "junk" \/ (item.t = "dev" /\ ~names) -> [acc EXCEPT !.st = "err"]
           [] item.t = "all" -> TakeAll(acc, allowed, last)
           [] item.t = "dev" /\ names ->
                TakeDevice(acc, item, last, resolve_affinity(item.how, item.id, acc.mask))
           [] OTHER -> Numbers(acc, item.t, get_nr(item.a, allowed, relative),
                               get_nr(item.b, allowed, relative), allowed, valid)

\* The test of the character after the last item.
Ended(acc, s) == IF acc.st = "err" \/ (acc.st = "go" /\ ~s.ends) THEN NULL ELSE acc.mask

Loop(s, empty, allowed, valid, names) ==
    LET after[k \in 0 .. Len(s.items)] ==
            IF k = 0 THEN [mask |-> empty, st |-> "go"]
            ELSE Turn(after[k - 1], s.items[k], k = Len(s.items) /\ s.ends, allowed, s.plus, valid, names)
    IN Ended(after[Len(s.items)], s)

\* With a leading "!" bits 0 to n - 1 are turned over.
Invert(m, not, n) ==
    IF m = NULL \/ ~not THEN m
    ELSE [m EXCEPT !.bits = (@ \ (0 .. n - 1)) \cup {i \in 0 .. n - 1 : i < m.size /\ i \notin @}]
----------------------------------------------------------------------------
\* __numa_parse_nodestring: every number must be an allowed node.
parse_nodestring(s, allowed) ==
    IF s.items = <<>> THEN copy_bitmask_to_bitmask(lib.numa_no_nodes_ptr, allocate_nodemask)
    ELSE Invert(Loop(s, allocate_nodemask, allowed, Seen(allowed), TRUE),
                s.not, numa_num_configured_nodes)

numa_parse_nodestring(s) == parse_nodestring(s, lib.numa_all_nodes_ptr)
numa_parse_nodestring_all(s) == parse_nodestring(s, lib.numa_possible_nodes_ptr)

\* __numa_parse_cpustring: only the ends of the CPU numbers are looked at.
parse_cpustring(s, allowed) ==
    IF s.items = <<>> THEN allocate_cpumask
    ELSE Invert(Loop(s, allocate_cpumask, allowed, 0 .. numa_num_configured_cpus - 1, FALSE),
                s.not, numa_num_configured_cpus)

numa_parse_cpustring(s) == parse_cpustring(s, lib.numa_all_cpus_ptr)
numa_parse_cpustring_all(s) == parse_cpustring(s, lib.numa_possible_cpus_ptr)
=============================================================================
