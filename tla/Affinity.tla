------------------------------ MODULE Affinity ------------------------------
(***************************************************************************)
(* Nodes named by the device they belong to (affinity.c, rtnetlink.c,      *)
(* sysfs.c): netdev:, block:, file:, ip: and pci: in a node list.  A name  *)
(* is looked up in sysfs, an address through a route query to the kernel;  *)
(* what is found does not change during a lookup.                          *)
(***************************************************************************)
EXTENDS LibInit, SequencesExt

CONSTANTS
    ClassDir,   \* directory of each class in sysfs: a sequence of device names
    DevNumber,  \* content of a block device's dev file; absent names have none
    PciOf,      \* PCI function in the link of a class device, where there is one
    NodeFile,   \* content of numa_node of a device, named <<class, name>>; PCI functions have class pci
    FileDev,    \* stat: the class that the file's device number belongs to, and the number
    Replies,    \* netlink reply for an address: the attributes, in order
    IfName      \* name of an interface number

ASSUME AffinityAssumption ==
    /\ DOMAIN ClassDir \subseteq {"net", "block", "misc"}
    /\ \A d \in DOMAIN NodeFile : NodeFile[d] \in Seq(Int)
    /\ \A a \in DOMAIN Replies : Replies[a] \in Seq(Nat \X Nat)

RTA_OIF == 4
NO_IO_AFFINITY == -2

Lookup(ret, mask) == [ret |-> ret, mask |-> mask]

\* One number of a numa_node file: -2 when the kernel does not know the node.
NodeStatus(num) ==
    CASE num < 0 -> -2
      [] num >= numa_num_task_nodes -> Failed
      [] OTHER -> 0

\* sysfs_node_read: numbers are set until one is bad; an absent file is empty.
sysfs_node_read(mask, dev) ==
    IF dev \notin DOMAIN NodeFile \/ NodeFile[dev] = <<>> THEN Lookup(Failed, mask)
    ELSE LET nums == NodeFile[dev]
             bad == {k \in DOMAIN nums : NodeStatus(nums[k]) # 0}
             before == {k \in DOMAIN nums : \A j \in bad : k < j}
         IN Lookup(IF bad = {} THEN 0 ELSE NodeStatus(nums[Min(bad)]),
                   SetBits(mask, {nums[k] : k \in before}))

\* node_parse_failure warns and makes every failure a -1.
NodeOrFail(r) == IF r.ret < 0 THEN Lookup(Failed, r.mask) ELSE r

\* affinity_class: the PCI function in the link, or else the device itself.
affinity_class(mask, cls, dev) ==
    IF <<cls, dev>> \in DOMAIN PciOf
    THEN NodeOrFail(sysfs_node_read(mask, PciOf[<<cls, dev>>]))
    ELSE NodeOrFail(sysfs_node_read(mask, <<cls, dev>>))

\* affinity_file: the first name in the directory that has the file's device
\* number; numbers are read as those of block devices whatever the class.
affinity_file(mask, file) ==
    IF file \notin DOMAIN FileDev \/ FileDev[file].cls \notin DOMAIN ClassDir
    THEN Lookup(Failed, mask)
    ELSE LET names == ClassDir[FileDev[file].cls]
             hits == {k \in DOMAIN names : /\ names[k] \in DOMAIN DevNumber
                                           /\ DevNumber[names[k]] = FileDev[file].dev}
         IN IF hits = {} THEN Lookup(Failed, mask)
            ELSE affinity_class(mask, "block", names[Min(hits)])

\* find_route: the first attribute of the reply that is an output interface.
\* An address without a reply stands for a request that fails.
find_route(addr) ==
    IF addr \notin DOMAIN Replies THEN Failed
    ELSE LET oif == {k \in DOMAIN Replies[addr] : Replies[addr][k][1] = RTA_OIF}
         IN IF oif = {} THEN Failed ELSE Replies[addr][Min(oif)][2]

affinity_ip(mask, addr) ==
    IF find_route(addr) = Failed \/ find_route(addr) \notin DOMAIN IfName
    THEN Lookup(Failed, mask)
    ELSE affinity_class(mask, "net", IfName[find_route(addr)])

affinity_pci(mask, id) == NodeOrFail(sysfs_node_read(mask, <<"pci", id>>))

\* resolve_affinity: the handler with the prefix of the name.
resolve_affinity(how, id, mask) ==
    CASE how = "netdev" -> affinity_class(mask, "net", id)
      [] how = "ip" -> affinity_ip(mask, id)
      [] how = "file" -> affinity_file(mask, id)
      [] how = "block" -> affinity_class(mask, "block", id)
      [] how = "pci" -> affinity_pci(mask, id)
      [] OTHER -> Lookup(NO_IO_AFFINITY, mask)
=============================================================================
