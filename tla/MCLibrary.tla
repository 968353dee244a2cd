----------------------------- MODULE MCLibrary -----------------------------
(* Machines, devices and lists for checking Library with TLC. *)
EXTENDS Library

\* Two CPUs a node, one node without CPUs where cpus leaves it none.
M(nodes, mems, nconf, cpus, runs) ==
    [maxnodes |-> 16, nodeids |-> 4, cpuids |-> 8, nconf |-> nconf, cpusets |-> TRUE,
     nodes |-> nodes, mems |-> mems, cpus |-> cpus, runs |-> runs,
     cpumap |-> [n \in nodes |-> {2 * n, 2 * n + 1} \cap cpus]]

MCMachines == {
    M({0, 1}, {0, 1}, 4, 0 .. 3, 0 .. 3),
    M({0, 1, 2}, {1, 2}, 6, 0 .. 3, 2 .. 3),            \* a cpuset, a node without CPUs
    M({0, 3}, {0, 3}, 8, {0, 1, 6, 7}, {0, 1, 6, 7}),   \* holes in the numbers
    M({0, 1, 2}, {0, 1}, 6, 0 .. 5, 0 .. 7),            \* an affinity of all ones
    [M({0, 1}, {0, 1}, 4, 0 .. 3, 0 .. 3) EXCEPT !.cpusets = FALSE]}

MCClassDir == [net |-> <<"eth0", "eth1">>, block |-> <<"sda", "sdb">>]
MCDevNumber == [sda |-> 80, sdb |-> 81]
MCPciOf == [d \in {<<"net", "eth0">>} |-> <<"pci", "p0">>]
MCNodeFile ==
    [d \in {<<"pci", "p0">>, <<"pci", "p1">>, <<"net", "eth1">>, <<"block", "sda">>, <<"block", "sdb">>} |->
        CASE d = <<"pci", "p0">> -> <<1>>
          [] d = <<"pci", "p1">> -> <<-1>>
          [] d = <<"net", "eth1">> -> <<0, 2>>
          [] d = <<"block", "sda">> -> <<3>>
          [] d = <<"block", "sdb">> -> <<0>>]
MCFileDev == [f1 |-> [cls |-> "block", dev |-> 81], f2 |-> [cls |-> "misc", dev |-> 1]]
MCReplies == [a1 |-> <<<<1, 9>>, <<4, 2>>, <<4, 3>>>>, a2 |-> <<<<1, 9>>>>]
MCIfName == [i \in {2} |-> "eth0"]

SomeItems ==
    {Nr(a) : a \in 0 .. 4} \cup {Range2(0, 1), Range2(0, 3), Range2(1, 2), Range2(2, 0), Open(1), All, Junk}
        \cup {Device("netdev", "eth0"), Device("netdev", "eth1"), Device("netdev", "lo"),
              Device("block", "sda"), Device("file", "f1"), Device("file", "f2"),
              Device("ip", "a1"), Device("ip", "a2"), Device("pci", "p1"), Device("tty", "t0")}

\* Lists of up to two items; only one of the first is a device.
Lists == {<<i>> : i \in SomeItems} \cup {<<i, j>> : i, j \in {x \in SomeItems : x.t # "dev"}}
            \cup {<<Nr(0), i>> : i \in {x \in SomeItems : x.t = "dev"}}
            \cup {<<Device("pci", "p0"), Nr(0)>>}

MCStrings ==
    {String(FALSE, FALSE, <<>>, TRUE)} \cup
    {String(not, plus, l, ends) : not \in BOOLEAN, plus \in BOOLEAN, l \in Lists, ends \in BOOLEAN}

\* The hypothesis of three theorems of LibraryProofs holds here.
ASSUME MachinesOrdinary == Ordinary
=============================================================================
