----------------------------- MODULE MCNumastat -----------------------------
(* Two nodes without and with a hole in their numbers, and a third that is added. *)
EXTENDS Numastat

Line(cat, size, pages) == [cat |-> cat, size |-> size, pages |-> pages]
Row(tok, val) == [tok |-> tok, val |-> val, huge |-> <<>>]
Huge(val, huge) == [tok |-> "HugePages_Total", val |-> val, huge |-> huge]
File(state, lines) == [state |-> state, lines |-> lines]

\* Process 7 has memory of several kinds, 9 has little, 5 cannot be read.
MapsOn(a, b) ==
    (7 :> File("open", <<Line(1, 0, (a :> 1)), Line(0, 0, (a :> 1 @@ b :> 2)), Line(3, 3, (b :> 1))>>))
    @@ (9 :> File("open", <<Line(2, 0, (b :> 1))>>))
Pid5(state) == (5 :> File(state, <<>>))

MCFiles ==
    (0 :> <<Row("MemFree", 1), Row("Mapped", 4), Huge(1, <<>>)>>)
    @@ (1 :> <<Huge(1, <<[pages |-> 1, size |-> 2], [pages |-> 1, size |-> 7]>>), Row("Mapped", 0), Row("MemFree", 5)>>)
    @@ (2 :> <<Row("Dirty", 1), Row("MemFree", 4), Row("Mapped", 3)>>)

\* The added node has no files yet in the last one.
MCWorlds ==
    {[dirs |-> <<1, 0>>, maps |-> MapsOn(0, 1) @@ Pid5("denied"), files |-> MCFiles],
     [dirs |-> <<1, 0, 2>>, maps |-> MapsOn(1, 2) @@ Pid5("gone"), files |-> MCFiles],
     [dirs |-> <<0, 2>>, maps |-> MapsOn(0, 2) @@ Pid5("gone"), files |-> MCFiles],
     [dirs |-> <<2, 0, 1>>, maps |-> (7 :> File("gone", <<>>)) @@ (9 :> File("gone", <<>>)) @@ Pid5("gone"),
      files |-> [n \in {0, 1} |-> MCFiles[n]]],
     [dirs |-> <<>>, maps |-> MapsOn(0, 1) @@ Pid5("gone"), files |-> MCFiles]}

MCMatching == <<9, 7>>
MCHash == ("MemFree" :> 3) @@ ("Mapped" :> 3) @@ ("HugePages_Total" :> 0) @@ ("Dirty" :> 3)
MCUnit == ("MemFree" :> 2) @@ ("Mapped" :> 2) @@ ("HugePages_Total" :> 3) @@ ("Dirty" :> 2)
=============================================================================
