---------------------------- MODULE MCReplacement ---------------------------
(* Three filesets; the victim is the second one, or one that is not there;  *)
(* prelink entries in two orders, or without the victim's.                  *)
EXTENDS Replacement, TLC

MCPlaces == 1 .. 3
MCExpected == {"__TEXT", "__TEXT_EXEC", "__DATA_CONST", "__DATA", "__LINKEDIT"}
Names == <<"a", "b", "c">>
MCIds == {"a", "b", "c", "kext", "gone"}

Rooms == [s \in MCExpected |-> 2]
NoConst == [s \in MCExpected \ {"__DATA_CONST"} |-> 2]

Listed(order) == [i \in 1 .. Len(order) |-> [id |-> Names[order[i]], text |-> order[i], data |-> order[i], size |-> 1]]

Usual == {"__TEXT", "__TEXT_EXEC", "__DATA", "__LINKEDIT"}
KextSegments == {Usual, MCExpected, Usual \ {"__DATA"}, Usual \ {"__TEXT"}, Usual \cup {"__EXTRA"}}
Kexts(ids) ==
    [id : ids, used : {[s \in S |-> n] : S \in KextSegments, n \in {1, 2, 3}},
     info : {1, 2}, length : {1, 2}, binds : BOOLEAN]

Kernelcaches(ids) ==
    [ids : {Names}, room : {[f \in MCPlaces |-> r] : r \in {Rooms, NoConst}},
     prelink : {Listed(<<1, 2, 3>>), Listed(<<3, 1, 2>>), Listed(<<1, 3>>)}, prelinkRoom : {1, 3}, idRoom : {1},
     victim : {"b", "gone"}, kext : Kexts(ids)]

MCJobs == Kernelcaches({"kext", "b"})
=============================================================================
