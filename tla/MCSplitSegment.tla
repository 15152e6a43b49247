--------------------------- MODULE MCSplitSegment ---------------------------
(* Groups of 2 bits and integers of 5: two whole groups and a part of a      *)
(* third, as 64 bits are nine groups and a part.                             *)
EXTENDS SplitSegment, TLC

MCGroup == 2
MCWidth == 5
MCKinds == 3

Kind(k, deltas) == [kind |-> k, deltas |-> deltas]
Offset(delta, kinds) == [delta |-> delta, kinds |-> kinds]
Section(from, to, offsets) == [from |-> from, to |-> to, offsets |-> offsets]

(* Lists with 0, 1 or 2 members at every level; 2 and 29 add up to 31, 29    *)
(* and 7 beyond it; 40 has six bits and 3 is no kind.                        *)
DeltaLists == {<< >>, <<2>>, <<2, 29>>, <<29, 7, 1>>, <<40>>}
KindLists == {<< >>} \cup {<<Kind(1, d)>> : d \in DeltaLists}
             \cup {<<Kind(2, d), Kind(0, <<5>>)>> : d \in DeltaLists}
             \cup {<<Kind(0, <<5>>), Kind(3, <<1>>)>>}
OffsetLists == {<< >>} \cup {<<Offset(30, k)>> : k \in KindLists}
               \cup {<<Offset(6, k), Offset(27, <<Kind(1, <<4>>)>>)>> : k \in KindLists}
Lists == {<< >>} \cup {<<Section(1, 2, o)>> : o \in OffsetLists}
         \cup {<<Section(3, 1, o), Section(2, 31, <<Offset(8, <<Kind(1, <<9>>)>>)>>)>> :
                 o \in OffsetLists}

(* The encoding after k other bytes, with more behind it or some cut off. *)
File(list, pad, k, tail) == [data |-> [i \in 1 .. k |-> 1] \o tail, dataoff |-> k,
                             commands |-> 1, encodes |-> {list}, pad |-> pad]
Whole == UNION {{File(list, pad, 2, Encoding(list, pad) \o rest) : rest \in {<< >>, <<2, 6>>}} :
                  list \in Lists, pad \in {0, 1}}
Cut == UNION {{File(list, 0, 0, SubSeq(Encoding(list, 0), 1, n)) :
                 n \in 0 .. Len(Encoding(list, 0)) - 1} :
                list \in {<<Section(3, 1, <<Offset(30, <<Kind(2, <<29, 7>>)>>),
                                          Offset(2, <<Kind(0, <<1>>)>>)>>)>>}}

(* Bytes nobody wrote as lists: huge counts, numbers that never end. *)
Bytes(d) == [data |-> d, dataoff |-> 0, commands |-> 1, encodes |-> {}, pad |-> 0]
Arbitrary == {Bytes(<<Version>> \o d) : d \in [1 .. 4 -> {0, 1, 3, 5, 7}]}
             \cup {Bytes(<<3, 7, 7, 1, 0, 0, 7, 3, 1, 1, 7, 7, 1, 0, 1, 2, 3, 0, 1, 1>>)}
Odd == {[Bytes(<<3, 0>>) EXCEPT !.commands = 0], [Bytes(<<3, 0>>) EXCEPT !.commands = 2],
        [Bytes(<<3, 0>>) EXCEPT !.dataoff = 3], Bytes(<<5, 0>>), Bytes(<< >>)}

MCJobs == Whole \cup Cut \cup Arbitrary \cup Odd
=============================================================================
