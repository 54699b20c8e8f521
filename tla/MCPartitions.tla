---------------------------- MODULE MCPartitions ----------------------------
(* Records of two entries: unused ones of either kind, partitions one after *)
(* the other, one past the addresses of a u32 and one whose end wraps.      *)
EXTENDS Partitions

MCEntries == {[type |-> 0, start |-> 1, sectors |-> 1],
              [type |-> 1, start |-> 1, sectors |-> 0],
              [type |-> 1, start |-> 1, sectors |-> 2],
              [type |-> 1, start |-> 3, sectors |-> 2],
              [type |-> 1, start |-> 7, sectors |-> 2]}

MCCards == [signed : {TRUE}, entries : [Slot -> MCEntries]]
           \cup {[signed  |-> FALSE,
                  entries |-> [k \in Slot |-> [type |-> 1, start |-> 2,
                                               sectors |-> 3]]]}
=============================================================================
