---------------------------- MODULE BlockDevice ----------------------------
(***************************************************************************)
(* What emmc::device::transfer_block promises for one block: the device    *)
(* EmmcHost implements.  One request at a time; a read returns the block;  *)
(* a write that returned true is in the hands of the card, which programs  *)
(* it or loses it later (nothing tells the caller which), and no request   *)
(* succeeds in between; a request that fails changes nothing.              *)
(***************************************************************************)
CONSTANTS Lba, Data, NoBlock

VARIABLES
    disk,      \* the blocks
    pending,   \* <<lba, block>> the card has taken but not programmed, or << >>
    req,       \* the request being served, or the last one
    ret,       \* "busy" while it is being served, then what it returned
    out        \* the block a read returned

vars == <<disk, pending, req, ret, out>>

Requests == [kind : {"read"}, lba : Lba, num : {1}, data : {NoBlock}]
            \cup [kind : {"write"}, lba : Lba, num : {1}, data : Data]
Other == [kind |-> "other", lba |-> 0, num |-> 0, data |-> NoBlock]

Init ==
    /\ disk \in [Lba -> Data]
    /\ pending = << >>
    /\ req = Other
    /\ ret = "none"
    /\ out = NoBlock

Request ==
    /\ ret # "busy"
    /\ req' \in Requests \cup {Other}
    /\ ret' = "busy"
    /\ out' = NoBlock
    /\ UNCHANGED <<disk, pending>>

ReadOk ==
    /\ ret = "busy" /\ req.kind = "read"
    /\ pending = << >>
    /\ out' = disk[req.lba]
    /\ ret' = "ok"
    /\ UNCHANGED <<disk, pending, req>>

WriteOk ==
    /\ ret = "busy" /\ req.kind = "write"
    /\ pending = << >>
    /\ pending' = <<req.lba, req.data>>
    /\ ret' = "ok"
    /\ UNCHANGED <<disk, req, out>>

OtherOk ==
    /\ ret = "busy" /\ req.kind = "other"
    /\ ret' = "ok"
    /\ UNCHANGED <<disk, pending, req, out>>

Fail ==
    /\ ret = "busy"
    /\ ret' = "fail"
    /\ UNCHANGED <<disk, pending, req, out>>

Program ==
    /\ pending # << >>
    /\ disk' = [disk EXCEPT ![pending[1]] = pending[2]]
    /\ pending' = << >>
    /\ UNCHANGED <<req, ret, out>>

Lose ==
    /\ pending # << >>
    /\ pending' = << >>
    /\ UNCHANGED <<disk, req, ret, out>>

Next == \/ Request \/ ReadOk \/ WriteOk \/ OtherOk \/ Fail \/ Program \/ Lose

Spec == Init /\ [][Next]_vars
=============================================================================
