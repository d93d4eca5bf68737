---------------------------- MODULE MCProtoStream ----------------------------
(* A small protocol for TLC: type names of one and two letters, short data,   *)
(* one message above the length limit, and one frame for each way another     *)
(* sender can differ.                                                         *)
EXTENDS ProtoStream

Good1 == [name |-> <<65>>, data |-> <<>>]
Good2 == [name |-> <<65, 66>>, data |-> <<8, 1, 9>>]
UnknownType == [name |-> <<90>>, data |-> <<8>>]
Undecodable == [name |-> <<65>>, data |-> <<255>>]

OverTheLimit == [name |-> <<65>>, data |-> [i \in 1..10 |-> 8]]

AllMessages == {Good1, Good2, UnknownType, Undecodable, OverTheLimit}
GoodMessages == {Good1, Good2, OverTheLimit}
Names == {<<65>>, <<65, 66>>}

(* A sender whose checksum differs, one that sends a zero length, one that    *)
(* sends an empty name.                                                       *)
OtherSum == [bytes |-> [Frame[Good1] EXCEPT ![Len(Frame[Good1])] = 0],
             error |-> "kCheckSumError"]
ZeroLength == [bytes |-> [i \in 1..14 |-> 0], error |-> "kInvalidLength"]
NoName == [bytes |-> NetworkBytes(10, 4) \o NetworkBytes(1, 4) \o <<0, 0>>
                     \o NetworkBytes(Adler32(NetworkBytes(1, 4) \o <<0, 0>>), 4),
           error |-> "kInvalidNameLen"]

OtherSenders == {OtherSum, ZeroLength, NoName}

=============================================================================
