---------------------------- MODULE MCExceptions ----------------------------
(* One shipment and the journals it goes through, forks included. *)
EXTENDS ExceptionsProperties

Registration == [type |-> "ProductRegistered", occ |-> "r"]
Departure(occ, time) ==
    [type |-> "CheckpointRecorded", occ |-> occ, time |-> time, status |-> 1, who |-> "a"]
Arrived(occ, who, time) ==
    [type |-> "CheckpointRecorded", occ |-> occ, time |-> time, status |-> 2, who |-> who]
Handover == [type |-> "CustodyTransferred", occ |-> "t", time |-> 1, who |-> "b"]
Delivery == [type |-> "DeliveryCompleted", occ |-> "e", time |-> 2, who |-> "a"]

MCJournals ==
    {<<Registration>>,
     <<Registration, Departure("d", 0)>>,
     <<Registration, Departure("f", 1)>>,       \* included again, after a fork
     <<Registration, Departure("d", 0), Handover>>,
     <<Registration, Departure("d", 0), Handover, Arrived("c", "b", 2)>>,
     <<Registration, Departure("d", 0), Delivery>>}
ForkedJournals ==
    {<<Registration, Departure("d", 0)>>, <<Registration, Departure("f", 1)>>}

FewJournals == ForkedJournals \cup {<<Registration>>, <<Registration, Departure("d", 0), Handover>>}

Default == [arrival |-> TRUE, inactivity |-> 1, checkpoint |-> 0, custody |-> 1]
MCPolicies == {Default, [Default EXCEPT !.inactivity = 0, !.custody = Off]}
=============================================================================
