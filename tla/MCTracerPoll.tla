----------------------------- MODULE MCTracerPoll -----------------------------
(* An ISA and an operation that changes up to three times; the ISA poller  *)
(* polls twice as often.                                                   *)
EXTENDS TracerPoll

MCPollers == <<"poll_isas", "poll_ops">>
MCInterval == [p \in PollerNames |-> IF p = "poll_isas" THEN 1 ELSE 2]
MCItems == [p \in PollerNames |-> IF p = "poll_isas" THEN {"isa"} ELSE {"op1"}]
MCMaxVersion == [i \in AllItems |-> IF i = "op1" THEN 3 ELSE 1]
MCDetailed == {"poll_ops"}
=============================================================================
