------------------------------ MODULE MCAgentRun ------------------------------
(* A budget in which two turns fit, a third does not, and every other limit *)
(* is within reach of the calls.                                            *)
EXTENDS AgentRun

MCLimit == [d \in Dim |-> CASE d = "input" -> 3 [] d \in Drawn -> 1 [] OTHER -> 2]

=============================================================================
