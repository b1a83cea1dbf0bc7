-------------------------- MODULE MCApprovalChain --------------------------
(* Instances of the approval chain for TLC.                                *)
EXTENDS ApprovalChain

\* The buyer may clear the first step, the chief executive any step, and the
\* second step applies from a total of 5 on.
TwoSteps  == {1, 2}
TwoKinds  == <<"VALIDATE", "APPROVE">>
TwoBands  == <<[min |-> Unknown, max |-> Unknown], [min |-> 5, max |-> Unknown]>>
TwoGrants == {<<"buyer", 1>>, <<"ceo", 1>>, <<"ceo", 2>>}
=============================================================================
