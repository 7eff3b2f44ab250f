------------------------------- MODULE MCDesk -------------------------------
(* An instance of Desk for TLC: one desk that can have two calls under way.  *)
EXTENDS Desk, TLC

CONSTANTS IB, EC, s1, hIB, hIB2

MCHandlers == {hIB, hIB2}
MCNodeOf == hIB :> IB @@ hIB2 :> IB
MCOperations == [h \in MCHandlers |-> {"GetVoter", "RegisterVotingStep"}]
=============================================================================
