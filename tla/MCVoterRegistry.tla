-------------------------- MODULE MCVoterRegistry --------------------------
(* Instances of VoterRegistry for TLC: two ballot boxes and the committee,   *)
(* one request in flight at each node.                                       *)
EXTENDS VoterRegistry, TLC

CONSTANTS IB, IC, EC, s1, s2, hIB, hIC, hEC

MCBallotBoxes == {IB, IC}
MCHandlers == {hIB, hIC, hEC}
MCNodeOf == hIB :> IB @@ hIC :> IC @@ hEC :> EC

\* The election day: the committee registers voters, the boxes record steps.
MCElection == [h \in MCHandlers |->
                 IF h = hEC THEN {"CreateVoter"} ELSE {"RegisterVotingStep"}]

\* The committee also looks voters up, and tries to record a step itself.
MCCommitteeCallsAll == [h \in MCHandlers |->
                          IF h = hEC THEN AllOperations ELSE {"RegisterVotingStep"}]
=============================================================================
