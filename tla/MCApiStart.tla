----------------------------- MODULE MCApiStart -----------------------------
(* An instance of ApiStart for TLC: the committee with two restart loops and *)
(* a ballot box with one, one table with a column that is added later.       *)
EXTENDS ApiStart, TLC

CONSTANTS IB, EC, c1, c2, lEC1, lEC2, lIB

MCBallotBoxes == <<IB>>
MCLoops == {lEC1, lEC2, lIB}
MCNodeOf == lEC1 :> EC @@ lEC2 :> EC @@ lIB :> IB
MCColumns == [t \in {"EncVoter", "EncVoterStatus", "ElectionStats", "EncChatMessage"} |->
                IF t = "EncVoter" THEN {c1, c2} ELSE {c1}]
MCOldColumns == [t \in {"EncVoter", "EncVoterStatus", "ElectionStats", "EncChatMessage"} |->
                   IF t = "EncVoter" THEN {c1} ELSE {}]
=============================================================================
