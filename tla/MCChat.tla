------------------------------- MODULE MCChat -------------------------------
(* An instance of Chat for TLC: the ballot box was given another password than *)
(* the committee, so that what one writes the other cannot read.             *)
EXTENDS Chat, TLC

MCPassword == "IB" :> "k1" @@ "EC" :> "k2"
=============================================================================
