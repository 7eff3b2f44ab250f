--------------------------- MODULE MCVoterImport ---------------------------
(* An instance of VoterImport for TLC: files that `gen voter', the GUI and       *)
(* `check' read at the same time.                                            *)
EXTENDS VoterImport, TLC

CONSTANTS IB, IC, EC, s0, s1, t1, t2, h1, h2

MCBallotBoxes == {IB, IC}
MCNodeOf == [h \in Handlers |-> EC]
MCOperations == [h \in Handlers |-> {"CreateVoter", "GetVoter"}]
MCHandlerOf == t1 :> h1 @@ t2 :> h2
MCKinds == {t1 :> "cli" @@ t2 :> "gui", t1 :> "cli" @@ t2 :> "check",
            t1 :> "cli" @@ t2 :> "cli", t1 :> "gui" @@ t2 :> "gui"}
MCValidation == {t1 :> "cli" @@ t2 :> "check"}

FileRow(id, home, full) == [id |-> id, home |-> home, full |-> full]

\* A first home box is not listed, and an id is not a number.
LongFile == <<FileRow(s1, UnlistedBox, TRUE), FileRow(s1, IB, TRUE), FileRow(BadId, IC, TRUE),
              FileRow(s0, IB, TRUE)>>

\* A student is named twice; the last row is cut off, or not.
ShortFile(full) == <<FileRow(s1, IC, TRUE), FileRow(s0, IB, TRUE), FileRow(s1, IB, full)>>

MCFiles == {LongFile, ShortFile(FALSE), ShortFile(TRUE)}
=============================================================================
