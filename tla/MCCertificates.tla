--------------------------- MODULE MCCertificates ---------------------------
(* An instance of Certificates for TLC: two ballot boxes, set up together or *)
(* alone.                                                                    *)
EXTENDS Certificates

CONSTANTS IB, IC

MCBoxes == {IB, IC}
MCBoxLists == {<<IB, IC>>, <<IC>>}
=============================================================================
