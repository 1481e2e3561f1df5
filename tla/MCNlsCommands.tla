---------------------------- MODULE MCNlsCommands ----------------------------
(* Small instances of NlsCommands. *)
EXTENDS NlsCommands, TLC

CONSTANTS p1, p2, p3, u1, u2

ThreeProcesses == {p1, p2, p3}
TwoUrls == {u1, u2}
=============================================================================
