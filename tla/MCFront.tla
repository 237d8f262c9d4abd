-------------------------------- MODULE MCFront --------------------------------
(* Instances of Front for TLC.                                             *)
EXTENDS Front, TLC

CONSTANTS r1, r2, b1, b2
Symmetry == Permutations({r1, r2}) \cup Permutations({b1, b2})
MCRaised == {Error("broccoli", -7, 0, 0, FALSE), Error("broccoli", 7, 0, 9, FALSE),
             Error("broccoli", Half, 0, 0, FALSE),
             Error("plain", 0, 0, 0, FALSE), GoMicro(7, 9),
             Error("typed nil", 0, 0, 0, FALSE)}
MCMetered == {{}, {0, 1}}
=============================================================================
