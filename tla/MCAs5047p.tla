------------------------------ MODULE MCAs5047p ------------------------------
(* A few register contents: the least and the largest angle, one in between   *)
(* and a neighbour of it; a field that is too weak, one that is too strong,   *)
(* and nothing to report.                                                     *)
EXTENDS As5047p

FewAngles == {{}, Data, {0, 5, 13}, {5, 13}}
FewDiagnostics == {{}, {4}, {2, 3}}
===============================================================================
