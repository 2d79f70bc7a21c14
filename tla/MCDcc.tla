-------------------------------- MODULE MCDcc --------------------------------
(* Instances of Dcc for TLC.                                               *)
EXTENDS Dcc, TLC

CONSTANTS fa, fb, p1, p2

TwoFiles == {fa, fb}
TwoPorts == {p1, p2}
\* Ports are only compared with each other, and with 0, which is none of them.
PortsAlike == Permutations(TwoPorts)
LenSmall == fa :> 2 @@ fb :> 1
LenEven == fa :> 2 @@ fb :> 2
LenTwo == fa :> 3 @@ fb :> 2
===============================================================================
