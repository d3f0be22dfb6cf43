------------------------------ MODULE MCIrLink ------------------------------
(* Instances of IrLink for TLC.                                              *)
EXTENDS IrLink, TLC

CONSTANTS a, b

TwoNodes == {a, b}

SameBuild == a :> 2 @@ b :> 2
OldPeer   == a :> 2 @@ b :> 1

OneBuild  == {SameBuild}
OldBuild  == {OldPeer}
TwoBuilds == {SameBuild, OldPeer}

NoEdges    == a :> 0 @@ b :> 0
TwoAndOne  == a :> 2 @@ b :> 1
TwoAndNone == a :> 2 @@ b :> 0

NoFaults     == {}
TimeoutFault == {"timeout"}
AllFaults    == {"open", "network", "clock", "timeout"}
=============================================================================
