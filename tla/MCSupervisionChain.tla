------------------------- MODULE MCSupervisionChain -------------------------
(***************************************************************************)
(* Instances of SupervisionChain: the two commands, who is signalled, how  *)
(* long the launch needs.                                                  *)
(***************************************************************************)
EXTENDS SupervisionChain

Terminal == {"cli"}
ControlGroup == {"cli", "runner", "script", "launch"}

AnyWay == {"INT", "TERM"}
ServiceStop == {"TERM"}

\* Below, at and above WORKFLOW_SHUTDOWN_GRACE_SECS.
AnyTime == {0, 1, 2, 3}

\* What a tick waits for is that nothing can be done at once.
BusyMeansEnabled == Busy <=> ENABLED AtOnce
=============================================================================
