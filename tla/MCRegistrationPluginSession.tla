-------------------- MODULE MCRegistrationPluginSession --------------------
(***************************************************************************)
(* One session of either thread model, for TLC.                            *)
(***************************************************************************)
EXTENDS RegistrationPluginSession

CONSTANTS t1, t2, t3

ThreeThreads == {t1, t2, t3}
=============================================================================
