--------------------------- MODULE MCServiceManager ---------------------------
(***************************************************************************)
(* Instances of ServiceManager for TLC.                                    *)
(***************************************************************************)
EXTENDS ServiceManager

MCProc == {0, 1}
AllFaults == {"initialize", "start", "destroy", "load", "laborer"}
==============================================================================
