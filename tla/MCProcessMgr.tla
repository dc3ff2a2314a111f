---------------------------- MODULE MCProcessMgr ----------------------------
(* Instances of ProcessMgr for TLC: two process identifiers, used in turn.   *)
EXTENDS ProcessMgr
=============================================================================
