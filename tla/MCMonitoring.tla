---------------------------- MODULE MCMonitoring ----------------------------
(***************************************************************************)
(* Monitoring with the periods and thresholds of the deployment.           *)
(***************************************************************************)
EXTENDS Monitoring
=============================================================================
