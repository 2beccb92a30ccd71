------------------------------ MODULE MCAlerts ------------------------------
(***************************************************************************)
(* Instances of Alerts.  The delivery runs have one collector that reports *)
(* one incident and can fail, which is enough for its two keys to be open, *)
(* recovered and pending in every combination; the isolation run has two   *)
(* collectors, the first of which may see a mount point with a long path.  *)
(***************************************************************************)
EXTENDS Alerts

OneScope == <<{"disk:/"}>>
OneHealthKey == <<"agent:collector:system">>

RejectingScope == <<{"disk:/", "disk:long"}>>

TwoScopes == <<{"disk:/", "disk:long"}, {"service:web"}>>
TwoHealthKeys == <<"agent:collector:system", "agent:collector:services">>
TooLong == {"disk:long"}
=============================================================================
