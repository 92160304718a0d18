------------------------------ MODULE MCSsfOutage ------------------------------
(* One thread, one event: a fetch of the keys fails while the cached ones   *)
(* have not expired, and a SET comes before another fetch is allowed.       *)
EXTENDS SsfReceiver
================================================================================
