--------------------------- MODULE ReloadService ---------------------------
(* What a caller of app_config_reload_all may rely on: the program starts   *)
(* and then takes one request at a time; a request is answered once, with a *)
(* status; and it is not left without an answer unless the program ends.    *)
(* ConfigReload implements this, AdmServer is built on it.                  *)

VARIABLE stage

\* The answer to the last request, as long as nobody has asked for the next.
Status == {"ok", "error"}
Ready == {"idle"} \cup Status

ServiceInit == stage = "start"

Started == stage = "start" /\ stage' = "idle"

Request == stage \in Ready /\ stage' = "busy"

Answer == stage = "busy" /\ stage' \in Status

\* The caller takes the answer; it need not.
Taken == stage \in Status /\ stage' = "idle"

Gone == stage # "gone" /\ stage' = "gone"

ServiceNext == Started \/ Request \/ Answer \/ Taken \/ Gone

ServiceSafety == ServiceInit /\ [][ServiceNext]_stage

\* Weak fairness of Answer, which stays enabled until it or Gone is taken, says
\* the same.
EveryRequestEnds == (stage = "busy") ~> (stage # "busy")

ServiceSpec == ServiceSafety /\ EveryRequestEnds
=============================================================================
