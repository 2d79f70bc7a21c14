------------------------------ MODULE MCNetwork ------------------------------
(***************************************************************************)
(* For TLC: the client on its way to the bots.  A behaviour is one of a    *)
(* connection being made, of the requests or of the throttle; the state of *)
(* the others stands still.                                                *)
(***************************************************************************)
EXTENDS Connect, Requests, Throttle

VARIABLE part

networkVars == <<part, connectVars, requestsVars, throttleVars>>

\* A part that stands still is in one of its initial states.
ConnectIdle == ConnectInit /\ system = "Linux" /\ numAddresses = 0
RequestsIdle == RequestsInit /\ login = "none" /\ delay = NoDelay

NetworkInit ==
  /\ part \in {"connection", "requests", "throttle"}
  /\ ThrottleInit
  /\ IF part = "connection" THEN ConnectInit ELSE ConnectIdle
  /\ IF part = "requests" THEN RequestsInit ELSE RequestsIdle

NetworkNext ==
  /\ \/ part = "connection" /\ ConnectNext /\ UNCHANGED <<requestsVars, throttleVars>>
     \/ part = "requests" /\ RequestsNext /\ UNCHANGED <<connectVars, throttleVars>>
     \/ part = "throttle" /\ ThrottleNext /\ UNCHANGED <<connectVars, requestsVars>>
  /\ UNCHANGED part

NetworkSpec == NetworkInit /\ [][NetworkNext]_networkVars

\* The fairness of the parts, in the behaviours that are theirs.
NetworkFairSpec ==
  /\ NetworkSpec
  /\ WF_connectVars(part = "connection" /\ Program)
  /\ WF_connectVars(part = "connection" /\ Completes)
  /\ WF_requestsVars(part = "requests" /\ Client)
  /\ WF_requestsVars(part = "requests" /\ Tick)
  /\ WF_requestsVars(part = "requests" /\ Server)
  /\ WF_requestsVars(part = "requests" /\ Voice)
  /\ WF_throttleVars(part = "throttle" /\ measure_and_sleep)
  /\ WF_throttleVars(part = "throttle" /\ process_descriptors)

-----------------------------------------------------------------------------
(* Properties, besides those of the parts.                                  *)

\* Decides, of the behaviours in which a connection is made (libircclient.c:156).
ConnectionDecides == part = "connection" => Decides

\* AskedEventually, of the behaviours in which requests are made (xdccget.c:217).
RequestsAsked == part = "requests" => AskedEventually
===============================================================================
