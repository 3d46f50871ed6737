---------------------------- MODULE ServiceThread ----------------------------
(***************************************************************************)
(* The promise of a service thread: an owner starts it, a handler runs in  *)
(* it any number of times, the owner stops it and joins it.  Responder and *)
(* Subscriber both keep one such thread; StandardRpc uses this module as   *)
(* the server's thread.                                                    *)
(*                                                                         *)
(* Once the owner has asked the thread to stop, at most ONE further        *)
(* handler may begin (the request the thread was already waiting for), and *)
(* none once the owner's stop has returned.                                *)
(***************************************************************************)

VARIABLES
    phase,    \* how far the owner has taken the thread
    busy      \* TRUE while the handler runs

svcVars == <<phase, busy>>

\* "halting": asked to stop, one more handler may begin; "draining": none may.
Phases == {"idle", "running", "halting", "draining"}

ServiceTypeOK == phase \in Phases /\ busy \in BOOLEAN

ServiceInit == phase = "idle" /\ busy = FALSE

Begin == /\ phase = "idle"
         /\ phase' = "running"
         /\ UNCHANGED busy

Enter == /\ ~busy
         /\ busy' = TRUE
         /\ \/ phase = "running" /\ UNCHANGED phase
            \/ phase = "halting" /\ phase' = "draining"

Leave == /\ busy
         /\ busy' = FALSE
         /\ UNCHANGED phase

Halt == /\ phase = "running"
        /\ phase' \in {"halting", "draining"}
        /\ busy => phase' = "draining"
        /\ UNCHANGED busy

\* The wait for one last request ends without one.
Lapse == /\ phase = "halting"
         /\ phase' = "draining"
         /\ UNCHANGED busy

Finish == /\ phase = "draining"
          /\ ~busy
          /\ phase' = "idle"
          /\ UNCHANGED busy

ServiceNext == Begin \/ Enter \/ Leave \/ Halt \/ Lapse \/ Finish

\* A handler that has begun ends; a stop that was asked for is carried out.
ServiceFairness == /\ WF_svcVars(Leave)
                   /\ WF_svcVars(Lapse)
                   /\ WF_svcVars(Finish)

ServiceSafety == ServiceInit /\ [][ServiceNext]_svcVars
ServiceSpec == ServiceSafety /\ ServiceFairness
==============================================================================
