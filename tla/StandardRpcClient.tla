--------------------------- MODULE StandardRpcClient ---------------------------
(***************************************************************************)
(* The main function of TestStandardRpcClient and its signal handler: it   *)
(* calls functions in a loop until SIGINT, then disconnects.  CallFunc is  *)
(* cut down to the one place where it blocks, the recv of its reply; see   *)
(* StandardRpc for the rest of it.                                         *)
(***************************************************************************)

VARIABLES
    main,      \* where main is; "terminated" when an exception has left it
    g_loop,    \* the global flag the handler clears
    pending    \* TRUE when SIGINT has been sent and not yet handled

vars == <<main, g_loop, pending>>

Init == main = "loop" /\ g_loop = TRUE /\ pending = FALSE

TestLoop ==
    /\ main = "loop"
    /\ main' = IF g_loop THEN "recv" ELSE "disconnect"
    /\ UNCHANGED <<g_loop, pending>>

\* A reply, or NetworkTimeout after RpcTimeout: CallFunc returns.
CallReturns ==
    /\ main = "recv"
    /\ main' = "loop"
    /\ UNCHANGED <<g_loop, pending>>

DisconnectNetwork ==
    /\ main = "disconnect"
    /\ main' = "ended"
    /\ UNCHANGED <<g_loop, pending>>

Interrupt ==
    /\ main \notin {"ended", "terminated"} /\ g_loop
    /\ pending' = TRUE
    /\ UNCHANGED <<main, g_loop>>

\* The handler runs on main's thread, since ZeroMQ's own threads block signals.
\* If main is blocked in recv, poll then returns EINTR and recv throws; neither
\* CallFunc nor main catches the exception.
SignalHandler ==
    /\ pending
    /\ pending' = FALSE /\ g_loop' = FALSE
    /\ main' = IF main = "recv" THEN "terminated" ELSE main

Step == TestLoop \/ CallReturns \/ DisconnectNetwork
Next == Step \/ Interrupt \/ SignalHandler

\* main is scheduled and a signal that was sent is delivered.
Spec == Init /\ [][Next]_vars /\ WF_vars(Step) /\ WF_vars(SignalHandler)

\* A client told to stop leaves its loop and disconnects, as main is written to.
InterruptedClientDisconnects == pending ~> main = "ended"
==============================================================================
