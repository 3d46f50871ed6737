------------------------------ MODULE Broadcast ------------------------------
(***************************************************************************)
(* What an asynchronous broadcast call promises.  The calls are published  *)
(* in one order, each at most once; a node runs some of them, in that      *)
(* order, each at most once, and the caller is not told when or where.     *)
(* Success means the call was published, FunctionNotFound that it was not  *)
(* and never will be, NetworkTimeout nothing.                              *)
(***************************************************************************)
EXTENDS Naturals, Sequences

CONSTANTS Node, MaxCalls

VARIABLES
    calls,     \* calls[n]: CallFunc invocations node n has made
    log,       \* the published calls in order, pairs of a node and its call
    ran,       \* ran[n]: positions of the log whose function node n has run
    outcome    \* outcome[n][k]: what call k of node n returned

castVars == <<calls, log, ran, outcome>>

Call == 1 .. MaxCalls
Errors == {"none", "Success", "NetworkTimeout", "FunctionNotFound",
           "FunctionNameMismatch"}
Undecided == {"none", "NetworkTimeout"}

Published(n, k) == \E i \in DOMAIN log : log[i] = <<n, k>>

CastInit ==
    /\ calls = [n \in Node |-> 0]
    /\ log = <<>>
    /\ ran = [n \in Node |-> {}]
    /\ outcome = [n \in Node |-> [k \in Call |-> "none"]]

Invoke(n) ==
    /\ calls[n] < MaxCalls
    /\ calls' = [calls EXCEPT ![n] = @ + 1]
    /\ UNCHANGED <<log, ran, outcome>>

Publish(n, k) ==
    /\ k <= calls[n] /\ ~Published(n, k) /\ outcome[n][k] \in Undecided
    /\ log' = Append(log, <<n, k>>)
    /\ UNCHANGED <<calls, ran, outcome>>

\* Broadcasts may be missed, but none is run late: only one published after
\* every one this node has run.
Run(n) ==
    /\ \E i \in DOMAIN log :
        /\ \A j \in ran[n] : j < i
        /\ ran' = [ran EXCEPT ![n] = @ \cup {i}]
    /\ UNCHANGED <<calls, log, outcome>>

Complete(n) ==
    /\ calls[n] > 0 /\ outcome[n][calls[n]] = "none"
    /\ \E e \in {"Success", "NetworkTimeout", "FunctionNotFound"} :
        /\ e = "Success" => Published(n, calls[n])
        /\ e = "FunctionNotFound" => ~Published(n, calls[n])
        /\ outcome' = [outcome EXCEPT ![n][calls[n]] = e]
    /\ UNCHANGED <<calls, log, ran>>

CastNext == \E n \in Node : Invoke(n) \/ Run(n) \/ Complete(n) \/ \E k \in Call : Publish(n, k)

CastSpec == CastInit /\ [][CastNext]_castVars
==============================================================================
