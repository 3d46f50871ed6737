----------------------------- MODULE RemoteCall -----------------------------
(***************************************************************************)
(* What a remote call promises its caller: the function runs at most once  *)
(* per CallFunc, Success is returned only by a call that ran and carries   *)
(* that call's own result, FunctionNotFound only by one that has not run   *)
(* and never will.  NetworkTimeout, or an exception out of the wait, says  *)
(* nothing: the call may have run, or may run later.  No call returns      *)
(* FunctionNameMismatch.                                                   *)
(***************************************************************************)
EXTENDS Naturals

CONSTANTS Client, MaxCalls

VARIABLES
    calls,     \* calls[c]: CallFunc invocations client c has made
    open,      \* the clients inside CallFunc
    execs,     \* execs[c][k]: how often the function ran for call k of c
    outcome    \* outcome[c][k]: what call k of c returned

callVars == <<calls, open, execs, outcome>>

Call == 1 .. MaxCalls

\* RpcCallError, "none" for a call that has not returned, and two for a call
\* that threw.  The value of a result is the call whose execution computed it.
Errors == {"none", "Success", "NetworkTimeout", "FunctionNotFound",
           "FunctionNameMismatch", "SendThrew", "ReceiveThrew"}
Undecided == {"none", "NetworkTimeout", "ReceiveThrew"}
Return(e, v) == [error |-> e, value |-> v]
Unreturned == Return("none", 0)

CallInit ==
    /\ calls = [c \in Client |-> 0]
    /\ open = {}
    /\ execs = [c \in Client |-> [k \in Call |-> 0]]
    /\ outcome = [c \in Client |-> [k \in Call |-> Unreturned]]

Invoke(c) ==
    /\ c \notin open /\ calls[c] < MaxCalls
    /\ calls' = [calls EXCEPT ![c] = @ + 1]
    /\ open' = open \cup {c}
    /\ UNCHANGED <<execs, outcome>>

\* The call throws before anything is sent: it will never run.
Refuse(c) ==
    /\ c \notin open /\ calls[c] < MaxCalls
    /\ calls' = [calls EXCEPT ![c] = @ + 1]
    /\ outcome' = [outcome EXCEPT ![c][calls[c] + 1] = Return("SendThrew", 0)]
    /\ UNCHANGED <<open, execs>>

Execute(c, k) ==
    /\ k <= calls[c] /\ execs[c][k] = 0
    /\ outcome[c][k].error \in Undecided
    /\ execs' = [execs EXCEPT ![c][k] = 1]
    /\ UNCHANGED <<calls, open, outcome>>

Complete(c) ==
    /\ c \in open
    /\ \/ /\ execs[c][calls[c]] = 1
          /\ outcome' = [outcome EXCEPT ![c][calls[c]] = Return("Success", calls[c])]
       \/ /\ execs[c][calls[c]] = 0
          /\ outcome' = [outcome EXCEPT ![c][calls[c]] = Return("FunctionNotFound", 0)]
       \/ \E e \in {"NetworkTimeout", "ReceiveThrew"} :
            outcome' = [outcome EXCEPT ![c][calls[c]] = Return(e, 0)]
    /\ open' = open \ {c}
    /\ UNCHANGED <<calls, execs>>

\* The caller is gone before its call returns.
Abandon(c) ==
    /\ c \in open
    /\ open' = open \ {c}
    /\ UNCHANGED <<calls, execs, outcome>>

CallNext == \E c \in Client :
    Invoke(c) \/ Refuse(c) \/ Complete(c) \/ Abandon(c) \/ \E k \in Call : Execute(c, k)

CallSpec == CallInit /\ [][CallNext]_callVars
==============================================================================
