----------------------------- MODULE StandardRpc -----------------------------
(***************************************************************************)
(* The request-reply RPC end to end: every client is an RpcProcessRequest  *)
(* with its Requester (a REQ socket), the server is an RpcProcessResponse  *)
(* whose Responder thread is a ServiceThread (Responder.tla shows that it  *)
(* is), and between them ZeroMQ over TCP, which may lose what a broken     *)
(* connection carried but neither duplicates nor corrupts a message.       *)
(*                                                                         *)
(* A REQ socket has one request outstanding at most.  `net` holds that     *)
(* request, then its reply, from CallFunc until it is received or lost:    *)
(*   "out"   in the REQ socket's own pipe, not yet written to TCP          *)
(*   "in"    written to TCP or queued in the REP socket                    *)
(*   "exec"  taken by the server's thread                                  *)
(*   "reply" handed to the REP socket, on its way back                     *)
(***************************************************************************)
EXTENDS Naturals

CONSTANTS
    Client,       \* the client processes
    Func,         \* function names clients call and servers bind
    MaxCalls,     \* bound: CallFunc invocations per client
    MaxSockets    \* bound: REQ sockets a client creates (connects, reconnects)

ASSUME BoundsAssumption == MaxCalls \in Nat /\ MaxSockets \in Nat

VARIABLES
    (* the clients *)
    pc,            \* "idle", or "recv" while CallFunc waits in recv
    requester,     \* the current REQ socket by number; 0 is nullptr
    sockets,       \* REQ sockets created so far
    receiving,     \* the REQ socket's state: TRUE when a reply is expected
    autoReconnect, \* RpcProcessRequest::autoReconnectNetwork
    name,          \* the function the latest call named
    calls,         \* CallFunc invocations so far
    outcome,       \* history: what each call returned
    (* the network and the server *)
    net,           \* the requests and replies under way
    phase, busy,   \* the server's thread, see ServiceThread
    rpcs,          \* RpcProcessResponse::rpcs, the bound names
    execs          \* history: how often each call's function ran

conn    == <<requester, sockets, receiving>>
history == <<calls, outcome>>
clientVars == <<pc, conn, autoReconnect, name, history>>
thread  == <<phase, busy>>
vars    == <<clientVars, net, thread, rpcs, execs>>

Thread == INSTANCE ServiceThread
Remote == INSTANCE RemoteCall WITH open <- {c \in Client : pc[c] = "recv"}

Call    == Remote!Call
Codes   == {"none", "Success", "FunctionNotFound"}
Places  == {"out", "in", "exec", "reply"}
Message == [client : Client, sock : Nat, call : Call, func : Func,
            at : Places, code : Codes]
Result  == [error : Remote!Errors, value : Nat]

\* One type invariant: the range of every variable.
TypeOK ==
    /\ pc \in [Client -> {"idle", "recv"}]
    /\ requester \in [Client -> Nat]
    /\ sockets \in [Client -> Nat]
    /\ receiving \in [Client -> BOOLEAN]
    /\ autoReconnect \in [Client -> BOOLEAN]
    /\ name \in [Client -> Func]
    /\ calls \in [Client -> Nat]
    /\ outcome \in [Client -> [Call -> Result]]
    /\ net \subseteq Message
    /\ Thread!ServiceTypeOK
    /\ rpcs \subseteq Func
    /\ execs \in [Client -> [Call -> Nat]]

Init ==
    /\ pc = [c \in Client |-> "idle"]
    /\ requester = [c \in Client |-> 0]
    /\ sockets = [c \in Client |-> 0]
    /\ receiving = [c \in Client |-> FALSE]
    /\ autoReconnect = [c \in Client |-> TRUE]
    /\ name \in {[c \in Client |-> f] : f \in Func}
    /\ Remote!CallInit
    /\ net = {}
    /\ Thread!ServiceInit
    /\ rpcs = {}

-----------------------------------------------------------------------------
(* Sockets and messages *)

NewRequest(c, s, k, f) ==
    [client |-> c, sock |-> s, call |-> k, func |-> f, at |-> "out", code |-> "none"]

Move(m, place, code) ==
    net' = (net \ {m}) \cup {[m EXCEPT !.at = place, !.code = code]}

\* A new REQ socket, connected to the server's address.
NewSocket(c) ==
    /\ sockets[c] < MaxSockets
    /\ sockets' = [sockets EXCEPT ![c] = @ + 1]
    /\ requester' = [requester EXCEPT ![c] = sockets[c] + 1]
    /\ receiving' = [receiving EXCEPT ![c] = FALSE]

\* Faulty variant (ClientBufferCurrent): linger is left at its default.
FaultyKeepsBuffer(c) == net

\* What a socket's destruction leaves of the client's messages: linger is 0, so
\* a request not yet written to TCP is discarded with its pipe.
AfterClose(c) == {m \in net : m.client = c /\ m.at = "out" => m.sock # requester[c]}

DropSocket(c) ==
    /\ net' = AfterClose(c)
    /\ requester' = [requester EXCEPT ![c] = 0]
    /\ receiving' = [receiving EXCEPT ![c] = FALSE]

-----------------------------------------------------------------------------
(* ConnectNetwork, DisconnectNetwork, SetAutoReconnectNetwork *)

\* No connection is made yet, so this succeeds with or without a server.  On a
\* connected client it returns false and changes nothing.
ConnectNetwork(c) ==
    /\ pc[c] = "idle" /\ requester[c] = 0
    /\ NewSocket(c)
    /\ UNCHANGED <<pc, autoReconnect, name, history, net, thread, rpcs, execs>>

DisconnectNetwork(c) ==
    /\ pc[c] = "idle" /\ requester[c] # 0
    /\ DropSocket(c)
    /\ UNCHANGED <<pc, sockets, autoReconnect, name, history, thread, rpcs, execs>>

SetAutoReconnectNetwork(c, enable) ==
    /\ pc[c] = "idle"
    /\ autoReconnect' = [autoReconnect EXCEPT ![c] = enable]
    /\ UNCHANGED <<pc, conn, name, history, net, thread, rpcs, execs>>

\* The client process ends inside or outside CallFunc, and another takes its place.
ProcessEnds(c) ==
    /\ requester[c] # 0
    /\ DropSocket(c)
    /\ pc' = [pc EXCEPT ![c] = "idle"]
    /\ autoReconnect' = [autoReconnect EXCEPT ![c] = TRUE]
    /\ UNCHANGED <<sockets, name, history, thread, rpcs, execs>>

-----------------------------------------------------------------------------
(* CallFunc *)

\* CallFunc up to its recv.  Callers connect first: requester is not null.
SendRequest(c, f) ==
    /\ pc[c] = "idle" /\ requester[c] # 0 /\ ~receiving[c]
    /\ calls[c] < MaxCalls
    /\ calls' = [calls EXCEPT ![c] = @ + 1]
    /\ name' = [name EXCEPT ![c] = f]
    /\ net' = net \cup {NewRequest(c, requester[c], calls[c] + 1, f)}
    /\ receiving' = [receiving EXCEPT ![c] = TRUE]
    /\ pc' = [pc EXCEPT ![c] = "recv"]
    /\ UNCHANGED <<requester, sockets, autoReconnect, outcome, thread, rpcs, execs>>

\* A REQ socket still expecting a reply refuses to send: zmq throws EFSM.
SendThrows(c) ==
    /\ pc[c] = "idle" /\ requester[c] # 0 /\ receiving[c]
    /\ calls[c] < MaxCalls
    /\ calls' = [calls EXCEPT ![c] = @ + 1]
    /\ outcome' = [outcome EXCEPT ![c][calls[c] + 1] = Remote!Return("SendThrew", 0)]
    /\ UNCHANGED <<pc, conn, autoReconnect, name, net, thread, rpcs, execs>>

\* What CallFunc makes of a reply: the name it carries is looked at first.
Verdict(c, m) ==
    IF m.func # name[c] THEN Remote!Return("FunctionNameMismatch", 0)
    ELSE IF m.code = "Success" THEN Remote!Return("Success", m.call)
    ELSE Remote!Return("FunctionNotFound", 0)

ReceiveReply(c) ==
    /\ pc[c] = "recv"
    /\ \E m \in net :
        /\ m.client = c /\ m.sock = requester[c] /\ m.at = "reply"
        /\ net' = net \ {m}
        /\ outcome' = [outcome EXCEPT ![c][calls[c]] = Verdict(c, m)]
    /\ receiving' = [receiving EXCEPT ![c] = FALSE]
    /\ pc' = [pc EXCEPT ![c] = "idle"]
    /\ UNCHANGED <<requester, sockets, autoReconnect, name, calls, thread, rpcs, execs>>

\* Faulty variants of Reconnect.  AtMostOnce: the request is sent again.
FaultyReconnectResends(c) ==
    /\ net' = AfterClose(c) \cup {NewRequest(c, sockets[c] + 1, calls[c], name[c])}
    /\ NewSocket(c)

\* NeverMismatched, ImplementsRemoteCall: the socket stays
\* and only its state is reset.
FaultyReconnectKeepsSocket(c) ==
    /\ receiving' = [receiving EXCEPT ![c] = FALSE]
    /\ UNCHANGED <<net, requester, sockets>>

\* AutoReconnectKeepsUsable: the test of autoReconnectNetwork is inverted.
FaultyReconnectInverted(c) ==
    \/ ~autoReconnect[c] /\ net' = AfterClose(c) /\ NewSocket(c)
    \/ autoReconnect[c] /\ UNCHANGED <<net, conn>>

\* With autoReconnect the socket is destroyed and another one created for the
\* same address, which the code assumes to succeed.
Reconnect(c) ==
    \/ autoReconnect[c] /\ net' = AfterClose(c) /\ NewSocket(c)
    \/ ~autoReconnect[c] /\ UNCHANGED <<net, conn>>

\* recv gives up after RpcTimeout.
ReceiveTimeout(c) ==
    /\ pc[c] = "recv"
    /\ Reconnect(c)
    /\ outcome' = [outcome EXCEPT ![c][calls[c]] = Remote!Return("NetworkTimeout", 0)]
    /\ pc' = [pc EXCEPT ![c] = "idle"]
    /\ UNCHANGED <<autoReconnect, name, calls, thread, rpcs, execs>>

\* A signal interrupts recv: zmq throws, and nothing between recv and CallFunc's
\* caller catches it, so the socket is left expecting the reply.
ReceiveThrows(c) ==
    /\ pc[c] = "recv"
    /\ outcome' = [outcome EXCEPT ![c][calls[c]] = Remote!Return("ReceiveThrew", 0)]
    /\ pc' = [pc EXCEPT ![c] = "idle"]
    /\ UNCHANGED <<conn, autoReconnect, name, calls, net, thread, rpcs, execs>>

-----------------------------------------------------------------------------
(* The network *)

\* The connection is up: the server's port is bound while its thread exists.
Deliver(m) ==
    /\ m.at = "out" /\ phase # "idle"
    /\ Move(m, "in", "none")
    /\ UNCHANGED <<clientVars, thread, rpcs, execs>>

\* A broken connection takes what it carried; a reply to a socket that is gone
\* is dropped by the REP socket.
Lose(m) ==
    /\ m.at \in {"in", "reply"}
    /\ net' = net \ {m}
    /\ UNCHANGED <<clientVars, thread, rpcs, execs>>

-----------------------------------------------------------------------------
(* The server *)

\* Names are bound before the thread that reads rpcs is started.
BindFunc(f) ==
    /\ phase = "idle"
    /\ rpcs' = rpcs \cup {f}
    /\ UNCHANGED <<clientVars, net, thread, execs>>

StartProcess ==
    /\ Thread!Begin
    /\ UNCHANGED <<clientVars, net, rpcs, execs>>

StopProcessBegins ==
    /\ Thread!Halt
    /\ UNCHANGED <<clientVars, net, rpcs, execs>>

LastReceiveTimesOut ==
    /\ Thread!Lapse
    /\ UNCHANGED <<clientVars, net, rpcs, execs>>

\* The thread is joined and the REP socket destroyed with the requests in it.
StopProcessEnds ==
    /\ Thread!Finish
    /\ net' = {m \in net : m.at # "in"}
    /\ UNCHANGED <<clientVars, rpcs, execs>>

TakeRequest(m) ==
    /\ m.at = "in"
    /\ Thread!Enter
    /\ Move(m, "exec", "none")
    /\ UNCHANGED <<clientVars, rpcs, execs>>

\* Faulty variant (RequestsLeaveQueue): an unknown function produces no reply.
FaultyCodeOnlyIfBound(f) == IF f \in rpcs THEN "Success" ELSE "none"

ReturnCode(f) == IF f \in rpcs THEN "Success" ELSE "FunctionNotFound"

\* The bound function runs, or the reply says FunctionNotFound.
ExecFunc(m) ==
    /\ m.at = "exec" /\ m.code = "none"
    /\ execs' = IF m.func \in rpcs THEN [execs EXCEPT ![m.client][m.call] = @ + 1] ELSE execs
    /\ Move(m, "exec", ReturnCode(m.func))
    /\ UNCHANGED <<clientVars, thread, rpcs>>

SendReply(m) ==
    /\ m.at = "exec" /\ m.code # "none"
    /\ Thread!Leave
    /\ Move(m, "reply", m.code)
    /\ UNCHANGED <<clientVars, rpcs, execs>>

\* The server process dies, possibly between running a function and replying.
ServerDies ==
    /\ phase # "idle"
    /\ phase' = "idle" /\ busy' = FALSE
    /\ net' = {m \in net : m.at \notin {"in", "exec"}}
    /\ rpcs' = {}
    /\ UNCHANGED <<clientVars, execs>>

-----------------------------------------------------------------------------
(* The specification *)

ClientStep(c) ==
    \/ ConnectNetwork(c) \/ DisconnectNetwork(c) \/ ProcessEnds(c)
    \/ \E enable \in BOOLEAN : SetAutoReconnectNetwork(c, enable)
    \/ \E f \in Func : SendRequest(c, f)
    \/ SendThrows(c) \/ ReceiveReply(c) \/ ReceiveTimeout(c) \/ ReceiveThrows(c)

MessageStep(m) == Deliver(m) \/ Lose(m) \/ TakeRequest(m) \/ ExecFunc(m) \/ SendReply(m)

ServerStep ==
    \/ \E f \in Func : BindFunc(f)
    \/ StartProcess \/ StopProcessBegins \/ LastReceiveTimesOut \/ StopProcessEnds
    \/ ServerDies

Next == \/ \E c \in Client : ClientStep(c)
        \/ \E m \in net : MessageStep(m)
        \/ ServerStep

\* CallFunc's recv has a timeout and the server's thread is scheduled; its recv
\* returns what is queued.  The network, and users of both ends, owe nothing.
Fairness ==
    /\ \A c \in Client : WF_vars(ReceiveReply(c) \/ ReceiveTimeout(c))
    /\ WF_vars(\E m \in net : TakeRequest(m))
    /\ WF_vars(\E m \in net : ExecFunc(m) \/ SendReply(m))
    /\ WF_vars(LastReceiveTimesOut) /\ WF_vars(StopProcessEnds)

Spec == Init /\ [][Next]_vars /\ Fairness

-----------------------------------------------------------------------------
(* Properties *)

\* No CallFunc runs its function twice, whatever is retried, lost or restarted.
AtMostOnce == \A c \in Client, k \in Call : execs[c][k] <= 1

\* A call that returned Success ran exactly once, and the value it returned was
\* computed by that run, not by an earlier call of the same function.
SuccessMeansExecuted == \A c \in Client, k \in Call :
    outcome[c][k].error = "Success" => execs[c][k] = 1 /\ outcome[c][k].value = k

\* A call that returned FunctionNotFound, or whose send threw, has not run and
\* never will.
RefusedMeansNotExecuted == \A c \in Client, k \in Call :
    outcome[c][k].error \in {"FunctionNotFound", "SendThrew"} => execs[c][k] = 0

\* The out-of-order replies that CallFunc's name check is written for never
\* reach it: a late reply belongs to a socket that is gone.
NeverMismatched == \A c \in Client, k \in Call :
    outcome[c][k].error # "FunctionNameMismatch"

\* The client keeps no request of a call that is over: what waits in its own
\* buffer is the request of the socket it has, not yet answered.
ClientBufferCurrent == \A m \in net :
    m.at = "out" => m.sock = requester[m.client] /\ receiving[m.client]

\* With autoReconnect on, a call that returns (rather than throws) never leaves
\* a socket behind that would make the next call throw.
AutoReconnectKeepsUsable == [][\A c \in Client :
    /\ pc[c] = "recv" /\ pc'[c] = "idle" /\ autoReconnect[c]
    /\ outcome'[c][calls[c]].error # "ReceiveThrew"
    => ~receiving'[c]]_vars

\* Every request that reaches a server is answered, lost or dropped by a stop,
\* the requests of calls that timed out long ago included.
RequestsLeaveQueue == \A c \in Client, s \in 1 .. MaxSockets :
    (\E m \in net : m.client = c /\ m.sock = s /\ m.at \in {"in", "exec"})
        ~> ~(\E m \in net : m.client = c /\ m.sock = s /\ m.at \in {"in", "exec"})

\* The whole system provides the at-most-once remote call of RemoteCall.
ImplementsRemoteCall == Remote!CallSpec
==============================================================================
