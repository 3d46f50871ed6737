---------------------------- MODULE AsyncBroadcast ----------------------------
(***************************************************************************)
(* RpcAsyncBroadcast end to end.  Every node is one RpcAsyncBroadcast; all *)
(* nodes name the same two ports.  A node of role Server owns a publisher  *)
(* (PUB) and a responder (REP) with its thread, and every node a           *)
(* subscriber (SUB) with its thread and a requester (REQ).  CallFunc sends *)
(* a request to the responder, which publishes it to all subscribers.      *)
(*                                                                         *)
(* Responder.tla and Subscriber.tla model the two threads in detail; here  *)
(* a thread is in recv, in its handler, or done.  StandardRpc.tla explains *)
(* the places a request goes through (`net`).                              *)
(***************************************************************************)
EXTENDS Naturals, Sequences

CONSTANTS
    Node,         \* the processes
    Server,       \* those that start in the role Server, the others as Client
    Func,         \* function names nodes bind and call
    MaxCalls,     \* bound: CallFunc invocations per node
    MaxStarts,    \* bound: calls of Start per node, restarts of it included
    MaxQueue      \* bound: broadcasts under way to one node; more are dropped

ASSUME ServerAssumption == Server \subseteq Node
ASSUME BoundsAssumption == MaxCalls \in Nat /\ MaxStarts \in Nat /\ MaxQueue \in Nat

VARIABLES
    (* the owner's thread of each node *)
    role,         \* RpcAsyncBroadcast::role
    step,         \* where the owner is in Start, Stop or CallFunc
    success,      \* what Start returned, or will unless something still fails
    starts,       \* calls of Start so far
    name,         \* the function the latest CallFunc named
    publisher, responder, subscriber,   \* the nodes where it is not nullptr
    requester,    \* the current REQ socket by number; 0 is nullptr
    sockets,      \* REQ sockets created so far
    rpcs,         \* RpcAsyncBroadcast::rpcs, the bound names
    (* the two service threads of each node *)
    resp,         \* the responder's thread
    sub,          \* the subscriber's thread
    taken,        \* the broadcast it has received, a position of log; 0: none
    (* the network *)
    foreign,      \* ports held by another program or a closing socket
    net,          \* the requests and replies under way
    joined,       \* subscribers whose subscription the publisher has
    pipe,         \* broadcasts on their way from PUB to each SUB
    (* history *)
    calls,        \* CallFunc invocations so far
    log,          \* the published calls
    ran,          \* ran[n]: positions of log whose function node n has run
    outcome       \* what each call returned

owner   == <<role, step, success, starts, name>>
insts   == <<publisher, responder, subscriber, requester, sockets>>
threads == <<resp, sub, taken>>
wire    == <<foreign, net, joined, pipe>>
history == <<calls, log, ran, outcome>>
vars    == <<owner, insts, rpcs, threads, wire, history>>

Cast == INSTANCE Broadcast
            WITH log <- [i \in DOMAIN log |-> <<log[i].client, log[i].call>>]

Ports   == {"callfunc", "broadcast"}
Steps   == {"idle", "recv", "publisher", "responder", "subscriber", "requester",
            "waitResponse", "waitReceive", "destroy"}
Codes   == {"none", "Success", "FunctionNotFound"}
Message == [client : Node, sock : Nat, call : Cast!Call, func : Func,
            at : {"out", "in", "exec", "reply"}, code : Codes]

\* One type invariant: the range of every variable.
TypeOK ==
    /\ role \in [Node -> {"None", "Server", "Client"}]
    /\ step \in [Node -> Steps]
    /\ success \in [Node -> BOOLEAN] /\ starts \in [Node -> 0 .. MaxStarts]
    /\ name \in [Node -> Func]
    /\ publisher \subseteq Node /\ responder \subseteq Node /\ subscriber \subseteq Node
    /\ requester \in [Node -> Nat] /\ sockets \in [Node -> Nat]
    /\ rpcs \in [Node -> SUBSET Func]
    /\ resp \in [Node -> {"none", "recv", "exec", "done"}]
    /\ sub \in [Node -> {"none", "recv", "process", "done"}]
    /\ taken \in [Node -> 0 .. Len(log)]
    /\ foreign \subseteq Ports
    /\ net \subseteq Message
    /\ joined \subseteq subscriber
    /\ pipe \in [Node -> Seq(DOMAIN log)]
    /\ calls \in [Node -> 0 .. MaxCalls]
    /\ log \in Seq([client : Node, call : Cast!Call, func : Func])
    /\ ran \in [Node -> SUBSET DOMAIN log]
    /\ outcome \in [Node -> [Cast!Call -> Cast!Errors]]

\* No node has started; a port may already be in use.
Init ==
    /\ role = [n \in Node |-> "None"] /\ step = [n \in Node |-> "idle"]
    /\ success = [n \in Node |-> FALSE] /\ starts = [n \in Node |-> 0]
    /\ name \in {[n \in Node |-> f] : f \in Func}
    /\ publisher = {} /\ responder = {} /\ subscriber = {}
    /\ requester = [n \in Node |-> 0] /\ sockets = [n \in Node |-> 0]
    /\ rpcs = [n \in Node |-> {}]
    /\ resp = [n \in Node |-> "none"] /\ sub = [n \in Node |-> "none"]
    /\ taken = [n \in Node |-> 0]
    /\ foreign \in SUBSET Ports
    /\ net = {} /\ joined = {} /\ pipe = [n \in Node |-> <<>>]
    /\ log = <<>> /\ calls = [n \in Node |-> 0]
    /\ ran = [n \in Node |-> {}]
    /\ outcome = [n \in Node |-> [k \in Cast!Call |-> "none"]]

-----------------------------------------------------------------------------
(* Helpers *)

Goto(n, s) == step' = [step EXCEPT ![n] = s]

\* A new REQ socket, connected to the callfunc port.
NewSocket(n) ==
    /\ sockets' = [sockets EXCEPT ![n] = @ + 1]
    /\ requester' = [requester EXCEPT ![n] = sockets[n] + 1]

\* Destroying a REQ socket (linger 0) discards what it has not written to TCP.
AfterClose(n) == {m \in net : m.client = n /\ m.at = "out" => m.sock # requester[n]}

\* A thread finds its flag still set, or was told to stop.
RespNext(n) == IF step[n] = "waitResponse" THEN "done" ELSE "recv"
SubNext(n)  == IF step[n] = "waitReceive" THEN "done" ELSE "recv"

Move(m, place, code) ==
    net' = (net \ {m}) \cup {[m EXCEPT !.at = place, !.code = code]}

-----------------------------------------------------------------------------
(* Start, one statement after the other *)

\* Names are bound before the threads that read rpcs are started.
BindFunc(n, f) ==
    /\ step[n] = "idle" /\ role[n] = "None"
    /\ rpcs' = [rpcs EXCEPT ![n] = @ \cup {f}]
    /\ UNCHANGED <<owner, insts, threads, wire, history>>

\* On a node that has a role Start returns false and changes nothing.
StartBegins(n) ==
    /\ step[n] = "idle" /\ role[n] = "None"
    /\ starts[n] < MaxStarts
    /\ starts' = [starts EXCEPT ![n] = @ + 1]
    /\ role' = [role EXCEPT ![n] = IF n \in Server THEN "Server" ELSE "Client"]
    /\ success' = [success EXCEPT ![n] = TRUE]
    /\ Goto(n, IF n \in Server THEN "publisher" ELSE "subscriber")
    /\ UNCHANGED <<name, insts, rpcs, threads, wire, history>>

\* A port in use makes Init fail: the pointer stays null, Start notes the
\* failure and goes on.
CreatePublisher(n) ==
    /\ step[n] = "publisher"
    /\ \/ /\ publisher = {} /\ "broadcast" \notin foreign
          /\ publisher' = {n}
          /\ UNCHANGED success
       \/ /\ publisher # {} \/ "broadcast" \in foreign
          /\ success' = [success EXCEPT ![n] = FALSE]
          /\ UNCHANGED publisher
    /\ Goto(n, "responder")
    /\ UNCHANGED <<role, starts, name, responder, subscriber, requester, sockets, rpcs,
                   threads, wire, history>>

\* The responder's thread starts at once, whether or not there is a publisher.
CreateResponder(n) ==
    /\ step[n] = "responder"
    /\ \/ /\ responder = {} /\ "callfunc" \notin foreign
          /\ responder' = {n}
          /\ resp' = [resp EXCEPT ![n] = "recv"]
          /\ UNCHANGED success
       \/ /\ responder # {} \/ "callfunc" \in foreign
          /\ success' = [success EXCEPT ![n] = FALSE]
          /\ UNCHANGED <<responder, resp>>
    /\ Goto(n, "subscriber")
    /\ UNCHANGED <<role, starts, name, publisher, subscriber, requester, sockets, rpcs,
                   sub, taken, wire, history>>

\* Connecting does not wait for the other side, so it does not fail.
CreateSubscriber(n) ==
    /\ step[n] = "subscriber"
    /\ subscriber' = subscriber \cup {n}
    /\ sub' = [sub EXCEPT ![n] = "recv"]
    /\ Goto(n, "requester")
    /\ UNCHANGED <<role, success, starts, name, publisher, responder, requester, sockets,
                   rpcs, resp, taken, wire, history>>

CreateRequester(n) ==
    /\ step[n] = "requester"
    /\ NewSocket(n)
    /\ Goto(n, "idle")
    /\ UNCHANGED <<role, success, starts, name, publisher, responder, subscriber,
                   rpcs, threads, wire, history>>

-----------------------------------------------------------------------------
(* Stop, one statement after the other *)

\* Faulty variant (PublisherServesResponder): the publisher is destroyed first.
FaultyStopClosesFirst(n) ==
    /\ step[n] = "idle" /\ role[n] # "None"
    /\ publisher' = publisher \ {n}
    /\ Goto(n, IF n \in responder THEN "waitResponse" ELSE "waitReceive")
    /\ UNCHANGED <<role, success, starts, name, responder, subscriber, requester, sockets,
                   rpcs, threads, wire, history>>

\* Faulty variant (IdleHoldsNothing): a Stop after a Start that failed only
\* stops the client's half.
FaultyStopTrustsSuccess(n) ==
    /\ step[n] = "idle" /\ role[n] # "None"
    /\ Goto(n, IF n \in responder /\ success[n] THEN "waitResponse" ELSE "waitReceive")
    /\ UNCHANGED <<role, success, starts, name, insts, rpcs, threads, wire, history>>

\* StopResponse where there is a responder, else StopReceive: the flag of the
\* thread goes down.  Without a role Stop returns false and changes nothing.
StopBegins(n) ==
    /\ step[n] = "idle" /\ role[n] # "None"
    /\ Goto(n, IF n \in responder THEN "waitResponse" ELSE "waitReceive")
    /\ UNCHANGED <<role, success, starts, name, insts, rpcs, threads, wire, history>>

\* WaitResponse and ResetResponse, then StopReceive.
WaitResponse(n) ==
    /\ step[n] = "waitResponse" /\ resp[n] = "done"
    /\ resp' = [resp EXCEPT ![n] = "none"]
    /\ Goto(n, "waitReceive")
    /\ UNCHANGED <<role, success, starts, name, insts, rpcs, sub, taken, wire, history>>

\* WaitReceive and ResetReceive.
WaitReceive(n) ==
    /\ step[n] = "waitReceive" /\ sub[n] = "done"
    /\ sub' = [sub EXCEPT ![n] = "none"]
    /\ Goto(n, "destroy")
    /\ UNCHANGED <<role, success, starts, name, insts, rpcs, resp, taken, wire, history>>

\* Who is still subscribed once node n has closed its sockets.
Subscriptions(n) == IF n \in publisher THEN {} ELSE joined \ {n}

\* Whatever instances node n has are gone, and its sockets with what is queued
\* in them; a bound port is released only when the socket has closed.
Release(n) ==
    /\ publisher' = publisher \ {n} /\ responder' = responder \ {n}
    /\ subscriber' = subscriber \ {n}
    /\ requester' = [requester EXCEPT ![n] = 0]
    /\ foreign' = foreign \cup {p \in Ports : \/ p = "callfunc" /\ n \in responder
                                              \/ p = "broadcast" /\ n \in publisher}
    /\ joined' = Subscriptions(n)
    /\ pipe' = [pipe EXCEPT ![n] = <<>>]
    /\ net' = {m \in AfterClose(n) : n \in responder => m.at \notin {"in", "exec"}}
    /\ role' = [role EXCEPT ![n] = "None"]
    /\ Goto(n, "idle")

DestroyInstances(n) ==
    /\ step[n] = "destroy"
    /\ Release(n)
    /\ UNCHANGED <<success, starts, name, sockets, rpcs, threads, history>>

\* The process of node n ends without Stop; another one takes its place.
NodeDies(n) ==
    /\ role[n] # "None"
    /\ Release(n)
    /\ resp' = [resp EXCEPT ![n] = "none"] /\ sub' = [sub EXCEPT ![n] = "none"]
    /\ taken' = [taken EXCEPT ![n] = 0]
    /\ rpcs' = [rpcs EXCEPT ![n] = {}]
    /\ UNCHANGED <<success, starts, name, sockets, history>>

-----------------------------------------------------------------------------
(* CallFunc *)

\* CallFunc up to its recv.  Callers start first: requester is not null.
SendRequest(n, f) ==
    /\ step[n] = "idle" /\ requester[n] # 0
    /\ calls[n] < MaxCalls
    /\ calls' = [calls EXCEPT ![n] = @ + 1]
    /\ name' = [name EXCEPT ![n] = f]
    /\ net' = net \cup {[client |-> n, sock |-> requester[n], call |-> calls[n] + 1,
                         func |-> f, at |-> "out", code |-> "none"]}
    /\ Goto(n, "recv")
    /\ UNCHANGED <<role, success, starts, insts, rpcs, threads, foreign, joined, pipe,
                   log, ran, outcome>>

ReceiveReply(n) ==
    /\ step[n] = "recv"
    /\ \E m \in net :
        /\ m.client = n /\ m.sock = requester[n] /\ m.at = "reply"
        /\ net' = net \ {m}
        /\ outcome' = [outcome EXCEPT ![n][calls[n]] =
                        IF m.func = name[n] THEN m.code ELSE "FunctionNameMismatch"]
    /\ Goto(n, "idle")
    /\ UNCHANGED <<role, success, starts, name, insts, rpcs, threads, foreign, joined,
                   pipe, calls, log, ran>>

\* Faulty variant (ImplementsBroadcast): the request is sent again.
FaultyTimeoutResends(n) ==
    /\ step[n] = "recv"
    /\ net' = AfterClose(n) \cup
            {[client |-> n, sock |-> sockets[n] + 1, call |-> calls[n],
              func |-> name[n], at |-> "out", code |-> "none"]}
    /\ NewSocket(n)
    /\ outcome' = [outcome EXCEPT ![n][calls[n]] = "NetworkTimeout"]
    /\ Goto(n, "idle")
    /\ UNCHANGED <<role, success, starts, name, publisher, responder, subscriber, rpcs,
                   threads, foreign, joined, pipe, calls, log, ran>>

\* recv gives up after RpcTimeout: the socket is always destroyed and another
\* one created, which the code assumes to succeed.
ReceiveTimeout(n) ==
    /\ step[n] = "recv"
    /\ net' = AfterClose(n)
    /\ NewSocket(n)
    /\ outcome' = [outcome EXCEPT ![n][calls[n]] = "NetworkTimeout"]
    /\ Goto(n, "idle")
    /\ UNCHANGED <<role, success, starts, name, publisher, responder, subscriber, rpcs,
                   threads, foreign, joined, pipe, calls, log, ran>>

-----------------------------------------------------------------------------
(* The network *)

Deliver(m) ==
    /\ m.at = "out" /\ responder # {}
    /\ Move(m, "in", "none")
    /\ UNCHANGED <<owner, insts, rpcs, threads, foreign, joined, pipe, history>>

\* A broken connection takes what it carried; a reply to a socket that is gone
\* is dropped by the REP socket.
Lose(m) ==
    /\ m.at \in {"in", "reply"}
    /\ net' = net \ {m}
    /\ UNCHANGED <<owner, insts, rpcs, threads, foreign, joined, pipe, history>>

\* The subscription reaches the publisher some time after the subscriber, or the
\* connection, is made.
Join(n) ==
    /\ publisher # {} /\ n \in subscriber \ joined
    /\ joined' = joined \cup {n}
    /\ UNCHANGED <<owner, insts, rpcs, threads, foreign, net, pipe, history>>

\* A broken connection forgets the subscription and loses the latest broadcasts.
Break(n) ==
    /\ n \in joined \/ pipe[n] # <<>>
    /\ \E k \in 0 .. Len(pipe[n]) : pipe' = [pipe EXCEPT ![n] = SubSeq(@, 1, k)]
    /\ joined' = joined \ {n}
    /\ UNCHANGED <<owner, insts, rpcs, threads, foreign, net, history>>

\* The other program ends, or the closing socket has closed.
PortFreed(p) ==
    /\ p \in foreign
    /\ foreign' = foreign \ {p}
    /\ UNCHANGED <<owner, insts, rpcs, threads, net, joined, pipe, history>>

-----------------------------------------------------------------------------
(* The responder's thread *)

TakeRequest(n, m) ==
    /\ n \in responder /\ resp[n] = "recv" /\ m.at = "in"
    /\ resp' = [resp EXCEPT ![n] = "exec"]
    /\ Move(m, "exec", "none")
    /\ UNCHANGED <<owner, insts, rpcs, sub, taken, foreign, joined, pipe, history>>

\* recv returns nothing and the flag is down; with the flag up nothing changes.
ResponderTimesOut(n) ==
    /\ resp[n] = "recv" /\ RespNext(n) = "done"
    /\ resp' = [resp EXCEPT ![n] = "done"]
    /\ UNCHANGED <<owner, insts, rpcs, sub, taken, wire, history>>

\* PUB sends to the subscribers it knows and drops what does not fit.
Publish(m) ==
    /\ log' = Append(log, [client |-> m.client, call |-> m.call, func |-> m.func])
    /\ pipe' = [n \in Node |-> IF n \in joined /\ Len(pipe[n]) < MaxQueue
                               THEN Append(pipe[n], Len(log) + 1) ELSE pipe[n]]

\* A name bound here is published to all and run by none yet.
ResponseProcess(n, m) ==
    /\ m.at = "exec" /\ m.code = "none" /\ resp[n] = "exec"
    /\ \/ /\ m.func \in rpcs[n] /\ n \in publisher
          /\ Publish(m)
          /\ Move(m, "exec", "Success")
       \/ /\ m.func \notin rpcs[n]
          /\ Move(m, "exec", "FunctionNotFound")
          /\ UNCHANGED <<log, pipe>>
    /\ UNCHANGED <<owner, insts, rpcs, threads, foreign, joined, calls, ran, outcome>>

\* publisher->Publish through a null pointer: undefined, the process dies.
PublishOnNull(n, m) ==
    /\ m.at = "exec" /\ m.code = "none" /\ resp[n] = "exec"
    /\ m.func \in rpcs[n] /\ n \notin publisher
    /\ NodeDies(n)

SendReply(n, m) ==
    /\ m.at = "exec" /\ m.code # "none" /\ resp[n] = "exec"
    /\ resp' = [resp EXCEPT ![n] = RespNext(n)]
    /\ Move(m, "reply", m.code)
    /\ UNCHANGED <<owner, insts, rpcs, sub, taken, foreign, joined, pipe, history>>

-----------------------------------------------------------------------------
(* The subscriber's thread *)

\* Faulty variant (PipeInOrder): the newest broadcast is taken first.
FaultyTakeNewest(n) ==
    /\ sub[n] = "recv" /\ pipe[n] # <<>>
    /\ taken' = [taken EXCEPT ![n] = pipe[n][Len(pipe[n])]]
    /\ pipe' = [pipe EXCEPT ![n] = SubSeq(@, 1, Len(@) - 1)]
    /\ sub' = [sub EXCEPT ![n] = "process"]
    /\ UNCHANGED <<owner, insts, rpcs, resp, foreign, net, joined, history>>

TakeBroadcast(n) ==
    /\ sub[n] = "recv" /\ pipe[n] # <<>>
    /\ taken' = [taken EXCEPT ![n] = Head(pipe[n])]
    /\ pipe' = [pipe EXCEPT ![n] = Tail(@)]
    /\ sub' = [sub EXCEPT ![n] = "process"]
    /\ UNCHANGED <<owner, insts, rpcs, resp, foreign, net, joined, history>>

\* Faulty variant (StopTerminates): Start does not SetTimeout on the subscriber.
FaultyNoTimeout(n) == FALSE /\ n \in Node /\ UNCHANGED vars

\* Faulty variant (BroadcastsLeavePipe): the thread takes a timeout for the end.
FaultyTimeoutEnds(n) ==
    /\ sub[n] = "recv"
    /\ sub' = [sub EXCEPT ![n] = "done"]
    /\ UNCHANGED <<owner, insts, rpcs, resp, taken, wire, history>>

SubscriberTimesOut(n) ==
    /\ sub[n] = "recv" /\ SubNext(n) = "done"
    /\ sub' = [sub EXCEPT ![n] = "done"]
    /\ UNCHANGED <<owner, insts, rpcs, resp, taken, wire, history>>

\* A name this node has not bound is ignored.
SubscribeProcess(n) ==
    /\ sub[n] = "process"
    /\ ran' = IF log[taken[n]].func \in rpcs[n]
              THEN [ran EXCEPT ![n] = @ \cup {taken[n]}] ELSE ran
    /\ taken' = [taken EXCEPT ![n] = 0]
    /\ sub' = [sub EXCEPT ![n] = SubNext(n)]
    /\ UNCHANGED <<owner, insts, rpcs, resp, wire, calls, log, outcome>>

-----------------------------------------------------------------------------
(* The specification *)

OwnerStep(n) ==
    \/ \E f \in Func : BindFunc(n, f) \/ SendRequest(n, f)
    \/ StartBegins(n) \/ CreatePublisher(n) \/ CreateResponder(n)
    \/ CreateSubscriber(n) \/ CreateRequester(n)
    \/ StopBegins(n) \/ WaitResponse(n) \/ WaitReceive(n) \/ DestroyInstances(n)
    \/ ReceiveReply(n) \/ ReceiveTimeout(n)

ResponderStep(n) ==
    \/ ResponderTimesOut(n)
    \/ \E m \in net : \/ TakeRequest(n, m) \/ ResponseProcess(n, m)
                      \/ PublishOnNull(n, m) \/ SendReply(n, m)

SubscriberStep(n) == TakeBroadcast(n) \/ SubscriberTimesOut(n) \/ SubscribeProcess(n)

Next == \/ \E n \in Node : \/ OwnerStep(n) \/ ResponderStep(n) \/ SubscriberStep(n)
                           \/ NodeDies(n) \/ Join(n) \/ Break(n)
        \/ \E m \in net : Deliver(m) \/ Lose(m)
        \/ \E p \in Ports : PortFreed(p)

\* The threads of a node are scheduled, and its owner inside a call it has made.
\* The network, other programs and the users of the nodes owe nothing.
Fairness == \A n \in Node :
    /\ WF_vars(ResponderStep(n)) /\ WF_vars(SubscriberStep(n))
    /\ WF_vars(ReceiveReply(n) \/ ReceiveTimeout(n))
    /\ WF_vars(WaitResponse(n) \/ WaitReceive(n) \/ DestroyInstances(n))

Spec == Init /\ [][Next]_vars /\ Fairness

-----------------------------------------------------------------------------
(* Properties *)

\* A responder's thread whose node started successfully finds a publisher,
\* until the thread is joined, whatever of Start and Stop is under way.
PublisherServesResponder == \A n \in Node :
    resp[n] = "exec" /\ success[n] => n \in publisher

\* Outside Start and Stop a node without a role has no instance and no thread,
\* also after a Stop that followed a Start which failed half way.
IdleHoldsNothing == \A n \in Node : step[n] = "idle" /\ role[n] = "None" =>
    /\ n \notin publisher \cup responder \cup subscriber /\ requester[n] = 0
    /\ resp[n] = "none" /\ sub[n] = "none" /\ pipe[n] = <<>>

\* A call that returned FunctionNotFound was not published and no node runs it.
RefusedNeverPublished == \A n \in Node, k \in Cast!Call :
    outcome[n][k] = "FunctionNotFound" => ~Cast!Published(n, k)

\* A subscriber hears of broadcasts in the order of their publication and of
\* none twice, across stops, restarts and reconnections of either end.
PipeInOrder == \A n \in Node :
    /\ \A i, j \in DOMAIN pipe[n] : i < j => pipe[n][i] < pipe[n][j]
    /\ \A i \in DOMAIN pipe[n] : \A j \in ran[n] \cup {taken[n]} : j < pipe[n][i]

\* Stop returns, also on a node whose Start failed half way.
StopTerminates == \A n \in Node :
    (step[n] \in {"waitResponse", "waitReceive"}) ~> (role[n] = "None")

\* A broadcast that has reached a node is run, ignored, or lost with its
\* connection or subscriber: none stays.
BroadcastsLeavePipe == \A n \in Node : \A i \in 1 .. MaxCalls :
    (\E j \in DOMAIN pipe[n] : pipe[n][j] = i) ~> (\A j \in DOMAIN pipe[n] : pipe[n][j] # i)

\* The whole system provides the ordered, at most once broadcast of Broadcast.
ImplementsBroadcast == Cast!CastSpec

\* ResponseProcess publishes on a publisher that exists.
PublisherExists == \A n \in Node, m \in net :
    m.at = "exec" /\ m.code = "none" /\ resp[n] = "exec" /\ m.func \in rpcs[n]
        => n \in publisher

\* A publication goes "to all clients": every node that has started is sent it.
PublishedToAll == [][\A n \in Node :
    log' # log /\ role[n] # "None" /\ step[n] \in {"idle", "recv"} /\ success[n]
        => \E i \in DOMAIN pipe'[n] : pipe'[n][i] = Len(log')]_vars
==============================================================================
