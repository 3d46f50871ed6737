------------------------- MODULE AsyncBroadcast_proofs -------------------------
(***************************************************************************)
(* Proofs about AsyncBroadcast for every set of nodes and servers and      *)
(* every value of the bounds: what the owner of a node may rely on in      *)
(* Start and Stop, whichever of the ports were in use, and wherever        *)
(* processes die.                                                          *)
(***************************************************************************)
EXTENDS AsyncBroadcast, TLAPS

(* The range of the variables that Start and Stop are about.                *)
RangeInv ==
    /\ role \in [Node -> {"None", "Server", "Client"}]
    /\ step \in [Node -> Steps]
    /\ success \in [Node -> BOOLEAN]
    /\ requester \in [Node -> Nat] /\ sockets \in [Node -> Nat]
    /\ resp \in [Node -> {"none", "recv", "exec", "done"}]
    /\ sub \in [Node -> {"none", "recv", "process", "done"}]
    /\ publisher \subseteq Node /\ responder \subseteq Node
    /\ joined \subseteq subscriber /\ subscriber \subseteq Node
    /\ pipe = [n \in Node |-> pipe[n]]

(* A thread exists only with its instance, and not past its join; a pipe    *)
(* exists only with its subscriber; a responder of a successful Start has a *)
(* publisher beside it.                                                     *)
NodeInv(n) ==
    /\ role[n] = "None" => /\ step[n] = "idle" /\ requester[n] = 0
                           /\ n \notin publisher \cup responder \cup subscriber
    /\ resp[n] # "none" => n \in responder /\ step[n] \notin {"waitReceive", "destroy"}
    /\ sub[n] # "none" => n \in subscriber /\ step[n] # "destroy"
    /\ n \notin subscriber => pipe[n] = <<>>
    /\ step[n] \in {"publisher", "responder"} => n \notin responder
    /\ step[n] = "responder" /\ success[n] => n \in publisher
    /\ n \in responder /\ success[n] => n \in publisher

NodesInv == \A n \in Node : NodeInv(n)
IInv == RangeInv /\ NodesInv

LEMMA InitInv == Init => IInv
BY DEF Init, IInv, RangeInv, NodesInv, NodeInv, Steps

-----------------------------------------------------------------------------
(* Start, Stop and the death of a node.                                     *)

LEMMA StartStep ==
    ASSUME IInv, NEW n \in Node,
           StartBegins(n) \/ CreatePublisher(n) \/ CreateResponder(n)
             \/ CreateSubscriber(n) \/ CreateRequester(n)
    PROVE  IInv'
<1> USE DEF IInv, RangeInv, NodesInv, NodeInv, Steps, Goto, threads, wire, history, insts
<1>1. CASE StartBegins(n)
  <2>1. RangeInv'
    BY <1>1 DEF StartBegins
  <2>2. ASSUME NEW d \in Node PROVE NodeInv(d)'
    BY <1>1 DEF StartBegins
  <2>3. QED BY <2>1, <2>2
<1>2. CASE CreatePublisher(n)
  <2>1. RangeInv'
    BY <1>2 DEF CreatePublisher
  <2>2. ASSUME NEW d \in Node PROVE NodeInv(d)'
    BY <1>2 DEF CreatePublisher
  <2>3. QED BY <2>1, <2>2
<1>3. CASE CreateResponder(n)
  <2>1. RangeInv'
    BY <1>3 DEF CreateResponder
  <2>2. ASSUME NEW d \in Node PROVE NodeInv(d)'
    BY <1>3 DEF CreateResponder
  <2>3. QED BY <2>1, <2>2
<1>4. CASE CreateSubscriber(n)
  <2>1. RangeInv'
    BY <1>4 DEF CreateSubscriber
  <2>2. ASSUME NEW d \in Node PROVE NodeInv(d)'
    BY <1>4 DEF CreateSubscriber
  <2>3. QED BY <2>1, <2>2
<1>5. CASE CreateRequester(n)
  BY <1>5 DEF CreateRequester, NewSocket
<1>6. QED BY <1>1, <1>2, <1>3, <1>4, <1>5

(* Release keeps the invariant where the threads of the node are gone.      *)
LEMMA ReleaseStep ==
    ASSUME IInv, NEW n \in Node, Release(n), UNCHANGED <<success, sockets>>,
           resp' = [resp EXCEPT ![n] = "none"], sub' = [sub EXCEPT ![n] = "none"]
    PROVE  IInv'
<1> USE DEF IInv, RangeInv, NodesInv, NodeInv, Steps, Release, Goto, Subscriptions
<1>1. RangeInv'
  OBVIOUS
<1>2. ASSUME NEW d \in Node PROVE NodeInv(d)'
  OBVIOUS
<1>3. QED BY <1>1, <1>2

LEMMA StopStep ==
    ASSUME IInv, NEW n \in Node,
           StopBegins(n) \/ WaitResponse(n) \/ WaitReceive(n) \/ DestroyInstances(n)
             \/ NodeDies(n)
    PROVE  IInv'
<1>1. CASE StopBegins(n) \/ WaitResponse(n) \/ WaitReceive(n)
  <2> USE DEF IInv, RangeInv, NodesInv, NodeInv, Steps, Goto, threads, wire, history, insts
  <2>1. CASE StopBegins(n)
    BY <2>1 DEF StopBegins
  <2>2. CASE WaitResponse(n)
    BY <2>2 DEF WaitResponse
  <2>3. CASE WaitReceive(n)
    BY <2>3 DEF WaitReceive
  <2>4. QED BY <1>1, <2>1, <2>2, <2>3
<1>2. CASE DestroyInstances(n)
  <2>1. resp[n] = "none" /\ sub[n] = "none"
    BY <1>2 DEF DestroyInstances, IInv, NodesInv, NodeInv
  <2>2. resp' = [resp EXCEPT ![n] = "none"] /\ sub' = [sub EXCEPT ![n] = "none"]
    BY <1>2, <2>1 DEF DestroyInstances, threads, IInv, RangeInv
  <2>3. QED BY <1>2, <2>2, ReleaseStep DEF DestroyInstances
<1>3. CASE NodeDies(n)
  BY <1>3, ReleaseStep DEF NodeDies
<1>4. QED BY <1>1, <1>2, <1>3

-----------------------------------------------------------------------------
(* Calls, the network and the threads.                                      *)

(* A call is made by a node that has a requester, hence a role.             *)
LEMMA CallStep ==
    ASSUME IInv, NEW n \in Node, NEW f \in Func, BindFunc(n, f) \/ SendRequest(n, f)
    PROVE  IInv'
<1> USE DEF IInv, RangeInv, NodesInv, NodeInv, Steps, Goto, owner, threads, wire, history, insts
<1>1. CASE BindFunc(n, f)
  BY <1>1 DEF BindFunc
<1>2. CASE SendRequest(n, f)
  BY <1>2 DEF SendRequest
<1>3. QED BY <1>1, <1>2

(* The end of a call puts its owner back where Start left it.               *)
LEMMA ReturnStep ==
    ASSUME IInv, NEW n \in Node, ReceiveReply(n) \/ ReceiveTimeout(n)
    PROVE  IInv'
<1> USE DEF IInv, RangeInv, NodesInv, NodeInv, Steps, Goto, owner, threads, wire, history, insts
<1>1. CASE ReceiveReply(n)
  BY <1>1 DEF ReceiveReply
<1>2. CASE ReceiveTimeout(n)
  BY <1>2 DEF ReceiveTimeout, NewSocket
<1>3. QED BY <1>1, <1>2

LEMMA ResponderInv ==
    ASSUME IInv, NEW n \in Node, ResponderStep(n)
    PROVE  IInv'
<1> USE DEF IInv, RangeInv, NodesInv, NodeInv, Steps, owner, threads, wire, history, insts
<1>1. CASE ResponderTimesOut(n)
  BY <1>1 DEF ResponderTimesOut
<1>2. ASSUME NEW m \in net, TakeRequest(n, m) PROVE IInv'
  BY <1>2 DEF TakeRequest
<1>3. ASSUME NEW m \in net, ResponseProcess(n, m) PROVE IInv'
  BY <1>3 DEF ResponseProcess, Publish
<1>4. ASSUME NEW m \in net, PublishOnNull(n, m) PROVE IInv'
  BY <1>4, StopStep DEF PublishOnNull
<1>5. ASSUME NEW m \in net, SendReply(n, m) PROVE IInv'
  BY <1>5 DEF SendReply, RespNext
<1>6. QED BY <1>1, <1>2, <1>3, <1>4, <1>5 DEF ResponderStep

LEMMA SubscriberInv ==
    ASSUME IInv, NEW n \in Node, SubscriberStep(n)
    PROVE  IInv'
<1> USE DEF IInv, RangeInv, NodesInv, NodeInv, Steps, owner, threads, wire, history, insts
<1>1. CASE TakeBroadcast(n)
  BY <1>1 DEF TakeBroadcast
<1>2. CASE SubscriberTimesOut(n)
  BY <1>2 DEF SubscriberTimesOut
<1>3. CASE SubscribeProcess(n)
  BY <1>3 DEF SubscribeProcess, SubNext
<1>4. QED BY <1>1, <1>2, <1>3 DEF SubscriberStep

LEMMA NetworkInv ==
    ASSUME IInv,
           \/ \E n \in Node : Join(n) \/ Break(n)
           \/ \E m \in net : Deliver(m) \/ Lose(m)
           \/ \E p \in Ports : PortFreed(p)
    PROVE  IInv'
<1> USE DEF IInv, RangeInv, NodesInv, NodeInv, Steps, owner, threads, wire, history, insts
<1>1. ASSUME NEW n \in Node, Join(n) PROVE IInv'
  BY <1>1 DEF Join
<1>2. ASSUME NEW n \in Node, Break(n) PROVE IInv'
  <2>1. PICK k \in 0 .. Len(pipe[n]) : pipe' = [pipe EXCEPT ![n] = SubSeq(@, 1, k)]
    BY <1>2 DEF Break
  <2>2. pipe[n] = <<>> => pipe'[n] = <<>>
    BY <2>1
  <2>3. QED BY <1>2, <2>1, <2>2 DEF Break
<1>3. ASSUME \/ \E m \in net : Deliver(m) \/ Lose(m)
             \/ \E p \in Ports : PortFreed(p)
      PROVE  IInv'
  <2>1. UNCHANGED <<owner, insts, threads, joined, pipe>>
    BY <1>3 DEF Deliver, Lose, PortFreed
  <2>2. QED BY <2>1
<1>4. QED BY <1>1, <1>2, <1>3

LEMMA StepInv == IInv /\ [Next]_vars => IInv'
<1> SUFFICES ASSUME IInv, [Next]_vars PROVE IInv'
    OBVIOUS
<1>1. ASSUME NEW n \in Node, OwnerStep(n) PROVE IInv'
  <2>1. CASE \E f \in Func : BindFunc(n, f) \/ SendRequest(n, f)
    BY <2>1, CallStep
  <2>2. CASE ReceiveReply(n) \/ ReceiveTimeout(n)
    BY <2>2, ReturnStep
  <2>3. QED BY <1>1, <2>1, <2>2, StartStep, StopStep DEF OwnerStep
<1>2. CASE UNCHANGED vars
  BY <1>2 DEF vars, owner, insts, threads, wire, history, IInv, RangeInv, NodesInv, NodeInv
<1>3. QED BY <1>1, <1>2, StopStep, ResponderInv, SubscriberInv, NetworkInv DEF Next

LEMMA Invariance == Spec => []IInv
BY InitInv, StepInv, PTL DEF Spec

-----------------------------------------------------------------------------
(* Messages, calls and names keep their range.                              *)

CallsInv ==
    /\ starts \in [Node -> 0 .. MaxStarts] /\ name \in [Node -> Func]
    /\ rpcs \in [Node -> SUBSET Func] /\ foreign \subseteq Ports
    /\ net \subseteq Message
    /\ calls \in [Node -> 0 .. MaxCalls]
    /\ outcome \in [Node -> [Cast!Call -> Cast!Errors]]

(* Moving a message changes where it is and its code, nothing else of it.   *)
LEMMA MoveFacts ==
    ASSUME NEW m \in Message, NEW place \in {"out", "in", "exec", "reply"},
           NEW code \in Codes, Move(m, place, code)
    PROVE  \E r \in Message :
                /\ net' = (net \ {m}) \cup {r}
                /\ r.client = m.client /\ r.sock = m.sock
                /\ r.call = m.call /\ r.func = m.func
                /\ r.at = place /\ r.code = code
<1>1. PICK r : r = [m EXCEPT !.at = place, !.code = code]
  OBVIOUS
<1>2. /\ r \in Message
      /\ r.client = m.client /\ r.sock = m.sock /\ r.call = m.call /\ r.func = m.func
      /\ r.at = place /\ r.code = code
  BY <1>1 DEF Message
<1>3. net' = (net \ {m}) \cup {r}
  BY <1>1 DEF Move
<1>4. QED BY <1>2, <1>3

(* The steps of one message at the network and at a responder: it moves     *)
(* with its code, or is lost.                                               *)
LEMMA MessageMoves ==
    ASSUME CallsInv, NEW m \in net,
           \/ Deliver(m) \/ Lose(m)
           \/ \E n \in Node : TakeRequest(n, m) \/ ResponseProcess(n, m) \/ SendReply(n, m)
    PROVE  /\ net' \subseteq Message
           /\ UNCHANGED <<starts, name, rpcs, foreign, calls, outcome>>
<1> USE DEF owner, insts, threads, wire, history
<1>1. net \subseteq Message /\ m \in Message /\ m.code \in Codes
  BY DEF CallsInv, Message
<1>2. UNCHANGED <<starts, name, rpcs, foreign, calls, outcome>>
  BY DEF Deliver, Lose, TakeRequest, ResponseProcess, SendReply
<1>3. CASE Lose(m)
  BY <1>1, <1>2, <1>3 DEF Lose
<1>4. CASE ~Lose(m)
  <2>1. PICK place \in {"out", "in", "exec", "reply"}, code \in Codes : Move(m, place, code)
    BY <1>1, <1>4 DEF Deliver, TakeRequest, ResponseProcess, SendReply, Codes
  <2>2. QED BY <1>1, <1>2, <2>1, MoveFacts
<1>5. QED BY <1>3, <1>4

LEMMA CallsStep == IInv /\ CallsInv /\ [Next]_vars => CallsInv'
<1> SUFFICES ASSUME IInv, CallsInv, [Next]_vars PROVE CallsInv'
    OBVIOUS
<1> USE BoundsAssumption DEF CallsInv, owner, insts, threads, wire, history
<1>0. Cast!Call = 1 .. MaxCalls
  BY DEF Cast!Call
<1>1. ASSUME NEW n \in Node, Release(n) PROVE net' \subseteq Message /\ foreign' \subseteq Ports
  BY <1>1 DEF Release, AfterClose
<1>2. ASSUME NEW n \in Node, NodeDies(n) PROVE CallsInv'
  BY <1>1, <1>2 DEF NodeDies
<1>3. ASSUME NEW n \in Node, OwnerStep(n) PROVE CallsInv'
  <2>1. ASSUME NEW f \in Func, BindFunc(n, f) PROVE CallsInv'
    BY <2>1 DEF BindFunc
  <2>2. ASSUME NEW f \in Func, SendRequest(n, f) PROVE CallsInv'
    <3>1. calls[n] + 1 \in Cast!Call /\ requester[n] \in Nat
      BY <1>0, <2>2 DEF SendRequest, IInv, RangeInv
    <3>2. net' \subseteq Message
      BY <2>2, <3>1 DEF SendRequest, Message, Codes
    <3>3. calls' \in [Node -> 0 .. MaxCalls]
      BY <2>2 DEF SendRequest
    <3>4. QED BY <2>2, <3>2, <3>3 DEF SendRequest
  <2>3. CASE StartBegins(n)
    <3>1. starts' \in [Node -> 0 .. MaxStarts]
      BY <2>3 DEF StartBegins
    <3>2. QED BY <2>3, <3>1 DEF StartBegins
  <2>4. CASE \/ CreatePublisher(n) \/ CreateResponder(n) \/ CreateSubscriber(n)
             \/ CreateRequester(n) \/ StopBegins(n) \/ WaitResponse(n) \/ WaitReceive(n)
    BY <2>4 DEF CreatePublisher, CreateResponder, CreateSubscriber, CreateRequester,
       StopBegins, WaitResponse, WaitReceive
  <2>5. CASE DestroyInstances(n)
    BY <1>1, <2>5 DEF DestroyInstances
  <2>6. CASE ReceiveReply(n)
    <3>1. PICK m \in net : /\ net' = net \ {m}
                           /\ outcome' = [outcome EXCEPT ![n][calls[n]] =
                                IF m.func = name[n] THEN m.code ELSE "FunctionNameMismatch"]
      BY <2>6 DEF ReceiveReply
    <3>2. m.code \in Cast!Errors /\ "FunctionNameMismatch" \in Cast!Errors
      BY DEF Message, Codes, Cast!Errors
    <3>3. outcome' \in [Node -> [Cast!Call -> Cast!Errors]]
      BY <3>1, <3>2
    <3>4. QED BY <2>6, <3>1, <3>3 DEF ReceiveReply
  <2>7. CASE ReceiveTimeout(n)
    <3>1. outcome' \in [Node -> [Cast!Call -> Cast!Errors]]
      BY <2>7 DEF ReceiveTimeout, Cast!Errors
    <3>2. QED BY <2>7, <3>1 DEF ReceiveTimeout, AfterClose
  <2>8. QED BY <1>3, <2>1, <2>2, <2>3, <2>4, <2>5, <2>6, <2>7 DEF OwnerStep
<1>4. ASSUME NEW m \in net, Deliver(m) \/ Lose(m) PROVE CallsInv'
  BY <1>4, MessageMoves
<1>5. ASSUME NEW n \in Node, ResponderStep(n) PROVE CallsInv'
  <2>1. CASE ResponderTimesOut(n)
    BY <2>1 DEF ResponderTimesOut
  <2>2. ASSUME NEW m \in net, TakeRequest(n, m) \/ ResponseProcess(n, m) \/ SendReply(n, m)
        PROVE  CallsInv'
    BY <2>2, MessageMoves
  <2>3. ASSUME NEW m \in net, PublishOnNull(n, m) PROVE CallsInv'
    BY <1>2, <2>3 DEF PublishOnNull
  <2>4. QED BY <1>5, <2>1, <2>2, <2>3 DEF ResponderStep
<1>6. ASSUME NEW n \in Node, SubscriberStep(n) \/ Join(n) \/ Break(n) PROVE CallsInv'
  BY <1>6 DEF SubscriberStep, TakeBroadcast, SubscriberTimesOut, SubscribeProcess, Join, Break
<1>7. CASE \E q \in Ports : PortFreed(q)
  BY <1>7 DEF PortFreed
<1>8. CASE UNCHANGED vars
  BY <1>8 DEF vars
<1>9. QED BY <1>2, <1>3, <1>4, <1>5, <1>6, <1>7, <1>8 DEF Next

-----------------------------------------------------------------------------
(* Pipes.  Positions leave a pipe at one end and enter it at the other.     *)

Ordered(q, X) == /\ \A i, j \in DOMAIN q : i < j => q[i] < q[j]
                 /\ \A i \in DOMAIN q : \A x \in X : x < q[i]

LEMMA OrderedPrefix ==
    ASSUME NEW L \in Nat, NEW q \in Seq(1 .. L), NEW X, Ordered(q, X), NEW k \in 0 .. Len(q)
    PROVE  SubSeq(q, 1, k) \in Seq(1 .. L) /\ Ordered(SubSeq(q, 1, k), X)
<1> PICK r : r = SubSeq(q, 1, k)
    OBVIOUS
<1>1. r \in Seq(1 .. L) /\ DOMAIN r = 1 .. k /\ \A i \in 1 .. k : r[i] = q[i]
  OBVIOUS
<1>2. /\ Len(q) \in Nat /\ DOMAIN q = 1 .. Len(q)
      /\ 1 .. k \subseteq DOMAIN q
  OBVIOUS
<1>3. Ordered(r, X)
  BY <1>1, <1>2 DEF Ordered
<1>4. QED BY <1>1, <1>3

(* What is taken lies between what was run and what is still in the pipe.   *)
LEMMA OrderedTail ==
    ASSUME NEW L \in Nat, NEW q \in Seq(1 .. L), NEW X, Ordered(q, X), q # <<>>
    PROVE  /\ Head(q) \in 1 .. L /\ Tail(q) \in Seq(1 .. L)
           /\ Ordered(Tail(q), X \cup {Head(q)}) /\ \A x \in X : x < Head(q)
<1> PICK r : r = Tail(q)
    OBVIOUS
<1>1. Len(q) \in Nat /\ Len(q) >= 1 /\ DOMAIN q = 1 .. Len(q) /\ Head(q) = q[1]
  OBVIOUS
<1>2. /\ r \in Seq(1 .. L) /\ DOMAIN r = 1 .. Len(q) - 1
      /\ \A i \in 1 .. Len(q) - 1 : r[i] = q[i + 1]
  OBVIOUS
<1>3. Ordered(r, X \cup {Head(q)})
  <2>1. ASSUME NEW i \in DOMAIN r, NEW j \in DOMAIN r, i < j PROVE r[i] < r[j]
    BY <1>1, <1>2, <2>1 DEF Ordered
  <2>2. ASSUME NEW i \in DOMAIN r, NEW x \in X \cup {Head(q)} PROVE x < r[i]
    <3>1. /\ i + 1 \in DOMAIN q /\ 1 \in DOMAIN q /\ 1 < i + 1
          /\ r[i] = q[i + 1]
      BY <1>1, <1>2
    <3>2. q[1] < q[i + 1] /\ \A y \in X : y < q[i + 1]
      BY <3>1 DEF Ordered
    <3>3. QED BY <1>1, <3>1, <3>2
  <2>3. QED BY <2>1, <2>2 DEF Ordered
<1>4. \A x \in X : x < Head(q)
  BY <1>1 DEF Ordered
<1>5. QED BY <1>1, <1>2, <1>3, <1>4

(* What is published now is later than all that was published before.       *)
LEMMA OrderedAppend ==
    ASSUME NEW L \in Nat, NEW q \in Seq(1 .. L), NEW X \in SUBSET (0 .. L), Ordered(q, X)
    PROVE  Append(q, L + 1) \in Seq(1 .. L + 1) /\ Ordered(Append(q, L + 1), X)
<1> PICK r : r = Append(q, L + 1)
    OBVIOUS
<1>1. Len(q) \in Nat /\ DOMAIN q = 1 .. Len(q) /\ \A i \in DOMAIN q : q[i] \in 1 .. L
  OBVIOUS
<1>2. q \in Seq(1 .. L + 1)
  BY <1>1
<1>3. /\ r \in Seq(1 .. L + 1) /\ DOMAIN r = 1 .. Len(q) + 1
      /\ \A i \in 1 .. Len(q) : r[i] = q[i]
      /\ r[Len(q) + 1] = L + 1
  BY <1>2
<1>4. Ordered(r, X)
  <2>1. ASSUME NEW i \in DOMAIN r, NEW j \in DOMAIN r, i < j PROVE r[i] < r[j]
    BY <1>1, <1>3, <2>1 DEF Ordered
  <2>2. ASSUME NEW i \in DOMAIN r, NEW x \in X PROVE x < r[i]
    BY <1>1, <1>3 DEF Ordered
  <2>3. QED BY <2>1, <2>2 DEF Ordered
<1>5. QED BY <1>3, <1>4

Publication == [client : Node, call : Cast!Call, func : Func]

PipeInv(n) ==
    /\ Ordered(pipe[n], ran[n] \cup {taken[n]})
    /\ sub[n] = "process" => taken[n] # 0 /\ \A x \in ran[n] : x < taken[n]

PipesInv ==
    /\ log \in Seq(Publication)
    /\ pipe \in [Node -> Seq(1 .. Len(log))]
    /\ taken \in [Node -> 0 .. Len(log)]
    /\ ran \in [Node -> SUBSET (1 .. Len(log))]
    /\ \A n \in Node : PipeInv(n)

LEMMA EmptyPipe ==
    ASSUME NEW S, NEW X
    PROVE  <<>> \in Seq(S) /\ Ordered(<<>>, X)
<1>1. <<>> \in Seq(S) /\ DOMAIN <<>> = {}
  OBVIOUS
<1>2. QED BY <1>1 DEF Ordered

(* Nothing is published, run or received: pipes may be shortened.           *)
LEMMA PipesFrame ==
    ASSUME PipesInv, UNCHANGED <<log, ran, taken>>, RangeInv,
           pipe' \in [Node -> Seq(1 .. Len(log))],
           \A n \in Node : Ordered(pipe'[n], ran[n] \cup {taken[n]}),
           \A n \in Node : sub'[n] = "process" => sub[n] = "process"
    PROVE  PipesInv'
BY DEF PipesInv, PipeInv

LEMMA PipesSame ==
    ASSUME PipesInv, RangeInv, UNCHANGED <<log, ran, taken, pipe>>,
           \A n \in Node : sub'[n] = "process" => sub[n] = "process"
    PROVE  PipesInv'
BY PipesFrame DEF PipesInv, PipeInv

(* The sockets of a node close, and its pipe is gone.                       *)
LEMMA PipesRelease ==
    ASSUME PipesInv, RangeInv, NEW n \in Node, Release(n), UNCHANGED <<log, ran>>,
           taken' = taken \/ taken' = [taken EXCEPT ![n] = 0],
           sub' = [sub EXCEPT ![n] = "none"]
    PROVE  PipesInv'
<1>1. pipe' = [pipe EXCEPT ![n] = <<>>]
  BY DEF Release
<1>2. pipe' \in [Node -> Seq(1 .. Len(log))] /\ taken' \in [Node -> 0 .. Len(log)]
  <2>1. PICK e : e = <<>>
    OBVIOUS
  <2>2. e \in Seq(1 .. Len(log)) /\ Len(log) \in Nat
    BY <2>1, EmptyPipe DEF PipesInv
  <2>3. pipe' = [pipe EXCEPT ![n] = e]
    BY <1>1, <2>1
  <2>4. pipe' \in [Node -> Seq(1 .. Len(log))]
    BY <2>2, <2>3 DEF PipesInv
  <2>5. taken' \in [Node -> 0 .. Len(log)]
    <3>1. taken \in [Node -> 0 .. Len(log)] /\ 0 \in 0 .. Len(log)
      BY <2>2 DEF PipesInv
    <3>2. QED BY <3>1
  <2>6. QED BY <2>4, <2>5
<1>3. ASSUME NEW d \in Node PROVE PipeInv(d)'
  <2>1. CASE d = n
    <3>1. pipe'[d] = <<>> /\ sub'[d] = "none"
      BY <1>1, <2>1 DEF PipesInv, RangeInv
    <3>2. QED BY <3>1, EmptyPipe DEF PipeInv
  <2>2. CASE d # n
    BY <1>1, <2>2 DEF PipesInv, PipeInv, RangeInv
  <2>3. QED BY <2>1, <2>2
<1>4. QED BY <1>2, <1>3 DEF PipesInv

LEMMA PipesPublish ==
    ASSUME PipesInv, RangeInv, NEW m \in Message, Publish(m), UNCHANGED <<ran, taken, sub>>
    PROVE  PipesInv'
<1>1. /\ Len(log) \in Nat
      /\ log' \in Seq(Publication) /\ Len(log') = Len(log) + 1
  <2>1. [client |-> m.client, call |-> m.call, func |-> m.func] \in Publication
    BY DEF Message, Publication
  <2>2. QED BY <2>1 DEF Publish, PipesInv
<1>2. ASSUME NEW d \in Node
      PROVE  pipe'[d] \in Seq(1 .. Len(log')) /\ Ordered(pipe'[d], ran[d] \cup {taken[d]})
  <2>1. /\ pipe[d] \in Seq(1 .. Len(log)) /\ Ordered(pipe[d], ran[d] \cup {taken[d]})
        /\ ran[d] \cup {taken[d]} \in SUBSET (0 .. Len(log))
    BY DEF PipesInv, PipeInv
  <2>2. pipe'[d] = pipe[d] \/ pipe'[d] = Append(pipe[d], Len(log) + 1)
    BY DEF Publish
  <2>3. pipe[d] \in Seq(1 .. Len(log) + 1)
    BY <1>1, <2>1
  <2>4. CASE pipe'[d] = pipe[d]
    BY <1>1, <2>1, <2>3, <2>4
  <2>5. CASE pipe'[d] = Append(pipe[d], Len(log) + 1)
    BY <1>1, <2>1, <2>5, OrderedAppend
  <2>6. QED BY <2>2, <2>4, <2>5
<1>3. pipe' \in [Node -> Seq(1 .. Len(log'))]
  <2>1. pipe' = [d \in Node |-> pipe'[d]]
    BY DEF Publish
  <2>2. QED BY <1>2, <2>1
<1>4. taken' \in [Node -> 0 .. Len(log')] /\ ran' \in [Node -> SUBSET (1 .. Len(log'))]
  BY <1>1 DEF PipesInv
<1>5. QED BY <1>1, <1>2, <1>3, <1>4 DEF PipesInv, PipeInv

LEMMA PipesSubscriber ==
    ASSUME PipesInv, RangeInv, NEW n \in Node, SubscriberStep(n)
    PROVE  PipesInv'
<1> USE DEF owner, insts, wire, history
<1>0. Len(log) \in Nat /\ PipeInv(n) /\ pipe[n] \in Seq(1 .. Len(log))
  BY DEF PipesInv
<1>1. CASE TakeBroadcast(n)
  <2>1. /\ pipe' = [pipe EXCEPT ![n] = Tail(@)] /\ taken' = [taken EXCEPT ![n] = Head(pipe[n])]
        /\ sub' = [sub EXCEPT ![n] = "process"] /\ UNCHANGED <<log, ran>> /\ pipe[n] # <<>>
    BY <1>1 DEF TakeBroadcast
  <2>2. /\ Head(pipe[n]) \in 1 .. Len(log) /\ Tail(pipe[n]) \in Seq(1 .. Len(log))
        /\ Ordered(Tail(pipe[n]), ran[n] \cup {taken[n]} \cup {Head(pipe[n])})
        /\ \A x \in ran[n] \cup {taken[n]} : x < Head(pipe[n])
    BY <1>0, <2>1, OrderedTail DEF PipeInv
  <2>3. /\ pipe' \in [Node -> Seq(1 .. Len(log))] /\ taken' \in [Node -> 0 .. Len(log)]
        /\ pipe'[n] = Tail(pipe[n]) /\ taken'[n] = Head(pipe[n])
    BY <1>0, <2>1, <2>2 DEF PipesInv
  <2>4. PipeInv(n)'
    BY <2>1, <2>2, <2>3 DEF PipeInv, Ordered
  <2>5. ASSUME NEW d \in Node, d # n PROVE PipeInv(d)'
    BY <2>1, <2>5 DEF PipesInv, PipeInv, RangeInv
  <2>6. QED BY <2>1, <2>3, <2>4, <2>5 DEF PipesInv
<1>2. CASE SubscriberTimesOut(n)
  <2>1. \A d \in Node : sub'[d] = "process" => sub[d] = "process"
    BY <1>2 DEF SubscriberTimesOut, RangeInv
  <2>2. QED BY <1>2, <2>1, PipesSame DEF SubscriberTimesOut
<1>3. CASE SubscribeProcess(n)
  <2>1. /\ taken[n] \in 1 .. Len(log) /\ taken' = [taken EXCEPT ![n] = 0]
        /\ ran' = ran \/ ran' = [ran EXCEPT ![n] = @ \cup {taken[n]}]
        /\ sub' = [sub EXCEPT ![n] = SubNext(n)] /\ SubNext(n) # "process"
        /\ UNCHANGED <<log, pipe>>
    BY <1>0, <1>3 DEF SubscribeProcess, PipesInv, PipeInv, SubNext
  <2>2. /\ taken' \in [Node -> 0 .. Len(log)] /\ ran' \in [Node -> SUBSET (1 .. Len(log))]
        /\ taken'[n] = 0 /\ ran'[n] \subseteq ran[n] \cup {taken[n]} /\ sub'[n] # "process"
    <3>1. taken' \in [Node -> 0 .. Len(log)] /\ taken'[n] = 0
      BY <1>0, <2>1 DEF PipesInv
    <3>2. ran[n] \cup {taken[n]} \in SUBSET (1 .. Len(log))
      BY <2>1 DEF PipesInv
    <3>3. /\ ran' \in [Node -> SUBSET (1 .. Len(log))]
          /\ ran'[n] \subseteq ran[n] \cup {taken[n]}
      BY <2>1, <3>2 DEF PipesInv
    <3>4. sub'[n] # "process"
      BY <2>1 DEF RangeInv
    <3>5. QED BY <3>1, <3>3, <3>4
  <2>3. \A i \in DOMAIN pipe[n] : pipe[n][i] \in 1 .. Len(log)
    BY <1>0
  <2>4. PipeInv(n)'
    BY <1>0, <2>1, <2>2, <2>3 DEF PipeInv, Ordered
  <2>5. ASSUME NEW d \in Node, d # n PROVE PipeInv(d)'
    BY <2>1, <2>5 DEF PipesInv, PipeInv, RangeInv
  <2>6. QED BY <2>1, <2>2, <2>4, <2>5 DEF PipesInv
<1>4. QED BY <1>1, <1>2, <1>3 DEF SubscriberStep

LEMMA PipesBreak ==
    ASSUME PipesInv, RangeInv, NEW n \in Node, Break(n)
    PROVE  PipesInv'
<1>1. PICK k \in 0 .. Len(pipe[n]) : pipe' = [pipe EXCEPT ![n] = SubSeq(@, 1, k)]
  BY DEF Break
<1>2. Len(log) \in Nat /\ pipe[n] \in Seq(1 .. Len(log)) /\ PipeInv(n)
  BY DEF PipesInv
<1>3. /\ SubSeq(pipe[n], 1, k) \in Seq(1 .. Len(log))
      /\ Ordered(SubSeq(pipe[n], 1, k), ran[n] \cup {taken[n]})
  BY <1>2, OrderedPrefix DEF PipeInv
<1>4. pipe' \in [Node -> Seq(1 .. Len(log))] /\ pipe'[n] = SubSeq(pipe[n], 1, k)
  BY <1>1, <1>3 DEF PipesInv
<1>5. \A d \in Node : Ordered(pipe'[d], ran[d] \cup {taken[d]})
  <2>1. ASSUME NEW d \in Node, d # n PROVE pipe'[d] = pipe[d]
    BY <1>1, <2>1 DEF PipesInv
  <2>2. QED BY <1>3, <1>4, <2>1 DEF PipesInv, PipeInv
<1>6. UNCHANGED <<log, ran, taken, sub>>
  BY DEF Break, history, threads
<1>7. QED BY <1>4, <1>5, <1>6, PipesFrame

LEMMA PipesStep == IInv /\ CallsInv /\ PipesInv /\ [Next]_vars => PipesInv'
<1> SUFFICES ASSUME IInv, CallsInv, PipesInv, [Next]_vars PROVE PipesInv'
    OBVIOUS
<1> USE DEF owner, insts, threads, wire, history
<1>0. RangeInv
  BY DEF IInv
<1>1. ASSUME NEW n \in Node, NodeDies(n) PROVE PipesInv'
  BY <1>0, <1>1, PipesRelease DEF NodeDies
<1>2. ASSUME NEW n \in Node, DestroyInstances(n) PROVE PipesInv'
  <2>1. sub[n] = "none"
    BY <1>2 DEF DestroyInstances, IInv, NodesInv, NodeInv
  <2>2. sub' = [sub EXCEPT ![n] = "none"]
    BY <1>0, <1>2, <2>1 DEF DestroyInstances, RangeInv
  <2>3. QED BY <1>0, <1>2, <2>2, PipesRelease DEF DestroyInstances
<1>3. ASSUME NEW n \in Node, OwnerStep(n), ~DestroyInstances(n) PROVE PipesInv'
  <2>1. UNCHANGED <<log, ran, taken, pipe>>
    BY <1>3 DEF OwnerStep, BindFunc, SendRequest, StartBegins, CreatePublisher,
       CreateResponder, CreateSubscriber, CreateRequester, StopBegins, WaitResponse,
       WaitReceive, ReceiveReply, ReceiveTimeout
  <2>2. UNCHANGED sub \/ sub' = [sub EXCEPT ![n] = "recv"] \/ sub' = [sub EXCEPT ![n] = "none"]
    BY <1>3 DEF OwnerStep, BindFunc, SendRequest, StartBegins, CreatePublisher,
       CreateResponder, CreateSubscriber, CreateRequester, StopBegins, WaitResponse,
       WaitReceive, ReceiveReply, ReceiveTimeout
  <2>3. \A d \in Node : sub'[d] = "process" => sub[d] = "process"
    BY <1>0, <2>2 DEF RangeInv
  <2>4. QED BY <1>0, <2>1, <2>3, PipesSame
<1>4. ASSUME NEW n \in Node, ResponderStep(n) PROVE PipesInv'
  <2>1. ASSUME NEW m \in net, PublishOnNull(n, m) PROVE PipesInv'
    BY <1>1, <2>1 DEF PublishOnNull
  <2>2. ASSUME NEW m \in net, ResponseProcess(n, m), Publish(m) PROVE PipesInv'
    BY <1>0, <2>2, PipesPublish DEF ResponseProcess, CallsInv
  <2>3. ASSUME UNCHANGED <<log, ran, taken, pipe, sub>> PROVE PipesInv'
    BY <1>0, <2>3, PipesSame
  <2>4. QED BY <1>4, <2>1, <2>2, <2>3
            DEF ResponderStep, ResponderTimesOut, TakeRequest, ResponseProcess, SendReply
<1>5. ASSUME NEW n \in Node, SubscriberStep(n) \/ Break(n) PROVE PipesInv'
  BY <1>0, <1>5, PipesSubscriber, PipesBreak
<1>6. ASSUME \/ \E n \in Node : Join(n)
             \/ \E m \in net : Deliver(m) \/ Lose(m)
             \/ \E q \in Ports : PortFreed(q)
             \/ UNCHANGED vars
      PROVE  PipesInv'
  <2>1. UNCHANGED <<log, ran, taken, pipe, sub>>
    BY <1>6 DEF Join, Deliver, Lose, PortFreed, vars
  <2>2. QED BY <1>0, <2>1, PipesSame
<1>7. QED BY <1>1, <1>2, <1>3, <1>4, <1>5, <1>6 DEF Next

LEMMA PipesInvariance == Spec => [](IInv /\ CallsInv /\ PipesInv)
<1>1. Init => CallsInv
  BY BoundsAssumption DEF Init, CallsInv, Cast!Call, Cast!Errors
<1>2. Init => PipesInv
  <2> SUFFICES ASSUME Init PROVE PipesInv
      OBVIOUS
  <2>1. log \in Seq(Publication) /\ Len(log) = 0
    BY EmptyPipe DEF Init
  <2>2. ASSUME NEW n \in Node PROVE pipe[n] \in Seq(1 .. Len(log)) /\ PipeInv(n)
    BY EmptyPipe DEF Init, PipeInv
  <2>3. pipe \in [Node -> Seq(1 .. Len(log))]
    BY <2>2 DEF Init
  <2>4. taken \in [Node -> 0 .. Len(log)] /\ ran \in [Node -> SUBSET (1 .. Len(log))]
    BY <2>1 DEF Init
  <2>5. QED BY <2>1, <2>2, <2>3, <2>4 DEF PipesInv
<1>3. QED BY <1>1, <1>2, InitInv, StepInv, CallsStep, PipesStep, PTL DEF Spec

-----------------------------------------------------------------------------
(* Every variable keeps its range.                                          *)
THEOREM TypeCorrect == Spec => []TypeOK
<1>1. IInv /\ CallsInv /\ PipesInv => TypeOK
  <2> SUFFICES ASSUME IInv, CallsInv, PipesInv PROVE TypeOK
      OBVIOUS
  <2>1. DOMAIN log = 1 .. Len(log)
    BY DEF PipesInv
  <2>2. QED BY <2>1 DEF IInv, RangeInv, CallsInv, PipesInv, Publication, TypeOK
<1>2. QED BY <1>1, PipesInvariance, PTL

(* However nodes stop, start, die and reconnect, a node takes broadcasts in *)
(* the order of their publication and none twice.                           *)
THEOREM OrderedDelivery == Spec => []PipeInOrder
<1>1. PipesInv => PipeInOrder
  BY DEF PipesInv, PipeInv, Ordered, PipeInOrder
<1>2. QED BY <1>1, PipesInvariance, PTL

(* While a responder's thread may publish, the publisher of a node whose    *)
(* Start succeeded is there: Stop joins the thread before it destroys.      *)
THEOREM PublisherSafe == Spec => []PublisherServesResponder
<1>1. IInv => PublisherServesResponder
  BY DEF IInv, NodesInv, NodeInv, PublisherServesResponder
<1>2. QED BY <1>1, Invariance, PTL

(* A Stop undoes whatever the Start before it has done, whichever of its    *)
(* four instances could not be created.                                     *)
THEOREM StopUndoesStart == Spec => []IdleHoldsNothing
<1>1. IInv => IdleHoldsNothing
  BY DEF IInv, NodesInv, NodeInv, IdleHoldsNothing
<1>2. QED BY <1>1, Invariance, PTL

(***************************************************************************)
(* Calls: a refused call is published nowhere, and the system implements   *)
(* the ordered broadcast of Broadcast. These rest on the ranges and pipes  *)
(* above and on what a message under way says of its node, its call and    *)
(* the log.                                                                *)
(***************************************************************************)

Pub(n, k) == \E i \in DOMAIN log : log[i].client = n /\ log[i].call = k

(* One socket of one node, and one call of one node, has one message.       *)
Apart(m, r) == m.client = r.client /\ (m.sock = r.sock \/ m.call = r.call) => m = r

MessageInv(m) ==
    /\ m.sock >= 1 /\ m.sock <= sockets[m.client]
    /\ m.call <= calls[m.client]
    /\ m.sock = requester[m.client]
         => /\ step[m.client] = "recv"
            /\ m.call = calls[m.client] /\ m.func = name[m.client]
    /\ m.at = "out" => m.sock = requester[m.client]
    /\ m.at \in {"out", "in"} => m.code = "none"
    /\ m.at = "reply" => m.code # "none"
    /\ Pub(m.client, m.call) <=> m.code = "Success"
    /\ outcome[m.client][m.call] \in Cast!Undecided

CallerInv(n) ==
    /\ requester[n] <= sockets[n]
    /\ step[n] = "recv" => /\ requester[n] >= 1 /\ calls[n] >= 1
                           /\ outcome[n][calls[n]] = "none"

OutcomeInv(n, k) ==
    /\ k > calls[n] => ~Pub(n, k) /\ outcome[n][k] = "none"
    /\ outcome[n][k] = "Success" => Pub(n, k)
    /\ outcome[n][k] = "FunctionNotFound" => ~Pub(n, k)

MessagesInv == \A m \in net : MessageInv(m)
ApartInv    == \A m, r \in net : Apart(m, r)
CallersInv  == \A n \in Node : CallerInv(n)
OutcomesInv == \A n \in Node, k \in Cast!Call : OutcomeInv(n, k)

HInv == MessagesInv /\ ApartInv /\ CallersInv /\ OutcomesInv
Base == IInv /\ CallsInv /\ PipesInv

LEMMA BaseFacts ==
    ASSUME Base
    PROVE  /\ requester \in [Node -> Nat] /\ sockets \in [Node -> Nat]
           /\ step \in [Node -> Steps] /\ name \in [Node -> Func]
           /\ calls \in [Node -> Nat] /\ net \subseteq Message
           /\ outcome \in [Node -> [Cast!Call -> Cast!Errors]]
           /\ Cast!Call = 1 .. MaxCalls /\ MaxCalls \in Nat
           /\ log \in Seq(Publication) /\ Len(log) \in Nat /\ DOMAIN log = 1 .. Len(log)
BY BoundsAssumption DEF Base, IInv, RangeInv, CallsInv, PipesInv, Cast!Call

LEMMA MessageFields ==
    ASSUME NEW m \in Message
    PROVE  /\ m.client \in Node /\ m.sock \in Nat /\ m.call \in Nat /\ m.call \in Cast!Call
           /\ m.func \in Func /\ m.code \in Codes
BY BoundsAssumption DEF Message, Cast!Call

LEMMA InitHInv == Init => HInv
<1> SUFFICES ASSUME Init PROVE HInv
    OBVIOUS
<1>1. MessagesInv /\ ApartInv
  BY DEF Init, MessagesInv, ApartInv
<1>2. CallersInv
  <2>1. ASSUME NEW n \in Node PROVE CallerInv(n)
    BY DEF Init, CallerInv
  <2>2. QED BY <2>1 DEF CallersInv
<1>3. OutcomesInv
  <2>1. \A n, k : ~Pub(n, k)
    <3>1. DOMAIN log = {}
      BY DEF Init
    <3>2. QED BY <3>1 DEF Pub
  <2>2. QED BY <2>1 DEF Init, OutcomesInv, OutcomeInv
<1>4. QED BY <1>1, <1>2, <1>3 DEF HInv

-----------------------------------------------------------------------------
(* Steps that make, end and publish no call.  A node keeps its socket and   *)
(* its place in or outside CallFunc, or has another socket or none.         *)

Keeps(n) == /\ requester'[n] = requester[n] /\ sockets'[n] = sockets[n]
            /\ step'[n] = "recv" <=> step[n] = "recv"

Changes(n) == /\ \/ requester'[n] = 0 /\ sockets'[n] = sockets[n]
                 \/ requester'[n] = sockets[n] + 1 /\ sockets'[n] = sockets[n] + 1
              /\ step'[n] # "recv"
              /\ \A m \in net' : m.client = n /\ m.at = "out" => m.sock # requester[n]

LEMMA MessageFrame ==
    ASSUME Base, HInv, NEW m \in net, m \in net', Keeps(m.client) \/ Changes(m.client),
           UNCHANGED <<calls, log, name>>,
           outcome'[m.client][m.call] \in Cast!Undecided
    PROVE  MessageInv(m)'
<1>1. MessageInv(m) /\ Pub(m.client, m.call)' = Pub(m.client, m.call)
  BY DEF HInv, MessagesInv, Pub
<1>2. /\ m.client \in Node /\ m.sock \in Nat
      /\ sockets[m.client] \in Nat /\ requester[m.client] \in Nat
  BY BaseFacts, MessageFields
<1>3. CASE Keeps(m.client)
  BY <1>1, <1>2, <1>3 DEF MessageInv, Keeps
<1>4. CASE Changes(m.client)
  BY <1>1, <1>2, <1>4 DEF MessageInv, Changes
<1>5. QED BY <1>3, <1>4

LEMMA CallsFrame ==
    ASSUME Base, HInv, net' \subseteq net, UNCHANGED <<calls, log, name, outcome>>,
           \A n \in Node : Keeps(n) \/ Changes(n)
    PROVE  HInv'
<1>1. MessagesInv'
  <2>1. ASSUME NEW m \in net' PROVE MessageInv(m)'
    <3>1. m \in net /\ m.client \in Node
      BY BaseFacts, MessageFields
    <3>2. outcome[m.client][m.call] \in Cast!Undecided
      BY <3>1 DEF HInv, MessagesInv, MessageInv
    <3>3. QED BY <3>1, <3>2, MessageFrame
  <2>2. QED BY <2>1 DEF MessagesInv
<1>2. ApartInv'
  BY DEF HInv, ApartInv, Apart
<1>3. CallersInv'
  <2>1. ASSUME NEW n \in Node PROVE CallerInv(n)'
    <3>1. CallerInv(n) /\ sockets[n] \in Nat
      BY BaseFacts DEF HInv, CallersInv
    <3>2. CASE Keeps(n)
      BY <3>1, <3>2 DEF CallerInv, Keeps
    <3>3. CASE Changes(n)
      BY <3>1, <3>3 DEF CallerInv, Changes
    <3>4. QED BY <3>2, <3>3
  <2>2. QED BY <2>1 DEF CallersInv
<1>4. OutcomesInv'
  BY DEF HInv, OutcomesInv, OutcomeInv, Pub
<1>5. QED BY <1>1, <1>2, <1>3, <1>4 DEF HInv

(* A node closes its sockets.                                               *)
LEMMA ReleaseChanges ==
    ASSUME Base, HInv, NEW n \in Node, Release(n), UNCHANGED sockets
    PROVE  net' \subseteq net /\ \A d \in Node : Keeps(d) \/ Changes(d)
<1>1. /\ requester' = [requester EXCEPT ![n] = 0] /\ step' = [step EXCEPT ![n] = "idle"]
      /\ net' \subseteq AfterClose(n)
  BY DEF Release, Goto
<1>2. net' \subseteq net
  BY <1>1 DEF AfterClose
<1>3. Changes(n)
  BY <1>1, BaseFacts DEF AfterClose, Changes
<1>4. ASSUME NEW d \in Node, d # n PROVE Keeps(d)
  BY <1>1, <1>4, BaseFacts DEF Keeps
<1>5. QED BY <1>2, <1>3, <1>4

LEMMA ReleaseHInv ==
    ASSUME Base, HInv, NEW n \in Node, DestroyInstances(n) \/ NodeDies(n)
    PROVE  HInv'
<1>1. UNCHANGED <<sockets, calls, log, name, outcome>> /\ Release(n)
  BY DEF DestroyInstances, NodeDies, history
<1>2. QED BY <1>1, ReleaseChanges, CallsFrame

(* Start, Stop and BindFunc.                                                *)
LEMMA StartStopHInv ==
    ASSUME Base, HInv, NEW n \in Node,
           \/ \E f \in Func : BindFunc(n, f)
           \/ StartBegins(n) \/ CreatePublisher(n) \/ CreateResponder(n)
           \/ CreateSubscriber(n) \/ CreateRequester(n)
           \/ StopBegins(n) \/ WaitResponse(n) \/ WaitReceive(n)
    PROVE  HInv'
<1> USE DEF owner, insts, threads, wire, history
<1>1. UNCHANGED <<net, calls, log, name, outcome>>
  BY DEF BindFunc, StartBegins, CreatePublisher, CreateResponder, CreateSubscriber,
     CreateRequester, StopBegins, WaitResponse, WaitReceive
<1>2. CASE CreateRequester(n)
  <2>1. /\ step[n] = "requester" /\ step' = [step EXCEPT ![n] = "idle"] /\ net' = net
        /\ sockets' = [sockets EXCEPT ![n] = @ + 1]
        /\ requester' = [requester EXCEPT ![n] = sockets[n] + 1]
    BY <1>2 DEF CreateRequester, NewSocket, Goto
  <2>2. \A m \in net : m.client = n => m.sock # requester[n]
    BY <2>1 DEF HInv, MessagesInv, MessageInv
  <2>3. Changes(n)
    BY <2>1, <2>2, BaseFacts DEF Changes
  <2>4. ASSUME NEW d \in Node, d # n PROVE Keeps(d)
    BY <2>1, <2>4, BaseFacts DEF Keeps
  <2>5. QED BY <1>1, <2>3, <2>4, CallsFrame
<1>3. CASE ~CreateRequester(n)
  <2>1. UNCHANGED <<requester, sockets>>
    BY <1>3 DEF BindFunc, StartBegins, CreatePublisher, CreateResponder, CreateSubscriber,
       StopBegins, WaitResponse, WaitReceive
  <2>2. /\ step[n] # "recv"
        /\ UNCHANGED step \/ \E w \in Steps \ {"recv"} : step' = [step EXCEPT ![n] = w]
    BY <1>3 DEF BindFunc, StartBegins, CreatePublisher, CreateResponder, CreateSubscriber,
       StopBegins, WaitResponse, WaitReceive, Goto, Steps
  <2>3. \A d \in Node : Keeps(d)
    BY <2>1, <2>2, BaseFacts DEF Keeps
  <2>4. QED BY <1>1, <2>3, CallsFrame
<1>4. QED BY <1>2, <1>3

-----------------------------------------------------------------------------
(* CallFunc.                                                                *)

LEMMA SendRequestHInv ==
    ASSUME Base, HInv, NEW n \in Node, NEW f \in Func, SendRequest(n, f)
    PROVE  HInv'
<1> PICK r : r = [client |-> n, sock |-> requester[n], call |-> calls[n] + 1,
                  func |-> f, at |-> "out", code |-> "none"]
    OBVIOUS
<1>1. /\ r.client = n /\ r.sock = requester[n] /\ r.call = calls[n] + 1
      /\ r.func = f /\ r.at = "out" /\ r.code = "none"
  OBVIOUS
<1>2. /\ step[n] = "idle" /\ requester[n] # 0 /\ calls[n] < MaxCalls
      /\ calls' = [calls EXCEPT ![n] = @ + 1] /\ name' = [name EXCEPT ![n] = f]
      /\ net' = net \cup {r} /\ step' = [step EXCEPT ![n] = "recv"]
      /\ UNCHANGED <<requester, sockets, log, outcome>>
  BY DEF SendRequest, Goto, insts
<1>3. /\ calls[n] + 1 \in Cast!Call /\ requester[n] \in Nat /\ sockets[n] \in Nat
      /\ calls[n] \in Nat
  BY <1>2, BaseFacts
<1>4. \A m \in net : m.client = n => m.sock # requester[n] /\ m.call <= calls[n]
  BY <1>2 DEF HInv, MessagesInv, MessageInv
<1>5. ApartInv'
  <2>1. \A m \in net : m.client = n => m.call # calls[n] + 1
    BY <1>3, <1>4, BaseFacts, MessageFields
  <2>2. QED BY <1>1, <1>2, <1>4, <2>1 DEF HInv, ApartInv, Apart
<1>6. ASSUME NEW m \in net PROVE MessageInv(m)'
  <2>1. MessageInv(m) /\ m.client \in Node /\ m.call \in Nat
    BY BaseFacts, MessageFields DEF HInv, MessagesInv
  <2>2. CASE m.client = n
    BY <1>2, <1>3, <1>4, <2>1, <2>2, BaseFacts DEF MessageInv, Pub
  <2>3. CASE m.client # n
    BY <1>2, <2>1, <2>3, BaseFacts DEF MessageInv, Pub
  <2>4. QED BY <2>2, <2>3
<1>7. OutcomeInv(n, calls[n] + 1) /\ CallerInv(n)
  BY <1>3 DEF HInv, OutcomesInv, CallersInv
<1>8. MessageInv(r)'
  <2>1. ~Pub(n, calls[n] + 1) /\ outcome[n][calls[n] + 1] = "none"
    BY <1>3, <1>7 DEF OutcomeInv
  <2>2. /\ calls'[n] = calls[n] + 1 /\ name'[n] = f /\ step'[n] = "recv"
        /\ Pub(r.client, r.call)' = Pub(r.client, r.call)
    BY <1>2, BaseFacts DEF Pub
  <2>3. QED BY <1>1, <1>2, <1>3, <1>7, <2>1, <2>2 DEF MessageInv, CallerInv, Cast!Undecided
<1>9. MessagesInv'
  BY <1>2, <1>6, <1>8 DEF MessagesInv
<1>10. CallersInv'
  <2>1. ASSUME NEW d \in Node PROVE CallerInv(d)'
    <3>1. CallerInv(d) /\ calls[d] \in Nat
      BY BaseFacts DEF HInv, CallersInv
    <3>2. outcome[n][calls[n] + 1] = "none"
      BY <1>3, <1>7 DEF OutcomeInv
    <3>3. CASE d = n
      BY <1>2, <1>3, <3>1, <3>2, <3>3, BaseFacts DEF CallerInv
    <3>4. CASE d # n
      BY <1>2, <3>1, <3>4, BaseFacts DEF CallerInv
    <3>5. QED BY <3>3, <3>4
  <2>2. QED BY <2>1 DEF CallersInv
<1>11. OutcomesInv'
  <2>1. ASSUME NEW d \in Node, NEW k \in Cast!Call PROVE OutcomeInv(d, k)'
    <3>1. OutcomeInv(d, k) /\ calls[d] \in Nat /\ k \in Nat /\ Pub(d, k)' = Pub(d, k)
      BY <1>2, BaseFacts DEF HInv, OutcomesInv, Pub
    <3>2. calls'[d] >= calls[d] /\ calls'[d] \in Nat
      BY <1>2, <3>1, BaseFacts
    <3>3. QED BY <1>2, <3>1, <3>2 DEF OutcomeInv
  <2>2. QED BY <2>1 DEF OutcomesInv
<1>12. QED BY <1>5, <1>9, <1>10, <1>11 DEF HInv

(* A reply received is to this very call, and says what became of it.       *)
LEMMA ReplyIsForCall ==
    ASSUME Base, HInv, NEW n \in Node, step[n] = "recv", NEW m \in net,
           m.client = n, m.sock = requester[n], m.at = "reply"
    PROVE  /\ m.call = calls[n] /\ calls[n] \in Cast!Call /\ m.func = name[n]
           /\ m.code \in {"Success", "FunctionNotFound"}
           /\ Pub(n, calls[n]) <=> m.code = "Success"
<1>1. MessageInv(m) /\ m.call \in Cast!Call /\ m.code \in Codes
  BY BaseFacts, MessageFields DEF HInv, MessagesInv
<1>2. QED BY <1>1 DEF MessageInv, Codes

(* The end of a call, with what it knows of the call's publication.         *)
LEMMA OutcomeRecorded ==
    ASSUME Base, HInv, NEW n \in Node, step[n] = "recv",
           NEW e \in {"Success", "FunctionNotFound", "NetworkTimeout"},
           e = "Success" => Pub(n, calls[n]), e = "FunctionNotFound" => ~Pub(n, calls[n]),
           outcome' = [outcome EXCEPT ![n][calls[n]] = e], UNCHANGED <<calls, log>>
    PROVE  /\ OutcomesInv'
           /\ outcome'[n][calls[n]] = e
           /\ \A d \in Node, k \in Cast!Call :
                d # n \/ k # calls[n] => outcome'[d][k] = outcome[d][k]
<1>1. calls[n] \in Cast!Call
  <2>1. calls[n] \in 0 .. MaxCalls /\ calls[n] >= 1
    BY DEF Base, CallsInv, HInv, CallersInv, CallerInv
  <2>2. QED BY <2>1, BaseFacts
<1>2. /\ outcome'[n][calls[n]] = e
      /\ \A d \in Node, k \in Cast!Call :
            d # n \/ k # calls[n] => outcome'[d][k] = outcome[d][k]
  BY <1>1, BaseFacts
<1>3. ASSUME NEW d \in Node, NEW k \in Cast!Call PROVE OutcomeInv(d, k)'
  <2>1. OutcomeInv(d, k) /\ Pub(d, k)' = Pub(d, k) /\ calls[n] \in Nat
    BY BaseFacts DEF HInv, OutcomesInv, Pub
  <2>2. CASE d = n /\ k = calls[n]
    BY <1>2, <2>1, <2>2 DEF OutcomeInv
  <2>3. CASE ~(d = n /\ k = calls[n])
    BY <1>2, <2>1, <2>3 DEF OutcomeInv
  <2>4. QED BY <2>2, <2>3
<1>4. QED BY <1>2, <1>3 DEF OutcomesInv

LEMMA ReceiveReplyHInv ==
    ASSUME Base, HInv, NEW n \in Node, ReceiveReply(n)
    PROVE  HInv'
<1>1. PICK m \in net :
        /\ m.client = n /\ m.sock = requester[n] /\ m.at = "reply" /\ net' = net \ {m}
        /\ outcome' = [outcome EXCEPT ![n][calls[n]] =
                        IF m.func = name[n] THEN m.code ELSE "FunctionNameMismatch"]
  BY DEF ReceiveReply
<1>2. /\ step[n] = "recv" /\ step' = [step EXCEPT ![n] = "idle"]
      /\ UNCHANGED <<requester, sockets, calls, log, name>>
  BY DEF ReceiveReply, Goto, insts
<1>3. /\ m.call = calls[n] /\ calls[n] \in Cast!Call /\ m.func = name[n]
      /\ m.code \in {"Success", "FunctionNotFound"}
      /\ Pub(n, calls[n]) <=> m.code = "Success"
  BY <1>1, <1>2, ReplyIsForCall
<1>4. /\ OutcomesInv'
      /\ \A d \in Node, k \in Cast!Call :
            d # n \/ k # calls[n] => outcome'[d][k] = outcome[d][k]
  BY <1>1, <1>2, <1>3, OutcomeRecorded
<1>5. ASSUME NEW r \in net' PROVE MessageInv(r)'
  <2>1. /\ r \in net /\ r # m /\ MessageInv(r) /\ r.client \in Node /\ r.call \in Cast!Call
    BY <1>1, BaseFacts, MessageFields DEF HInv, MessagesInv
  <2>2. r.client # n \/ (r.sock # requester[n] /\ r.call # calls[n])
    BY <1>1, <1>3, <2>1 DEF HInv, ApartInv, Apart
  <2>3. outcome'[r.client][r.call] = outcome[r.client][r.call]
    BY <1>4, <2>1, <2>2
  <2>4. Pub(r.client, r.call)' = Pub(r.client, r.call)
    BY <1>2 DEF Pub
  <2>5. r.sock = requester[r.client] => step'[r.client] = step[r.client]
    BY <1>2, <2>1, <2>2, BaseFacts
  <2>6. QED BY <1>2, <2>1, <2>3, <2>4, <2>5 DEF MessageInv
<1>6. MessagesInv' /\ ApartInv'
  BY <1>1, <1>5 DEF MessagesInv, HInv, ApartInv, Apart
<1>7. ASSUME NEW d \in Node PROVE CallerInv(d)'
  <2>1. CallerInv(d)
    BY DEF HInv, CallersInv
  <2>2. CASE d = n
    BY <1>2, <2>1, <2>2, BaseFacts DEF CallerInv
  <2>3. CASE d # n
    <3>1. outcome'[d] = outcome[d] /\ step'[d] = step[d]
      BY <1>1, <1>2, <2>3, BaseFacts
    <3>2. QED BY <1>2, <2>1, <3>1 DEF CallerInv
  <2>4. QED BY <2>2, <2>3
<1>8. QED BY <1>4, <1>6, <1>7 DEF HInv, CallersInv

LEMMA ReceiveTimeoutHInv ==
    ASSUME Base, HInv, NEW n \in Node, ReceiveTimeout(n)
    PROVE  HInv'
<1>1. /\ step[n] = "recv" /\ step' = [step EXCEPT ![n] = "idle"] /\ net' = AfterClose(n)
      /\ sockets' = [sockets EXCEPT ![n] = @ + 1]
      /\ requester' = [requester EXCEPT ![n] = sockets[n] + 1]
      /\ outcome' = [outcome EXCEPT ![n][calls[n]] = "NetworkTimeout"]
      /\ UNCHANGED <<calls, log, name>>
  BY DEF ReceiveTimeout, NewSocket, Goto
<1>2. /\ OutcomesInv' /\ outcome'[n][calls[n]] = "NetworkTimeout"
      /\ \A d \in Node, k \in Cast!Call :
            d # n \/ k # calls[n] => outcome'[d][k] = outcome[d][k]
  BY <1>1, OutcomeRecorded
<1>3. net' \subseteq net /\ Changes(n)
  BY <1>1, BaseFacts DEF AfterClose, Changes
<1>4. ASSUME NEW d \in Node, d # n PROVE Keeps(d)
  BY <1>1, <1>4, BaseFacts DEF Keeps
<1>5. ASSUME NEW m \in net' PROVE MessageInv(m)'
  <2>1. m \in net /\ MessageInv(m) /\ m.client \in Node /\ m.call \in Cast!Call
    BY <1>3, BaseFacts, MessageFields DEF HInv, MessagesInv
  <2>2. outcome'[m.client][m.call] \in Cast!Undecided
    BY <1>2, <2>1 DEF MessageInv, Cast!Undecided
  <2>3. QED BY <1>1, <1>3, <1>4, <2>1, <2>2, MessageFrame
<1>6. ASSUME NEW d \in Node PROVE CallerInv(d)'
  <2>1. CallerInv(d) /\ sockets[d] \in Nat
    BY BaseFacts DEF HInv, CallersInv
  <2>2. CASE d = n
    BY <1>3, <2>1, <2>2 DEF CallerInv, Changes
  <2>3. CASE d # n
    <3>1. outcome'[d] = outcome[d]
      BY <1>1, <2>3, BaseFacts
    <3>2. QED BY <1>1, <1>4, <2>1, <2>3, <3>1 DEF CallerInv, Keeps
  <2>4. QED BY <2>2, <2>3
<1>7. ApartInv'
  BY <1>3 DEF HInv, ApartInv, Apart
<1>8. QED BY <1>2, <1>5, <1>6, <1>7 DEF HInv, MessagesInv, CallersInv

-----------------------------------------------------------------------------
(* The network and the responder.                                           *)

(* Nothing of the nodes changes and one message moves, keeping its code.    *)
LEMMA MoveHInv ==
    ASSUME Base, HInv, NEW m \in net, Deliver(m) \/ \E n \in Node : TakeRequest(n, m) \/ SendReply(n, m)
    PROVE  HInv'
<1> USE DEF owner, insts, threads, wire, history
<1>1. MessageInv(m) /\ m \in Message /\ m.code \in Codes
  BY BaseFacts, MessageFields DEF HInv, MessagesInv
<1>2. UNCHANGED <<step, requester, sockets, name, calls, log, outcome>>
  BY DEF Deliver, TakeRequest, SendReply
<1>3. PICK place \in {"in", "exec", "reply"} :
        Move(m, place, m.code) /\ (place = "in" => m.code = "none")
                               /\ (place = "reply" => m.code # "none")
  BY <1>1 DEF Deliver, TakeRequest, SendReply, MessageInv
<1>4. PICK r \in Message :
        /\ net' = (net \ {m}) \cup {r}
        /\ r.client = m.client /\ r.sock = m.sock /\ r.call = m.call /\ r.func = m.func
        /\ r.at = place /\ r.code = m.code
  BY <1>1, <1>3, MoveFacts
<1>5. Pub(m.client, m.call)' = Pub(m.client, m.call)
  BY <1>2 DEF Pub
<1>6. MessageInv(r)'
  <2>1. Pub(r.client, r.call)' = Pub(m.client, m.call)
    BY <1>4, <1>5
  <2>2. QED BY <1>1, <1>2, <1>3, <1>4, <2>1 DEF MessageInv
<1>7. ASSUME NEW o \in net PROVE MessageInv(o)'
  BY <1>2 DEF HInv, MessagesInv, MessageInv, Pub
<1>8. MessagesInv' /\ ApartInv'
  BY <1>4, <1>6, <1>7 DEF HInv, MessagesInv, ApartInv, Apart
<1>9. CallersInv' /\ OutcomesInv'
  BY <1>2 DEF HInv, CallersInv, CallerInv, OutcomesInv, OutcomeInv, Pub
<1>10. QED BY <1>8, <1>9 DEF HInv

(* Publishing adds one call, and only that one, to what is published.       *)
LEMMA PublishAdds ==
    ASSUME Base, NEW m \in Message, Publish(m)
    PROVE  \A n, k : Pub(n, k)' <=> Pub(n, k) \/ (n = m.client /\ k = m.call)
<1> PICK e : e = [client |-> m.client, call |-> m.call, func |-> m.func]
    OBVIOUS
<1>1. e.client = m.client /\ e.call = m.call /\ e \in Publication
  BY DEF Publication, Message
<1>2. /\ DOMAIN log = 1 .. Len(log) /\ Len(log) \in Nat
      /\ DOMAIN log' = 1 .. Len(log) + 1 /\ log'[Len(log) + 1] = e
      /\ \A i \in DOMAIN log : log'[i] = log[i]
  BY <1>1, BaseFacts DEF Publish
<1>3. QED BY <1>1, <1>2 DEF Pub

LEMMA ResponseProcessHInv ==
    ASSUME Base, HInv, NEW n \in Node, NEW m \in net, ResponseProcess(n, m)
    PROVE  HInv'
<1> USE DEF owner, insts, threads, wire, history
<1>1. MessageInv(m) /\ m \in Message /\ m.code = "none" /\ m.at = "exec"
  BY BaseFacts DEF HInv, MessagesInv, ResponseProcess
<1>2. UNCHANGED <<step, requester, sockets, name, calls, outcome>>
  BY DEF ResponseProcess
<1>3. PICK code \in {"Success", "FunctionNotFound"} :
        /\ Move(m, "exec", code)
        /\ code = "Success" => Publish(m)
        /\ code = "FunctionNotFound" => UNCHANGED log
  BY DEF ResponseProcess
<1>4. PICK r \in Message :
        /\ net' = (net \ {m}) \cup {r}
        /\ r.client = m.client /\ r.sock = m.sock /\ r.call = m.call /\ r.func = m.func
        /\ r.at = "exec" /\ r.code = code
  BY <1>1, <1>3, MoveFacts DEF Codes
<1>5. \A d, k : Pub(d, k)' <=> Pub(d, k) \/ (code = "Success" /\ d = m.client /\ k = m.call)
  <2>1. CASE code = "Success"
    BY <1>1, <1>3, <2>1, PublishAdds
  <2>2. CASE code # "Success"
    BY <1>3, <2>2 DEF Pub
  <2>3. QED BY <2>1, <2>2
<1>6. ~Pub(m.client, m.call)
  BY <1>1 DEF MessageInv
<1>7. MessageInv(r)'
  <2>1. Pub(r.client, r.call)' <=> code = "Success"
    BY <1>4, <1>5, <1>6
  <2>2. QED BY <1>1, <1>2, <1>4, <2>1 DEF MessageInv
<1>8. ASSUME NEW o \in net, o # m PROVE MessageInv(o)'
  <2>1. MessageInv(o) /\ (o.client # m.client \/ o.call # m.call)
    BY <1>8 DEF HInv, MessagesInv, ApartInv, Apart
  <2>2. Pub(o.client, o.call)' <=> Pub(o.client, o.call)
    BY <1>5, <2>1
  <2>3. QED BY <1>2, <2>1, <2>2 DEF MessageInv
<1>9. MessagesInv' /\ ApartInv'
  BY <1>4, <1>7, <1>8 DEF HInv, MessagesInv, ApartInv, Apart
<1>10. CallersInv'
  BY <1>2 DEF HInv, CallersInv, CallerInv
<1>11. ASSUME NEW d \in Node, NEW k \in Cast!Call PROVE OutcomeInv(d, k)'
  <2>1. OutcomeInv(d, k) /\ calls[d] \in Nat /\ k \in Nat
    BY BaseFacts DEF HInv, OutcomesInv
  <2>2. CASE d = m.client /\ k = m.call
    BY <1>1, <1>2, <1>5, <2>1, <2>2 DEF OutcomeInv, MessageInv, Cast!Undecided
  <2>3. CASE ~(d = m.client /\ k = m.call)
    <3>1. Pub(d, k)' <=> Pub(d, k)
      BY <1>5, <2>3
    <3>2. QED BY <1>2, <2>1, <3>1 DEF OutcomeInv
  <2>4. QED BY <2>2, <2>3
<1>12. QED BY <1>9, <1>10, <1>11 DEF HInv, OutcomesInv

(* Steps of the network and of the threads that concern no call.            *)
LEMMA OtherHInv ==
    ASSUME Base, HInv,
           \/ \E m \in net : Lose(m)
           \/ \E q \in Ports : PortFreed(q)
           \/ \E n \in Node : Join(n) \/ Break(n) \/ SubscriberStep(n) \/ ResponderTimesOut(n)
           \/ UNCHANGED vars
    PROVE  HInv'
<1> USE DEF owner, insts, threads, wire, history
<1>1. /\ net' \subseteq net
      /\ UNCHANGED <<step, requester, sockets, name, calls, log, outcome>>
  BY DEF Lose, PortFreed, Join, Break, SubscriberStep, TakeBroadcast, SubscriberTimesOut,
     SubscribeProcess, ResponderTimesOut, vars
<1>2. \A n \in Node : Keeps(n)
  BY <1>1 DEF Keeps
<1>3. QED BY <1>1, <1>2, CallsFrame

LEMMA StepHInv == Base /\ HInv /\ [Next]_vars => HInv'
<1> SUFFICES ASSUME Base, HInv, [Next]_vars PROVE HInv'
    OBVIOUS
<1>1. ASSUME NEW n \in Node, OwnerStep(n) PROVE HInv'
  <2>1. ASSUME NEW f \in Func, SendRequest(n, f) PROVE HInv'
    BY <2>1, SendRequestHInv
  <2>2. CASE ReceiveReply(n) \/ ReceiveTimeout(n)
    BY <2>2, ReceiveReplyHInv, ReceiveTimeoutHInv
  <2>3. CASE DestroyInstances(n)
    BY <2>3, ReleaseHInv
  <2>4. QED BY <1>1, <2>1, <2>2, <2>3, StartStopHInv DEF OwnerStep
<1>2. ASSUME NEW n \in Node, ResponderStep(n) PROVE HInv'
  <2>1. ASSUME NEW m \in net, PublishOnNull(n, m) PROVE HInv'
    BY <2>1, ReleaseHInv DEF PublishOnNull
  <2>2. QED BY <1>2, <2>1, MoveHInv, ResponseProcessHInv, OtherHInv DEF ResponderStep
<1>3. QED BY <1>1, <1>2, ReleaseHInv, MoveHInv, OtherHInv DEF Next

LEMMA CallsInvariance == Spec => [](Base /\ HInv)
<1>1. Spec => []Base
  BY PipesInvariance, PTL DEF Base
<1>2. QED BY <1>1, InitHInv, StepHInv, PTL DEF Spec

-----------------------------------------------------------------------------
(* The system implements Broadcast.                                         *)

castLog == [i \in DOMAIN log |-> <<log[i].client, log[i].call>>]

LEMMA PublishedIsPub ==
    ASSUME NEW n, NEW k
    PROVE  Cast!Published(n, k) <=> Pub(n, k)
<1>1. DOMAIN castLog = DOMAIN log
      /\ \A i \in DOMAIN log : castLog[i] = <<log[i].client, log[i].call>>
  BY DEF castLog
<1>2. \A a, b : <<a, b>> = <<n, k>> <=> a = n /\ b = k
  OBVIOUS
<1>3. QED BY <1>1, <1>2 DEF Cast!Published, Pub, castLog

LEMMA CastLogAppend ==
    ASSUME Base, NEW m \in Message, Publish(m)
    PROVE  castLog' = Append(castLog, <<m.client, m.call>>)
<1> PICK e : e = [client |-> m.client, call |-> m.call, func |-> m.func]
    OBVIOUS
<1> DEFINE pair == <<m.client, m.call>>
<1>1. e.client = m.client /\ e.call = m.call /\ e \in Publication
  BY DEF Publication, Message
<1>2. /\ DOMAIN log = 1 .. Len(log) /\ Len(log) \in Nat
      /\ DOMAIN log' = 1 .. Len(log) + 1 /\ log'[Len(log) + 1] = e
      /\ \A i \in DOMAIN log : log'[i] = log[i]
  BY <1>1, BaseFacts DEF Publish
<1>3. /\ castLog \in Seq(Node \X Cast!Call) /\ Len(castLog) = Len(log)
      /\ \A i \in 1 .. Len(log) : castLog[i] = <<log[i].client, log[i].call>>
  <2>1. \A i \in 1 .. Len(log) : <<log[i].client, log[i].call>> \in Node \X Cast!Call
    <3>1. \A i \in 1 .. Len(log) : log[i] \in Publication
      BY BaseFacts
    <3>2. \A p \in Publication : p.client \in Node /\ p.call \in Cast!Call
      BY DEF Publication
    <3>3. QED BY <3>1, <3>2
  <2>2. QED BY <1>2, <2>1 DEF castLog
<1>4. castLog' = [i \in 1 .. Len(log) + 1 |-> <<log'[i].client, log'[i].call>>]
  BY <1>2 DEF castLog
<1>5. pair \in Node \X Cast!Call
  BY MessageFields
<1>6. /\ DOMAIN Append(castLog, pair) = 1 .. Len(log) + 1
      /\ \A i \in 1 .. Len(log) : Append(castLog, pair)[i] = castLog[i]
      /\ Append(castLog, pair)[Len(log) + 1] = pair
      /\ Append(castLog, pair) = [i \in 1 .. Len(log) + 1 |-> Append(castLog, pair)[i]]
  BY <1>2, <1>3, <1>5
<1>7. ASSUME NEW i \in 1 .. Len(log) + 1
      PROVE  <<log'[i].client, log'[i].call>> = Append(castLog, pair)[i]
  <2>1. CASE i = Len(log) + 1
    BY <1>1, <1>2, <1>6, <2>1
  <2>2. CASE i # Len(log) + 1
    <3>1. i \in 1 .. Len(log)
      BY <1>2, <2>2
    <3>2. QED BY <1>2, <1>3, <1>6, <3>1
  <2>3. QED BY <2>1, <2>2
<1>8. QED BY <1>4, <1>6, <1>7

LEMMA OwnerRefines ==
    ASSUME Base, HInv, NEW n \in Node, OwnerStep(n)
    PROVE  Cast!CastNext \/ UNCHANGED Cast!castVars
<1> USE DEF owner, insts, threads, wire, history, Cast!castVars, castLog
<1>1. ASSUME NEW f \in Func, SendRequest(n, f) PROVE Cast!CastNext
  <2>1. Cast!Invoke(n)
    BY <1>1 DEF SendRequest, Cast!Invoke
  <2>2. QED BY <2>1 DEF Cast!CastNext
<1>2. ASSUME NEW e \in {"Success", "FunctionNotFound", "NetworkTimeout"},
             step[n] = "recv", e = "Success" => Pub(n, calls[n]),
             e = "FunctionNotFound" => ~Pub(n, calls[n]),
             outcome' = [outcome EXCEPT ![n][calls[n]] = e], UNCHANGED <<calls, log, ran>>
      PROVE  Cast!CastNext
  <2>1. /\ calls[n] > 0 /\ outcome[n][calls[n]] = "none"
    BY <1>2, BaseFacts DEF HInv, CallersInv, CallerInv
  <2>2. Cast!Published(n, calls[n]) <=> Pub(n, calls[n])
    BY PublishedIsPub
  <2>3. Cast!Complete(n)
    BY <1>2, <2>1, <2>2 DEF Cast!Complete
  <2>4. QED BY <2>3 DEF Cast!CastNext
<1>3. CASE ReceiveReply(n)
  <2>1. PICK m \in net :
          /\ m.client = n /\ m.sock = requester[n] /\ m.at = "reply"
          /\ outcome' = [outcome EXCEPT ![n][calls[n]] =
                          IF m.func = name[n] THEN m.code ELSE "FunctionNameMismatch"]
    BY <1>3 DEF ReceiveReply
  <2>2. /\ m.func = name[n] /\ m.code \in {"Success", "FunctionNotFound"}
        /\ Pub(n, calls[n]) <=> m.code = "Success"
    BY <1>3, <2>1, ReplyIsForCall DEF ReceiveReply
  <2>3. QED BY <1>2, <1>3, <2>1, <2>2 DEF ReceiveReply
<1>4. CASE ReceiveTimeout(n)
  BY <1>2, <1>4 DEF ReceiveTimeout
<1>5. CASE \/ \E f \in Func : BindFunc(n, f)
           \/ StartBegins(n) \/ CreatePublisher(n) \/ CreateResponder(n)
           \/ CreateSubscriber(n) \/ CreateRequester(n)
           \/ StopBegins(n) \/ WaitResponse(n) \/ WaitReceive(n) \/ DestroyInstances(n)
  <2>1. UNCHANGED <<calls, log, ran, outcome>>
    BY <1>5 DEF BindFunc, StartBegins, CreatePublisher, CreateResponder, CreateSubscriber,
       CreateRequester, StopBegins, WaitResponse, WaitReceive, DestroyInstances
  <2>2. QED BY <2>1
<1>6. QED BY <1>1, <1>3, <1>4, <1>5 DEF OwnerStep

LEMMA ResponderRefines ==
    ASSUME Base, HInv, NEW n \in Node, ResponderStep(n)
    PROVE  Cast!CastNext \/ UNCHANGED Cast!castVars
<1> USE DEF owner, insts, threads, wire, history
<1>1. ASSUME NEW m \in net, ResponseProcess(n, m), Publish(m) PROVE Cast!CastNext
  <2>1. /\ m \in Message /\ m.client \in Node /\ m.call \in Cast!Call
        /\ MessageInv(m) /\ m.code = "none"
    BY <1>1, BaseFacts, MessageFields DEF HInv, MessagesInv, ResponseProcess
  <2>2. ~Cast!Published(m.client, m.call)
    BY <2>1, PublishedIsPub DEF MessageInv
  <2>3. castLog' = Append(castLog, <<m.client, m.call>>)
    BY <1>1, <2>1, CastLogAppend
  <2>4. /\ m.call <= calls[m.client] /\ outcome[m.client][m.call] \in Cast!Undecided
        /\ UNCHANGED <<calls, ran, outcome>>
    BY <1>1, <2>1 DEF MessageInv, ResponseProcess
  <2>5. Cast!Publish(m.client, m.call)
    BY <2>2, <2>3, <2>4 DEF Cast!Publish, castLog
  <2>6. QED BY <2>1, <2>5 DEF Cast!CastNext
<1>2. ASSUME UNCHANGED <<calls, log, ran, outcome>> PROVE UNCHANGED Cast!castVars
  BY <1>2 DEF Cast!castVars
<1>3. QED BY <1>1, <1>2 DEF ResponderStep, ResponderTimesOut, TakeRequest, ResponseProcess,
             PublishOnNull, NodeDies, SendReply

LEMMA SubscriberRefines ==
    ASSUME Base, NEW n \in Node, SubscriberStep(n)
    PROVE  Cast!CastNext \/ UNCHANGED Cast!castVars
<1> USE DEF history
<1>1. CASE ran' = [ran EXCEPT ![n] = @ \cup {taken[n]}] /\ SubscribeProcess(n)
  <2>1. /\ taken[n] \in 1 .. Len(log) /\ \A x \in ran[n] : x < taken[n]
    <3>1. sub[n] = "process" /\ PipeInv(n) /\ taken[n] \in 0 .. Len(log)
      BY <1>1 DEF Base, PipesInv, SubscribeProcess
    <3>2. QED BY <3>1, BaseFacts DEF PipeInv
  <2>2. taken[n] \in DOMAIN castLog
    BY <2>1, BaseFacts DEF castLog
  <2>3. UNCHANGED <<calls, castLog, outcome>>
    BY <1>1 DEF SubscribeProcess, castLog
  <2>4. Cast!Run(n)
    BY <1>1, <2>1, <2>2, <2>3 DEF Cast!Run, castLog
  <2>5. QED BY <2>4 DEF Cast!CastNext
<1>2. CASE UNCHANGED <<calls, log, ran, outcome>>
  BY <1>2 DEF Cast!castVars
<1>3. QED BY <1>1, <1>2 DEF SubscriberStep, TakeBroadcast, SubscriberTimesOut, SubscribeProcess

-----------------------------------------------------------------------------
(* FunctionNotFound is final: the call was not published and never will be. *)
THEOREM RefusalSound == Spec => []RefusedNeverPublished
<1>1. Base /\ HInv => RefusedNeverPublished
  BY PublishedIsPub DEF HInv, OutcomesInv, OutcomeInv, RefusedNeverPublished
<1>2. QED BY <1>1, CallsInvariance, PTL

(* For any nodes, roles, bounds and faults, the callers and the functions   *)
(* that run see one order of at most one publication for each call.         *)
THEOREM BroadcastRefinement == Spec => ImplementsBroadcast
<1>1. Init => Cast!CastInit
  <2>1. Init => castLog = <<>>
    BY DEF Init, castLog
  <2>2. QED BY <2>1 DEF Init, Cast!CastInit, castLog
<1>2. Base /\ HInv /\ [Next]_vars => [Cast!CastNext]_(Cast!castVars)
  <2> SUFFICES ASSUME Base, HInv, [Next]_vars
               PROVE  Cast!CastNext \/ UNCHANGED Cast!castVars
    OBVIOUS
  <2>1. ASSUME NEW n \in Node,
               OwnerStep(n) \/ ResponderStep(n) \/ SubscriberStep(n)
        PROVE  Cast!CastNext \/ UNCHANGED Cast!castVars
    BY <2>1, OwnerRefines, ResponderRefines, SubscriberRefines
  <2>2. ASSUME \/ \E n \in Node : NodeDies(n) \/ Join(n) \/ Break(n)
               \/ \E m \in net : Deliver(m) \/ Lose(m)
               \/ \E q \in Ports : PortFreed(q)
               \/ UNCHANGED vars
        PROVE  UNCHANGED Cast!castVars
    <3>1. UNCHANGED <<calls, log, ran, outcome>>
      BY <2>2 DEF NodeDies, Join, Break, Deliver, Lose, PortFreed, vars, history
    <3>2. QED BY <3>1 DEF Cast!castVars
  <2>3. QED BY <2>1, <2>2 DEF Next
<1>3. QED BY <1>1, <1>2, CallsInvariance, PTL DEF Spec, ImplementsBroadcast, Cast!CastSpec
==============================================================================
