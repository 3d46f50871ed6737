-------------------------- MODULE StandardRpc_proofs --------------------------
(***************************************************************************)
(* Proofs about StandardRpc for every set of clients and functions, every  *)
(* number of calls and of sockets.                                         *)
(***************************************************************************)
EXTENDS StandardRpc, TLAPS

(* One socket of one client, and one call of one client, has one message.   *)
Apart(m, n) == m.client = n.client /\ (m.sock = n.sock \/ m.call = n.call) => m = n

(* What a message under way says of its client and of its call.             *)
MessageInv(m) ==
    /\ m.sock >= 1 /\ m.sock <= sockets[m.client]
    /\ m.call <= calls[m.client]
    /\ m.sock = requester[m.client] => receiving[m.client]
    /\ m.sock = requester[m.client] /\ pc[m.client] = "recv"
         => m.call = calls[m.client] /\ m.func = name[m.client]
    /\ m.at = "out" => m.sock = requester[m.client]
    /\ m.at \in {"out", "in"} => m.code = "none"
    /\ m.at = "reply" => m.code # "none"
    /\ execs[m.client][m.call] = IF m.code = "Success" THEN 1 ELSE 0
    /\ outcome[m.client][m.call].error \in Remote!Undecided

ClientInv(c) ==
    /\ requester[c] <= sockets[c]
    /\ calls[c] <= MaxCalls
    /\ pc[c] = "recv" => /\ receiving[c] /\ requester[c] >= 1
                         /\ calls[c] >= 1
                         /\ outcome[c][calls[c]].error = "none"

CallInv(c, k) ==
    /\ execs[c][k] \in {0, 1}
    /\ k > calls[c] => execs[c][k] = 0 /\ outcome[c][k].error = "none"
    /\ outcome[c][k].error = "Success" => execs[c][k] = 1 /\ outcome[c][k].value = k
    /\ outcome[c][k].error \in {"FunctionNotFound", "SendThrew"} => execs[c][k] = 0
    /\ outcome[c][k].error # "FunctionNameMismatch"

NetInv     == \A m \in net : MessageInv(m)
ApartInv   == \A m, n \in net : Apart(m, n)
ClientsInv == \A c \in Client : ClientInv(c)
HistoryInv == \A c \in Client, k \in Call : CallInv(c, k)

IInv == TypeOK /\ NetInv /\ ApartInv /\ ClientsInv /\ HistoryInv

LEMMA InitInv == Init => IInv
<1> SUFFICES ASSUME Init PROVE IInv
    OBVIOUS
<1> USE DEF Init, Remote!CallInit, Thread!ServiceInit
<1>1. TypeOK
  BY DEF TypeOK, Thread!ServiceTypeOK, Thread!Phases, Call, Remote!Call,
         Remote!Unreturned, Remote!Return, Remote!Errors, Result
<1>2. NetInv
  BY DEF NetInv
<1>3. ApartInv
  BY DEF ApartInv
<1>4. ClientsInv
  <2>1. ASSUME NEW c \in Client PROVE ClientInv(c)
    BY BoundsAssumption DEF ClientInv
  <2>2. QED BY <2>1 DEF ClientsInv
<1>5. HistoryInv
  BY DEF HistoryInv, CallInv, Call, Remote!Call, Remote!Unreturned, Remote!Return
<1>6. QED BY <1>1, <1>2, <1>3, <1>4, <1>5 DEF IInv

-----------------------------------------------------------------------------
(* Operators the steps are built from.                                      *)

LEMMA NewRequestType ==
    ASSUME NEW c \in Client, NEW s \in Nat, NEW k \in Call, NEW f \in Func
    PROVE  NewRequest(c, s, k, f) \in Message
BY DEF NewRequest, Message, Places, Codes

(* Moving a message changes where it is and its code, nothing else of it.   *)
LEMMA MoveFacts ==
    ASSUME net \subseteq Message, NEW m \in net, NEW place \in Places, NEW code \in Codes,
           Move(m, place, code)
    PROVE  /\ net' \subseteq Message
           /\ \E n \in Message :
                /\ net' = (net \ {m}) \cup {n}
                /\ n.client = m.client /\ n.sock = m.sock
                /\ n.call = m.call /\ n.func = m.func
                /\ n.at = place /\ n.code = code
<1>1. PICK n : n = [m EXCEPT !.at = place, !.code = code]
  OBVIOUS
<1>2. /\ n \in Message
      /\ n.client = m.client /\ n.sock = m.sock /\ n.call = m.call /\ n.func = m.func
      /\ n.at = place /\ n.code = code
  BY <1>1 DEF Message
<1>3. net' = (net \ {m}) \cup {n}
  BY <1>1 DEF Move
<1>4. QED BY <1>2, <1>3

LEMMA AfterCloseFacts ==
    ASSUME NEW c \in Client
    PROVE  /\ AfterClose(c) \subseteq net
           /\ \A m \in AfterClose(c) : m.client = c /\ m.at = "out" => m.sock # requester[c]
BY DEF AfterClose

(* Every verdict of CallFunc is a result with its error and value.          *)
LEMMA ReturnType ==
    ASSUME NEW e \in Remote!Errors, NEW v \in Nat
    PROVE  Remote!Return(e, v) \in Result
BY DEF Remote!Return, Result

(* Recording one result keeps the type of the history.                      *)
LEMMA OutcomeType ==
    ASSUME outcome \in [Client -> [Call -> Result]], NEW c \in Client, NEW k, NEW r \in Result,
           outcome' = [outcome EXCEPT ![c][k] = r]
    PROVE  outcome' \in [Client -> [Call -> Result]]
OBVIOUS

-----------------------------------------------------------------------------
(* The type invariant is preserved, action by action.                       *)

LEMMA ClientTypeStep ==
    ASSUME TypeOK, NEW c \in Client, ClientStep(c)
    PROVE  TypeOK'
<1> USE DEF TypeOK, conn, history, thread, Thread!ServiceTypeOK
<1>0. Call = 1 .. MaxCalls /\ MaxCalls \in Nat
  BY BoundsAssumption DEF Call, Remote!Call
<1>1. CASE ConnectNetwork(c)
  BY <1>1 DEF ConnectNetwork, NewSocket
<1>2. CASE DisconnectNetwork(c) \/ ProcessEnds(c)
  <2>1. DropSocket(c)
    BY <1>2 DEF DisconnectNetwork, ProcessEnds
  <2>2. /\ net' \subseteq Message
        /\ requester' \in [Client -> Nat] /\ receiving' \in [Client -> BOOLEAN]
    BY <2>1, AfterCloseFacts DEF DropSocket
  <2>3. CASE DisconnectNetwork(c)
    BY <2>2, <2>3 DEF DisconnectNetwork
  <2>4. CASE ProcessEnds(c)
    BY <2>2, <2>4 DEF ProcessEnds
  <2>5. QED BY <1>2, <2>3, <2>4
<1>3. CASE \E enable \in BOOLEAN : SetAutoReconnectNetwork(c, enable)
  BY <1>3 DEF SetAutoReconnectNetwork
<1>4. ASSUME NEW f \in Func, SendRequest(c, f) PROVE TypeOK'
  <2>1. calls[c] + 1 \in Call
    BY <1>0, <1>4 DEF SendRequest
  <2>2. NewRequest(c, requester[c], calls[c] + 1, f) \in Message
    BY <2>1, NewRequestType
  <2>3. QED BY <1>4, <2>2 DEF SendRequest
<1>5. CASE SendThrows(c)
  <2>1. Remote!Return("SendThrew", 0) \in Result
    BY ReturnType DEF Remote!Errors
  <2>2. outcome' \in [Client -> [Call -> Result]]
    BY <1>5, <2>1, OutcomeType DEF SendThrows
  <2>3. calls' \in [Client -> Nat]
    BY <1>5 DEF SendThrows
  <2>4. QED BY <1>5, <2>2, <2>3 DEF SendThrows
<1>6. CASE ReceiveReply(c)
  <2>1. PICK m \in net : /\ net' = net \ {m}
                         /\ outcome' = [outcome EXCEPT ![c][calls[c]] = Verdict(c, m)]
    BY <1>6 DEF ReceiveReply
  <2>2. m.call \in Nat
    BY <1>0 DEF Message
  <2>3. Verdict(c, m) \in Result
    BY <2>2, ReturnType DEF Verdict, Remote!Errors
  <2>4. outcome' \in [Client -> [Call -> Result]]
    BY <2>1, <2>3, OutcomeType
  <2>5. pc' \in [Client -> {"idle", "recv"}] /\ receiving' \in [Client -> BOOLEAN]
    BY <1>6 DEF ReceiveReply
  <2>6. QED BY <1>6, <2>1, <2>4, <2>5 DEF ReceiveReply
<1>7. CASE ReceiveTimeout(c)
  <2>1. Remote!Return("NetworkTimeout", 0) \in Result
    BY ReturnType DEF Remote!Errors
  <2>2. outcome' \in [Client -> [Call -> Result]]
    BY <1>7, <2>1, OutcomeType DEF ReceiveTimeout
  <2>3. pc' \in [Client -> {"idle", "recv"}]
    BY <1>7 DEF ReceiveTimeout
  <2>4. /\ net' \subseteq Message
        /\ requester' \in [Client -> Nat] /\ sockets' \in [Client -> Nat]
        /\ receiving' \in [Client -> BOOLEAN]
    <3>1. CASE autoReconnect[c]
      <4>1. net' = AfterClose(c) /\ NewSocket(c)
        BY <1>7, <3>1 DEF ReceiveTimeout, Reconnect
      <4>2. QED BY <4>1, AfterCloseFacts DEF NewSocket
    <3>2. CASE ~autoReconnect[c]
      BY <1>7, <3>2 DEF ReceiveTimeout, Reconnect
    <3>3. QED BY <3>1, <3>2
  <2>5. QED BY <1>7, <2>2, <2>3, <2>4 DEF ReceiveTimeout
<1>8. CASE ReceiveThrows(c)
  <2>1. Remote!Return("ReceiveThrew", 0) \in Result
    BY ReturnType DEF Remote!Errors
  <2>2. outcome' \in [Client -> [Call -> Result]]
    BY <1>8, <2>1, OutcomeType DEF ReceiveThrows
  <2>3. pc' \in [Client -> {"idle", "recv"}]
    BY <1>8 DEF ReceiveThrows
  <2>4. QED BY <1>8, <2>2, <2>3 DEF ReceiveThrows
<1>9. QED BY <1>1, <1>2, <1>3, <1>4, <1>5, <1>6, <1>7, <1>8, ClientStep(c) DEF ClientStep

LEMMA MessageTypeStep ==
    ASSUME TypeOK, NEW m \in net, MessageStep(m)
    PROVE  TypeOK'
<1> USE DEF TypeOK, clientVars, conn, history, thread, Thread!ServiceTypeOK
<1>1. CASE Deliver(m)
  BY <1>1, MoveFacts DEF Deliver, Places, Codes
<1>2. CASE Lose(m)
  BY <1>2 DEF Lose
<1>3. CASE TakeRequest(m)
  <2>1. net' \subseteq Message
    BY <1>3, MoveFacts DEF TakeRequest, Places, Codes
  <2>2. QED BY <1>3, <2>1 DEF TakeRequest, Thread!Enter, Thread!Phases
<1>4. CASE ExecFunc(m)
  <2>1. net' \subseteq Message
    BY <1>4, MoveFacts DEF ExecFunc, ReturnCode, Places, Codes
  <2>2. execs' \in [Client -> [Call -> Nat]]
    BY <1>4 DEF ExecFunc, Message
  <2>3. QED BY <1>4, <2>1, <2>2 DEF ExecFunc
<1>5. CASE SendReply(m)
  <2>1. m.code \in Codes
    BY DEF Message
  <2>2. net' \subseteq Message
    BY <1>5, <2>1, MoveFacts DEF SendReply, Places
  <2>3. QED BY <1>5, <2>2 DEF SendReply, Thread!Leave
<1>6. QED BY <1>1, <1>2, <1>3, <1>4, <1>5 DEF MessageStep

LEMMA ServerTypeStep ==
    ASSUME TypeOK, ServerStep
    PROVE  TypeOK'
BY DEF TypeOK, clientVars, conn, history, thread, Thread!ServiceTypeOK, ServerStep,
       BindFunc, StartProcess, StopProcessBegins, LastReceiveTimesOut, StopProcessEnds,
       ServerDies, Thread!Begin, Thread!Halt, Thread!Lapse, Thread!Finish, Thread!Phases

-----------------------------------------------------------------------------
(* The other parts of the invariant are preserved.                          *)

LEMMA SendRequestInv ==
    ASSUME IInv, NEW c \in Client, NEW f \in Func, SendRequest(c, f)
    PROVE  NetInv' /\ ApartInv' /\ ClientsInv' /\ HistoryInv'
<1> USE DEF TypeOK, history, conn
<1> PICK r : r = NewRequest(c, requester[c], calls[c] + 1, f)
    OBVIOUS
<1>0. TypeOK /\ NetInv /\ ApartInv /\ ClientsInv /\ HistoryInv
  BY DEF IInv
<1>1. /\ Call = 1 .. MaxCalls /\ MaxCalls \in Nat
      /\ calls[c] + 1 \in Call
  BY <1>0, BoundsAssumption DEF Call, Remote!Call, SendRequest
<1>2. /\ r.client = c /\ r.sock = requester[c] /\ r.call = calls[c] + 1
      /\ r.func = f /\ r.at = "out" /\ r.code = "none"
  BY DEF NewRequest
<1>3. \A m \in net : m.client = c => m.sock # requester[c] /\ m.call <= calls[c]
  BY <1>0 DEF NetInv, MessageInv, SendRequest
<1>4. net' = net \cup {r}
  BY DEF SendRequest
<1>5. ApartInv'
  <2>1. ASSUME NEW m \in net, m.client = c
        PROVE  m.sock # r.sock /\ m.call # r.call
    <3>1. m.call \in Nat /\ calls[c] \in Nat
      BY <1>0, <1>1, <2>1 DEF Message
    <3>2. m.sock # requester[c] /\ m.call <= calls[c]
      BY <1>3, <2>1
    <3>3. m.call # calls[c] + 1
      BY <3>1, <3>2
    <3>4. QED BY <1>2, <3>2, <3>3
  <2>2. \A m \in net : Apart(m, r) /\ Apart(r, m)
    BY <1>2, <2>1 DEF Apart
  <2>3. Apart(r, r) /\ \A m, n \in net : Apart(m, n)
    BY <1>0 DEF ApartInv, Apart
  <2>4. \A m, n \in net \cup {r} : Apart(m, n)
    BY <2>2, <2>3
  <2>5. QED BY <1>4, <2>4 DEF ApartInv, Apart
<1>6. ASSUME NEW m \in net PROVE MessageInv(m)'
  <2>0. MessageInv(m) /\ m \in Message
    BY <1>0 DEF NetInv
  <2>1. MessageInv(m) /\ m.client \in Client /\ m.sock \in Nat /\ m.call \in Nat
    BY <1>1, <2>0 DEF Message
  <2>2. CASE m.client = c
    BY <1>0, <1>3, <2>1, <2>2 DEF MessageInv, SendRequest
  <2>3. CASE m.client # c
    BY <1>0, <2>1, <2>3 DEF MessageInv, SendRequest
  <2>4. QED BY <2>2, <2>3
<1>7. MessageInv(r)'
  <2>1. ClientInv(c) /\ CallInv(c, calls[c] + 1)
    BY <1>0, <1>1 DEF ClientsInv, HistoryInv
  <2>2. /\ calls'[c] = calls[c] + 1 /\ name'[c] = f /\ receiving'[c]
        /\ UNCHANGED <<sockets, requester, execs, outcome>>
    BY <1>0 DEF SendRequest
  <2>3. QED BY <1>0, <1>1, <1>2, <2>1, <2>2 DEF MessageInv, ClientInv, CallInv, SendRequest,
              Remote!Undecided
<1>8. NetInv'
  BY <1>4, <1>6, <1>7 DEF NetInv
<1>9. ClientsInv'
  <2>1. ASSUME NEW d \in Client PROVE ClientInv(d)'
    <3>1. ClientInv(d) /\ CallInv(c, calls[c] + 1)
      BY <1>0, <1>1 DEF ClientsInv, HistoryInv
    <3>2. QED BY <1>0, <1>1, <3>1 DEF ClientInv, CallInv, SendRequest
  <2>2. QED BY <2>1 DEF ClientsInv
<1>10. HistoryInv'
  BY <1>0, <1>1 DEF HistoryInv, CallInv, SendRequest
<1>11. QED BY <1>5, <1>8, <1>9, <1>10

(* Steps that only take messages away from the network.                     *)
LEMMA RemoveFrame ==
    ASSUME IInv, net' \subseteq net, UNCHANGED <<clientVars, execs>>
    PROVE  NetInv' /\ ApartInv' /\ ClientsInv' /\ HistoryInv'
<1> USE DEF IInv, clientVars, conn, history
<1>1. NetInv'
  BY DEF NetInv, MessageInv
<1>2. ApartInv'
  BY DEF ApartInv, Apart
<1>3. ClientsInv'
  BY DEF ClientsInv, ClientInv
<1>4. HistoryInv'
  BY DEF HistoryInv, CallInv
<1>5. QED BY <1>1, <1>2, <1>3, <1>4

(* Steps that move one message and leave its verdict as it is.              *)
LEMMA MoveFrame ==
    ASSUME IInv, NEW m \in net, NEW place \in Places, NEW code \in Codes,
           Move(m, place, code), UNCHANGED <<clientVars, execs>>,
           place # "out", place = "in" => code = "none", place = "reply" => code # "none",
           code = m.code
    PROVE  NetInv' /\ ApartInv' /\ ClientsInv' /\ HistoryInv'
<1> USE DEF clientVars, conn, history
<1>0. TypeOK /\ NetInv /\ ApartInv /\ ClientsInv /\ HistoryInv
  BY DEF IInv
<1>1. PICK n \in Message :
        /\ net' = (net \ {m}) \cup {n}
        /\ n.client = m.client /\ n.sock = m.sock
        /\ n.call = m.call /\ n.func = m.func
        /\ n.at = place /\ n.code = code
  BY <1>0, MoveFacts DEF TypeOK
<1>2. MessageInv(n)'
  <2>1. MessageInv(m)
    BY <1>0 DEF NetInv
  <2>2. QED BY <1>1, <2>1 DEF MessageInv
<1>3. NetInv'
  <2>1. ASSUME NEW o \in net PROVE MessageInv(o)'
    BY <1>0 DEF NetInv, MessageInv
  <2>2. QED BY <1>1, <1>2, <2>1 DEF NetInv
<1>4. ApartInv'
  BY <1>0, <1>1 DEF ApartInv, Apart
<1>5. ClientsInv' /\ HistoryInv'
  BY <1>0 DEF ClientsInv, ClientInv, HistoryInv, CallInv
<1>6. QED BY <1>3, <1>4, <1>5

LEMMA ExecFuncInv ==
    ASSUME IInv, NEW m \in net, ExecFunc(m)
    PROVE  NetInv' /\ ApartInv' /\ ClientsInv' /\ HistoryInv'
<1> USE DEF clientVars, conn, history
<1>0. TypeOK /\ NetInv /\ ApartInv /\ ClientsInv /\ HistoryInv
  BY DEF IInv
<1> DEFINE code == ReturnCode(m.func)
<1>1. /\ MessageInv(m) /\ m.code = "none" /\ m.at = "exec"
      /\ m.client \in Client /\ m.call \in Call
      /\ code \in {"Success", "FunctionNotFound"}
  BY <1>0 DEF NetInv, TypeOK, Message, ExecFunc, ReturnCode
<1>2. PICK n \in Message :
        /\ net' = (net \ {m}) \cup {n}
        /\ n.client = m.client /\ n.sock = m.sock
        /\ n.call = m.call /\ n.func = m.func
        /\ n.at = "exec" /\ n.code = code
  <2>1. Move(m, "exec", code) /\ code \in Codes /\ "exec" \in Places
    BY <1>1 DEF ExecFunc, Codes, Places
  <2>2. QED BY <1>0, <2>1, MoveFacts DEF TypeOK
<1>3. /\ execs'[m.client][m.call] = IF code = "Success" THEN 1 ELSE 0
      /\ \A d \in Client, k \in Call :
            d # m.client \/ k # m.call => execs'[d][k] = execs[d][k]
  BY <1>0, <1>1 DEF ExecFunc, ReturnCode, MessageInv, TypeOK
<1>4. MessageInv(n)'
  BY <1>1, <1>2, <1>3 DEF MessageInv, ExecFunc
<1>5. NetInv'
  <2>1. ASSUME NEW o \in net, o # m PROVE MessageInv(o)'
    <3>1. o.client # m.client \/ o.call # m.call
      BY <1>0, <2>1 DEF ApartInv, Apart
    <3>2. o.client \in Client /\ o.call \in Call
      BY <1>0 DEF TypeOK, Message
    <3>3. execs'[o.client][o.call] = execs[o.client][o.call]
      BY <1>3, <3>1, <3>2
    <3>4. QED BY <1>0, <3>3 DEF NetInv, MessageInv, ExecFunc
  <2>2. QED BY <1>2, <1>4, <2>1 DEF NetInv
<1>6. ApartInv'
  BY <1>0, <1>2 DEF ApartInv, Apart
<1>7. ClientsInv'
  BY <1>0 DEF ClientsInv, ClientInv, ExecFunc
<1>8. HistoryInv'
  <2>1. ASSUME NEW d \in Client, NEW k \in Call PROVE CallInv(d, k)'
    <3>1. CallInv(d, k)
      BY <1>0 DEF HistoryInv
    <3>2. CASE d = m.client /\ k = m.call
      BY <1>0, <1>1, <1>3, <3>1, <3>2 DEF CallInv, MessageInv, ExecFunc, Remote!Undecided,
         TypeOK, Call, Remote!Call
    <3>3. CASE ~(d = m.client /\ k = m.call)
      BY <1>3, <3>1, <3>3 DEF CallInv, ExecFunc
    <3>4. QED BY <3>2, <3>3
  <2>2. QED BY <2>1 DEF HistoryInv
<1>9. QED BY <1>5, <1>6, <1>7, <1>8

(* Steps of a client outside a call: the sockets change, the history not.   *)
LEMMA ConnectionInv ==
    ASSUME IInv, NEW c \in Client,
           \/ ConnectNetwork(c) \/ DisconnectNetwork(c) \/ ProcessEnds(c)
           \/ \E enable \in BOOLEAN : SetAutoReconnectNetwork(c, enable)
    PROVE  NetInv' /\ ApartInv' /\ ClientsInv' /\ HistoryInv'
<1> USE DEF history, conn
<1>0. TypeOK /\ NetInv /\ ApartInv /\ ClientsInv /\ HistoryInv
  BY DEF IInv
<1>1. /\ net' \subseteq net
      /\ UNCHANGED <<name, calls, outcome, execs>>
      /\ pc' = [pc EXCEPT ![c] = "idle"]
  BY <1>0, AfterCloseFacts DEF TypeOK, ConnectNetwork, DisconnectNetwork, ProcessEnds, DropSocket,
     SetAutoReconnectNetwork
<1>2. ApartInv' /\ HistoryInv'
  BY <1>0, <1>1 DEF ApartInv, Apart, HistoryInv, CallInv
<1>3. CASE ConnectNetwork(c)
  <2>1. /\ requester' = [requester EXCEPT ![c] = sockets[c] + 1]
        /\ sockets' = [sockets EXCEPT ![c] = @ + 1]
        /\ receiving' = [receiving EXCEPT ![c] = FALSE]
        /\ net' = net /\ requester[c] = 0
    BY <1>3 DEF ConnectNetwork, NewSocket
  <2>2. ASSUME NEW m \in net PROVE MessageInv(m)'
    <3>1. MessageInv(m) /\ m.client \in Client /\ m.sock \in Nat
      BY <1>0 DEF NetInv, TypeOK, Message
    <3>2. CASE m.client = c
      BY <1>0, <1>1, <2>1, <3>1, <3>2 DEF MessageInv, TypeOK
    <3>3. CASE m.client # c
      BY <1>0, <1>1, <2>1, <3>1, <3>3 DEF MessageInv, TypeOK
    <3>4. QED BY <3>2, <3>3
  <2>3. ASSUME NEW d \in Client PROVE ClientInv(d)'
    BY <1>0, <1>1, <2>1 DEF ClientsInv, ClientInv, TypeOK
  <2>4. QED BY <1>2, <2>1, <2>2, <2>3 DEF NetInv, ClientsInv
<1>4. CASE DisconnectNetwork(c) \/ ProcessEnds(c)
  <2>1. /\ requester' = [requester EXCEPT ![c] = 0]
        /\ receiving' = [receiving EXCEPT ![c] = FALSE]
        /\ net' = AfterClose(c)
        /\ UNCHANGED sockets
    BY <1>4 DEF DisconnectNetwork, ProcessEnds, DropSocket
  <2>2. ASSUME NEW m \in net' PROVE MessageInv(m)'
    <3>1. /\ MessageInv(m) /\ m.client \in Client /\ m.sock \in Nat
          /\ m.client = c /\ m.at = "out" => m.sock # requester[c]
      BY <1>0, <1>1, <2>1, AfterCloseFacts DEF NetInv, TypeOK, Message
    <3>2. CASE m.client = c
      BY <1>0, <1>1, <2>1, <3>1, <3>2 DEF MessageInv, TypeOK
    <3>3. CASE m.client # c
      BY <1>0, <1>1, <2>1, <3>1, <3>3 DEF MessageInv, TypeOK
    <3>4. QED BY <3>2, <3>3
  <2>3. ASSUME NEW d \in Client PROVE ClientInv(d)'
    BY <1>0, <1>1, <2>1 DEF ClientsInv, ClientInv, TypeOK
  <2>4. QED BY <1>2, <2>2, <2>3 DEF NetInv, ClientsInv
<1>5. CASE \E enable \in BOOLEAN : SetAutoReconnectNetwork(c, enable)
  BY <1>0, <1>1, <1>2, <1>5 DEF SetAutoReconnectNetwork, NetInv, MessageInv, ClientsInv, ClientInv
<1>6. QED BY <1>3, <1>4, <1>5

(* Steps that end a call, or refuse it, record its result: it is the result *)
(* of a call no message under way belongs to, or it stays undecided.        *)
LEMMA SendThrowsInv ==
    ASSUME IInv, NEW c \in Client, SendThrows(c)
    PROVE  NetInv' /\ ApartInv' /\ ClientsInv' /\ HistoryInv'
<1> USE DEF history, conn
<1>0. TypeOK /\ NetInv /\ ApartInv /\ ClientsInv /\ HistoryInv
  BY DEF IInv
<1>1. /\ Call = 1 .. MaxCalls /\ MaxCalls \in Nat /\ calls[c] + 1 \in Call
      /\ calls' = [calls EXCEPT ![c] = @ + 1]
      /\ pc[c] = "idle"
      /\ UNCHANGED <<pc, requester, sockets, receiving, name, net, execs>>
  BY <1>0, BoundsAssumption DEF Call, Remote!Call, SendThrows, TypeOK
<1>2. /\ outcome'[c][calls[c] + 1].error = "SendThrew"
      /\ \A d \in Client, k \in Call :
            d # c \/ k # calls[c] + 1 => outcome'[d][k] = outcome[d][k]
  BY <1>0, <1>1 DEF TypeOK, SendThrows, Remote!Return
<1>3. ASSUME NEW m \in net PROVE MessageInv(m)'
  <2>0. MessageInv(m) /\ m \in Message
    BY <1>0 DEF NetInv, TypeOK
  <2>1. MessageInv(m) /\ m.client \in Client /\ m.call \in Call /\ m.call \in Nat
    BY <1>1, <2>0 DEF Message
  <2>2. outcome'[m.client][m.call] = outcome[m.client][m.call]
    <3>1. m.client # c \/ m.call # calls[c] + 1
      BY <1>0, <2>1 DEF MessageInv, TypeOK
    <3>2. QED BY <1>2, <2>1, <3>1
  <2>3. CASE m.client = c
    BY <1>0, <1>1, <2>1, <2>2, <2>3 DEF MessageInv, ClientsInv, ClientInv, TypeOK
  <2>4. CASE m.client # c
    BY <1>0, <1>1, <2>1, <2>2, <2>4 DEF MessageInv, TypeOK
  <2>5. QED BY <2>3, <2>4
<1>4. NetInv' /\ ApartInv'
  BY <1>0, <1>1, <1>3 DEF NetInv, ApartInv, Apart
<1>5. ASSUME NEW d \in Client PROVE ClientInv(d)'
  <2>1. ClientInv(d) /\ calls[d] \in Nat
    BY <1>0 DEF ClientsInv, TypeOK
  <2>2. CASE d = c
    BY <1>0, <1>1, <2>1, <2>2 DEF ClientInv, TypeOK
  <2>3. CASE d # c
    BY <1>0, <1>1, <1>2, <2>1, <2>3 DEF ClientInv, TypeOK
  <2>4. QED BY <2>2, <2>3
<1>6. ASSUME NEW d \in Client, NEW k \in Call PROVE CallInv(d, k)'
  <2>1. CallInv(d, k) /\ CallInv(c, calls[c] + 1) /\ calls[c] \in Nat
    BY <1>0, <1>1 DEF HistoryInv, TypeOK
  <2>2. CASE d = c /\ k = calls[c] + 1
    <3>1. execs'[d][k] = 0 /\ calls'[d] = k
      BY <1>0, <1>1, <2>1, <2>2 DEF CallInv, TypeOK
    <3>2. QED BY <1>2, <2>1, <2>2, <3>1 DEF CallInv
  <2>3. CASE ~(d = c /\ k = calls[c] + 1)
    <3>1. outcome'[d][k] = outcome[d][k] /\ execs'[d][k] = execs[d][k]
      BY <1>1, <1>2, <2>3
    <3>2. k > calls'[d] => k > calls[d]
      BY <1>0, <1>1, <2>1 DEF TypeOK
    <3>3. QED BY <2>1, <3>1, <3>2 DEF CallInv
  <2>4. QED BY <2>2, <2>3
<1>7. QED BY <1>4, <1>5, <1>6 DEF ClientsInv, HistoryInv

(* A call that ends by timeout or exception leaves its outcome undecided.   *)
LEMMA UndecidedInv ==
    ASSUME IInv, NEW c \in Client, ReceiveTimeout(c) \/ ReceiveThrows(c)
    PROVE  NetInv' /\ ApartInv' /\ ClientsInv' /\ HistoryInv'
<1> USE DEF history, conn
<1>0. TypeOK /\ NetInv /\ ApartInv /\ ClientsInv /\ HistoryInv
  BY DEF IInv
<1>1. /\ pc[c] = "recv" /\ pc' = [pc EXCEPT ![c] = "idle"]
      /\ UNCHANGED <<calls, execs, name>>
      /\ Call = 1 .. MaxCalls /\ MaxCalls \in Nat /\ calls[c] \in Call
  BY <1>0, BoundsAssumption DEF ReceiveTimeout, ReceiveThrows, ClientsInv, ClientInv, TypeOK,
     Call, Remote!Call
<1>2. PICK e \in {"NetworkTimeout", "ReceiveThrew"} :
        outcome' = [outcome EXCEPT ![c][calls[c]] = Remote!Return(e, 0)]
  BY DEF ReceiveTimeout, ReceiveThrows
<1>3. /\ outcome'[c][calls[c]].error = e
      /\ \A d \in Client, k \in Call :
            d # c \/ k # calls[c] => outcome'[d][k] = outcome[d][k]
  BY <1>0, <1>1, <1>2 DEF TypeOK, Remote!Return
<1>4. ASSUME NEW m \in net
      PROVE  outcome'[m.client][m.call].error \in Remote!Undecided
  <2>1. m.client \in Client /\ m.call \in Call /\ MessageInv(m)
    BY <1>0 DEF TypeOK, Message, NetInv
  <2>2. QED BY <1>3, <2>1 DEF MessageInv, Remote!Undecided
<1>5. HistoryInv'
  <2>1. ASSUME NEW d \in Client, NEW k \in Call PROVE CallInv(d, k)'
    <3>1. CallInv(d, k) /\ calls[c] \in Nat
      BY <1>0, <1>1 DEF HistoryInv, TypeOK
    <3>2. CASE d = c /\ k = calls[c]
      BY <1>1, <1>3, <3>1, <3>2 DEF CallInv
    <3>3. CASE ~(d = c /\ k = calls[c])
      BY <1>1, <1>3, <3>1, <3>3 DEF CallInv
    <3>4. QED BY <3>2, <3>3
  <2>2. QED BY <2>1 DEF HistoryInv
<1>6. CASE UNCHANGED <<net, conn>>
  <2>1. ASSUME NEW m \in net PROVE MessageInv(m)'
    BY <1>0, <1>1, <1>4, <1>6 DEF NetInv, MessageInv, TypeOK, Message
  <2>2. ASSUME NEW d \in Client PROVE ClientInv(d)'
    <3>1. ClientInv(d)
      BY <1>0 DEF ClientsInv
    <3>2. CASE d = c
      BY <1>0, <1>1, <1>6, <3>1, <3>2 DEF ClientInv, TypeOK
    <3>3. CASE d # c
      BY <1>0, <1>1, <1>6, <1>2, <3>1, <3>3 DEF ClientInv, TypeOK
    <3>4. QED BY <3>2, <3>3
  <2>3. QED BY <1>0, <1>5, <1>6, <2>1, <2>2 DEF NetInv, ApartInv, Apart, ClientsInv
<1>7. CASE net' = AfterClose(c) /\ NewSocket(c)
  <2>1. /\ requester' = [requester EXCEPT ![c] = sockets[c] + 1]
        /\ sockets' = [sockets EXCEPT ![c] = @ + 1]
        /\ receiving' = [receiving EXCEPT ![c] = FALSE]
        /\ net' \subseteq net
        /\ \A m \in net' : m.client = c /\ m.at = "out" => m.sock # requester[c]
    BY <1>7, AfterCloseFacts DEF NewSocket
  <2>2. ASSUME NEW m \in net' PROVE MessageInv(m)'
    <3>1. /\ MessageInv(m) /\ m.client \in Client /\ m.sock \in Nat
          /\ m.client = c /\ m.at = "out" => m.sock # requester[c]
      BY <1>0, <2>1 DEF NetInv, TypeOK, Message
    <3>2. outcome'[m.client][m.call].error \in Remote!Undecided
      BY <1>4, <2>1
    <3>3. CASE m.client = c
      BY <1>0, <1>1, <2>1, <3>1, <3>2, <3>3 DEF MessageInv, TypeOK
    <3>4. CASE m.client # c
      BY <1>0, <1>1, <2>1, <3>1, <3>2, <3>4 DEF MessageInv, TypeOK
    <3>5. QED BY <3>3, <3>4
  <2>3. ASSUME NEW d \in Client PROVE ClientInv(d)'
    <3>1. ClientInv(d)
      BY <1>0 DEF ClientsInv
    <3>2. CASE d = c
      BY <1>0, <1>1, <2>1, <3>1, <3>2 DEF ClientInv, TypeOK
    <3>3. CASE d # c
      BY <1>0, <1>1, <1>2, <2>1, <3>1, <3>3 DEF ClientInv, TypeOK
    <3>4. QED BY <3>2, <3>3
  <2>4. ApartInv'
    BY <1>0, <2>1 DEF ApartInv, Apart
  <2>5. QED BY <1>5, <2>2, <2>3, <2>4 DEF NetInv, ClientsInv
<1>8. QED BY <1>6, <1>7 DEF ReceiveTimeout, ReceiveThrows, Reconnect

(* CallFunc's verdict on a reply is right: the reply is to this very call.  *)
LEMMA ReplyIsForCall ==
    ASSUME IInv, NEW c \in Client, pc[c] = "recv", NEW m \in net,
           m.client = c, m.sock = requester[c], m.at = "reply"
    PROVE  /\ m.call = calls[c] /\ calls[c] \in Call
           /\ \/ /\ m.code = "Success"
                 /\ execs[c][calls[c]] = 1
                 /\ Verdict(c, m) = Remote!Return("Success", calls[c])
              \/ /\ execs[c][calls[c]] = 0
                 /\ Verdict(c, m) = Remote!Return("FunctionNotFound", 0)
<1>1. MessageInv(m) /\ m.call \in Call
  BY DEF IInv, NetInv, TypeOK, Message
<1>2. m.call = calls[c] /\ m.func = name[c]
  BY <1>1 DEF MessageInv
<1>3. execs[c][calls[c]] = IF m.code = "Success" THEN 1 ELSE 0
  BY <1>1, <1>2 DEF MessageInv
<1>4. QED BY <1>1, <1>2, <1>3 DEF Verdict

LEMMA ReceiveReplyInv ==
    ASSUME IInv, NEW c \in Client, ReceiveReply(c)
    PROVE  NetInv' /\ ApartInv' /\ ClientsInv' /\ HistoryInv'
<1> USE DEF history, conn
<1>0. TypeOK /\ NetInv /\ ApartInv /\ ClientsInv /\ HistoryInv
  BY DEF IInv
<1>1. /\ pc[c] = "recv" /\ pc' = [pc EXCEPT ![c] = "idle"]
      /\ receiving' = [receiving EXCEPT ![c] = FALSE]
      /\ UNCHANGED <<requester, sockets, name, calls, execs>>
  BY DEF ReceiveReply
<1>2. PICK m \in net :
        /\ m.client = c /\ m.sock = requester[c] /\ m.at = "reply"
        /\ net' = net \ {m}
        /\ outcome' = [outcome EXCEPT ![c][calls[c]] = Verdict(c, m)]
  BY DEF ReceiveReply
<1>3. /\ m.call = calls[c] /\ calls[c] \in Call
      /\ \/ execs[c][calls[c]] = 1 /\ Verdict(c, m) = Remote!Return("Success", calls[c])
         \/ execs[c][calls[c]] = 0 /\ Verdict(c, m) = Remote!Return("FunctionNotFound", 0)
  BY <1>1, <1>2, ReplyIsForCall
<1>4. /\ outcome'[c][calls[c]] = Verdict(c, m)
      /\ \A d \in Client, k \in Call :
            d # c \/ k # calls[c] => outcome'[d][k] = outcome[d][k]
  BY <1>0, <1>2, <1>3 DEF TypeOK
<1>5. ASSUME NEW n \in net' PROVE MessageInv(n)'
  <2>1. n \in net /\ n # m /\ MessageInv(n) /\ n.client \in Client /\ n.call \in Call
    BY <1>0, <1>2 DEF NetInv, TypeOK, Message
  <2>2. n.client # c \/ (n.sock # requester[c] /\ n.call # calls[c])
    BY <1>0, <1>2, <1>3, <2>1 DEF ApartInv, Apart
  <2>3. outcome'[n.client][n.call] = outcome[n.client][n.call]
    BY <1>4, <2>1, <2>2
  <2>4. CASE n.client = c
    BY <1>0, <1>1, <2>1, <2>2, <2>3, <2>4 DEF MessageInv, TypeOK
  <2>5. CASE n.client # c
    BY <1>0, <1>1, <2>1, <2>3, <2>5 DEF MessageInv, TypeOK
  <2>6. QED BY <2>4, <2>5
<1>6. NetInv' /\ ApartInv'
  BY <1>0, <1>2, <1>5 DEF NetInv, ApartInv, Apart
<1>7. ASSUME NEW d \in Client PROVE ClientInv(d)'
  <2>1. ClientInv(d)
    BY <1>0 DEF ClientsInv
  <2>2. CASE d = c
    BY <1>0, <1>1, <2>1, <2>2 DEF ClientInv, TypeOK
  <2>3. CASE d # c
    BY <1>0, <1>1, <1>2, <2>1, <2>3 DEF ClientInv, TypeOK
  <2>4. QED BY <2>2, <2>3
<1>8. ASSUME NEW d \in Client, NEW k \in Call PROVE CallInv(d, k)'
  <2>1. CallInv(d, k)
    BY <1>0 DEF HistoryInv
  <2>2. CASE d = c /\ k = calls[c]
    <3>1. calls[c] \in Nat
      BY <1>0 DEF TypeOK
    <3>2. QED BY <1>1, <1>3, <1>4, <2>1, <2>2, <3>1 DEF CallInv, Remote!Return
  <2>3. CASE ~(d = c /\ k = calls[c])
    BY <1>1, <1>4, <2>1, <2>3 DEF CallInv
  <2>4. QED BY <2>2, <2>3
<1>9. QED BY <1>6, <1>7, <1>8 DEF ClientsInv, HistoryInv

-----------------------------------------------------------------------------
(* The invariant is inductive.                                              *)

LEMMA StepInv == IInv /\ [Next]_vars => IInv'
<1> SUFFICES ASSUME IInv, [Next]_vars PROVE IInv'
    OBVIOUS
<1>1. ASSUME NEW c \in Client, ClientStep(c) PROVE IInv'
  <2>1. TypeOK'
    BY <1>1, ClientTypeStep DEF IInv
  <2>2. NetInv' /\ ApartInv' /\ ClientsInv' /\ HistoryInv'
    BY <1>1, ConnectionInv, SendRequestInv, SendThrowsInv, UndecidedInv, ReceiveReplyInv
       DEF ClientStep
  <2>3. QED BY <2>1, <2>2 DEF IInv
<1>2. ASSUME NEW m \in net, MessageStep(m) PROVE IInv'
  <2>1. TypeOK' /\ MessageInv(m) /\ m.code \in Codes
    BY <1>2, MessageTypeStep DEF IInv, NetInv, TypeOK, Message
  <2>2. CASE Deliver(m) \/ TakeRequest(m) \/ SendReply(m)
    <3>1. m.at \in {"out", "in"} => m.code = "none"
      BY <2>1 DEF MessageInv
    <3>2. UNCHANGED <<clientVars, execs>>
      BY <2>2 DEF Deliver, TakeRequest, SendReply
    <3>3. Deliver(m) \/ TakeRequest(m) => NetInv' /\ ApartInv' /\ ClientsInv' /\ HistoryInv'
      BY <3>1, <3>2, MoveFrame DEF Deliver, TakeRequest, Places, Codes
    <3>4. SendReply(m) => NetInv' /\ ApartInv' /\ ClientsInv' /\ HistoryInv'
      BY <2>1, <3>2, MoveFrame DEF SendReply, Places
    <3>5. QED BY <2>1, <2>2, <3>3, <3>4 DEF IInv
  <2>3. CASE Lose(m)
    <3>1. net' \subseteq net /\ UNCHANGED <<clientVars, execs>>
      BY <2>3 DEF Lose
    <3>2. QED BY <2>1, <3>1, RemoveFrame DEF IInv
  <2>4. CASE ExecFunc(m)
    BY <2>1, <2>4, ExecFuncInv DEF IInv
  <2>5. QED BY <1>2, <2>2, <2>3, <2>4 DEF MessageStep
<1>3. CASE ServerStep
  <2>1. net' \subseteq net /\ UNCHANGED <<clientVars, execs>>
    BY <1>3 DEF ServerStep, BindFunc, StartProcess, StopProcessBegins, LastReceiveTimesOut,
       StopProcessEnds, ServerDies
  <2>2. QED BY <1>3, <2>1, ServerTypeStep, RemoveFrame DEF IInv
<1>4. CASE UNCHANGED vars
  <2>1. net' \subseteq net /\ UNCHANGED <<clientVars, execs>>
    BY <1>4 DEF vars
  <2>2. TypeOK'
    BY <1>4 DEF IInv, TypeOK, vars, clientVars, conn, history, thread, Thread!ServiceTypeOK
  <2>3. QED BY <2>1, <2>2, RemoveFrame DEF IInv
<1>5. QED BY <1>1, <1>2, <1>3, <1>4 DEF Next

LEMMA Invariance == Spec => []IInv
BY InitInv, StepInv, PTL DEF Spec

-----------------------------------------------------------------------------
(* Every variable keeps its range.                                          *)
THEOREM TypeCorrect == Spec => []TypeOK
<1>1. IInv => TypeOK
  BY DEF IInv
<1>2. QED BY <1>1, Invariance, PTL

(* A function runs at most once per CallFunc, for any losses and restarts.  *)
THEOREM ExecutedAtMostOnce == Spec => []AtMostOnce
<1>1. IInv => AtMostOnce
  BY DEF IInv, HistoryInv, CallInv, AtMostOnce
<1>2. QED BY <1>1, Invariance, PTL

(* Success is returned only with the result of this call's own execution.   *)
THEOREM SuccessSound == Spec => []SuccessMeansExecuted
<1>1. IInv => SuccessMeansExecuted
  BY DEF IInv, HistoryInv, CallInv, SuccessMeansExecuted
<1>2. QED BY <1>1, Invariance, PTL

(* A refused call never runs.                                               *)
THEOREM RefusalSound == Spec => []RefusedMeansNotExecuted
<1>1. IInv => RefusedMeansNotExecuted
  BY DEF IInv, HistoryInv, CallInv, RefusedMeansNotExecuted
<1>2. QED BY <1>1, Invariance, PTL

(* CallFunc never returns FunctionNameMismatch.                             *)
THEOREM NoMismatch == Spec => []NeverMismatched
<1>1. IInv => NeverMismatched
  BY DEF IInv, HistoryInv, CallInv, NeverMismatched
<1>2. QED BY <1>1, Invariance, PTL

(* The client's own buffer holds the request of its current socket only.    *)
THEOREM BufferCurrent == Spec => []ClientBufferCurrent
<1>1. IInv => ClientBufferCurrent
  BY DEF IInv, NetInv, MessageInv, ClientBufferCurrent
<1>2. QED BY <1>1, Invariance, PTL
-----------------------------------------------------------------------------
(* The system implements RemoteCall: each step is one of its steps, or none. *)

Open == {c \in Client : pc[c] = "recv"}

(* A client leaves or enters CallFunc by one assignment to its pc.          *)
LEMMA OpenFacts ==
    ASSUME TypeOK, NEW c \in Client
    PROVE  /\ c \in Open <=> pc[c] = "recv"
           /\ pc' = [pc EXCEPT ![c] = "recv"] => Open' = Open \cup {c}
           /\ pc' = [pc EXCEPT ![c] = "idle"] => Open' = Open \ {c}
BY DEF TypeOK, Open

LEMMA ClientRefines ==
    ASSUME IInv, NEW c \in Client, ClientStep(c)
    PROVE  Remote!CallNext \/ UNCHANGED Remote!callVars
<1> USE DEF conn, history, thread, Remote!callVars, Open
<1>0. /\ TypeOK /\ ClientInv(c)
      /\ Call = 1 .. MaxCalls /\ MaxCalls \in Nat /\ calls[c] \in Nat
  BY BoundsAssumption DEF IInv, ClientsInv, TypeOK, Call, Remote!Call
<1>1. CASE \/ ConnectNetwork(c) \/ DisconnectNetwork(c)
           \/ \E enable \in BOOLEAN : SetAutoReconnectNetwork(c, enable)
  BY <1>1 DEF ConnectNetwork, DisconnectNetwork, SetAutoReconnectNetwork
<1>2. CASE ProcessEnds(c)
  <2>1. pc' = [pc EXCEPT ![c] = "idle"] /\ UNCHANGED <<calls, execs, outcome>>
    BY <1>2 DEF ProcessEnds
  <2>2. CASE pc[c] = "recv"
    <3>1. Remote!Abandon(c)
      BY <1>0, <2>1, <2>2, OpenFacts DEF Remote!Abandon
    <3>2. QED BY <3>1 DEF Remote!CallNext
  <2>3. CASE pc[c] # "recv"
    <3>1. Open' = Open
      BY <1>0, <2>1, <2>3, OpenFacts
    <3>2. QED BY <2>1, <3>1
  <2>4. QED BY <2>2, <2>3
<1>3. ASSUME NEW f \in Func, SendRequest(c, f)
      PROVE  Remote!CallNext
  <2>1. Remote!Invoke(c)
    BY <1>0, <1>3, OpenFacts DEF Remote!Invoke, SendRequest
  <2>2. QED BY <2>1 DEF Remote!CallNext
<1>4. CASE SendThrows(c)
  <2>1. Remote!Refuse(c)
    BY <1>0, <1>4, OpenFacts DEF Remote!Refuse, SendThrows
  <2>2. QED BY <2>1 DEF Remote!CallNext
<1>5. CASE ReceiveReply(c)
  <2>1. PICK m \in net :
          /\ m.client = c /\ m.sock = requester[c] /\ m.at = "reply"
          /\ outcome' = [outcome EXCEPT ![c][calls[c]] = Verdict(c, m)]
    BY <1>5 DEF ReceiveReply
  <2>2. /\ pc[c] = "recv" /\ pc' = [pc EXCEPT ![c] = "idle"]
        /\ UNCHANGED <<calls, execs>>
    BY <1>5 DEF ReceiveReply
  <2>3. \/ execs[c][calls[c]] = 1 /\ Verdict(c, m) = Remote!Return("Success", calls[c])
        \/ execs[c][calls[c]] = 0 /\ Verdict(c, m) = Remote!Return("FunctionNotFound", 0)
    BY <2>1, <2>2, ReplyIsForCall
  <2>4. Remote!Complete(c)
    BY <1>0, <2>1, <2>2, <2>3, OpenFacts DEF Remote!Complete
  <2>5. QED BY <2>4 DEF Remote!CallNext
<1>6. CASE ReceiveTimeout(c) \/ ReceiveThrows(c)
  <2>1. /\ pc[c] = "recv" /\ pc' = [pc EXCEPT ![c] = "idle"]
        /\ UNCHANGED <<calls, execs>>
        /\ \E e \in {"NetworkTimeout", "ReceiveThrew"} :
             outcome' = [outcome EXCEPT ![c][calls[c]] = Remote!Return(e, 0)]
    BY <1>6 DEF ReceiveTimeout, ReceiveThrows
  <2>2. Remote!Complete(c)
    BY <1>0, <2>1, OpenFacts DEF Remote!Complete
  <2>3. QED BY <2>2 DEF Remote!CallNext
<1>7. QED BY <1>1, <1>2, <1>3, <1>4, <1>5, <1>6 DEF ClientStep

LEMMA MessageRefines ==
    ASSUME IInv, NEW m \in net, MessageStep(m)
    PROVE  Remote!CallNext \/ UNCHANGED Remote!callVars
<1> USE DEF clientVars, history, Remote!callVars
<1>1. CASE Deliver(m) \/ Lose(m) \/ TakeRequest(m) \/ SendReply(m)
  BY <1>1 DEF Deliver, Lose, TakeRequest, SendReply
<1>2. CASE ExecFunc(m)
  <2>1. /\ m.client \in Client /\ m.call \in Call /\ MessageInv(m) /\ m.code = "none"
        /\ execs \in [Client -> [Call -> Nat]]
    BY <1>2 DEF IInv, NetInv, TypeOK, Message, ExecFunc
  <2>2. /\ execs[m.client][m.call] = 0 /\ m.call <= calls[m.client]
        /\ outcome[m.client][m.call].error \in Remote!Undecided
    BY <2>1 DEF MessageInv
  <2>3. UNCHANGED <<pc, calls, outcome>>
    BY <1>2 DEF ExecFunc
  <2>4. CASE m.func \in rpcs
    <3>1. execs' = [execs EXCEPT ![m.client][m.call] = 1]
      BY <1>2, <2>1, <2>2, <2>4 DEF ExecFunc
    <3>2. Remote!Execute(m.client, m.call)
      BY <2>2, <2>3, <3>1 DEF Remote!Execute
    <3>3. QED BY <2>1, <3>2 DEF Remote!CallNext, Call
  <2>5. CASE m.func \notin rpcs
    BY <1>2, <2>3, <2>5 DEF ExecFunc
  <2>6. QED BY <2>4, <2>5
<1>3. QED BY <1>1, <1>2 DEF MessageStep

(* For any clients, functions, bounds and faults, what a caller of CallFunc *)
(* sees of the system is the at-most-once remote call.                      *)
THEOREM RemoteCallRefinement == Spec => ImplementsRemoteCall
<1>1. Init => Remote!CallInit
  <2>1. Init => {c \in Client : pc[c] = "recv"} = {}
    BY DEF Init
  <2>2. QED BY <2>1 DEF Init, Remote!CallInit
<1>2. IInv /\ [Next]_vars => [Remote!CallNext]_(Remote!callVars)
  <2> SUFFICES ASSUME IInv, [Next]_vars
               PROVE  Remote!CallNext \/ UNCHANGED Remote!callVars
    OBVIOUS
  <2>1. CASE ServerStep
    BY <2>1 DEF ServerStep, BindFunc, StartProcess, StopProcessBegins, LastReceiveTimesOut,
       StopProcessEnds, ServerDies, clientVars, history, Remote!callVars
  <2>2. CASE UNCHANGED vars
    BY <2>2 DEF vars, clientVars, history, Remote!callVars
  <2>3. QED BY <2>1, <2>2, ClientRefines, MessageRefines DEF Next
<1>3. QED BY <1>1, <1>2, Invariance, PTL DEF Spec, ImplementsRemoteCall, Remote!CallSpec

(* A call that times out with autoReconnect on, or gets its reply, leaves a *)
(* socket that can send: the next CallFunc is not refused.                  *)
THEOREM AutoReconnectSound == Spec => AutoReconnectKeepsUsable
<1> DEFINE Usable(c) ==
      /\ pc[c] = "recv" /\ pc'[c] = "idle" /\ autoReconnect[c]
      /\ outcome'[c][calls[c]].error # "ReceiveThrew"
      => ~receiving'[c]
<1>1. IInv /\ [Next]_vars => [\A c \in Client : Usable(c)]_vars
  <2> SUFFICES ASSUME IInv, Next, NEW c \in Client, pc[c] = "recv", pc'[c] = "idle",
                      autoReconnect[c], outcome'[c][calls[c]].error # "ReceiveThrew"
               PROVE  ~receiving'[c]
    OBVIOUS
  <2>0. /\ pc \in [Client -> {"idle", "recv"}] /\ receiving \in [Client -> BOOLEAN]
        /\ outcome \in [Client -> [Call -> Result]] /\ calls[c] \in Call
    BY BoundsAssumption DEF IInv, TypeOK, ClientsInv, ClientInv, Call, Remote!Call
  <2>1. PICK d \in Client : ClientStep(d)
    <3>1. pc' # pc
      OBVIOUS
    <3>2. ASSUME NEW m \in net, MessageStep(m) PROVE FALSE
      BY <3>1, <3>2 DEF MessageStep, Deliver, Lose, TakeRequest, ExecFunc, SendReply, clientVars
    <3>3. CASE ServerStep
      BY <3>1, <3>3 DEF ServerStep, BindFunc, StartProcess, StopProcessBegins,
         LastReceiveTimesOut, StopProcessEnds, ServerDies, clientVars
    <3>4. QED BY <3>2, <3>3 DEF Next
  <2>2. ProcessEnds(d) \/ ReceiveReply(d) \/ ReceiveTimeout(d) \/ ReceiveThrows(d)
    BY <2>0, <2>1 DEF ClientStep, ConnectNetwork, DisconnectNetwork, SetAutoReconnectNetwork,
       SendRequest, SendThrows
  <2>3. d = c
    BY <2>0, <2>2 DEF ProcessEnds, ReceiveReply, ReceiveTimeout, ReceiveThrows
  <2>4. CASE ProcessEnds(c)
    BY <2>0, <2>4 DEF ProcessEnds, DropSocket
  <2>5. CASE ReceiveReply(c)
    BY <2>0, <2>5 DEF ReceiveReply
  <2>6. CASE ReceiveTimeout(c)
    BY <2>0, <2>6 DEF ReceiveTimeout, Reconnect, NewSocket
  <2>7. CASE ReceiveThrows(c)
    BY <2>0, <2>7 DEF ReceiveThrows, Remote!Return
  <2>8. QED BY <2>2, <2>3, <2>4, <2>5, <2>6, <2>7
<1>2. QED BY <1>1, Invariance, PTL DEF Spec, AutoReconnectKeepsUsable
==============================================================================
