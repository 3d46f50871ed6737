------------------------------ MODULE Responder ------------------------------
(***************************************************************************)
(* communicator::Responder, its thread, and the RpcProcessResponse that    *)
(* owns it.  The owner runs StartProcess and StopProcess, one statement    *)
(* per action; the worker is the thread StartResponse spawns.  They share  *)
(* the map `responds` (here `entry`, its one element), the flag in it and  *)
(* the REP socket.                                                         *)
(***************************************************************************)
EXTENDS Naturals, FiniteSets

CONSTANTS
    Request,      \* the requests clients may send, all different
    MaxQueue,     \* bound: requests waiting in the socket
    MaxStarts     \* bound: threads the owner starts in a behaviour

ASSUME BoundsAssumption == MaxQueue \in Nat /\ MaxStarts \in Nat

VARIABLES
    owner,     \* where the owner is in StartProcess or StopProcess
    inst,      \* TRUE while RpcProcessResponse::responder is not null
    starts,    \* number of threads spawned so far
    entry,     \* the element respKey of Responder::responds
    flag,      \* the bool of that element, `exit` in the thread (TRUE: go on)
    worker,    \* where the thread is; "none" when there is no thread to join
    sending,   \* the REP socket's state: TRUE when a reply is owed
    port,      \* the address the REP socket binds
    inbox,     \* requests queued in the socket
    current,   \* the requests (at most one) the thread has taken
    executed,  \* history: requests whose handler has run
    answered   \* history: requests whose reply went to the socket

own    == <<owner, inst, starts>>
shared == <<entry, flag>>
work   == <<current, executed, answered>>
vars   == <<own, shared, worker, sending, port, inbox, work>>

Owner  == {"ready", "created", "spawned", "linking", "stopped", "joined", "reset"}
Live   == {"check", "recv", "exec", "send"}   \* the thread holds `exit`
Worker == Live \cup {"none", "spin", "done"}

\* One type invariant: the range of every variable of the thread and its owner.
TypeOK ==
    /\ owner \in Owner /\ inst \in BOOLEAN /\ starts \in Nat
    /\ entry \in {"absent", "linking", "present"} /\ flag \in BOOLEAN
    /\ worker \in Worker
    /\ sending \in BOOLEAN
    /\ port \in {"free", "bound", "closing"}
    /\ inbox \subseteq Request
    /\ current \subseteq Request
    /\ executed \subseteq Request
    /\ answered \subseteq Request

Init ==
    /\ owner = "ready" /\ inst = FALSE /\ starts = 0
    /\ entry = "absent" /\ flag = FALSE
    /\ worker = "none"
    /\ sending = FALSE /\ port = "free" /\ inbox = {}
    /\ current = {} /\ executed = {} /\ answered = {}

-----------------------------------------------------------------------------
(* Faulty variants of the actions below: each is a bug this code could have, *)
(* and breaks the property named with it.                                    *)

\* FlagOutlivesThread: WaitResponse detaches instead of joining.
FaultyWaitDetaches ==
    /\ owner = "stopped"
    /\ owner' = "joined"
    /\ UNCHANGED <<inst, starts, shared, worker, sending, port, inbox, work>>

\* SocketOutlivesThread: StopProcess destroys the instance without waiting.
FaultyStopSkipsWait ==
    /\ owner = "ready" /\ inst /\ entry = "present"
    /\ owner' = "reset" /\ flag' = FALSE
    /\ UNCHANGED <<inst, starts, entry, worker, sending, port, inbox, work>>

\* RepAlternates: the handler returns early and the loop goes on without a reply.
FaultyHandlerOmitsReply ==
    /\ worker = "exec"
    /\ executed' = executed \cup current
    /\ worker' \in {"check", "send"}
    /\ UNCHANGED <<own, shared, sending, port, inbox, current, answered>>

\* StopLeavesNoDebt: the flag is tested again between the handler and the send.
FaultyHandlerTestsFlag ==
    /\ worker = "exec"
    /\ executed' = executed \cup current
    /\ worker' = IF flag THEN "send" ELSE "done"
    /\ UNCHANGED <<own, shared, sending, port, inbox, current, answered>>

\* StartServes: the thread looks for the element once, before emplace is done.
FaultySpinLooksOnce ==
    /\ worker = "spin" /\ entry = "linking"
    /\ worker' = "check"
    /\ UNCHANGED <<own, shared, sending, port, inbox, work>>

\* ImplementsServiceThread: a stopping thread first empties the queue.
FaultyStopDrainsQueue ==
    /\ worker = "check"
    /\ worker' = IF flag \/ inbox # {} THEN "recv" ELSE "done"
    /\ UNCHANGED <<own, shared, sending, port, inbox, work>>

-----------------------------------------------------------------------------
(* The owner: StartProcess *)

\* CreateResponder binds the address; clients may queue requests from now on.
\* When the bind fails StartProcess returns false and nothing has changed.
CreateResponder ==
    /\ owner = "ready" /\ ~inst
    /\ starts < MaxStarts
    /\ port = "free"
    /\ owner' = "created" /\ inst' = TRUE
    /\ port' = "bound" /\ sending' = FALSE
    /\ UNCHANGED <<starts, shared, worker, inbox, work>>

\* StartResponse: the std::thread argument of emplace is built first, so the
\* thread runs before the map holds it.
SpawnThread ==
    /\ owner = "created" /\ entry = "absent"
    /\ owner' = "spawned" /\ starts' = starts + 1
    /\ worker' = "spin"
    /\ UNCHANGED <<inst, shared, sending, port, inbox, work>>

\* emplace in two steps, as the thread's unsynchronised find may see it.
LinkEntry ==
    /\ owner = "spawned"
    /\ owner' = "linking" /\ entry' = "linking" /\ flag' = TRUE
    /\ UNCHANGED <<inst, starts, worker, sending, port, inbox, work>>

FinishStart ==
    /\ owner = "linking"
    /\ owner' = "ready" /\ entry' = "present"
    /\ UNCHANGED <<inst, starts, flag, worker, sending, port, inbox, work>>

-----------------------------------------------------------------------------
(* The owner: StopProcess *)

StopResponse ==
    /\ owner = "ready" /\ inst /\ entry = "present"
    /\ owner' = "stopped" /\ flag' = FALSE
    /\ UNCHANGED <<inst, starts, entry, worker, sending, port, inbox, work>>

\* WaitResponse joins: it goes on only when the thread function has returned.
WaitResponse ==
    /\ owner = "stopped" /\ worker = "done"
    /\ owner' = "joined" /\ worker' = "none"
    /\ UNCHANGED <<inst, starts, shared, sending, port, inbox, work>>

ResetResponse ==
    /\ owner = "joined"
    /\ owner' = "reset" /\ entry' = "absent"
    /\ UNCHANGED <<inst, starts, flag, worker, sending, port, inbox, work>>

\* The Responder is deleted: its socket closes and takes the queue with it; the
\* context's reaper thread releases the address some time later.
DestroyInstance ==
    /\ owner = "reset"
    /\ owner' = "ready" /\ inst' = FALSE
    /\ inbox' = {} /\ port' = "closing"
    /\ UNCHANGED <<starts, shared, worker, sending, work>>

ReaperReleases ==
    /\ port = "closing"
    /\ port' = "free"
    /\ UNCHANGED <<own, shared, worker, sending, inbox, work>>

-----------------------------------------------------------------------------
(* The thread *)

\* The spin loop ends when find sees the element; while emplace runs, the data
\* race lets find see it or miss it.
SpinDone ==
    /\ worker = "spin" /\ entry \in {"linking", "present"}
    /\ worker' = "check"
    /\ UNCHANGED <<own, shared, sending, port, inbox, work>>

CheckFlag ==
    /\ worker = "check"
    /\ worker' = IF flag THEN "recv" ELSE "done"
    /\ UNCHANGED <<own, shared, sending, port, inbox, work>>

ReceiveRequest ==
    /\ worker = "recv"
    /\ \E r \in inbox : inbox' = inbox \ {r} /\ current' = {r}
    /\ sending' = TRUE
    /\ worker' = "exec"
    /\ UNCHANGED <<own, shared, port, executed, answered>>

\* recv returns after one second with an empty message: no handler, no reply.
ReceiveTimeout ==
    /\ worker = "recv"
    /\ worker' = "check"
    /\ UNCHANGED <<own, shared, sending, port, inbox, work>>

\* proc(request, respond), that is RpcProcessResponse::ExecFunc.
RunHandler ==
    /\ worker = "exec"
    /\ executed' = executed \cup current
    /\ worker' = "send"
    /\ UNCHANGED <<own, shared, sending, port, inbox, current, answered>>

SendReply ==
    /\ worker = "send"
    /\ answered' = answered \cup current /\ current' = {}
    /\ sending' = FALSE
    /\ worker' = "check"
    /\ UNCHANGED <<own, shared, port, inbox, executed>>

-----------------------------------------------------------------------------
(* The clients, and the specification *)

RequestArrives ==
    /\ port = "bound" /\ Cardinality(inbox) < MaxQueue
    /\ \E r \in Request \ (inbox \cup current \cup executed) : inbox' = inbox \cup {r}
    /\ UNCHANGED <<own, shared, worker, sending, port, work>>

StartProcess == CreateResponder \/ SpawnThread \/ LinkEntry \/ FinishStart
StopProcess  == StopResponse \/ WaitResponse \/ ResetResponse \/ DestroyInstance
WorkerStep   == \/ SpinDone \/ CheckFlag \/ ReceiveRequest \/ ReceiveTimeout
                \/ RunHandler \/ SendReply

Next == StartProcess \/ StopProcess \/ ReaperReleases \/ WorkerStep \/ RequestArrives

\* The scheduler runs the thread, and the owner inside a call it has made; the
\* owner need not make another call and clients need not send.
Fairness ==
    /\ WF_vars(WorkerStep)
    /\ WF_vars(ReaperReleases)
    /\ WF_vars(SpawnThread \/ LinkEntry \/ FinishStart)
    /\ WF_vars(WaitResponse \/ ResetResponse \/ DestroyInstance)

Spec == Init /\ [][Next]_vars /\ Fairness

-----------------------------------------------------------------------------
(* Properties *)

\* The thread's reference `exit` points into the map element: the owner erases
\* the element (ResetResponse) only after the thread has returned.
FlagOutlivesThread == worker \in Live => entry # "absent"

\* The thread receives and sends on a socket that DestroyInstance has not
\* deleted: the owner deletes it only after the thread has returned.
SocketOutlivesThread == worker # "none" => inst /\ port = "bound"

\* The REP socket's own state machine: recv is called only when no reply is
\* owed and send only when one is; otherwise zmq throws and the thread, which
\* catches nothing, would terminate the process.
RepAlternates == /\ worker = "recv" => ~sending
                 /\ worker = "send" => sending

\* Once the thread is joined, every request whose handler ran has had its reply
\* handed to the socket: stopping loses queued requests, never an answer.
StopLeavesNoDebt == worker = "none" => executed = answered /\ current = {}

\* A started thread leaves its spin loop, also when it lost the race with emplace.
StartServes == (worker = "spin") ~> (worker = "recv" \/ ~flag)

\* The abstract service thread this one implements.
servicePhase ==
    CASE worker = "none"                        -> "idle"
      [] worker # "none" /\ owner # "stopped"   -> "running"
      [] worker = "recv" /\ owner = "stopped"   -> "halting"
      [] OTHER                                  -> "draining"

serviceBusy == worker \in {"exec", "send"}

Service == INSTANCE ServiceThread WITH phase <- servicePhase, busy <- serviceBusy

\* The handler runs only between a start and the end of the matching stop, at
\* most once after the stop was asked for, and a stop that was asked for ends.
ImplementsServiceThread == Service!ServiceSpec
==============================================================================
