------------------------------ MODULE Subscriber ------------------------------
(***************************************************************************)
(* communicator::Subscriber, its thread, and the part of RpcAsyncBroadcast *)
(* that owns it: the subscriber's share of Start and Stop, and procSubCb,  *)
(* which counts receive timeouts and reports them to a callback the owner  *)
(* may register and unregister at any time.  The owner and the thread      *)
(* share the map `subscribes` (here `entry`), the flag in it, the SUB      *)
(* socket and the std::function receiveTimeoutCountCallback.               *)
(***************************************************************************)
EXTENDS Naturals, Sequences

CONSTANTS
    Message,     \* the broadcasts (envelope and content), all different
    MaxQueue,    \* bound: broadcasts waiting in the socket
    MaxStarts,   \* bound: threads the owner starts in a behaviour
    MaxSilence   \* bound: receive timeouts in a row, except while stopping

ASSUME BoundsAssumption == MaxQueue \in Nat /\ MaxStarts \in Nat /\ MaxSilence \in Nat

VARIABLES
    owner,      \* where the owner is in Start or Stop
    inst,       \* TRUE while RpcAsyncBroadcast::subscriber is not null
    starts,     \* number of threads spawned so far
    callback,   \* TRUE while receiveTimeoutCountCallback is not empty
    entry,      \* the element subKey of Subscriber::subscribes
    flag,       \* the bool of that element, `exit` in the thread (TRUE: go on)
    worker,     \* where the thread is; "none" when there is no thread to join
    timeout,    \* TRUE when the socket's rcvtimeo is RpcTimeout, not infinite
    queue,      \* broadcasts queued in the socket
    current,    \* the broadcasts (at most one) the thread has taken
    counter,    \* receiveTimeoutCounter
    executed    \* history: broadcasts whose function has run

own  == <<owner, inst, starts, callback, timeout>>
shared == <<entry, flag>>
work == <<current, counter, executed>>
vars == <<own, shared, worker, queue, work>>

Owner  == {"ready", "created", "spawned", "linking", "stopped", "joined", "reset"}
Inside == {"process", "notify", "call"}   \* the thread runs process or callback
Live   == Inside \cup {"check", "recv"}   \* the thread holds `exit`

\* One type invariant: the range of every variable of the thread and its owner.
TypeOK ==
    /\ owner \in Owner /\ inst \in BOOLEAN /\ starts \in Nat
    /\ callback \in BOOLEAN /\ timeout \in BOOLEAN
    /\ entry \in {"absent", "linking", "present"} /\ flag \in BOOLEAN
    /\ worker \in Live \cup {"none", "spin", "done"}
    /\ queue \in Seq(Message)
    /\ current \subseteq Message /\ executed \subseteq Message
    /\ counter \in 0 .. MaxSilence + 1

Init ==
    /\ owner = "ready" /\ inst = FALSE /\ starts = 0
    /\ callback = FALSE /\ timeout = FALSE
    /\ entry = "absent" /\ flag = FALSE
    /\ worker = "none"
    /\ queue = <<>> /\ current = {} /\ executed = {} /\ counter = 0

-----------------------------------------------------------------------------
(* Faulty variants of the actions below: each is a bug this code could have, *)
(* and breaks the properties named with it.                                  *)

\* TypeOK: Start leaves the count of the previous run in the counter.
FaultyStartKeepsCount ==
    /\ owner = "ready" /\ ~inst
    /\ starts < MaxStarts
    /\ owner' = "created" /\ inst' = TRUE /\ timeout' = TRUE
    /\ UNCHANGED <<starts, callback, shared, worker, queue, work>>

\* SilenceIsCounted: Start forgets SetTimeout, so recv blocks.
FaultyStartSetsNoTimeout ==
    /\ owner = "ready" /\ ~inst
    /\ starts < MaxStarts
    /\ owner' = "created" /\ inst' = TRUE /\ timeout' = FALSE /\ counter' = 0
    /\ UNCHANGED <<starts, callback, shared, worker, queue, current, executed>>

\* ReferencesOutliveThread: Stop destroys the instance without joining.
FaultyStopSkipsWait ==
    /\ owner = "ready" /\ inst /\ entry = "present"
    /\ owner' = "reset" /\ flag' = FALSE
    /\ UNCHANGED <<inst, starts, callback, timeout, entry, worker, queue, work>>

\* ImplementsServiceThread: the thread takes the next broadcast of the queue
\* without looking at the flag.
FaultyNotifyTakesNext ==
    /\ worker = "notify"
    /\ counter' = IF current = {} THEN counter + 1 ELSE 0
    /\ current' = {}
    /\ worker' = IF callback THEN "call" ELSE IF queue # <<>> THEN "recv" ELSE "check"
    /\ UNCHANGED <<own, shared, queue, executed>>

-----------------------------------------------------------------------------
(* The owner: RpcAsyncBroadcast::Start and its callback registration *)

\* Start resets the counter, CreateSubscriber connects (no connection is made
\* yet, so it succeeds), SetTimeout and Subscribe precede the thread.
CreateSubscriber ==
    /\ owner = "ready" /\ ~inst
    /\ starts < MaxStarts
    /\ owner' = "created" /\ inst' = TRUE /\ timeout' = TRUE /\ counter' = 0
    /\ UNCHANGED <<starts, callback, shared, worker, queue, current, executed>>

\* StartReceive: the thread runs before the map holds it, as in StartResponse.
SpawnThread ==
    /\ owner = "created" /\ entry = "absent"
    /\ owner' = "spawned" /\ starts' = starts + 1
    /\ worker' = "spin"
    /\ UNCHANGED <<inst, callback, timeout, shared, queue, work>>

LinkEntry ==
    /\ owner = "spawned"
    /\ owner' = "linking" /\ entry' = "linking" /\ flag' = TRUE
    /\ UNCHANGED <<inst, starts, callback, timeout, worker, queue, work>>

FinishStart ==
    /\ owner = "linking"
    /\ owner' = "ready" /\ entry' = "present"
    /\ UNCHANGED <<inst, starts, callback, timeout, flag, worker, queue, work>>

\* RegistReceiveTimeoutCallback, UnregistReceiveTimeoutCallback: no test of role,
\* no lock.
SetCallback(registered) ==
    /\ owner = "ready"
    /\ callback' = registered
    /\ UNCHANGED <<owner, inst, starts, timeout, shared, worker, queue, work>>

-----------------------------------------------------------------------------
(* The owner: RpcAsyncBroadcast::Stop *)

StopReceive ==
    /\ owner = "ready" /\ inst /\ entry = "present"
    /\ owner' = "stopped" /\ flag' = FALSE
    /\ UNCHANGED <<inst, starts, callback, timeout, entry, worker, queue, work>>

\* join: it goes on only when the thread function has returned.
WaitReceive ==
    /\ owner = "stopped" /\ worker = "done"
    /\ owner' = "joined" /\ worker' = "none"
    /\ UNCHANGED <<inst, starts, callback, timeout, shared, queue, work>>

ResetReceive ==
    /\ owner = "joined"
    /\ owner' = "reset" /\ entry' = "absent"
    /\ UNCHANGED <<inst, starts, callback, timeout, flag, worker, queue, work>>

\* The Subscriber is deleted, and its socket with the broadcasts queued in it.
DestroyInstance ==
    /\ owner = "reset"
    /\ owner' = "ready" /\ inst' = FALSE /\ timeout' = FALSE
    /\ queue' = <<>>
    /\ UNCHANGED <<starts, callback, shared, worker, work>>

-----------------------------------------------------------------------------
(* The thread *)

SpinDone ==
    /\ worker = "spin" /\ entry \in {"linking", "present"}
    /\ worker' = "check"
    /\ UNCHANGED <<own, shared, queue, work>>

CheckFlag ==
    /\ worker = "check"
    /\ worker' = IF flag THEN "recv" ELSE "done"
    /\ UNCHANGED <<own, shared, queue, work>>

\* recv_multipart: ZeroMQ delivers both parts of a broadcast or none.
ReceiveBroadcast ==
    /\ worker = "recv" /\ queue # <<>>
    /\ current' = {Head(queue)} /\ queue' = Tail(queue)
    /\ worker' = "process"
    /\ UNCHANGED <<own, shared, counter, executed>>

\* recv_multipart returns no part after RpcTimeout: callback(false) is called.
ReceiveTimeout ==
    /\ worker = "recv" /\ timeout
    /\ flag => counter < MaxSilence
    /\ worker' = "notify"
    /\ UNCHANGED <<own, shared, queue, work>>

\* process(envelope, content): the bound function runs.
RunProcess ==
    /\ worker = "process"
    /\ executed' = executed \cup current
    /\ worker' = "notify"
    /\ UNCHANGED <<own, shared, queue, current, counter>>

\* procSubCb counts, then tests whether there is somebody to tell.
NotifyCounts ==
    /\ worker = "notify"
    /\ counter' = IF current = {} THEN counter + 1 ELSE 0
    /\ current' = {}
    /\ worker' = IF callback THEN "call" ELSE "check"
    /\ UNCHANGED <<own, shared, queue, executed>>

\* receiveTimeoutCountCallback(receiveTimeoutCounter)
CallCallback ==
    /\ worker = "call"
    /\ worker' = "check"
    /\ UNCHANGED <<own, shared, queue, work>>

-----------------------------------------------------------------------------
(* The publisher, and the specification *)

BroadcastArrives ==
    /\ inst /\ Len(queue) < MaxQueue
    /\ \E m \in Message \ (executed \cup current) :
        /\ \A i \in 1 .. Len(queue) : queue[i] # m
        /\ queue' = Append(queue, m)
    /\ UNCHANGED <<own, shared, worker, work>>

Start == CreateSubscriber \/ SpawnThread \/ LinkEntry \/ FinishStart
Stop  == StopReceive \/ WaitReceive \/ ResetReceive \/ DestroyInstance
WorkerStep == \/ SpinDone \/ CheckFlag \/ ReceiveBroadcast \/ ReceiveTimeout
              \/ RunProcess \/ NotifyCounts \/ CallCallback

Next == \/ Start \/ Stop \/ WorkerStep \/ BroadcastArrives
        \/ \E registered \in BOOLEAN : SetCallback(registered)

\* The scheduler runs the thread, and the owner inside a call it has made.
Fairness ==
    /\ WF_vars(WorkerStep)
    /\ WF_vars(SpawnThread \/ LinkEntry \/ FinishStart)
    /\ WF_vars(WaitReceive \/ ResetReceive \/ DestroyInstance)

Spec == Init /\ [][Next]_vars /\ Fairness

-----------------------------------------------------------------------------
(* Properties *)

\* The thread's reference `exit` points into the map and its socket belongs to
\* the instance: the owner erases the one and deletes the other only after the
\* thread has returned.
ReferencesOutliveThread == /\ worker \in Live => entry # "absent"
                           /\ worker # "none" => inst

\* A subscriber cut off from its publisher notices: while it is not stopped, it
\* counts a timeout or takes a broadcast.
SilenceIsCounted == (worker = "recv") ~> (counter > 0 \/ current # {} \/ ~flag)

\* procSubCb tests the callback so that it never calls an empty one.
NeverCallsEmpty == worker = "call" => callback

\* The abstract service thread this one implements: its handler is process and
\* callback, the callback of a timeout included.
servicePhase ==
    CASE worker = "none"                                       -> "idle"
      [] worker # "none" /\ owner # "stopped"                  -> "running"
      [] worker = "recv" /\ owner = "stopped"                  -> "halting"
      [] OTHER                                                 -> "draining"

serviceBusy == worker \in Inside

Service == INSTANCE ServiceThread WITH phase <- servicePhase, busy <- serviceBusy

\* process and callback run only between a start and the end of the matching
\* stop, at most once after the stop was asked for, and that stop ends.
ImplementsServiceThread == Service!ServiceSpec
==============================================================================
