--------------------------- MODULE Responder_proofs ---------------------------
(***************************************************************************)
(* Proofs about Responder for every set of requests, every queue length    *)
(* and every number of starts: its type invariant, the four safety         *)
(* properties of the thread and its owner, and that it implements the      *)
(* safety part of ServiceThread.  All rest on one inductive invariant.     *)
(***************************************************************************)
EXTENDS Responder, TLAPS

(* What each point of StartProcess and StopProcess says of the map, the     *)
(* socket and the thread: the properties alone are not inductive, because   *)
(* they do not say where the owner is when the thread may be running.       *)
OwnerInv ==
    /\ owner = "ready" /\ ~inst => entry = "absent" /\ worker = "none"
    /\ owner = "ready" /\ inst => entry = "present" /\ worker # "none" /\ flag
    /\ owner = "created" => inst /\ entry = "absent" /\ worker = "none"
    /\ owner = "spawned" => inst /\ entry = "absent" /\ worker = "spin"
    /\ owner = "linking" => inst /\ entry = "linking" /\ worker # "none" /\ flag
    /\ owner = "stopped" => inst /\ entry = "present" /\ worker # "none"
    /\ owner = "joined" => inst /\ entry = "present" /\ worker = "none"
    /\ owner = "reset" => inst /\ entry = "absent" /\ worker = "none"
    /\ inst <=> port = "bound"
    /\ owner = "stopped" => ~flag
    /\ worker = "done" => owner = "stopped"

(* What the thread owes: one reply between recv and send, none elsewhere.   *)
WorkInv ==
    /\ worker \in {"exec", "send"} <=> sending
    /\ worker = "exec" => executed = answered
    /\ worker = "send" => executed = answered \cup current
    /\ worker \notin {"exec", "send"} => executed = answered /\ current = {}

IInv == TypeOK /\ OwnerInv /\ WorkInv

LEMMA InitInv == Init => IInv
BY DEF Init, IInv, TypeOK, OwnerInv, WorkInv, Owner, Worker, Live

LEMMA TypeStep == TypeOK /\ [Next]_vars => TypeOK'
<1> SUFFICES ASSUME TypeOK, [Next]_vars PROVE TypeOK'
    OBVIOUS
<1> USE DEF TypeOK, Owner, Worker, Live, own, shared, work
<1>1. CASE StartProcess
  <2>1. CASE CreateResponder
    BY <2>1 DEF CreateResponder
  <2>2. CASE SpawnThread
    BY <2>2 DEF SpawnThread
  <2>3. CASE LinkEntry \/ FinishStart
    BY <2>3 DEF LinkEntry, FinishStart
  <2>4. QED BY <1>1, <2>1, <2>2, <2>3 DEF StartProcess
<1>2. CASE StopProcess
  BY <1>2 DEF StopProcess, StopResponse, WaitResponse, ResetResponse, DestroyInstance
<1>3. CASE ReaperReleases
  BY <1>3 DEF ReaperReleases
<1>4. CASE WorkerStep
  BY <1>4 DEF WorkerStep, SpinDone, CheckFlag, ReceiveRequest, ReceiveTimeout,
              RunHandler, SendReply
<1>5. CASE RequestArrives
  BY <1>5 DEF RequestArrives
<1>6. CASE UNCHANGED vars
  BY <1>6 DEF vars
<1>7. QED BY <1>1, <1>2, <1>3, <1>4, <1>5, <1>6 DEF Next

LEMMA OwnerStep == IInv /\ [Next]_vars => OwnerInv'
<1> SUFFICES ASSUME IInv, [Next]_vars PROVE OwnerInv'
    OBVIOUS
<1> USE DEF IInv, TypeOK, OwnerInv, Owner, Worker, Live, own, shared, work
<1>1. CASE StartProcess
  <2>1. CASE CreateResponder
    BY <2>1 DEF CreateResponder
  <2>2. CASE SpawnThread
    BY <2>2 DEF SpawnThread
  <2>3. CASE LinkEntry
    BY <2>3 DEF LinkEntry
  <2>4. CASE FinishStart
    BY <2>4 DEF FinishStart
  <2>5. QED BY <1>1, <2>1, <2>2, <2>3, <2>4 DEF StartProcess
<1>2. CASE StopProcess
  <2>1. CASE StopResponse
    BY <2>1 DEF StopResponse
  <2>2. CASE WaitResponse
    BY <2>2 DEF WaitResponse
  <2>3. CASE ResetResponse
    BY <2>3 DEF ResetResponse
  <2>4. CASE DestroyInstance
    BY <2>4 DEF DestroyInstance
  <2>5. QED BY <1>2, <2>1, <2>2, <2>3, <2>4 DEF StopProcess
<1>3. CASE ReaperReleases
  BY <1>3 DEF ReaperReleases
<1>4. CASE WorkerStep
  <2>1. CASE SpinDone
    BY <2>1 DEF SpinDone
  <2>2. CASE CheckFlag
    BY <2>2 DEF CheckFlag
  <2>3. CASE ReceiveRequest \/ ReceiveTimeout
    BY <2>3 DEF ReceiveRequest, ReceiveTimeout
  <2>4. CASE RunHandler \/ SendReply
    BY <2>4 DEF RunHandler, SendReply
  <2>5. QED BY <1>4, <2>1, <2>2, <2>3, <2>4 DEF WorkerStep
<1>5. CASE RequestArrives
  BY <1>5 DEF RequestArrives
<1>6. CASE UNCHANGED vars
  BY <1>6 DEF vars
<1>7. QED BY <1>1, <1>2, <1>3, <1>4, <1>5, <1>6 DEF Next

LEMMA WorkStep == IInv /\ [Next]_vars => WorkInv'
<1> SUFFICES ASSUME IInv, [Next]_vars PROVE WorkInv'
    OBVIOUS
<1> USE DEF IInv, TypeOK, WorkInv, Owner, Worker, Live, own, shared, work
<1>1. CASE StartProcess
  BY <1>1 DEF StartProcess, CreateResponder, SpawnThread, LinkEntry, FinishStart, OwnerInv
<1>2. CASE StopProcess
  BY <1>2 DEF StopProcess, StopResponse, WaitResponse, ResetResponse, DestroyInstance
<1>3. CASE ReaperReleases
  BY <1>3 DEF ReaperReleases
<1>4. CASE WorkerStep
  <2>1. CASE SpinDone \/ CheckFlag \/ ReceiveTimeout
    BY <2>1 DEF SpinDone, CheckFlag, ReceiveTimeout
  <2>2. CASE ReceiveRequest
    BY <2>2 DEF ReceiveRequest
  <2>3. CASE RunHandler
    BY <2>3 DEF RunHandler
  <2>4. CASE SendReply
    BY <2>4 DEF SendReply
  <2>5. QED BY <1>4, <2>1, <2>2, <2>3, <2>4 DEF WorkerStep
<1>5. CASE RequestArrives
  BY <1>5 DEF RequestArrives
<1>6. CASE UNCHANGED vars
  BY <1>6 DEF vars
<1>7. QED BY <1>1, <1>2, <1>3, <1>4, <1>5, <1>6 DEF Next

LEMMA Invariance == Spec => []IInv
<1>1. IInv /\ [Next]_vars => IInv'
  BY TypeStep, OwnerStep, WorkStep DEF IInv
<1>2. QED BY <1>1, InitInv, PTL DEF Spec

-----------------------------------------------------------------------------
(* The type invariant of the thread and its owner.                          *)
THEOREM TypeCorrect == Spec => []TypeOK
<1>1. IInv => TypeOK
  BY DEF IInv
<1>2. QED BY <1>1, Invariance, PTL

(* Wherever StopProcess is, the thread's reference to its flag is valid.    *)
THEOREM FlagSafe == Spec => []FlagOutlivesThread
<1>1. IInv => FlagOutlivesThread
  BY DEF IInv, TypeOK, OwnerInv, FlagOutlivesThread, Owner, Live
<1>2. QED BY <1>1, Invariance, PTL

(* The thread never uses a socket its owner has destroyed.                  *)
THEOREM SocketSafe == Spec => []SocketOutlivesThread
<1>1. IInv => SocketOutlivesThread
  BY DEF IInv, TypeOK, OwnerInv, SocketOutlivesThread, Owner
<1>2. QED BY <1>1, Invariance, PTL

(* recv and send alternate on the REP socket.                               *)
THEOREM RepSafe == Spec => []RepAlternates
<1>1. IInv => RepAlternates
  BY DEF IInv, WorkInv, RepAlternates
<1>2. QED BY <1>1, Invariance, PTL

(* No request is executed and left unanswered by a stop.                    *)
THEOREM NoDebt == Spec => []StopLeavesNoDebt
<1>1. IInv => StopLeavesNoDebt
  BY DEF IInv, WorkInv, StopLeavesNoDebt
<1>2. QED BY <1>1, Invariance, PTL

-----------------------------------------------------------------------------
(* Every step of the Responder is a step of the ServiceThread, or none.     *)
LEMMA ServiceStep == IInv /\ [Next]_vars => [Service!ServiceNext]_(Service!svcVars)
<1> SUFFICES ASSUME IInv, [Next]_vars
             PROVE Service!ServiceNext \/ UNCHANGED Service!svcVars
    OBVIOUS
<1> USE DEF IInv, TypeOK, OwnerInv, Owner, Worker, Live, own, shared, work,
            servicePhase, serviceBusy, Service!svcVars
<1>1. CASE StartProcess
  <2>1. CASE SpawnThread
    <3>1. Service!Begin
      BY <2>1 DEF SpawnThread, Service!Begin
    <3>2. QED BY <3>1 DEF Service!ServiceNext
  <2>2. CASE CreateResponder \/ LinkEntry \/ FinishStart
    BY <2>2 DEF CreateResponder, LinkEntry, FinishStart
  <2>3. QED BY <1>1, <2>1, <2>2 DEF StartProcess
<1>2. CASE StopProcess
  <2>1. CASE StopResponse
    <3>1. Service!Halt
      BY <2>1 DEF StopResponse, Service!Halt
    <3>2. QED BY <3>1 DEF Service!ServiceNext
  <2>2. CASE WaitResponse
    <3>1. Service!Finish
      BY <2>2 DEF WaitResponse, Service!Finish
    <3>2. QED BY <3>1 DEF Service!ServiceNext
  <2>3. CASE ResetResponse \/ DestroyInstance
    BY <2>3 DEF ResetResponse, DestroyInstance
  <2>4. QED BY <1>2, <2>1, <2>2, <2>3 DEF StopProcess
<1>3. CASE ReaperReleases \/ RequestArrives
  BY <1>3 DEF ReaperReleases, RequestArrives
<1>4. CASE WorkerStep
  <2>1. CASE SpinDone \/ CheckFlag \/ RunHandler
    BY <2>1 DEF SpinDone, CheckFlag, RunHandler
  <2>2. CASE ReceiveRequest
    <3>1. Service!Enter
      BY <2>2 DEF ReceiveRequest, Service!Enter
    <3>2. QED BY <3>1 DEF Service!ServiceNext
  <2>3. CASE ReceiveTimeout
    <3>1. CASE owner = "stopped"
      <4>1. Service!Lapse
        BY <2>3, <3>1 DEF ReceiveTimeout, Service!Lapse
      <4>2. QED BY <4>1 DEF Service!ServiceNext
    <3>2. CASE owner # "stopped"
      BY <2>3, <3>2 DEF ReceiveTimeout
    <3>3. QED BY <3>1, <3>2
  <2>4. CASE SendReply
    <3>1. Service!Leave
      BY <2>4 DEF SendReply, Service!Leave
    <3>2. QED BY <3>1 DEF Service!ServiceNext
  <2>5. QED BY <1>4, <2>1, <2>2, <2>3, <2>4 DEF WorkerStep
<1>5. CASE UNCHANGED vars
  BY <1>5 DEF vars
<1>6. QED BY <1>1, <1>2, <1>3, <1>4, <1>5 DEF Next

(* The Responder is a ServiceThread: at most one handler begins after the   *)
(* owner asked for the stop, and none after the stop returned.              *)
THEOREM RefinesServiceThread == Spec => Service!ServiceSafety
<1>1. Init => Service!ServiceInit
  BY DEF Init, Service!ServiceInit, servicePhase, serviceBusy
<1>2. QED BY <1>1, ServiceStep, Invariance, PTL DEF Spec, Service!ServiceSafety
==============================================================================
