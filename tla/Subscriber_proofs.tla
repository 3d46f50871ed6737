--------------------------- MODULE Subscriber_proofs ---------------------------
(***************************************************************************)
(* Proofs about Subscriber for every set of broadcasts and every bound on  *)
(* queue, starts and silence: its type invariant, the lifetime of what the *)
(* thread refers to, and that it implements the safety part of             *)
(* ServiceThread although it runs a callback after a timeout too.          *)
(***************************************************************************)
EXTENDS Subscriber, TLAPS

(* What each point of Start and Stop says of the map, the instance and the  *)
(* thread.                                                                  *)
OwnerInv ==
    /\ owner = "ready" /\ ~inst => entry = "absent" /\ worker = "none"
    /\ owner = "ready" /\ inst => entry = "present" /\ worker # "none" /\ flag
    /\ owner = "created" => inst /\ entry = "absent" /\ worker = "none"
    /\ owner = "spawned" => inst /\ entry = "absent" /\ worker = "spin"
    /\ owner = "linking" => inst /\ entry = "linking" /\ worker # "none" /\ flag
    /\ owner = "stopped" => inst /\ entry = "present" /\ worker # "none" /\ ~flag
    /\ owner = "joined" => inst /\ entry = "present" /\ worker = "none"
    /\ owner = "reset" => inst /\ entry = "absent" /\ worker = "none"
    /\ worker = "done" => owner = "stopped"

(* The silence counted so far, at each point of the thread: it starts at 0, *)
(* and only the one timeout that a stop has raced may exceed the bound.     *)
CountInv ==
    /\ worker = "process" => current # {}
    /\ owner = "created" \/ worker = "spin" => counter = 0
    /\ worker \in {"recv", "process", "notify"} => counter <= MaxSilence
    /\ worker \in {"check", "call"} /\ flag => counter <= MaxSilence
    /\ worker = "notify" /\ flag /\ current = {} => counter < MaxSilence

IInv == TypeOK /\ OwnerInv /\ CountInv

LEMMA InitInv == Init => IInv
<1> SUFFICES ASSUME Init PROVE IInv
    OBVIOUS
<1>1. queue \in Seq(Message)
  BY DEF Init
<1>2. TypeOK
  <2>1. current \subseteq Message /\ executed \subseteq Message
    BY DEF Init
  <2>2. counter \in 0 .. MaxSilence + 1
    BY BoundsAssumption DEF Init
  <2>3. /\ owner \in Owner /\ inst \in BOOLEAN /\ starts \in Nat
        /\ callback \in BOOLEAN /\ timeout \in BOOLEAN
        /\ entry \in {"absent", "linking", "present"} /\ flag \in BOOLEAN
        /\ worker \in Live \cup {"none", "spin", "done"}
    BY DEF Init, Owner
  <2>4. QED BY <1>1, <2>1, <2>2, <2>3 DEF TypeOK
<1>3. OwnerInv /\ CountInv
  BY DEF Init, OwnerInv, CountInv
<1>4. QED BY <1>2, <1>3 DEF IInv

LEMMA OwnerActionStep ==
    ASSUME IInv, Start \/ Stop \/ \E registered \in BOOLEAN : SetCallback(registered)
    PROVE  IInv'
<1> USE BoundsAssumption DEF IInv, TypeOK, OwnerInv, CountInv, Owner, Live, Inside,
        own, shared, work
<1>1. CASE CreateSubscriber
  BY <1>1 DEF CreateSubscriber
<1>2. CASE SpawnThread
  BY <1>2 DEF SpawnThread
<1>3. CASE LinkEntry
  BY <1>3 DEF LinkEntry
<1>4. CASE FinishStart
  BY <1>4 DEF FinishStart
<1>5. CASE StopReceive
  BY <1>5 DEF StopReceive
<1>6. CASE WaitReceive
  BY <1>6 DEF WaitReceive
<1>7. CASE ResetReceive
  BY <1>7 DEF ResetReceive
<1>8. CASE DestroyInstance
  <2>1. queue' \in Seq(Message)
    BY <1>8 DEF DestroyInstance
  <2>2. QED BY <1>8, <2>1 DEF DestroyInstance
<1>9. CASE \E registered \in BOOLEAN : SetCallback(registered)
  BY <1>9 DEF SetCallback
<1>10. QED BY <1>1, <1>2, <1>3, <1>4, <1>5, <1>6, <1>7, <1>8, <1>9 DEF Start, Stop

LEMMA WorkerActionStep ==
    ASSUME IInv, WorkerStep
    PROVE  IInv'
<1> USE BoundsAssumption DEF IInv, TypeOK, OwnerInv, CountInv, Owner, Live, Inside,
        own, shared, work
<1>1. CASE SpinDone
  BY <1>1 DEF SpinDone
<1>2. CASE CheckFlag
  BY <1>2 DEF CheckFlag
<1>3. CASE ReceiveBroadcast
  <2>1. Head(queue) \in Message /\ Tail(queue) \in Seq(Message)
    BY <1>3 DEF ReceiveBroadcast
  <2>2. QED BY <1>3, <2>1 DEF ReceiveBroadcast
<1>4. CASE ReceiveTimeout
  BY <1>4 DEF ReceiveTimeout
<1>5. CASE RunProcess
  BY <1>5 DEF RunProcess
<1>6. CASE NotifyCounts
  BY <1>6 DEF NotifyCounts
<1>7. CASE CallCallback
  BY <1>7 DEF CallCallback
<1>8. QED BY <1>1, <1>2, <1>3, <1>4, <1>5, <1>6, <1>7 DEF WorkerStep

LEMMA StepInv == IInv /\ [Next]_vars => IInv'
<1> SUFFICES ASSUME IInv, [Next]_vars PROVE IInv'
    OBVIOUS
<1> USE DEF IInv, TypeOK, OwnerInv, CountInv, own, shared, work
<1>1. CASE BroadcastArrives
  BY <1>1 DEF BroadcastArrives
<1>2. CASE UNCHANGED vars
  BY <1>2 DEF vars
<1>3. QED BY <1>1, <1>2, OwnerActionStep, WorkerActionStep DEF Next

LEMMA Invariance == Spec => []IInv
BY InitInv, StepInv, PTL DEF Spec

-----------------------------------------------------------------------------
(* The type invariant, with the bound on the counter of silence.            *)
THEOREM TypeCorrect == Spec => []TypeOK
<1>1. IInv => TypeOK
  BY DEF IInv
<1>2. QED BY <1>1, Invariance, PTL

(* Wherever Start and Stop are, the element the thread's `exit` refers to   *)
(* is in the map, and the instance whose socket it reads has not been       *)
(* deleted.                                                                 *)
THEOREM ReferencesSafe == Spec => []ReferencesOutliveThread
<1>1. IInv => ReferencesOutliveThread
  BY DEF IInv, TypeOK, OwnerInv, ReferencesOutliveThread, Owner, Live, Inside
<1>2. QED BY <1>1, Invariance, PTL

-----------------------------------------------------------------------------
(* Every step of the Subscriber is a step of the ServiceThread, or none.    *)
LEMMA ServiceStep == IInv /\ [Next]_vars => [Service!ServiceNext]_(Service!svcVars)
<1> SUFFICES ASSUME IInv, [Next]_vars
             PROVE Service!ServiceNext \/ UNCHANGED Service!svcVars
    OBVIOUS
<1> USE DEF IInv, TypeOK, OwnerInv, Owner, Live, Inside, own, shared, work,
            servicePhase, serviceBusy, Service!svcVars
<1>1. CASE Start
  <2>1. CASE SpawnThread
    <3>1. Service!Begin
      BY <2>1 DEF SpawnThread, Service!Begin
    <3>2. QED BY <3>1 DEF Service!ServiceNext
  <2>2. CASE CreateSubscriber \/ LinkEntry \/ FinishStart
    BY <2>2 DEF CreateSubscriber, LinkEntry, FinishStart
  <2>3. QED BY <1>1, <2>1, <2>2 DEF Start
<1>2. CASE Stop
  <2>1. CASE StopReceive
    <3>1. Service!Halt
      BY <2>1 DEF StopReceive, Service!Halt
    <3>2. QED BY <3>1 DEF Service!ServiceNext
  <2>2. CASE WaitReceive
    <3>1. Service!Finish
      BY <2>2 DEF WaitReceive, Service!Finish
    <3>2. QED BY <3>1 DEF Service!ServiceNext
  <2>3. CASE ResetReceive \/ DestroyInstance
    BY <2>3 DEF ResetReceive, DestroyInstance
  <2>4. QED BY <1>2, <2>1, <2>2, <2>3 DEF Stop
<1>3. CASE BroadcastArrives \/ \E registered \in BOOLEAN : SetCallback(registered)
  BY <1>3 DEF BroadcastArrives, SetCallback
<1>4. CASE WorkerStep
  <2>1. CASE SpinDone \/ CheckFlag \/ RunProcess
    BY <2>1 DEF SpinDone, CheckFlag, RunProcess
  <2>2. CASE ReceiveBroadcast \/ ReceiveTimeout
    <3>1. Service!Enter
      BY <2>2 DEF ReceiveBroadcast, ReceiveTimeout, Service!Enter
    <3>2. QED BY <3>1 DEF Service!ServiceNext
  <2>3. CASE (NotifyCounts /\ ~callback) \/ CallCallback
    <3>1. Service!Leave
      BY <2>3 DEF NotifyCounts, CallCallback, Service!Leave
    <3>2. QED BY <3>1 DEF Service!ServiceNext
  <2>4. CASE NotifyCounts /\ callback
    BY <2>4 DEF NotifyCounts
  <2>5. QED BY <1>4, <2>1, <2>2, <2>3, <2>4 DEF WorkerStep
<1>5. CASE UNCHANGED vars
  BY <1>5 DEF vars
<1>6. QED BY <1>1, <1>2, <1>3, <1>4, <1>5 DEF Next

(* The Subscriber is a ServiceThread: after StopReceive at most one process *)
(* or callback begins, and none after WaitReceive has returned.             *)
THEOREM RefinesServiceThread == Spec => Service!ServiceSafety
<1>1. Init => Service!ServiceInit
  BY DEF Init, Service!ServiceInit, servicePhase, serviceBusy, Inside
<1>2. QED BY <1>1, ServiceStep, Invariance, PTL DEF Spec, Service!ServiceSafety
==============================================================================
