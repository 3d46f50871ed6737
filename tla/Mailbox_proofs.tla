---------------------------- MODULE Mailbox_proofs ----------------------------
(***************************************************************************)
(* Proofs about Mailbox for any number of senders and commands: its types, *)
(* the assertion of recv, no lost wakeup, no access after destruction, and *)
(* that it implements the safety part of CommandChannel.                   *)
(***************************************************************************)
EXTENDS Mailbox, TLAPS

Inside == {"locked", "written", "asleep", "flushed", "unflushed"}
Pending == {"unflushed", "signal"}

(* The mutex is held by the one sender that touches the queue, and has      *)
(* begun a command.                                                         *)
LockInv ==
    /\ \A s \in Sender : pc[s] # "idle" => count[s] > 0
    /\ \A s \in Sender : pc[s] \in Inside <=> s \in sync
    /\ \A s, u \in Sender : s \in sync /\ u \in sync => s = u

(* The queue in order: read, prefetched, flushed, written.  Between write   *)
(* and flush w is one behind f.                                             *)
PointerInv ==
    /\ front <= r /\ r <= w /\ w <= f /\ f <= w + 1
    /\ f = back
    /\ c = NULL \/ c = w
    /\ f # w <=> \E s \in Sender : pc[s] \in {"written", "asleep"}
    /\ \A s \in Sender : pc[s] = "asleep" => c = NULL

(* A reader that is awake has left c alone, so nobody signals.              *)
AwakeInv ==
    /\ active => /\ c = w /\ signals = 0
                 /\ \A s \in Sender : pc[s] \notin Pending
    /\ woken => active /\ r = front /\ front < w

(* A reader that is asleep has read all it prefetched; once c is not NULL   *)
(* the one who put it there has signalled or is about to.                   *)
AsleepInv ==
    ~active =>
        /\ r = front
        /\ c = NULL => /\ front = w /\ signals = 0
                       /\ \A s \in Sender : pc[s] \notin Pending
        /\ c # NULL =>
              /\ front < w
              /\ \/ signals = 1 /\ \A s \in Sender : pc[s] \notin Pending
                 \/ signals = 0 /\ \E s \in Sender : pc[s] \in Pending
              /\ \A s, u \in Sender : pc[s] \in Pending /\ pc[u] \in Pending => s = u

DestroyInv ==
    destroyed => \A s \in Sender : pc[s] = "idle" /\ count[s] = MaxSend

IInv == TypeOK /\ LockInv /\ PointerInv /\ AwakeInv /\ AsleepInv /\ DestroyInv

LEMMA InitInv == Init => IInv
<1> SUFFICES ASSUME Init PROVE IInv
    OBVIOUS
<1> USE SendAssumption DEF Init, back, NULL
<1>1. TypeOK
  <2>1. items \in Seq(Command)
    OBVIOUS
  <2>2. 0 \in 0 .. MaxSend
    OBVIOUS
  <2>3. pc \in [Sender -> Steps] /\ count \in [Sender -> 0 .. MaxSend]
    BY <2>2 DEF Steps
  <2>4. w \in Nat \ {0} /\ f \in Nat \ {0} /\ r \in Nat /\ front \in Nat \ {0} /\ c \in Nat
    OBVIOUS
  <2>5. QED BY <2>1, <2>3, <2>4 DEF TypeOK
<1>2. LockInv
  BY DEF LockInv, Inside
<1>3. PointerInv
  BY DEF PointerInv
<1>4. AwakeInv /\ AsleepInv /\ DestroyInv
  BY DEF AwakeInv, AsleepInv, DestroyInv, Pending
<1>5. QED BY <1>1, <1>2, <1>3, <1>4 DEF IInv

LEMMA TypeStep == IInv /\ [Next]_vars => TypeOK'
<1> SUFFICES ASSUME IInv, [Next]_vars PROVE TypeOK'
    OBVIOUS
<1> USE SendAssumption DEF IInv, TypeOK, Steps, NULL, writer, reader, Goto
<1>1. ASSUME NEW s \in Sender, Lock(s) PROVE TypeOK'
  <2>1. count[s] + 1 \in 0 .. MaxSend
    BY <1>1 DEF Lock
  <2>2. QED BY <1>1, <2>1 DEF Lock
<1>2. ASSUME NEW s \in Sender, Write(s) PROVE TypeOK'
  <2>1. count[s] \in 1 .. MaxSend
    BY <1>2 DEF Write, LockInv
  <2>2. items' \in Seq(Command)
    <3>1. <<s, count[s]>> \in Command
      BY <2>1 DEF Command
    <3>2. items' = Append(items, <<s, count[s]>>)
      BY <1>2 DEF Write
    <3>3. QED BY <3>1, <3>2
  <2>3. f' \in Nat \ {0}
    BY <1>2 DEF Write, back
  <2>4. pc' \in [Sender -> Steps]
    BY <1>2 DEF Write
  <2>5. QED BY <1>2, <2>2, <2>3, <2>4 DEF Write
<1>3. ASSUME NEW s \in Sender, FlushCas(s) PROVE TypeOK'
  BY <1>3 DEF FlushCas
<1>4. ASSUME NEW s \in Sender, FlushSet(s) PROVE TypeOK'
  BY <1>4 DEF FlushSet
<1>5. ASSUME NEW s \in Sender, Unlock(s) PROVE TypeOK'
  BY <1>5 DEF Unlock
<1>6. ASSUME NEW s \in Sender, Signal(s) PROVE TypeOK'
  BY <1>6 DEF Signal
<1>7. CASE Recv
  <2>0. front + 1 \in Nat \ {0}
    OBVIOUS
  <2>1. CASE ReadPrefetched
    BY <2>0, <2>1 DEF ReadPrefetched
  <2>2. CASE ReadCas
    <3>1. CASE c \in {front, NULL}
      <4>1. c' = NULL /\ r' = c /\ UNCHANGED front
        BY <2>2, <3>1 DEF ReadCas
      <4>2. active' = FALSE /\ woken' = FALSE
        BY <2>2, <3>1 DEF ReadCas
      <4>3. UNCHANGED <<writer, signals, pc, destroyed>>
        BY <2>2 DEF ReadCas
      <4>4. QED BY <4>1, <4>2, <4>3
    <3>2. CASE c \notin {front, NULL}
      BY <2>0, <2>2, <3>2 DEF ReadCas
    <3>3. QED BY <3>1, <3>2
  <2>3. CASE TakeSignal
    BY <2>3 DEF TakeSignal
  <2>4. QED BY <1>7, <2>1, <2>2, <2>3 DEF Recv
<1>8. CASE Destroy
  BY <1>8 DEF Destroy
<1>9. CASE UNCHANGED vars
  BY <1>9 DEF vars
<1>10. QED BY <1>1, <1>2, <1>3, <1>4, <1>5, <1>6, <1>7, <1>8, <1>9 DEF Next, Send

LEMMA LockStep == IInv /\ [Next]_vars => LockInv'
<1> SUFFICES ASSUME IInv, [Next]_vars PROVE LockInv'
    OBVIOUS
<1> USE DEF IInv, TypeOK, LockInv, Inside, Steps, writer, reader, Goto
<1>1. ASSUME NEW s \in Sender, Lock(s) PROVE LockInv'
  BY <1>1, SendAssumption DEF Lock
<1>2. ASSUME NEW s \in Sender, Write(s) PROVE LockInv'
  BY <1>2 DEF Write
<1>3. ASSUME NEW s \in Sender, FlushCas(s) PROVE LockInv'
  BY <1>3 DEF FlushCas
<1>4. ASSUME NEW s \in Sender, FlushSet(s) PROVE LockInv'
  BY <1>4 DEF FlushSet
<1>5. ASSUME NEW s \in Sender, Unlock(s) PROVE LockInv'
  BY <1>5 DEF Unlock
<1>6. ASSUME NEW s \in Sender, Signal(s) PROVE LockInv'
  BY <1>6 DEF Signal
<1>7. CASE Recv \/ Destroy \/ UNCHANGED vars
  BY <1>7 DEF Recv, ReadPrefetched, ReadCas, TakeSignal, Destroy, vars
<1>8. QED BY <1>1, <1>2, <1>3, <1>4, <1>5, <1>6, <1>7 DEF Next, Send

LEMMA PointerStep == IInv /\ [Next]_vars => PointerInv'
<1> SUFFICES ASSUME IInv, [Next]_vars PROVE PointerInv'
    OBVIOUS
<1> USE DEF IInv, TypeOK, LockInv, PointerInv, Inside, Steps, NULL, back, writer, reader, Goto
<1>1. ASSUME NEW s \in Sender, Lock(s) PROVE PointerInv'
  BY <1>1 DEF Lock
<1>2. ASSUME NEW s \in Sender, Write(s) PROVE PointerInv'
  <2>1. f = w
    BY <1>2 DEF Write
  <2>2. Len(items') = Len(items) + 1 /\ f' = f + 1
    BY <1>2 DEF Write
  <2>3. pc'[s] = "written" /\ \A u \in Sender : pc'[u] # "asleep"
    BY <1>2 DEF Write
  <2>4. QED BY <1>2, <2>1, <2>2, <2>3 DEF Write
<1>3. ASSUME NEW s \in Sender, FlushCas(s) PROVE PointerInv'
  BY <1>3 DEF FlushCas
<1>4. ASSUME NEW s \in Sender, FlushSet(s) PROVE PointerInv'
  BY <1>4 DEF FlushSet
<1>5. ASSUME NEW s \in Sender, Unlock(s) PROVE PointerInv'
  BY <1>5 DEF Unlock
<1>6. ASSUME NEW s \in Sender, Signal(s) PROVE PointerInv'
  BY <1>6 DEF Signal
<1>7. CASE ReadPrefetched
  BY <1>7 DEF ReadPrefetched
<1>8. CASE ReadCas
  <2>1. c = w /\ c # NULL /\ r' = w
    BY <1>8 DEF ReadCas, AwakeInv
  <2>2. CASE c = front
    BY <1>8, <2>1, <2>2 DEF ReadCas
  <2>3. CASE c # front
    <3>1. front < w
      BY <2>1, <2>3
    <3>4. front' = front + 1
      BY <1>8, <2>1, <2>3 DEF ReadCas
    <3>5. c' = c
      BY <1>8, <2>1, <2>3 DEF ReadCas
    <3>2. UNCHANGED <<w, f, items, pc>>
      BY <1>8 DEF ReadCas
    <3>3. QED BY <2>1, <3>1, <3>4, <3>5, <3>2
  <2>4. QED BY <2>2, <2>3
<1>9. CASE TakeSignal \/ Destroy \/ UNCHANGED vars
  BY <1>9 DEF TakeSignal, Destroy, vars
<1>10. QED BY <1>1, <1>2, <1>3, <1>4, <1>5, <1>6, <1>7, <1>8, <1>9 DEF Next, Send, Recv

LEMMA AwakeStep == IInv /\ [Next]_vars => AwakeInv'
<1> SUFFICES ASSUME IInv, [Next]_vars PROVE AwakeInv'
    OBVIOUS
<1> USE DEF IInv, TypeOK, AwakeInv, Pending, Steps, NULL, writer, reader, Goto
<1>1. ASSUME NEW s \in Sender, Lock(s) \/ Write(s) PROVE AwakeInv'
  BY <1>1 DEF Lock, Write
<1>2. ASSUME NEW s \in Sender, FlushCas(s) PROVE AwakeInv'
  <2>1. CASE c = w
    <3>1. c' = f /\ w' = f /\ w <= f
      BY <1>2, <2>1 DEF FlushCas, PointerInv
    <3>2. \A u \in Sender : pc'[u] \in Pending => pc[u] \in Pending
      BY <1>2, <2>1 DEF FlushCas
    <3>3. UNCHANGED <<reader, signals>>
      BY <1>2 DEF FlushCas
    <3>4. QED BY <3>1, <3>2, <3>3, <1>2 DEF FlushCas
  <2>2. CASE c # w
    BY <1>2, <2>2 DEF FlushCas
  <2>3. QED BY <2>1, <2>2
<1>3. ASSUME NEW s \in Sender, FlushSet(s) PROVE AwakeInv'
  <2>1. ~active
    BY <1>3 DEF FlushSet, PointerInv
  <2>2. QED BY <1>3, <2>1 DEF FlushSet
<1>4. ASSUME NEW s \in Sender, Unlock(s) PROVE AwakeInv'
  <2>1. active => pc[s] = "flushed"
    BY <1>4 DEF Unlock
  <2>2. QED BY <1>4, <2>1 DEF Unlock
<1>5. ASSUME NEW s \in Sender, Signal(s) PROVE AwakeInv'
  <2>1. ~active
    BY <1>5 DEF Signal
  <2>2. QED BY <1>5, <2>1 DEF Signal
<1>6. CASE ReadPrefetched
  BY <1>6 DEF ReadPrefetched
<1>7. CASE ReadCas
  <2>1. woken' = FALSE
    BY <1>7 DEF ReadCas
  <2>2. CASE c \in {front, NULL}
    <3>1. active' = FALSE
      BY <1>7, <2>2 DEF ReadCas
    <3>2. QED BY <2>1, <3>1
  <2>3. CASE c \notin {front, NULL}
    <3>1. UNCHANGED <<c, active>>
      BY <1>7, <2>3 DEF ReadCas
    <3>2. UNCHANGED <<w, signals, pc>>
      BY <1>7 DEF ReadCas
    <3>3. QED BY <2>1, <3>1, <3>2
  <2>4. QED BY <2>2, <2>3
<1>8. CASE TakeSignal
  <2>1. signals = 1 /\ c = w /\ front < w /\ r = front
    BY <1>8 DEF TakeSignal, AsleepInv, PointerInv
  <2>2. \A s \in Sender : pc[s] \notin Pending
    BY <1>8, <2>1 DEF TakeSignal, AsleepInv
  <2>3. QED BY <1>8, <2>1, <2>2 DEF TakeSignal
<1>9. CASE Destroy \/ UNCHANGED vars
  BY <1>9 DEF Destroy, vars
<1>10. QED BY <1>1, <1>2, <1>3, <1>4, <1>5, <1>6, <1>7, <1>8, <1>9 DEF Next, Send, Recv

LEMMA AsleepStep == IInv /\ [Next]_vars => AsleepInv'
<1> SUFFICES ASSUME IInv, [Next]_vars PROVE AsleepInv'
    OBVIOUS
<1> USE DEF IInv, TypeOK, AsleepInv, Pending, Steps, NULL, writer, reader, Goto
<1>1. ASSUME NEW s \in Sender, Lock(s) \/ Write(s) PROVE AsleepInv'
  BY <1>1 DEF Lock, Write
<1>2. ASSUME NEW s \in Sender, FlushCas(s) PROVE AsleepInv'
  <2>1. CASE c = w
    <3>1. c' = f /\ w' = f /\ w <= f
      BY <1>2, <2>1 DEF FlushCas, PointerInv
    <3>2. \A u \in Sender : pc'[u] \in Pending <=> pc[u] \in Pending
      BY <1>2, <2>1 DEF FlushCas
    <3>3. UNCHANGED <<reader, signals>>
      BY <1>2 DEF FlushCas
    <3>4. QED BY <2>1, <3>1, <3>2, <3>3
  <2>2. CASE c # w
    <3>1. \A u \in Sender : pc'[u] \in Pending <=> pc[u] \in Pending
      BY <1>2, <2>2 DEF FlushCas
    <3>2. UNCHANGED <<reader, signals, c, w>>
      BY <1>2, <2>2 DEF FlushCas
    <3>3. QED BY <3>1, <3>2
  <2>3. QED BY <2>1, <2>2
<1>3. ASSUME NEW s \in Sender, FlushSet(s) PROVE AsleepInv'
  <2>1. c = NULL /\ ~active
    BY <1>3 DEF FlushSet, PointerInv, AwakeInv
  <2>2. front = w /\ w < f /\ signals = 0 /\ \A u \in Sender : pc[u] \notin Pending
    BY <1>3, <2>1 DEF FlushSet, PointerInv
  <2>3. c' = f /\ w' = f /\ UNCHANGED <<reader, signals>>
    BY <1>3 DEF FlushSet
  <2>4. \A u \in Sender : pc'[u] \in Pending <=> u = s
    BY <1>3, <2>2 DEF FlushSet
  <2>5. QED BY <2>1, <2>2, <2>3, <2>4
<1>4. ASSUME NEW s \in Sender, Unlock(s) PROVE AsleepInv'
  <2>1. \A u \in Sender : pc'[u] \in Pending <=> pc[u] \in Pending
    BY <1>4 DEF Unlock
  <2>2. UNCHANGED <<reader, signals, c, w>>
    BY <1>4 DEF Unlock
  <2>3. QED BY <2>1, <2>2
<1>5. ASSUME NEW s \in Sender, Signal(s) PROVE AsleepInv'
  <2>1. ~active /\ c # NULL /\ signals = 0
    BY <1>5 DEF Signal, AwakeInv
  <2>2. \A u \in Sender : pc[u] \in Pending => u = s
    BY <1>5, <2>1 DEF Signal
  <2>3. \A u \in Sender : pc'[u] \notin Pending
    BY <1>5, <2>2 DEF Signal
  <2>4. signals' = 1 /\ UNCHANGED <<reader, c, w>>
    BY <1>5, <2>1 DEF Signal
  <2>5. QED BY <2>1, <2>3, <2>4
<1>6. CASE ReadPrefetched
  BY <1>6 DEF ReadPrefetched
<1>7. CASE ReadCas
  <2>1. c = w /\ c # NULL /\ signals = 0 /\ \A s \in Sender : pc[s] \notin Pending
    BY <1>7 DEF ReadCas, AwakeInv
  <2>2. CASE c \in {front, NULL}
    <3>1. c' = NULL /\ r' = c /\ UNCHANGED front
      BY <1>7, <2>2 DEF ReadCas
    <3>2. UNCHANGED <<w, signals, pc>>
      BY <1>7 DEF ReadCas
    <3>3. QED BY <2>1, <2>2, <3>1, <3>2
  <2>3. CASE c \notin {front, NULL}
    BY <1>7, <2>3 DEF ReadCas
  <2>4. QED BY <2>2, <2>3
<1>8. CASE TakeSignal
  BY <1>8 DEF TakeSignal
<1>9. CASE Destroy \/ UNCHANGED vars
  BY <1>9 DEF Destroy, vars
<1>10. QED BY <1>1, <1>2, <1>3, <1>4, <1>5, <1>6, <1>7, <1>8, <1>9 DEF Next, Send, Recv

LEMMA DestroyStep == IInv /\ [Next]_vars => DestroyInv'
<1> SUFFICES ASSUME IInv, [Next]_vars PROVE DestroyInv'
    OBVIOUS
<1> USE DEF IInv, TypeOK, DestroyInv, Steps, writer, reader
<1>1. ASSUME NEW s \in Sender, Lock(s) \/ Send(s) PROVE DestroyInv'
  <2>1. ~destroyed
    BY <1>1, SendAssumption DEF Lock, Send, Write, FlushCas, FlushSet, Unlock, Signal
  <2>2. UNCHANGED destroyed
    BY <1>1 DEF Lock, Send, Write, FlushCas, FlushSet, Unlock, Signal
  <2>3. QED BY <2>1, <2>2
<1>2. CASE Recv \/ UNCHANGED vars
  BY <1>2 DEF Recv, ReadPrefetched, ReadCas, TakeSignal, vars
<1>3. CASE Destroy
  \* nobody holds the mutex, and who is about to signal has a command unread
  <2>1. \A s \in Sender : count[s] = MaxSend /\ pc[s] \notin Inside
    BY <1>3 DEF Destroy, LockInv
  <2>2. front = w
    BY <1>3, <2>1 DEF Destroy, PointerInv, back, Inside
  <2>3. \A s \in Sender : pc[s] \notin Pending
    BY <2>2 DEF AwakeInv, AsleepInv
  <2>4. \A s \in Sender : pc[s] = "idle"
    BY <2>1, <2>3 DEF Inside, Pending
  <2>5. QED BY <1>3, <2>1, <2>4 DEF Destroy
<1>4. QED BY <1>1, <1>2, <1>3 DEF Next

LEMMA Invariance == Spec => []IInv
<1>1. IInv /\ [Next]_vars => IInv'
  BY TypeStep, LockStep, PointerStep, AwakeStep, AsleepStep, DestroyStep DEF IInv
<1>2. QED BY InitInv, <1>1, PTL DEF Spec

-----------------------------------------------------------------------------

(* The queue, its pointers and the counts stay in their ranges.             *)
THEOREM TypeCorrect == Spec => []TypeOK
<1>1. IInv => TypeOK
  BY DEF IInv
<1>2. QED BY <1>1, Invariance, PTL

(* The reader stays within what was flushed, the writers ahead of it.       *)
THEOREM ReadsFlushed == Spec => []ReadsOnlyFlushed
<1>1. IInv => ReadsOnlyFlushed
  BY DEF IInv, TypeOK, PointerInv, ReadsOnlyFlushed
<1>2. QED BY <1>1, Invariance, PTL

(* The assertion of recv holds: after a signal there is something to read.  *)
THEOREM SignalSound == Spec => []SignalMeansCommand
<1>1. IInv => SignalMeansCommand
  BY DEF IInv, TypeOK, AwakeInv, SignalMeansCommand, NULL
<1>2. QED BY <1>1, Invariance, PTL

(* No wakeup is lost, and none is sent twice.                               *)
THEOREM WakeupSound == Spec => []WakeupPending
<1>1. IInv => WakeupPending
  BY DEF IInv, TypeOK, PointerInv, AsleepInv, WakeupPending, Pending, NULL
<1>2. QED BY <1>1, Invariance, PTL

(* The mailbox is not destroyed under a sender.                             *)
THEOREM DestroySafe == Spec => []NoSendAfterDestroy
<1>1. IInv => NoSendAfterDestroy
  BY DEF IInv, DestroyInv, NoSendAfterDestroy
<1>2. QED BY <1>1, Invariance, PTL

-----------------------------------------------------------------------------
(* What is flushed is a channel.                                            *)

LEMMA SubSeqExtends ==
    ASSUME NEW S, NEW q \in Seq(S), NEW n \in 1 .. Len(q)
    PROVE  SubSeq(q, 1, n) = Append(SubSeq(q, 1, n - 1), q[n])
  OBVIOUS

LEMMA SubSeqOfAppend ==
    ASSUME NEW S, NEW q \in Seq(S), NEW e \in S, NEW n \in 0 .. Len(q)
    PROVE  SubSeq(Append(q, e), 1, n) = SubSeq(q, 1, n)
  OBVIOUS

LEMMA ChannelStep == IInv /\ [Next]_vars => [Channel!ChannelNext]_(Channel!chanVars)
<1> SUFFICES ASSUME IInv, [Next]_vars
             PROVE Channel!ChannelNext \/ UNCHANGED Channel!chanVars
    OBVIOUS
<1> USE DEF IInv, TypeOK, Steps, NULL, writer, reader, Goto, Channel!chanVars
<1>1. ASSUME NEW s \in Sender, Write(s) PROVE UNCHANGED Channel!chanVars
  <2>1. count[s] \in 1 .. MaxSend /\ UNCHANGED <<w, front, destroyed>>
    BY <1>1 DEF Write, LockInv
  <2>2. items' = Append(items, <<s, count[s]>>) /\ <<s, count[s]>> \in Command
    BY <1>1, <2>1 DEF Write, Command
  <2>3. w - 1 \in 0 .. Len(items)
    BY DEF PointerInv, back
  <2>4. SubSeq(items', 1, w - 1) = SubSeq(items, 1, w - 1)
    BY <2>2, <2>3, SubSeqOfAppend
  <2>5. QED BY <2>1, <2>4
<1>2. ASSUME NEW s \in Sender, FlushSet(s) \/ (FlushCas(s) /\ c = w)
      PROVE  Channel!ChannelNext
  <2>1. Len(items) = w /\ f = w + 1
    BY <1>2 DEF FlushCas, FlushSet, PointerInv, back
  <2>2. w' = w + 1 /\ UNCHANGED <<items, front, destroyed>>
    BY <1>2, <2>1 DEF FlushCas, FlushSet
  <2>3. SubSeq(items, 1, w) = Append(SubSeq(items, 1, w - 1), items[w])
    BY <2>1, SubSeqExtends
  <2>4. items[w] \in Command
    BY <2>1
  <2>5. ~destroyed
    BY <1>2 DEF FlushCas, FlushSet, DestroyInv
  <2>6. SubSeq(items', 1, w' - 1) = Append(SubSeq(items, 1, w - 1), items[w])
    BY <2>2, <2>3
  <2>7. UNCHANGED <<front - 1, destroyed>>
    BY <2>2
  <2>8. Channel!Post
    BY <2>4, <2>5, <2>6, <2>7 DEF Channel!Post
  <2>9. QED BY <2>8 DEF Channel!ChannelNext
<1>3. ASSUME NEW s \in Sender,
             Lock(s) \/ Unlock(s) \/ Signal(s) \/ (FlushCas(s) /\ c # w)
      PROVE  UNCHANGED Channel!chanVars
  BY <1>3 DEF Lock, Unlock, Signal, FlushCas
<1>4. ASSUME ~destroyed, front < w, front' = front + 1, UNCHANGED <<items, w, destroyed>>
      PROVE  Channel!ChannelNext
  <2>1. Len(SubSeq(items, 1, w - 1)) = w - 1
    BY DEF PointerInv, back
  <2>2. front - 1 < w - 1 /\ front' - 1 = front - 1 + 1
    BY <1>4
  <2>3. UNCHANGED <<SubSeq(items, 1, w - 1), destroyed>>
    BY <1>4
  <2>4. Channel!Take
    BY <1>4, <2>1, <2>2, <2>3 DEF Channel!Take
  <2>5. QED BY <2>4 DEF Channel!ChannelNext
<1>5. CASE ReadPrefetched
  <2>1. ~destroyed /\ front < w /\ front' = front + 1 /\ UNCHANGED <<items, w, destroyed>>
    BY <1>5 DEF ReadPrefetched, PointerInv
  <2>2. QED BY <2>1, <1>4
<1>6. CASE ReadCas
  <2>1. c = w /\ c # NULL /\ ~destroyed /\ UNCHANGED <<items, w, destroyed>>
    BY <1>6 DEF ReadCas, AwakeInv
  <2>2. CASE c \in {front, NULL}
    <3>1. UNCHANGED front
      BY <1>6, <2>2 DEF ReadCas
    <3>2. QED BY <2>1, <3>1
  <2>3. CASE c \notin {front, NULL}
    <3>1. front' = front + 1
      BY <1>6, <2>3 DEF ReadCas
    <3>2. front < w
      BY <2>1, <2>3 DEF PointerInv
    <3>3. QED BY <2>1, <3>1, <3>2, <1>4
  <2>4. QED BY <2>2, <2>3
<1>7. CASE TakeSignal
  BY <1>7 DEF TakeSignal
<1>8. CASE Destroy
  <2>1. Len(SubSeq(items, 1, w - 1)) = w - 1
    BY DEF PointerInv, back
  <2>2. front = w
    BY <1>8 DEF Destroy, PointerInv, back
  <2>3. destroyed' = TRUE /\ UNCHANGED <<items, w, front>>
    BY <1>8 DEF Destroy
  <2>4. Channel!Dispose
    BY <2>1, <2>2, <2>3 DEF Channel!Dispose
  <2>5. QED BY <2>4 DEF Channel!ChannelNext
<1>9. CASE UNCHANGED vars
  BY <1>9 DEF vars
<1>10. ASSUME NEW s \in Sender, Lock(s) \/ Send(s)
       PROVE  Channel!ChannelNext \/ UNCHANGED Channel!chanVars
  <2>1. CASE FlushCas(s)
    <3>1. CASE c = w
      BY <2>1, <3>1, <1>2
    <3>2. CASE c # w
      BY <2>1, <3>2, <1>3
    <3>3. QED BY <3>1, <3>2
  <2>2. CASE Write(s)
    BY <2>2, <1>1
  <2>3. CASE FlushSet(s)
    <3>1. FlushSet(s) \/ (FlushCas(s) /\ c = w)
      BY <2>3
    <3>2. QED BY <3>1, <1>2
  <2>4. CASE Lock(s) \/ Unlock(s) \/ Signal(s)
    <3>1. Lock(s) \/ Unlock(s) \/ Signal(s) \/ (FlushCas(s) /\ c # w)
      BY <2>4
    <3>2. QED BY <3>1, <1>3
  <2>5. QED BY <1>10, <2>1, <2>2, <2>3, <2>4 DEF Send
<1>11. CASE Recv
  BY <1>11, <1>5, <1>6, <1>7 DEF Recv
<1>12. QED BY <1>10, <1>11, <1>8, <1>9 DEF Next

(* The mailbox is the abstract channel: every command reaches its reader,   *)
(* once, in the order in which the commands were flushed.                   *)
THEOREM RefinesChannel == Spec => Channel!ChannelSafety
<1>1. Init => Channel!ChannelInit
  BY DEF Init, Channel!ChannelInit
<1>2. QED BY <1>1, ChannelStep, Invariance, PTL DEF Spec, Channel!ChannelSafety
==============================================================================
