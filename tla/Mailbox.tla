------------------------------- MODULE Mailbox --------------------------------
(***************************************************************************)
(* zmq::mailbox_t, by which every object of ZeroMQ sends commands to the   *)
(* thread of another: a lock-free queue (ypipe_t) with one reader, a mutex *)
(* among its writers, and a signaler that wakes the reader.                *)
(*                                                                         *)
(* The pointers of ypipe_t are positions in the queue: `back` is its       *)
(* terminator, `front` its first element, w, r and f are the source's _w,  *)
(* _r, _f.  The one word both sides touch is c; 0 stands for NULL, "the    *)
(* reader is asleep".  Each access to c is one step, and what one thread   *)
(* does to its own pointers between two such accesses belongs to the step  *)
(* before it.  TCP sockets, the reaper and the I/O threads all rely on it. *)
(***************************************************************************)
EXTENDS Naturals, Sequences

CONSTANTS
    Sender,     \* threads that send to this mailbox
    MaxSend     \* bound: commands each of them sends

ASSUME SendAssumption == MaxSend \in Nat

VARIABLES
    items,      \* the commands written to the queue, from the first one on
    w, f, r,    \* ypipe_t::_w, _f (writers, under the mutex) and _r (reader)
    front,      \* the first element of the queue (reader)
    c,          \* ypipe_t::_c: past the last flushed element, or NULL
    sync,       \* mailbox_t::_sync: the sender that holds it, in a set
    signals,    \* signals sent and not yet received (an eventfd counts them)
    active,     \* mailbox_t::_active
    woken,      \* TRUE from the receipt of a signal to the read that follows
    pc,         \* where each sender is in send()
    count,      \* commands each sender has begun to send
    destroyed   \* ~mailbox_t has returned

writer == <<items, w, f, sync, count>>
reader == <<r, front, active, woken>>
vars == <<writer, reader, c, signals, pc, destroyed>>

NULL == 0
back == Len(items) + 1

Steps == {"idle", "locked", "written", "asleep", "flushed", "unflushed", "signal"}
Command == Sender \X (1 .. MaxSend)

\* One type invariant: the range of every variable.
TypeOK ==
    /\ items \in Seq(Command)
    /\ w \in Nat \ {0} /\ f \in Nat \ {0} /\ r \in Nat /\ front \in Nat \ {0}
    /\ c \in Nat
    /\ sync \subseteq Sender
    /\ signals \in Nat
    /\ active \in BOOLEAN /\ woken \in BOOLEAN /\ destroyed \in BOOLEAN
    /\ pc \in [Sender -> Steps]
    /\ count \in [Sender -> 0 .. MaxSend]

\* The constructor reads the empty queue once, so that the reader is asleep.
Init ==
    /\ items = <<>> /\ w = 1 /\ f = 1 /\ r = 1 /\ front = 1
    /\ c = NULL
    /\ sync = {} /\ signals = 0
    /\ active = FALSE /\ woken = FALSE
    /\ pc = [s \in Sender |-> "idle"] /\ count = [s \in Sender |-> 0]
    /\ destroyed = FALSE

-----------------------------------------------------------------------------
(* mailbox_t::send *)

Goto(s, step) == pc' = [pc EXCEPT ![s] = step]

Lock(s) ==
    /\ pc[s] = "idle" /\ count[s] < MaxSend
    /\ sync = {} /\ sync' = {s}
    /\ count' = [count EXCEPT ![s] = @ + 1]
    /\ Goto(s, "locked")
    /\ UNCHANGED <<items, w, f, reader, c, signals, destroyed>>

\* _cpipe.write (cmd_, false): the value goes where the terminator was.
Write(s) ==
    /\ pc[s] = "locked"
    /\ items' = Append(items, <<s, count[s]>>)
    /\ f' = back + 1
    /\ Goto(s, "written")
    /\ UNCHANGED <<w, sync, count, reader, c, signals, destroyed>>

\* flush: cas (_w, _f).  It fails where the reader has put NULL.
FlushCas(s) ==
    /\ pc[s] = "written"
    /\ \/ /\ c = w
          /\ c' = f /\ w' = f
          /\ Goto(s, "flushed")
       \/ /\ c # w
          /\ Goto(s, "asleep")
          /\ UNCHANGED <<c, w>>
    /\ UNCHANGED <<items, f, sync, count, reader, signals, destroyed>>

\* Faulty: the sleeping reader is not reported.  Breaks WakeupPending.
FaultyFlushSet(s) ==
    /\ pc[s] = "asleep"
    /\ c' = f /\ w' = f
    /\ Goto(s, "flushed")
    /\ UNCHANGED <<items, f, sync, count, reader, signals, destroyed>>

\* "we don't care about thread-safeness and update c in non-atomic manner"
FlushSet(s) ==
    /\ pc[s] = "asleep"
    /\ c' = f /\ w' = f
    /\ Goto(s, "unflushed")
    /\ UNCHANGED <<items, f, sync, count, reader, signals, destroyed>>

\* Faulty: a signal for every command.  Breaks SignalMeansCommand.
FaultyUnlock(s) ==
    /\ pc[s] \in {"flushed", "unflushed"}
    /\ sync' = sync \ {s}
    /\ Goto(s, "signal")
    /\ UNCHANGED <<items, w, f, count, reader, c, signals, destroyed>>

Unlock(s) ==
    /\ pc[s] \in {"flushed", "unflushed"}
    /\ sync' = sync \ {s}
    /\ Goto(s, IF pc[s] = "flushed" THEN "idle" ELSE "signal")
    /\ UNCHANGED <<items, w, f, count, reader, c, signals, destroyed>>

\* _signaler.send (), after the mutex has been released.
Signal(s) ==
    /\ pc[s] = "signal"
    /\ signals' = signals + 1
    /\ Goto(s, "idle")
    /\ UNCHANGED <<writer, reader, c, destroyed>>

-----------------------------------------------------------------------------
(* mailbox_t::recv *)

\* check_read finds an element that an earlier cas has prefetched.
ReadPrefetched ==
    /\ active /\ ~destroyed
    /\ front # r /\ r # NULL
    /\ front' = front + 1
    /\ woken' = FALSE
    /\ UNCHANGED <<writer, r, active, c, signals, pc, destroyed>>

\* Faulty: a reader that finds nothing goes to sleep without leaving NULL.
\* Breaks ImplementsChannel.
FaultyReadCas ==
    /\ active /\ ~destroyed
    /\ front = r \/ r = NULL
    /\ r' = c
    /\ IF c = front \/ c = NULL
       THEN active' = FALSE /\ UNCHANGED front
       ELSE front' = front + 1 /\ UNCHANGED active
    /\ woken' = FALSE
    /\ UNCHANGED <<writer, c, signals, pc, destroyed>>

\* check_read prefetches by cas (front, NULL): it reads the first of what it
\* got, or it leaves NULL behind and goes to sleep.
ReadCas ==
    /\ active /\ ~destroyed
    /\ front = r \/ r = NULL
    /\ r' = c
    /\ \/ /\ c \in {front, NULL}
          /\ c' = NULL
          /\ active' = FALSE
          /\ UNCHANGED front
       \/ /\ c \notin {front, NULL}
          /\ front' = front + 1
          /\ UNCHANGED <<c, active>>
    /\ woken' = FALSE
    /\ UNCHANGED <<writer, signals, pc, destroyed>>

\* _signaler.wait and recv_failable.  A wait that times out changes nothing.
TakeSignal ==
    /\ ~active /\ ~destroyed
    /\ signals > 0
    /\ signals' = signals - 1
    /\ active' = TRUE /\ woken' = TRUE
    /\ UNCHANGED <<writer, r, front, c, pc, destroyed>>

\* Faulty: the destructor does not wait for the mutex.
\* Breaks NoSendAfterDestroy.
FaultyDestroy ==
    /\ ~destroyed
    /\ \A s \in Sender : count[s] = MaxSend
    /\ front = back
    /\ destroyed' = TRUE
    /\ UNCHANGED <<writer, reader, c, signals, pc>>

\* ~mailbox_t takes and releases the mutex.  Its owner has read the last
\* command it is ever sent: objects count the commands and acks they wait for.
Destroy ==
    /\ ~destroyed
    /\ \A s \in Sender : count[s] = MaxSend
    /\ front = back
    /\ sync = {}
    /\ destroyed' = TRUE
    /\ UNCHANGED <<writer, reader, c, signals, pc>>

-----------------------------------------------------------------------------

Send(s) == Write(s) \/ FlushCas(s) \/ FlushSet(s) \/ Unlock(s) \/ Signal(s)
Recv == ReadPrefetched \/ ReadCas \/ TakeSignal

Next == \/ \E s \in Sender : Lock(s) \/ Send(s)
        \/ Recv
        \/ Destroy

\* A sender inside send() and the receiver's loop go on.
Fairness == WF_vars(Recv) /\ \A s \in Sender : WF_vars(Send(s))

Spec == Init /\ [][Next]_vars /\ Fairness

-----------------------------------------------------------------------------
(* Properties *)

\* The assertion of recv: a signal is sent only for a command that can be
\* read, so the read after a signal never finds the queue empty.
SignalMeansCommand == woken => r \notin {front, NULL} \/ c \notin {front, NULL}

\* No lost wakeup: while the reader is asleep and something is flushed, exactly
\* one signal is on its way to it.
WakeupPending ==
    ~active /\ w > front =>
        \/ signals = 1 /\ \A s \in Sender : pc[s] \notin {"unflushed", "signal"}
        \/ signals = 0 /\ \E s \in Sender : pc[s] \in {"unflushed", "signal"}

\* The reader takes only what was flushed; the place the writer is about to
\* fill and what is written but not flushed are out of its reach.
ReadsOnlyFlushed == front <= w /\ r <= w /\ w <= f

\* When the destructor returns, no sender is still inside send(): the last
\* command cannot be read before the signal that goes with it, and the mutex
\* holds off the destructor until the sender has left the queue.
NoSendAfterDestroy == destroyed => \A s \in Sender : pc[s] = "idle"

\* The mailbox is the abstract channel: what is flushed counts as sent.
Channel == INSTANCE CommandChannel
    WITH sent <- SubSeq(items, 1, w - 1), taken <- front - 1, gone <- destroyed

\* Commands arrive in order, once, and a waiting receiver is woken.
ImplementsChannel == Channel!ChannelSpec

=============================================================================
