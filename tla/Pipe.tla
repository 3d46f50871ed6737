--------------------------------- MODULE Pipe --------------------------------
(***************************************************************************)
(* One connection of a ZeroMQ socket: the two ends of its pipe (pipe_t),   *)
(* one at the socket, in the thread of the user or, once the socket is     *)
(* closed, of the reaper; the other at the session, in an I/O thread.      *)
(* Messages cross in two ypipes, one each way; everything else is commands *)
(* in the mailboxes of the two threads, which are CommandChannels.         *)
(*                                                                         *)
(* The sockets are those of Requester (REQ), Subscriber (SUB), Publisher   *)
(* (PUB) and Responder (REP).  REQ and SUB connect: their session has the  *)
(* pipe from the start and reconnects when its engine fails.  PUB and REP  *)
(* accept: the pipe is made when the engine is ready, and the session ends *)
(* with its engine.  TCP and the peer behind it are the environment.       *)
(*                                                                         *)
(* A handler is an action.  The methods of pipe_t it calls are operators   *)
(* from one value of net to the next.                                      *)
(***************************************************************************)
EXTENDS Integers, Sequences, FiniteSets, SequencesExt

CONSTANTS
    Kind,        \* the kinds of socket considered
    HWM,         \* both high water marks (ZeroMQ's default is 1000)
    MaxDown,     \* bound: messages the socket sends
    MaxUp,       \* bound: messages the engine brings
    MaxConn      \* bound: connections of one session

ASSUME PipeAssumption ==
    /\ Kind \subseteq {"REQ", "SUB", "PUB", "REP"}
    /\ HWM \in Nat \ {0} /\ MaxDown \in Nat /\ MaxUp \in Nat /\ MaxConn \in Nat \ {0}

VARIABLES
    kind,       \* the kind of this socket
    net,        \* the two ends, the queues, the mailboxes, and what has crossed
    attached,   \* the socket knows its end of the pipe
    closed,     \* the socket is being reaped: own_t::_terminating
    termAcks,   \* own_t::_term_acks of the socket
    seqnum,     \* commands counted by inc_seqnum for the socket, not yet processed
    sending,    \* the socket's multipart message: "no", "written" or "dropped"
    engine,     \* session_base_t::_engine is plugged
    conns,      \* connections made
    half,       \* session_base_t::_incomplete_in
    midway,     \* the engine has brought the first frame of a message only
    given,      \* the engine has taken a frame since it was plugged
    pending,    \* session_base_t::_pending
    session,    \* "alive" or "deleted"
    owner,      \* the session at its owner: "launched", "owned", "asked", "freed"
    listener    \* "open", or "closing" once it was asked to terminate

sockVars == <<attached, closed, termAcks, seqnum, sending>>
wire == <<half, midway, given>>
sessVars == <<engine, conns, wire, pending, session>>
ownVars == <<owner, listener>>
vars == <<kind, net, sockVars, sessVars, ownVars>>

-----------------------------------------------------------------------------
(* Frames, queues, ends *)

End == {"sock", "sess"}
Peer(e) == IF e = "sock" THEN "sess" ELSE "sock"
Connects == kind \in {"REQ", "SUB"}
\* Faulty: Publisher and Responder set linger 0 as well.  Breaks MessagesAreWhole.
FaultyLingers == FALSE

Lingers == ~Connects        \* Requester sets linger 0, xsub_t too; the default is -1

\* A frame is <<message, more>>.  What a socket writes at once and the engine
\* takes at once counts as one frame.
More(frame) == frame[2]
DELIMITER == <<0, FALSE>>
Frames(e) == IF (IF e = "sock" THEN Connects ELSE kind = "PUB") THEN 1 ELSE 2

\* The number of messages that end in a sequence of frames.
Count(frames) == Cardinality({i \in DOMAIN frames : ~More(frames[i])})

NULL == 0
States == {"none", "active", "delimiter_received", "waiting_for_delimiter",
           "term_ack_sent", "term_req_sent1", "term_req_sent2", "deleted"}

\* ready: flushed and not yet read; part: the unfinished message at the end.
NewQueue == [ready |-> <<>>, part |-> <<>>, asleep |-> FALSE, deleted |-> FALSE]

NewEnd(e, state) ==
    [state |-> state, inActive |-> TRUE, outActive |-> TRUE, delay |-> TRUE,
     in |-> IF e = "sock" THEN 1 ELSE 2, out |-> IF e = "sock" THEN 2 ELSE 1,
     read |-> 0, written |-> 0, peersRead |-> 0]

EndType == [state : States, inActive : BOOLEAN, outActive : BOOLEAN,
            delay : BOOLEAN, in : Nat \ {0}, out : Nat,
            read : Nat, written : Int, peersRead : Nat]

TypeOK ==
    /\ kind \in Kind
    /\ net.end \in [End -> EndType]
    /\ attached \in BOOLEAN /\ closed \in BOOLEAN
    /\ termAcks \in 0 .. 2 /\ seqnum \in 0 .. 1
    /\ sending \in {"no", "written", "dropped"}
    /\ engine \in BOOLEAN /\ wire \in BOOLEAN \X BOOLEAN \X BOOLEAN /\ pending \in BOOLEAN
    /\ conns \in 0 .. MaxConn /\ session \in {"alive", "deleted"}
    /\ owner \in {"launched", "owned", "asked", "freed"}
    /\ listener \in {"open", "closing"}

\* The end that a thread still has in its hands.
Has(n, e) == n.end[e].state \notin {"none", "deleted"}

-----------------------------------------------------------------------------
(* pipe_t: n is net, e the end whose method is called *)

Send(n, e, type, arg) == [n EXCEPT !.mail[e] = Append(@, <<type, arg>>)]
Goto(n, e, state) == [n EXCEPT !.end[e].state = state]
OutQueue(n, e) == n.queue[n.end[e].out]
InQueue(n, e) == n.queue[n.end[e].in]

\* ypipe_t::write; the last frame of a message is flushed, and wakes a reader.
Put(n, e, frame) ==
    LET q == n.end[e].out
        all == Append(n.queue[q].part, frame)
        m == [n EXCEPT !.queue[q].part = <<>>, !.queue[q].asleep = FALSE,
                       !.queue[q].ready = @ \o all,
                       !.sent[e] = @ \o (IF frame = DELIMITER THEN <<>> ELSE all)]
    IN IF More(frame) THEN [n EXCEPT !.queue[q].part = all]
       ELSE IF n.queue[q].asleep THEN Send(m, Peer(e), "activate_read", 0)
       ELSE m

Full(n, e) == n.end[e].written - n.end[e].peersRead >= HWM

\* check_write.  A pipe found full stays closed to writers until activated.
CanWrite(n, e) == n.end[e].outActive /\ n.end[e].state = "active" /\ ~Full(n, e)
CheckWrite(n, e) ==
    [n EXCEPT !.end[e].outActive = @ /\ ~(n.end[e].state = "active" /\ Full(n, e))]

\* write: where check_write fails nothing is written.
Write(n, e, frame) ==
    IF ~CanWrite(n, e) THEN CheckWrite(n, e)
    ELSE Put([n EXCEPT !.end[e].written = @ + (IF More(frame) THEN 0 ELSE 1)], e, frame)

Rollback(n, e) ==
    IF n.end[e].out = NULL THEN n ELSE [n EXCEPT !.queue[n.end[e].out].part = <<>>]

\* _out_pipe = NULL; send_pipe_term_ack (_peer)
Acknowledge(n, e, state) ==
    Send([n EXCEPT !.end[e].out = NULL, !.end[e].state = state],
         Peer(e), "pipe_term_ack", 0)

ProcessDelimiter(n, e) ==
    IF n.end[e].state = "active" THEN Goto(n, e, "delimiter_received")
    ELSE Acknowledge(Rollback(n, e), e, "term_ack_sent")

CanRead(n, e) == /\ n.end[e].inActive
                 /\ n.end[e].state \in {"active", "waiting_for_delimiter"}

Pop(n, e) == [n EXCEPT !.queue[n.end[e].in].ready = Tail(@)]
Sleep(n, e) == [n EXCEPT !.end[e].inActive = FALSE, !.queue[n.end[e].in].asleep = TRUE]

\* Faulty: a low water mark above the high one.  Breaks InputResumes.
FaultyLWM == HWM + 1

LWM == (HWM + 1) \div 2     \* compute_lwm

Take(n, e) ==
    LET frame == Head(InQueue(n, e).ready)
        count == n.end[e].read + (IF More(frame) THEN 0 ELSE 1)
        m == [Pop(n, e) EXCEPT !.end[e].read = count, !.got[e] = Append(@, frame)]
    IN IF count % LWM = 0 THEN Send(m, Peer(e), "activate_write", count) ELSE m

\* read, and check_read, which leaves everything but a delimiter where it is.
Read(n, e) ==
    IF ~CanRead(n, e) THEN n
    ELSE IF InQueue(n, e).ready = <<>> THEN Sleep(n, e)
    ELSE IF Head(InQueue(n, e).ready) = DELIMITER THEN ProcessDelimiter(Pop(n, e), e)
    ELSE Take(n, e)

CheckRead(n, e) ==
    IF CanRead(n, e) /\ InQueue(n, e).ready # <<>>
       /\ Head(InQueue(n, e).ready) # DELIMITER
    THEN n ELSE Read(n, e)

\* What is read in one go: the frames of a message; or all there is, up to a
\* delimiter, with the reports that fall due, and then the read that finds no
\* more (only PUB does so, and its subscriptions are single frames).
ReadMessage(n, e) ==
    IF CanRead(n, e) /\ InQueue(n, e).ready # <<>> /\ More(Head(InQueue(n, e).ready))
    THEN Read(Read(n, e), e) ELSE Read(n, e)
ReadAll(n, e) ==
    LET ready == InQueue(n, e).ready
        k == IF ready # <<>> /\ Last(ready) = DELIMITER THEN Len(ready) - 1 ELSE Len(ready)
        old == n.end[e].read
        count == old + Count(SubSeq(ready, 1, k))
        reports == [i \in 1 .. (count \div LWM) - (old \div LWM) |->
                      <<"activate_write", ((old \div LWM) + i) * LWM>>]
        m == [n EXCEPT !.queue[n.end[e].in].ready = SubSeq(@, k + 1, Len(@)),
                       !.end[e].read = count, !.got[e] = @ \o SubSeq(ready, 1, k),
                       !.mail[Peer(e)] = @ \o reports]
    IN IF CanRead(n, e) THEN Read(m, e) ELSE n

\* terminate.  The delimiter is written even when the pipe is full.
Terminate(n, e, delay) ==
    LET m == [n EXCEPT !.end[e].delay = delay]
        stopped(k) == [k EXCEPT !.end[e].outActive = FALSE]
    IN CASE n.end[e].state \in {"term_req_sent1", "term_req_sent2", "term_ack_sent"} -> m
         [] n.end[e].state = "waiting_for_delimiter" /\ ~delay ->
              stopped(Acknowledge(Rollback(m, e), e, "term_ack_sent"))
         [] n.end[e].state = "waiting_for_delimiter" /\ delay ->
              Put(Rollback(stopped(m), e), e, DELIMITER)
         [] OTHER ->
              Put(Rollback(stopped(Goto(Send(m, Peer(e), "pipe_term", 0), e,
                                        "term_req_sent1")), e), e, DELIMITER)

\* Faulty: the session deletes the queue it drops.  Breaks QueuesAreFreedOnce.
FaultyHiccup(n, e) ==
    IF n.end[e].state # "active" THEN n
    ELSE LET q == Len(n.queue) + 1
         IN Send([n EXCEPT !.queue = Append([@ EXCEPT ![n.end[e].in].deleted = TRUE], NewQueue),
                           !.end[e].in = q, !.end[e].inActive = TRUE], Peer(e), "hiccup", q)

\* hiccup: the peer becomes responsible for the old queue.
Hiccup(n, e) ==
    IF n.end[e].state # "active" THEN n
    ELSE LET q == Len(n.queue) + 1
         IN Send([n EXCEPT !.queue = Append(@, NewQueue), !.end[e].in = q,
                           !.end[e].inActive = TRUE], Peer(e), "hiccup", q)

-----------------------------------------------------------------------------
(* Initially a socket that connects has its pipe; one that accepts has a
   session in the handshake. *)

InitNet(k) ==
    LET connects == k \in {"REQ", "SUB"}
        state == IF connects THEN "active" ELSE "none"
    IN [end |-> [e \in End |-> NewEnd(e, state)],
        queue |-> <<NewQueue, NewQueue>>,
        mail |-> [e \in End |->
                    IF e = "sock" /\ connects THEN <<<<"own", 0>>>> ELSE <<>>],
        sent |-> [e \in End |-> <<>>], got |-> [e \in End |-> <<>>]]

Init ==
    /\ kind \in Kind
    /\ net = InitNet(kind)
    /\ attached = Connects /\ closed = FALSE /\ termAcks = 0
    /\ seqnum = (IF Connects THEN 1 ELSE 0)
    /\ sending = "no"
    /\ engine = FALSE /\ conns = 0 /\ half = FALSE /\ midway = FALSE /\ given = FALSE /\ pending = FALSE
    /\ session = "alive"
    /\ owner = (IF Connects THEN "launched" ELSE "owned") /\ listener = "open"

\* The first and the last frame of the next message of end e.
First(n, e) == <<Count(n.sent[e]) + 1, Frames(e) = 2>>
Final(n, e) == <<Count(n.sent[e]) + 1, FALSE>>

-----------------------------------------------------------------------------
(* The socket, used by its owner *)

Usable == attached /\ ~closed

\* Requester sends one request at a time, Subscriber its subscription.
SendWhole ==
    /\ Usable /\ Connects /\ Has(net, "sock")
    /\ Count(net.sent["sock"]) < MaxDown
    /\ IF kind = "SUB" THEN net.sent["sock"] = <<>>
       ELSE Count(net.sent["sock"]) = Count(net.got["sock"])
    /\ net' = Write(net, "sock", First(net, "sock"))
    /\ UNCHANGED <<kind, sockVars, sessVars, ownVars>>

\* The first frame of a message: dropped where the pipe does not take it.
WriteFirst(n) ==
    /\ sending' = (IF Has(n, "sock") /\ CanWrite(n, "sock") THEN "written" ELSE "dropped")
    /\ net' = (IF Has(n, "sock") THEN Write(n, "sock", First(n, "sock")) ELSE n)

\* Publisher::Publish, the envelope: to a pipe that has subscribed.
SendFirst ==
    /\ Usable /\ kind = "PUB" /\ sending = "no"
    /\ net.got["sock"] # <<>> /\ Count(net.sent["sock"]) < MaxDown
    /\ WriteFirst(net)
    /\ UNCHANGED <<kind, attached, closed, termAcks, seqnum, sessVars, ownVars>>

\* The content, or the body of a reply.  Commands may have been processed
\* since the first frame; REP takes it back where the pipe is closing.
SendLast ==
    /\ Usable /\ sending # "no"
    /\ sending' = "no"
    /\ net' = (IF sending = "dropped" THEN net
               ELSE IF CanWrite(net, "sock") THEN Write(net, "sock", Final(net, "sock"))
               ELSE IF kind = "REP" THEN Rollback(net, "sock") ELSE net)
    /\ UNCHANGED <<kind, attached, closed, termAcks, seqnum, sessVars, ownVars>>

\* Subscriber reads frame by frame; REQ reads a reply in one go.
Receive ==
    /\ Usable /\ kind \in {"REQ", "SUB"}
    /\ Has(net, "sock") /\ CanRead(net, "sock")
    /\ net' = (IF kind = "SUB" THEN Read(net, "sock") ELSE ReadMessage(net, "sock"))
    /\ UNCHANGED <<kind, sockVars, sessVars, ownVars>>

\* rep_t::xrecv pushes the request's label, which becomes the first frame of
\* the reply, before it returns the request.
ReceiveRequest ==
    /\ Usable /\ kind = "REP" /\ sending = "no"
    /\ Has(net, "sock") /\ CanRead(net, "sock")
    /\ LET n == ReadMessage(net, "sock")
       IN IF n.got = net.got THEN net' = n /\ UNCHANGED sending ELSE WriteFirst(n)
    /\ UNCHANGED <<kind, attached, closed, termAcks, seqnum, sessVars, ownVars>>

HalfRead(e) == net.got[e] # <<>> /\ More(Last(net.got[e]))

\* zmq_close, start_reaping and process_term: the pipe is asked to end, and
\* then what the socket owns.
Close ==
    /\ ~closed /\ sending = "no" /\ ~HalfRead("sock")
    /\ closed' = TRUE
    /\ LET pipe == attached /\ Has(net, "sock")
           n == IF pipe THEN Terminate(net, "sock", FALSE) ELSE net
           child == ~Connects \/ owner = "owned"
       IN /\ net' = (IF ~child THEN n
                     ELSE Send(n, "sess", IF Connects THEN "term" ELSE "term_listener", 0))
          /\ termAcks' = (IF pipe THEN 1 ELSE 0) + (IF child THEN 1 ELSE 0)
          /\ owner' = (IF Connects /\ child THEN "asked" ELSE owner)
    /\ UNCHANGED <<kind, attached, seqnum, sending, sessVars, listener>>

\* check_term_acks: the socket is deleted, and its slot and mailbox with it.
Gone == closed /\ termAcks = 0 /\ seqnum = 0

-----------------------------------------------------------------------------
(* The engine, in the I/O thread *)

\* A connecting session is given an engine; an accepted one gets its pipe when
\* the handshake is over, and binds it to the socket (engine_ready).
EngineReady ==
    /\ session = "alive" /\ ~engine
    /\ conns < (IF Connects THEN MaxConn ELSE 1)
    /\ engine' = TRUE /\ conns' = conns + 1 /\ given' = FALSE /\ midway' = FALSE
    /\ IF Connects THEN UNCHANGED <<net, seqnum>>
       ELSE /\ net' = Send([net EXCEPT !.end = [e \in End |-> NewEnd(e, "active")]],
                           "sock", "bind", 0)
            /\ seqnum' = seqnum + 1
    /\ UNCHANGED <<kind, attached, closed, termAcks, sending, half, pending, session, ownVars>>

\* push_msg, and the flush that ends the engine's in_event.
Push ==
    /\ engine /\ Has(net, "sess")
    /\ Count(net.sent["sess"]) < MaxUp
    /\ LET frame == IF midway THEN Final(net, "sess") ELSE First(net, "sess")
       IN /\ net' = Write(net, "sess", frame)
          /\ midway' = (IF CanWrite(net, "sess") THEN More(frame) ELSE midway)
    /\ UNCHANGED <<kind, sockVars, engine, conns, half, given, pending, session, ownVars>>

\* pull_msg: PUB's frames may be taken in two calls, when the engine's batch
\* is full between them.
Pull ==
    /\ engine /\ Has(net, "sess") /\ CanRead(net, "sess")
    /\ net' = (IF kind = "PUB" THEN Read(net, "sess") ELSE ReadMessage(net, "sess"))
    /\ half' = (IF net'.got = net.got THEN half ELSE More(Last(net'.got["sess"])))
    /\ given' = (given \/ net'.got # net.got)
    /\ UNCHANGED <<kind, sockVars, engine, conns, midway, pending, session, ownVars>>

\* clean_pipes: no half message is left in the one queue or in the other.
CleanPipes(n) ==
    LET m == Rollback(n, "sess") IN IF half THEN Read(m, "sess") ELSE m

\* Faulty: SUB reconnects as REQ does.  Breaks Resubscribes.
FaultyEngineError ==
    /\ engine
    /\ engine' = FALSE /\ half' = FALSE
    /\ LET pipe == Has(net, "sess")
           n == IF pipe THEN CleanPipes(net) ELSE net
           m == CASE Connects -> n
                  [] ~Connects /\ pending -> IF pipe THEN Terminate(n, "sess", FALSE) ELSE n
                  [] OTHER -> Send(n, "sess", "term_req", 0)
       IN net' = (IF pipe THEN CheckRead(m, "sess") ELSE m)
    /\ UNCHANGED <<kind, sockVars, conns, midway, given, pending, session, ownVars>>

\* engine_error: the connection is lost.  A SUB session hiccups as it
\* reconnects; an accepted one asks its owner to terminate it.
EngineError ==
    /\ engine
    /\ engine' = FALSE /\ half' = FALSE
    /\ LET pipe == Has(net, "sess")
           n == IF pipe THEN CleanPipes(net) ELSE net
           m == CASE kind = "REQ" -> n
                  [] kind = "SUB" -> IF pipe THEN Hiccup(n, "sess") ELSE n
                  [] ~Connects /\ pending -> IF pipe THEN Terminate(n, "sess", FALSE) ELSE n
                  [] OTHER -> Send(n, "sess", "term_req", 0)
       IN net' = (IF pipe THEN CheckRead(m, "sess") ELSE m)
    /\ UNCHANGED <<kind, sockVars, conns, midway, given, pending, session, ownVars>>

-----------------------------------------------------------------------------
(* Commands to pipe_t *)

Command(e) == Head(net.mail[e])
Arrives(e, type) == net.mail[e] # <<>> /\ Command(e)[1] = type
Rest(e) == [net EXCEPT !.mail[e] = Tail(@)]
State(e) == net.end[e].state

\* read_activated: PUB takes the subscriptions, a session without an engine
\* looks for a delimiter.  The others read when they are asked to.
Activated(n, e) ==
    IF e = "sock" THEN IF kind = "PUB" THEN ReadAll(n, e) ELSE n
    ELSE IF engine THEN n ELSE CheckRead(n, e)

ActivateRead(e) ==
    /\ Arrives(e, "activate_read")
    /\ net' = (IF ~net.end[e].inActive /\ State(e) \in {"active", "waiting_for_delimiter"}
               THEN Activated([Rest(e) EXCEPT !.end[e].inActive = TRUE], e)
               ELSE Rest(e))
    /\ UNCHANGED <<kind, sockVars, sessVars, ownVars>>

ActivateWrite(e) ==
    /\ Arrives(e, "activate_write")
    /\ net' = [Rest(e) EXCEPT !.end[e].peersRead = Command(e)[2],
                              !.end[e].outActive = @ \/ State(e) = "active"]
    /\ UNCHANGED <<kind, sockVars, sessVars, ownVars>>

\* Faulty: what the hiccup throws away stays counted.  Breaks FlowControl.
FaultyProcessHiccup ==
    /\ Arrives("sock", "hiccup")
    /\ LET old == net.end["sock"].out
           n == [Rest("sock") EXCEPT
                    !.queue[old] = [NewQueue EXCEPT !.deleted = TRUE],
                    !.end["sock"].out = Command("sock")[2],
                    !.end["sock"].outActive = TRUE]
       IN net' = (IF State("sock") = "active" /\ net.sent["sock"] # <<>>
                  THEN Write(n, "sock", First(n, "sock")) ELSE n)
    /\ UNCHANGED <<kind, sockVars, sessVars, ownVars>>

\* process_hiccup: the old queue is emptied and deleted, xsub_t sends its
\* subscription again.
ProcessHiccup ==
    /\ Arrives("sock", "hiccup")
    /\ LET old == net.end["sock"].out
           unread == Count(net.queue[old].ready)
           n == [Rest("sock") EXCEPT
                    !.queue[old] = [NewQueue EXCEPT !.deleted = TRUE],
                    !.end["sock"].written = @ - unread,
                    !.end["sock"].out = Command("sock")[2],
                    !.end["sock"].outActive = TRUE]
       IN net' = (IF State("sock") = "active" /\ net.sent["sock"] # <<>>
                  THEN Write(n, "sock", First(n, "sock")) ELSE n)
    /\ UNCHANGED <<kind, sockVars, sessVars, ownVars>>

\* Faulty: the delay is not looked at.  Breaks NothingPromisedIsDropped.
FaultyPipeTerm(e) ==
    /\ Arrives(e, "pipe_term")
    /\ net' = (IF State(e) = "term_req_sent1"
               THEN Acknowledge(Rest(e), e, "term_req_sent2")
               ELSE Acknowledge(Rest(e), e, "term_ack_sent"))
    /\ UNCHANGED <<kind, sockVars, sessVars, ownVars>>

PipeTerm(e) ==
    /\ Arrives(e, "pipe_term")
    /\ net' = (CASE State(e) = "active" /\ net.end[e].delay ->
                      Goto(Rest(e), e, "waiting_for_delimiter")
                 [] State(e) = "term_req_sent1" ->
                      Acknowledge(Rest(e), e, "term_req_sent2")
                 [] OTHER -> Acknowledge(Rest(e), e, "term_ack_sent"))
    /\ UNCHANGED <<kind, sockVars, sessVars, ownVars>>

\* The end is deleted, with the queue it reads from.
Deallocate(n, e) ==
    LET m == IF n.end[e].state = "term_req_sent1"
             THEN Acknowledge(n, e, "deleted") ELSE Goto(n, e, "deleted")
    IN [m EXCEPT !.queue[n.end[e].in] = [NewQueue EXCEPT !.deleted = TRUE]]

\* socket_base_t::pipe_terminated, which forgets the pipe.
SocketPipeTermAck ==
    /\ Arrives("sock", "pipe_term_ack")
    /\ net' = Deallocate(Rest("sock"), "sock")
    /\ termAcks' = (IF closed THEN termAcks - 1 ELSE termAcks)
    /\ sending' = (IF sending = "written" THEN "dropped" ELSE sending)
    /\ UNCHANGED <<kind, attached, closed, seqnum, sessVars, ownVars>>

\* own_t's last ack is for the owner of the session: the socket or its listener.
Confirm(n) == IF Connects THEN Send(n, "sock", "term_ack", 0)
              ELSE Send(n, "sess", "child_ack", 0)

\* session_base_t::pipe_terminated.
SessionPipeTermAck ==
    /\ Arrives("sess", "pipe_term_ack")
    /\ net' = Deallocate(IF pending THEN Confirm(Rest("sess")) ELSE Rest("sess"), "sess")
    /\ IF pending THEN session' = "deleted" /\ engine' = FALSE
       ELSE UNCHANGED <<session, engine>>
    /\ UNCHANGED <<kind, sockVars, conns, wire, pending, ownVars>>

-----------------------------------------------------------------------------
(* Commands to the socket, the session and its listener *)

\* Faulty: the ack of a pipe that comes late is not waited for.  Breaks TypeOK.
FaultyBind ==
    /\ Arrives("sock", "bind")
    /\ attached' = TRUE /\ seqnum' = seqnum - 1
    /\ LET n == IF kind = "PUB"
                THEN ReadAll([Rest("sock") EXCEPT !.end["sock"].delay = FALSE], "sock")
                ELSE Rest("sock")
       IN net' = (IF closed THEN Terminate(n, "sock", FALSE) ELSE n)
    /\ UNCHANGED <<kind, closed, termAcks, sending, sessVars, ownVars>>

\* process_bind and attach_pipe: PUB sets nodelay and reads.
Bind ==
    /\ Arrives("sock", "bind")
    /\ attached' = TRUE /\ seqnum' = seqnum - 1
    /\ LET n == IF kind = "PUB"
                THEN ReadAll([Rest("sock") EXCEPT !.end["sock"].delay = FALSE], "sock")
                ELSE Rest("sock")
       IN net' = (IF closed THEN Terminate(n, "sock", FALSE) ELSE n)
    /\ termAcks' = (IF closed THEN termAcks + 1 ELSE termAcks)
    /\ UNCHANGED <<kind, closed, sending, sessVars, ownVars>>

\* Faulty: the ack of the new child is not waited for.
\* Breaks CommandsFindTheirTarget.
FaultyOwn ==
    /\ Arrives("sock", "own")
    /\ seqnum' = seqnum - 1
    /\ net' = (IF closed THEN Send(Rest("sock"), "sess", "term", 0) ELSE Rest("sock"))
    /\ owner' = (IF closed THEN "asked" ELSE "owned")
    /\ UNCHANGED <<kind, attached, closed, termAcks, sending, sessVars, listener>>

\* process_own: a socket that is closing asks the new child to terminate.
Own ==
    /\ Arrives("sock", "own")
    /\ seqnum' = seqnum - 1
    /\ net' = (IF closed THEN Send(Rest("sock"), "sess", "term", 0) ELSE Rest("sock"))
    /\ owner' = (IF closed THEN "asked" ELSE "owned")
    /\ termAcks' = (IF closed THEN termAcks + 1 ELSE termAcks)
    /\ UNCHANGED <<kind, attached, closed, sending, sessVars, listener>>

\* The socket's child, a session or a listener, has gone.
TermAck ==
    /\ Arrives("sock", "term_ack")
    /\ net' = Rest("sock")
    /\ termAcks' = termAcks - 1
    /\ UNCHANGED <<kind, attached, closed, seqnum, sending, sessVars, ownVars>>

\* Faulty: a session without a pipe waits for one.  Breaks CloseCompletes.
FaultyTerm ==
    /\ Arrives("sess", "term")
    /\ pending' = TRUE
    /\ LET n == Terminate(Rest("sess"), "sess", Lingers)
       IN net' = (IF ~Has(net, "sess") THEN Rest("sess")
                  ELSE IF engine THEN n ELSE CheckRead(n, "sess"))
    /\ UNCHANGED <<kind, sockVars, engine, conns, wire, session, ownVars>>

\* session_base_t::process_term.
Term ==
    /\ Arrives("sess", "term")
    /\ IF Has(net, "sess")
       THEN /\ pending' = TRUE
            /\ LET n == Terminate(Rest("sess"), "sess", Lingers)
               IN net' = (IF engine THEN n ELSE CheckRead(n, "sess"))
            /\ UNCHANGED <<session, engine>>
       ELSE /\ net' = Confirm(Rest("sess"))
            /\ session' = "deleted" /\ engine' = FALSE
            /\ UNCHANGED pending
    /\ UNCHANGED <<kind, sockVars, conns, wire, ownVars>>

\* The listener is told to terminate, and tells the session it owns.
TermListener ==
    /\ Arrives("sess", "term_listener")
    /\ listener' = "closing"
    /\ net' = (CASE owner = "owned" -> Send(Rest("sess"), "sess", "term", 0)
                 [] owner = "asked" -> Rest("sess")
                 [] owner = "freed" -> Send(Rest("sess"), "sock", "term_ack", 0))
    /\ owner' = (IF owner = "owned" THEN "asked" ELSE owner)
    /\ UNCHANGED <<kind, sockVars, sessVars>>

\* Faulty: the session is struck off and not told.  Breaks DisconnectReleases.
FaultyTermReq ==
    /\ Arrives("sess", "term_req")
    /\ net' = Rest("sess")
    /\ owner' = (IF listener = "open" /\ owner = "owned" THEN "asked" ELSE owner)
    /\ UNCHANGED <<kind, sockVars, sessVars, listener>>

\* process_term_req: a session whose engine is lost asks to be terminated.
TermReq ==
    /\ Arrives("sess", "term_req")
    /\ IF listener = "open" /\ owner = "owned"
       THEN net' = Send(Rest("sess"), "sess", "term", 0) /\ owner' = "asked"
       ELSE net' = Rest("sess") /\ UNCHANGED owner
    /\ UNCHANGED <<kind, sockVars, sessVars, listener>>

ChildAck ==
    /\ Arrives("sess", "child_ack")
    /\ owner' = "freed"
    /\ net' = (IF listener = "closing" THEN Send(Rest("sess"), "sock", "term_ack", 0)
               ELSE Rest("sess"))
    /\ UNCHANGED <<kind, sockVars, sessVars, listener>>

-----------------------------------------------------------------------------

SocketCommand == \/ ActivateRead("sock") \/ ActivateWrite("sock") \/ PipeTerm("sock")
                 \/ ProcessHiccup \/ SocketPipeTermAck \/ Bind \/ Own \/ TermAck
SessionCommand == \/ ActivateRead("sess") \/ ActivateWrite("sess") \/ PipeTerm("sess")
                  \/ SessionPipeTermAck \/ Term \/ TermListener \/ TermReq \/ ChildAck

Next == \/ SendWhole \/ SendFirst \/ SendLast \/ Receive \/ ReceiveRequest \/ Close
        \/ EngineReady \/ Push \/ Pull \/ EngineError
        \/ SocketCommand \/ SessionCommand

\* I/O threads and the reaper process their commands; Subscriber's and
\* Responder's threads are in recv again and again, Responder's answers what it
\* reads; TCP takes what is pulled for it.
Fairness ==
    /\ WF_vars(SessionCommand)
    /\ WF_vars((closed \/ kind \in {"SUB", "REP"}) /\ SocketCommand)
    /\ WF_vars(Pull)
    /\ WF_vars(kind = "SUB" /\ Receive) /\ WF_vars(ReceiveRequest) /\ WF_vars(kind = "REP" /\ SendLast)

Spec == Init /\ [][Next]_vars /\ Fairness

-----------------------------------------------------------------------------
(* Properties *)

\* The assertions of process_pipe_term, process_pipe_term_ack, process_hiccup
\* and session_base_t::process_term, and what no assertion can say: a command
\* never reaches an end, a session or a socket that was deleted.
Expected(e, type) ==
    CASE type \in {"activate_read", "activate_write"} -> Has(net, e)
      [] type = "pipe_term" -> State(e) \in {"active", "delimiter_received", "term_req_sent1"}
      [] type = "pipe_term_ack" -> State(e) \in {"term_ack_sent", "term_req_sent1", "term_req_sent2"}
      [] type = "hiccup" -> Has(net, e) /\ net.end[e].out # NULL
      [] type = "term" -> session = "alive" /\ ~pending
      [] OTHER -> TRUE

CommandsFindTheirTarget ==
    /\ \A e \in End : net.mail[e] # <<>> => Expected(e, Command(e)[1])
    /\ Gone => /\ session = "deleted" /\ ~Has(net, "sock") /\ ~Has(net, "sess")
               /\ \A e \in End : net.mail[e] = <<>>

\* A queue is deleted by the end that reads it, or by the one that writes it
\* after a hiccup: never while an end still points to it, and always at last.
QueuesAreFreedOnce ==
    /\ \A e \in End : Has(net, e) =>
           /\ ~InQueue(net, e).deleted
           /\ net.end[e].out # NULL => ~OutQueue(net, e).deleted
    /\ (Gone /\ \E e \in End : State(e) = "deleted") =>
           \A q \in DOMAIN net.queue : net.queue[q].deleted

\* The assertions of fq_t::recvpipe and clean_pipes: once the first frame of a
\* message is read the last one can be.  What is read is what was sent, in
\* order; only a SUB's subscriptions may be lost, with an abandoned queue.
MessagesAreWhole ==
    /\ \A e \in End : (IF e = "sess" THEN engine /\ half /\ Has(net, e) ELSE Usable /\ HalfRead(e)) =>
           /\ CanRead(net, e) /\ InQueue(net, e).ready # <<>>
           /\ Head(InQueue(net, e).ready) = <<Last(net.got[e])[1], FALSE>>
    /\ \A e \in End : ~(e = "sock" /\ kind = "SUB") => IsPrefix(net.got[Peer(e)], net.sent[e])
    /\ \A e \in End : Frames(e) = 2 =>
           \A i \in DOMAIN net.sent[e] : More(net.sent[e][i]) <=> i % 2 = 1

\* The counters of written and read messages differ by what is in the queue,
\* whatever hiccups have thrown away, and never by more than the high water mark.
FlowControl ==
    \A e \in End : State(e) = "active" =>
        LET unread == net.end[e].written - net.end[Peer(e)].read
        IN unread = Count(OutQueue(net, e).ready) /\ unread <= HWM

\* Linger: a session whose connection holds is deleted only when it has taken
\* all its socket has sent.  And a Responder reads every request that had
\* arrived before the connection broke.
NothingPromisedIsDropped ==
    [][ /\ (Lingers /\ engine /\ session' = "deleted")
              => net.got["sess"] = net.sent["sock"]
        /\ (kind = "REP" /\ ~closed /\ Has(net, "sock") /\ State("sock")' = "deleted")
              => net.got["sock"] = net.sent["sess"] ]_vars

\* A session that lost its engine just before it was told that the pipe ends
\* waits for a delimiter behind messages that nobody will take.
Stranded ==
    /\ pending /\ ~engine /\ Lingers /\ State("sess") = "waiting_for_delimiter"
    /\ Head(InQueue(net, "sess").ready) # DELIMITER

\* A closed socket goes away, with its pipe, session and listener, unless its
\* session is stranded.
CloseCompletes == closed ~> (Gone \/ Stranded)

\* Every connection of a Subscriber is given the subscription.
Resubscribes ==
    (kind = "SUB" /\ engine /\ net.sent["sock"] # <<>>) ~> (given \/ ~engine \/ closed)

\* An engine that was stopped by a full pipe is started again.
InputResumes ==
    (kind \in {"SUB", "REP"} /\ State("sess") = "active" /\ ~net.end["sess"].outActive)
        ~> (net.end["sess"].outActive \/ State("sess") # "active" \/ closed)

\* A Responder does not keep the pipes of clients that have gone.
DisconnectReleases ==
    (kind = "REP" /\ conns > 0 /\ ~engine) ~> (State("sock") = "deleted" \/ closed)

=============================================================================
