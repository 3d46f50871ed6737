---------------------------- MODULE Pipe_proofs -----------------------------
(***************************************************************************)
(* Proofs about Pipe, for every set of kinds of socket and every bound.    *)
(*                                                                         *)
(* The invariant IInv has two layers about what the threads share, the     *)
(* net, and two about the objects that own the ends:                       *)
(*                                                                         *)
(*   PairInv     which states the two ends of the pipe may be in at a      *)
(*               time, and which commands are then on their way between    *)
(*               them (EndOK, from the side of each end);                  *)
(*   QueueInv    which queues exist, who points to them and which are      *)
(*               freed, given the hiccups that have not arrived;           *)
(*   SessionInv  the session, its owner and the commands they exchange;    *)
(*   SocketInv   the socket, and what its count of acknowledgements (and   *)
(*               of commands it has still to get) stands for.              *)
(*                                                                         *)
(* A method of pipe_t called by one end is a Step: it keeps PairInv, and   *)
(* shows the owners of the ends (Keeps) and the queues (Shape) only what   *)
(* leaves the other layers true. The lemmas ...Effect say what a method    *)
(* does to the fields of the net, those named ...Step that it is a Step,   *)
(* those named ...Inv that an action keeps IInv.                           *)
(*                                                                         *)
(* A fifth layer, Flows, is about the counts of messages by which the ends *)
(* keep to the high water mark, and rests on the first two. Most of what   *)
(* happens writes and reads nothing (Still); a reader (Drawn) changes the  *)
(* counts of its peer, a writer (Filled) its own. The lemmas named         *)
(* ...Layer say that a method keeps the layer, ...Flows that an action.    *)
(***************************************************************************)
EXTENDS Pipe, TLAPS, FiniteSetTheorems

------------------------------------------------------------------------------
(* The invariant *)

\* A frame on its way: its message's number and its more flag.
Frame == Nat \X BOOLEAN

\* The commands that one end of the pipe sends to the other.
PipeTypes == {"activate_read", "activate_write", "pipe_term", "pipe_term_ack", "hiccup"}

\* The commands between socket, session and listener.
OwnTypes == {"own", "bind", "term", "term_ack", "term_listener", "term_req", "child_ack"}

\* A ypipe of frames.
QueueType == [ready : Seq(Frame), part : Seq(Frame), asleep : BOOLEAN, deleted : BOOLEAN]

\* A command and its argument.
Cmd == (PipeTypes \cup OwnTypes) \X Nat

\* What the two threads of a connection share.
NetType == [end : [End -> EndType], queue : Seq(QueueType),
            mail : [End -> Seq(Cmd)],
            sent : [End -> Seq(Frame)], got : [End -> Seq(Frame)]]

\* The states of an end that has sent pipe_term_ack, and so writes no more; and
\* those of an end that has not been asked for one.
Silent == {"term_ack_sent", "term_req_sent2", "deleted"}
Unasked == {"active", "delimiter_received", "term_req_sent1"}

\* The types of the commands in a mailbox.
Types(m) == {m[i][1] : i \in DOMAIN m}

\* Which command may come before which in a mailbox: an end says nothing after
\* its acknowledgement; it asks for its end once, after its last hiccup; a pipe
\* is bound before any command goes through it.
Before(a, b) ==
  /\ a = "pipe_term_ack" => b \notin PipeTypes
  /\ a = "pipe_term" => b \notin {"pipe_term","hiccup"}
  /\ b = "bind" => a \notin PipeTypes
  /\ a = "child_ack" => b # "term_req"
  /\ a \notin {"activate_read","activate_write","hiccup"} => a # b

\* The commands of a mailbox are in an order in which they may be sent.
Ordered(m) == \A i, j \in DOMAIN m : i < j => Before(m[i][1], m[j][1])

\* The states t in which the peer may be of an end that is in state s.
Compatible(s, t) ==
  /\ s = "none" <=> t = "none"
  /\ s \in {"active", "delimiter_received"} => t \in Unasked
  /\ s = "waiting_for_delimiter" => t = "term_req_sent1"
  /\ s = "term_ack_sent" => t \in {"term_req_sent1", "deleted"}
  /\ s = "term_req_sent2" => t \in {"term_req_sent1", "term_req_sent2", "deleted"}
  /\ s = "deleted" => t \in Silent

\* An end e in state s with the peer in state t: its queue out, and mail, the
\* mailbox through which it sends. A pipe_term or an acknowledgement is on its
\* way exactly when the sender has sent it and the peer has not seen it.
EndOK(e, s, t, out, mail) ==
  LET to == Types(mail)
  IN /\ Compatible(s, t)
     /\ out = NULL <=> s \in Silent
     /\ "pipe_term" \in to <=> s \in {"term_req_sent1", "term_req_sent2"} /\ t \in Unasked
     /\ "pipe_term_ack" \in to <=> s \in Silent /\ t # "deleted"
     /\ t \in {"none", "deleted"} => to \cap PipeTypes = {}
     /\ "hiccup" \in to => t \in Unasked /\ e = "sess"
     /\ Ordered(mail)

\* EndOK of the end e of n.
EndInv(n, e) ==
  EndOK(e, n.end[e].state, n.end[Peer(e)].state, n.end[e].out, n.mail[Peer(e)])

\* The ends point to queues that exist.
RefInv(n) == \A e \in End : /\ n.end[e].in \in DOMAIN n.queue
                          /\ n.end[e].out \in {NULL} \cup DOMAIN n.queue

\* The states of the ends agree with each other and with the commands between them.
PairInv(n) == n \in NetType /\ RefInv(n) /\ EndInv(n, "sock") /\ EndInv(n, "sess")

\* The commands waiting for the socket, and for the session.
SockMail == Types(net.mail["sock"])
SessMail == Types(net.mail["sess"])

\* One acknowledgement, if it is due.
OneIf(b) == IF b THEN 1 ELSE 0

\* An acknowledgement that a closed socket has still to get: from its pipe, from
\* its child (the session it has connected, or the listener, which first waits
\* for its session).
PipeDue == attached /\ Has(net, "sock")
ChildDue == IF Connects THEN owner = "asked" /\ (session = "alive" \/ "term_ack" \in SockMail)
            ELSE ~(listener = "closing" /\ owner = "freed") \/ "term_ack" \in SockMail

\* The session, its owner, and the commands by which they end each other.
SessionInv ==
  /\ engine => session = "alive"
  /\ session = "deleted" => ~Has(net, "sess")
  /\ owner \in {"launched", "owned"} => ~pending /\ session = "alive"
  /\ "term" \in SessMail => owner = "asked" /\ ~pending /\ session = "alive"
  /\ owner = "launched" => Connects
  /\ owner = "freed" => /\ ~Connects /\ session = "deleted"
                        /\ "child_ack" \notin SessMail /\ "term_req" \notin SessMail
  /\ "child_ack" \in SessMail => ~Connects /\ session = "deleted" /\ owner = "asked"
  /\ session = "deleted" /\ ~Connects => owner = "freed" \/ "child_ack" \in SessMail
  /\ "term_req" \in SessMail => ~Connects /\ conns = 1 /\ ~engine
  /\ "term_listener" \in SessMail => ~Connects /\ closed /\ listener = "open"
  /\ ~Connects /\ closed => listener = "closing" \/ "term_listener" \in SessMail
  /\ listener = "closing" => closed /\ ~Connects
  /\ engine => conns # 0
  /\ "own" \notin SessMail /\ "bind" \notin SessMail /\ "term_ack" \notin SessMail

\* The socket: what it has still to hear before it is freed is what termAcks and
\* seqnum count.
SocketInv ==
  /\ kind \in Kind
  /\ Connects => attached /\ net.end["sock"].state # "none"
  /\ ~Connects => /\ conns <= 1
                  /\ net.end["sock"].state = "none" <=> conns = 0
                  /\ attached => conns = 1
  /\ "own" \in SockMail <=> owner = "launched"
  /\ "bind" \in SockMail <=> ~attached /\ conns = 1
  /\ ~attached /\ conns = 1 => State("sock") = "active"
  /\ seqnum = OneIf("own" \in SockMail \/ "bind" \in SockMail)
  /\ "term_ack" \in SockMail => /\ closed /\ session = "deleted"
                                /\ IF Connects THEN owner = "asked"
                                   ELSE listener = "closing" /\ owner = "freed"
  /\ Connects => owner \in (IF closed THEN {"launched", "asked"} ELSE {"launched", "owned"})
  /\ termAcks = (IF closed THEN OneIf(PipeDue) + OneIf(ChildDue) ELSE 0)
  /\ "term" \notin SockMail /\ "term_listener" \notin SockMail
  /\ "term_req" \notin SockMail /\ "child_ack" \notin SockMail

\* The hiccups in the socket's mailbox name the queues after the one it writes to,
\* in their order, each once.
HiccupsOK(mail, out, last) ==
  /\ \A i \in DOMAIN mail : mail[i][1] = "hiccup" => out < mail[i][2] /\ mail[i][2] <= last
  /\ \A i, j \in DOMAIN mail : i < j /\ mail[i][1] = "hiccup" /\ mail[j][1] = "hiccup" => mail[i][2] < mail[j][2]
  /\ out # NULL => \A q \in out + 1 .. last : \E i \in DOMAIN mail : mail[i] = <<"hiccup", q>>

\* Queue 1 carries frames to the socket and is freed with the socket's end. The
\* others carry frames from it: the session reads the last one, the socket writes
\* to one of them, and those before that one are freed.
QueueInv(n) ==
  LET last == Len(n.queue) out == n.end["sock"].out IN
  /\ last >= 2 /\ n.end["sock"].in = 1 /\ n.end["sess"].in = last
  /\ n.end["sock"].state = "none" => last = 2
  /\ n.end["sess"].out \in {NULL, 1} /\ out # 1
  /\ n.queue[1].deleted <=> n.end["sock"].state = "deleted"
  /\ n.queue[last].deleted <=> n.end["sess"].state = "deleted"
  /\ \A q \in 2 .. last - 1 : n.queue[q].deleted <=> out = NULL \/ q < out
  /\ HiccupsOK(n.mail["sock"], out, last)

\* The inductive invariant.
IInv == TypeOK /\ PairInv(net) /\ QueueInv(net) /\ SessionInv /\ SocketInv

------------------------------------------------------------------------------
(* Mailboxes *)

\* What a mailbox holds once a command is added to it.
LEMMA Appended ==
    ASSUME NEW S, NEW m \in Seq(S), NEW c \in S
    PROVE  /\ Append(m, c) \in Seq(S)
           /\ Types(Append(m, c)) = Types(m) \cup {c[1]}
           /\ Ordered(m) /\ (\A t \in Types(m) : Before(t, c[1])) => Ordered(Append(m, c))
<1> DEFINE a == Append(m, c)
<1>1. /\ a \in Seq(S) /\ Len(m) \in Nat /\ Len(a) = Len(m) + 1
      /\ DOMAIN a = 1 .. Len(m) + 1 /\ DOMAIN m = 1 .. Len(m)
      /\ \A i \in 1 .. Len(m) : a[i] = m[i]
      /\ a[Len(m) + 1] = c
    OBVIOUS
<1>2. \A i \in DOMAIN a : \/ i \in DOMAIN m /\ a[i] = m[i]
                          \/ i = Len(m) + 1 /\ a[i] = c
    BY <1>1
<1>3. \A i \in DOMAIN m : i \in DOMAIN a /\ a[i] = m[i]
    BY <1>1
<1>4. Len(m) + 1 \in DOMAIN a
    BY <1>1
<1> HIDE DEF a
<1>5. Types(a) = Types(m) \cup {c[1]}
    BY <1>1, <1>2, <1>3, <1>4 DEF Types
<1>6. ASSUME Ordered(m), \A t \in Types(m) : Before(t, c[1]) PROVE Ordered(a)
    <2> SUFFICES ASSUME NEW i \in DOMAIN a, NEW j \in DOMAIN a, i < j
                 PROVE  Before(a[i][1], a[j][1])
        BY DEF Ordered
    <2>1. i \in DOMAIN m /\ a[i] = m[i]
        BY <1>1, <1>2
    <2>2. CASE j \in DOMAIN m
        BY <2>1, <2>2, <1>3, <1>6 DEF Ordered
    <2>3. CASE j \notin DOMAIN m
        <3>1. a[j] = c /\ m[i][1] \in Types(m)
            BY <1>2, <2>1, <2>3 DEF Types
        <3> QED BY <2>1, <3>1, <1>6
    <2> QED BY <2>2, <2>3
<1> QED BY <1>1, <1>5, <1>6 DEF a

\* What a mailbox holds once its first command is taken.
LEMMA Taken ==
    ASSUME NEW S, NEW m \in Seq(S), m # <<>>
    PROVE  /\ Head(m) \in S /\ Tail(m) \in Seq(S)
           /\ Types(m) = Types(Tail(m)) \cup {Head(m)[1]}
           /\ Ordered(m) => /\ Ordered(Tail(m))
                            /\ \A t \in Types(Tail(m)) : Before(Head(m)[1], t)
<1> DEFINE r == Tail(m)
<1>1. /\ r \in Seq(S) /\ Len(m) \in Nat \ {0} /\ DOMAIN m = 1 .. Len(m)
      /\ DOMAIN r = 1 .. Len(m) - 1
      /\ \A i \in 1 .. Len(m) - 1 : r[i] = m[i + 1]
      /\ Head(m) = m[1] /\ m[1] \in S
    OBVIOUS
<1> HIDE DEF r
<1>2. \A i \in DOMAIN r : i + 1 \in DOMAIN m /\ 1 < i + 1 /\ r[i] = m[i + 1]
    BY <1>1
<1>3. \A i \in DOMAIN m : \/ i = 1
                          \/ i - 1 \in DOMAIN r /\ r[i - 1] = m[i]
    BY <1>1
<1>4. Types(m) = Types(r) \cup {Head(m)[1]}
    <2>1. \A i \in DOMAIN r : r[i][1] \in Types(m)
        BY <1>2 DEF Types
    <2>2. \A i \in DOMAIN m : m[i][1] \in Types(r) \cup {Head(m)[1]}
        BY <1>1, <1>3 DEF Types
    <2>3. Head(m)[1] \in Types(m)
        BY <1>1 DEF Types
    <2> QED BY <2>1, <2>2, <2>3 DEF Types
<1>5. ASSUME Ordered(m) PROVE Ordered(r)
    <2> SUFFICES ASSUME NEW i \in DOMAIN r, NEW j \in DOMAIN r, i < j
                 PROVE  Before(r[i][1], r[j][1])
        BY DEF Ordered
    <2>1. i + 1 < j + 1 /\ i + 1 \in DOMAIN m /\ j + 1 \in DOMAIN m
        BY <1>1, <1>2
    <2> QED BY <2>1, <1>2, <1>5 DEF Ordered
<1>6. ASSUME Ordered(m), NEW t \in Types(r) PROVE Before(Head(m)[1], t)
    <2>1. PICK i \in DOMAIN r : t = r[i][1]
        BY DEF Types
    <2>2. 1 \in DOMAIN m /\ 1 < i + 1 /\ i + 1 \in DOMAIN m /\ r[i] = m[i + 1]
        BY <1>1, <1>2
    <2> QED BY <1>1, <1>6, <2>1, <2>2 DEF Ordered
<1> QED BY <1>1, <1>4, <1>5, <1>6 DEF r

\* The reports of ReadAll, all of one type, behind what a mailbox holds.
LEMMA Joined ==
    ASSUME NEW S, NEW m \in Seq(S), NEW r \in Seq(S), NEW t, Types(r) \subseteq {t}
    PROVE  /\ m \o r \in Seq(S)
           /\ Types(m \o r) = Types(m) \cup Types(r)
           /\ Ordered(m) /\ Before(t, t) /\ (\A u \in Types(m) : Before(u, t)) => Ordered(m \o r)
<1> DEFINE a == m \o r
<1>1. /\ a \in Seq(S) /\ Len(m) \in Nat /\ Len(r) \in Nat
      /\ DOMAIN a = 1 .. Len(m) + Len(r) /\ DOMAIN m = 1 .. Len(m) /\ DOMAIN r = 1 .. Len(r)
      /\ \A i \in 1 .. Len(m) : a[i] = m[i]
      /\ \A i \in 1 .. Len(m) + Len(r) : i > Len(m) => a[i] = r[i - Len(m)]
      /\ \A i \in 1 .. Len(r) : a[i + Len(m)] = r[i]
    OBVIOUS
<1> HIDE DEF a
<1>2. \A i \in DOMAIN a : \/ i \in DOMAIN m /\ a[i] = m[i]
                          \/ i > Len(m) /\ i - Len(m) \in DOMAIN r /\ a[i] = r[i - Len(m)]
    BY <1>1
<1>3. /\ \A i \in DOMAIN m : i \in DOMAIN a /\ a[i] = m[i]
      /\ \A i \in DOMAIN r : i + Len(m) \in DOMAIN a /\ a[i + Len(m)] = r[i]
    BY <1>1
<1>4. Types(a) = Types(m) \cup Types(r)
    <2>1. \A i \in DOMAIN a : a[i][1] \in Types(m) \cup Types(r)
        BY <1>2 DEF Types
    <2>2. \A i \in DOMAIN m : m[i][1] \in Types(a)
        BY <1>3 DEF Types
    <2>3. \A i \in DOMAIN r : r[i][1] \in Types(a)
        BY <1>3 DEF Types
    <2> QED BY <2>1, <2>2, <2>3 DEF Types
<1>5. ASSUME Ordered(m), Before(t, t), \A u \in Types(m) : Before(u, t) PROVE Ordered(a)
    <2> SUFFICES ASSUME NEW i \in DOMAIN a, NEW j \in DOMAIN a, i < j
                 PROVE  Before(a[i][1], a[j][1])
        BY DEF Ordered
    <2>1. CASE j <= Len(m)
        <3>1. i \in DOMAIN m /\ j \in DOMAIN m /\ a[i] = m[i] /\ a[j] = m[j]
            BY <2>1, <1>1
        <3> QED BY <3>1, <1>5 DEF Ordered
    <2>2. CASE j > Len(m)
        <3>1. a[j][1] \in Types(r)
          <4>1. j - Len(m) \in DOMAIN r /\ a[j] = r[j - Len(m)]
            BY <2>2, <1>1, <1>2
          <4> QED BY <4>1 DEF Types
        <3>2. a[j][1] = t
            BY <3>1
        <3>3. a[i][1] \in Types(m) \cup Types(r)
            BY <1>4 DEF Types
        <3> QED BY <3>2, <3>3, <1>5
    <2> QED BY <2>1, <2>2, <1>1
<1> QED BY <1>1, <1>4, <1>5 DEF a

------------------------------------------------------------------------------
(* What the methods of pipe_t do to the fields *)

\* The types of the fields of a net.
LEMMA NetFields ==
    ASSUME NEW n \in NetType
    PROVE  /\ n.end \in [End -> EndType] /\ n.queue \in Seq(QueueType)
           /\ n.mail \in [End -> Seq(Cmd)] /\ n.sent \in [End -> Seq(Frame)]
           /\ n.got \in [End -> Seq(Frame)]
           /\ \A q \in DOMAIN n.queue : n.queue[q] \in QueueType
           /\ \A e \in End : /\ n.end[e] \in EndType /\ n.mail[e] \in Seq(Cmd)
                             /\ n.sent[e] \in Seq(Frame) /\ n.got[e] \in Seq(Frame)
BY DEF NetType

\* A pipe has two ends.
LEMMA Ends ==
    ASSUME NEW e \in End
    PROVE  Peer(e) \in End /\ Peer(e) # e /\ Peer(Peer(e)) = e /\ \A x \in End : x = e \/ x = Peer(e)
BY DEF End, Peer

\* The types of the fields of a queue.
LEMMA QueueFields ==
    ASSUME NEW r \in QueueType
    PROVE  /\ r.ready \in Seq(Frame) /\ r.part \in Seq(Frame)
           /\ r.asleep \in BOOLEAN /\ r.deleted \in BOOLEAN
BY DEF QueueType

\* What send_command does.
LEMMA SendEffect ==
    ASSUME NEW n \in NetType, NEW e \in End, NEW type \in PipeTypes \cup OwnTypes, NEW arg \in Nat
    PROVE  LET m == Send(n, e, type, arg)
           IN /\ m \in NetType
              /\ m.end = n.end /\ m.queue = n.queue /\ m.sent = n.sent /\ m.got = n.got
              /\ m.mail[e] = Append(n.mail[e], <<type, arg>>) /\ m.mail[Peer(e)] = n.mail[Peer(e)]
<1>1. <<type, arg>> \in Cmd
    BY DEF Cmd
<1>2. [n.mail EXCEPT ![e] = Append(n.mail[e], <<type, arg>>)] \in [End -> Seq(Cmd)]
    BY <1>1, NetFields
<1> QED BY <1>2, Ends DEF NetType, Send

\* The same with the peer as the destination.
LEMMA SendPeer ==
    ASSUME NEW n \in NetType, NEW e \in End, NEW type \in PipeTypes \cup OwnTypes, NEW arg \in Nat
    PROVE  LET m == Send(n, Peer(e), type, arg)
           IN /\ m \in NetType
              /\ m.end = n.end /\ m.queue = n.queue /\ m.sent = n.sent /\ m.got = n.got
              /\ m.mail[Peer(e)] = Append(n.mail[Peer(e)], <<type, arg>>) /\ m.mail[e] = n.mail[e]
<1>1. Peer(e) \in End /\ Peer(Peer(e)) = e
    BY Ends
<1> DEFINE f == Peer(e)
<1>2. f \in End /\ Peer(f) = e
    BY <1>1
<1> HIDE DEF f
<1>3. LET m == Send(n, f, type, arg)
      IN /\ m \in NetType
         /\ m.end = n.end /\ m.queue = n.queue /\ m.sent = n.sent /\ m.got = n.got
         /\ m.mail[f] = Append(n.mail[f], <<type, arg>>) /\ m.mail[e] = n.mail[e]
    BY <1>2, SendEffect
<1> QED BY <1>3 DEF f

\* A sequence of queues of which one is changed.
LEMMA QueuePut ==
    ASSUME NEW Q \in Seq(QueueType), NEW q \in DOMAIN Q, NEW r \in QueueType
    PROVE  /\ [Q EXCEPT ![q] = r] \in Seq(QueueType)
           /\ DOMAIN [Q EXCEPT ![q] = r] = DOMAIN Q
           /\ Len([Q EXCEPT ![q] = r]) = Len(Q)
           /\ [Q EXCEPT ![q] = r][q] = r
           /\ \A p \in DOMAIN Q : p # q => [Q EXCEPT ![q] = r][p] = Q[p]
OBVIOUS

\* ypipe_t::write of a frame that more frames follow.
LEMMA PutPart ==
    ASSUME NEW n \in NetType, NEW e \in End, NEW frame \in Frame, More(frame),
           NEW q \in DOMAIN n.queue, q = n.end[e].out
    PROVE  LET m == Put(n, e, frame)
           IN /\ m \in NetType
              /\ m.end = n.end /\ m.got = n.got /\ m.mail = n.mail /\ m.sent = n.sent
              /\ DOMAIN m.queue = DOMAIN n.queue /\ Len(m.queue) = Len(n.queue)
              /\ \A p \in DOMAIN n.queue : p # q => m.queue[p] = n.queue[p]
              /\ m.queue[q].deleted = n.queue[q].deleted
              /\ m.queue[q].part = Append(n.queue[q].part, frame)
              /\ m.queue[q].ready = n.queue[q].ready
              /\ m.queue[q].asleep = n.queue[q].asleep
<1> DEFINE old == n.queue[q]
           all == Append(old.part, frame)
           new == [old EXCEPT !.part = all]
           Q == [n.queue EXCEPT ![q] = new]
<1>1. old \in QueueType /\ all \in Seq(Frame)
    BY NetFields, QueueFields
<1> HIDE DEF all
<1>2. new \in QueueType /\ new.part = all /\ new.ready = old.ready /\ new.asleep = old.asleep /\ new.deleted = old.deleted
    BY <1>1 DEF QueueType
<1> HIDE DEF new
<1>3. /\ Q \in Seq(QueueType) /\ DOMAIN Q = DOMAIN n.queue /\ Len(Q) = Len(n.queue) /\ Q[q] = new
      /\ \A p \in DOMAIN n.queue : p # q => Q[p] = n.queue[p]
    BY <1>2, NetFields, QueuePut
<1>4. Put(n, e, frame) = [n EXCEPT !.queue = Q]
    BY DEF Put, all, new
<1> HIDE DEF Q
<1>5. [n EXCEPT !.queue = Q] \in NetType
    BY <1>3 DEF NetType
<1>6. LET m == [n EXCEPT !.queue = Q] IN m.queue = Q /\ m.end = n.end /\ m.got = n.got /\ m.mail = n.mail /\ m.sent = n.sent
    BY DEF NetType
<1> QED BY <1>2, <1>3, <1>4, <1>5, <1>6 DEF all

\* The fields of an end in three groups, of which most methods change one.
Points(a, b) == a.in = b.in /\ a.out = b.out
Flags(a, b) == a.inActive = b.inActive /\ a.outActive = b.outActive /\ a.delay = b.delay
Counters(a, b) == a.read = b.read /\ a.written = b.written /\ a.peersRead = b.peersRead

\* The types of the fields of an end.
LEMMA EndFields ==
    ASSUME NEW r \in EndType
    PROVE  /\ r.state \in States /\ r.inActive \in BOOLEAN /\ r.outActive \in BOOLEAN
           /\ r.delay \in BOOLEAN /\ r.in \in Nat \ {0} /\ r.out \in Nat
           /\ r.read \in Nat /\ r.written \in Int /\ r.peersRead \in Nat
BY DEF EndType

\* One end is changed.
LEMMA WithEnd ==
    ASSUME NEW n \in NetType, NEW e \in End, NEW r \in EndType
    PROVE  LET m == [n EXCEPT !.end[e] = r]
           IN /\ m \in NetType
              /\ m.queue = n.queue /\ m.mail = n.mail /\ m.sent = n.sent /\ m.got = n.got
              /\ m.end[e] = r /\ m.end[Peer(e)] = n.end[Peer(e)]
<1> DEFINE E == [n.end EXCEPT ![e] = r]
<1>1. E \in [End -> EndType] /\ E[e] = r /\ E[Peer(e)] = n.end[Peer(e)]
    BY NetFields, Ends
<1>2. [n EXCEPT !.end[e] = r] = [n EXCEPT !.end = E]
    OBVIOUS
<1> HIDE DEF E
<1> QED BY <1>1, <1>2 DEF NetType

\* One queue is changed.
LEMMA WithQueue ==
    ASSUME NEW n \in NetType, NEW q \in DOMAIN n.queue, NEW r \in QueueType
    PROVE  LET m == [n EXCEPT !.queue[q] = r]
           IN /\ m \in NetType
              /\ m.end = n.end /\ m.mail = n.mail /\ m.sent = n.sent /\ m.got = n.got
              /\ DOMAIN m.queue = DOMAIN n.queue /\ Len(m.queue) = Len(n.queue)
              /\ m.queue[q] = r
              /\ \A p \in DOMAIN n.queue : p # q => m.queue[p] = n.queue[p]
<1> DEFINE Q == [n.queue EXCEPT ![q] = r]
<1>1. /\ Q \in Seq(QueueType) /\ DOMAIN Q = DOMAIN n.queue /\ Len(Q) = Len(n.queue) /\ Q[q] = r
      /\ \A p \in DOMAIN n.queue : p # q => Q[p] = n.queue[p]
    BY NetFields, QueuePut
<1>2. [n EXCEPT !.queue[q] = r] = [n EXCEPT !.queue = Q]
    OBVIOUS
<1> HIDE DEF Q
<1> QED BY <1>1, <1>2 DEF NetType

\* The state of an end is changed.
LEMMA GotoEffect ==
    ASSUME NEW n \in NetType, NEW e \in End, NEW s \in States
    PROVE  LET m == Goto(n, e, s)
           IN /\ m \in NetType
              /\ m.queue = n.queue /\ m.mail = n.mail /\ m.sent = n.sent /\ m.got = n.got
              /\ m.end[Peer(e)] = n.end[Peer(e)]
              /\ m.end[e].state = s
              /\ Points(m.end[e], n.end[e]) /\ Flags(m.end[e], n.end[e]) /\ Counters(m.end[e], n.end[e])
<1> DEFINE r == [n.end[e] EXCEPT !.state = s]
<1>1. n.end[e] \in EndType
    BY NetFields
<1>2. r \in EndType /\ r.state = s
    BY <1>1 DEF EndType
<1>3. Points(r, n.end[e]) /\ Flags(r, n.end[e]) /\ Counters(r, n.end[e])
    BY <1>1 DEF EndType, Points, Flags, Counters
<1>4. Goto(n, e, s) = [n EXCEPT !.end[e] = r]
    BY DEF Goto
<1> HIDE DEF r
<1> QED BY <1>2, <1>3, <1>4, WithEnd

\* What check_write does.
LEMMA CheckWriteEffect ==
    ASSUME NEW n \in NetType, NEW e \in End
    PROVE  LET m == CheckWrite(n, e)
           IN /\ m \in NetType
              /\ m.queue = n.queue /\ m.mail = n.mail /\ m.sent = n.sent /\ m.got = n.got
              /\ m.end[Peer(e)] = n.end[Peer(e)]
              /\ m.end[e].state = n.end[e].state
              /\ m.end[e].inActive = n.end[e].inActive /\ m.end[e].delay = n.end[e].delay
              /\ Points(m.end[e], n.end[e]) /\ Counters(m.end[e], n.end[e])
<1> DEFINE b == n.end[e].outActive /\ ~(n.end[e].state = "active" /\ Full(n, e))
           r == [n.end[e] EXCEPT !.outActive = b]
<1>1. n.end[e] \in EndType
    BY NetFields
<1>2. b \in BOOLEAN
    OBVIOUS
<1>3. CheckWrite(n, e) = [n EXCEPT !.end[e] = r]
    BY DEF CheckWrite
<1> HIDE DEF b
<1>4. r \in EndType /\ r.state = n.end[e].state /\ r.inActive = n.end[e].inActive /\ r.delay = n.end[e].delay
    BY <1>1, <1>2 DEF EndType
<1>5. Points(r, n.end[e]) /\ Counters(r, n.end[e])
    BY <1>1 DEF EndType, Points, Counters
<1> HIDE DEF r
<1> QED BY <1>3, <1>4, <1>5, WithEnd

\* The first frame of a queue is read.
LEMMA PopEffect ==
    ASSUME NEW n \in NetType, NEW e \in End, NEW q \in DOMAIN n.queue, q = n.end[e].in,
           n.queue[q].ready # <<>>
    PROVE  LET m == Pop(n, e)
           IN /\ m \in NetType
              /\ m.end = n.end /\ m.mail = n.mail /\ m.sent = n.sent /\ m.got = n.got
              /\ DOMAIN m.queue = DOMAIN n.queue /\ Len(m.queue) = Len(n.queue)
              /\ \A p \in DOMAIN n.queue : p # q => m.queue[p] = n.queue[p]
              /\ m.queue[q].deleted = n.queue[q].deleted /\ m.queue[q].part = n.queue[q].part
              /\ m.queue[q].ready = Tail(n.queue[q].ready) /\ m.queue[q].asleep = n.queue[q].asleep
<1> DEFINE old == n.queue[q]
           rest == Tail(old.ready)
           new == [old EXCEPT !.ready = rest]
<1>1. old \in QueueType /\ rest \in Seq(Frame)
    BY NetFields, QueueFields
<1>2. Pop(n, e) = [n EXCEPT !.queue[q] = new]
    BY DEF Pop
<1> HIDE DEF rest
<1>3. new \in QueueType /\ new.part = old.part /\ new.ready = rest /\ new.asleep = old.asleep /\ new.deleted = old.deleted
    BY <1>1 DEF QueueType
<1> HIDE DEF new
<1> QED BY <1>2, <1>3, WithQueue DEF rest

\* The reader finds nothing to read.
LEMMA SleepEffect ==
    ASSUME NEW n \in NetType, NEW e \in End, NEW q \in DOMAIN n.queue, q = n.end[e].in
    PROVE  LET m == Sleep(n, e)
           IN /\ m \in NetType
              /\ m.mail = n.mail /\ m.sent = n.sent /\ m.got = n.got
              /\ m.end[Peer(e)] = n.end[Peer(e)]
              /\ m.end[e].state = n.end[e].state /\ m.end[e].delay = n.end[e].delay
              /\ m.end[e].inActive = FALSE /\ m.end[e].outActive = n.end[e].outActive
              /\ Points(m.end[e], n.end[e]) /\ Counters(m.end[e], n.end[e])
              /\ DOMAIN m.queue = DOMAIN n.queue /\ Len(m.queue) = Len(n.queue)
              /\ \A p \in DOMAIN n.queue : p # q => m.queue[p] = n.queue[p]
              /\ m.queue[q].deleted = n.queue[q].deleted /\ m.queue[q].part = n.queue[q].part
              /\ m.queue[q].ready = n.queue[q].ready /\ m.queue[q].asleep = TRUE
<1> DEFINE old == n.queue[q]
           new == [old EXCEPT !.asleep = TRUE]
           r == [n.end[e] EXCEPT !.inActive = FALSE]
           k == [n EXCEPT !.end[e] = r]
<1>1. old \in QueueType /\ n.end[e] \in EndType
    BY NetFields
<1>2. Sleep(n, e) = [k EXCEPT !.queue[q] = new]
    BY DEF Sleep
<1>3. new \in QueueType /\ new.part = old.part /\ new.ready = old.ready /\ new.asleep = TRUE /\ new.deleted = old.deleted
    BY <1>1 DEF QueueType
<1>4. r \in EndType /\ r.state = n.end[e].state /\ r.inActive = FALSE /\ r.outActive = n.end[e].outActive /\ r.delay = n.end[e].delay
    BY <1>1 DEF EndType
<1>5. Points(r, n.end[e]) /\ Counters(r, n.end[e])
    BY <1>1 DEF EndType, Points, Counters
<1> HIDE DEF new, r
<1>6. /\ k \in NetType
      /\ k.queue = n.queue /\ k.mail = n.mail /\ k.sent = n.sent /\ k.got = n.got
      /\ k.end[e] = r /\ k.end[Peer(e)] = n.end[Peer(e)]
    BY <1>4, WithEnd
<1> HIDE DEF k
<1>7. LET m == [k EXCEPT !.queue[q] = new]
      IN /\ m \in NetType
              /\ m.end = k.end /\ m.mail = k.mail /\ m.sent = k.sent /\ m.got = k.got
              /\ DOMAIN m.queue = DOMAIN k.queue /\ Len(m.queue) = Len(k.queue)
              /\ m.queue[q] = new
              /\ \A p \in DOMAIN k.queue : p # q => m.queue[p] = k.queue[p]
    BY <1>6, <1>3, WithQueue
<1> QED BY <1>2, <1>3, <1>4, <1>5, <1>6, <1>7

\* What was promised to be sent is changed.
LEMMA WithSent ==
    ASSUME NEW n \in NetType, NEW e \in End, NEW x \in Seq(Frame)
    PROVE  LET m == [n EXCEPT !.sent[e] = x]
           IN /\ m \in NetType
              /\ m.queue = n.queue /\ m.mail = n.mail /\ m.end = n.end /\ m.got = n.got
              /\ m.sent[e] = x /\ m.sent[Peer(e)] = n.sent[Peer(e)]
<1> DEFINE S == [n.sent EXCEPT ![e] = x]
<1>1. S \in [End -> Seq(Frame)] /\ S[e] = x /\ S[Peer(e)] = n.sent[Peer(e)]
    BY NetFields, Ends
<1>2. [n EXCEPT !.sent[e] = x] = [n EXCEPT !.sent = S]
    OBVIOUS
<1> HIDE DEF S
<1> QED BY <1>1, <1>2 DEF NetType

\* What was read is changed.
LEMMA WithGot ==
    ASSUME NEW n \in NetType, NEW e \in End, NEW x \in Seq(Frame)
    PROVE  LET m == [n EXCEPT !.got[e] = x]
           IN /\ m \in NetType
              /\ m.queue = n.queue /\ m.mail = n.mail /\ m.end = n.end /\ m.sent = n.sent
              /\ m.got[e] = x /\ m.got[Peer(e)] = n.got[Peer(e)]
<1> DEFINE S == [n.got EXCEPT ![e] = x]
<1>1. S \in [End -> Seq(Frame)] /\ S[e] = x /\ S[Peer(e)] = n.got[Peer(e)]
    BY NetFields, Ends
<1>2. [n EXCEPT !.got[e] = x] = [n EXCEPT !.got = S]
    OBVIOUS
<1> HIDE DEF S
<1> QED BY <1>1, <1>2 DEF NetType

\* ypipe_t::write of a message's last frame, and flush: all its frames can be
\* read, and a reader that sleeps is woken by activate_read.
LEMMA PutFlush ==
    ASSUME NEW n \in NetType, NEW e \in End, NEW frame \in Frame, ~More(frame),
           NEW q \in DOMAIN n.queue, q = n.end[e].out
    PROVE  LET m == Put(n, e, frame)
               all == Append(n.queue[q].part, frame)
           IN /\ m \in NetType /\ all \in Seq(Frame)
              /\ m.end = n.end /\ m.got = n.got /\ m.mail[e] = n.mail[e]
              /\ m.sent[Peer(e)] = n.sent[Peer(e)]
              /\ frame = DELIMITER => m.sent[e] = n.sent[e]
              /\ frame # DELIMITER => m.sent[e] = n.sent[e] \o all
              /\ DOMAIN m.queue = DOMAIN n.queue /\ Len(m.queue) = Len(n.queue)
              /\ \A p \in DOMAIN n.queue : p # q => m.queue[p] = n.queue[p]
              /\ m.queue[q].deleted = n.queue[q].deleted
              /\ m.queue[q].part = <<>>
              /\ m.queue[q].ready = n.queue[q].ready \o all
              /\ \/ m.mail[Peer(e)] = n.mail[Peer(e)]
                 \/ m.mail[Peer(e)] = Append(n.mail[Peer(e)], <<"activate_read", 0>>)
<1> DEFINE old == n.queue[q]
           all == Append(old.part, frame)
           ready == old.ready \o all
           new == [old EXCEPT !.part = <<>>, !.asleep = FALSE, !.ready = ready]
           crossed == IF frame = DELIMITER THEN <<>> ELSE all
           after == n.sent[e] \o crossed
           j == [n EXCEPT !.queue[q] = new]
           k == [j EXCEPT !.sent[e] = after]
<1>1. old \in QueueType /\ all \in Seq(Frame) /\ ready \in Seq(Frame) /\ after \in Seq(Frame)
  <2>1. old \in QueueType /\ all \in Seq(Frame) /\ old.ready \in Seq(Frame) /\ n.sent[e] \in Seq(Frame)
    BY NetFields, QueueFields
  <2>2. crossed \in Seq(Frame)
    BY <2>1
  <2> QED BY <2>1, <2>2
<1>2. [n EXCEPT !.queue[q].part = <<>>, !.queue[q].asleep = FALSE, !.queue[q].ready = ready, !.sent[e] = after] = k
    OBVIOUS
<1>3. Put(n, e, frame) = IF old.asleep THEN Send(k, Peer(e), "activate_read", 0) ELSE k
    BY <1>2 DEF Put
<1> HIDE DEF all, ready, after
<1>4. new \in QueueType /\ new.part = <<>> /\ new.ready = ready /\ new.asleep = FALSE /\ new.deleted = old.deleted
  <2>1. <<>> \in Seq(Frame)
    OBVIOUS
  <2> QED BY <2>1, <1>1 DEF QueueType
<1> HIDE DEF new
<1>5. /\ j \in NetType
      /\ j.end = n.end /\ j.mail = n.mail /\ j.sent = n.sent /\ j.got = n.got
      /\ DOMAIN j.queue = DOMAIN n.queue /\ Len(j.queue) = Len(n.queue)
      /\ j.queue[q] = new
      /\ \A p \in DOMAIN n.queue : p # q => j.queue[p] = n.queue[p]
    BY <1>4, WithQueue
<1> HIDE DEF j
<1>6. /\ k \in NetType
      /\ k.queue = j.queue /\ k.mail = n.mail /\ k.end = n.end /\ k.got = n.got
      /\ k.sent[e] = after /\ k.sent[Peer(e)] = n.sent[Peer(e)]
  <2>1. /\ k \in NetType
        /\ k.queue = j.queue /\ k.mail = j.mail /\ k.end = j.end /\ k.got = j.got
        /\ k.sent[e] = after /\ k.sent[Peer(e)] = j.sent[Peer(e)]
    <3>1. j \in NetType /\ after \in Seq(Frame)
      BY <1>1, <1>5
    <3> QED BY <3>1, WithSent
  <2> QED BY <2>1, <1>5
<1> HIDE DEF k
<1>7. LET m == Send(k, Peer(e), "activate_read", 0)
      IN /\ m \in NetType
         /\ m.end = k.end /\ m.queue = k.queue /\ m.sent = k.sent /\ m.got = k.got
         /\ m.mail[Peer(e)] = Append(k.mail[Peer(e)], <<"activate_read", 0>>)
         /\ m.mail[e] = k.mail[e]
  <2>1. "activate_read" \in PipeTypes \cup OwnTypes /\ 0 \in Nat
    BY DEF PipeTypes
  <2> QED BY <2>1, <1>6, SendPeer
<1>8. old.asleep \in BOOLEAN
    BY <1>1, QueueFields
<1>9. /\ frame = DELIMITER => after = n.sent[e]
      /\ frame # DELIMITER => after = n.sent[e] \o all
  <2>1. n.sent[e] \in Seq(Frame)
    BY NetFields
  <2>2. n.sent[e] \o <<>> = n.sent[e]
    BY <2>1
  <2>3. ASSUME frame = DELIMITER PROVE after = n.sent[e]
    <3>1. crossed = <<>>
      BY <2>3
    <3> HIDE DEF crossed
    <3> QED BY <3>1, <2>2 DEF after
  <2>4. ASSUME frame # DELIMITER PROVE after = n.sent[e] \o all
    <3>1. crossed = all
      BY <2>4
    <3> HIDE DEF crossed
    <3> QED BY <3>1 DEF after
  <2> QED BY <2>3, <2>4
<1> DEFINE m == Put(n, e, frame)
<1>10. /\ m \in NetType /\ m.end = n.end /\ m.got = n.got /\ m.queue = j.queue /\ m.sent = k.sent
       /\ m.mail[e] = n.mail[e]
       /\ \/ m.mail[Peer(e)] = n.mail[Peer(e)]
          \/ m.mail[Peer(e)] = Append(n.mail[Peer(e)], <<"activate_read", 0>>)
    BY <1>3, <1>6, <1>7
<1> HIDE DEF m
<1> QED BY <1>1, <1>4, <1>5, <1>6, <1>9, <1>10 DEF all, ready, m

\* The count of messages written is changed.
LEMMA CountEffect ==
    ASSUME NEW n \in NetType, NEW e \in End, NEW x \in Int
    PROVE  LET m == [n EXCEPT !.end[e].written = @ + x]
           IN /\ m \in NetType
              /\ m.queue = n.queue /\ m.mail = n.mail /\ m.sent = n.sent /\ m.got = n.got
              /\ m.end[Peer(e)] = n.end[Peer(e)]
              /\ m.end[e].state = n.end[e].state
              /\ Points(m.end[e], n.end[e]) /\ Flags(m.end[e], n.end[e])
              /\ m.end[e].read = n.end[e].read /\ m.end[e].peersRead = n.end[e].peersRead
              /\ m.end[e].written = n.end[e].written + x
<1> DEFINE w == n.end[e].written + x
           r == [n.end[e] EXCEPT !.written = w]
<1>1. n.end[e] \in EndType /\ w \in Int
    BY NetFields, EndFields
<1>2. [n EXCEPT !.end[e].written = @ + x] = [n EXCEPT !.end[e] = r]
    OBVIOUS
<1> HIDE DEF w
<1>3. r \in EndType /\ r.state = n.end[e].state /\ r.read = n.end[e].read /\ r.peersRead = n.end[e].peersRead /\ r.written = w
    BY <1>1 DEF EndType
<1>4. Points(r, n.end[e]) /\ Flags(r, n.end[e])
    BY <1>1 DEF EndType, Points, Flags
<1> HIDE DEF r
<1> DEFINE k == [n EXCEPT !.end[e] = r]
<1>5. /\ k \in NetType
      /\ k.queue = n.queue /\ k.mail = n.mail /\ k.sent = n.sent /\ k.got = n.got
      /\ k.end[e] = r /\ k.end[Peer(e)] = n.end[Peer(e)]
    BY <1>3, WithEnd
<1> HIDE DEF k
<1>6. [n EXCEPT !.end[e].written = @ + x] = k
    BY <1>2 DEF k
<1>7. r.written = n.end[e].written + x
    BY <1>3 DEF w
<1> QED BY <1>3, <1>4, <1>5, <1>6, <1>7

\* What rollback does.
LEMMA RollbackEffect ==
    ASSUME NEW n \in NetType, NEW e \in End, NEW q \in DOMAIN n.queue, q = n.end[e].out, q # NULL
    PROVE  LET m == Rollback(n, e)
           IN /\ m \in NetType
              /\ m.end = n.end /\ m.mail = n.mail /\ m.sent = n.sent /\ m.got = n.got
              /\ DOMAIN m.queue = DOMAIN n.queue /\ Len(m.queue) = Len(n.queue)
              /\ \A p \in DOMAIN n.queue : p # q => m.queue[p] = n.queue[p]
              /\ m.queue[q].deleted = n.queue[q].deleted /\ m.queue[q].part = <<>>
              /\ m.queue[q].ready = n.queue[q].ready /\ m.queue[q].asleep = n.queue[q].asleep
<1> DEFINE old == n.queue[q]
           new == [old EXCEPT !.part = <<>>]
<1>1. old \in QueueType /\ <<>> \in Seq(Frame)
    BY NetFields, QueueFields
<1>2. Rollback(n, e) = [n EXCEPT !.queue[q] = new]
    BY DEF Rollback
<1>3. new \in QueueType /\ new.part = <<>> /\ new.ready = old.ready /\ new.asleep = old.asleep /\ new.deleted = old.deleted
    BY <1>1 DEF QueueType
<1> HIDE DEF new
<1> QED BY <1>2, <1>3, WithQueue

\* An end acknowledges, and lets go of the queue it writes to.
LEMMA AcknowledgeEffect ==
    ASSUME NEW n \in NetType, NEW e \in End, NEW s \in States
    PROVE  LET m == Acknowledge(n, e, s)
           IN /\ m \in NetType
              /\ m.queue = n.queue /\ m.sent = n.sent /\ m.got = n.got
              /\ m.mail[e] = n.mail[e]
              /\ m.mail[Peer(e)] = Append(n.mail[Peer(e)], <<"pipe_term_ack", 0>>)
              /\ m.end[Peer(e)] = n.end[Peer(e)]
              /\ m.end[e].state = s /\ m.end[e].in = n.end[e].in /\ m.end[e].out = NULL
              /\ Flags(m.end[e], n.end[e]) /\ Counters(m.end[e], n.end[e])
<1> DEFINE r == [n.end[e] EXCEPT !.out = NULL, !.state = s]
           k == [n EXCEPT !.end[e] = r]
<1>1. n.end[e] \in EndType /\ NULL \in Nat
    BY NetFields DEF NULL
<1>2. r \in EndType /\ r.state = s /\ r.in = n.end[e].in /\ r.out = NULL
    BY <1>1 DEF EndType
<1>3. Flags(r, n.end[e]) /\ Counters(r, n.end[e])
    BY <1>1 DEF EndType, Flags, Counters
<1>4. [n EXCEPT !.end[e].out = NULL, !.end[e].state = s] = k
    OBVIOUS
<1>5. Acknowledge(n, e, s) = Send(k, Peer(e), "pipe_term_ack", 0)
    BY <1>4 DEF Acknowledge
<1> HIDE DEF r
<1>6. /\ k \in NetType
      /\ k.queue = n.queue /\ k.mail = n.mail /\ k.sent = n.sent /\ k.got = n.got
      /\ k.end[e] = r /\ k.end[Peer(e)] = n.end[Peer(e)]
    BY <1>2, WithEnd
<1> HIDE DEF k
<1>7. "pipe_term_ack" \in PipeTypes \cup OwnTypes /\ 0 \in Nat
    BY DEF PipeTypes
<1>8. LET m == Send(k, Peer(e), "pipe_term_ack", 0)
      IN /\ m \in NetType
         /\ m.end = k.end /\ m.queue = k.queue /\ m.sent = k.sent /\ m.got = k.got
         /\ m.mail[Peer(e)] = Append(k.mail[Peer(e)], <<"pipe_term_ack", 0>>)
         /\ m.mail[e] = k.mail[e]
    BY <1>6, <1>7, SendPeer
<1> QED BY <1>2, <1>3, <1>5, <1>6, <1>8

\* pipe_t::read of one frame: with every LWM messages the writer is told.
LEMMA TakeEffect ==
    ASSUME NEW n \in NetType, NEW e \in End, NEW q \in DOMAIN n.queue, q = n.end[e].in,
           n.queue[q].ready # <<>>
    PROVE  LET m == Take(n, e)
               frame == Head(n.queue[q].ready)
               count == n.end[e].read + (IF More(frame) THEN 0 ELSE 1)
           IN /\ m \in NetType /\ frame \in Frame
              /\ m.sent = n.sent /\ m.mail[e] = n.mail[e]
              /\ m.mail[Peer(e)] = IF count % LWM = 0
                                   THEN Append(n.mail[Peer(e)], <<"activate_write", count>>)
                                   ELSE n.mail[Peer(e)]
              /\ m.got[Peer(e)] = n.got[Peer(e)] /\ m.got[e] = Append(n.got[e], frame)
              /\ m.end[Peer(e)] = n.end[Peer(e)]
              /\ m.end[e].state = n.end[e].state
              /\ Points(m.end[e], n.end[e]) /\ Flags(m.end[e], n.end[e])
              /\ m.end[e].written = n.end[e].written /\ m.end[e].peersRead = n.end[e].peersRead
              /\ m.end[e].read = count /\ count \in Nat
              /\ DOMAIN m.queue = DOMAIN n.queue /\ Len(m.queue) = Len(n.queue)
              /\ \A p \in DOMAIN n.queue : p # q => m.queue[p] = n.queue[p]
              /\ m.queue[q].deleted = n.queue[q].deleted /\ m.queue[q].part = n.queue[q].part
              /\ m.queue[q].ready = Tail(n.queue[q].ready) /\ m.queue[q].asleep = n.queue[q].asleep
<1> DEFINE frame == Head(n.queue[q].ready)
           count == n.end[e].read + (IF More(frame) THEN 0 ELSE 1)
           r == [n.end[e] EXCEPT !.read = count]
           p0 == Pop(n, e)
           j == [p0 EXCEPT !.end[e] = r]
           k == [j EXCEPT !.got[e] = Append(j.got[e], frame)]
<1>1. /\ n.queue[q].ready \in Seq(Frame) /\ n.end[e] \in EndType /\ n.end[e].read \in Nat
      /\ n.got[e] \in Seq(Frame)
    BY NetFields, QueueFields, EndFields
<1>2. frame \in Frame /\ count \in Nat
  <2>1. frame \in Frame
    BY <1>1
  <2> QED BY <1>1, <2>1
<1>3. /\ p0 \in NetType
      /\ p0.end = n.end /\ p0.mail = n.mail /\ p0.sent = n.sent /\ p0.got = n.got
      /\ DOMAIN p0.queue = DOMAIN n.queue /\ Len(p0.queue) = Len(n.queue)
      /\ \A p \in DOMAIN n.queue : p # q => p0.queue[p] = n.queue[p]
      /\ p0.queue[q].deleted = n.queue[q].deleted /\ p0.queue[q].part = n.queue[q].part
      /\ p0.queue[q].ready = Tail(n.queue[q].ready) /\ p0.queue[q].asleep = n.queue[q].asleep
    BY PopEffect
<1> HIDE DEF p0
<1>4. [p0 EXCEPT !.end[e].read = count, !.got[e] = Append(@, frame)] = k
    BY <1>3 DEF NetType
<1>5. Take(n, e) = IF count % LWM = 0 THEN Send(k, Peer(e), "activate_write", count) ELSE k
    BY <1>4 DEF Take, p0, InQueue
<1> HIDE DEF frame, count
<1>6. /\ r \in EndType /\ r.state = n.end[e].state /\ r.read = count
      /\ r.written = n.end[e].written /\ r.peersRead = n.end[e].peersRead
    BY <1>1, <1>2 DEF EndType
<1>7. Points(r, n.end[e]) /\ Flags(r, n.end[e])
    BY <1>1 DEF EndType, Points, Flags
<1> HIDE DEF r
<1>8. /\ j \in NetType
      /\ j.queue = p0.queue /\ j.mail = p0.mail /\ j.sent = p0.sent /\ j.got = p0.got
      /\ j.end[e] = r /\ j.end[Peer(e)] = p0.end[Peer(e)]
    BY <1>3, <1>6, WithEnd
<1> HIDE DEF j
<1>9. Append(j.got[e], frame) \in Seq(Frame)
    BY <1>1, <1>2, <1>3, <1>8
<1>10. /\ k \in NetType
       /\ k.queue = j.queue /\ k.mail = j.mail /\ k.end = j.end /\ k.sent = j.sent
       /\ k.got[e] = Append(j.got[e], frame) /\ k.got[Peer(e)] = j.got[Peer(e)]
    BY <1>8, <1>9, WithGot
<1> HIDE DEF k
<1>11. LET m == Send(k, Peer(e), "activate_write", count)
      IN /\ m \in NetType
         /\ m.end = k.end /\ m.queue = k.queue /\ m.sent = k.sent /\ m.got = k.got
         /\ m.mail[Peer(e)] = Append(k.mail[Peer(e)], <<"activate_write", count>>)
         /\ m.mail[e] = k.mail[e]
  <2>1. "activate_write" \in PipeTypes \cup OwnTypes
    BY DEF PipeTypes
  <2> QED BY <2>1, <1>2, <1>10, SendPeer
<1> DEFINE m == Take(n, e)
<1>12. /\ m \in NetType
       /\ m.end = k.end /\ m.queue = k.queue /\ m.sent = k.sent /\ m.got = k.got
       /\ m.mail[Peer(e)] = IF count % LWM = 0
                            THEN Append(k.mail[Peer(e)], <<"activate_write", count>>)
                            ELSE k.mail[Peer(e)]
       /\ m.mail[e] = k.mail[e]
    BY <1>5, <1>10, <1>11
<1> HIDE DEF m
<1> QED BY <1>2, <1>3, <1>6, <1>7, <1>8, <1>10, <1>12 DEF m, count, frame

\* The delay flag of an end is changed.
LEMMA DelayEffect ==
    ASSUME NEW n \in NetType, NEW e \in End, NEW delay \in BOOLEAN
    PROVE  LET m == [n EXCEPT !.end[e].delay = delay]
           IN /\ m \in NetType
              /\ m.queue = n.queue /\ m.mail = n.mail /\ m.sent = n.sent /\ m.got = n.got
              /\ m.end[Peer(e)] = n.end[Peer(e)]
              /\ m.end[e].state = n.end[e].state /\ m.end[e].delay = delay
              /\ m.end[e].inActive = n.end[e].inActive /\ m.end[e].outActive = n.end[e].outActive
              /\ Points(m.end[e], n.end[e]) /\ Counters(m.end[e], n.end[e])
<1> DEFINE r == [n.end[e] EXCEPT !.delay = delay]
<1>1. n.end[e] \in EndType
    BY NetFields
<1>2. [n EXCEPT !.end[e].delay = delay] = [n EXCEPT !.end[e] = r]
    OBVIOUS
<1>3. /\ r \in EndType /\ r.state = n.end[e].state /\ r.delay = delay
      /\ r.inActive = n.end[e].inActive /\ r.outActive = n.end[e].outActive
    BY <1>1 DEF EndType
<1>4. Points(r, n.end[e]) /\ Counters(r, n.end[e])
    BY <1>1 DEF EndType, Points, Counters
<1> HIDE DEF r
<1> DEFINE k == [n EXCEPT !.end[e] = r]
<1>5. /\ k \in NetType
      /\ k.queue = n.queue /\ k.mail = n.mail /\ k.sent = n.sent /\ k.got = n.got
      /\ k.end[e] = r /\ k.end[Peer(e)] = n.end[Peer(e)]
    BY <1>3, WithEnd
<1>6. [n EXCEPT !.end[e].delay = delay] = k
    BY <1>2
<1> HIDE DEF k
<1> QED BY <1>3, <1>4, <1>5, <1>6

\* An end must not write any more.
LEMMA StopEffect ==
    ASSUME NEW n \in NetType, NEW e \in End
    PROVE  LET m == [n EXCEPT !.end[e].outActive = FALSE]
           IN /\ m \in NetType
              /\ m.queue = n.queue /\ m.mail = n.mail /\ m.sent = n.sent /\ m.got = n.got
              /\ m.end[Peer(e)] = n.end[Peer(e)]
              /\ m.end[e].state = n.end[e].state /\ m.end[e].outActive = FALSE
              /\ m.end[e].inActive = n.end[e].inActive /\ m.end[e].delay = n.end[e].delay
              /\ Points(m.end[e], n.end[e]) /\ Counters(m.end[e], n.end[e])
<1> DEFINE r == [n.end[e] EXCEPT !.outActive = FALSE]
<1>1. n.end[e] \in EndType
    BY NetFields
<1>2. [n EXCEPT !.end[e].outActive = FALSE] = [n EXCEPT !.end[e] = r]
    OBVIOUS
<1>3. /\ r \in EndType /\ r.state = n.end[e].state /\ r.outActive = FALSE
      /\ r.inActive = n.end[e].inActive /\ r.delay = n.end[e].delay
    BY <1>1 DEF EndType
<1>4. Points(r, n.end[e]) /\ Counters(r, n.end[e])
    BY <1>1 DEF EndType, Points, Counters
<1> HIDE DEF r
<1> DEFINE k == [n EXCEPT !.end[e] = r]
<1>5. /\ k \in NetType
      /\ k.queue = n.queue /\ k.mail = n.mail /\ k.sent = n.sent /\ k.got = n.got
      /\ k.end[e] = r /\ k.end[Peer(e)] = n.end[Peer(e)]
    BY <1>3, WithEnd
<1>6. [n EXCEPT !.end[e].outActive = FALSE] = k
    BY <1>2
<1> HIDE DEF k
<1> QED BY <1>3, <1>4, <1>5, <1>6

\* An end may read again.
LEMMA WakeEffect ==
    ASSUME NEW n \in NetType, NEW e \in End
    PROVE  LET m == [n EXCEPT !.end[e].inActive = TRUE]
           IN /\ m \in NetType
              /\ m.queue = n.queue /\ m.mail = n.mail /\ m.sent = n.sent /\ m.got = n.got
              /\ m.end[Peer(e)] = n.end[Peer(e)]
              /\ m.end[e].state = n.end[e].state /\ m.end[e].inActive = TRUE
              /\ m.end[e].outActive = n.end[e].outActive /\ m.end[e].delay = n.end[e].delay
              /\ Points(m.end[e], n.end[e]) /\ Counters(m.end[e], n.end[e])
<1> DEFINE r == [n.end[e] EXCEPT !.inActive = TRUE]
<1>1. n.end[e] \in EndType
    BY NetFields
<1>2. [n EXCEPT !.end[e].inActive = TRUE] = [n EXCEPT !.end[e] = r]
    OBVIOUS
<1>3. /\ r \in EndType /\ r.state = n.end[e].state /\ r.inActive = TRUE
      /\ r.outActive = n.end[e].outActive /\ r.delay = n.end[e].delay
    BY <1>1 DEF EndType
<1>4. Points(r, n.end[e]) /\ Counters(r, n.end[e])
    BY <1>1 DEF EndType, Points, Counters
<1> HIDE DEF r
<1> DEFINE k == [n EXCEPT !.end[e] = r]
<1>5. /\ k \in NetType
      /\ k.queue = n.queue /\ k.mail = n.mail /\ k.sent = n.sent /\ k.got = n.got
      /\ k.end[e] = r /\ k.end[Peer(e)] = n.end[Peer(e)]
    BY <1>3, WithEnd
<1>6. [n EXCEPT !.end[e].inActive = TRUE] = k
    BY <1>2
<1> HIDE DEF k
<1> QED BY <1>3, <1>4, <1>5, <1>6

\* process_activate_write: the end learns what its peer has read.
Credited(n, e, count, b) ==
    [n EXCEPT !.end[e].peersRead = count, !.end[e].outActive = @ \/ b]

\* What Credited does.
LEMMA CreditEffect ==
    ASSUME NEW n \in NetType, NEW e \in End, NEW count \in Nat, NEW b \in BOOLEAN
    PROVE  LET m == Credited(n, e, count, b)
           IN /\ m \in NetType
              /\ m.queue = n.queue /\ m.mail = n.mail /\ m.sent = n.sent /\ m.got = n.got
              /\ m.end[Peer(e)] = n.end[Peer(e)]
              /\ m.end[e].state = n.end[e].state
              /\ m.end[e].inActive = n.end[e].inActive /\ m.end[e].delay = n.end[e].delay
              /\ Points(m.end[e], n.end[e])
              /\ m.end[e].read = n.end[e].read /\ m.end[e].written = n.end[e].written
              /\ m.end[e].peersRead = count
<1> DEFINE o == n.end[e].outActive \/ b
           r == [n.end[e] EXCEPT !.peersRead = count, !.outActive = o]
<1>1. n.end[e] \in EndType /\ o \in BOOLEAN
    BY NetFields
<1>2. [n EXCEPT !.end[e].peersRead = count, !.end[e].outActive = @ \/ b] = [n EXCEPT !.end[e] = r]
    OBVIOUS
<1> HIDE DEF o
<1>3. /\ r \in EndType /\ r.state = n.end[e].state /\ r.inActive = n.end[e].inActive /\ r.delay = n.end[e].delay
      /\ r.read = n.end[e].read /\ r.written = n.end[e].written /\ r.peersRead = count
    BY <1>1 DEF EndType
<1>4. Points(r, n.end[e])
    BY <1>1 DEF EndType, Points
<1> HIDE DEF r
<1> DEFINE k == [n EXCEPT !.end[e] = r]
<1>5. /\ k \in NetType
      /\ k.queue = n.queue /\ k.mail = n.mail /\ k.sent = n.sent /\ k.got = n.got
      /\ k.end[e] = r /\ k.end[Peer(e)] = n.end[Peer(e)]
    BY <1>3, WithEnd
<1>6. Credited(n, e, count, b) = k
    BY <1>2 DEF Credited
<1> HIDE DEF k
<1> QED BY <1>3, <1>4, <1>5, <1>6

\* A command is taken from a mailbox.
LEMMA TakenEffect ==
    ASSUME NEW n \in NetType, NEW e \in End, n.mail[e] # <<>>
    PROVE  LET m == [n EXCEPT !.mail[e] = Tail(@)]
           IN /\ m \in NetType
              /\ m.end = n.end /\ m.queue = n.queue /\ m.sent = n.sent /\ m.got = n.got
              /\ m.mail[e] = Tail(n.mail[e]) /\ m.mail[Peer(e)] = n.mail[Peer(e)]
<1> DEFINE M == [n.mail EXCEPT ![e] = Tail(@)]
<1>1. M \in [End -> Seq(Cmd)] /\ M[e] = Tail(n.mail[e]) /\ M[Peer(e)] = n.mail[Peer(e)]
    BY NetFields, Ends
<1>2. [n EXCEPT !.mail[e] = Tail(@)] = [n EXCEPT !.mail = M]
    OBVIOUS
<1> HIDE DEF M
<1> QED BY <1>1, <1>2 DEF NetType

\* The types of a new and of a freed queue.
LEMMA NewQueueType == NewQueue \in QueueType /\ [NewQueue EXCEPT !.deleted = TRUE] \in QueueType
<1>1. <<>> \in Seq(Frame)
    OBVIOUS
<1> QED BY <1>1 DEF NewQueue, QueueType

\* What pipe_t::hiccup does.
LEMMA HiccupEffect ==
    ASSUME NEW n \in NetType, NEW e \in End, n.end[e].state = "active"
    PROVE  LET m == Hiccup(n, e)
               q == Len(n.queue) + 1
           IN /\ m \in NetType
              /\ m.sent = n.sent /\ m.got = n.got
              /\ m.mail[e] = n.mail[e]
              /\ m.mail[Peer(e)] = Append(n.mail[Peer(e)], <<"hiccup", q>>)
              /\ m.queue = Append(n.queue, NewQueue) /\ q \in Nat
              /\ m.end[Peer(e)] = n.end[Peer(e)]
              /\ m.end[e].state = "active" /\ m.end[e].in = q /\ m.end[e].out = n.end[e].out
              /\ m.end[e].inActive = TRUE /\ m.end[e].outActive = n.end[e].outActive
              /\ m.end[e].delay = n.end[e].delay /\ Counters(m.end[e], n.end[e])
<1> DEFINE q == Len(n.queue) + 1
           Q == Append(n.queue, NewQueue)
           r == [n.end[e] EXCEPT !.in = q, !.inActive = TRUE]
           j == [n EXCEPT !.end[e] = r]
           k == [j EXCEPT !.queue = Q]
<1>1. n.end[e] \in EndType /\ q \in Nat /\ q # 0 /\ Q \in Seq(QueueType)
    BY NetFields, NewQueueType
<1>2. [n EXCEPT !.queue = Append(@, NewQueue), !.end[e].in = q, !.end[e].inActive = TRUE] = k
    OBVIOUS
<1>3. Hiccup(n, e) = Send(k, Peer(e), "hiccup", q)
    BY <1>2 DEF Hiccup
<1> HIDE DEF Q, q
<1>4. /\ r \in EndType /\ r.state = "active" /\ r.in = q /\ r.out = n.end[e].out
      /\ r.inActive = TRUE /\ r.outActive = n.end[e].outActive /\ r.delay = n.end[e].delay
    BY <1>1 DEF EndType
<1>5. Counters(r, n.end[e])
    BY <1>1 DEF EndType, Counters
<1> HIDE DEF r
<1>6. /\ j \in NetType
      /\ j.queue = n.queue /\ j.mail = n.mail /\ j.sent = n.sent /\ j.got = n.got
      /\ j.end[e] = r /\ j.end[Peer(e)] = n.end[Peer(e)]
    BY <1>4, WithEnd
<1> HIDE DEF j
<1>7. /\ k \in NetType
      /\ k.queue = Q /\ k.mail = j.mail /\ k.sent = j.sent /\ k.got = j.got /\ k.end = j.end
    BY <1>1, <1>6 DEF NetType
<1> HIDE DEF k
<1>8. LET m == Send(k, Peer(e), "hiccup", q)
      IN /\ m \in NetType
         /\ m.end = k.end /\ m.queue = k.queue /\ m.sent = k.sent /\ m.got = k.got
         /\ m.mail[Peer(e)] = Append(k.mail[Peer(e)], <<"hiccup", q>>)
         /\ m.mail[e] = k.mail[e]
  <2>1. "hiccup" \in PipeTypes \cup OwnTypes
    BY DEF PipeTypes
  <2> QED BY <2>1, <1>1, <1>7, SendPeer
<1> QED BY <1>1, <1>3, <1>4, <1>5, <1>6, <1>7, <1>8 DEF Q, q

\* What process_pipe_term_ack does.
LEMMA DeallocateEffect ==
    ASSUME NEW n \in NetType, NEW e \in End, NEW q \in DOMAIN n.queue, q = n.end[e].in
    PROVE  LET m == Deallocate(n, e)
               asked == n.end[e].state = "term_req_sent1"
           IN /\ m \in NetType
              /\ m.sent = n.sent /\ m.got = n.got
              /\ m.mail[e] = n.mail[e]
              /\ m.mail[Peer(e)] = IF asked THEN Append(n.mail[Peer(e)], <<"pipe_term_ack", 0>>)
                                   ELSE n.mail[Peer(e)]
              /\ m.end[Peer(e)] = n.end[Peer(e)]
              /\ m.end[e].state = "deleted" /\ m.end[e].in = q
              /\ m.end[e].out = (IF asked THEN NULL ELSE n.end[e].out)
              /\ Flags(m.end[e], n.end[e]) /\ Counters(m.end[e], n.end[e])
              /\ DOMAIN m.queue = DOMAIN n.queue /\ Len(m.queue) = Len(n.queue)
              /\ m.queue[q].deleted /\ m.queue[q].ready = <<>> /\ m.queue[q].part = <<>>
              /\ \A p \in DOMAIN n.queue : p # q => m.queue[p] = n.queue[p]
<1> DEFINE k == IF n.end[e].state = "term_req_sent1"
                THEN Acknowledge(n, e, "deleted") ELSE Goto(n, e, "deleted")
           r == [NewQueue EXCEPT !.deleted = TRUE]
<1>1. Deallocate(n, e) = [k EXCEPT !.queue[q] = r]
    BY DEF Deallocate
<1>2. "deleted" \in States /\ r \in QueueType
    BY NewQueueType DEF States
<1>3. /\ k \in NetType
      /\ k.queue = n.queue /\ k.sent = n.sent /\ k.got = n.got
      /\ k.mail[e] = n.mail[e]
      /\ k.end[Peer(e)] = n.end[Peer(e)]
      /\ k.end[e].state = "deleted" /\ k.end[e].in = q
      /\ Flags(k.end[e], n.end[e]) /\ Counters(k.end[e], n.end[e])
      /\ k.mail[Peer(e)] = IF n.end[e].state = "term_req_sent1"
                           THEN Append(n.mail[Peer(e)], <<"pipe_term_ack", 0>>)
                           ELSE n.mail[Peer(e)]
      /\ k.end[e].out = IF n.end[e].state = "term_req_sent1" THEN NULL ELSE n.end[e].out
  <2>1. CASE n.end[e].state = "term_req_sent1"
    <3>1. k = Acknowledge(n, e, "deleted")
      BY <2>1
    <3> HIDE DEF k
    <3> QED BY <2>1, <3>1, <1>2, AcknowledgeEffect
  <2>2. CASE n.end[e].state # "term_req_sent1"
    <3>1. k = Goto(n, e, "deleted")
      BY <2>2
    <3> HIDE DEF k
    <3>2. /\ k \in NetType
          /\ k.queue = n.queue /\ k.mail = n.mail /\ k.sent = n.sent /\ k.got = n.got
          /\ k.end[Peer(e)] = n.end[Peer(e)]
          /\ k.end[e].state = "deleted"
          /\ Points(k.end[e], n.end[e]) /\ Flags(k.end[e], n.end[e]) /\ Counters(k.end[e], n.end[e])
      BY <3>1, <1>2, GotoEffect
    <3> QED BY <2>2, <3>2 DEF Points
  <2> QED BY <2>1, <2>2
<1>3a. r.deleted /\ r.ready = <<>> /\ r.part = <<>>
    BY DEF NewQueue
<1> HIDE DEF k, r
<1>4. q \in DOMAIN k.queue
    BY <1>3
<1>5. LET m == [k EXCEPT !.queue[q] = r]
      IN /\ m \in NetType
         /\ m.end = k.end /\ m.mail = k.mail /\ m.sent = k.sent /\ m.got = k.got
         /\ DOMAIN m.queue = DOMAIN k.queue /\ Len(m.queue) = Len(k.queue)
         /\ m.queue[q] = r
         /\ \A p \in DOMAIN k.queue : p # q => m.queue[p] = k.queue[p]
    BY <1>2, <1>3, <1>4, WithQueue
<1> DEFINE m == Deallocate(n, e)
<1>6. /\ m \in NetType
      /\ m.end = k.end /\ m.mail = k.mail /\ m.sent = k.sent /\ m.got = k.got
      /\ DOMAIN m.queue = DOMAIN k.queue /\ Len(m.queue) = Len(k.queue)
      /\ m.queue[q] = r
      /\ \A p \in DOMAIN k.queue : p # q => m.queue[p] = k.queue[p]
    BY <1>1, <1>5
<1> HIDE DEF m
<1> QED BY <1>3, <1>3a, <1>6 DEF m

\* The commands r by which a reader tells that it has read more than old messages,
\* up to count.
Reported(r, old, count) ==
    /\ \A i \in DOMAIN r : r[i][1] = "activate_write" /\ old < r[i][2] /\ r[i][2] <= count
    /\ \A i, j \in DOMAIN r : i < j => r[i][2] <= r[j][2]

\* The reports due between two counts of messages.
Due(old, count) ==
    [i \in 1 .. (count \div LWM) - (old \div LWM) |->
        <<"activate_write", ((old \div LWM) + i) * LWM>>]

\* They are reports, in order.
LEMMA DueFacts ==
    ASSUME NEW old \in Nat, NEW count \in Nat, old <= count
    PROVE  Due(old, count) \in Seq(Cmd) /\ Reported(Due(old, count), old, count)
<1> DEFINE L == LWM
           a == old \div L
           b == count \div L
           N == b - a
           r == [i \in 1 .. N |-> <<"activate_write", (a + i) * L>>]
<1>1. L \in Nat \ {0}
    BY PipeAssumption DEF LWM
<1>2. r = Due(old, count)
    BY DEF Due
<1> HIDE DEF L
<1>3. /\ a \in Nat /\ b \in Nat /\ a <= b
      /\ b * L <= count /\ old < a * L + L
    BY <1>1
<1> HIDE DEF a, b
<1>4. N \in Nat
    BY <1>3
<1>5. ASSUME NEW i \in 1 .. N
      PROVE  (a + i) * L \in Nat /\ old < (a + i) * L /\ (a + i) * L <= count
  <2>1. a + i \in Nat /\ a < a + i /\ a + i <= b
    BY <1>3, <1>4
  <2> DEFINE x == a + i
  <2> HIDE DEF x
  <2>2. x \in Nat /\ a < x /\ x <= b
    BY <2>1 DEF x
  <2>3. x * L \in Nat /\ a * L + L <= x * L /\ x * L <= b * L
    BY <1>1, <1>3, <2>2
  <2>4. a * L \in Nat /\ b * L \in Nat
    BY <1>1, <1>3
  <2>5. old < x * L /\ x * L <= count
    <3> DEFINE y == x * L  al == a * L  bl == b * L
    <3> HIDE DEF y, al, bl
    <3>1. y \in Nat /\ al \in Nat /\ bl \in Nat /\ al + L <= y /\ y <= bl /\ bl <= count /\ old < al + L
      BY <2>3, <2>4, <1>3 DEF y, al, bl
    <3>2. old < y /\ y <= count
      BY <3>1, <1>1
    <3> QED BY <3>2 DEF y
  <2> QED BY <2>3, <2>5 DEF x
<1>6. \A i, j \in 1 .. N : i < j => (a + i) * L <= (a + j) * L
  <2> SUFFICES ASSUME NEW i \in 1 .. N, NEW j \in 1 .. N, i < j PROVE (a + i) * L <= (a + j) * L
    OBVIOUS
  <2> DEFINE x == a + i  y == a + j
  <2>1. x \in Nat /\ y \in Nat /\ x <= y
    BY <1>3, <1>4
  <2> HIDE DEF x, y
  <2>2. x * L <= y * L
    BY <2>1, <1>1
  <2> QED BY <2>2 DEF x, y
<1>7. r \in Seq(Cmd)
  <2>1. \A i \in 1 .. N : <<"activate_write", (a + i) * L>> \in Cmd
    BY <1>5 DEF Cmd, PipeTypes
  <2> HIDE DEF N
  <2> QED BY <2>1, <1>4
<1>8. Reported(r, old, count)
    BY <1>5, <1>6 DEF Reported
<1> QED BY <1>2, <1>7, <1>8

\* A queue holds a number of messages.
LEMMA CountNat ==
    ASSUME NEW f \in Seq(Frame)
    PROVE  Count(f) \in Nat
<1>1. DOMAIN f = 1 .. Len(f) /\ Len(f) \in Nat
    OBVIOUS
<1>2. IsFiniteSet(1 .. Len(f))
    BY <1>1, FS_Interval
<1>3. {i \in DOMAIN f : ~More(f[i])} \subseteq 1 .. Len(f)
    BY <1>1
<1> QED BY <1>2, <1>3, FS_Subset, FS_CardinalityType DEF Count

\* Concatenation as an operator that is not unfolded.
Cat(s, t) == s \o t

\* What ReadAll reads before the read that fails.
Whole(ready) ==
    IF ready # <<>> /\ Last(ready) = DELIMITER THEN Len(ready) - 1 ELSE Len(ready)

\* Everything ReadAll reads before that, and the reports due.
Batch(n, e) ==
    LET ready == InQueue(n, e).ready
        k == Whole(ready)
        old == n.end[e].read
        count == old + Count(SubSeq(ready, 1, k))
    IN [n EXCEPT !.queue[n.end[e].in].ready = SubSeq(@, k + 1, Len(@)),
                 !.end[e].read = count, !.got[e] = @ \o SubSeq(ready, 1, k),
                 !.mail[Peer(e)] = @ \o Due(old, count)]

\* ReadAll is Batch, and the read that fails.
LEMMA ReadAllBatch ==
    ASSUME NEW n, NEW e
    PROVE  ReadAll(n, e) = IF CanRead(n, e) THEN Read(Batch(n, e), e) ELSE n
BY DEF ReadAll, Batch, Due, Whole

\* One mailbox is changed.
LEMMA WithMail ==
    ASSUME NEW n \in NetType, NEW e \in End, NEW x \in Seq(Cmd)
    PROVE  LET m == [n EXCEPT !.mail[Peer(e)] = x]
           IN /\ m \in NetType
              /\ m.queue = n.queue /\ m.sent = n.sent /\ m.end = n.end /\ m.got = n.got
              /\ m.mail[Peer(e)] = x /\ m.mail[e] = n.mail[e]
<1> DEFINE S == [n.mail EXCEPT ![Peer(e)] = x]
<1>1. S \in [End -> Seq(Cmd)] /\ S[Peer(e)] = x /\ S[e] = n.mail[e]
    BY NetFields, Ends
<1>2. [n EXCEPT !.mail[Peer(e)] = x] = [n EXCEPT !.mail = S]
    OBVIOUS
<1> HIDE DEF S
<1> QED BY <1>1, <1>2 DEF NetType

\* The messages in the first k frames.
Messages(ready, k) == Count(SubSeq(ready, 1, k))

\* What a reader that takes all takes is a prefix, up to the delimiter if there is one.
LEMMA WholeFacts ==
    ASSUME NEW ready \in Seq(Frame), NEW k, k = Whole(ready)
    PROVE  /\ k \in 0 .. Len(ready)
           /\ k = Len(ready) \/ (k = Len(ready) - 1 /\ ready[k + 1] = DELIMITER)
           /\ k = Len(ready) /\ k > 0 => ready[k] # DELIMITER
           /\ SubSeq(ready, 1, k) \in Seq(Frame) /\ SubSeq(ready, k + 1, Len(ready)) \in Seq(Frame)
           /\ Messages(ready, k) \in Nat
<1>3. /\ k \in 0 .. Len(ready)
      /\ k = Len(ready) \/ (k = Len(ready) - 1 /\ ready[k + 1] = DELIMITER)
      /\ k = Len(ready) /\ k > 0 => ready[k] # DELIMITER
  <2>1. Len(ready) \in Nat /\ (ready # <<>> => Len(ready) > 0) /\ Last(ready) = ready[Len(ready)]
    BY DEF Last
  <2>2. Len(ready) > 0 => ready # <<>>
    OBVIOUS
  <2> QED BY <2>1, <2>2 DEF Whole
<1>4. /\ Len(ready) \in Nat /\ k \in Nat /\ k <= Len(ready) /\ k + 1 \in Nat
      /\ \A i \in 1 .. Len(ready) : ready[i] \in Frame
    BY <1>3
<1>5. SubSeq(ready, k + 1, Len(ready)) \in Seq(Frame)
    BY <1>4
<1>6. SubSeq(ready, 1, k) \in Seq(Frame)
    BY <1>4
<1>7. Messages(ready, k) \in Nat
    BY <1>6, CountNat DEF Messages
<1> QED BY <1>3, <1>5, <1>6, <1>7

\* The messages read once all there is is read.
AllRead(n, e) ==
    n.end[e].read + Messages(InQueue(n, e).ready, Whole(InQueue(n, e).ready))

\* The count of a reader that has taken all.
LEMMA AllReadFacts ==
    ASSUME NEW n \in NetType, NEW e \in End, NEW q \in DOMAIN n.queue, q = n.end[e].in
    PROVE  /\ AllRead(n, e) = n.end[e].read + Messages(n.queue[q].ready, Whole(n.queue[q].ready))
           /\ AllRead(n, e) \in Nat /\ n.end[e].read <= AllRead(n, e)
           /\ Messages(n.queue[q].ready, Whole(n.queue[q].ready)) \in Nat
<1> DEFINE ready == n.queue[q].ready
           x == Messages(ready, Whole(ready))
           y == n.end[e].read
<1>1. ready \in Seq(Frame) /\ y \in Nat
    BY NetFields, QueueFields, EndFields
<1>2. AllRead(n, e) = y + x
    BY DEF AllRead, InQueue
<1> HIDE DEF ready, y
<1>3. x \in Nat
    BY <1>1, WholeFacts
<1> HIDE DEF x
<1>4. y + x \in Nat /\ y <= y + x
    BY <1>1, <1>3
<1> QED BY <1>2, <1>3, <1>4 DEF ready, x, y

\* What is behind the first k frames.
Beyond(ready, k) == SubSeq(ready, k + 1, Len(ready))

\* What Batch does.
LEMMA BatchEffect ==
    ASSUME NEW n \in NetType, NEW e \in End, NEW q \in DOMAIN n.queue, q = n.end[e].in,
           NEW k, k = Whole(n.queue[q].ready)
    PROVE  LET m == Batch(n, e)
               ready == n.queue[q].ready
           IN /\ k \in 0 .. Len(ready)
              /\ k = Len(ready) \/ (k = Len(ready) - 1 /\ ready[k + 1] = DELIMITER)
              /\ k = Len(ready) /\ k > 0 => ready[k] # DELIMITER
              /\ m \in NetType
              /\ m.sent = n.sent /\ m.mail[e] = n.mail[e]
              /\ Due(n.end[e].read, AllRead(n, e)) \in Seq(Cmd)
              /\ Reported(Due(n.end[e].read, AllRead(n, e)), n.end[e].read, AllRead(n, e))
              /\ m.mail[Peer(e)] = Cat(n.mail[Peer(e)], Due(n.end[e].read, AllRead(n, e)))
              /\ m.got[Peer(e)] = n.got[Peer(e)] /\ m.got[e] = n.got[e] \o SubSeq(ready, 1, k)
              /\ m.end[Peer(e)] = n.end[Peer(e)]
              /\ m.end[e].state = n.end[e].state
              /\ Points(m.end[e], n.end[e]) /\ Flags(m.end[e], n.end[e])
              /\ m.end[e].written = n.end[e].written /\ m.end[e].peersRead = n.end[e].peersRead
              /\ m.end[e].read = AllRead(n, e)
              /\ DOMAIN m.queue = DOMAIN n.queue /\ Len(m.queue) = Len(n.queue)
              /\ \A p \in DOMAIN n.queue : p # q => m.queue[p] = n.queue[p]
              /\ m.queue[q].deleted = n.queue[q].deleted /\ m.queue[q].part = n.queue[q].part
              /\ m.queue[q].ready = Beyond(ready, k)
<1> DEFINE old == n.queue[q]
           ready == old.ready
           count == AllRead(n, e)
           due == Due(n.end[e].read, count)
           rest == Beyond(ready, k)
           new == [old EXCEPT !.ready = rest]
           r == [n.end[e] EXCEPT !.read = count]
           x == n.got[e] \o SubSeq(ready, 1, k)
           y == n.mail[Peer(e)] \o due
           j1 == [n EXCEPT !.queue[q] = new]
           j2 == [j1 EXCEPT !.end[e] = r]
           j3 == [j2 EXCEPT !.got[e] = x]
           j4 == [j3 EXCEPT !.mail[Peer(e)] = y]
<1>1. /\ old \in QueueType /\ n.end[e] \in EndType /\ n.end[e].read \in Nat
      /\ n.got[e] \in Seq(Frame) /\ n.mail[Peer(e)] \in Seq(Cmd) /\ ready \in Seq(Frame)
    BY NetFields, QueueFields, EndFields, Ends
<1>2. Batch(n, e) = j4
    BY DEF Batch, InQueue, Messages, AllRead, Beyond
<1>2a. k = Whole(ready)
    OBVIOUS
<1>2b. count \in Nat /\ n.end[e].read <= count
    BY AllReadFacts
<1> HIDE DEF old, count
<1>3. /\ k \in 0 .. Len(ready)
      /\ k = Len(ready) \/ (k = Len(ready) - 1 /\ ready[k + 1] = DELIMITER)
      /\ k = Len(ready) /\ k > 0 => ready[k] # DELIMITER
  <2> HIDE DEF ready
  <2> QED BY <1>1, <1>2a, WholeFacts
<1>3a. rest \in Seq(Frame) /\ SubSeq(ready, 1, k) \in Seq(Frame)
  <2> HIDE DEF ready
  <2> QED BY <1>1, <1>2a, WholeFacts DEF Beyond
<1>4. rest \in Seq(Frame) /\ x \in Seq(Frame)
  <2> DEFINE z == SubSeq(ready, 1, k)
  <2> HIDE DEF ready, rest, z
  <2> QED BY <1>1, <1>3a DEF z
<1>5. /\ count \in Nat /\ due \in Seq(Cmd) /\ y \in Seq(Cmd)
      /\ Reported(due, n.end[e].read, count)
  <2>2. due \in Seq(Cmd) /\ Reported(due, n.end[e].read, count)
    BY <1>1, <1>2b, DueFacts
  <2> HIDE DEF due
  <2> QED BY <1>2b, <2>2, <1>1
<1>6. new \in QueueType /\ new.part = old.part /\ new.ready = rest /\ new.deleted = old.deleted
  <2> HIDE DEF rest
  <2> QED BY <1>1, <1>4 DEF QueueType
<1>7. /\ r \in EndType /\ r.state = n.end[e].state /\ r.read = count
      /\ r.written = n.end[e].written /\ r.peersRead = n.end[e].peersRead
  <2> QED BY <1>1, <1>5 DEF EndType
<1>8. Points(r, n.end[e]) /\ Flags(r, n.end[e])
  <2> QED BY <1>1 DEF EndType, Points, Flags
<1> HIDE DEF rest, x, y, new, r
<1>9. /\ j1 \in NetType
      /\ j1.end = n.end /\ j1.mail = n.mail /\ j1.sent = n.sent /\ j1.got = n.got
      /\ DOMAIN j1.queue = DOMAIN n.queue /\ Len(j1.queue) = Len(n.queue)
      /\ j1.queue[q] = new
      /\ \A p \in DOMAIN n.queue : p # q => j1.queue[p] = n.queue[p]
    BY <1>6, WithQueue
<1> HIDE DEF j1
<1>10. /\ j2 \in NetType
       /\ j2.queue = j1.queue /\ j2.mail = j1.mail /\ j2.sent = j1.sent /\ j2.got = j1.got
       /\ j2.end[e] = r /\ j2.end[Peer(e)] = j1.end[Peer(e)]
  <2>1. j1 \in NetType /\ r \in EndType
    BY <1>9, <1>7
  <2> QED BY <2>1, WithEnd
<1> HIDE DEF j2
<1>11. /\ j3 \in NetType
       /\ j3.queue = j2.queue /\ j3.mail = j2.mail /\ j3.end = j2.end /\ j3.sent = j2.sent
       /\ j3.got[e] = x /\ j3.got[Peer(e)] = j2.got[Peer(e)]
  <2>1. j2 \in NetType /\ x \in Seq(Frame)
    BY <1>10, <1>4
  <2> QED BY <2>1, WithGot
<1> HIDE DEF j3
<1>12. /\ j4 \in NetType
       /\ j4.queue = j3.queue /\ j4.sent = j3.sent /\ j4.end = j3.end /\ j4.got = j3.got
       /\ j4.mail[Peer(e)] = y /\ j4.mail[e] = j3.mail[e]
  <2>1. j3 \in NetType /\ y \in Seq(Cmd)
    BY <1>11, <1>5
  <2> QED BY <2>1, WithMail
<1> HIDE DEF j4
<1> DEFINE m == Batch(n, e)
<1>13. /\ m \in NetType
       /\ m.sent = n.sent /\ m.mail[e] = n.mail[e] /\ m.mail[Peer(e)] = y
       /\ m.got[Peer(e)] = n.got[Peer(e)] /\ m.got[e] = x
       /\ m.end[Peer(e)] = n.end[Peer(e)] /\ m.end[e] = r
       /\ DOMAIN m.queue = DOMAIN n.queue /\ Len(m.queue) = Len(n.queue)
       /\ \A p \in DOMAIN n.queue : p # q => m.queue[p] = n.queue[p]
       /\ m.queue[q] = new
    BY <1>2, <1>9, <1>10, <1>11, <1>12
<1> HIDE DEF m
<1>14. /\ due = Due(n.end[e].read, AllRead(n, e)) /\ count = AllRead(n, e)
       /\ y = Cat(n.mail[Peer(e)], due) /\ x = n.got[e] \o SubSeq(n.queue[q].ready, 1, k)
       /\ rest = Beyond(n.queue[q].ready, k) /\ ready = n.queue[q].ready
       /\ old = n.queue[q]
    BY DEF due, count, y, x, rest, ready, old, Cat
<1> HIDE DEF due, ready
<1>15. /\ m.mail[Peer(e)] = Cat(n.mail[Peer(e)], Due(n.end[e].read, AllRead(n, e)))
       /\ Due(n.end[e].read, AllRead(n, e)) \in Seq(Cmd)
       /\ Reported(Due(n.end[e].read, AllRead(n, e)), n.end[e].read, AllRead(n, e))
    BY <1>5, <1>13, <1>14
<1>16. /\ m.got[e] = n.got[e] \o SubSeq(n.queue[q].ready, 1, k)
       /\ m.end[e].state = n.end[e].state
       /\ Points(m.end[e], n.end[e]) /\ Flags(m.end[e], n.end[e])
       /\ m.end[e].written = n.end[e].written /\ m.end[e].peersRead = n.end[e].peersRead
       /\ m.end[e].read = AllRead(n, e)
       /\ m.queue[q].deleted = n.queue[q].deleted /\ m.queue[q].part = n.queue[q].part
       /\ m.queue[q].ready = Beyond(n.queue[q].ready, k)
    BY <1>6, <1>7, <1>8, <1>13, <1>14
<1>17. /\ k \in 0 .. Len(n.queue[q].ready)
       /\ k = Len(n.queue[q].ready) \/ (k = Len(n.queue[q].ready) - 1 /\ n.queue[q].ready[k + 1] = DELIMITER)
       /\ k = Len(n.queue[q].ready) /\ k > 0 => n.queue[q].ready[k] # DELIMITER
    BY <1>3, <1>14
<1> QED BY <1>13, <1>15, <1>16, <1>17 DEF m

------------------------------------------------------------------------------
(* Steps: methods of one end keep PairInv *)

\* The commands that are sent in any state and change none.
Noise == {"activate_read", "activate_write"}

\* A mailbox to which no hiccup was added; no queue was made or deleted.
Grown(N, M) ==
    /\ Len(N) <= Len(M) /\ \A i \in 1 .. Len(N) : M[i] = N[i]
    /\ \A i \in Len(N) + 1 .. Len(M) : M[i][1] # "hiccup"

\* The queues are the same, and none is freed.
Kept(n, m) ==
    /\ DOMAIN m.queue = DOMAIN n.queue
    /\ \A q \in DOMAIN n.queue : m.queue[q].deleted = n.queue[q].deleted

\* A method of the end e that changes no state and sends noise at most.
Quiet(n, m, e) ==
    /\ m \in NetType
    /\ Kept(n, m) /\ Grown(n.mail[Peer(e)], m.mail[Peer(e)])
    /\ \A x \in End : m.end[x].state = n.end[x].state /\ Points(m.end[x], n.end[x])
    /\ m.mail[e] = n.mail[e]
    /\ Types(m.mail[Peer(e)]) \ Noise = Types(n.mail[Peer(e)]) \ Noise
    /\ Ordered(n.mail[Peer(e)]) /\ "pipe_term_ack" \notin Types(n.mail[Peer(e)])
         => Ordered(m.mail[Peer(e)])

\* The end may still send.
Talks(n, e) == n.end[e].state \notin Silent \cup {"none"}

\* What the owners of the ends see of a method of the end e: nothing.
Keeps(n, m, e) ==
    /\ m.mail[e] = n.mail[e]
    /\ Types(m.mail[Peer(e)]) \cap OwnTypes = Types(n.mail[Peer(e)]) \cap OwnTypes
    /\ m.end[Peer(e)].state = n.end[Peer(e)].state
    /\ Has(m, e) <=> Has(n, e)
    /\ m.end[e].state = "none" <=> n.end[e].state = "none"

\* What the queues and the hiccups see: no queue is made, freed or exchanged,
\* except that an end may let go of its queue once no hiccup is on its way to it.
Shape(n, m, e) ==
    /\ Kept(n, m) /\ Grown(n.mail[Peer(e)], m.mail[Peer(e)])
    /\ \A x \in End : m.end[x].in = n.end[x].in
    /\ m.end[Peer(e)].out = n.end[Peer(e)].out
    /\ \/ m.end[e].out = n.end[e].out
       \/ m.end[e].out = NULL /\ "hiccup" \notin Types(n.mail[e])

\* A method of the end e.
Step(n, m, e) == PairInv(m) /\ Keeps(n, m, e) /\ Shape(n, m, e)

\* Commands that are added and are no hiccups.
LEMMA GrownFacts ==
    ASSUME NEW M \in Seq(Cmd)
    PROVE  /\ Grown(M, M)
           /\ \A c \in Cmd : c[1] # "hiccup" => Grown(M, Append(M, c))
           /\ \A r \in Seq(Cmd) : "hiccup" \notin Types(r) => Grown(M, M \o r)
<1>1. Grown(M, M)
    BY DEF Grown
<1>2. ASSUME NEW c \in Cmd, c[1] # "hiccup" PROVE Grown(M, Append(M, c))
  <2>1. /\ Len(M) \in Nat /\ Len(Append(M, c)) = Len(M) + 1
        /\ \A i \in 1 .. Len(M) : Append(M, c)[i] = M[i]
        /\ Append(M, c)[Len(M) + 1] = c
    OBVIOUS
  <2> QED BY <1>2, <2>1 DEF Grown
<1>3. ASSUME NEW r \in Seq(Cmd), "hiccup" \notin Types(r) PROVE Grown(M, M \o r)
  <2>1. /\ Len(M) \in Nat /\ Len(r) \in Nat /\ Len(M \o r) = Len(M) + Len(r)
        /\ \A i \in 1 .. Len(M) : (M \o r)[i] = M[i]
        /\ \A i \in Len(M) + 1 .. Len(M) + Len(r) : (M \o r)[i] = r[i - Len(M)]
        /\ DOMAIN r = 1 .. Len(r)
    OBVIOUS
  <2>2. \A i \in Len(M) + 1 .. Len(M) + Len(r) : i - Len(M) \in DOMAIN r
    BY <2>1
  <2>3. \A i \in DOMAIN r : r[i][1] # "hiccup"
    BY <1>3 DEF Types
  <2> QED BY <2>1, <2>2, <2>3 DEF Grown
<1> QED BY <1>1, <1>2, <1>3

\* Grown is transitive.
LEMMA GrownTransitive ==
    ASSUME NEW M \in Seq(Cmd), NEW N \in Seq(Cmd), NEW P \in Seq(Cmd), Grown(M, N), Grown(N, P)
    PROVE  Grown(M, P)
<1>1. Len(M) \in Nat /\ Len(N) \in Nat /\ Len(P) \in Nat
    OBVIOUS
<1>2. Len(M) <= Len(P) /\ \A i \in 1 .. Len(M) : P[i] = M[i]
    BY <1>1 DEF Grown
<1>3. ASSUME NEW i \in Len(M) + 1 .. Len(P) PROVE P[i][1] # "hiccup"
  <2>1. CASE i \in Len(N) + 1 .. Len(P)
    BY <2>1 DEF Grown
  <2>2. CASE i \in Len(M) + 1 .. Len(N)
    BY <2>2, <1>1 DEF Grown
  <2> QED BY <1>1, <2>1, <2>2
<1> QED BY <1>2, <1>3 DEF Grown

\* So is Quiet.
LEMMA QuietTransitive ==
    ASSUME NEW n \in NetType, NEW k, NEW m, NEW e \in End, Quiet(n, k, e), Quiet(k, m, e)
    PROVE  Quiet(n, m, e)
<1>1. m \in NetType /\ Kept(n, m) /\ m.mail[e] = n.mail[e]
    BY DEF Quiet, Kept
<1>1a. Grown(n.mail[Peer(e)], m.mail[Peer(e)])
  <2>1. /\ n.mail[Peer(e)] \in Seq(Cmd) /\ k.mail[Peer(e)] \in Seq(Cmd) /\ m.mail[Peer(e)] \in Seq(Cmd)
        /\ Grown(n.mail[Peer(e)], k.mail[Peer(e)]) /\ Grown(k.mail[Peer(e)], m.mail[Peer(e)])
    BY NetFields, Ends DEF Quiet
  <2> QED BY <2>1, GrownTransitive
<1>2. \A x \in End : m.end[x].state = n.end[x].state /\ Points(m.end[x], n.end[x])
    BY DEF Quiet, Points
<1>3. Types(m.mail[Peer(e)]) \ Noise = Types(n.mail[Peer(e)]) \ Noise
    BY DEF Quiet
<1>4. ASSUME Ordered(n.mail[Peer(e)]), "pipe_term_ack" \notin Types(n.mail[Peer(e)])
      PROVE  Ordered(m.mail[Peer(e)])
  <2>1. "pipe_term_ack" \notin Types(k.mail[Peer(e)])
    BY <1>4 DEF Quiet, Noise
  <2> QED BY <1>4, <2>1 DEF Quiet
<1> QED BY <1>1, <1>1a, <1>2, <1>3, <1>4 DEF Quiet

\* So is Step: methods that call methods are Steps.
LEMMA StepTransitive ==
    ASSUME NEW n \in NetType, NEW k, NEW m, NEW e \in End, Step(n, k, e), Step(k, m, e)
    PROVE  Step(n, m, e)
<1>1. Keeps(n, m, e) /\ PairInv(m)
    BY DEF Step, Keeps
<1>2. Grown(n.mail[Peer(e)], m.mail[Peer(e)])
  <2>1. /\ n.mail[Peer(e)] \in Seq(Cmd) /\ k.mail[Peer(e)] \in Seq(Cmd) /\ m.mail[Peer(e)] \in Seq(Cmd)
        /\ Grown(n.mail[Peer(e)], k.mail[Peer(e)]) /\ Grown(k.mail[Peer(e)], m.mail[Peer(e)])
    BY NetFields, Ends DEF Step, Shape, PairInv
  <2> QED BY <2>1, GrownTransitive
<1>3. Kept(n, m) /\ (\A x \in End : m.end[x].in = n.end[x].in) /\ m.end[Peer(e)].out = n.end[Peer(e)].out
    BY DEF Step, Shape, Kept
<1>4. \/ m.end[e].out = n.end[e].out
      \/ m.end[e].out = NULL /\ "hiccup" \notin Types(n.mail[e])
    BY DEF Step, Shape, Keeps
<1> QED BY <1>1, <1>2, <1>3, <1>4 DEF Step, Shape

\* PairInv from the side of either end.
LEMMA EndFacts ==
    ASSUME NEW n, PairInv(n), NEW e \in End
    PROVE  n \in NetType /\ RefInv(n) /\ EndInv(n, e) /\ EndInv(n, Peer(e)) /\ Peer(e) \in End /\ Peer(Peer(e)) = e /\ Peer(e) # e
BY Ends DEF PairInv, End

\* PairInv from the sides of both ends.
LEMMA PairIntro ==
    ASSUME NEW n \in NetType, RefInv(n), NEW e \in End, EndInv(n, e), EndInv(n, Peer(e))
    PROVE  PairInv(n)
BY DEF PairInv, End, Peer

\* What changes no state keeps PairInv, if the end may send.
LEMMA QuietInv ==
    ASSUME NEW n, PairInv(n), NEW e \in End, NEW m, Quiet(n, m, e), Talks(n, e) \/ m.mail = n.mail
    PROVE  Step(n, m, e)
<1> DEFINE to == Types(n.mail[Peer(e)])
           tom == Types(m.mail[Peer(e)])
           s == n.end[e].state
           t == n.end[Peer(e)].state
<1>1. /\ n \in NetType /\ RefInv(n) /\ EndInv(n, e) /\ EndInv(n, Peer(e))
      /\ Peer(e) \in End /\ Peer(Peer(e)) = e /\ Peer(e) # e
    BY EndFacts
<1>2. m \in NetType /\ RefInv(m)
    BY <1>1 DEF Quiet, RefInv, Points, Kept
<1>3. /\ m.end[e].state = s /\ m.end[Peer(e)].state = t
      /\ m.end[e].out = n.end[e].out /\ m.end[Peer(e)].out = n.end[Peer(e)].out
      /\ m.mail[e] = n.mail[e] /\ tom \ Noise = to \ Noise
    BY <1>1 DEF Quiet, Points
<1>4. EndInv(m, Peer(e))
    BY <1>1, <1>3, Zenon DEF EndInv
<1>5. /\ "pipe_term" \in tom <=> "pipe_term" \in to
      /\ "pipe_term_ack" \in tom <=> "pipe_term_ack" \in to
      /\ "hiccup" \in tom <=> "hiccup" \in to
      /\ tom \cap OwnTypes = to \cap OwnTypes
    BY <1>3 DEF Noise, OwnTypes
<1>6. /\ t \in {"none", "deleted"} => tom \cap PipeTypes = {}
      /\ Ordered(m.mail[Peer(e)])
  <2>1. CASE m.mail = n.mail
    BY <2>1, <1>1 DEF EndInv, EndOK
  <2>2. CASE Talks(n, e)
    <3>1. t \notin {"none", "deleted"} /\ s \notin Silent
      BY <2>2, <1>1 DEF EndInv, EndOK, Compatible, Talks, Silent
    <3>2. "pipe_term_ack" \notin to /\ Ordered(n.mail[Peer(e)])
      BY <3>1, <1>1 DEF EndInv, EndOK
    <3> QED BY <3>1, <3>2 DEF Quiet
  <2> QED BY <2>1, <2>2
<1>7. EndInv(m, e)
  <2>1. EndOK(e, s, t, n.end[e].out, n.mail[Peer(e)])
    BY <1>1 DEF EndInv
  <2>2. EndOK(e, s, t, n.end[e].out, m.mail[Peer(e)])
    <3> HIDE DEF s, t
    <3> QED BY <2>1, <1>5, <1>6 DEF EndOK
  <2> QED BY <2>2, <1>3 DEF EndInv
<1>8. PairInv(m)
    BY <1>2, <1>4, <1>7, PairIntro
<1>9. Keeps(n, m, e)
    BY <1>3, <1>5 DEF Keeps, Has
<1>10. Shape(n, m, e)
    BY <1>1 DEF Quiet, Shape, Points
<1> QED BY <1>8, <1>9, <1>10 DEF Step

\* Noise is added to a mailbox.
LEMMA NoiseAppended ==
    ASSUME NEW M \in Seq(Cmd), NEW c \in Cmd, c[1] \in Noise
    PROVE  /\ Types(Append(M, c)) \ Noise = Types(M) \ Noise
           /\ Ordered(M) /\ "pipe_term_ack" \notin Types(M) => Ordered(Append(M, c))
           /\ Grown(M, Append(M, c)) /\ Grown(M, M)
<1>1. /\ Types(Append(M, c)) = Types(M) \cup {c[1]}
      /\ Ordered(M) /\ (\A t \in Types(M) : Before(t, c[1])) => Ordered(Append(M, c))
    BY Appended
<1>2. ASSUME "pipe_term_ack" \notin Types(M), NEW t \in Types(M) PROVE Before(t, c[1])
    BY <1>2 DEF Before, Noise, PipeTypes
<1> QED BY <1>1, <1>2, GrownFacts DEF Noise

\* ypipe_t::write and flush.
LEMMA PutQuiet ==
    ASSUME NEW n \in NetType, NEW e \in End, NEW frame \in Frame, NEW q \in DOMAIN n.queue, q = n.end[e].out
    PROVE  Quiet(n, Put(n, e, frame), e)
<1> DEFINE m == Put(n, e, frame)
<1>1. n.mail[Peer(e)] \in Seq(Cmd) /\ <<"activate_read", 0>> \in Cmd /\ "activate_read" \in Noise
    BY NetFields, Ends DEF Cmd, PipeTypes, Noise
<1>2. /\ m \in NetType /\ m.end = n.end /\ Kept(n, m)
      /\ m.mail[e] = n.mail[e]
      /\ \/ m.mail[Peer(e)] = n.mail[Peer(e)]
         \/ m.mail[Peer(e)] = Append(n.mail[Peer(e)], <<"activate_read", 0>>)
  <2>1. CASE More(frame)
    <3>1. /\ m \in NetType /\ m.end = n.end /\ DOMAIN m.queue = DOMAIN n.queue
          /\ m.mail = n.mail
          /\ \A p \in DOMAIN n.queue : p # q => m.queue[p] = n.queue[p]
          /\ m.queue[q].deleted = n.queue[q].deleted
      BY <2>1, PutPart
    <3> HIDE DEF m
    <3> QED BY <3>1 DEF Kept
  <2>2. CASE ~More(frame)
    <3>1. /\ m \in NetType /\ m.end = n.end /\ DOMAIN m.queue = DOMAIN n.queue
          /\ m.mail[e] = n.mail[e]
          /\ \/ m.mail[Peer(e)] = n.mail[Peer(e)]
             \/ m.mail[Peer(e)] = Append(n.mail[Peer(e)], <<"activate_read", 0>>)
      BY <2>2, PutFlush
    <3>2. /\ \A p \in DOMAIN n.queue : p # q => m.queue[p] = n.queue[p]
          /\ m.queue[q].deleted = n.queue[q].deleted
      BY <2>2, PutFlush
    <3> HIDE DEF m
    <3> QED BY <3>1, <3>2 DEF Kept
  <2> QED BY <2>1, <2>2
<1> HIDE DEF m
<1>3. \A x \in End : m.end[x].state = n.end[x].state /\ Points(m.end[x], n.end[x])
    BY <1>2 DEF Points
<1>4. LET M == Append(n.mail[Peer(e)], <<"activate_read", 0>>) N == n.mail[Peer(e)]
      IN /\ Types(M) \ Noise = Types(N) \ Noise
         /\ Ordered(N) /\ "pipe_term_ack" \notin Types(N) => Ordered(M)
         /\ Grown(N, M) /\ Grown(N, N)
    BY <1>1, NoiseAppended
<1> QED BY <1>2, <1>3, <1>4 DEF Quiet, m

\* An end changes a flag or a counter, or what a queue holds.
LEMMA SameMailQuiet ==
    ASSUME NEW n \in NetType, NEW e \in End, NEW m \in NetType, m.mail = n.mail,
           Kept(n, m), m.end[Peer(e)] = n.end[Peer(e)],
           m.end[e].state = n.end[e].state, Points(m.end[e], n.end[e])
    PROVE  Quiet(n, m, e)
<1>1. \A x \in End : m.end[x].state = n.end[x].state /\ Points(m.end[x], n.end[x])
    BY Ends DEF Points
<1>2. Grown(n.mail[Peer(e)], n.mail[Peer(e)])
    BY NetFields, Ends, GrownFacts
<1> QED BY <1>1, <1>2 DEF Quiet

\* pipe_t::read of a frame.
LEMMA TakeQuiet ==
    ASSUME NEW n \in NetType, NEW e \in End, NEW q \in DOMAIN n.queue, q = n.end[e].in,
           n.queue[q].ready # <<>>
    PROVE  Quiet(n, Take(n, e), e)
<1> DEFINE m == Take(n, e)
           frame == Head(n.queue[q].ready)
           count == n.end[e].read + (IF More(frame) THEN 0 ELSE 1)
<1>1. /\ m \in NetType /\ m.mail[e] = n.mail[e] /\ count \in Nat
      /\ \/ m.mail[Peer(e)] = n.mail[Peer(e)]
         \/ m.mail[Peer(e)] = Append(n.mail[Peer(e)], <<"activate_write", count>>)
      /\ m.end[Peer(e)] = n.end[Peer(e)]
      /\ m.end[e].state = n.end[e].state
      /\ Points(m.end[e], n.end[e])
      /\ DOMAIN m.queue = DOMAIN n.queue
      /\ \A p \in DOMAIN n.queue : p # q => m.queue[p] = n.queue[p]
      /\ m.queue[q].deleted = n.queue[q].deleted
    BY TakeEffect
<1> HIDE DEF m, count
<1>1a. Kept(n, m)
    BY <1>1 DEF Kept
<1>2. n.mail[Peer(e)] \in Seq(Cmd) /\ <<"activate_write", count>> \in Cmd /\ "activate_write" \in Noise
    BY <1>1, NetFields, Ends DEF Cmd, PipeTypes, Noise
<1>3. \A x \in End : m.end[x].state = n.end[x].state /\ Points(m.end[x], n.end[x])
    BY <1>1, Ends DEF Points
<1>4. LET M == Append(n.mail[Peer(e)], <<"activate_write", count>>) N == n.mail[Peer(e)]
      IN /\ Types(M) \ Noise = Types(N) \ Noise
         /\ Ordered(N) /\ "pipe_term_ack" \notin Types(N) => Ordered(M)
         /\ Grown(N, M) /\ Grown(N, N)
    BY <1>2, NoiseAppended
<1> QED BY <1>1, <1>1a, <1>3, <1>4 DEF Quiet, m

\* pipe_t::write.
LEMMA WriteStep ==
    ASSUME NEW n, PairInv(n), NEW e \in End, NEW frame \in Frame
    PROVE  Step(n, Write(n, e, frame), e)
<1>1. /\ n \in NetType /\ RefInv(n) /\ EndInv(n, e)
    BY EndFacts
<1>2. CASE ~CanWrite(n, e)
  <2>1. Write(n, e, frame) = CheckWrite(n, e)
    BY <1>2 DEF Write
  <2>2. Quiet(n, CheckWrite(n, e), e) /\ CheckWrite(n, e).mail = n.mail
    <3> DEFINE m == CheckWrite(n, e)
    <3>1. /\ m \in NetType /\ m.queue = n.queue /\ m.mail = n.mail
          /\ m.end[Peer(e)] = n.end[Peer(e)] /\ m.end[e].state = n.end[e].state
          /\ Points(m.end[e], n.end[e])
      BY <1>1, CheckWriteEffect
    <3> HIDE DEF m
    <3>2. Kept(n, m)
      BY <3>1 DEF Kept
    <3>3. Quiet(n, m, e)
      BY <1>1, <3>1, <3>2, SameMailQuiet
    <3> QED BY <3>1, <3>3 DEF m
  <2> QED BY <2>1, <2>2, QuietInv
<1>3. CASE CanWrite(n, e)
  <2> DEFINE x == IF More(frame) THEN 0 ELSE 1
             k == [n EXCEPT !.end[e].written = @ + x]
  <2>1. Write(n, e, frame) = Put(k, e, frame)
    BY <1>3 DEF Write
  <2>2. Talks(n, e) /\ n.end[e].out \in DOMAIN n.queue
    BY <1>1, <1>3 DEF CanWrite, Talks, Silent, EndInv, EndOK, RefInv
  <2>3. /\ k \in NetType
        /\ k.queue = n.queue /\ k.mail = n.mail
        /\ k.end[Peer(e)] = n.end[Peer(e)]
        /\ k.end[e].state = n.end[e].state
        /\ Points(k.end[e], n.end[e])
    <3>1. x \in Int
      OBVIOUS
    <3> HIDE DEF x
    <3> QED BY <1>1, <3>1, CountEffect
  <2> HIDE DEF k
  <2>4. Quiet(n, k, e)
    <3>1. Kept(n, k)
      BY <2>3 DEF Kept
    <3> QED BY <1>1, <2>3, <3>1, SameMailQuiet
  <2>5. k.end[e].out \in DOMAIN k.queue
    BY <2>2, <2>3 DEF Points
  <2>6. Quiet(k, Put(k, e, frame), e)
    BY <2>3, <2>5, PutQuiet
  <2>7. Quiet(n, Put(k, e, frame), e)
    BY <1>1, <2>4, <2>6, QuietTransitive
  <2> QED BY <2>1, <2>2, <2>7, QuietInv
<1> QED BY <1>2, <1>3

\* An end that may send still may.
LEMMA QuietMonotone ==
    ASSUME NEW n, NEW k, NEW m, NEW e \in End, Quiet(n, k, e), Talks(n, e)
    PROVE  Talks(k, e)
BY DEF Quiet, Talks

\* check_read and read do something in these states only.
Reads(n, e) == n.end[e].state \in {"active", "waiting_for_delimiter"}

\* One end moves: what is to be shown of the two.
LEMMA Moved ==
    ASSUME NEW n, PairInv(n), NEW e \in End, NEW m \in NetType,
           DOMAIN n.queue \subseteq DOMAIN m.queue,
           m.end[Peer(e)] = n.end[Peer(e)], m.mail[e] = n.mail[e],
           m.end[e].in \in DOMAIN m.queue, m.end[e].out \in {NULL} \cup DOMAIN m.queue,
           EndOK(e, m.end[e].state, n.end[Peer(e)].state, m.end[e].out, m.mail[Peer(e)]),
           EndOK(Peer(e), n.end[Peer(e)].state, m.end[e].state, n.end[Peer(e)].out, n.mail[e])
    PROVE  PairInv(m)
<1>1. /\ n \in NetType /\ RefInv(n) /\ EndInv(n, e) /\ EndInv(n, Peer(e))
      /\ Peer(e) \in End /\ Peer(Peer(e)) = e /\ Peer(e) # e
    BY EndFacts
<1>2. RefInv(m)
  <2>1. /\ n.end[Peer(e)].in \in DOMAIN n.queue
        /\ n.end[Peer(e)].out \in {NULL} \cup DOMAIN n.queue
    BY <1>1 DEF RefInv
  <2>2. \A x \in End : x = e \/ x = Peer(e)
    BY Ends
  <2> QED BY <2>1, <2>2 DEF RefInv
<1>3. EndInv(m, e) /\ EndInv(m, Peer(e))
    BY <1>1 DEF EndInv
<1> QED BY <1>2, <1>3, PairIntro

\* A mailbox with one more command.
LEMMA TypeAppended ==
    ASSUME NEW M \in Seq(Cmd), NEW type \in PipeTypes \cup OwnTypes, NEW arg \in Nat
    PROVE  /\ Types(Append(M, <<type, arg>>)) = Types(M) \cup {type}
           /\ Ordered(M) /\ (\A x \in Types(M) : Before(x, type))
                => Ordered(Append(M, <<type, arg>>))
<1> DEFINE c == <<type, arg>>
<1>1. c \in Cmd /\ c[1] = type
    BY DEF Cmd
<1> HIDE DEF c
<1>2. /\ Types(Append(M, c)) = Types(M) \cup {type}
      /\ Ordered(M) /\ (\A x \in Types(M) : Before(x, type)) => Ordered(Append(M, c))
    BY <1>1, Appended
<1> QED BY <1>2 DEF c

\* The acknowledgement of an end that has been waiting.
LEMMA AcknowledgeOK ==
    ASSUME NEW e \in End, NEW t \in States, NEW M \in Seq(Cmd), NEW P \in Seq(Cmd), NEW out, NEW pout,
           EndOK(e, "waiting_for_delimiter", t, out, M), EndOK(Peer(e), t, "waiting_for_delimiter", pout, P)
    PROVE  /\ EndOK(e, "term_ack_sent", t, NULL, Append(M, <<"pipe_term_ack", 0>>))
           /\ EndOK(Peer(e), t, "term_ack_sent", pout, P)
           /\ Types(Append(M, <<"pipe_term_ack", 0>>)) = Types(M) \cup {"pipe_term_ack"}
<1> DEFINE M2 == Append(M, <<"pipe_term_ack", 0>>)
<1>1. /\ Types(M2) = Types(M) \cup {"pipe_term_ack"}
      /\ Ordered(M) /\ (\A x \in Types(M) : Before(x, "pipe_term_ack")) => Ordered(M2)
    BY TypeAppended DEF PipeTypes
<1> HIDE DEF M2
<1>2. t = "term_req_sent1" /\ "pipe_term_ack" \notin Types(M) /\ Ordered(M)
    BY DEF EndOK, Compatible, Silent
<1>3. Ordered(M2)
    BY <1>1, <1>2 DEF Before
<1>4. EndOK(e, "term_ack_sent", t, NULL, M2)
    BY <1>1, <1>2, <1>3 DEF EndOK, Compatible, Silent, Unasked, PipeTypes
<1>5. EndOK(Peer(e), t, "term_ack_sent", pout, P)
    BY <1>2 DEF EndOK, Compatible, Silent, Unasked
<1> QED BY <1>1, <1>4, <1>5 DEF M2

\* An end that has met the delimiter acknowledges.
LEMMA AcknowledgeStep ==
    ASSUME NEW n, PairInv(n), NEW e \in End, n.end[e].state = "waiting_for_delimiter"
    PROVE  Step(n, Acknowledge(n, e, "term_ack_sent"), e)
<1> DEFINE m == Acknowledge(n, e, "term_ack_sent")
           t == n.end[Peer(e)].state
           M == n.mail[Peer(e)]
<1>1. /\ n \in NetType /\ RefInv(n) /\ EndInv(n, e) /\ EndInv(n, Peer(e))
      /\ Peer(e) \in End /\ Peer(Peer(e)) = e /\ Peer(e) # e
    BY EndFacts
<1>2. /\ m \in NetType
      /\ m.queue = n.queue
      /\ m.mail[e] = n.mail[e]
      /\ m.mail[Peer(e)] = Append(M, <<"pipe_term_ack", 0>>)
      /\ m.end[Peer(e)] = n.end[Peer(e)]
      /\ m.end[e].state = "term_ack_sent" /\ m.end[e].in = n.end[e].in /\ m.end[e].out = NULL
  <2>1. "term_ack_sent" \in States
    BY DEF States
  <2> HIDE DEF m
  <2> QED BY <1>1, <2>1, AcknowledgeEffect DEF m
<1> HIDE DEF m
<1>3. /\ EndOK(e, "waiting_for_delimiter", t, n.end[e].out, M)
      /\ EndOK(Peer(e), t, "waiting_for_delimiter", n.end[Peer(e)].out, n.mail[e])
    BY <1>1 DEF EndInv
<1>4. M \in Seq(Cmd) /\ n.mail[e] \in Seq(Cmd) /\ t \in States
    BY <1>1, NetFields, EndFields
<1>5. /\ EndOK(e, "term_ack_sent", t, NULL, Append(M, <<"pipe_term_ack", 0>>))
      /\ EndOK(Peer(e), t, "term_ack_sent", n.end[Peer(e)].out, n.mail[e])
      /\ Types(Append(M, <<"pipe_term_ack", 0>>)) = Types(M) \cup {"pipe_term_ack"}
  <2> HIDE DEF M, t
  <2> QED BY <1>3, <1>4, AcknowledgeOK
<1>6. PairInv(m)
  <2>1. m.end[e].in \in DOMAIN m.queue
    BY <1>1, <1>2 DEF RefInv
  <2> HIDE DEF M
  <2> QED BY <1>2, <1>5, <2>1, Moved
<1>7. Keeps(n, m, e)
    BY <1>2, <1>5 DEF Keeps, Has, OwnTypes
<1>8. Shape(n, m, e)
  <2>1. Grown(M, Append(M, <<"pipe_term_ack", 0>>))
    <3>1. <<"pipe_term_ack", 0>> \in Cmd /\ <<"pipe_term_ack", 0>>[1] # "hiccup"
      BY DEF Cmd, PipeTypes
    <3> QED BY <1>4, <3>1, GrownFacts
  <2>2. "hiccup" \notin Types(n.mail[e])
    BY <1>3 DEF EndOK, Unasked
  <2>3. Kept(n, m)
    BY <1>2 DEF Kept
  <2>4. \A x \in End : m.end[x].in = n.end[x].in
    BY <1>2, Ends
  <2> QED BY <1>2, <2>1, <2>2, <2>3, <2>4 DEF Shape
<1> QED BY <1>6, <1>7, <1>8 DEF Step, m

\* A method that does nothing.
LEMMA StepReflexive ==
    ASSUME NEW n, PairInv(n), NEW e \in End
    PROVE  Step(n, n, e)
<1>1. n.mail[Peer(e)] \in Seq(Cmd)
    BY NetFields, Ends DEF PairInv
<1> QED BY <1>1, GrownFacts DEF Step, Keeps, Shape, Kept

\* A frame is read.
LEMMA PopQuiet ==
    ASSUME NEW n \in NetType, NEW e \in End, NEW q \in DOMAIN n.queue, q = n.end[e].in,
           n.queue[q].ready # <<>>
    PROVE  Quiet(n, Pop(n, e), e) /\ Pop(n, e).mail = n.mail
<1> DEFINE m == Pop(n, e)
<1>1. /\ m \in NetType
      /\ m.end = n.end /\ m.mail = n.mail
      /\ DOMAIN m.queue = DOMAIN n.queue
      /\ \A p \in DOMAIN n.queue : p # q => m.queue[p] = n.queue[p]
      /\ m.queue[q].deleted = n.queue[q].deleted
    BY PopEffect
<1> HIDE DEF m
<1>2. Kept(n, m) /\ Points(m.end[e], n.end[e])
    BY <1>1 DEF Kept, Points
<1> QED BY <1>1, <1>2, SameMailQuiet DEF m

\* A reader goes to sleep.
LEMMA SleepQuiet ==
    ASSUME NEW n \in NetType, NEW e \in End, NEW q \in DOMAIN n.queue, q = n.end[e].in
    PROVE  Quiet(n, Sleep(n, e), e) /\ Sleep(n, e).mail = n.mail
<1> DEFINE m == Sleep(n, e)
<1>1. /\ m \in NetType
      /\ m.mail = n.mail
      /\ m.end[Peer(e)] = n.end[Peer(e)]
      /\ m.end[e].state = n.end[e].state
      /\ Points(m.end[e], n.end[e])
      /\ DOMAIN m.queue = DOMAIN n.queue
      /\ \A p \in DOMAIN n.queue : p # q => m.queue[p] = n.queue[p]
      /\ m.queue[q].deleted = n.queue[q].deleted
    BY SleepEffect
<1> HIDE DEF m
<1>2. Kept(n, m)
    BY <1>1 DEF Kept
<1> QED BY <1>1, <1>2, SameMailQuiet DEF m

\* rollback.
LEMMA RollbackQuiet ==
    ASSUME NEW n \in NetType, RefInv(n), NEW e \in End
    PROVE  Quiet(n, Rollback(n, e), e) /\ Rollback(n, e).mail = n.mail /\ Rollback(n, e).end = n.end
<1> DEFINE m == Rollback(n, e)
<1>1. CASE n.end[e].out = NULL
  <2>1. m = n
    BY <1>1 DEF Rollback
  <2> HIDE DEF m
  <2> QED BY <2>1, SameMailQuiet DEF Kept, Points, m
<1>2. CASE n.end[e].out # NULL
  <2> DEFINE q == n.end[e].out
  <2>1. q \in DOMAIN n.queue /\ q # NULL /\ q = n.end[e].out
    BY <1>2 DEF RefInv
  <2> HIDE DEF q
  <2>2. /\ m \in NetType
        /\ m.end = n.end /\ m.mail = n.mail
        /\ DOMAIN m.queue = DOMAIN n.queue
        /\ \A p \in DOMAIN n.queue : p # q => m.queue[p] = n.queue[p]
        /\ m.queue[q].deleted = n.queue[q].deleted
    BY <2>1, RollbackEffect
  <2> HIDE DEF m
  <2>3. Kept(n, m) /\ Points(m.end[e], n.end[e])
    BY <2>2 DEF Kept, Points
  <2> QED BY <2>2, <2>3, SameMailQuiet DEF m
<1> QED BY <1>1, <1>2

\* rollback.
LEMMA RollbackStep ==
    ASSUME NEW n, PairInv(n), NEW e \in End
    PROVE  Step(n, Rollback(n, e), e)
BY RollbackQuiet, QuietInv DEF PairInv

\* The delay flag.
LEMMA DelayStep ==
    ASSUME NEW n, PairInv(n), NEW e \in End, NEW delay \in BOOLEAN
    PROVE  Step(n, [n EXCEPT !.end[e].delay = delay], e)
<1> DEFINE m == [n EXCEPT !.end[e].delay = delay]
<1>1. n \in NetType
    BY DEF PairInv
<1>2. /\ m \in NetType /\ m.queue = n.queue /\ m.mail = n.mail
      /\ m.end[Peer(e)] = n.end[Peer(e)] /\ m.end[e].state = n.end[e].state
      /\ Points(m.end[e], n.end[e])
    BY <1>1, DelayEffect
<1> HIDE DEF m
<1>3. Kept(n, m)
    BY <1>2 DEF Kept
<1>4. Quiet(n, m, e) /\ m.mail = n.mail
    BY <1>1, <1>2, <1>3, SameMailQuiet
<1> QED BY <1>4, QuietInv DEF m

\* The flag of a writer.
LEMMA StopStep ==
    ASSUME NEW n, PairInv(n), NEW e \in End
    PROVE  Step(n, [n EXCEPT !.end[e].outActive = FALSE], e)
<1> DEFINE m == [n EXCEPT !.end[e].outActive = FALSE]
<1>1. n \in NetType
    BY DEF PairInv
<1>2. /\ m \in NetType /\ m.queue = n.queue /\ m.mail = n.mail
      /\ m.end[Peer(e)] = n.end[Peer(e)] /\ m.end[e].state = n.end[e].state
      /\ Points(m.end[e], n.end[e])
    BY <1>1, StopEffect
<1> HIDE DEF m
<1>3. Kept(n, m)
    BY <1>2 DEF Kept
<1>4. Quiet(n, m, e) /\ m.mail = n.mail
    BY <1>1, <1>2, <1>3, SameMailQuiet
<1> QED BY <1>4, QuietInv DEF m

\* The flag of a reader.
LEMMA WakeStep ==
    ASSUME NEW n, PairInv(n), NEW e \in End
    PROVE  Step(n, [n EXCEPT !.end[e].inActive = TRUE], e)
<1> DEFINE m == [n EXCEPT !.end[e].inActive = TRUE]
<1>1. n \in NetType
    BY DEF PairInv
<1>2. /\ m \in NetType /\ m.queue = n.queue /\ m.mail = n.mail
      /\ m.end[Peer(e)] = n.end[Peer(e)] /\ m.end[e].state = n.end[e].state
      /\ Points(m.end[e], n.end[e])
    BY <1>1, WakeEffect
<1> HIDE DEF m
<1>3. Kept(n, m)
    BY <1>2 DEF Kept
<1>4. Quiet(n, m, e) /\ m.mail = n.mail
    BY <1>1, <1>2, <1>3, SameMailQuiet
<1> QED BY <1>4, QuietInv DEF m

\* ypipe_t::write and flush.
LEMMA PutStep ==
    ASSUME NEW n, PairInv(n), NEW e \in End, NEW frame \in Frame, Talks(n, e)
    PROVE  Step(n, Put(n, e, frame), e)
<1>1. n \in NetType /\ n.end[e].out \in DOMAIN n.queue
    BY EndFacts DEF Talks, EndInv, EndOK, RefInv
<1>2. Quiet(n, Put(n, e, frame), e)
    BY <1>1, PutQuiet
<1> QED BY <1>2, QuietInv

\* All that can be read is read.
LEMMA BatchQuiet ==
    ASSUME NEW n \in NetType, NEW e \in End, NEW q \in DOMAIN n.queue, q = n.end[e].in
    PROVE  Quiet(n, Batch(n, e), e)
<1> DEFINE m == Batch(n, e)
           k == Whole(n.queue[q].ready)
           c == AllRead(n, e)
           d == Due(n.end[e].read, c)
           M == n.mail[Peer(e)]
<1>1. k = Whole(n.queue[q].ready)
    OBVIOUS
<1> HIDE DEF k
<1>2a. /\ m \in NetType /\ m.mail[e] = n.mail[e]
    BY <1>1, BatchEffect
<1>2b. /\ d \in Seq(Cmd)
    BY <1>1, BatchEffect
<1>2c. m.mail[Peer(e)] = Cat(M, d)
    BY <1>1, BatchEffect
<1>2d. m.end[Peer(e)] = n.end[Peer(e)]
      /\ m.end[e].state = n.end[e].state
      /\ Points(m.end[e], n.end[e])
    BY <1>1, BatchEffect
<1>2. DOMAIN m.queue = DOMAIN n.queue
    BY <1>1, BatchEffect
<1>3. Reported(d, n.end[e].read, c)
    BY <1>1, BatchEffect
<1>4. /\ \A p \in DOMAIN n.queue : p # q => m.queue[p] = n.queue[p]
      /\ m.queue[q].deleted = n.queue[q].deleted
    BY <1>1, BatchEffect
<1> HIDE DEF m, d
<1>2e. m.mail[Peer(e)] = M \o d
    BY <1>2c DEF Cat
<1>5. Types(d) \subseteq {"activate_write"}
    BY <1>3 DEF Types, Reported
<1>6. M \in Seq(Cmd)
    BY NetFields, Ends
<1> HIDE DEF M
<1>7. /\ Types(M \o d) = Types(M) \cup Types(d)
      /\ Ordered(M) /\ Before("activate_write", "activate_write") /\ (\A u \in Types(M) : Before(u, "activate_write"))
           => Ordered(M \o d)
    BY <1>2, <1>2a, <1>2b, <1>2e, <1>2d, <1>5, <1>6, Joined
<1>8. Ordered(M) /\ "pipe_term_ack" \notin Types(M) => Ordered(M \o d)
    BY <1>7 DEF Before, PipeTypes
<1>9. Types(M \o d) \ Noise = Types(M) \ Noise
    BY <1>5, <1>7 DEF Noise
<1>10. Grown(M, M \o d)
    BY <1>2, <1>2a, <1>2b, <1>2e, <1>2d, <1>5, <1>6, GrownFacts
<1>11. Kept(n, m)
    BY <1>2, <1>2a, <1>2b, <1>2e, <1>2d, <1>4 DEF Kept
<1>12. \A x \in End : m.end[x].state = n.end[x].state /\ Points(m.end[x], n.end[x])
    BY <1>2, <1>2a, <1>2b, <1>2e, <1>2d, Ends DEF Points
<1> QED BY <1>2, <1>2a, <1>2b, <1>2e, <1>2d, <1>8, <1>9, <1>10, <1>11, <1>12 DEF Quiet, m, M

\* The delimiter is read before pipe_term has come.
LEMMA ReceivedOK ==
    ASSUME NEW e \in End, NEW t \in States, NEW M \in Seq(Cmd), NEW P \in Seq(Cmd), NEW out, NEW pout,
           EndOK(e, "active", t, out, M), EndOK(Peer(e), t, "active", pout, P)
    PROVE  /\ EndOK(e, "delimiter_received", t, out, M)
           /\ EndOK(Peer(e), t, "delimiter_received", pout, P)
<1>1. EndOK(e, "delimiter_received", t, out, M)
    BY DEF EndOK, Compatible, Silent, Unasked
<1>2. EndOK(Peer(e), t, "delimiter_received", pout, P)
    BY DEF EndOK, Compatible, Silent, Unasked
<1> QED BY <1>1, <1>2

\* The delimiter is read before pipe_term has come.
LEMMA ReceivedStep ==
    ASSUME NEW n, PairInv(n), NEW e \in End, n.end[e].state = "active"
    PROVE  Step(n, Goto(n, e, "delimiter_received"), e)
<1> DEFINE m == Goto(n, e, "delimiter_received")
           t == n.end[Peer(e)].state
           M == n.mail[Peer(e)]
<1>1. /\ n \in NetType /\ RefInv(n) /\ EndInv(n, e) /\ EndInv(n, Peer(e))
      /\ Peer(e) \in End /\ Peer(Peer(e)) = e /\ Peer(e) # e
    BY EndFacts
<1>2. /\ m \in NetType
      /\ m.queue = n.queue /\ m.mail = n.mail
      /\ m.end[Peer(e)] = n.end[Peer(e)]
      /\ m.end[e].state = "delimiter_received" /\ Points(m.end[e], n.end[e])
  <2>1. "delimiter_received" \in States
    BY DEF States
  <2> HIDE DEF m
  <2> QED BY <1>1, <2>1, GotoEffect DEF m
<1> HIDE DEF m
<1>3. /\ EndOK(e, "active", t, n.end[e].out, M)
      /\ EndOK(Peer(e), t, "active", n.end[Peer(e)].out, n.mail[e])
    BY <1>1 DEF EndInv
<1>4. M \in Seq(Cmd) /\ n.mail[e] \in Seq(Cmd) /\ t \in States
    BY <1>1, NetFields, EndFields
<1>5. /\ EndOK(e, "delimiter_received", t, n.end[e].out, M)
      /\ EndOK(Peer(e), t, "delimiter_received", n.end[Peer(e)].out, n.mail[e])
  <2> HIDE DEF M, t
  <2> QED BY <1>3, <1>4, ReceivedOK
<1>6. PairInv(m)
  <2>1. m.end[e].in \in DOMAIN m.queue /\ m.end[e].out \in {NULL} \cup DOMAIN m.queue
    BY <1>1, <1>2 DEF RefInv, Points
  <2>2. m.end[e].out = n.end[e].out
    BY <1>2 DEF Points
  <2> HIDE DEF M
  <2> QED BY <1>2, <1>5, <2>1, <2>2, Moved DEF M
<1>7. Keeps(n, m, e)
    BY <1>2 DEF Keeps, Has
<1>8. Shape(n, m, e)
  <2>1. Grown(M, M)
    BY <1>4, GrownFacts
  <2>2. Kept(n, m)
    BY <1>2 DEF Kept
  <2>3. \A x \in End : m.end[x].in = n.end[x].in
    BY <1>2, Ends DEF Points
  <2> QED BY <1>2, <2>1, <2>2, <2>3 DEF Shape, Points
<1> QED BY <1>6, <1>7, <1>8 DEF Step, m

\* The delimiter is read after pipe_term has come.
LEMMA AcknowledgedStep ==
    ASSUME NEW n, PairInv(n), NEW e \in End, n.end[e].state = "waiting_for_delimiter"
    PROVE  Step(n, Acknowledge(Rollback(n, e), e, "term_ack_sent"), e)
<1> DEFINE k == Rollback(n, e)
<1>1. n \in NetType /\ Step(n, k, e)
    BY RollbackStep DEF PairInv
<1>2. k.end = n.end
    BY RollbackQuiet DEF PairInv
<1> HIDE DEF k
<1>3. PairInv(k) /\ k.end[e].state = "waiting_for_delimiter"
    BY <1>1, <1>2 DEF Step
<1>4. Step(k, Acknowledge(k, e, "term_ack_sent"), e)
    BY <1>3, AcknowledgeStep
<1>5. Step(n, Acknowledge(k, e, "term_ack_sent"), e)
    BY <1>1, <1>4, StepTransitive
<1> QED BY <1>5 DEF k

\* pipe_t::process_delimiter.
LEMMA ProcessDelimiterStep ==
    ASSUME NEW n, PairInv(n), NEW e \in End, Reads(n, e)
    PROVE  Step(n, ProcessDelimiter(n, e), e)
<1>1. CASE n.end[e].state = "active"
    BY <1>1, ReceivedStep DEF ProcessDelimiter
<1>2. CASE n.end[e].state = "waiting_for_delimiter"
    BY <1>2, AcknowledgedStep DEF ProcessDelimiter
<1> QED BY <1>1, <1>2 DEF Reads

\* An end that reads may send.
LEMMA ReadsTalk ==
    ASSUME NEW n, NEW e, Reads(n, e)
    PROVE  Talks(n, e)
BY DEF Reads, Talks, Silent

\* pipe_t::read.
LEMMA ReadStep ==
    ASSUME NEW n, PairInv(n), NEW e \in End
    PROVE  Step(n, Read(n, e), e)
<1>1. n \in NetType /\ n.end[e].in \in DOMAIN n.queue
    BY DEF PairInv, RefInv
<1>2. CASE ~CanRead(n, e)
    BY <1>2, StepReflexive DEF Read
<1>3. CASE CanRead(n, e) /\ InQueue(n, e).ready = <<>>
  <2>1. Read(n, e) = Sleep(n, e)
    BY <1>3 DEF Read
  <2> QED BY <1>1, <2>1, SleepQuiet, QuietInv
<1>4. CASE CanRead(n, e) /\ InQueue(n, e).ready # <<>> /\ Head(InQueue(n, e).ready) = DELIMITER
  <2> DEFINE k == Pop(n, e)
  <2>1. Read(n, e) = ProcessDelimiter(k, e)
    BY <1>4 DEF Read
  <2>2. n.queue[n.end[e].in].ready # <<>>
    BY <1>4 DEF InQueue
  <2>3. Quiet(n, k, e) /\ k.mail = n.mail
    BY <1>1, <2>2, PopQuiet
  <2> HIDE DEF k
  <2>4. Step(n, k, e) /\ Reads(k, e)
    BY <2>3, <1>4, QuietInv DEF CanRead, Reads, Quiet
  <2>5. Step(k, ProcessDelimiter(k, e), e)
    BY <2>4, ProcessDelimiterStep DEF Step
  <2> QED BY <1>1, <2>1, <2>4, <2>5, StepTransitive
<1>5. CASE CanRead(n, e) /\ InQueue(n, e).ready # <<>> /\ Head(InQueue(n, e).ready) # DELIMITER
  <2>1. Read(n, e) = Take(n, e)
    BY <1>5 DEF Read
  <2>2. n.queue[n.end[e].in].ready # <<>>
    BY <1>5 DEF InQueue
  <2>3. Quiet(n, Take(n, e), e)
    BY <1>1, <2>2, TakeQuiet
  <2>4. Talks(n, e)
    BY <1>5, ReadsTalk DEF CanRead, Reads
  <2> QED BY <2>1, <2>3, <2>4, QuietInv
<1> QED BY <1>2, <1>3, <1>4, <1>5

\* pipe_t::check_read.
LEMMA CheckReadStep ==
    ASSUME NEW n, PairInv(n), NEW e \in End
    PROVE  Step(n, CheckRead(n, e), e)
BY ReadStep, StepReflexive DEF CheckRead

\* A whole message is read.
LEMMA ReadMessageStep ==
    ASSUME NEW n, PairInv(n), NEW e \in End
    PROVE  Step(n, ReadMessage(n, e), e)
<1> DEFINE k == Read(n, e)
<1>1. n \in NetType /\ Step(n, k, e)
    BY ReadStep DEF PairInv
<1> HIDE DEF k
<1>2. Step(k, Read(k, e), e)
    BY <1>1, ReadStep DEF Step
<1>3. Step(n, Read(k, e), e)
    BY <1>1, <1>2, StepTransitive
<1> QED BY <1>1, <1>3 DEF ReadMessage, k

\* All there is is read.
LEMMA ReadAllStep ==
    ASSUME NEW n, PairInv(n), NEW e \in End
    PROVE  Step(n, ReadAll(n, e), e)
<1>1. CASE ~CanRead(n, e)
    BY <1>1, StepReflexive, ReadAllBatch
<1>2. CASE CanRead(n, e)
  <2> DEFINE k == Batch(n, e)
  <2>1. n \in NetType /\ n.end[e].in \in DOMAIN n.queue
    BY DEF PairInv, RefInv
  <2>2. Quiet(n, k, e)
    BY <2>1, BatchQuiet
  <2>3. ReadAll(n, e) = Read(k, e)
    BY <1>2, ReadAllBatch
  <2> HIDE DEF k
  <2>4. Talks(n, e)
    BY <1>2, ReadsTalk DEF CanRead, Reads
  <2>5. Step(n, k, e)
    BY <2>2, <2>4, QuietInv
  <2>6. Step(k, Read(k, e), e)
    BY <2>5, ReadStep DEF Step
  <2> QED BY <2>1, <2>3, <2>5, <2>6, StepTransitive
<1> QED BY <1>1, <1>2

\* session_base_t::clean_pipes.
LEMMA CleanPipesStep ==
    ASSUME NEW n, PairInv(n)
    PROVE  Step(n, CleanPipes(n), "sess")
<1> DEFINE k == Rollback(n, "sess")
<1>0. "sess" \in End
    BY DEF End
<1>1. n \in NetType /\ Step(n, k, "sess")
    BY <1>0, RollbackStep DEF PairInv
<1> HIDE DEF k
<1>2. Step(k, Read(k, "sess"), "sess")
    BY <1>0, <1>1, ReadStep DEF Step
<1>3. Step(n, Read(k, "sess"), "sess")
    BY <1>0, <1>1, <1>2, StepTransitive
<1> QED BY <1>1, <1>3 DEF CleanPipes, k

\* terminate from a state in which nothing was asked yet.
LEMMA AskOK ==
    ASSUME NEW e \in End, NEW s \in {"active", "delimiter_received"}, NEW t \in States,
           NEW M \in Seq(Cmd), NEW P \in Seq(Cmd), NEW out, NEW pout,
           EndOK(e, s, t, out, M), EndOK(Peer(e), t, s, pout, P)
    PROVE  /\ EndOK(e, "term_req_sent1", t, out, Append(M, <<"pipe_term", 0>>))
           /\ EndOK(Peer(e), t, "term_req_sent1", pout, P)
           /\ Types(Append(M, <<"pipe_term", 0>>)) = Types(M) \cup {"pipe_term"}
<1> DEFINE M2 == Append(M, <<"pipe_term", 0>>)
<1>1. /\ Types(M2) = Types(M) \cup {"pipe_term"}
      /\ Ordered(M) /\ (\A x \in Types(M) : Before(x, "pipe_term")) => Ordered(M2)
    BY TypeAppended DEF PipeTypes
<1> HIDE DEF M2
<1>2. t \in Unasked /\ "pipe_term_ack" \notin Types(M) /\ "pipe_term" \notin Types(M) /\ Ordered(M)
    BY DEF EndOK, Compatible, Silent
<1>3. Ordered(M2)
    BY <1>1, <1>2 DEF Before
<1>4. EndOK(e, "term_req_sent1", t, out, M2)
    BY <1>1, <1>2, <1>3 DEF EndOK, Compatible, Silent, Unasked, PipeTypes
<1>5. EndOK(Peer(e), t, "term_req_sent1", pout, P)
    BY <1>2 DEF EndOK, Compatible, Silent, Unasked
<1> QED BY <1>1, <1>4, <1>5 DEF M2

\* terminate: pipe_term is sent.
Ask(n, e) == Goto(Send(n, Peer(e), "pipe_term", 0), e, "term_req_sent1")

\* terminate from a state in which nothing was asked yet.
LEMMA AskStep ==
    ASSUME NEW n, PairInv(n), NEW e \in End, n.end[e].state \in {"active", "delimiter_received"}
    PROVE  Step(n, Ask(n, e), e) /\ Ask(n, e).end[e].state = "term_req_sent1"
<1> DEFINE k == Send(n, Peer(e), "pipe_term", 0)
           m == Goto(k, e, "term_req_sent1")
           s == n.end[e].state
           t == n.end[Peer(e)].state
           M == n.mail[Peer(e)]
           M2 == Append(M, <<"pipe_term", 0>>)
<1>1. /\ n \in NetType /\ RefInv(n) /\ EndInv(n, e) /\ EndInv(n, Peer(e))
      /\ Peer(e) \in End /\ Peer(Peer(e)) = e /\ Peer(e) # e
    BY EndFacts
<1>2. /\ k \in NetType
      /\ k.end = n.end /\ k.queue = n.queue
      /\ k.mail[Peer(e)] = M2 /\ k.mail[e] = n.mail[e]
  <2>1. "pipe_term" \in PipeTypes \cup OwnTypes /\ 0 \in Nat
    BY DEF PipeTypes
  <2> QED BY <1>1, <2>1, SendPeer
<1> HIDE DEF k, M2
<1>3. /\ m \in NetType
      /\ m.queue = k.queue /\ m.mail = k.mail
      /\ m.end[Peer(e)] = k.end[Peer(e)]
      /\ m.end[e].state = "term_req_sent1" /\ Points(m.end[e], k.end[e])
  <2>1. "term_req_sent1" \in States
    BY DEF States
  <2> HIDE DEF m
  <2> QED BY <1>2, <2>1, GotoEffect DEF m
<1> HIDE DEF m
<1>4. /\ m.queue = n.queue /\ m.mail[Peer(e)] = M2 /\ m.mail[e] = n.mail[e]
      /\ m.end[Peer(e)] = n.end[Peer(e)] /\ m.end[e].out = n.end[e].out /\ m.end[e].in = n.end[e].in
    BY <1>2, <1>3 DEF Points
<1>5. /\ EndOK(e, s, t, n.end[e].out, M)
      /\ EndOK(Peer(e), t, s, n.end[Peer(e)].out, n.mail[e])
    BY <1>1 DEF EndInv
<1>6. M \in Seq(Cmd) /\ n.mail[e] \in Seq(Cmd) /\ t \in States
    BY <1>1, NetFields, EndFields
<1>7. /\ EndOK(e, "term_req_sent1", t, n.end[e].out, M2)
      /\ EndOK(Peer(e), t, "term_req_sent1", n.end[Peer(e)].out, n.mail[e])
      /\ Types(M2) = Types(M) \cup {"pipe_term"}
  <2>1. s \in {"active", "delimiter_received"}
    OBVIOUS
  <2> HIDE DEF M, s, t
  <2> QED BY <1>5, <1>6, <2>1, AskOK DEF M2
<1>8. PairInv(m)
  <2>1. m.end[e].in \in DOMAIN m.queue /\ m.end[e].out \in {NULL} \cup DOMAIN m.queue
    BY <1>1, <1>4 DEF RefInv
  <2> HIDE DEF M
  <2> QED BY <1>3, <1>4, <1>7, <2>1, Moved
<1>9. Keeps(n, m, e)
    BY <1>3, <1>4, <1>7 DEF Keeps, Has, OwnTypes
<1>10. Shape(n, m, e)
  <2>1. Grown(M, M2)
    <3>1. <<"pipe_term", 0>> \in Cmd /\ <<"pipe_term", 0>>[1] # "hiccup"
      BY DEF Cmd, PipeTypes
    <3> QED BY <1>6, <3>1, GrownFacts DEF M2
  <2>2. Kept(n, m)
    BY <1>4 DEF Kept
  <2>3. \A x \in End : m.end[x].in = n.end[x].in
    BY <1>4, Ends
  <2> QED BY <1>4, <2>1, <2>2, <2>3 DEF Shape
<1> QED BY <1>3, <1>8, <1>9, <1>10 DEF Step, m, Ask, k

\* terminate, from the states in which something is left to do.
LEMMA DelimitStep ==
    ASSUME NEW n, PairInv(n), NEW e \in End, Talks(n, e)
    PROVE  LET k == [n EXCEPT !.end[e].outActive = FALSE]
           IN Step(n, Put(Rollback(k, e), e, DELIMITER), e)
<1> DEFINE k == [n EXCEPT !.end[e].outActive = FALSE]
           j == Rollback(k, e)
<1>1. n \in NetType
    BY DEF PairInv
<1>2. Step(n, k, e) /\ k.end[e].state = n.end[e].state
    BY <1>1, StopStep, StopEffect
<1> HIDE DEF k
<1>3. PairInv(k) /\ k \in NetType /\ RefInv(k)
    BY <1>2 DEF Step, PairInv
<1>4. Step(k, j, e) /\ j.end = k.end
    BY <1>3, RollbackStep, RollbackQuiet
<1> HIDE DEF j
<1>5. PairInv(j) /\ j \in NetType /\ Talks(j, e)
    BY <1>2, <1>4 DEF Step, PairInv, Talks
<1>6. DELIMITER \in Frame
    BY DEF DELIMITER, Frame
<1>7. Step(j, Put(j, e, DELIMITER), e)
    BY <1>5, <1>6, PutStep
<1>8. Step(n, j, e)
    BY <1>1, <1>2, <1>4, StepTransitive
<1>9. Step(n, Put(j, e, DELIMITER), e)
    BY <1>1, <1>7, <1>8, StepTransitive
<1> QED BY <1>9 DEF j, k

\* pipe_t::terminate.
LEMMA TerminateStep ==
    ASSUME NEW n, PairInv(n), NEW e \in End, NEW delay \in BOOLEAN, Has(n, e)
    PROVE  Step(n, Terminate(n, e, delay), e)
<1> DEFINE m == [n EXCEPT !.end[e].delay = delay]
           s == n.end[e].state
<1>1. n \in NetType
    BY DEF PairInv
<1>2. Step(n, m, e) /\ m.end[e].state = s
    BY <1>1, DelayStep, DelayEffect
<1> HIDE DEF m
<1>3. PairInv(m) /\ m \in NetType
    BY <1>2 DEF Step, PairInv
<1>4. s \in States
    BY <1>1, NetFields, EndFields
<1>5. CASE s \in {"term_req_sent1", "term_req_sent2", "term_ack_sent"}
  <2>1. Terminate(n, e, delay) = m
    BY <1>5 DEF Terminate, m
  <2> QED BY <2>1, <1>2
<1>6. CASE s = "waiting_for_delimiter" /\ ~delay
  <2> DEFINE k == Acknowledge(Rollback(m, e), e, "term_ack_sent")
             j == [k EXCEPT !.end[e].outActive = FALSE]
  <2>1. Terminate(n, e, delay) = j
    BY <1>6 DEF Terminate, m
  <2>2. Step(m, k, e)
    BY <1>2, <1>3, <1>6, AcknowledgedStep
  <2> HIDE DEF k
  <2>3. Step(k, j, e)
    BY <2>2, StopStep DEF Step
  <2> HIDE DEF j
  <2>4. Step(m, j, e)
    BY <1>3, <2>2, <2>3, StepTransitive
  <2> QED BY <1>1, <1>2, <2>1, <2>4, StepTransitive
<1>7. CASE s = "waiting_for_delimiter" /\ delay
  <2> DEFINE k == [m EXCEPT !.end[e].outActive = FALSE]
             j == Put(Rollback(k, e), e, DELIMITER)
  <2>1. Terminate(n, e, delay) = j
    BY <1>7 DEF Terminate, m
  <2>2. Talks(m, e)
    BY <1>2, <1>7 DEF Talks, Silent
  <2>3. Step(m, j, e)
    BY <1>3, <2>2, DelimitStep
  <2> HIDE DEF j
  <2> QED BY <1>1, <1>2, <2>1, <2>3, StepTransitive
<1>8. CASE s \in {"active", "delimiter_received"}
  <2> DEFINE i == Ask(m, e)
             k == [i EXCEPT !.end[e].outActive = FALSE]
             j == Put(Rollback(k, e), e, DELIMITER)
  <2>1. Terminate(n, e, delay) = j
    BY <1>8 DEF Terminate, m, Ask
  <2>2. Step(m, i, e) /\ i.end[e].state = "term_req_sent1"
    BY <1>2, <1>3, <1>8, AskStep
  <2> HIDE DEF i
  <2>3. PairInv(i) /\ Talks(i, e)
    BY <2>2 DEF Talks, Silent, Step
  <2>4. Step(i, j, e)
    BY <2>3, DelimitStep
  <2> HIDE DEF j
  <2>5. Step(m, j, e)
    BY <1>3, <2>2, <2>4, StepTransitive
  <2> QED BY <1>1, <1>2, <2>1, <2>5, StepTransitive
<1> QED BY <1>4, <1>5, <1>6, <1>7, <1>8 DEF Has, States

\* A session that reconnects leaves its queue to the socket.
LEMMA HiccupOK ==
    ASSUME NEW t \in States, NEW M \in Seq(Cmd), NEW P \in Seq(Cmd), NEW out, NEW pout, NEW q \in Nat,
           EndOK("sess", "active", t, out, M), EndOK("sock", t, "active", pout, P)
    PROVE  /\ EndOK("sess", "active", t, out, Append(M, <<"hiccup", q>>))
           /\ Types(Append(M, <<"hiccup", q>>)) = Types(M) \cup {"hiccup"}
<1> DEFINE M2 == Append(M, <<"hiccup", q>>)
<1>1. /\ Types(M2) = Types(M) \cup {"hiccup"}
      /\ Ordered(M) /\ (\A x \in Types(M) : Before(x, "hiccup")) => Ordered(M2)
    BY TypeAppended DEF PipeTypes
<1> HIDE DEF M2
<1>2. t \in Unasked /\ "pipe_term_ack" \notin Types(M) /\ "pipe_term" \notin Types(M) /\ Ordered(M)
    BY DEF EndOK, Compatible, Silent
<1>3. Ordered(M2)
    BY <1>1, <1>2 DEF Before
<1>4. EndOK("sess", "active", t, out, M2)
    BY <1>1, <1>2, <1>3 DEF EndOK, Compatible, Silent, Unasked, PipeTypes
<1> QED BY <1>1, <1>4 DEF M2

\* pipe_t::hiccup keeps the states of the ends (its new queue is QueueInv's matter).
LEMMA HiccupStep ==
    ASSUME NEW n, PairInv(n)
    PROVE  PairInv(Hiccup(n, "sess")) /\ Keeps(n, Hiccup(n, "sess"), "sess")
<1> DEFINE m == Hiccup(n, "sess")
           e == "sess"
           q == Len(n.queue) + 1
           t == n.end[Peer(e)].state
           M == n.mail[Peer(e)]
           M2 == Append(M, <<"hiccup", q>>)
<1>1. CASE n.end[e].state # "active"
  <2>1. m = n
    BY <1>1 DEF Hiccup
  <2> QED BY <2>1 DEF Keeps
<1>2. CASE n.end[e].state = "active"
  <2>0. e \in End /\ Peer(e) = "sock" /\ Peer("sock") = e
    BY DEF End, Peer
  <2>1. /\ n \in NetType /\ RefInv(n) /\ EndInv(n, e) /\ EndInv(n, Peer(e))
    BY <2>0, EndFacts
  <2>2. /\ m \in NetType
        /\ m.mail[e] = n.mail[e]
        /\ m.mail[Peer(e)] = M2
        /\ m.queue = Append(n.queue, NewQueue) /\ q \in Nat
        /\ m.end[Peer(e)] = n.end[Peer(e)]
        /\ m.end[e].state = "active" /\ m.end[e].in = q /\ m.end[e].out = n.end[e].out
    BY <1>2, <2>0, <2>1, HiccupEffect
  <2> HIDE DEF m
  <2>3. DOMAIN m.queue = DOMAIN n.queue \cup {q}
    <3>1. n.queue \in Seq(QueueType)
      BY <2>1, NetFields
    <3> QED BY <2>2, <3>1
  <2> HIDE DEF q, M2
  <2>4. /\ EndOK(e, "active", t, n.end[e].out, M)
        /\ EndOK(Peer(e), t, "active", n.end[Peer(e)].out, n.mail[e])
    BY <1>2, <2>0, <2>1 DEF EndInv
  <2>5. M \in Seq(Cmd) /\ n.mail[e] \in Seq(Cmd) /\ t \in States
    BY <2>0, <2>1, NetFields, EndFields DEF End
  <2>6. EndOK(e, "active", t, n.end[e].out, M2) /\ Types(M2) = Types(M) \cup {"hiccup"}
    <3>1. EndOK("sock", t, "active", n.end[Peer(e)].out, n.mail[e])
      BY <2>0, <2>4
    <3> HIDE DEF M, t
    <3> QED BY <2>2, <2>4, <2>5, <3>1, HiccupOK DEF M2
  <2>7. PairInv(m)
    <3>1. m.end[e].in \in DOMAIN m.queue /\ m.end[e].out \in {NULL} \cup DOMAIN m.queue
      BY <2>0, <2>1, <2>2, <2>3 DEF RefInv
    <3> HIDE DEF M
    <3> QED BY <2>0, <2>2, <2>3, <2>4, <2>6, <3>1, Moved
  <2>8. Keeps(n, m, e)
    BY <1>2, <2>0, <2>2, <2>6 DEF Keeps, Has, OwnTypes
  <2> QED BY <2>7, <2>8 DEF m
<1> QED BY <1>1, <1>2

\* A command is taken from a mailbox: those that change no state.
LEMMA TakenPair ==
    ASSUME NEW n, PairInv(n), NEW e \in End, n.mail[e] # <<>>,
           Head(n.mail[e])[1] \notin {"pipe_term", "pipe_term_ack"}
    PROVE  PairInv([n EXCEPT !.mail[e] = Tail(@)])
<1> DEFINE m == [n EXCEPT !.mail[e] = Tail(@)]
           c == Head(n.mail[e])[1]
           s == n.end[e].state
           t == n.end[Peer(e)].state
<1>1. /\ n \in NetType /\ RefInv(n) /\ EndInv(n, e) /\ EndInv(n, Peer(e))
      /\ Peer(e) \in End /\ Peer(Peer(e)) = e /\ Peer(e) # e
    BY EndFacts
<1>2. /\ m \in NetType
      /\ m.end = n.end /\ m.queue = n.queue
      /\ m.mail[e] = Tail(n.mail[e]) /\ m.mail[Peer(e)] = n.mail[Peer(e)]
    BY <1>1, TakenEffect
<1> HIDE DEF m
<1>3. /\ Types(n.mail[e]) = Types(Tail(n.mail[e])) \cup {c}
      /\ Ordered(n.mail[e]) => Ordered(Tail(n.mail[e]))
  <2>1. n.mail[e] \in Seq(Cmd)
    BY <1>1, NetFields
  <2> QED BY <2>1, Taken
<1>4. RefInv(m) /\ EndInv(m, e)
    BY <1>1, <1>2 DEF RefInv, EndInv
<1>5. EndOK(Peer(e), t, s, n.end[Peer(e)].out, n.mail[e])
    BY <1>1 DEF EndInv
<1>6. EndOK(Peer(e), t, s, n.end[Peer(e)].out, Tail(n.mail[e]))
  <2>1. c \notin {"pipe_term", "pipe_term_ack"}
    OBVIOUS
  <2> HIDE DEF c, s, t
  <2> QED BY <1>3, <1>5, <2>1 DEF EndOK
<1>7. EndInv(m, Peer(e))
    BY <1>1, <1>2, <1>6 DEF EndInv
<1> QED BY <1>1, <1>2, <1>4, <1>7, PairIntro DEF m

\* A command between the owners of the ends: it is sent once at a time.
LEMMA OwnSent ==
    ASSUME NEW M \in Seq(Cmd), NEW type \in OwnTypes, type \notin Types(M),
           type = "bind" => Types(M) \cap PipeTypes = {},
           type = "term_req" => "child_ack" \notin Types(M)
    PROVE  LET M2 == Append(M, <<type, 0>>)
           IN /\ Types(M2) = Types(M) \cup {type}
              /\ Ordered(M) => Ordered(M2)
              /\ Grown(M, M2)
<1> DEFINE M2 == Append(M, <<type, 0>>)
<1>1. /\ Types(M2) = Types(M) \cup {type}
      /\ Ordered(M) /\ (\A x \in Types(M) : Before(x, type)) => Ordered(M2)
    BY TypeAppended
<1>2. \A x \in Types(M) : Before(x, type)
    BY DEF Before, OwnTypes, PipeTypes
<1>3. Grown(M, M2)
  <2>1. <<type, 0>> \in Cmd /\ <<type, 0>>[1] # "hiccup"
    BY DEF Cmd, OwnTypes
  <2> QED BY <2>1, GrownFacts
<1> QED BY <1>1, <1>2, <1>3

\* Such a command leaves the ends alone.
LEMMA SendOwnPair ==
    ASSUME NEW n, PairInv(n), NEW e \in End, NEW type \in OwnTypes, type \notin Types(n.mail[e]),
           type = "bind" => Types(n.mail[e]) \cap PipeTypes = {},
           type = "term_req" => "child_ack" \notin Types(n.mail[e])
    PROVE  LET m == Send(n, e, type, 0)
           IN /\ PairInv(m)
              /\ m.end = n.end /\ m.queue = n.queue /\ m.mail[Peer(e)] = n.mail[Peer(e)]
              /\ Types(m.mail[e]) = Types(n.mail[e]) \cup {type}
              /\ Grown(n.mail[e], m.mail[e])
<1> DEFINE m == Send(n, e, type, 0)
           M == n.mail[e]
           M2 == Append(M, <<type, 0>>)
           s == n.end[e].state
           t == n.end[Peer(e)].state
<1>1. /\ n \in NetType /\ RefInv(n) /\ EndInv(n, e) /\ EndInv(n, Peer(e))
      /\ Peer(e) \in End /\ Peer(Peer(e)) = e /\ Peer(e) # e
    BY EndFacts
<1>2. /\ m \in NetType
      /\ m.end = n.end /\ m.queue = n.queue
      /\ m.mail[e] = M2 /\ m.mail[Peer(e)] = n.mail[Peer(e)]
  <2>1. type \in PipeTypes \cup OwnTypes /\ 0 \in Nat
    OBVIOUS
  <2>2. m \in NetType
    BY <1>1, <2>1, SendEffect
  <2>3. m.end = n.end
    BY <1>1, <2>1, SendEffect
  <2>4. m.mail[e] = M2
    BY <1>1, <2>1, SendEffect
  <2>5. m.mail[Peer(e)] = n.mail[Peer(e)]
    BY <1>1, <2>1, SendEffect
  <2>6. m.queue = n.queue
    BY <1>1, <2>1, SendEffect
  <2> QED BY <2>2, <2>3, <2>4, <2>5, <2>6
<1> HIDE DEF m
<1>3. /\ Types(M2) = Types(M) \cup {type}
      /\ Ordered(M) => Ordered(M2)
      /\ Grown(M, M2)
  <2>1. M \in Seq(Cmd)
    BY <1>1, NetFields
  <2> QED BY <2>1, OwnSent
<1>4. RefInv(m) /\ EndInv(m, e)
    BY <1>1, <1>2 DEF RefInv, EndInv
<1>5. EndOK(Peer(e), t, s, n.end[Peer(e)].out, M)
    BY <1>1 DEF EndInv
<1>6. EndOK(Peer(e), t, s, n.end[Peer(e)].out, M2)
  <2>1. type \notin PipeTypes
    BY DEF OwnTypes, PipeTypes
  <2> HIDE DEF M, M2, s, t
  <2>2. \A x \in PipeTypes : x \in Types(M2) <=> x \in Types(M)
    BY <1>3, <2>1
  <2>3. Types(M2) \cap PipeTypes = Types(M) \cap PipeTypes
    BY <2>2
  <2> QED BY <1>3, <1>5, <2>2, <2>3 DEF EndOK, PipeTypes
<1>7. EndInv(m, Peer(e))
    BY <1>1, <1>2, <1>6 DEF EndInv
<1>8. PairInv(m)
    BY <1>1, <1>2, <1>4, <1>7, PairIntro
<1> QED BY <1>2, <1>3, <1>8 DEF m

\* pipe_term is taken: M is the mailbox to the peer, P what is left of its own.
LEMMA AskedOK ==
    ASSUME NEW e \in End, NEW s \in States, NEW t \in States,
           NEW M \in Seq(Cmd), NEW P \in Seq(Cmd), NEW out, NEW pout,
           P # <<>>, Head(P)[1] = "pipe_term",
           EndOK(e, s, t, out, M), EndOK(Peer(e), t, s, pout, P)
    PROVE  /\ s \in Unasked /\ t \in {"term_req_sent1", "term_req_sent2"}
           /\ "hiccup" \notin Types(Tail(P))
           /\ s = "active" => /\ EndOK(e, "waiting_for_delimiter", t, out, M)
                              /\ EndOK(Peer(e), t, "waiting_for_delimiter", pout, Tail(P))
           /\ s = "term_req_sent1" =>
                /\ EndOK(e, "term_req_sent2", t, NULL, Append(M, <<"pipe_term_ack", 0>>))
                /\ EndOK(Peer(e), t, "term_req_sent2", pout, Tail(P))
           /\ s # "term_req_sent1" =>
                /\ EndOK(e, "term_ack_sent", t, NULL, Append(M, <<"pipe_term_ack", 0>>))
                /\ EndOK(Peer(e), t, "term_ack_sent", pout, Tail(P))
<1> DEFINE M2 == Append(M, <<"pipe_term_ack", 0>>)
           P2 == Tail(P)
<1>1. /\ Types(M2) = Types(M) \cup {"pipe_term_ack"}
      /\ Ordered(M) /\ (\A x \in Types(M) : Before(x, "pipe_term_ack")) => Ordered(M2)
    BY TypeAppended DEF PipeTypes
<1>2. /\ Types(P) = Types(P2) \cup {"pipe_term"}
      /\ Ordered(P) => Ordered(P2) /\ \A x \in Types(P2) : Before("pipe_term", x)
    BY Taken
<1> HIDE DEF M2, P2
<1>3. /\ s \in Unasked /\ t \in {"term_req_sent1", "term_req_sent2"}
      /\ Ordered(P) /\ Ordered(M)
    BY <1>2 DEF EndOK
<1>4. "hiccup" \notin Types(P2) /\ "pipe_term" \notin Types(P2) /\ Ordered(P2)
    BY <1>2, <1>3 DEF Before
<1>5. "pipe_term_ack" \notin Types(M)
    BY <1>3 DEF EndOK, Silent, Unasked
<1>6. Ordered(M2)
    BY <1>1, <1>3, <1>5 DEF Before
<1>7. s \in {"active", "delimiter_received"} => t = "term_req_sent1"
    BY <1>3 DEF EndOK, Compatible, Unasked
<1>8. ASSUME s = "active"
      PROVE  /\ EndOK(e, "waiting_for_delimiter", t, out, M)
             /\ EndOK(Peer(e), t, "waiting_for_delimiter", pout, P2)
  <2>1. EndOK(e, "waiting_for_delimiter", t, out, M)
    BY <1>7, <1>8 DEF EndOK, Compatible, Silent, Unasked
  <2>2. EndOK(Peer(e), t, "waiting_for_delimiter", pout, P2)
    BY <1>2, <1>4, <1>7, <1>8 DEF EndOK, Compatible, Silent, Unasked
  <2> QED BY <2>1, <2>2
<1>9. ASSUME s = "term_req_sent1"
      PROVE  /\ EndOK(e, "term_req_sent2", t, NULL, M2)
             /\ EndOK(Peer(e), t, "term_req_sent2", pout, P2)
  <2>1. EndOK(e, "term_req_sent2", t, NULL, M2)
    BY <1>1, <1>3, <1>6, <1>9 DEF EndOK, Compatible, Silent, Unasked, PipeTypes
  <2>2. EndOK(Peer(e), t, "term_req_sent2", pout, P2)
    BY <1>2, <1>3, <1>4, <1>9 DEF EndOK, Compatible, Silent, Unasked
  <2> QED BY <2>1, <2>2
<1>10. ASSUME s # "term_req_sent1"
       PROVE  /\ EndOK(e, "term_ack_sent", t, NULL, M2)
              /\ EndOK(Peer(e), t, "term_ack_sent", pout, P2)
  <2>0. s \in {"active", "delimiter_received"} /\ t = "term_req_sent1"
    BY <1>3, <1>7, <1>10 DEF Unasked
  <2>1. EndOK(e, "term_ack_sent", t, NULL, M2)
    BY <1>1, <2>0, <1>6 DEF EndOK, Compatible, Silent, Unasked, PipeTypes
  <2>2. EndOK(Peer(e), t, "term_ack_sent", pout, P2)
    BY <1>2, <2>0, <1>4 DEF EndOK, Compatible, Silent, Unasked
  <2> QED BY <2>1, <2>2
<1> QED BY <1>3, <1>4, <1>8, <1>9, <1>10 DEF M2, P2

\* What a step of one end leaves as it is when it takes a command as well.
Left(n, m, e) ==
    /\ Types(m.mail[Peer(e)]) \cap OwnTypes = Types(n.mail[Peer(e)]) \cap OwnTypes
    /\ m.end[Peer(e)].state = n.end[Peer(e)].state
    /\ Has(m, e) <=> Has(n, e)
    /\ m.end[e].state = "none" <=> n.end[e].state = "none"

\* pipe_t::process_pipe_term.
Answer(n, e) ==
    CASE n.end[e].state = "active" /\ n.end[e].delay -> Goto(n, e, "waiting_for_delimiter")
      [] n.end[e].state = "term_req_sent1" -> Acknowledge(n, e, "term_req_sent2")
      [] OTHER -> Acknowledge(n, e, "term_ack_sent")

\* pipe_term is taken and answered.
LEMMA AnswerStep ==
    ASSUME NEW n, PairInv(n), NEW e \in End, n.mail[e] # <<>>, Head(n.mail[e])[1] = "pipe_term"
    PROVE  LET r == [n EXCEPT !.mail[e] = Tail(@)]
               m == Answer(r, e)
           IN /\ PairInv(m) /\ Left(n, m, e)
              /\ m.mail[e] = Tail(n.mail[e])
              /\ Shape(r, m, e)
<1> DEFINE r == [n EXCEPT !.mail[e] = Tail(@)]
           m == Answer(r, e)
           s == n.end[e].state
           t == n.end[Peer(e)].state
           out == n.end[e].out
           pout == n.end[Peer(e)].out
           M == n.mail[Peer(e)]
           P == n.mail[e]
           M2 == Append(M, <<"pipe_term_ack", 0>>)
<1>1. /\ n \in NetType /\ RefInv(n) /\ EndInv(n, e) /\ EndInv(n, Peer(e))
      /\ Peer(e) \in End /\ Peer(Peer(e)) = e /\ Peer(e) # e
    BY EndFacts
<1>2. /\ r \in NetType
      /\ r.end = n.end /\ r.queue = n.queue
      /\ r.mail[e] = Tail(P) /\ r.mail[Peer(e)] = M
    BY <1>1, TakenEffect
<1> HIDE DEF r
<1>3. M \in Seq(Cmd) /\ P \in Seq(Cmd) /\ s \in States /\ t \in States
    BY <1>1, NetFields, EndFields
<1>4. EndOK(e, s, t, out, M) /\ EndOK(Peer(e), t, s, pout, P)
    BY <1>1 DEF EndInv
<1>5. /\ s \in Unasked /\ t \in {"term_req_sent1", "term_req_sent2"}
      /\ "hiccup" \notin Types(Tail(P))
      /\ s = "active" => /\ EndOK(e, "waiting_for_delimiter", t, out, M)
                         /\ EndOK(Peer(e), t, "waiting_for_delimiter", pout, Tail(P))
      /\ s = "term_req_sent1" =>
           /\ EndOK(e, "term_req_sent2", t, NULL, M2)
           /\ EndOK(Peer(e), t, "term_req_sent2", pout, Tail(P))
      /\ s # "term_req_sent1" =>
           /\ EndOK(e, "term_ack_sent", t, NULL, M2)
           /\ EndOK(Peer(e), t, "term_ack_sent", pout, Tail(P))
  <2>1. P # <<>> /\ Head(P)[1] = "pipe_term"
    OBVIOUS
  <2> HIDE DEF M, P, s, t, out, pout
  <2> QED BY <1>3, <1>4, <2>1, AskedOK DEF M2
<1> DEFINE s2 == m.end[e].state
<1>6. /\ m \in NetType /\ m.queue = n.queue
      /\ m.mail[e] = Tail(P) /\ m.end[Peer(e)] = n.end[Peer(e)]
      /\ m.end[e].in = n.end[e].in
      /\ \/ /\ m.mail[Peer(e)] = M /\ m.end[e].out = out
            /\ s = "active" /\ s2 = "waiting_for_delimiter"
         \/ /\ m.mail[Peer(e)] = M2 /\ m.end[e].out = NULL
            /\ s = "term_req_sent1" /\ s2 = "term_req_sent2"
         \/ /\ m.mail[Peer(e)] = M2 /\ m.end[e].out = NULL
            /\ s # "term_req_sent1" /\ s2 = "term_ack_sent"
  <2>0. "waiting_for_delimiter" \in States /\ "term_req_sent2" \in States /\ "term_ack_sent" \in States
    BY DEF States
  <2>1. CASE s = "active" /\ r.end[e].delay
    <3>1. m = Goto(r, e, "waiting_for_delimiter")
      BY <1>2, <2>1 DEF Answer
    <3> HIDE DEF m
    <3>2. /\ m \in NetType
          /\ m.queue = r.queue /\ m.mail = r.mail
          /\ m.end[Peer(e)] = r.end[Peer(e)]
          /\ m.end[e].state = "waiting_for_delimiter"
          /\ Points(m.end[e], r.end[e])
      BY <1>2, <2>0, <3>1, GotoEffect
    <3> QED BY <1>2, <2>1, <3>2 DEF Points
  <2>2. CASE s = "term_req_sent1"
    <3>1. m = Acknowledge(r, e, "term_req_sent2")
      BY <1>2, <2>2 DEF Answer
    <3> HIDE DEF m
    <3>2. m \in NetType /\ m.queue = r.queue /\ m.mail[e] = r.mail[e]
      BY <1>2, <2>0, <3>1, AcknowledgeEffect
    <3>3. m.mail[Peer(e)] = Append(r.mail[Peer(e)], <<"pipe_term_ack", 0>>)
      BY <1>2, <2>0, <3>1, AcknowledgeEffect
    <3>4. /\ m.end[Peer(e)] = r.end[Peer(e)]
          /\ m.end[e].state = "term_req_sent2" /\ m.end[e].in = r.end[e].in /\ m.end[e].out = NULL
      BY <1>2, <2>0, <3>1, AcknowledgeEffect
    <3> QED BY <1>2, <2>2, <3>2, <3>3, <3>4
  <2>3. CASE s # "term_req_sent1" /\ ~(s = "active" /\ r.end[e].delay)
    <3>1. m = Acknowledge(r, e, "term_ack_sent")
      BY <1>2, <2>3 DEF Answer
    <3> HIDE DEF m
    <3>2. m \in NetType /\ m.queue = r.queue /\ m.mail[e] = r.mail[e]
      BY <1>2, <2>0, <3>1, AcknowledgeEffect
    <3>3. m.mail[Peer(e)] = Append(r.mail[Peer(e)], <<"pipe_term_ack", 0>>)
      BY <1>2, <2>0, <3>1, AcknowledgeEffect
    <3>4. /\ m.end[Peer(e)] = r.end[Peer(e)]
          /\ m.end[e].state = "term_ack_sent" /\ m.end[e].in = r.end[e].in /\ m.end[e].out = NULL
      BY <1>2, <2>0, <3>1, AcknowledgeEffect
    <3> QED BY <1>2, <2>3, <3>2, <3>3, <3>4
  <2> QED BY <2>1, <2>2, <2>3
<1> HIDE DEF m
<1>7. /\ EndOK(e, s2, t, m.end[e].out, m.mail[Peer(e)])
      /\ EndOK(Peer(e), t, s2, pout, Tail(P))
    BY <1>5, <1>6
<1>8. EndInv(m, e) /\ EndInv(m, Peer(e))
    BY <1>1, <1>6, <1>7 DEF EndInv
<1>9. RefInv(m)
    BY <1>1, <1>6, Ends DEF RefInv
<1>10. PairInv(m)
    BY <1>1, <1>6, <1>8, <1>9, PairIntro
<1>11. Types(M2) = Types(M) \cup {"pipe_term_ack"} /\ Grown(M, M2) /\ Grown(M, M)
  <2>1. <<"pipe_term_ack", 0>> \in Cmd /\ <<"pipe_term_ack", 0>>[1] # "hiccup"
    BY DEF Cmd, PipeTypes
  <2>2. Types(M2) = Types(M) \cup {"pipe_term_ack"}
    BY <1>3, TypeAppended DEF PipeTypes
  <2> QED BY <1>3, <2>1, <2>2, GrownFacts
<1> HIDE DEF M2
<1>12. Left(n, m, e)
  <2>1. Types(m.mail[Peer(e)]) \cap OwnTypes = Types(M) \cap OwnTypes
    BY <1>6, <1>11 DEF OwnTypes
  <2>2. s \notin {"none", "deleted"} /\ s2 \notin {"none", "deleted"}
    BY <1>5, <1>6 DEF Unasked
  <2> QED BY <1>6, <2>1, <2>2 DEF Left, Has
<1>13. Shape(r, m, e)
  <2>1. Kept(r, m)
    BY <1>2, <1>6 DEF Kept
  <2>2. Grown(r.mail[Peer(e)], m.mail[Peer(e)])
    BY <1>2, <1>6, <1>11
  <2>3. \A x \in End : m.end[x].in = r.end[x].in
    BY <1>2, <1>6, Ends
  <2> QED BY <1>2, <1>5, <1>6, <2>1, <2>2, <2>3 DEF Shape
<1> QED BY <1>6, <1>10, <1>12, <1>13 DEF m, r

\* The end e has been acknowledged, and is about to be deleted.
Ending(n, e) ==
    LET s == n.end[e].state
        t == n.end[Peer(e)].state
    IN /\ n \in NetType /\ RefInv(n) /\ EndInv(n, e)
       /\ s \in {"term_req_sent1", "term_req_sent2", "term_ack_sent"} /\ t \in Silent
       /\ Compatible(t, s) /\ n.end[Peer(e)].out = NULL
       /\ Types(n.mail[e]) \cap PipeTypes = {} /\ Ordered(n.mail[e])

\* pipe_term_ack is taken.
LEMMA EndingTaken ==
    ASSUME NEW n, PairInv(n), NEW e \in End, n.mail[e] # <<>>, Head(n.mail[e])[1] = "pipe_term_ack"
    PROVE  LET r == [n EXCEPT !.mail[e] = Tail(@)]
           IN Ending(r, e) /\ r.end = n.end /\ r.queue = n.queue
<1> DEFINE r == [n EXCEPT !.mail[e] = Tail(@)]
           s == n.end[e].state
           t == n.end[Peer(e)].state
           pout == n.end[Peer(e)].out
           P == n.mail[e]
<1>1. /\ n \in NetType /\ RefInv(n) /\ EndInv(n, e) /\ EndInv(n, Peer(e))
      /\ Peer(e) \in End /\ Peer(Peer(e)) = e /\ Peer(e) # e
    BY EndFacts
<1>2. /\ r \in NetType
      /\ r.end = n.end /\ r.queue = n.queue
      /\ r.mail[e] = Tail(P) /\ r.mail[Peer(e)] = n.mail[Peer(e)]
    BY <1>1, TakenEffect
<1> HIDE DEF r
<1>3. P \in Seq(Cmd) /\ s \in States /\ t \in States
    BY <1>1, NetFields, EndFields
<1>4. EndOK(Peer(e), t, s, pout, P) /\ EndOK(e, s, t, n.end[e].out, n.mail[Peer(e)])
    BY <1>1 DEF EndInv
<1>5. /\ Types(P) = Types(Tail(P)) \cup {"pipe_term_ack"}
      /\ Ordered(P) => Ordered(Tail(P)) /\ \A x \in Types(Tail(P)) : Before("pipe_term_ack", x)
  <2>1. P # <<>> /\ Head(P)[1] = "pipe_term_ack"
    OBVIOUS
  <2> HIDE DEF P
  <2> QED BY <2>1, <1>3, Taken
<1> DEFINE P2 == Tail(P)
<1> HIDE DEF P, P2, s, t, pout
<1>6. /\ t \in Silent /\ s # "deleted" /\ pout = NULL /\ Compatible(t, s) /\ Compatible(s, t)
      /\ Ordered(P)
    BY <1>4, <1>5 DEF EndOK
<1>7. s \in {"term_req_sent1", "term_req_sent2", "term_ack_sent"}
    BY <1>3, <1>6 DEF Compatible, Silent, States, Unasked
<1>8. Ordered(P2) /\ Types(P2) \cap PipeTypes = {}
    BY <1>5, <1>6 DEF P2, Before
<1>9. RefInv(r) /\ EndInv(r, e)
    BY <1>1, <1>2 DEF RefInv, EndInv
<1> QED BY <1>2, <1>6, <1>7, <1>8, <1>9 DEF Ending, P2, P, s, t, pout, r

\* The owner of the end speaks before the end is deleted.
LEMMA OwnEndOK ==
    ASSUME NEW x, NEW s, NEW t, NEW out, NEW M \in Seq(Cmd), EndOK(x, s, t, out, M),
           NEW type \in {"term_ack", "child_ack"}, type \notin Types(M)
    PROVE  EndOK(x, s, t, out, Append(M, <<type, 0>>))
<1> DEFINE M2 == Append(M, <<type, 0>>)
<1>1. /\ Types(M2) = Types(M) \cup {type}
      /\ Ordered(M) => Ordered(M2)
    BY OwnSent DEF OwnTypes
<1> HIDE DEF M2
<1>2. type \notin PipeTypes
    BY DEF PipeTypes
<1>3. /\ \A y \in PipeTypes : y \in Types(M2) <=> y \in Types(M)
      /\ Types(M2) \cap PipeTypes = Types(M) \cap PipeTypes
    BY <1>1, <1>2
<1> QED BY <1>1, <1>3 DEF EndOK, PipeTypes, M2

\* The owner of the end speaks before the end is deleted.
LEMMA EndingSend ==
    ASSUME NEW n, NEW e \in End, Ending(n, e), NEW x \in End,
           NEW type \in {"term_ack", "child_ack"}, type \notin Types(n.mail[x])
    PROVE  LET m == Send(n, x, type, 0)
           IN /\ Ending(m, e) /\ m.end = n.end /\ m.queue = n.queue
              /\ m.mail[Peer(x)] = n.mail[Peer(x)]
              /\ Types(m.mail[x]) = Types(n.mail[x]) \cup {type}
              /\ Grown(n.mail[x], m.mail[x])
<1> DEFINE m == Send(n, x, type, 0)
           M == n.mail[x]
           M2 == Append(M, <<type, 0>>)
<1>1. n \in NetType /\ M \in Seq(Cmd)
    BY NetFields DEF Ending
<1>2. /\ m \in NetType
      /\ m.end = n.end /\ m.queue = n.queue
      /\ m.mail[x] = M2 /\ m.mail[Peer(x)] = n.mail[Peer(x)]
  <2>1. type \in PipeTypes \cup OwnTypes /\ 0 \in Nat
    BY DEF OwnTypes
  <2>2. m \in NetType
    BY <1>1, <2>1, SendEffect
  <2>3. m.end = n.end
    BY <1>1, <2>1, SendEffect
  <2>4. m.mail[x] = M2
    BY <1>1, <2>1, SendEffect
  <2>5. m.mail[Peer(x)] = n.mail[Peer(x)]
    BY <1>1, <2>1, SendEffect
  <2>6. m.queue = n.queue
    BY <1>1, <2>1, SendEffect
  <2> QED BY <2>2, <2>3, <2>4, <2>5, <2>6
<1> HIDE DEF m
<1>3. /\ Types(M2) = Types(M) \cup {type}
      /\ Ordered(M) => Ordered(M2)
      /\ Grown(M, M2)
    BY <1>1, OwnSent DEF OwnTypes
<1>4. type \notin PipeTypes
    BY DEF PipeTypes
<1>5. x = e \/ x = Peer(e)
    BY Ends
<1>6. EndInv(m, e)
  <2>1. CASE x = e
    BY <2>1, <1>2 DEF EndInv, Ending
  <2>2. CASE x = Peer(e)
    <3>1. EndOK(e, n.end[e].state, n.end[Peer(e)].state, n.end[e].out, M)
      BY <2>2 DEF EndInv, Ending
    <3>2. EndOK(e, n.end[e].state, n.end[Peer(e)].state, n.end[e].out, M2)
      <4> HIDE DEF M
      <4>1. type \notin Types(M)
        BY DEF M
      <4> QED BY <1>1, <3>1, <4>1, OwnEndOK
    <3> QED BY <2>2, <1>2, <3>2 DEF EndInv
  <2> QED BY <1>5, <2>1, <2>2
<1>7. Types(m.mail[e]) \cap PipeTypes = {} /\ Ordered(m.mail[e])
  <2>1. CASE x = e
    <3>1. Types(M) \cap PipeTypes = {} /\ Ordered(M)
      BY <2>1 DEF Ending
    <3> HIDE DEF M, M2
    <3> QED BY <2>1, <3>1, <1>2, <1>3, <1>4
  <2>2. CASE x = Peer(e)
    BY <2>2, <1>2, Ends DEF Ending
  <2> QED BY <1>5, <2>1, <2>2
<1>8. RefInv(m)
    BY <1>2 DEF RefInv, Ending
<1> HIDE DEF M2
<1>9. Ending(m, e)
    BY <1>2, <1>6, <1>7, <1>8 DEF Ending
<1> QED BY <1>2, <1>3, <1>9 DEF m

\* The acknowledgement of an end that was acknowledged before it was asked.
LEMMA EndedMail ==
    ASSUME NEW s, NEW M \in Seq(Cmd),
           NEW M2, M2 = IF s = "term_req_sent1" THEN Append(M, <<"pipe_term_ack", 0>>) ELSE M
    PROVE  /\ Types(M2) \cap OwnTypes = Types(M) \cap OwnTypes
           /\ Grown(M, M2)
<1> DEFINE A == Append(M, <<"pipe_term_ack", 0>>)
<1>1. Types(A) = Types(M) \cup {"pipe_term_ack"}
  BY TypeAppended DEF PipeTypes
<1>2. Grown(M, A) /\ Grown(M, M)
  <2>1. <<"pipe_term_ack", 0>> \in Cmd /\ <<"pipe_term_ack", 0>>[1] # "hiccup"
    BY DEF Cmd, PipeTypes
  <2> QED BY <2>1, GrownFacts
<1>3. M2 = A \/ M2 = M
  OBVIOUS
<1> HIDE DEF A
<1> QED BY <1>1, <1>2, <1>3 DEF OwnTypes

\* The two ends when one is deleted.
LEMMA EndedOK ==
    ASSUME NEW e \in End, NEW s \in {"term_req_sent1", "term_req_sent2", "term_ack_sent"},
           NEW t \in Silent, NEW M \in Seq(Cmd), NEW P \in Seq(Cmd), NEW out,
           EndOK(e, s, t, out, M), Compatible(t, s),
           Types(P) \cap PipeTypes = {}, Ordered(P),
           NEW M2, M2 = IF s = "term_req_sent1" THEN Append(M, <<"pipe_term_ack", 0>>) ELSE M
    PROVE  /\ EndOK(e, "deleted", t, NULL, M2)
           /\ EndOK(Peer(e), t, "deleted", NULL, P)
           /\ Types(M2) \cap OwnTypes = Types(M) \cap OwnTypes
           /\ Grown(M, M2)
           /\ out = NULL \/ s = "term_req_sent1"
<1>1. EndOK(Peer(e), t, "deleted", NULL, P)
    BY DEF EndOK, Compatible, Silent, Unasked, PipeTypes
<1>2. CASE s = "term_req_sent1"
  <2>1. /\ Types(M2) = Types(M) \cup {"pipe_term_ack"}
        /\ Ordered(M) /\ (\A x \in Types(M) : Before(x, "pipe_term_ack")) => Ordered(M2)
    <3> DEFINE A == Append(M, <<"pipe_term_ack", 0>>)
    <3>1. /\ Types(A) = Types(M) \cup {"pipe_term_ack"}
          /\ Ordered(M) /\ (\A x \in Types(M) : Before(x, "pipe_term_ack")) => Ordered(A)
      BY TypeAppended DEF PipeTypes
    <3>2. M2 = A
      BY <1>2
    <3> HIDE DEF A
    <3> QED BY <3>1, <3>2
  <2>2. t \in {"term_ack_sent", "term_req_sent2"}
    BY <1>2 DEF EndOK, Compatible, Silent, Unasked
  <2>3. Grown(M, M2)
    <3>1. <<"pipe_term_ack", 0>> \in Cmd /\ <<"pipe_term_ack", 0>>[1] # "hiccup"
      BY DEF Cmd, PipeTypes
    <3> QED BY <1>2, <3>1, GrownFacts
  <2>4. Ordered(M2)
    BY <1>2, <2>1 DEF EndOK, Before, Silent
  <2>5. EndOK(e, "deleted", t, NULL, M2)
    BY <1>2, <2>1, <2>2, <2>4 DEF EndOK, Compatible, Silent, Unasked, PipeTypes
  <2> QED BY <1>1, <1>2, <2>1, <2>3, <2>5 DEF OwnTypes
<1>3. CASE s # "term_req_sent1"
  <2>1. M2 = M /\ s \in {"term_req_sent2", "term_ack_sent"}
    BY <1>3
  <2>2. EndOK(e, "deleted", t, NULL, M)
    BY <2>1 DEF EndOK, Compatible, Silent, Unasked
  <2>3. out = NULL
    BY <2>1 DEF EndOK, Silent
  <2> QED BY <1>1, <2>1, <2>2, <2>3, GrownFacts
<1> QED BY <1>2, <1>3

\* process_pipe_term_ack keeps PairInv.
LEMMA Ended ==
    ASSUME NEW n, NEW e \in End, Ending(n, e)
    PROVE  LET m == Deallocate(n, e)
           IN /\ PairInv(m) /\ m.mail[e] = n.mail[e]
              /\ Types(m.mail[Peer(e)]) \cap OwnTypes = Types(n.mail[Peer(e)]) \cap OwnTypes
              /\ m.end[Peer(e)] = n.end[Peer(e)]
              /\ m.end[e].state = "deleted" /\ m.end[e].in = n.end[e].in /\ m.end[e].out = NULL
              /\ Grown(n.mail[Peer(e)], m.mail[Peer(e)])
              /\ DOMAIN m.queue = DOMAIN n.queue
              /\ m.queue[n.end[e].in].deleted
              /\ \A p \in DOMAIN n.queue : p # n.end[e].in => m.queue[p] = n.queue[p]
<1> DEFINE m == Deallocate(n, e)
           s == n.end[e].state
           t == n.end[Peer(e)].state
           M == n.mail[Peer(e)]
           q == n.end[e].in
           out == n.end[e].out
           M2 == IF s = "term_req_sent1" THEN Append(M, <<"pipe_term_ack", 0>>) ELSE M
<1>1. n \in NetType /\ RefInv(n) /\ q \in DOMAIN n.queue
    BY DEF Ending, RefInv
<1>2. Peer(e) \in End /\ Peer(Peer(e)) = e /\ Peer(e) # e
    BY Ends
<1>3. m \in NetType /\ m.mail[e] = n.mail[e] /\ m.end[Peer(e)] = n.end[Peer(e)]
    BY <1>1, DeallocateEffect
<1>4. m.mail[Peer(e)] = M2
    BY <1>1, DeallocateEffect
<1>5. /\ m.end[e].state = "deleted" /\ m.end[e].in = q
      /\ m.end[e].out = IF s = "term_req_sent1" THEN NULL ELSE out
    BY <1>1, DeallocateEffect
<1>6. /\ DOMAIN m.queue = DOMAIN n.queue
      /\ \A p \in DOMAIN n.queue : p # q => m.queue[p] = n.queue[p]
    BY <1>1, DeallocateEffect
<1>7. m.queue[q].deleted
    BY <1>1, DeallocateEffect
<1> HIDE DEF m
<1>8. M \in Seq(Cmd) /\ n.mail[e] \in Seq(Cmd)
    BY <1>1, <1>2, NetFields
<1>9. /\ s \in {"term_req_sent1", "term_req_sent2", "term_ack_sent"} /\ t \in Silent
      /\ Compatible(t, s) /\ n.end[Peer(e)].out = NULL
      /\ Types(n.mail[e]) \cap PipeTypes = {} /\ Ordered(n.mail[e])
      /\ EndOK(e, s, t, out, M)
    BY DEF Ending, EndInv
<1>10. /\ EndOK(e, "deleted", t, NULL, M2)
       /\ EndOK(Peer(e), t, "deleted", NULL, n.mail[e])
       /\ Types(M2) \cap OwnTypes = Types(M) \cap OwnTypes
       /\ Grown(M, M2)
       /\ out = NULL \/ s = "term_req_sent1"
  <2>1. M2 = IF s = "term_req_sent1" THEN Append(M, <<"pipe_term_ack", 0>>) ELSE M
    OBVIOUS
  <2> DEFINE P == n.mail[e]
  <2>2. P \in Seq(Cmd) /\ Types(P) \cap PipeTypes = {} /\ Ordered(P)
    BY <1>8, <1>9
  <2> HIDE DEF M, M2, s, t, out, P
  <2>3. EndOK(e, "deleted", t, NULL, M2)
    BY <2>1, <2>2, <1>8, <1>9, EndedOK
  <2>4. EndOK(Peer(e), t, "deleted", NULL, P)
    BY <2>1, <2>2, <1>8, <1>9, EndedOK
  <2>5. Types(M2) \cap OwnTypes = Types(M) \cap OwnTypes
    BY <2>1, <1>8, EndedMail
  <2>6. Grown(M, M2)
    BY <2>1, <1>8, EndedMail
  <2>7. out = NULL \/ s = "term_req_sent1"
    BY <1>9 DEF EndOK, Silent
  <2> QED BY <2>3, <2>4, <2>5, <2>6, <2>7 DEF P
<1> HIDE DEF M2
<1>11. m.end[e].out = NULL
    BY <1>5, <1>10
<1>12. EndInv(m, e) /\ EndInv(m, Peer(e))
    BY <1>2, <1>3, <1>4, <1>5, <1>9, <1>10, <1>11 DEF EndInv
<1>13. RefInv(m)
    BY <1>1, <1>2, <1>3, <1>5, <1>6, <1>11, Ends DEF RefInv
<1>14. PairInv(m)
    BY <1>3, <1>12, <1>13, <1>2, PairIntro
<1> QED BY <1>3, <1>4, <1>5, <1>6, <1>7, <1>10, <1>11, <1>14 DEF m

\* The frames of a message.
LEMMA MessageFrames ==
    ASSUME NEW n \in NetType, NEW e \in End
    PROVE  First(n, e) \in Frame /\ Final(n, e) \in Frame
<1>1. Count(n.sent[e]) + 1 \in Nat
    BY NetFields, CountNat
<1> QED BY <1>1 DEF First, Final, Frame

\* process_activate_write.
LEMMA CreditStep ==
    ASSUME NEW n, PairInv(n), NEW e \in End, NEW count \in Nat, NEW b \in BOOLEAN
    PROVE  Step(n, Credited(n, e, count, b), e)
<1> DEFINE m == Credited(n, e, count, b)
<1>1. n \in NetType
    BY DEF PairInv
<1>2. /\ m \in NetType /\ m.queue = n.queue /\ m.mail = n.mail
      /\ m.end[Peer(e)] = n.end[Peer(e)] /\ m.end[e].state = n.end[e].state
      /\ Points(m.end[e], n.end[e])
    BY <1>1, CreditEffect
<1> HIDE DEF m
<1>3. Kept(n, m)
    BY <1>2 DEF Kept
<1>4. Quiet(n, m, e) /\ m.mail = n.mail
    BY <1>1, <1>2, <1>3, SameMailQuiet
<1> QED BY <1>4, QuietInv DEF m

\* The socket turns to the queue of a hiccup.
Turned(n, a) ==
    LET old == n.end["sock"].out
        unread == Count(n.queue[old].ready)
    IN [n EXCEPT !.queue[old] = [NewQueue EXCEPT !.deleted = TRUE],
                 !.end["sock"].written = @ - unread,
                 !.end["sock"].out = a,
                 !.end["sock"].outActive = TRUE]

\* What the socket has written, without what it gives up in queue q.
Remaining(n, q) == n.end["sock"].written - Count(n.queue[q].ready)

\* What that does.
LEMMA TurnedEffect ==
    ASSUME NEW n \in NetType, NEW q \in DOMAIN n.queue, q = n.end["sock"].out, NEW a \in Nat
    PROVE  LET m == Turned(n, a)
           IN /\ m \in NetType
              /\ m.mail = n.mail /\ m.sent = n.sent /\ m.got = n.got
              /\ m.end["sess"] = n.end["sess"]
              /\ m.end["sock"].state = n.end["sock"].state
              /\ m.end["sock"].in = n.end["sock"].in /\ m.end["sock"].out = a
              /\ m.end["sock"].written = Remaining(n, q)
              /\ m.end["sock"].read = n.end["sock"].read
              /\ m.end["sock"].peersRead = n.end["sock"].peersRead
              /\ m.end["sock"].inActive = n.end["sock"].inActive
              /\ m.end["sock"].outActive = TRUE
              /\ m.end["sock"].delay = n.end["sock"].delay
              /\ DOMAIN m.queue = DOMAIN n.queue /\ Len(m.queue) = Len(n.queue)
              /\ m.queue[q].deleted /\ m.queue[q].ready = <<>> /\ m.queue[q].part = <<>>
              /\ \A p \in DOMAIN n.queue : p # q => m.queue[p] = n.queue[p]
<1> DEFINE unread == Count(n.queue[q].ready)
           x == n.end["sock"].written - unread
           r == [n.end["sock"] EXCEPT !.written = x, !.out = a, !.outActive = TRUE]
           f == [NewQueue EXCEPT !.deleted = TRUE]
           j == [n EXCEPT !.queue[q] = f]
           k == [j EXCEPT !.end["sock"] = r]
<1>1. /\ "sock" \in End /\ Peer("sock") = "sess"
      /\ n.end["sock"] \in EndType /\ unread \in Nat /\ x \in Int /\ f \in QueueType
  <2>1. "sock" \in End /\ Peer("sock") = "sess"
    BY DEF End, Peer
  <2>2. n.queue[q].ready \in Seq(Frame)
    BY NetFields, QueueFields
  <2>3. n.end["sock"] \in EndType
    BY <2>1, NetFields
  <2>4. n.end["sock"].written \in Int /\ unread \in Nat
    BY <2>2, <2>3, EndFields, CountNat
  <2>5. f \in QueueType
    BY NewQueueType
  <2> QED BY <2>1, <2>3, <2>4, <2>5
<1>2. Turned(n, a) = k
    BY DEF Turned
<1>3. f.deleted /\ f.ready = <<>> /\ f.part = <<>>
    BY DEF NewQueue
<1> HIDE DEF x, f
<1>4. /\ r \in EndType /\ r.state = n.end["sock"].state /\ r.in = n.end["sock"].in
      /\ r.out = a /\ r.written = x /\ r.outActive = TRUE
      /\ r.inActive = n.end["sock"].inActive /\ r.delay = n.end["sock"].delay
      /\ r.read = n.end["sock"].read /\ r.peersRead = n.end["sock"].peersRead
    BY <1>1 DEF EndType
<1> HIDE DEF r, unread
<1>5. /\ j \in NetType
      /\ j.end = n.end /\ j.mail = n.mail /\ j.sent = n.sent /\ j.got = n.got
      /\ DOMAIN j.queue = DOMAIN n.queue /\ Len(j.queue) = Len(n.queue)
      /\ j.queue[q] = f
      /\ \A p \in DOMAIN n.queue : p # q => j.queue[p] = n.queue[p]
    BY <1>1, WithQueue
<1> HIDE DEF j
<1>6. /\ k \in NetType
      /\ k.queue = j.queue /\ k.mail = j.mail /\ k.sent = j.sent /\ k.got = j.got
      /\ k.end["sock"] = r /\ k.end["sess"] = j.end["sess"]
  <2>1. /\ k \in NetType
        /\ k.queue = j.queue /\ k.mail = j.mail /\ k.sent = j.sent /\ k.got = j.got
        /\ k.end["sock"] = r /\ k.end[Peer("sock")] = j.end[Peer("sock")]
    <3>1. "sock" \in End /\ j \in NetType /\ r \in EndType
      BY <1>1, <1>4, <1>5
    <3> QED BY <3>1, WithEnd
  <2> QED BY <1>1, <2>1
<1> HIDE DEF k
<1> DEFINE m == Turned(n, a)
<1>7. m = k
    BY <1>2
<1> HIDE DEF m
<1>8. x = Remaining(n, q)
    BY DEF x, unread, Remaining
<1>9. /\ m \in NetType /\ m.mail = n.mail /\ m.sent = n.sent /\ m.got = n.got
      /\ m.end["sess"] = n.end["sess"]
      /\ DOMAIN m.queue = DOMAIN n.queue /\ Len(m.queue) = Len(n.queue)
      /\ \A p \in DOMAIN n.queue : p # q => m.queue[p] = n.queue[p]
      /\ m.queue[q] = f /\ m.end["sock"] = r
    BY <1>5, <1>6, <1>7
<1>10. /\ m.end["sock"].state = n.end["sock"].state
       /\ m.end["sock"].in = n.end["sock"].in /\ m.end["sock"].out = a
       /\ m.end["sock"].written = Remaining(n, q)
       /\ m.end["sock"].read = n.end["sock"].read
       /\ m.end["sock"].peersRead = n.end["sock"].peersRead
       /\ m.end["sock"].inActive = n.end["sock"].inActive
       /\ m.end["sock"].outActive = TRUE
       /\ m.end["sock"].delay = n.end["sock"].delay
       /\ m.queue[q].deleted /\ m.queue[q].ready = <<>> /\ m.queue[q].part = <<>>
    BY <1>3, <1>4, <1>8, <1>9
<1> QED BY <1>1, <1>9, <1>10 DEF m

\* It changes no state.
LEMMA TurnedPair ==
    ASSUME NEW n, PairInv(n), NEW a \in DOMAIN n.queue, n.end["sock"].out # NULL
    PROVE  PairInv(Turned(n, a))
<1> DEFINE m == Turned(n, a)
           q == n.end["sock"].out
<1>1. "sock" \in End /\ Peer("sock") = "sess" /\ "sess" \in End /\ Peer("sess") = "sock"
    BY DEF End, Peer
<1>2. n \in NetType /\ RefInv(n) /\ EndInv(n, "sock") /\ EndInv(n, "sess")
    BY DEF PairInv
<1>3. q \in DOMAIN n.queue /\ a \in Nat /\ a # NULL
  <2>1. n.queue \in Seq(QueueType)
    BY <1>2, NetFields
  <2>2. a \in Nat /\ a # 0
    BY <2>1
  <2> QED BY <1>1, <1>2, <2>2 DEF RefInv, NULL
<1>4. /\ m \in NetType
      /\ m.mail = n.mail
      /\ m.end["sess"] = n.end["sess"]
      /\ m.end["sock"].state = n.end["sock"].state
      /\ m.end["sock"].in = n.end["sock"].in /\ m.end["sock"].out = a
      /\ DOMAIN m.queue = DOMAIN n.queue
  <2>1. m \in NetType /\ m.mail = n.mail
    BY <1>2, <1>3, TurnedEffect
  <2>2. m.end["sess"] = n.end["sess"]
    BY <1>2, <1>3, TurnedEffect
  <2>3. m.end["sock"].state = n.end["sock"].state
    BY <1>2, <1>3, TurnedEffect
  <2>3a. m.end["sock"].in = n.end["sock"].in
    BY <1>2, <1>3, TurnedEffect
  <2>3b. m.end["sock"].out = a
    BY <1>2, <1>3, TurnedEffect
  <2>4. DOMAIN m.queue = DOMAIN n.queue
    BY <1>2, <1>3, TurnedEffect
  <2> HIDE DEF m
  <2> QED BY <2>1, <2>2, <2>3, <2>3a, <2>3b, <2>4
<1> HIDE DEF m
<1>5. RefInv(m)
    BY <1>2, <1>4 DEF RefInv, End
<1>6. EndInv(m, "sess")
    BY <1>1, <1>2, <1>4 DEF EndInv
<1>7. EndInv(m, "sock")
  <2> DEFINE s == n.end["sock"].state
             t == n.end["sess"].state
             M == n.mail["sess"]
  <2>1. EndOK("sock", s, t, q, M)
    BY <1>1, <1>2 DEF EndInv
  <2>2. EndOK("sock", s, t, a, M)
    <3>1. q # NULL
      OBVIOUS
    <3> HIDE DEF s, t, M, q
    <3> QED BY <1>3, <2>1, <3>1 DEF EndOK
  <2> QED BY <1>1, <1>4, <2>2 DEF EndInv
<1> QED BY <1>4, <1>5, <1>6, <1>7 DEF PairInv, m

\* A listener's engine makes a pipe for its session.
Accepted(n) == [n EXCEPT !.end = [e \in End |-> NewEnd(e, "active")]]

\* The two ends of a new pipe.
LEMMA AcceptedPair ==
    ASSUME NEW n, PairInv(n), Len(n.queue) >= 2, n.end["sock"].state = "none"
    PROVE  LET m == Accepted(n)
           IN /\ PairInv(m) /\ m.mail = n.mail /\ m.queue = n.queue
              /\ m.sent = n.sent /\ m.got = n.got
              /\ \A e \in End : m.end[e] = NewEnd(e, "active")
              /\ \A e \in End : Types(n.mail[e]) \cap PipeTypes = {}
<1> DEFINE m == Accepted(n)
           E == [e \in End |-> NewEnd(e, "active")]
<1>1. "sock" \in End /\ Peer("sock") = "sess" /\ "sess" \in End /\ Peer("sess") = "sock"
    BY DEF End, Peer
<1>2. n \in NetType /\ RefInv(n) /\ EndInv(n, "sock") /\ EndInv(n, "sess")
    BY DEF PairInv
<1>3. \A e \in End : NewEnd(e, "active") \in EndType
    BY DEF NewEnd, EndType, States
<1>4. E \in [End -> EndType]
    BY <1>3
<1>5. /\ m \in NetType /\ m.end = E /\ m.mail = n.mail /\ m.queue = n.queue
      /\ m.sent = n.sent /\ m.got = n.got
  <2> HIDE DEF E
  <2>1. m = [n EXCEPT !.end = E]
    BY DEF Accepted, E
  <2> QED BY <1>2, <1>4, <2>1 DEF NetType
<1> HIDE DEF m
<1>6. \A e \in End : m.end[e] = NewEnd(e, "active")
    BY <1>5
<1>7. 1 \in DOMAIN n.queue /\ 2 \in DOMAIN n.queue
  <2>1. n.queue \in Seq(QueueType)
    BY <1>2, NetFields
  <2> QED BY <2>1
<1>8. RefInv(m)
    BY <1>5, <1>6, <1>7 DEF RefInv, NewEnd
<1>9. n.end["sess"].state = "none"
    BY <1>1, <1>2 DEF EndInv, EndOK, Compatible
<1>10. \A e \in End : Types(n.mail[e]) \cap PipeTypes = {} /\ Ordered(n.mail[e])
    BY <1>1, <1>2, <1>9 DEF EndInv, EndOK, End
<1>11. ASSUME NEW e \in End PROVE EndInv(m, e)
  <2> DEFINE M == n.mail[Peer(e)]
             out == NewEnd(e, "active").out
  <2>1. Types(M) \cap PipeTypes = {} /\ Ordered(M)
    BY <1>10, Ends
  <2>2. out # NULL
    BY DEF NewEnd, NULL
  <2> HIDE DEF M, out
  <2>3. EndOK(e, "active", "active", out, M)
    BY <2>1, <2>2 DEF EndOK, Compatible, Silent, Unasked, PipeTypes
  <2>4. m.end[e].state = "active" /\ m.end[Peer(e)].state = "active" /\ m.end[e].out = out
    <3>1. m.end[e] = NewEnd(e, "active") /\ m.end[Peer(e)] = NewEnd(Peer(e), "active")
      BY <1>6, Ends
    <3>2. \A x : NewEnd(x, "active").state = "active"
      BY DEF NewEnd
    <3> QED BY <3>1, <3>2 DEF out
  <2> QED BY <1>5, <2>3, <2>4 DEF EndInv, M
<1>12. PairInv(m)
    BY <1>1, <1>5, <1>8, <1>11 DEF PairInv
<1> QED BY <1>5, <1>6, <1>10, <1>12 DEF m

------------------------------------------------------------------------------
(* The queues: QueueInv *)

\* Other commands are added behind the hiccups.
LEMMA HiccupsGrown ==
    ASSUME NEW M \in Seq(Cmd), NEW N \in Seq(Cmd), NEW out \in Nat, NEW last \in Nat,
           HiccupsOK(M, out, last), Grown(M, N)
    PROVE  HiccupsOK(N, out, last)
<1>1. /\ DOMAIN M = 1 .. Len(M) /\ DOMAIN N = 1 .. Len(N) /\ Len(M) \in Nat /\ Len(N) \in Nat
      /\ Len(M) <= Len(N)
    BY DEF Grown
<1>2. \A i \in DOMAIN N : N[i][1] = "hiccup" => i \in DOMAIN M /\ M[i] = N[i]
    BY <1>1 DEF Grown
<1>3. \A i \in DOMAIN M : i \in DOMAIN N /\ N[i] = M[i]
    BY <1>1 DEF Grown
<1> QED BY <1>2, <1>3 DEF HiccupsOK

\* Another command is taken from before the hiccups.
LEMMA HiccupsTaken ==
    ASSUME NEW M \in Seq(Cmd), NEW out \in Nat, NEW last \in Nat,
           HiccupsOK(M, out, last), M # <<>>, Head(M)[1] # "hiccup"
    PROVE  HiccupsOK(Tail(M), out, last)
<1> DEFINE N == Tail(M)
<1>1. /\ Len(M) \in Nat \ {0} /\ DOMAIN M = 1 .. Len(M) /\ DOMAIN N = 1 .. Len(M) - 1
      /\ \A i \in 1 .. Len(M) - 1 : N[i] = M[i + 1]
      /\ Head(M) = M[1]
    OBVIOUS
<1> HIDE DEF N
<1>2. \A i \in DOMAIN N : i + 1 \in DOMAIN M /\ N[i] = M[i + 1] /\ i \in Int
    BY <1>1
<1>3. \A i \in DOMAIN M : i = 1 \/ (i - 1 \in DOMAIN N /\ N[i - 1] = M[i])
    BY <1>1
<1>4. \A i \in DOMAIN N : N[i][1] = "hiccup" => out < N[i][2] /\ N[i][2] <= last
    BY <1>2 DEF HiccupsOK
<1>5. \A i, j \in DOMAIN N : i < j /\ N[i][1] = "hiccup" /\ N[j][1] = "hiccup" => N[i][2] < N[j][2]
  <2> SUFFICES ASSUME NEW i \in DOMAIN N, NEW j \in DOMAIN N, i < j, N[i][1] = "hiccup", N[j][1] = "hiccup"
               PROVE  N[i][2] < N[j][2]
    OBVIOUS
  <2>1. i + 1 \in DOMAIN M /\ j + 1 \in DOMAIN M /\ i + 1 < j + 1 /\ N[i] = M[i + 1] /\ N[j] = M[j + 1]
    BY <1>2
  <2> QED BY <2>1 DEF HiccupsOK
<1>6. ASSUME out # NULL, NEW q \in out + 1 .. last
      PROVE  \E i \in DOMAIN N : N[i] = <<"hiccup", q>>
  <2>1. PICK i \in DOMAIN M : M[i] = <<"hiccup", q>>
    BY <1>6 DEF HiccupsOK
  <2>2. i # 1
    BY <1>1, <2>1
  <2> QED BY <1>3, <2>1, <2>2
<1> QED BY <1>4, <1>5, <1>6 DEF HiccupsOK, N

\* A hiccup that is taken names the next queue.
LEMMA HiccupTaken ==
    ASSUME NEW M \in Seq(Cmd), NEW out \in Nat, NEW last \in Nat,
           HiccupsOK(M, out, last), M # <<>>, Head(M)[1] = "hiccup", out # NULL
    PROVE  /\ Head(M)[2] = out + 1 /\ out + 1 <= last
           /\ HiccupsOK(Tail(M), out + 1, last)
<1> DEFINE N == Tail(M)
<1>1. /\ Len(M) \in Nat \ {0} /\ DOMAIN M = 1 .. Len(M) /\ DOMAIN N = 1 .. Len(M) - 1
      /\ \A i \in 1 .. Len(M) - 1 : N[i] = M[i + 1]
      /\ Head(M) = M[1] /\ M[1] \in Cmd
    OBVIOUS
<1>0. \A i \in DOMAIN M : M[i] \in Cmd
    OBVIOUS
<1> HIDE DEF N
<1>2. \A i \in DOMAIN N : i + 1 \in DOMAIN M /\ 1 < i + 1 /\ N[i] = M[i + 1] /\ i \in Int
    BY <1>1
<1>3. \A i \in DOMAIN M : i = 1 \/ (1 < i /\ i - 1 \in DOMAIN N /\ N[i - 1] = M[i])
    BY <1>1
<1>4. 1 \in DOMAIN M /\ M[1][1] = "hiccup"
    BY <1>1
<1> DEFINE a == M[1][2]
<1>5. a \in Nat /\ out < a /\ a <= last
    BY <1>1, <1>4 DEF HiccupsOK, Cmd
<1>6. \A i \in DOMAIN M : i # 1 /\ M[i][1] = "hiccup" => a < M[i][2]
    BY <1>3, <1>4 DEF HiccupsOK
<1>7. a = out + 1
  <2>1. out + 1 \in out + 1 .. last
    BY <1>5
  <2>2. PICK i \in DOMAIN M : M[i] = <<"hiccup", out + 1>>
    BY <2>1 DEF HiccupsOK
  <2>3. CASE i = 1
    BY <2>2, <2>3
  <2>4. CASE i # 1
    BY <2>2, <2>4, <1>5, <1>6
  <2> QED BY <2>3, <2>4
<1> HIDE DEF a
<1>8. \A i \in DOMAIN N : N[i][1] = "hiccup" => out + 1 < N[i][2] /\ N[i][2] <= last
  <2> SUFFICES ASSUME NEW i \in DOMAIN N, N[i][1] = "hiccup"
               PROVE  out + 1 < N[i][2] /\ N[i][2] <= last
    OBVIOUS
  <2>1. i + 1 \in DOMAIN M /\ i + 1 # 1 /\ M[i + 1][1] = "hiccup" /\ N[i] = M[i + 1]
    BY <1>2
  <2>2. M[i + 1][2] <= last
    BY <2>1 DEF HiccupsOK
  <2> QED BY <1>6, <1>7, <2>1, <2>2
<1>9. \A i, j \in DOMAIN N : i < j /\ N[i][1] = "hiccup" /\ N[j][1] = "hiccup" => N[i][2] < N[j][2]
  <2> SUFFICES ASSUME NEW i \in DOMAIN N, NEW j \in DOMAIN N, i < j, N[i][1] = "hiccup", N[j][1] = "hiccup"
               PROVE  N[i][2] < N[j][2]
    OBVIOUS
  <2>1. i + 1 \in DOMAIN M /\ j + 1 \in DOMAIN M /\ i + 1 < j + 1 /\ N[i] = M[i + 1] /\ N[j] = M[j + 1]
    BY <1>2
  <2> QED BY <2>1 DEF HiccupsOK
<1>10. ASSUME NEW q \in out + 1 + 1 .. last
       PROVE  \E i \in DOMAIN N : N[i] = <<"hiccup", q>>
  <2>0. q \in out + 1 .. last /\ q # out + 1
    OBVIOUS
  <2>1. PICK i \in DOMAIN M : M[i] = <<"hiccup", q>>
    BY <2>0 DEF HiccupsOK
  <2>2. i # 1
    BY <1>1, <2>0, <2>1, <1>7 DEF a
  <2> QED BY <1>3, <2>1, <2>2
<1>11. HiccupsOK(N, out + 1, last)
    BY <1>8, <1>9, <1>10 DEF HiccupsOK
<1> QED BY <1>1, <1>5, <1>7, <1>11 DEF N, a

\* Without hiccups the socket writes to the last queue.
LEMMA NoHiccups ==
    ASSUME NEW M \in Seq(Cmd), NEW out \in Nat, NEW last \in Nat, "hiccup" \notin Types(M)
    PROVE  /\ HiccupsOK(M, NULL, last)
           /\ last <= out => HiccupsOK(M, out, last)
           /\ HiccupsOK(M, out, last) /\ out # NULL => last <= out
<1>1. \A i \in DOMAIN M : M[i][1] # "hiccup"
    BY DEF Types
<1>2. ASSUME HiccupsOK(M, out, last), out # NULL PROVE last <= out
  <2> SUFFICES ASSUME ~(last <= out) PROVE FALSE
    OBVIOUS
  <2>1. last \in out + 1 .. last
    OBVIOUS
  <2>2. PICK i \in DOMAIN M : M[i] = <<"hiccup", last>>
    BY <1>2, <2>1 DEF HiccupsOK
  <2> QED BY <1>1, <2>2
<1>3. HiccupsOK(M, NULL, last)
    BY <1>1 DEF HiccupsOK
<1>4. ASSUME last <= out PROVE HiccupsOK(M, out, last)
  <2>1. out + 1 .. last = {}
    BY <1>4
  <2> QED BY <1>1, <2>1 DEF HiccupsOK
<1> QED BY <1>2, <1>3, <1>4

\* A hiccup names the queue just made.
LEMMA HiccupSent ==
    ASSUME NEW M \in Seq(Cmd), NEW out \in Nat, NEW last \in Nat,
           HiccupsOK(M, out, last), out <= last
    PROVE  HiccupsOK(Append(M, <<"hiccup", last + 1>>), out, last + 1)
<1> DEFINE c == <<"hiccup", last + 1>>
           N == Append(M, c)
<1>0. c \in Cmd /\ c[1] = "hiccup" /\ c[2] = last + 1
    BY DEF Cmd, PipeTypes
<1> HIDE DEF c
<1>1. /\ Len(M) \in Nat /\ DOMAIN M = 1 .. Len(M) /\ DOMAIN N = 1 .. Len(M) + 1
      /\ \A i \in 1 .. Len(M) : N[i] = M[i]
      /\ N[Len(M) + 1] = c
    OBVIOUS
<1>1a. \A i \in DOMAIN M : M[i][2] \in Nat
    BY DEF Cmd
<1> HIDE DEF N
<1>2. \A i \in DOMAIN N : \/ i \in DOMAIN M /\ N[i] = M[i]
                          \/ i = Len(M) + 1 /\ N[i] = c
    BY <1>1
<1>3. \A i \in DOMAIN M : i \in DOMAIN N /\ N[i] = M[i] /\ i < Len(M) + 1 /\ i \in Nat
    BY <1>1
<1>4. \A i \in DOMAIN N : N[i][1] = "hiccup" => out < N[i][2] /\ N[i][2] <= last + 1
    BY <1>0, <1>1a, <1>2 DEF HiccupsOK
<1>5. \A i, j \in DOMAIN N : i < j /\ N[i][1] = "hiccup" /\ N[j][1] = "hiccup" => N[i][2] < N[j][2]
  <2> SUFFICES ASSUME NEW i \in DOMAIN N, NEW j \in DOMAIN N, i < j, N[i][1] = "hiccup", N[j][1] = "hiccup"
               PROVE  N[i][2] < N[j][2]
    OBVIOUS
  <2>1. i \in DOMAIN M /\ N[i] = M[i]
    BY <1>1, <1>2
  <2>2. CASE j \in DOMAIN M /\ N[j] = M[j]
    BY <2>1, <2>2 DEF HiccupsOK
  <2>3. CASE N[j] = c
    <3>1. M[i][2] <= last /\ M[i][2] \in Nat
      BY <2>1, <1>1a DEF HiccupsOK
    <3> QED BY <2>1, <2>3, <3>1, <1>0
  <2> QED BY <1>2, <2>2, <2>3
<1>6. ASSUME out # NULL, NEW q \in out + 1 .. last + 1
      PROVE  \E i \in DOMAIN N : N[i] = <<"hiccup", q>>
  <2>1. CASE q = last + 1
    <3>1. N[Len(M) + 1] = <<"hiccup", q>> /\ Len(M) + 1 \in DOMAIN N
      BY <1>1, <2>1 DEF c
    <3> QED BY <3>1
  <2>2. CASE q # last + 1
    <3>1. q \in out + 1 .. last
      BY <2>2
    <3>2. PICK i \in DOMAIN M : M[i] = <<"hiccup", q>>
      BY <1>6, <3>1 DEF HiccupsOK
    <3> QED BY <1>3, <3>2
  <2> QED BY <2>1, <2>2
<1> QED BY <1>4, <1>5, <1>6 DEF HiccupsOK, N, c

\* Lengths and domains of queues.
LEMMA QueueLen ==
    ASSUME NEW n \in NetType, NEW m \in NetType, DOMAIN m.queue = DOMAIN n.queue
    PROVE  Len(m.queue) = Len(n.queue) /\ Len(n.queue) \in Nat /\ DOMAIN n.queue = 1 .. Len(n.queue)
<1>1. n.queue \in Seq(QueueType) /\ m.queue \in Seq(QueueType)
    BY NetFields
<1> QED BY <1>1

\* What QueueInv speaks of.
LEMMA SockFields ==
    ASSUME NEW n \in NetType
    PROVE  n.end["sock"].out \in Nat /\ n.mail["sock"] \in Seq(Cmd) /\ Len(n.queue) \in Nat
           /\ n.end["sock"].out \in Nat
<1>1. "sock" \in End
    BY DEF End
<1> QED BY <1>1, NetFields, EndFields

\* Ends of a pipe that have come to the same, but for what has been said.
Alike(n, m) ==
    \A x \in End : /\ Types(m.mail[x]) \cap OwnTypes = Types(n.mail[x]) \cap OwnTypes
                   /\ Has(m, x) <=> Has(n, x)
                   /\ m.end[x].state = "none" <=> n.end[x].state = "none"

\* A Step leaves the ends alike.
LEMMA KeepsAlike ==
    ASSUME NEW n, NEW m, NEW e \in End, Keeps(n, m, e)
    PROVE  Alike(n, m)
BY Ends DEF Keeps, Alike, Has

\* Alike is transitive.
LEMMA AlikeTransitive ==
    ASSUME NEW n, NEW k, NEW m, Alike(n, k), Alike(k, m)
    PROVE  Alike(n, m)
BY DEF Alike

\* A Step keeps QueueInv.
LEMMA ShapeQueue ==
    ASSUME NEW n \in NetType, NEW m \in NetType, NEW e \in End,
           QueueInv(n), Alike(n, m), Shape(n, m, e), m.mail[e] = n.mail[e]
    PROVE  QueueInv(m)
<1> DEFINE last == Len(n.queue)
           out == n.end["sock"].out
           M == n.mail["sock"]
           outm == m.end["sock"].out
           N == m.mail["sock"]
<1>1. Len(m.queue) = last /\ last \in Nat /\ DOMAIN n.queue = 1 .. last
    BY QueueLen DEF Shape, Kept
<1>2. \A q \in 1 .. last : m.queue[q].deleted = n.queue[q].deleted
    BY <1>1 DEF Shape, Kept
<1>3. \A x \in End : m.end[x].state = "deleted" <=> n.end[x].state = "deleted"
    BY DEF Alike, Has
<1>4. out \in Nat /\ outm \in Nat /\ M \in Seq(Cmd) /\ N \in Seq(Cmd)
    BY SockFields
<1>5. "sock" \in End /\ "sess" \in End /\ Peer("sock") = "sess" /\ Peer("sess") = "sock"
    BY DEF End, Peer
<1>6. /\ last >= 2 /\ n.end["sock"].in = 1 /\ n.end["sess"].in = last
      /\ n.end["sock"].state = "none" => last = 2
      /\ n.end["sess"].out \in {NULL, 1} /\ out # 1
      /\ n.queue[1].deleted <=> n.end["sock"].state = "deleted"
      /\ n.queue[last].deleted <=> n.end["sess"].state = "deleted"
      /\ \A q \in 2 .. last - 1 : n.queue[q].deleted <=> out = NULL \/ q < out
      /\ HiccupsOK(M, out, last)
    BY DEF QueueInv
<1>7. Grown(M, N)
  <2>1. CASE e = "sess"
    BY <2>1, <1>5 DEF Shape
  <2>2. CASE e = "sock"
    BY <2>2, <1>4, GrownFacts
  <2> QED BY <2>1, <2>2 DEF End
<1>8. \/ outm = out
      \/ outm = NULL /\ "hiccup" \notin Types(N) /\ N = M
    BY <1>5 DEF Shape, End
<1>9. m.end["sess"].out \in {NULL, 1}
    BY <1>5, <1>6 DEF Shape, End
<1>10. /\ m.end["sock"].in = 1 /\ m.end["sess"].in = last
       /\ m.end["sock"].state = "none" <=> n.end["sock"].state = "none"
    BY <1>5, <1>6 DEF Shape, Alike
<1> HIDE DEF last, out, outm, M, N
<1>11. HiccupsOK(N, outm, last)
  <2>1. CASE outm = out
    BY <2>1, <1>1, <1>4, <1>6, <1>7, HiccupsGrown
  <2>2. CASE outm # out
    BY <2>2, <1>1, <1>4, <1>8, NoHiccups
  <2> QED BY <2>1, <2>2
<1>12. \A q \in 2 .. last - 1 : n.queue[q].deleted <=> outm = NULL \/ q < outm
  <2>1. CASE outm = out
    BY <2>1, <1>6
  <2>2. CASE outm # out
    <3>1. outm = NULL /\ "hiccup" \notin Types(M) /\ out # NULL
      BY <2>2, <1>8
    <3>2. last <= out
      BY <3>1, <1>1, <1>4, <1>6, NoHiccups
    <3> QED BY <3>1, <3>2, <1>1, <1>4, <1>6
  <2> QED BY <2>1, <2>2
<1>13. outm # 1
    BY <1>6, <1>8 DEF NULL
<1>14. /\ \A q \in 2 .. last - 1 : m.queue[q].deleted <=> outm = NULL \/ q < outm
       /\ m.queue[1].deleted <=> m.end["sock"].state = "deleted"
       /\ m.queue[last].deleted <=> m.end["sess"].state = "deleted"
  <2>1. \A q \in 2 .. last - 1 : q \in 1 .. last
    BY <1>1
  <2>2. 1 \in 1 .. last /\ last \in 1 .. last
    BY <1>1, <1>6
  <2> QED BY <1>2, <1>3, <1>5, <1>6, <1>12, <2>1, <2>2
<1> QED BY <1>1, <1>6, <1>9, <1>10, <1>11, <1>13, <1>14 DEF QueueInv, outm, N

\* Only the mailboxes of the ends change, and no hiccup is added or taken.
LEMMA TakenQueue ==
    ASSUME NEW n \in NetType, NEW m \in NetType, NEW e \in End, QueueInv(n),
           n.mail[e] # <<>>, e = "sock" => Head(n.mail[e])[1] # "hiccup",
           m.end = n.end, m.queue = n.queue,
           m.mail[e] = Tail(n.mail[e]), m.mail[Peer(e)] = n.mail[Peer(e)]
    PROVE  QueueInv(m)
<1>1. /\ n.end["sock"].out \in Nat /\ n.mail["sock"] \in Seq(Cmd) /\ Len(n.queue) \in Nat
    BY SockFields
<1>2. HiccupsOK(n.mail["sock"], n.end["sock"].out, Len(n.queue))
    BY DEF QueueInv
<1>3. HiccupsOK(m.mail["sock"], n.end["sock"].out, Len(n.queue))
  <2>1. CASE e = "sock"
    <3> DEFINE M == n.mail["sock"]
    <3>1. M # <<>> /\ Head(M)[1] # "hiccup" /\ m.mail["sock"] = Tail(M)
      BY <2>1
    <3> HIDE DEF M
    <3> QED BY <3>1, <1>1, <1>2, HiccupsTaken DEF M
  <2>2. CASE e = "sess"
    BY <2>2, <1>2 DEF Peer
  <2> QED BY <2>1, <2>2 DEF End
<1> QED BY <1>3 DEF QueueInv

\* A command between the owners keeps QueueInv.
LEMMA MailQueue ==
    ASSUME NEW n \in NetType, NEW m \in NetType, NEW e \in End, QueueInv(n),
           m.end = n.end, m.queue = n.queue,
           Grown(n.mail[e], m.mail[e]), m.mail[Peer(e)] = n.mail[Peer(e)]
    PROVE  QueueInv(m)
<1>1. /\ n.end["sock"].out \in Nat /\ n.mail["sock"] \in Seq(Cmd) /\ Len(n.queue) \in Nat
      /\ m.mail["sock"] \in Seq(Cmd)
    BY SockFields
<1>2. HiccupsOK(n.mail["sock"], n.end["sock"].out, Len(n.queue))
    BY DEF QueueInv
<1>3. HiccupsOK(m.mail["sock"], n.end["sock"].out, Len(n.queue))
  <2>1. CASE e = "sock"
    BY <2>1, <1>1, <1>2, HiccupsGrown
  <2>2. CASE e = "sess"
    BY <2>2, <1>2 DEF Peer
  <2> QED BY <2>1, <2>2 DEF End
<1> QED BY <1>3 DEF QueueInv

\* The queues that a hiccup does not touch.
LEMMA TurnedOthers ==
    ASSUME NEW n \in NetType, NEW q \in DOMAIN n.queue, q = n.end["sock"].out, NEW a \in Nat,
           NEW p \in DOMAIN n.queue, p # q
    PROVE  Turned(n, a).queue[p] = n.queue[p]
<1> DEFINE m == Turned(n, a)
<1>1. \A x \in DOMAIN n.queue : x # q => m.queue[x] = n.queue[x]
    BY TurnedEffect
<1> HIDE DEF m
<1> QED BY <1>1 DEF m

\* process_hiccup frees the queue before the one it turns to, and no other.
LEMMA TurnedQueue ==
    ASSUME NEW n, PairInv(n), QueueInv(n), n.mail["sock"] # <<>>, Head(n.mail["sock"])[1] = "hiccup",
           n.end["sock"].out # NULL
    PROVE  LET r == [n EXCEPT !.mail["sock"] = Tail(@)]
               a == Head(n.mail["sock"])[2]
               m == Turned(r, a)
           IN /\ a \in DOMAIN n.queue /\ a \in Nat /\ PairInv(m) /\ QueueInv(m)
              /\ m.mail["sock"] = Tail(n.mail["sock"]) /\ m.mail["sess"] = n.mail["sess"]
              /\ \A x \in End : m.end[x].state = n.end[x].state
              /\ m.sent = n.sent
<1> DEFINE r == [n EXCEPT !.mail["sock"] = Tail(@)]
           M == n.mail["sock"]
           a == Head(M)[2]
           m == Turned(r, a)
           q == n.end["sock"].out
           last == Len(n.queue)
<1>1. n \in NetType /\ RefInv(n) /\ "sock" \in End /\ Peer("sock") = "sess" /\ "sess" \in End
    BY DEF PairInv, End, Peer
<1>2. /\ r \in NetType
      /\ r.end = n.end /\ r.queue = n.queue /\ r.sent = n.sent
      /\ r.mail["sock"] = Tail(M) /\ r.mail["sess"] = n.mail["sess"]
  <2>1. /\ r \in NetType
        /\ r.end = n.end /\ r.queue = n.queue /\ r.sent = n.sent
        /\ r.mail["sock"] = Tail(M) /\ r.mail[Peer("sock")] = n.mail[Peer("sock")]
    BY <1>1, TakenEffect
  <2> QED BY <1>1, <2>1
<1>3. PairInv(r)
    BY <1>1, TakenPair
<1> HIDE DEF r
<1>4. /\ q \in Nat /\ M \in Seq(Cmd) /\ last \in Nat /\ DOMAIN n.queue = 1 .. last
      /\ q \in 1 .. last
  <2>1. last \in Nat /\ DOMAIN n.queue = 1 .. last
    BY <1>1, QueueLen
  <2>2. q \in Nat /\ M \in Seq(Cmd)
    BY <1>1, SockFields
  <2> QED BY <1>1, <2>1, <2>2 DEF RefInv
<1>5. /\ last >= 2 /\ n.end["sock"].in = 1 /\ n.end["sess"].in = last
      /\ n.end["sock"].state = "none" => last = 2
      /\ n.end["sess"].out \in {NULL, 1} /\ q # 1
      /\ n.queue[1].deleted <=> n.end["sock"].state = "deleted"
      /\ n.queue[last].deleted <=> n.end["sess"].state = "deleted"
      /\ \A p \in 2 .. last - 1 : n.queue[p].deleted <=> q = NULL \/ p < q
      /\ HiccupsOK(M, q, last)
    BY DEF QueueInv
<1>6. a = q + 1 /\ q + 1 <= last /\ HiccupsOK(Tail(M), q + 1, last)
  <2>1. M # <<>> /\ Head(M)[1] = "hiccup" /\ q # NULL
    OBVIOUS
  <2> HIDE DEF M, q, last
  <2> QED BY <2>1, <1>4, <1>5, HiccupTaken
<1> HIDE DEF a, M
<1>7. a \in DOMAIN n.queue /\ a \in Nat
    BY <1>4, <1>6
<1>8. PairInv(m)
    BY <1>2, <1>3, <1>7, TurnedPair
<1>21. q \in DOMAIN r.queue
    BY <1>2, <1>4
<1>22. q = r.end["sock"].out
    BY <1>2
<1>23. r \in NetType
    BY <1>2
<1> HIDE DEF q
<1>9. /\ m \in NetType /\ m.mail = r.mail /\ m.end["sess"] = r.end["sess"] /\ m.sent = r.sent
  <2>1. m \in NetType
    BY <1>21, <1>22, <1>23, <1>7, TurnedEffect
  <2>2. m.mail = r.mail
    BY <1>21, <1>22, <1>23, <1>7, TurnedEffect
  <2>3. m.end["sess"] = r.end["sess"]
    BY <1>21, <1>22, <1>23, <1>7, TurnedEffect
  <2>4. m.sent = r.sent
    BY <1>21, <1>22, <1>23, <1>7, TurnedEffect
  <2> QED BY <2>1, <2>2, <2>3, <2>4
<1>10. m.end["sock"].state = r.end["sock"].state
    BY <1>2, <1>21, <1>22, <1>23, <1>7, TurnedEffect
<1>11. m.end["sock"].in = r.end["sock"].in
    BY <1>2, <1>21, <1>22, <1>23, <1>7, TurnedEffect
<1>12. m.end["sock"].out = a
    BY <1>2, <1>21, <1>22, <1>23, <1>7, TurnedEffect
<1>13. Len(m.queue) = last
  <2>1. Len(m.queue) = Len(r.queue)
    BY <1>21, <1>22, <1>23, <1>7, TurnedEffect
  <2> QED BY <2>1, <1>2
<1>14. m.queue[q].deleted
    BY <1>2, <1>21, <1>22, <1>23, <1>7, TurnedEffect
<1>15. \A p \in DOMAIN n.queue : p # q => m.queue[p] = n.queue[p]
  <2>1. ASSUME NEW p \in DOMAIN r.queue, p # q
        PROVE  m.queue[p] = r.queue[p]
    BY <2>1, <1>21, <1>22, <1>23, <1>7, TurnedOthers DEF m
  <2> QED BY <2>1, <1>2
<1> HIDE DEF m, last
<1>16. \A p \in 2 .. last - 1 : m.queue[p].deleted <=> a = NULL \/ p < a
  <2> SUFFICES ASSUME NEW p \in 2 .. last - 1
               PROVE  m.queue[p].deleted <=> p < q + 1
    BY <1>4, <1>6 DEF NULL
  <2>1. CASE p = q
    BY <2>1, <1>4, <1>14
  <2>2. CASE p # q
    <3>1. m.queue[p] = n.queue[p]
      BY <2>2, <1>4, <1>15
    <3>2. n.queue[p].deleted <=> p < q
      BY <1>4, <1>5 DEF NULL
    <3> QED BY <2>2, <3>1, <3>2, <1>4
  <2> QED BY <2>1, <2>2
<1>17. m.queue[1].deleted <=> m.end["sock"].state = "deleted"
    BY <1>2, <1>4, <1>5, <1>10, <1>15
<1>18. m.queue[last].deleted <=> m.end["sess"].state = "deleted"
  <2>1. last # q /\ last \in DOMAIN n.queue
    BY <1>4, <1>5, <1>6
  <2> QED BY <2>1, <1>2, <1>5, <1>9, <1>15
<1>19. QueueInv(m)
  <2>1. a # 1
    BY <1>4, <1>6
  <2>2. HiccupsOK(m.mail["sock"], a, last)
    BY <1>2, <1>6, <1>9
  <2> QED BY <2>1, <2>2, <1>2, <1>5, <1>9, <1>10, <1>11, <1>12, <1>13, <1>16, <1>17, <1>18 DEF QueueInv
<1>20. \A x \in End : m.end[x].state = n.end[x].state
    BY <1>2, <1>9, <1>10 DEF End
<1> QED BY <1>2, <1>7, <1>8, <1>9, <1>19, <1>20 DEF m, M, a, r

\* pipe_t::hiccup makes a queue and names it.
LEMMA HiccupQueue ==
    ASSUME NEW n, PairInv(n), QueueInv(n)
    PROVE  QueueInv(Hiccup(n, "sess"))
<1> DEFINE m == Hiccup(n, "sess")
           M == n.mail["sock"]
           out == n.end["sock"].out
           last == Len(n.queue)
<1>1. n \in NetType /\ RefInv(n) /\ "sock" \in End /\ Peer("sess") = "sock" /\ "sess" \in End
    BY DEF PairInv, End, Peer
<1>2. CASE n.end["sess"].state # "active"
    BY <1>2 DEF Hiccup
<1>3. CASE n.end["sess"].state = "active"
  <2>20. m.mail[Peer("sess")] = Append(n.mail[Peer("sess")], <<"hiccup", Len(n.queue) + 1>>)
    BY <1>1, <1>3, HiccupEffect
  <2>1. m.mail["sock"] = Append(M, <<"hiccup", last + 1>>)
    BY <1>1, <2>20
  <2>2. m.queue = Append(n.queue, NewQueue)
    BY <1>1, <1>3, HiccupEffect
  <2>21. m.end[Peer("sess")] = n.end[Peer("sess")]
    BY <1>1, <1>3, HiccupEffect
  <2>22. m.end["sess"].state = "active" /\ m.end["sess"].out = n.end["sess"].out
    BY <1>1, <1>3, HiccupEffect
  <2>23. m.end["sess"].in = Len(n.queue) + 1
    BY <1>1, <1>3, HiccupEffect
  <2>3. m.end["sock"] = n.end["sock"] /\ m.end["sess"].state = "active"
        /\ m.end["sess"].in = last + 1 /\ m.end["sess"].out = n.end["sess"].out
    BY <1>1, <2>21, <2>22, <2>23
  <2> HIDE DEF m
  <2>4. /\ last \in Nat /\ Len(m.queue) = last + 1 /\ m.queue[last + 1] = NewQueue
        /\ \A p \in 1 .. last : m.queue[p] = n.queue[p]
    <3>1. n.queue \in Seq(QueueType)
      BY <1>1, NetFields
    <3> QED BY <2>2, <3>1
  <2>5. out \in Nat /\ M \in Seq(Cmd) /\ DOMAIN n.queue = 1 .. last
    BY <1>1, SockFields, QueueLen
  <2>6. out # NULL /\ out <= last /\ n.end["sock"].state # "none"
    <3>1. EndOK("sess", "active", n.end["sock"].state, n.end["sess"].out, n.mail["sock"])
      BY <1>1, <1>3 DEF PairInv, EndInv
    <3>2. EndInv(n, "sock")
      BY DEF PairInv
    <3>3. n.end["sock"].state \in Unasked
      BY <3>1 DEF EndOK, Compatible
    <3>4. out # NULL
      BY <3>2, <3>3 DEF EndInv, EndOK, Unasked, Silent
    <3>5. out \in DOMAIN n.queue
      BY <1>1, <3>4 DEF RefInv
    <3> QED BY <2>4, <2>5, <3>3, <3>4, <3>5 DEF Unasked
  <2>7. /\ last >= 2 /\ n.end["sock"].in = 1 /\ n.end["sess"].in = last
        /\ n.end["sess"].out \in {NULL, 1} /\ out # 1
        /\ n.queue[1].deleted <=> n.end["sock"].state = "deleted"
        /\ n.queue[last].deleted <=> n.end["sess"].state = "deleted"
        /\ \A p \in 2 .. last - 1 : n.queue[p].deleted <=> out = NULL \/ p < out
        /\ HiccupsOK(M, out, last)
    BY DEF QueueInv
  <2> HIDE DEF out, last, M
  <2>8. HiccupsOK(m.mail["sock"], out, last + 1)
    BY <2>1, <2>4, <2>5, <2>6, <2>7, HiccupSent
  <2>9. ~NewQueue.deleted
    BY DEF NewQueue
  <2>10. \A p \in 2 .. (last + 1) - 1 : m.queue[p].deleted <=> out = NULL \/ p < out
    <3> SUFFICES ASSUME NEW p \in 2 .. last PROVE m.queue[p].deleted <=> p < out
      BY <2>4, <2>6
    <3>1. m.queue[p] = n.queue[p]
      BY <2>4
    <3>2. CASE p = last
      BY <1>3, <3>1, <3>2, <2>4, <2>5, <2>6, <2>7
    <3>3. CASE p # last
      <4>1. p \in 2 .. last - 1
        BY <3>3, <2>4
      <4>2. n.queue[p].deleted <=> out = NULL \/ p < out
        BY <4>1, <2>7
      <4> QED BY <4>2, <3>1, <2>6
    <3> QED BY <3>2, <3>3
  <2>11. /\ m.queue[1].deleted <=> m.end["sock"].state = "deleted"
         /\ m.queue[last + 1].deleted <=> m.end["sess"].state = "deleted"
    BY <2>3, <2>4, <2>7, <2>9
  <2>12. last + 1 >= 2
    BY <2>4, <2>7
  <2> QED BY <2>3, <2>4, <2>6, <2>7, <2>8, <2>10, <2>11, <2>12 DEF QueueInv, m, out
<1> QED BY <1>2, <1>3

\* process_pipe_term_ack frees the queue the end reads: no one points to it then.
LEMMA EndedQueue ==
    ASSUME NEW n, NEW e \in End, Ending(n, e), QueueInv(n)
    PROVE  QueueInv(Deallocate(n, e))
<1> DEFINE m == Deallocate(n, e)
           M == n.mail["sock"]
           N == m.mail["sock"]
           out == n.end["sock"].out
           last == Len(n.queue)
<1>1. n \in NetType /\ RefInv(n) /\ "sock" \in End /\ "sess" \in End
      /\ Peer("sess") = "sock" /\ Peer("sock") = "sess"
    BY DEF Ending, End, Peer
<1>2. PairInv(m) /\ m.mail[e] = n.mail[e] /\ m.end[Peer(e)] = n.end[Peer(e)]
    BY Ended
<1>3. m.end[e].state = "deleted" /\ m.end[e].in = n.end[e].in /\ m.end[e].out = NULL
    BY Ended
<1>4. Grown(n.mail[Peer(e)], m.mail[Peer(e)]) /\ DOMAIN m.queue = DOMAIN n.queue
    BY Ended
<1>5. m.queue[n.end[e].in].deleted /\ \A p \in DOMAIN n.queue : p # n.end[e].in => m.queue[p] = n.queue[p]
    BY Ended
<1> HIDE DEF m
<1>6. m \in NetType
    BY <1>2 DEF PairInv
<1>7. Len(m.queue) = last /\ last \in Nat /\ DOMAIN n.queue = 1 .. last
    BY <1>1, <1>4, <1>6, QueueLen
<1>8. out \in Nat /\ M \in Seq(Cmd) /\ N \in Seq(Cmd)
    BY <1>1, <1>6, SockFields
<1>9. /\ last >= 2 /\ n.end["sock"].in = 1 /\ n.end["sess"].in = last
      /\ n.end["sock"].state = "none" => last = 2
      /\ n.end["sess"].out \in {NULL, 1} /\ out # 1
      /\ n.queue[1].deleted <=> n.end["sock"].state = "deleted"
      /\ n.queue[last].deleted <=> n.end["sess"].state = "deleted"
      /\ \A p \in 2 .. last - 1 : n.queue[p].deleted <=> out = NULL \/ p < out
      /\ HiccupsOK(M, out, last)
    BY DEF QueueInv
<1>10. "hiccup" \notin Types(n.mail[e])
    BY DEF Ending, PipeTypes
<1>11. CASE e = "sock"
  <2>1. N = M /\ "hiccup" \notin Types(M) /\ m.end["sess"] = n.end["sess"]
        /\ m.end["sock"].state = "deleted" /\ m.end["sock"].in = 1 /\ m.end["sock"].out = NULL
        /\ m.queue[1].deleted /\ \A p \in 2 .. last : m.queue[p] = n.queue[p]
    BY <1>1, <1>2, <1>3, <1>5, <1>7, <1>9, <1>10, <1>11
  <2> HIDE DEF out, last, M, N
  <2>2. HiccupsOK(N, NULL, last) /\ (out # NULL => last <= out)
    BY <2>1, <1>7, <1>8, <1>9, NoHiccups
  <2>3. \A p \in 2 .. last - 1 : m.queue[p].deleted
    <3> SUFFICES ASSUME NEW p \in 2 .. last - 1 PROVE m.queue[p].deleted
      OBVIOUS
    <3>1. m.queue[p] = n.queue[p] /\ (out = NULL \/ p < out)
      BY <1>7, <1>8, <2>1, <2>2
    <3> QED BY <3>1, <1>9
  <2>4. m.queue[last].deleted <=> m.end["sess"].state = "deleted"
    BY <2>1, <1>7, <1>9
  <2> QED BY <2>1, <2>2, <2>3, <2>4, <1>7, <1>9 DEF QueueInv, m, N, NULL
<1>12. CASE e = "sess"
  <2>1. Grown(M, N) /\ m.end["sock"] = n.end["sock"]
        /\ m.end["sess"].state = "deleted" /\ m.end["sess"].in = last /\ m.end["sess"].out = NULL
        /\ m.queue[last].deleted /\ \A p \in 1 .. last - 1 : m.queue[p] = n.queue[p]
    BY <1>1, <1>2, <1>3, <1>4, <1>5, <1>7, <1>9, <1>12
  <2> HIDE DEF out, last, M, N
  <2>2. HiccupsOK(N, out, last)
    BY <2>1, <1>7, <1>8, <1>9, HiccupsGrown
  <2>3. \A p \in 2 .. last - 1 : m.queue[p].deleted <=> out = NULL \/ p < out
    BY <1>7, <1>9, <2>1
  <2>4. m.queue[1].deleted <=> m.end["sock"].state = "deleted"
    BY <2>1, <1>7, <1>9
  <2> QED BY <2>1, <2>2, <2>3, <2>4, <1>7, <1>9 DEF QueueInv, m, N, out
<1> QED BY <1>11, <1>12 DEF End

\* A new pipe has two queues.
LEMMA AcceptedQueue ==
    ASSUME NEW n, PairInv(n), QueueInv(n), n.end["sock"].state = "none"
    PROVE  QueueInv(Accepted(n))
<1> DEFINE m == Accepted(n)
           M == n.mail["sock"]
<1>1. n \in NetType /\ "sock" \in End /\ "sess" \in End /\ EndInv(n, "sock")
      /\ Peer("sock") = "sess"
    BY DEF PairInv, End, Peer
<1>2. Len(n.queue) = 2 /\ ~n.queue[1].deleted /\ ~n.queue[2].deleted
  <2>1. n.end["sess"].state = "none"
    BY <1>1 DEF EndInv, EndOK, Compatible
  <2> QED BY <2>1 DEF QueueInv
<1>3. /\ m.mail = n.mail /\ m.queue = n.queue
      /\ \A e \in End : m.end[e] = NewEnd(e, "active")
      /\ \A e \in End : Types(n.mail[e]) \cap PipeTypes = {}
    BY <1>2, AcceptedPair
<1> HIDE DEF m
<1>6. m.end["sock"] = NewEnd("sock", "active") /\ m.end["sess"] = NewEnd("sess", "active")
    BY <1>1, <1>3
<1>4. /\ m.end["sock"].state = "active" /\ m.end["sess"].state = "active"
      /\ m.end["sock"].in = 1 /\ m.end["sock"].out = 2
      /\ m.end["sess"].in = 2 /\ m.end["sess"].out = 1
    BY <1>6 DEF NewEnd
<1>5. HiccupsOK(M, 2, 2)
  <2>1. "hiccup" \notin Types(M) /\ M \in Seq(Cmd)
    BY <1>1, <1>3, SockFields DEF PipeTypes
  <2> QED BY <2>1, NoHiccups
<1>7. /\ m.queue[1].deleted <=> m.end["sock"].state = "deleted"
      /\ m.queue[2].deleted <=> m.end["sess"].state = "deleted"
    BY <1>2, <1>3, <1>4
<1>8. Len(m.queue) = 2 /\ m.mail["sock"] = M
    BY <1>2, <1>3
<1>9. \A q \in 2 .. 2 - 1 : m.queue[q].deleted <=> 2 = NULL \/ q < 2
    OBVIOUS
<1>10. QueueInv(m)
    BY <1>4, <1>5, <1>7, <1>8, <1>9 DEF QueueInv, NULL
<1> QED BY <1>10 DEF m

------------------------------------------------------------------------------
(* The actions of the user, of the engine and of the pipe keep the invariant *)

\* The layers about the net.
Both(n) == PairInv(n) /\ QueueInv(n)

\* A method of one end, for the actions.
LEMMA StepBoth ==
    ASSUME NEW n, Both(n), NEW e \in End, NEW m, Step(n, m, e)
    PROVE  Both(m) /\ Alike(n, m) /\ m.end[Peer(e)].state = n.end[Peer(e)].state
<1>1. n \in NetType /\ m \in NetType
    BY DEF Both, Step, PairInv
<1>2. QueueInv(n) /\ Shape(n, m, e) /\ m.mail[e] = n.mail[e]
    BY DEF Both, Step, Keeps
<1>3. Alike(n, m)
    BY KeepsAlike DEF Step
<1>4. QueueInv(m)
    BY <1>1, <1>2, <1>3, ShapeQueue
<1> QED BY <1>3, <1>4 DEF Both, Step, Keeps

\* Two methods of one end.
LEMMA StepsBoth ==
    ASSUME NEW n, Both(n), NEW e \in End, NEW k, NEW m, Step(n, k, e), Step(k, m, e)
    PROVE  Both(m) /\ Alike(n, m) /\ m.end[Peer(e)].state = n.end[Peer(e)].state
<1>1. n \in NetType
    BY DEF Both, PairInv
<1>2. Step(n, m, e)
    BY <1>1, StepTransitive
<1> QED BY <1>2, StepBoth

\* The command at the head is taken, and said no more.
Heard(n, m, x, type) ==
    /\ m.end = n.end /\ m.queue = n.queue /\ m.sent = n.sent /\ m.got = n.got
    /\ m.mail[x] = Tail(n.mail[x])
    /\ m.mail[Peer(x)] = n.mail[Peer(x)]
    /\ Types(n.mail[x]) = Types(m.mail[x]) \cup {type}
    /\ \A t \in Types(m.mail[x]) : Before(type, t)
    /\ type \in OwnTypes => type \notin Types(m.mail[x])

\* A command that was not there is sent.
Told(n, m, x, type) ==
    /\ m.end = n.end /\ m.queue = n.queue
    /\ m.mail[Peer(x)] = n.mail[Peer(x)]
    /\ Types(m.mail[x]) = Types(n.mail[x]) \cup {type}

\* What taking a command leaves.
LEMMA RestHeard ==
    ASSUME NEW n, Both(n), NEW x \in End, n.mail[x] # <<>>,
           NEW type, Head(n.mail[x])[1] = type
    PROVE  /\ Heard(n, [n EXCEPT !.mail[x] = Tail(@)], x, type)
           /\ [n EXCEPT !.mail[x] = Tail(@)] \in NetType
           /\ type \in PipeTypes => Alike(n, [n EXCEPT !.mail[x] = Tail(@)])
<1> DEFINE m == [n EXCEPT !.mail[x] = Tail(@)]
           M == n.mail[x]
<1>1. n \in NetType /\ EndInv(n, Peer(x)) /\ Peer(Peer(x)) = x
    BY EndFacts DEF Both
<1>2. /\ m \in NetType
      /\ m.end = n.end /\ m.queue = n.queue /\ m.sent = n.sent /\ m.got = n.got
      /\ m.mail[x] = Tail(M) /\ m.mail[Peer(x)] = n.mail[Peer(x)]
    BY <1>1, TakenEffect
<1>3. M \in Seq(Cmd) /\ Ordered(M)
    BY <1>1, NetFields DEF EndInv, EndOK
<1> HIDE DEF m, M
<1>4. /\ Head(M) \in Cmd /\ Types(M) = Types(Tail(M)) \cup {Head(M)[1]}
      /\ \A t \in Types(Tail(M)) : Before(Head(M)[1], t)
    BY <1>3, Taken DEF M
<1>5. Heard(n, m, x, type)
    <2>1. Types(M) = Types(Tail(M)) \cup {type} /\ \A t \in Types(Tail(M)) : Before(type, t)
      BY <1>4 DEF M
    <2>2. type \in OwnTypes => type \notin Types(Tail(M))
      BY <2>1 DEF Before, OwnTypes
    <2> QED BY <2>1, <2>2, <1>2 DEF Heard, M
<1>6. ASSUME type \in PipeTypes PROVE Alike(n, m)
  <2>1. Types(m.mail[x]) \cap OwnTypes = Types(n.mail[x]) \cap OwnTypes
    BY <1>5, <1>6 DEF Heard, PipeTypes, OwnTypes
  <2>2. m.end = n.end /\ Types(m.mail[Peer(x)]) \cap OwnTypes = Types(n.mail[Peer(x)]) \cap OwnTypes
    BY <1>5 DEF Heard
  <2>3. \A y \in End : y = x \/ y = Peer(x)
    BY Ends
  <2> QED BY <2>1, <2>2, <2>3 DEF Alike, Has
<1> QED BY <1>2, <1>5, <1>6 DEF m

\* Taking a command that changes no state keeps the layers about the net.
LEMMA RestBoth ==
    ASSUME NEW n, Both(n), NEW x \in End, n.mail[x] # <<>>,
           Head(n.mail[x])[1] \notin {"pipe_term", "pipe_term_ack", "hiccup"}
    PROVE  Both([n EXCEPT !.mail[x] = Tail(@)])
<1> DEFINE m == [n EXCEPT !.mail[x] = Tail(@)]
<1>1. n \in NetType /\ QueueInv(n)
    BY DEF Both, PairInv
<1>2. PairInv(m)
    BY TakenPair DEF Both
<1>3. /\ m \in NetType /\ m.end = n.end /\ m.queue = n.queue
      /\ m.mail[x] = Tail(n.mail[x]) /\ m.mail[Peer(x)] = n.mail[Peer(x)]
    BY <1>1, TakenEffect
<1> HIDE DEF m
<1>4. QueueInv(m)
    BY <1>1, <1>3, TakenQueue
<1> QED BY <1>2, <1>4 DEF Both, m

\* So does sending one between the owners.
LEMMA SendBoth ==
    ASSUME NEW n, Both(n), NEW x \in End, NEW type \in OwnTypes, type \notin Types(n.mail[x]),
           type = "bind" => Types(n.mail[x]) \cap PipeTypes = {},
           type = "term_req" => "child_ack" \notin Types(n.mail[x])
    PROVE  Both(Send(n, x, type, 0)) /\ Told(n, Send(n, x, type, 0), x, type)
<1> DEFINE m == Send(n, x, type, 0)
<1>1. n \in NetType /\ PairInv(n) /\ QueueInv(n)
    BY DEF Both, PairInv
<1>2. /\ PairInv(m)
      /\ m.end = n.end /\ m.queue = n.queue /\ m.mail[Peer(x)] = n.mail[Peer(x)]
      /\ Types(m.mail[x]) = Types(n.mail[x]) \cup {type}
      /\ Grown(n.mail[x], m.mail[x])
    BY <1>1, SendOwnPair
<1> HIDE DEF m
<1>3. m \in NetType
    BY <1>2 DEF PairInv
<1>4. QueueInv(m)
    BY <1>1, <1>2, <1>3, MailQueue
<1> QED BY <1>2, <1>4 DEF Both, Told, m

\* Nothing changes but the pipe, and what the engine and the user remember.
LEMMA PipeOnly ==
    ASSUME IInv, Both(net'), Alike(net, net'),
           attached \/ net'.end["sock"].state = net.end["sock"].state,
           UNCHANGED <<kind, attached, closed, termAcks, seqnum, conns, pending, session, owner, listener>>,
           engine' \in BOOLEAN, engine' => engine,
           sending' \in {"no", "written", "dropped"}, <<half, midway, given>>' \in BOOLEAN \X BOOLEAN \X BOOLEAN
    PROVE  IInv'
<1>1. /\ Has(net', "sock") <=> Has(net, "sock")
      /\ Has(net', "sess") <=> Has(net, "sess")
      /\ net'.end["sock"].state = "none" <=> net.end["sock"].state = "none"
    BY DEF Alike, End
<1>2. \A t \in OwnTypes : /\ t \in SockMail' <=> t \in SockMail
                          /\ t \in SessMail' <=> t \in SessMail
    BY DEF Alike, End, SockMail, SessMail
<1>3. /\ "own" \in SockMail' <=> "own" \in SockMail
      /\ "bind" \in SockMail' <=> "bind" \in SockMail
      /\ "term" \in SockMail' <=> "term" \in SockMail
      /\ "term_ack" \in SockMail' <=> "term_ack" \in SockMail
      /\ "term_listener" \in SockMail' <=> "term_listener" \in SockMail
      /\ "term_req" \in SockMail' <=> "term_req" \in SockMail
      /\ "child_ack" \in SockMail' <=> "child_ack" \in SockMail
    BY <1>2 DEF OwnTypes
<1>4. /\ "own" \in SessMail' <=> "own" \in SessMail
      /\ "bind" \in SessMail' <=> "bind" \in SessMail
      /\ "term" \in SessMail' <=> "term" \in SessMail
      /\ "term_ack" \in SessMail' <=> "term_ack" \in SessMail
      /\ "term_listener" \in SessMail' <=> "term_listener" \in SessMail
      /\ "term_req" \in SessMail' <=> "term_req" \in SessMail
      /\ "child_ack" \in SessMail' <=> "child_ack" \in SessMail
    BY <1>2 DEF OwnTypes
<1>5. Connects' <=> Connects
    BY DEF Connects
<1>6. SessionInv'
    BY <1>1, <1>4, <1>5 DEF IInv, SessionInv
<1>7. SocketInv'
  <2>1. PipeDue' <=> PipeDue
    BY <1>1 DEF PipeDue
  <2>2. ChildDue' <=> ChildDue
    BY <1>3, <1>5 DEF ChildDue
  <2> QED BY <2>1, <2>2, <1>1, <1>3, <1>5 DEF IInv, SocketInv, State, OneIf
<1>8. TypeOK'
  <2>1. net'.end \in [End -> EndType]
    BY NetFields DEF Both, PairInv
  <2> QED BY <2>1 DEF IInv, TypeOK, wire
<1> QED BY <1>6, <1>7, <1>8 DEF IInv, Both

\* What the invariant says of the net.
LEMMA InvFacts ==
    ASSUME IInv
    PROVE  /\ Both(net) /\ net \in NetType /\ PairInv(net) /\ QueueInv(net)
           /\ "sock" \in End /\ "sess" \in End /\ Peer("sock") = "sess" /\ Peer("sess") = "sock"
BY DEF IInv, Both, PairInv, End, Peer

\* What it says of the other variables' ranges.
LEMMA TypeFacts ==
    ASSUME IInv
    PROVE  /\ engine \in BOOLEAN /\ half \in BOOLEAN /\ midway \in BOOLEAN /\ given \in BOOLEAN
           /\ wire \in BOOLEAN \X BOOLEAN \X BOOLEAN
           /\ sending \in {"no", "written", "dropped"} /\ pending \in BOOLEAN
           /\ closed \in BOOLEAN /\ attached \in BOOLEAN
           /\ owner \in {"launched", "owned", "asked", "freed"} /\ session \in {"alive", "deleted"}
BY DEF IInv, TypeOK, wire

\* The socket calls its end of the pipe.
LEMMA SocketStep ==
    ASSUME IInv, attached, Step(net, net', "sock"),
           UNCHANGED <<kind, attached, closed, termAcks, seqnum, sessVars, ownVars>>,
           sending' \in {"no", "written", "dropped"}
    PROVE  IInv'
<1>1. Both(net') /\ Alike(net, net')
    BY InvFacts, StepBoth
<1>2. <<half, midway, given>>' = wire /\ engine' = engine /\ conns' = conns /\ pending' = pending
      /\ session' = session /\ owner' = owner /\ listener' = listener
    BY DEF sessVars, ownVars, wire
<1> QED BY <1>1, <1>2, PipeOnly, TypeFacts

\* The socket's call finds nothing to do.
LEMMA SocketStays ==
    ASSUME IInv, attached, net' = net,
           UNCHANGED <<kind, attached, closed, termAcks, seqnum, sessVars, ownVars>>,
           sending' \in {"no", "written", "dropped"}
    PROVE  IInv'
<1>1. Step(net, net', "sock")
    BY InvFacts, StepReflexive
<1> QED BY <1>1, SocketStep

\* SendWhole keeps the invariant.
LEMMA SendWholeInv ==
    ASSUME IInv, SendWhole
    PROVE  IInv'
<1>1. Step(net, Write(net, "sock", First(net, "sock")), "sock")
    BY InvFacts, MessageFrames, WriteStep
<1> QED BY <1>1, SocketStep, TypeFacts DEF SendWhole, Usable, sockVars

\* The first frame of a message.
LEMMA WriteFirstInv ==
    ASSUME IInv, attached, NEW n, Step(net, n, "sock"), WriteFirst(n),
           UNCHANGED <<kind, attached, closed, termAcks, seqnum, sessVars, ownVars>>
    PROVE  IInv'
<1>1. net \in NetType /\ PairInv(n) /\ n \in NetType /\ "sock" \in End
    BY InvFacts DEF Step, PairInv
<1>2. Step(n, Write(n, "sock", First(n, "sock")), "sock")
    BY <1>1, MessageFrames, WriteStep
<1>3. Step(net, Write(n, "sock", First(n, "sock")), "sock")
    BY <1>1, <1>2, StepTransitive
<1> QED BY <1>3, SocketStep DEF WriteFirst

\* SendFirst keeps the invariant.
LEMMA SendFirstInv ==
    ASSUME IInv, SendFirst
    PROVE  IInv'
<1>1. Step(net, net, "sock")
    BY InvFacts, StepReflexive
<1> QED BY <1>1, WriteFirstInv DEF SendFirst, Usable

\* SendLast keeps the invariant.
LEMMA SendLastInv ==
    ASSUME IInv, SendLast
    PROVE  IInv'
<1>1. Step(net, Write(net, "sock", Final(net, "sock")), "sock")
    BY InvFacts, MessageFrames, WriteStep
<1>2. Step(net, Rollback(net, "sock"), "sock")
    BY InvFacts, RollbackStep
<1>3. Step(net, net, "sock")
    BY InvFacts, StepReflexive
<1>4. Step(net, net', "sock")
    BY <1>1, <1>2, <1>3 DEF SendLast
<1> QED BY <1>4, SocketStep DEF SendLast, Usable

\* Receive keeps the invariant.
LEMMA ReceiveInv ==
    ASSUME IInv, Receive
    PROVE  IInv'
<1>1. Step(net, Read(net, "sock"), "sock") /\ Step(net, ReadMessage(net, "sock"), "sock")
    BY InvFacts, ReadStep, ReadMessageStep
<1> QED BY <1>1, SocketStep, TypeFacts DEF Receive, Usable, sockVars

\* ReceiveRequest keeps the invariant.
LEMMA ReceiveRequestInv ==
    ASSUME IInv, ReceiveRequest
    PROVE  IInv'
<1> DEFINE n == ReadMessage(net, "sock")
<1>1. Step(net, n, "sock")
    BY InvFacts, ReadMessageStep
<1>2. /\ attached
      /\ UNCHANGED <<kind, attached, closed, termAcks, seqnum, sessVars, ownVars>>
      /\ IF n.got = net.got THEN net' = n /\ UNCHANGED sending ELSE WriteFirst(n)
    BY DEF ReceiveRequest, Usable
<1> HIDE DEF n
<1>3. CASE n.got = net.got
    BY <1>1, <1>2, <1>3, SocketStep, TypeFacts
<1>4. CASE n.got # net.got
    BY <1>1, <1>2, <1>4, WriteFirstInv
<1> QED BY <1>3, <1>4

\* The session calls its end of the pipe.
LEMMA SessionStep ==
    ASSUME IInv, Step(net, net', "sess"),
           UNCHANGED <<kind, sockVars, conns, pending, session, ownVars>>,
           engine' \in BOOLEAN, engine' => engine,
           half' \in BOOLEAN, midway' \in BOOLEAN, given' \in BOOLEAN
    PROVE  IInv'
<1>1. Both(net') /\ Alike(net, net') /\ net'.end["sock"].state = net.end["sock"].state
    BY InvFacts, StepBoth
<1>2. UNCHANGED <<kind, attached, closed, termAcks, seqnum, conns, pending, session, owner, listener>>
      /\ sending' = sending /\ <<half, midway, given>>' \in BOOLEAN \X BOOLEAN \X BOOLEAN
    BY DEF sockVars, ownVars
<1> QED BY <1>1, <1>2, PipeOnly, TypeFacts

\* Push keeps the invariant.
LEMMA PushInv ==
    ASSUME IInv, Push
    PROVE  IInv'
<1> DEFINE frame == IF midway THEN Final(net, "sess") ELSE First(net, "sess")
<1>1. frame \in Frame
    BY InvFacts, MessageFrames
<1>2. /\ net' = Write(net, "sess", frame)
      /\ midway' = (IF CanWrite(net, "sess") THEN More(frame) ELSE midway)
      /\ UNCHANGED <<kind, sockVars, engine, conns, half, given, pending, session, ownVars>>
    BY DEF Push
<1> HIDE DEF frame
<1>3. Step(net, net', "sess")
    BY <1>1, <1>2, InvFacts, WriteStep
<1>4. More(frame) \in BOOLEAN
    BY <1>1 DEF More, Frame
<1> QED BY <1>2, <1>3, <1>4, SessionStep, TypeFacts

\* What a read returns is in got.
LEMMA ReadGot ==
    ASSUME NEW n, PairInv(n), NEW e \in End, Read(n, e).got # n.got
    PROVE  Read(n, e).got[e] # <<>>
<1>1. n \in NetType /\ RefInv(n)
    BY DEF PairInv
<1>2. n.end[e].in \in DOMAIN n.queue
    BY <1>1 DEF RefInv
<1>3. CanRead(n, e)
    BY DEF Read
<1>4. CASE n.queue[n.end[e].in].ready = <<>>
  <2>1. Read(n, e) = Sleep(n, e)
    BY <1>3, <1>4 DEF Read, InQueue
  <2>2. Sleep(n, e).got = n.got
    BY DEF Sleep
  <2> QED BY <2>1, <2>2
<1>5. CASE n.queue[n.end[e].in].ready # <<>> /\ Head(n.queue[n.end[e].in].ready) = DELIMITER
  <2>1. Read(n, e) = ProcessDelimiter(Pop(n, e), e)
    BY <1>3, <1>5 DEF Read, InQueue
  <2>2. Pop(n, e).got = n.got
    BY <1>1, <1>2, <1>5, PopEffect
  <2>3. ProcessDelimiter(Pop(n, e), e).got = Pop(n, e).got
    BY DEF ProcessDelimiter, Goto, Acknowledge, Rollback, Send
  <2> QED BY <2>1, <2>2, <2>3
<1>6. CASE n.queue[n.end[e].in].ready # <<>> /\ Head(n.queue[n.end[e].in].ready) # DELIMITER
  <2>1. Read(n, e) = Take(n, e)
    BY <1>3, <1>6 DEF Read, InQueue
  <2>2. Take(n, e).got[e] = Append(n.got[e], Head(n.queue[n.end[e].in].ready))
    BY <1>1, <1>2, <1>6, TakeEffect
  <2>3. n.got[e] \in Seq(Frame)
    BY <1>1, NetFields
  <2> QED BY <2>1, <2>2, <2>3
<1> QED BY <1>4, <1>5, <1>6

\* What a read returns is in got.
LEMMA ReadMessageGot ==
    ASSUME NEW n, PairInv(n), NEW e \in End, ReadMessage(n, e).got # n.got
    PROVE  ReadMessage(n, e).got[e] # <<>>
<1>1. PairInv(Read(n, e))
    BY ReadStep DEF Step
<1>2. ReadMessage(n, e) = Read(n, e) \/ ReadMessage(n, e) = Read(Read(n, e), e)
    BY DEF ReadMessage
<1> QED BY <1>1, <1>2, ReadGot

\* Pull keeps the invariant.
LEMMA PullInv ==
    ASSUME IInv, Pull
    PROVE  IInv'
<1> DEFINE n == IF kind = "PUB" THEN Read(net, "sess") ELSE ReadMessage(net, "sess")
<1>1. /\ net' = n
      /\ half' = (IF net'.got = net.got THEN half ELSE More(Last(net'.got["sess"])))
      /\ given' = (given \/ net'.got # net.got)
      /\ UNCHANGED <<kind, sockVars, engine, conns, midway, pending, session, ownVars>>
    BY DEF Pull
<1>2. Step(net, n, "sess")
    BY InvFacts, ReadStep, ReadMessageStep
<1>3. n.got # net.got => n.got["sess"] # <<>>
    BY InvFacts, ReadGot, ReadMessageGot
<1> HIDE DEF n
<1>4. n.got["sess"] \in Seq(Frame)
    BY <1>2, InvFacts, NetFields DEF Step, PairInv
<1>5. n.got # net.got => More(Last(n.got["sess"])) \in BOOLEAN
  <2>1. n.got # net.got => Last(n.got["sess"]) \in Frame
    BY <1>3, <1>4 DEF Last
  <2> QED BY <2>1 DEF More, Frame
<1>6. half' \in BOOLEAN /\ given' \in BOOLEAN
    BY <1>1, <1>5, TypeFacts
<1> QED BY <1>1, <1>2, <1>6, SessionStep, TypeFacts

\* An end is there or not, alike.
LEMMA AlikeSock ==
    ASSUME NEW n, NEW m, Alike(n, m)
    PROVE  Has(m, "sock") <=> Has(n, "sock")
BY DEF Alike, End

\* A command of the pipe finds it attached.
LEMMA PipeCommand ==
    ASSUME IInv, NEW x \in End, NEW type \in PipeTypes, Arrives(x, type)
    PROVE  /\ Heard(net, Rest(x), x, type) /\ Rest(x) \in NetType /\ Alike(net, Rest(x))
           /\ x = "sock" => attached
<1>1. Both(net) /\ net.mail[x] # <<>> /\ Head(net.mail[x])[1] = type
    BY InvFacts DEF Arrives, Command
<1>2. Heard(net, Rest(x), x, type) /\ Rest(x) \in NetType /\ Alike(net, Rest(x))
    BY <1>1, RestHeard DEF Rest
<1>3. ASSUME x = "sock", ~attached PROVE FALSE
  <2>1. type \in SockMail /\ (\A t \in Types(Rest(x).mail[x]) : Before(type, t))
        /\ SockMail = Types(Rest(x).mail[x]) \cup {type}
    BY <1>2, <1>3 DEF Heard, SockMail
  <2>2. "bind" \notin SockMail
    BY <2>1 DEF Before, PipeTypes
  <2>3. net.end["sock"].state = "none"
    BY <2>2, <1>3 DEF IInv, SocketInv, TypeOK
  <2>4. EndInv(net, "sess")
    BY InvFacts DEF PairInv
  <2>5. SockMail \cap PipeTypes = {}
    BY <2>3, <2>4, InvFacts DEF EndInv, EndOK, SockMail
  <2> QED BY <2>1, <2>5
<1> QED BY <1>2, <1>3

\* A command of the pipe that its owners do not see.
LEMMA CommandOnly ==
    ASSUME IInv, NEW x \in End, NEW type \in PipeTypes, Arrives(x, type),
           Both(net'), Alike(net, net'),
           x = "sess" => net'.end["sock"].state = net.end["sock"].state,
           UNCHANGED <<kind, sockVars, sessVars, ownVars>>
    PROVE  IInv'
<1>1. attached \/ x = "sess"
    BY PipeCommand DEF End
<1>2. UNCHANGED <<kind, attached, closed, termAcks, seqnum, conns, pending, session, owner, listener>>
      /\ sending' = sending /\ <<half, midway, given>>' = wire /\ engine' = engine
    BY DEF sockVars, sessVars, ownVars, wire
<1> QED BY <1>1, <1>2, PipeOnly, TypeFacts

\* process_activate_read.
LEMMA ActivatedStep ==
    ASSUME NEW n, PairInv(n), NEW e \in End
    PROVE  Step(n, Activated(n, e), e)
BY ReadAllStep, StepReflexive, CheckReadStep DEF Activated, End

\* The command is noise to the states of the ends.
LEMMA NoiseStep ==
    ASSUME IInv, NEW x \in End, NEW type \in Noise, Arrives(x, type),
           Step(Rest(x), net', x),
           UNCHANGED <<kind, sockVars, sessVars, ownVars>>
    PROVE  IInv'
<1>1. type \in PipeTypes
    BY DEF Noise, PipeTypes
<1>2. Heard(net, Rest(x), x, type) /\ Alike(net, Rest(x))
    BY <1>1, PipeCommand
<1>3. net.mail[x] # <<>> /\ Head(net.mail[x])[1] = type
    BY DEF Arrives, Command
<1>4. Both(Rest(x))
    BY <1>3, InvFacts, RestBoth DEF Rest, Noise
<1>5. Both(net') /\ Alike(Rest(x), net') /\ net'.end[Peer(x)].state = Rest(x).end[Peer(x)].state
    BY <1>4, StepBoth
<1>6. Alike(net, net')
    BY <1>2, <1>5, AlikeTransitive
<1>7. x = "sess" => net'.end["sock"].state = net.end["sock"].state
    BY <1>2, <1>5, InvFacts DEF Heard
<1> QED BY <1>1, <1>5, <1>6, <1>7, CommandOnly

\* Noise is taken.
LEMMA RestPair ==
    ASSUME IInv, NEW x \in End, NEW type \in Noise, Arrives(x, type)
    PROVE  PairInv(Rest(x)) /\ Rest(x) \in NetType
<1>1. net.mail[x] # <<>> /\ Head(net.mail[x])[1] = type
    BY DEF Arrives, Command
<1>2. Both(Rest(x))
    BY <1>1, InvFacts, RestBoth DEF Rest, Noise
<1> QED BY <1>2 DEF Both, PairInv

\* ActivateRead keeps the invariant.
LEMMA ActivateReadInv ==
    ASSUME IInv, NEW e \in End, ActivateRead(e)
    PROVE  IInv'
<1>1. Arrives(e, "activate_read") /\ "activate_read" \in Noise
    BY DEF ActivateRead, Noise
<1> DEFINE r == Rest(e)
           w == [r EXCEPT !.end[e].inActive = TRUE]
<1>2. PairInv(r) /\ r \in NetType
    BY <1>1, RestPair
<1>3. Step(r, r, e) /\ Step(r, w, e)
    BY <1>2, StepReflexive, WakeStep
<1>4. Step(w, Activated(w, e), e)
    BY <1>3, ActivatedStep DEF Step
<1>5. Step(r, Activated(w, e), e)
    BY <1>2, <1>3, <1>4, StepTransitive
<1>6. net' = r \/ net' = Activated(w, e)
    BY DEF ActivateRead
<1>7. Step(Rest(e), net', e)
    BY <1>3, <1>5, <1>6
<1> QED BY <1>1, <1>7, NoiseStep DEF ActivateRead

\* ActivateWrite keeps the invariant.
LEMMA ActivateWriteInv ==
    ASSUME IInv, NEW e \in End, ActivateWrite(e)
    PROVE  IInv'
<1>1. Arrives(e, "activate_write") /\ "activate_write" \in Noise
    BY DEF ActivateWrite, Noise
<1>2. PairInv(Rest(e))
    BY <1>1, RestPair
<1>3. Command(e)[2] \in Nat
  <2>1. net.mail[e] \in Seq(Cmd) /\ net.mail[e] # <<>>
    BY <1>1, InvFacts, NetFields DEF Arrives
  <2>2. Head(net.mail[e]) \in Cmd
    BY <2>1
  <2> QED BY <2>2 DEF Command, Cmd
<1>4. (State(e) = "active") \in BOOLEAN
    OBVIOUS
<1>5. net' = Credited(Rest(e), e, Command(e)[2], State(e) = "active")
    BY DEF ActivateWrite, Credited
<1>6. Step(Rest(e), net', e)
    BY <1>2, <1>3, <1>4, <1>5, CreditStep
<1> QED BY <1>1, <1>6, NoiseStep DEF ActivateWrite

\* PipeTerm keeps the invariant.
LEMMA PipeTermInv ==
    ASSUME IInv, NEW e \in End, PipeTerm(e)
    PROVE  IInv'
<1> DEFINE r == Rest(e)
           m == Answer(r, e)
<1>1. Arrives(e, "pipe_term") /\ "pipe_term" \in PipeTypes
    BY DEF PipeTerm, PipeTypes
<1>2. Heard(net, r, e, "pipe_term") /\ Alike(net, r) /\ r \in NetType
    BY <1>1, PipeCommand
<1>3. net.mail[e] # <<>> /\ Head(net.mail[e])[1] = "pipe_term"
    BY <1>1 DEF Arrives, Command
<1>4. r.end = net.end
    BY <1>2 DEF Heard
<1>5. net' = m
  <2>1. net' = (CASE net.end[e].state = "active" /\ net.end[e].delay -> Goto(r, e, "waiting_for_delimiter")
                  [] net.end[e].state = "term_req_sent1" -> Acknowledge(r, e, "term_req_sent2")
                  [] OTHER -> Acknowledge(r, e, "term_ack_sent"))
    BY DEF PipeTerm, State
  <2> HIDE DEF r
  <2> QED BY <2>1, <1>4 DEF Answer
<1>6. PairInv(m) /\ Left(net, m, e) /\ m.mail[e] = Tail(net.mail[e]) /\ Shape(r, m, e)
    BY <1>3, InvFacts, AnswerStep DEF Rest
<1> HIDE DEF m, r
<1>7. QueueInv(r)
    BY <1>2, <1>3, InvFacts, TakenQueue DEF Heard
<1>8. Alike(net, m)
  <2>1. Types(m.mail[e]) = Types(r.mail[e])
    BY <1>2, <1>6 DEF Heard
  <2>2. Types(m.mail[e]) \cap OwnTypes = Types(net.mail[e]) \cap OwnTypes
    BY <1>2, <2>1 DEF Alike
  <2> QED BY <1>6, <2>2, Ends DEF Left, Alike, Has
<1>9. Alike(r, m)
    BY <1>2, <1>8 DEF Alike
<1>10. m \in NetType /\ m.mail[e] = r.mail[e]
    BY <1>2, <1>6 DEF PairInv, Heard
<1>11. QueueInv(m)
    BY <1>2, <1>6, <1>7, <1>9, <1>10, ShapeQueue
<1>12. e = "sess" => m.end["sock"].state = net.end["sock"].state
    BY <1>6, InvFacts DEF Left
<1>13. Both(net') /\ Alike(net, net')
    BY <1>5, <1>6, <1>8, <1>11 DEF Both
<1> QED BY <1>1, <1>5, <1>12, <1>13, CommandOnly DEF PipeTerm

\* ProcessHiccup keeps the invariant.
LEMMA ProcessHiccupInv ==
    ASSUME IInv, ProcessHiccup
    PROVE  IInv'
<1> DEFINE r == Rest("sock")
           a == Command("sock")[2]
           n == Turned(r, a)
<1>1. Arrives("sock", "hiccup") /\ "hiccup" \in PipeTypes
    BY DEF ProcessHiccup, PipeTypes
<1>2. Heard(net, r, "sock", "hiccup") /\ Alike(net, r)
    BY <1>1, InvFacts, PipeCommand
<1>3. net.mail["sock"] # <<>> /\ Head(net.mail["sock"])[1] = "hiccup"
    BY <1>1 DEF Arrives, Command
<1>4. net.end["sock"].out # NULL
  <2>1. EndInv(net, "sess") /\ EndInv(net, "sock")
    BY InvFacts DEF PairInv
  <2>2. "hiccup" \in Types(net.mail["sock"])
    BY <1>2 DEF Heard
  <2>3. net.end["sock"].state \in Unasked
    BY <2>1, <2>2, InvFacts DEF EndInv, EndOK
  <2> QED BY <2>1, <2>3 DEF EndInv, EndOK, Unasked, Silent
<1>5. r = [net EXCEPT !.mail["sock"] = Tail(@)] /\ a = Head(net.mail["sock"])[2]
    BY DEF Rest, Command
<1>6. net' = (IF State("sock") = "active" /\ net.sent["sock"] # <<>>
              THEN Write(n, "sock", First(n, "sock")) ELSE n)
  <2>1. r.end = net.end /\ r.queue = net.queue
    BY <1>2 DEF Heard
  <2> DEFINE X == [Rest("sock") EXCEPT
                      !.queue[net.end["sock"].out] = [NewQueue EXCEPT !.deleted = TRUE],
                      !.end["sock"].written = @ - Count(net.queue[net.end["sock"].out].ready),
                      !.end["sock"].out = Command("sock")[2],
                      !.end["sock"].outActive = TRUE]
  <2>2. n = X
    BY <2>1 DEF Turned
  <2>3. net' = (IF State("sock") = "active" /\ net.sent["sock"] # <<>>
                THEN Write(X, "sock", First(X, "sock")) ELSE X)
    BY DEF ProcessHiccup
  <2> HIDE DEF n, r, a, X
  <2> QED BY <2>2, <2>3
<1>7. /\ PairInv(n) /\ QueueInv(n)
      /\ n.mail["sock"] = Tail(net.mail["sock"]) /\ n.mail["sess"] = net.mail["sess"]
      /\ \A x \in End : n.end[x].state = net.end[x].state
    BY <1>3, <1>4, InvFacts, TurnedQueue DEF Rest, Command
<1> HIDE DEF n, r, a
<1>8. Both(n) /\ n \in NetType
    BY <1>7 DEF Both, PairInv
<1>9. Alike(net, n)
  <2>1. Types(n.mail["sock"]) = Types(r.mail["sock"])
    BY <1>2, <1>7 DEF Heard
  <2>2. Types(n.mail["sock"]) \cap OwnTypes = Types(net.mail["sock"]) \cap OwnTypes
    BY <1>2, <2>1, InvFacts DEF Alike
  <2> QED BY <1>7, <2>2 DEF Alike, Has, End
<1>10. Step(n, Write(n, "sock", First(n, "sock")), "sock")
    BY <1>8, InvFacts, MessageFrames, WriteStep DEF Both
<1>11. Step(n, n, "sock")
    BY <1>8, InvFacts, StepReflexive DEF Both
<1>12. Step(n, net', "sock")
    BY <1>6, <1>10, <1>11
<1>13. Both(net') /\ Alike(n, net')
    BY <1>8, <1>12, InvFacts, StepBoth
<1>14. Alike(net, net')
    BY <1>9, <1>13, AlikeTransitive
<1> QED BY <1>1, <1>13, <1>14, InvFacts, CommandOnly DEF ProcessHiccup

------------------------------------------------------------------------------
(* The commands between socket, session and listener keep the invariant *)

\* Of the commands that are not the pipe's, one is gone and one has come.
Becomes(M, N, gone, come) ==
    \A t \in OwnTypes : t \in N <=> (t \in M /\ t # gone) \/ t = come

\* None is gone and none has come.
Same(M, N) == Becomes(M, N, "", "")

\* The same, one command at a time.
Spelled(M, N, gone, come) ==
    /\ "own" \in N <=> ("own" \in M /\ "own" # gone) \/ "own" = come
    /\ "bind" \in N <=> ("bind" \in M /\ "bind" # gone) \/ "bind" = come
    /\ "term" \in N <=> ("term" \in M /\ "term" # gone) \/ "term" = come
    /\ "term_ack" \in N <=> ("term_ack" \in M /\ "term_ack" # gone) \/ "term_ack" = come
    /\ "term_listener" \in N <=>
         ("term_listener" \in M /\ "term_listener" # gone) \/ "term_listener" = come
    /\ "term_req" \in N <=> ("term_req" \in M /\ "term_req" # gone) \/ "term_req" = come
    /\ "child_ack" \in N <=> ("child_ack" \in M /\ "child_ack" # gone) \/ "child_ack" = come

\* The two forms agree.
LEMMA Spelling ==
    ASSUME NEW M, NEW N, NEW gone, NEW come, Becomes(M, N, gone, come)
    PROVE  Spelled(M, N, gone, come)
BY DEF Becomes, OwnTypes, Spelled

\* Ends that are alike have the same commands of their owners.
LEMMA AlikeSame ==
    ASSUME NEW n, NEW m, Alike(n, m), NEW x \in End
    PROVE  Same(Types(n.mail[x]), Types(m.mail[x]))
<1>1. Types(m.mail[x]) \cap OwnTypes = Types(n.mail[x]) \cap OwnTypes
    BY DEF Alike
<1>2. \A t \in OwnTypes : t # ""
    BY DEF OwnTypes
<1> QED BY <1>1, <1>2 DEF Same, Becomes

\* A command is taken.
LEMMA HeardBecomes ==
    ASSUME NEW n, NEW m, NEW x \in End, NEW type \in OwnTypes, Heard(n, m, x, type)
    PROVE  /\ Becomes(Types(n.mail[x]), Types(m.mail[x]), type, "")
           /\ Same(Types(n.mail[Peer(x)]), Types(m.mail[Peer(x)]))
           /\ type \in Types(n.mail[x]) /\ m.end = n.end
<1>1. \A t \in OwnTypes : t # ""
    BY DEF OwnTypes
<1> QED BY <1>1 DEF Same, Becomes, Heard

\* A command is sent.
LEMMA ToldBecomes ==
    ASSUME NEW n, NEW m, NEW x \in End, NEW type \in OwnTypes, Told(n, m, x, type)
    PROVE  /\ Becomes(Types(n.mail[x]), Types(m.mail[x]), "", type)
           /\ Same(Types(n.mail[Peer(x)]), Types(m.mail[Peer(x)]))
           /\ m.end = n.end
<1>1. \A t \in OwnTypes : t # ""
    BY DEF OwnTypes
<1> QED BY <1>1 DEF Same, Becomes, Told

\* One change after another.
LEMMA BecomesThen ==
    ASSUME NEW M, NEW N, NEW P, NEW gone, NEW come, NEW come2,
           Becomes(M, N, gone, come), Becomes(N, P, "", come2), come = "" \/ come2 = ""
    PROVE  Becomes(M, P, gone, IF come = "" THEN come2 ELSE come)
<1>1. \A t \in OwnTypes : t # ""
    BY DEF OwnTypes
<1> QED BY <1>1 DEF Becomes

\* A change after none.
LEMMA SameThen ==
    ASSUME NEW M, NEW N, NEW P, NEW gone, NEW come, Same(M, N), Becomes(N, P, gone, come)
    PROVE  Becomes(M, P, gone, come)
<1>1. \A t \in OwnTypes : t # ""
    BY DEF OwnTypes
<1> QED BY <1>1 DEF Becomes, Same

\* The parts of the invariant.
LEMMA Assembled ==
    ASSUME Both(net'), SessionInv', SocketInv',
           attached' \in BOOLEAN, closed' \in BOOLEAN, sending' \in {"no", "written", "dropped"},
           engine' \in BOOLEAN, wire' \in BOOLEAN \X BOOLEAN \X BOOLEAN, pending' \in BOOLEAN,
           conns' \in 0 .. MaxConn, session' \in {"alive", "deleted"},
           owner' \in {"launched", "owned", "asked", "freed"}, listener' \in {"open", "closing"}
    PROVE  IInv'
<1>1. net'.end \in [End -> EndType]
    BY NetFields DEF Both, PairInv
<1>2. seqnum' \in 0 .. 1 /\ termAcks' \in 0 .. 2
    BY DEF SocketInv, OneIf
<1>3. TypeOK'
    BY <1>1, <1>2 DEF TypeOK, SocketInv
<1> QED BY <1>3 DEF IInv, Both

\* A command between the owners is taken: the rest, for the layers.
LEMMA OwnCommand ==
    ASSUME IInv, NEW x \in End, NEW type \in OwnTypes, Arrives(x, type)
    PROVE  /\ Both(Rest(x)) /\ Rest(x).end = net.end
           /\ Becomes(Types(net.mail[x]), Types(Rest(x).mail[x]), type, "")
           /\ Same(Types(net.mail[Peer(x)]), Types(Rest(x).mail[Peer(x)]))
           /\ type \in Types(net.mail[x])
           /\ Heard(net, Rest(x), x, type)
<1>1. Both(net) /\ net.mail[x] # <<>> /\ Head(net.mail[x])[1] = type
    BY InvFacts DEF Arrives, Command
<1>2. Heard(net, Rest(x), x, type)
    BY <1>1, RestHeard DEF Rest
<1>3. type \notin {"pipe_term", "pipe_term_ack", "hiccup"}
    BY DEF OwnTypes
<1>4. Both(Rest(x))
    BY <1>1, <1>3, RestBoth DEF Rest
<1> QED BY <1>2, <1>4, HeardBecomes

\* Whether a socket connects is decided by its kind.
LEMMA ConnectsSame ==
    ASSUME kind' = kind
    PROVE  Connects' <=> Connects
BY DEF Connects

\* Own keeps the invariant.
LEMMA OwnInv ==
    ASSUME IInv, Own
    PROVE  IInv'
<1> DEFINE r == Rest("sock")
           k == Send(r, "sess", "term", 0)
<1>1. Arrives("sock", "own") /\ "own" \in OwnTypes /\ "term" \in OwnTypes
    BY DEF Own, OwnTypes
<1>2. /\ Both(r) /\ r.end = net.end /\ "own" \in SockMail
      /\ Becomes(SockMail, Types(r.mail["sock"]), "own", "")
      /\ Same(SessMail, Types(r.mail["sess"]))
    BY <1>1, InvFacts, OwnCommand DEF SockMail, SessMail
<1>3. owner = "launched" /\ Connects /\ attached /\ ~pending /\ session = "alive"
    BY <1>2 DEF IInv, SessionInv, SocketInv
<1>4. "term" \notin SessMail /\ "child_ack" \notin SessMail
    BY <1>3 DEF IInv, SessionInv
<1>5. "term" \notin Types(r.mail["sess"])
    BY <1>1, <1>2, <1>4 DEF Same, Becomes
<1>6. /\ Both(k) /\ k.end = net.end
      /\ Becomes(SockMail, Types(k.mail["sock"]), "own", "")
      /\ Becomes(SessMail, Types(k.mail["sess"]), "", "term")
  <2>1. Both(k) /\ Told(r, k, "sess", "term")
    BY <1>1, <1>2, <1>5, InvFacts, SendBoth
  <2>2. Becomes(Types(r.mail["sess"]), Types(k.mail["sess"]), "", "term")
        /\ Same(Types(r.mail["sock"]), Types(k.mail["sock"])) /\ k.end = r.end
    BY <2>1, <1>1, InvFacts, ToldBecomes
  <2>3. Becomes(SockMail, Types(k.mail["sock"]), "own", "")
    BY <1>2, <2>2, BecomesThen DEF Same
  <2>4. Becomes(SessMail, Types(k.mail["sess"]), "", "term")
    BY <1>2, <2>2, SameThen
  <2> QED BY <1>2, <2>1, <2>2, <2>3, <2>4
<1>7. /\ seqnum' = seqnum - 1
      /\ net' = (IF closed THEN k ELSE r)
      /\ owner' = (IF closed THEN "asked" ELSE "owned")
      /\ termAcks' = (IF closed THEN termAcks + 1 ELSE termAcks)
      /\ UNCHANGED <<kind, attached, closed, sending, engine, conns, wire, pending, session, listener>>
    BY DEF Own, sessVars
<1> HIDE DEF r, k
<1>8. /\ Both(net') /\ net'.end = net.end
      /\ Becomes(SockMail, SockMail', "own", "")
      /\ Becomes(SessMail, SessMail', "", IF closed THEN "term" ELSE "")
    BY <1>2, <1>6, <1>7 DEF SockMail, SessMail, Same
<1>11. Spelled(SockMail, SockMail', "own", "")
    BY <1>8, Spelling
<1>12. Spelled(SessMail, SessMail', "", IF closed THEN "term" ELSE "")
    BY <1>8, Spelling
<1>9. SessionInv'
    BY <1>3, <1>4, <1>7, <1>8, <1>12, ConnectsSame DEF IInv, SessionInv, Has, Spelled
<1>10. SocketInv'
  <2>1. PipeDue' <=> PipeDue
    BY <1>7, <1>8 DEF PipeDue, Has
  <2>2. ~ChildDue /\ (ChildDue' <=> closed)
    BY <1>3, <1>7, <1>8, ConnectsSame DEF ChildDue
  <2>3. SocketInv /\ (Connects' <=> Connects)
    BY <1>7, ConnectsSame DEF IInv
  <2>4. seqnum' = OneIf("own" \in SockMail' \/ "bind" \in SockMail')
    <3>1. "own" \in SockMail /\ "bind" \notin SockMail /\ seqnum = 1
      BY <2>3, <1>2, <1>3 DEF SocketInv, OneIf
    <3>2. "own" \notin SockMail' /\ "bind" \notin SockMail'
      BY <3>1, <1>11 DEF Spelled
    <3> QED BY <3>1, <3>2, <1>7 DEF OneIf
  <2>5. termAcks' = (IF closed' THEN OneIf(PipeDue') + OneIf(ChildDue') ELSE 0)
    BY <2>1, <2>2, <2>3, <1>7 DEF SocketInv, OneIf
  <2> QED BY <2>3, <2>4, <2>5, <1>3, <1>7, <1>8, <1>11 DEF SocketInv, State, Spelled
<1> QED BY <1>7, <1>8, <1>9, <1>10, Assembled DEF IInv, TypeOK

\* A command is taken, later one is sent.
LEMMA BecomesLater ==
    ASSUME NEW M, NEW N, NEW P, NEW gone, NEW come,
           Becomes(M, N, gone, ""), Becomes(N, P, "", come)
    PROVE  Becomes(M, P, gone, come)
<1>1. \A t \in OwnTypes : t # ""
    BY DEF OwnTypes
<1> QED BY <1>1 DEF Becomes

\* The command, if it is about this mailbox.
At(x, y, type) == IF x = y THEN type ELSE ""

\* A command is taken: what the owners see.
LEMMA RestOwn ==
    ASSUME IInv, NEW x \in End, NEW c \in OwnTypes, Arrives(x, c)
    PROVE  /\ Both(Rest(x)) /\ Rest(x).end = net.end
           /\ Becomes(SockMail, Types(Rest(x).mail["sock"]), At(x, "sock", c), "")
           /\ Becomes(SessMail, Types(Rest(x).mail["sess"]), At(x, "sess", c), "")
           /\ x = "sock" => c \in SockMail
           /\ x = "sess" => c \in SessMail
BY InvFacts, OwnCommand DEF SockMail, SessMail, At, End, Same

\* A command is taken, and another one sent that is not there.
LEMMA PassOn ==
    ASSUME IInv, NEW x \in End, NEW c \in OwnTypes, Arrives(x, c),
           NEW y \in End, NEW t \in OwnTypes \ {"bind", "term_req"}, t \notin Types(net.mail[y])
    PROVE  LET k == Send(Rest(x), y, t, 0)
           IN /\ Both(k) /\ k.end = net.end
              /\ Becomes(SockMail, Types(k.mail["sock"]), At(x, "sock", c), At(y, "sock", t))
              /\ Becomes(SessMail, Types(k.mail["sess"]), At(x, "sess", c), At(y, "sess", t))
<1> DEFINE r == Rest(x)
           k == Send(r, y, t, 0)
<1>1. /\ Both(r) /\ r.end = net.end
      /\ Becomes(SockMail, Types(r.mail["sock"]), At(x, "sock", c), "")
      /\ Becomes(SessMail, Types(r.mail["sess"]), At(x, "sess", c), "")
    BY RestOwn
<1> HIDE DEF r
<1>2. t \notin Types(r.mail[y])
  <2>1. t # ""
    BY DEF OwnTypes
  <2>2. CASE y = "sock"
    BY <2>1, <2>2, <1>1 DEF SockMail, Becomes
  <2>3. CASE y = "sess"
    BY <2>1, <2>3, <1>1 DEF SessMail, Becomes
  <2> QED BY <2>2, <2>3 DEF End
<1>3. Both(k) /\ Told(r, k, y, t)
    BY <1>1, <1>2, SendBoth
<1>4. /\ Becomes(Types(r.mail[y]), Types(k.mail[y]), "", t)
      /\ Same(Types(r.mail[Peer(y)]), Types(k.mail[Peer(y)]))
      /\ k.end = r.end
    BY <1>3, ToldBecomes
<1> HIDE DEF k
<1>5. /\ Becomes(Types(r.mail["sock"]), Types(k.mail["sock"]), "", At(y, "sock", t))
      /\ Becomes(Types(r.mail["sess"]), Types(k.mail["sess"]), "", At(y, "sess", t))
    BY <1>4 DEF End, Peer, At, Same
<1>6. /\ Becomes(SockMail, Types(k.mail["sock"]), At(x, "sock", c), At(y, "sock", t))
      /\ Becomes(SessMail, Types(k.mail["sess"]), At(x, "sess", c), At(y, "sess", t))
  <2>1. Becomes(SockMail, Types(k.mail["sock"]), At(x, "sock", c), At(y, "sock", t))
    BY <1>1, <1>5, BecomesLater
  <2>2. Becomes(SessMail, Types(k.mail["sess"]), At(x, "sess", c), At(y, "sess", t))
    BY <1>1, <1>5, BecomesLater
  <2> QED BY <2>1, <2>2
<1> QED BY <1>1, <1>3, <1>4, <1>6 DEF k, r

\* TermAck keeps the invariant.
LEMMA TermAckInv ==
    ASSUME IInv, TermAck
    PROVE  IInv'
<1>1. Arrives("sock", "term_ack") /\ "term_ack" \in OwnTypes
    BY DEF TermAck, OwnTypes
<1>2. /\ net' = Rest("sock") /\ termAcks' = termAcks - 1
      /\ UNCHANGED <<kind, attached, closed, seqnum, sending, engine, conns, wire, pending,
                     session, owner, listener>>
    BY DEF TermAck, sessVars, ownVars
<1>3. /\ Both(net') /\ net'.end = net.end /\ "term_ack" \in SockMail
      /\ Becomes(SockMail, SockMail', "term_ack", "") /\ Becomes(SessMail, SessMail', "", "")
  <2>1. /\ Both(Rest("sock")) /\ Rest("sock").end = net.end
        /\ Becomes(SockMail, Types(Rest("sock").mail["sock"]), At("sock", "sock", "term_ack"), "")
        /\ Becomes(SessMail, Types(Rest("sock").mail["sess"]), At("sock", "sess", "term_ack"), "")
        /\ "term_ack" \in SockMail
    BY <1>1, InvFacts, RestOwn
  <2> QED BY <2>1, <1>2 DEF SockMail, SessMail, At
<1>4. Spelled(SockMail, SockMail', "term_ack", "") /\ Spelled(SessMail, SessMail', "", "")
    BY <1>3, Spelling
<1>5. SessionInv /\ SocketInv /\ (Connects' <=> Connects)
    BY <1>2, ConnectsSame DEF IInv
<1>6. SessionInv'
    BY <1>2, <1>3, <1>4, <1>5 DEF SessionInv, Has, Spelled
<1>7. SocketInv'
  <2>1. PipeDue' <=> PipeDue
    BY <1>2, <1>3 DEF PipeDue, Has
  <2>2. ChildDue /\ ~ChildDue'
    BY <1>2, <1>3, <1>4, <1>5 DEF ChildDue, Spelled, SocketInv
  <2>3. closed
    BY <1>3, <1>5 DEF SocketInv
  <2>5. termAcks' = (IF closed' THEN OneIf(PipeDue') + OneIf(ChildDue') ELSE 0)
    BY <2>1, <2>2, <2>3, <1>2, <1>5 DEF SocketInv, OneIf
  <2> QED BY <2>5, <1>2, <1>3, <1>4, <1>5 DEF SocketInv, State, Spelled
<1>8. /\ attached' \in BOOLEAN /\ closed' \in BOOLEAN /\ sending' \in {"no", "written", "dropped"}
      /\ engine' \in BOOLEAN /\ wire' \in BOOLEAN \X BOOLEAN \X BOOLEAN /\ pending' \in BOOLEAN
      /\ conns' \in 0 .. MaxConn /\ session' \in {"alive", "deleted"}
      /\ owner' \in {"launched", "owned", "asked", "freed"} /\ listener' \in {"open", "closing"}
    BY <1>2 DEF IInv, TypeOK
<1> QED BY <1>3, <1>6, <1>7, <1>8, Assembled

\* TermListener keeps the invariant.
LEMMA TermListenerInv ==
    ASSUME IInv, TermListener
    PROVE  IInv'
<1>1. Arrives("sess", "term_listener") /\ "term_listener" \in OwnTypes
      /\ "term" \in OwnTypes \ {"bind", "term_req"} /\ "term_ack" \in OwnTypes \ {"bind", "term_req"}
    BY DEF TermListener, OwnTypes
<1> DEFINE r == Rest("sess")
           k == Send(r, "sess", "term", 0)
           j == Send(r, "sock", "term_ack", 0)
           x == CASE owner = "owned" -> k [] owner = "asked" -> r [] owner = "freed" -> j
<1>2. /\ net' = x /\ listener' = "closing"
      /\ owner' = (IF owner = "owned" THEN "asked" ELSE owner)
      /\ UNCHANGED <<kind, attached, closed, termAcks, seqnum, sending, engine, conns, wire,
                     pending, session>>
    BY DEF TermListener, sessVars, sockVars
<1>3. SessionInv /\ SocketInv /\ (Connects' <=> Connects)
    BY <1>2, ConnectsSame DEF IInv
<1>4. /\ Both(r) /\ r.end = net.end /\ "term_listener" \in SessMail
      /\ Becomes(SockMail, Types(r.mail["sock"]), "", "")
      /\ Becomes(SessMail, Types(r.mail["sess"]), "term_listener", "")
    BY <1>1, InvFacts, RestOwn DEF At
<1>5. /\ ~Connects /\ closed /\ listener = "open"
      /\ owner \in {"owned", "asked", "freed"}
    BY <1>3, <1>4, TypeFacts DEF SessionInv
<1>6. CASE owner = "owned"
  <2>1. "term" \notin SessMail /\ "child_ack" \notin SessMail
    BY <1>3, <1>6 DEF SessionInv
  <2>2. /\ Both(k) /\ k.end = net.end
        /\ Becomes(SockMail, Types(k.mail["sock"]), "", "")
        /\ Becomes(SessMail, Types(k.mail["sess"]), "term_listener", "term")
    BY <1>1, <2>1, InvFacts, PassOn DEF At, SessMail
  <2>3. net' = k
    BY <1>2, <1>6
  <2>9. Both(net') /\ net'.end = net.end
    BY <2>2, <2>3
  <2>10. Spelled(SockMail, SockMail', "", "") /\ Spelled(SessMail, SessMail', "term_listener", "term")
    BY <2>2, <2>3, Spelling DEF SockMail, SessMail
  <2> HIDE DEF r, k, j, x
  <2>4. SessionInv'
    BY <1>2, <1>3, <1>5, <1>6, <2>1, <2>9, <2>10 DEF SessionInv, Has, Spelled
  <2>5. PipeDue' <=> PipeDue
    BY <1>2, <2>9 DEF PipeDue, Has
  <2>6. ChildDue /\ ChildDue'
    BY <1>2, <1>3, <1>5, <1>6, <2>10 DEF ChildDue, Spelled
  <2>7. SocketInv'
    BY <1>2, <1>3, <1>5, <1>6, <2>5, <2>6, <2>9, <2>10 DEF SocketInv, State, Spelled, OneIf
  <2> QED BY <1>2, <2>4, <2>7, <2>9, Assembled DEF IInv, TypeOK
<1>7. CASE owner = "asked"
  <2>3. net' = r
    BY <1>2, <1>7
  <2>9. Both(net') /\ net'.end = net.end
    BY <1>4, <2>3
  <2>10. Spelled(SockMail, SockMail', "", "") /\ Spelled(SessMail, SessMail', "term_listener", "")
    BY <1>4, <2>3, Spelling DEF SockMail, SessMail
  <2> HIDE DEF r, k, j, x
  <2>4. SessionInv'
    BY <1>2, <1>3, <1>5, <1>7, <2>9, <2>10 DEF SessionInv, Has, Spelled
  <2>5. PipeDue' <=> PipeDue
    BY <1>2, <2>9 DEF PipeDue, Has
  <2>6. ChildDue /\ ChildDue'
    BY <1>2, <1>3, <1>5, <1>7, <2>10 DEF ChildDue, Spelled
  <2>7. SocketInv'
    BY <1>2, <1>3, <1>5, <1>7, <2>5, <2>6, <2>9, <2>10 DEF SocketInv, State, Spelled, OneIf
  <2> QED BY <1>2, <2>4, <2>7, <2>9, Assembled DEF IInv, TypeOK
<1>8. CASE owner = "freed"
  <2>1. "term_ack" \notin SockMail
    BY <1>3, <1>5, <1>8 DEF SocketInv
  <2>2. /\ Both(j) /\ j.end = net.end
        /\ Becomes(SockMail, Types(j.mail["sock"]), "", "term_ack")
        /\ Becomes(SessMail, Types(j.mail["sess"]), "term_listener", "")
    BY <1>1, <2>1, InvFacts, PassOn DEF At, SockMail
  <2>3. net' = j
    BY <1>2, <1>8
  <2>9. Both(net') /\ net'.end = net.end
    BY <2>2, <2>3
  <2>10. Spelled(SockMail, SockMail', "", "term_ack") /\ Spelled(SessMail, SessMail', "term_listener", "")
    BY <2>2, <2>3, Spelling DEF SockMail, SessMail
  <2> HIDE DEF r, k, j, x
  <2>4. SessionInv'
    BY <1>2, <1>3, <1>5, <1>8, <2>1, <2>9, <2>10 DEF SessionInv, Has, Spelled
  <2>5. PipeDue' <=> PipeDue
    BY <1>2, <2>9 DEF PipeDue, Has
  <2>6. ChildDue /\ ChildDue'
    BY <1>2, <1>3, <1>5, <1>8, <2>10 DEF ChildDue, Spelled
  <2>11. session = "deleted"
    BY <1>3, <1>8 DEF SessionInv
  <2>7. SocketInv'
    BY <1>2, <1>3, <1>5, <1>8, <2>5, <2>6, <2>9, <2>10, <2>11 DEF SocketInv, State, Spelled, OneIf
  <2> QED BY <1>2, <2>4, <2>7, <2>9, Assembled DEF IInv, TypeOK
<1> QED BY <1>5, <1>6, <1>7, <1>8

\* ChildAck keeps the invariant.
LEMMA ChildAckInv ==
    ASSUME IInv, ChildAck
    PROVE  IInv'
<1>1. Arrives("sess", "child_ack") /\ "child_ack" \in OwnTypes
      /\ "term_ack" \in OwnTypes \ {"bind", "term_req"}
    BY DEF ChildAck, OwnTypes
<1> DEFINE r == Rest("sess")
           j == Send(r, "sock", "term_ack", 0)
<1>2. /\ net' = (IF listener = "closing" THEN j ELSE r)
      /\ owner' = "freed"
      /\ UNCHANGED <<kind, attached, closed, termAcks, seqnum, sending, engine, conns, wire,
                     pending, session, listener>>
    BY DEF ChildAck, sessVars, sockVars
<1>3. SessionInv /\ SocketInv /\ (Connects' <=> Connects)
    BY <1>2, ConnectsSame DEF IInv
<1>4. /\ Both(r) /\ r.end = net.end /\ "child_ack" \in SessMail
      /\ Becomes(SockMail, Types(r.mail["sock"]), "", "")
      /\ Becomes(SessMail, Types(r.mail["sess"]), "child_ack", "")
    BY <1>1, InvFacts, RestOwn DEF At
<1>5. /\ ~Connects /\ session = "deleted" /\ owner = "asked" /\ "term" \notin SessMail
      /\ "term_ack" \notin SockMail
    BY <1>3, <1>4 DEF SessionInv, SocketInv
<1>6. "term_req" \notin SessMail
  <2>1. Heard(net, r, "sess", "child_ack")
    BY <1>1, InvFacts, OwnCommand
  <2>2. \A t \in Types(r.mail["sess"]) : t # "term_req"
    BY <2>1 DEF Heard, Before
  <2> QED BY <2>1, <2>2 DEF Heard, SessMail
<1>7. /\ Both(j) /\ j.end = net.end
      /\ Becomes(SockMail, Types(j.mail["sock"]), "", "term_ack")
      /\ Becomes(SessMail, Types(j.mail["sess"]), "child_ack", "")
    BY <1>1, <1>5, InvFacts, PassOn DEF At, SockMail
<1> HIDE DEF r, j
<1>8. /\ Both(net') /\ net'.end = net.end
      /\ Becomes(SockMail, SockMail', "", IF listener = "closing" THEN "term_ack" ELSE "")
      /\ Becomes(SessMail, SessMail', "child_ack", "")
    BY <1>2, <1>4, <1>7 DEF SockMail, SessMail
<1>9. Spelled(SockMail, SockMail', "", IF listener = "closing" THEN "term_ack" ELSE "")
      /\ Spelled(SessMail, SessMail', "child_ack", "")
    BY <1>8, Spelling
<1>10. SessionInv'
    BY <1>2, <1>3, <1>5, <1>6, <1>8, <1>9 DEF SessionInv, Has, Spelled
<1>11. PipeDue' <=> PipeDue
    BY <1>2, <1>8 DEF PipeDue, Has
<1>12. ChildDue /\ ChildDue'
    BY <1>2, <1>3, <1>5, <1>9 DEF ChildDue, Spelled
<1>14. listener = "closing" => closed
    BY <1>3 DEF SessionInv
<1>13. SocketInv'
    BY <1>2, <1>3, <1>5, <1>8, <1>9, <1>11, <1>12, <1>14 DEF SocketInv, State, Spelled, OneIf
<1> QED BY <1>2, <1>8, <1>10, <1>13, Assembled DEF IInv, TypeOK

\* A change before a step of the pipe that its owners do not see.
LEMMA AlikeSpelled ==
    ASSUME NEW n, NEW m, Alike(n, m), NEW M, NEW gone, NEW come, NEW x \in End,
           Becomes(M, Types(n.mail[x]), gone, come)
    PROVE  Becomes(M, Types(m.mail[x]), gone, come)
<1>1. Types(m.mail[x]) \cap OwnTypes = Types(n.mail[x]) \cap OwnTypes
    BY DEF Alike
<1> QED BY <1>1 DEF Becomes

\* TermReq keeps the invariant.
LEMMA TermReqInv ==
    ASSUME IInv, TermReq
    PROVE  IInv'
<1>1. Arrives("sess", "term_req") /\ "term_req" \in OwnTypes
      /\ "term" \in OwnTypes \ {"bind", "term_req"}
    BY DEF TermReq, OwnTypes
<1> DEFINE r == Rest("sess")
           k == Send(r, "sess", "term", 0)
           tell == listener = "open" /\ owner = "owned"
<1>2. /\ net' = (IF tell THEN k ELSE r)
      /\ owner' = (IF tell THEN "asked" ELSE owner)
      /\ UNCHANGED <<kind, attached, closed, termAcks, seqnum, sending, engine, conns, wire,
                     pending, session, listener>>
    BY DEF TermReq, sessVars, sockVars
<1>3. SessionInv /\ SocketInv /\ (Connects' <=> Connects)
    BY <1>2, ConnectsSame DEF IInv
<1>4. /\ Both(r) /\ r.end = net.end /\ "term_req" \in SessMail
      /\ Becomes(SockMail, Types(r.mail["sock"]), "", "")
      /\ Becomes(SessMail, Types(r.mail["sess"]), "term_req", "")
    BY <1>1, InvFacts, RestOwn DEF At
<1>5. ~Connects
    BY <1>3, <1>4 DEF SessionInv
<1>6. CASE tell
  <2>1. "term" \notin SessMail /\ "child_ack" \notin SessMail /\ ~pending /\ session = "alive"
    BY <1>3, <1>6 DEF SessionInv
  <2>2. /\ Both(k) /\ k.end = net.end
        /\ Becomes(SockMail, Types(k.mail["sock"]), "", "")
        /\ Becomes(SessMail, Types(k.mail["sess"]), "term_req", "term")
    BY <1>1, <2>1, InvFacts, PassOn DEF At, SessMail
  <2>3. net' = k /\ owner' = "asked" /\ listener = "open" /\ owner = "owned"
    BY <1>2, <1>6
  <2>9. Both(net') /\ net'.end = net.end
    BY <2>2, <2>3
  <2>10. Spelled(SockMail, SockMail', "", "") /\ Spelled(SessMail, SessMail', "term_req", "term")
    BY <2>2, <2>3, Spelling DEF SockMail, SessMail
  <2> HIDE DEF r, k
  <2>4. SessionInv'
    BY <1>2, <1>3, <1>5, <2>1, <2>3, <2>9, <2>10 DEF SessionInv, Has, Spelled
  <2>5. PipeDue' <=> PipeDue
    BY <1>2, <2>9 DEF PipeDue, Has
  <2>6. ChildDue /\ ChildDue'
    BY <1>2, <1>3, <1>5, <2>3, <2>10 DEF ChildDue, Spelled
  <2>7. SocketInv'
    BY <1>2, <1>3, <1>5, <2>3, <2>5, <2>6, <2>9, <2>10 DEF SocketInv, State, Spelled, OneIf
  <2> QED BY <1>2, <2>3, <2>4, <2>7, <2>9, Assembled DEF IInv, TypeOK
<1>7. CASE ~tell
  <2>3. net' = r /\ owner' = owner
    BY <1>2, <1>7
  <2>9. Both(net') /\ net'.end = net.end
    BY <1>4, <2>3
  <2>10. Spelled(SockMail, SockMail', "", "") /\ Spelled(SessMail, SessMail', "term_req", "")
    BY <1>4, <2>3, Spelling DEF SockMail, SessMail
  <2> HIDE DEF r, k, tell
  <2>4. SessionInv'
    BY <1>2, <1>3, <1>5, <2>3, <2>9, <2>10 DEF SessionInv, Has, Spelled
  <2>5. PipeDue' <=> PipeDue
    BY <1>2, <2>9 DEF PipeDue, Has
  <2>6. ChildDue' <=> ChildDue
    BY <1>2, <1>3, <1>5, <2>3, <2>10 DEF ChildDue, Spelled
  <2>7. SocketInv'
    BY <1>2, <1>3, <1>5, <2>3, <2>5, <2>6, <2>9, <2>10 DEF SocketInv, State, Spelled, OneIf
  <2> QED BY <1>2, <2>3, <2>4, <2>7, <2>9, Assembled DEF IInv, TypeOK
<1> QED BY <1>6, <1>7

\* Term keeps the invariant.
LEMMA TermInv ==
    ASSUME IInv, Term
    PROVE  IInv'
<1>1. Arrives("sess", "term") /\ "term" \in OwnTypes
      /\ "term_ack" \in OwnTypes \ {"bind", "term_req"} /\ "child_ack" \in OwnTypes \ {"bind", "term_req"}
    BY DEF Term, OwnTypes
<1> DEFINE r == Rest("sess")
           n == Terminate(r, "sess", Lingers)
           m == CheckRead(n, "sess")
           k == Confirm(r)
<1>2. UNCHANGED <<kind, attached, closed, termAcks, seqnum, sending, conns, wire, owner, listener>>
    BY DEF Term, ownVars, sockVars
<1>3. SessionInv /\ SocketInv /\ (Connects' <=> Connects)
    BY <1>2, ConnectsSame DEF IInv
<1>4. /\ Both(r) /\ r.end = net.end /\ "term" \in SessMail
      /\ Becomes(SockMail, Types(r.mail["sock"]), "", "")
      /\ Becomes(SessMail, Types(r.mail["sess"]), "term", "")
    BY <1>1, InvFacts, RestOwn DEF At
<1>5. owner = "asked" /\ ~pending /\ session = "alive"
    BY <1>3, <1>4 DEF SessionInv
<1>6. CASE Has(net, "sess")
  <2>1. net' = (IF engine THEN n ELSE m) /\ pending' = TRUE /\ session' = session /\ engine' = engine
    BY <1>6 DEF Term
  <2>2. PairInv(r) /\ r \in NetType
    BY <1>4 DEF Both, PairInv
  <2>3. Step(r, n, "sess")
    <3>1. Lingers \in BOOLEAN /\ Has(r, "sess")
      BY <1>4, <1>6 DEF Lingers, Connects, Has
    <3> HIDE DEF r
    <3> QED BY <2>2, <3>1, InvFacts, TerminateStep
  <2> HIDE DEF r, n
  <2>4. Step(n, m, "sess")
    BY <2>3, InvFacts, CheckReadStep DEF Step
  <2>5. Step(r, m, "sess")
    BY <2>2, <2>3, <2>4, InvFacts, StepTransitive
  <2> HIDE DEF m
  <2>6. Step(r, net', "sess")
    BY <2>1, <2>3, <2>5
  <2>7. Both(net') /\ Alike(r, net') /\ net'.end["sock"].state = r.end["sock"].state
    <3>1. Both(net') /\ Alike(r, net') /\ net'.end[Peer("sess")].state = r.end[Peer("sess")].state
      BY <2>6, <1>4, InvFacts, StepBoth
    <3> QED BY <3>1, InvFacts
  <2>8. /\ Has(net', "sess") <=> Has(net, "sess")
        /\ Has(net', "sock") <=> Has(net, "sock")
        /\ net'.end["sock"].state = net.end["sock"].state
    BY <2>7, <1>4 DEF Alike, Has, End
  <2>9. Becomes(SockMail, SockMail', "", "") /\ Becomes(SessMail, SessMail', "term", "")
    BY <2>7, <1>4, InvFacts, AlikeSpelled DEF SockMail, SessMail
  <2>10. Spelled(SockMail, SockMail', "", "") /\ Spelled(SessMail, SessMail', "term", "")
    BY <2>9, Spelling
  <2>11. SessionInv'
    BY <1>2, <1>3, <1>5, <2>1, <2>8, <2>10 DEF SessionInv, Spelled
  <2>12. PipeDue' <=> PipeDue
    BY <1>2, <2>8 DEF PipeDue
  <2>13. ChildDue' <=> ChildDue
    BY <1>2, <1>3, <2>1, <2>10 DEF ChildDue, Spelled
  <2>14. SocketInv'
    BY <1>2, <1>3, <2>1, <2>8, <2>10, <2>12, <2>13 DEF SocketInv, State, Spelled, OneIf
  <2> QED BY <1>2, <2>1, <2>7, <2>11, <2>14, Assembled DEF IInv, TypeOK
<1>7. CASE ~Has(net, "sess")
  <2>1. net' = k /\ session' = "deleted" /\ engine' = FALSE /\ pending' = pending
    BY <1>7 DEF Term
  <2>2. "term_ack" \notin SockMail /\ "child_ack" \notin SessMail
    BY <1>3, <1>5 DEF SessionInv, SocketInv
  <2>3. /\ Both(k) /\ k.end = net.end
        /\ Becomes(SockMail, Types(k.mail["sock"]), "", IF Connects THEN "term_ack" ELSE "")
        /\ Becomes(SessMail, Types(k.mail["sess"]), "term", IF Connects THEN "" ELSE "child_ack")
    <3>1. CASE Connects
      <4> DEFINE s == Send(r, "sock", "term_ack", 0)
      <4>1. k = s
        BY <3>1 DEF Confirm
      <4>2. /\ Both(s) /\ s.end = net.end
            /\ Becomes(SockMail, Types(s.mail["sock"]), "", "term_ack")
            /\ Becomes(SessMail, Types(s.mail["sess"]), "term", "")
        BY <1>1, <2>2, InvFacts, PassOn DEF At, SockMail
      <4> HIDE DEF k, s
      <4> QED BY <3>1, <4>1, <4>2
    <3>2. CASE ~Connects
      <4> DEFINE s == Send(r, "sess", "child_ack", 0)
      <4>1. k = s
        BY <3>2 DEF Confirm
      <4>2. /\ Both(s) /\ s.end = net.end
            /\ Becomes(SockMail, Types(s.mail["sock"]), "", "")
            /\ Becomes(SessMail, Types(s.mail["sess"]), "term", "child_ack")
        BY <1>1, <2>2, InvFacts, PassOn DEF At, SessMail
      <4> HIDE DEF k, s
      <4> QED BY <3>2, <4>1, <4>2
    <3> QED BY <3>1, <3>2
  <2> HIDE DEF r, n, m, k
  <2>4. Both(net') /\ net'.end = net.end
    BY <2>1, <2>3
  <2>5. /\ Spelled(SockMail, SockMail', "", IF Connects THEN "term_ack" ELSE "")
        /\ Spelled(SessMail, SessMail', "term", IF Connects THEN "" ELSE "child_ack")
    BY <2>1, <2>3, Spelling DEF SockMail, SessMail
  <2>6. SessionInv'
    BY <1>2, <1>3, <1>5, <1>7, <2>1, <2>2, <2>4, <2>5 DEF SessionInv, Has, Spelled
  <2>7. PipeDue' <=> PipeDue
    BY <1>2, <2>4 DEF PipeDue, Has
  <2>8. ChildDue' <=> ChildDue
    BY <1>2, <1>3, <1>5, <2>1, <2>2, <2>5 DEF ChildDue, Spelled
  <2>9. Connects => closed
    BY <1>3, <1>5 DEF SocketInv
  <2>10. SocketInv'
    BY <1>2, <1>3, <1>5, <2>1, <2>4, <2>5, <2>7, <2>8, <2>9 DEF SocketInv, State, Spelled, OneIf
  <2> QED BY <1>2, <2>1, <2>4, <2>6, <2>10, Assembled DEF IInv, TypeOK
<1> QED BY <1>6, <1>7

\* Bind keeps the invariant.
LEMMA BindInv ==
    ASSUME IInv, Bind
    PROVE  IInv'
<1>1. Arrives("sock", "bind") /\ "bind" \in OwnTypes
    BY DEF Bind, OwnTypes
<1> DEFINE r == Rest("sock")
           d == [r EXCEPT !.end["sock"].delay = FALSE]
           n == IF kind = "PUB" THEN ReadAll(d, "sock") ELSE r
           m == Terminate(n, "sock", FALSE)
<1>2. /\ attached' = TRUE /\ seqnum' = seqnum - 1
      /\ net' = (IF closed THEN m ELSE n)
      /\ termAcks' = (IF closed THEN termAcks + 1 ELSE termAcks)
      /\ UNCHANGED <<kind, closed, sending, engine, conns, wire, pending, session, owner, listener>>
    BY DEF Bind, sessVars, ownVars
<1>3. SessionInv /\ SocketInv /\ (Connects' <=> Connects)
    BY <1>2, ConnectsSame DEF IInv
<1>4. /\ Both(r) /\ r.end = net.end /\ "bind" \in SockMail
      /\ Becomes(SockMail, Types(r.mail["sock"]), "bind", "")
      /\ Becomes(SessMail, Types(r.mail["sess"]), "", "")
    BY <1>1, InvFacts, RestOwn DEF At
<1>5. ~attached /\ conns = 1 /\ net.end["sock"].state = "active"
    BY <1>3, <1>4 DEF SocketInv, State
<1>6. ~Connects /\ "own" \notin SockMail /\ seqnum = 1
    BY <1>3, <1>4, <1>5 DEF SocketInv, SessionInv, OneIf
<1>7. PairInv(r) /\ r \in NetType /\ Has(r, "sock")
    BY <1>4, <1>5 DEF Both, PairInv, Has
<1> HIDE DEF r
<1>8. Step(r, r, "sock") /\ Step(r, d, "sock")
    BY <1>7, InvFacts, StepReflexive, DelayStep
<1> HIDE DEF d
<1>9. Step(d, ReadAll(d, "sock"), "sock")
    BY <1>8, InvFacts, ReadAllStep DEF Step
<1>10. Step(r, n, "sock")
    BY <1>7, <1>8, <1>9, InvFacts, StepTransitive
<1>11. PairInv(n) /\ Has(n, "sock")
    BY <1>7, <1>10 DEF Step, Keeps
<1> HIDE DEF n
<1>12. Step(n, m, "sock")
    BY <1>11, InvFacts, TerminateStep
<1>13. Step(r, m, "sock")
    BY <1>7, <1>10, <1>12, InvFacts, StepTransitive
<1> HIDE DEF m
<1>14. Step(r, net', "sock")
    BY <1>2, <1>10, <1>13
<1>15. Both(net') /\ Alike(r, net')
    BY <1>4, <1>14, InvFacts, StepBoth
<1>16. /\ Has(net', "sess") <=> Has(net, "sess")
       /\ Has(net', "sock")
       /\ net'.end["sock"].state # "none"
    BY <1>15, <1>4, <1>7 DEF Alike, Has, End
<1>17. Becomes(SockMail, SockMail', "bind", "") /\ Becomes(SessMail, SessMail', "", "")
    BY <1>4, <1>15, InvFacts, AlikeSpelled DEF SockMail, SessMail
<1>18. Spelled(SockMail, SockMail', "bind", "") /\ Spelled(SessMail, SessMail', "", "")
    BY <1>17, Spelling
<1>19. SessionInv'
    BY <1>2, <1>3, <1>6, <1>16, <1>18 DEF SessionInv, Spelled
<1>20. PipeDue' /\ ~PipeDue
    BY <1>2, <1>5, <1>16 DEF PipeDue
<1>21. ChildDue' <=> ChildDue
    BY <1>2, <1>3, <1>18 DEF ChildDue, Spelled
<1>22. seqnum' = OneIf("own" \in SockMail' \/ "bind" \in SockMail')
  <2>1. "own" \notin SockMail' /\ "bind" \notin SockMail'
    BY <1>6, <1>18 DEF Spelled
  <2> QED BY <2>1, <1>2, <1>6 DEF OneIf
<1>23. termAcks' = (IF closed' THEN OneIf(PipeDue') + OneIf(ChildDue') ELSE 0)
    BY <1>2, <1>3, <1>20, <1>21 DEF SocketInv, OneIf
<1>24. SocketInv'
    BY <1>2, <1>3, <1>5, <1>6, <1>16, <1>18, <1>22, <1>23 DEF SocketInv, State, Spelled
<1>25. /\ attached' \in BOOLEAN /\ closed' \in BOOLEAN /\ sending' \in {"no", "written", "dropped"}
       /\ engine' \in BOOLEAN /\ wire' \in BOOLEAN \X BOOLEAN \X BOOLEAN /\ pending' \in BOOLEAN
       /\ conns' \in 0 .. MaxConn /\ session' \in {"alive", "deleted"}
       /\ owner' \in {"launched", "owned", "asked", "freed"} /\ listener' \in {"open", "closing"}
    BY <1>2 DEF IInv, TypeOK
<1> QED BY <1>15, <1>19, <1>24, <1>25, Assembled

\* Close keeps the invariant.
LEMMA CloseInv ==
    ASSUME IInv, Close
    PROVE  IInv'
<1> DEFINE pipe == attached /\ Has(net, "sock")
           n == IF pipe THEN Terminate(net, "sock", FALSE) ELSE net
           child == ~Connects \/ owner = "owned"
           type == IF Connects THEN "term" ELSE "term_listener"
           k == Send(n, "sess", type, 0)
<1>1. /\ closed' = TRUE /\ ~closed
      /\ net' = (IF ~child THEN n ELSE k)
      /\ termAcks' = (IF pipe THEN 1 ELSE 0) + (IF child THEN 1 ELSE 0)
      /\ owner' = (IF Connects /\ child THEN "asked" ELSE owner)
      /\ UNCHANGED <<kind, attached, seqnum, sending, engine, conns, wire, pending, session, listener>>
    BY DEF Close, sessVars
<1>2. SessionInv /\ SocketInv /\ (Connects' <=> Connects)
    BY <1>1, ConnectsSame DEF IInv
<1>3. Step(net, n, "sock")
    BY InvFacts, StepReflexive, TerminateStep
<1> HIDE DEF n
<1>4. Both(n) /\ Alike(net, n)
    BY <1>3, InvFacts, StepBoth
<1>5. Becomes(SockMail, Types(n.mail["sock"]), "", "") /\ Becomes(SessMail, Types(n.mail["sess"]), "", "")
    BY <1>4, InvFacts, AlikeSame DEF Same, SockMail, SessMail
<1>6. /\ Has(n, "sess") <=> Has(net, "sess")
      /\ Has(n, "sock") <=> Has(net, "sock")
      /\ n.end["sock"].state = "none" <=> net.end["sock"].state = "none"
    BY <1>4 DEF Alike, End
<1>7. ~attached => n.end["sock"].state = net.end["sock"].state
    BY DEF n
<1>8. type \in OwnTypes /\ type \notin {"bind", "term_req"}
    BY DEF OwnTypes
<1>9. child => type \notin SessMail
    BY <1>1, <1>2 DEF SessionInv
<1>10. child => Both(k) /\ k.end = n.end
              /\ Becomes(SockMail, Types(k.mail["sock"]), "", "")
              /\ Becomes(SessMail, Types(k.mail["sess"]), "", type)
  <2> SUFFICES ASSUME child
               PROVE  /\ Both(k) /\ k.end = n.end
                      /\ Becomes(SockMail, Types(k.mail["sock"]), "", "")
                      /\ Becomes(SessMail, Types(k.mail["sess"]), "", type)
    OBVIOUS
  <2> HIDE DEF type
  <2>1. type \notin Types(n.mail["sess"])
    <3>1. type # ""
      BY <1>8 DEF OwnTypes
    <3> QED BY <1>5, <1>8, <1>9, <3>1 DEF Becomes
  <2>2. Both(k) /\ Told(n, k, "sess", type)
    BY <1>4, <1>8, <2>1, InvFacts, SendBoth
  <2> HIDE DEF k, child
  <2>3. /\ Becomes(Types(n.mail["sess"]), Types(k.mail["sess"]), "", type)
        /\ Becomes(Types(n.mail["sock"]), Types(k.mail["sock"]), "", "")
        /\ k.end = n.end
    BY <2>2, <1>8, InvFacts, ToldBecomes DEF Same
  <2>4. Becomes(SockMail, Types(k.mail["sock"]), "", "")
    BY <1>5, <2>3, BecomesLater
  <2>5. Becomes(SessMail, Types(k.mail["sess"]), "", type)
    <3>1. Becomes(SessMail, Types(n.mail["sess"]), "", "")
      BY <1>5
    <3>2. Becomes(Types(n.mail["sess"]), Types(k.mail["sess"]), "", type)
      BY <2>3
    <3> QED BY <3>1, <3>2, BecomesLater
  <2> QED BY <2>2, <2>3, <2>4, <2>5
<1>11. /\ Both(net') /\ net'.end = n.end
       /\ Becomes(SockMail, SockMail', "", "")
       /\ Becomes(SessMail, SessMail', "", IF child THEN type ELSE "")
  <2> HIDE DEF k, type
  <2> QED BY <1>1, <1>4, <1>5, <1>10 DEF SockMail, SessMail
<1>12. /\ Spelled(SockMail, SockMail', "", "")
       /\ Spelled(SessMail, SessMail', "", IF child THEN type ELSE "")
    BY <1>11, Spelling
<1>13. /\ Has(net', "sess") <=> Has(net, "sess")
       /\ Has(net', "sock") <=> Has(net, "sock")
       /\ net'.end["sock"].state = "none" <=> net.end["sock"].state = "none"
       /\ ~attached => net'.end["sock"].state = net.end["sock"].state
    BY <1>6, <1>7, <1>11 DEF Has
<1>20. /\ "term" \in SessMail' <=> "term" \in SessMail \/ (Connects /\ owner = "owned")
       /\ "term_listener" \in SessMail' <=> "term_listener" \in SessMail \/ ~Connects
       /\ "term_req" \in SessMail' <=> "term_req" \in SessMail
       /\ "child_ack" \in SessMail' <=> "child_ack" \in SessMail
       /\ "own" \in SessMail' <=> "own" \in SessMail
       /\ "bind" \in SessMail' <=> "bind" \in SessMail
       /\ "term_ack" \in SessMail' <=> "term_ack" \in SessMail
    BY <1>12 DEF Spelled
<1> HIDE DEF k, type, n
<1>21. owner = "owned" => ~pending /\ session = "alive"
    BY <1>2 DEF SessionInv
<1>22. listener = "open"
    BY <1>1, <1>2 DEF SessionInv, IInv, TypeOK
<1>14. SessionInv'
    BY <1>1, <1>2, <1>13, <1>20, <1>21, <1>22 DEF SessionInv
<1>15. PipeDue' <=> pipe
    BY <1>1, <1>13 DEF PipeDue
<1>16. ChildDue' <=> child
  <2>1. CASE Connects
    <3>1. owner \in {"launched", "owned"} /\ session = "alive"
      BY <2>1, <1>1, <1>2 DEF SocketInv, SessionInv
    <3> QED BY <3>1, <2>1, <1>1, <1>2 DEF ChildDue
  <2>2. CASE ~Connects
    <3>1. listener # "closing"
      BY <1>1, <1>2 DEF SessionInv
    <3> QED BY <3>1, <2>2, <1>1, <1>2 DEF ChildDue
  <2> QED BY <2>1, <2>2
<1>17. termAcks' = (IF closed' THEN OneIf(PipeDue') + OneIf(ChildDue') ELSE 0)
    BY <1>1, <1>15, <1>16 DEF OneIf
<1>18. SocketInv'
    BY <1>1, <1>2, <1>12, <1>13, <1>17 DEF SocketInv, State, Spelled
<1>19. /\ attached' \in BOOLEAN /\ closed' \in BOOLEAN /\ sending' \in {"no", "written", "dropped"}
       /\ engine' \in BOOLEAN /\ wire' \in BOOLEAN \X BOOLEAN \X BOOLEAN /\ pending' \in BOOLEAN
       /\ conns' \in 0 .. MaxConn /\ session' \in {"alive", "deleted"}
       /\ owner' \in {"launched", "owned", "asked", "freed"} /\ listener' \in {"open", "closing"}
    BY <1>1 DEF IInv, TypeOK
<1> QED BY <1>11, <1>14, <1>18, <1>19, Assembled

\* EngineReady keeps the invariant.
LEMMA EngineReadyInv ==
    ASSUME IInv, EngineReady
    PROVE  IInv'
<1>1. /\ session = "alive" /\ ~engine
      /\ conns < (IF Connects THEN MaxConn ELSE 1)
      /\ engine' = TRUE /\ conns' = conns + 1 /\ given' = FALSE /\ midway' = FALSE /\ half' = half
      /\ UNCHANGED <<kind, attached, closed, termAcks, sending, pending, session, owner, listener>>
    BY DEF EngineReady, ownVars
<1>2. SessionInv /\ SocketInv /\ (Connects' <=> Connects)
    BY <1>1, ConnectsSame DEF IInv
<1>3. MaxConn \in Nat \ {0} /\ conns \in 0 .. MaxConn
    BY PipeAssumption DEF IInv, TypeOK
<1>4. CASE Connects
  <2>1. net' = net /\ seqnum' = seqnum
    BY <1>4 DEF EngineReady
  <2>2. Both(net') /\ SockMail' = SockMail /\ SessMail' = SessMail
    BY <2>1, InvFacts DEF SockMail, SessMail
  <2>3. conns' # 0
    BY <1>1, <1>3
  <2>4. SessionInv'
    BY <1>1, <1>2, <1>4, <2>1, <2>2, <2>3 DEF SessionInv
  <2>5. (PipeDue' <=> PipeDue) /\ (ChildDue' <=> ChildDue)
    BY <1>1, <1>2, <2>1, <2>2 DEF PipeDue, ChildDue
  <2>6. SocketInv'
    <3>1. attached
      BY <1>2, <1>4 DEF SocketInv
    <3>2. seqnum' = OneIf("own" \in SockMail' \/ "bind" \in SockMail')
      BY <1>2, <2>1, <2>2 DEF SocketInv, OneIf
    <3>3. termAcks' = (IF closed' THEN OneIf(PipeDue') + OneIf(ChildDue') ELSE 0)
      BY <1>1, <1>2, <2>5 DEF SocketInv, OneIf
    <3> QED BY <1>1, <1>2, <1>4, <2>1, <2>2, <3>1, <3>2, <3>3 DEF SocketInv, State
  <2>7. conns' \in 0 .. MaxConn /\ wire' \in BOOLEAN \X BOOLEAN \X BOOLEAN
    <3>1. conns' \in 0 .. MaxConn
      BY <1>1, <1>3, <1>4
    <3>2. wire' \in BOOLEAN \X BOOLEAN \X BOOLEAN
      BY <1>1, TypeFacts DEF wire
    <3> QED BY <3>1, <3>2
  <2> QED BY <1>1, <2>2, <2>4, <2>6, <2>7, TypeFacts, Assembled DEF IInv, TypeOK
<1>5. CASE ~Connects
  <2> DEFINE a == Accepted(net)
             k == Send(a, "sock", "bind", 0)
  <2>1. net' = k /\ seqnum' = seqnum + 1
    BY <1>5 DEF EngineReady, Accepted
  <2>2. conns = 0 /\ ~attached /\ net.end["sock"].state = "none"
    BY <1>1, <1>2, <1>3, <1>5 DEF SocketInv
  <2>3. "own" \notin SockMail /\ "bind" \notin SockMail /\ "term_req" \notin SessMail /\ seqnum = 0
    BY <1>1, <1>2, <1>5, <2>2 DEF SocketInv, SessionInv, OneIf
  <2>4. Len(net.queue) >= 2
    BY InvFacts DEF QueueInv
  <2>5. /\ PairInv(a) /\ a.mail = net.mail
        /\ \A e \in End : a.end[e] = NewEnd(e, "active")
        /\ \A e \in End : Types(net.mail[e]) \cap PipeTypes = {}
    BY <2>2, <2>4, InvFacts, AcceptedPair
  <2>6. QueueInv(a)
    BY <2>2, InvFacts, AcceptedQueue
  <2> HIDE DEF a
  <2>7. Both(a) /\ "bind" \in OwnTypes
    BY <2>5, <2>6 DEF Both, OwnTypes
  <2>8. "bind" \notin Types(a.mail["sock"]) /\ Types(a.mail["sock"]) \cap PipeTypes = {}
    BY <2>3, <2>5, InvFacts DEF SockMail
  <2>9. Both(k) /\ Told(a, k, "sock", "bind")
    BY <2>7, <2>8, InvFacts, SendBoth
  <2> HIDE DEF k
  <2>10. /\ Becomes(Types(a.mail["sock"]), Types(k.mail["sock"]), "", "bind")
         /\ Becomes(Types(a.mail["sess"]), Types(k.mail["sess"]), "", "")
         /\ k.end = a.end
    BY <2>7, <2>9, InvFacts, ToldBecomes DEF Same
  <2>11. Spelled(SockMail, SockMail', "", "bind") /\ Spelled(SessMail, SessMail', "", "")
    BY <2>1, <2>5, <2>10, Spelling DEF SockMail, SessMail
  <2>12. net'.end["sock"].state = "active"
    <3>1. net'.end["sock"] = NewEnd("sock", "active")
      BY <2>1, <2>5, <2>10, InvFacts
    <3> QED BY <3>1 DEF NewEnd
  <2>13. conns' = 1
    BY <1>1, <2>2
  <2>14. SessionInv'
    BY <1>1, <1>2, <1>5, <2>3, <2>11, <2>13 DEF SessionInv, Spelled
  <2>15. ~PipeDue /\ ~PipeDue' /\ (ChildDue' <=> ChildDue)
    BY <1>1, <1>2, <2>2, <2>11 DEF PipeDue, ChildDue, Spelled
  <2>16. seqnum' = OneIf("own" \in SockMail' \/ "bind" \in SockMail')
    BY <2>1, <2>3, <2>11 DEF OneIf, Spelled
  <2>19. termAcks' = (IF closed' THEN OneIf(PipeDue') + OneIf(ChildDue') ELSE 0)
    BY <1>1, <1>2, <2>15 DEF SocketInv, OneIf
  <2>17. SocketInv'
    BY <1>1, <1>2, <1>5, <2>2, <2>11, <2>12, <2>13, <2>16, <2>19 DEF SocketInv, State, Spelled
  <2>18. conns' \in 0 .. MaxConn /\ wire' \in BOOLEAN \X BOOLEAN \X BOOLEAN
    <3>1. conns' \in 0 .. MaxConn
      BY <2>13, PipeAssumption
    <3>2. wire' \in BOOLEAN \X BOOLEAN \X BOOLEAN
      BY <1>1, TypeFacts DEF wire
    <3> QED BY <3>1, <3>2
  <2> QED BY <1>1, <2>1, <2>9, <2>14, <2>17, <2>18, TypeFacts, Assembled DEF IInv, TypeOK
<1> QED BY <1>4, <1>5

\* A method of the session's end, seen from the socket.
LEMMA SessionSide ==
    ASSUME NEW n, Both(n), NEW m, Step(n, m, "sess")
    PROVE  Both(m) /\ Alike(n, m) /\ m.end["sock"].state = n.end["sock"].state
<1>1. "sess" \in End /\ Peer("sess") = "sock"
    BY DEF End, Peer
<1>2. Both(m) /\ Alike(n, m) /\ m.end[Peer("sess")].state = n.end[Peer("sess")].state
    BY <1>1, StepBoth
<1> QED BY <1>1, <1>2

\* pipe_t::hiccup, seen from the socket.
LEMMA HiccupBoth ==
    ASSUME NEW n, Both(n)
    PROVE  /\ Both(Hiccup(n, "sess")) /\ Alike(n, Hiccup(n, "sess"))
           /\ Hiccup(n, "sess").end["sock"].state = n.end["sock"].state
<1> DEFINE m == Hiccup(n, "sess")
<1>1. "sess" \in End /\ Peer("sess") = "sock"
    BY DEF End, Peer
<1>2. PairInv(m) /\ Keeps(n, m, "sess") /\ QueueInv(m)
    BY HiccupStep, HiccupQueue DEF Both
<1> HIDE DEF m
<1>3. Alike(n, m)
    BY <1>1, <1>2, KeepsAlike
<1> QED BY <1>1, <1>2, <1>3 DEF Both, Keeps, m

\* The engine of a session that keeps its pipe, or ends it, is lost.
LEMMA EngineLost ==
    ASSUME IInv, EngineError, kind \in {"REQ", "SUB"} \/ pending
    PROVE  IInv'
<1> DEFINE pipe == Has(net, "sess")
           n == IF pipe THEN CleanPipes(net) ELSE net
           m == CASE kind = "REQ" -> n
                  [] kind = "SUB" -> IF pipe THEN Hiccup(n, "sess") ELSE n
                  [] ~Connects /\ pending -> IF pipe THEN Terminate(n, "sess", FALSE) ELSE n
                  [] OTHER -> Send(n, "sess", "term_req", 0)
           k == CheckRead(m, "sess")
<1>1. /\ engine' = FALSE /\ half' = FALSE
      /\ net' = (IF pipe THEN k ELSE m)
      /\ UNCHANGED <<kind, attached, closed, termAcks, seqnum, sending, conns, midway, given,
                     pending, session, owner, listener>>
    BY DEF EngineError, sockVars, ownVars
<1>2. Step(net, n, "sess")
    BY InvFacts, StepReflexive, CleanPipesStep
<1> HIDE DEF n
<1>3. Both(n) /\ Alike(net, n) /\ n.end["sock"].state = net.end["sock"].state
    BY <1>2, InvFacts, SessionSide
<1>4. PairInv(n)
    BY <1>3 DEF Both
<1>5. pipe => Has(n, "sess")
    BY <1>3 DEF Alike, End
<1>6. Both(m) /\ Alike(n, m) /\ m.end["sock"].state = n.end["sock"].state
  <2>1. Both(n) /\ Alike(n, n)
    BY <1>3 DEF Alike
  <2>2. /\ Both(Hiccup(n, "sess")) /\ Alike(n, Hiccup(n, "sess"))
        /\ Hiccup(n, "sess").end["sock"].state = n.end["sock"].state
    BY <1>3, HiccupBoth
  <2>3. pipe => /\ Both(Terminate(n, "sess", FALSE)) /\ Alike(n, Terminate(n, "sess", FALSE))
                /\ Terminate(n, "sess", FALSE).end["sock"].state = n.end["sock"].state
    <3>1. pipe => Step(n, Terminate(n, "sess", FALSE), "sess")
      BY <1>4, <1>5, InvFacts, TerminateStep
    <3> QED BY <3>1, <1>3, SessionSide
  <2>4. \/ m = n
        \/ m = Hiccup(n, "sess")
        \/ pipe /\ m = Terminate(n, "sess", FALSE)
    BY DEF Connects
  <2> HIDE DEF m, pipe
  <2> QED BY <2>1, <2>2, <2>3, <2>4
<1> HIDE DEF m
<1>7. Both(k) /\ Alike(m, k) /\ k.end["sock"].state = m.end["sock"].state
  <2>1. Step(m, k, "sess")
    BY <1>6, InvFacts, CheckReadStep DEF Both
  <2> HIDE DEF k
  <2> QED BY <2>1, <1>6, SessionSide
<1> HIDE DEF k
<1>8. Both(net') /\ Alike(m, net') /\ net'.end["sock"].state = m.end["sock"].state
  <2>1. Alike(m, m)
    BY DEF Alike
  <2> QED BY <2>1, <1>1, <1>6, <1>7
<1>9. Alike(net, net')
  <2>1. Alike(net, m)
    BY <1>3, <1>6, AlikeTransitive
  <2> QED BY <2>1, <1>8, AlikeTransitive
<1>10. net'.end["sock"].state = net.end["sock"].state
    BY <1>3, <1>6, <1>8
<1>11. <<half, midway, given>>' \in BOOLEAN \X BOOLEAN \X BOOLEAN
    BY <1>1, TypeFacts
<1> QED BY <1>1, <1>8, <1>9, <1>10, <1>11, PipeOnly, TypeFacts

\* The engine of an accepted session is lost: the owner is asked to end it.
LEMMA EngineGone ==
    ASSUME IInv, EngineError, kind \notin {"REQ", "SUB"}, ~pending
    PROVE  IInv'
<1> DEFINE pipe == Has(net, "sess")
           n == IF pipe THEN CleanPipes(net) ELSE net
           m == Send(n, "sess", "term_req", 0)
           k == CheckRead(m, "sess")
<1>1. /\ engine /\ engine' = FALSE /\ half' = FALSE
      /\ net' = (IF pipe THEN k ELSE m)
      /\ UNCHANGED <<kind, attached, closed, termAcks, seqnum, sending, conns, midway, given,
                     pending, session, owner, listener>>
    BY DEF EngineError, sockVars, ownVars
<1>2. Step(net, n, "sess")
    BY InvFacts, StepReflexive, CleanPipesStep
<1> HIDE DEF n
<1>3. Both(n) /\ Alike(net, n) /\ n.end["sock"].state = net.end["sock"].state
    BY <1>2, InvFacts, SessionSide
<1>4. SessionInv /\ SocketInv /\ (Connects' <=> Connects) /\ ~Connects
    BY <1>1, ConnectsSame DEF IInv, Connects
<1>5. "term_req" \notin SessMail /\ "child_ack" \notin SessMail /\ session = "alive"
    BY <1>1, <1>4 DEF SessionInv
<1>14. conns = 1
  <2>1. conns \in Nat /\ conns # 0 /\ conns <= 1
    BY <1>1, <1>4, PipeAssumption DEF SessionInv, SocketInv, IInv, TypeOK
  <2> QED BY <2>1
<1>6. Becomes(SockMail, Types(n.mail["sock"]), "", "") /\ Becomes(SessMail, Types(n.mail["sess"]), "", "")
    BY <1>3, InvFacts, AlikeSame DEF Same, SockMail, SessMail
<1>7. "term_req" \notin Types(n.mail["sess"]) /\ "child_ack" \notin Types(n.mail["sess"])
    BY <1>5, <1>6 DEF Becomes, OwnTypes
<1>8. Both(m) /\ Told(n, m, "sess", "term_req") /\ "term_req" \in OwnTypes
  <2>1. "term_req" \in OwnTypes
    BY DEF OwnTypes
  <2> QED BY <2>1, <1>3, <1>7, InvFacts, SendBoth
<1> HIDE DEF m
<1>9. /\ Becomes(SockMail, Types(m.mail["sock"]), "", "")
      /\ Becomes(SessMail, Types(m.mail["sess"]), "", "term_req")
      /\ m.end = n.end
  <2>1. /\ Becomes(Types(n.mail["sess"]), Types(m.mail["sess"]), "", "term_req")
        /\ Becomes(Types(n.mail["sock"]), Types(m.mail["sock"]), "", "")
        /\ m.end = n.end
    BY <1>8, InvFacts, ToldBecomes DEF Same
  <2>2. Becomes(SockMail, Types(m.mail["sock"]), "", "")
    BY <1>6, <2>1, BecomesLater
  <2>3. Becomes(SessMail, Types(m.mail["sess"]), "", "term_req")
    BY <1>6, <2>1, BecomesLater
  <2> QED BY <2>1, <2>2, <2>3
<1>10. Both(k) /\ Alike(m, k) /\ k.end["sock"].state = m.end["sock"].state
  <2>1. Step(m, k, "sess")
    BY <1>8, InvFacts, CheckReadStep DEF Both
  <2> HIDE DEF k
  <2> QED BY <2>1, <1>8, SessionSide
<1> HIDE DEF k
<1>11. Both(net') /\ Alike(m, net') /\ net'.end["sock"].state = m.end["sock"].state
  <2>1. Alike(m, m)
    BY DEF Alike
  <2> QED BY <2>1, <1>1, <1>8, <1>10
<1>12. /\ Has(net', "sess") <=> Has(net, "sess")
       /\ Has(net', "sock") <=> Has(net, "sock")
       /\ net'.end["sock"].state = net.end["sock"].state
    BY <1>3, <1>9, <1>11 DEF Alike, Has, End
<1>13. Spelled(SockMail, SockMail', "", "") /\ Spelled(SessMail, SessMail', "", "term_req")
  <2>1. Becomes(SockMail, SockMail', "", "") /\ Becomes(SessMail, SessMail', "", "term_req")
    BY <1>9, <1>11, InvFacts, AlikeSpelled DEF SockMail, SessMail
  <2> QED BY <2>1, Spelling
<1>15. SessionInv'
    BY <1>1, <1>4, <1>5, <1>12, <1>13, <1>14 DEF SessionInv, Spelled
<1>16. (PipeDue' <=> PipeDue) /\ (ChildDue' <=> ChildDue)
    BY <1>1, <1>4, <1>12, <1>13 DEF PipeDue, ChildDue, Spelled
<1>17. SocketInv'
    BY <1>1, <1>4, <1>12, <1>13, <1>16 DEF SocketInv, State, Spelled, OneIf
<1>18. wire' \in BOOLEAN \X BOOLEAN \X BOOLEAN
    BY <1>1, TypeFacts DEF wire
<1> QED BY <1>1, <1>11, <1>15, <1>17, <1>18, TypeFacts, Assembled DEF IInv, TypeOK

\* EngineError keeps the invariant.
LEMMA EngineErrorInv ==
    ASSUME IInv, EngineError
    PROVE  IInv'
BY EngineLost, EngineGone

\* The last command to an end is taken: the other end is silent.
LEMMA RestEnding ==
    ASSUME IInv, NEW x \in End, Arrives(x, "pipe_term_ack")
    PROVE  /\ Ending(Rest(x), x) /\ QueueInv(Rest(x)) /\ Rest(x).end = net.end
           /\ Alike(net, Rest(x)) /\ Has(net, x)
           /\ x = "sock" => attached
<1>1. net.mail[x] # <<>> /\ Head(net.mail[x])[1] = "pipe_term_ack" /\ "pipe_term_ack" \in PipeTypes
    BY DEF Arrives, Command, PipeTypes
<1>2. Ending(Rest(x), x) /\ Rest(x).end = net.end
    BY <1>1, InvFacts, EndingTaken DEF Rest
<1>3. /\ Heard(net, Rest(x), x, "pipe_term_ack") /\ Rest(x) \in NetType /\ Alike(net, Rest(x))
      /\ x = "sock" => attached
    BY <1>1, PipeCommand
<1>4. QueueInv(Rest(x))
    BY <1>1, <1>3, InvFacts, TakenQueue DEF Heard
<1>5. Has(net, x)
    BY <1>2 DEF Ending, Has
<1> QED BY <1>2, <1>3, <1>4, <1>5

\* process_pipe_term_ack keeps the layers about the net.
LEMMA EndedBoth ==
    ASSUME NEW n, NEW e \in End, Ending(n, e), QueueInv(n)
    PROVE  LET m == Deallocate(n, e)
           IN /\ Both(m)
              /\ m.end[Peer(e)] = n.end[Peer(e)] /\ m.end[e].state = "deleted"
              /\ \A x \in End : Types(m.mail[x]) \cap OwnTypes = Types(n.mail[x]) \cap OwnTypes
<1> DEFINE m == Deallocate(n, e)
<1>1. QueueInv(m)
    BY EndedQueue
<1>2. /\ PairInv(m) /\ m.mail[e] = n.mail[e]
      /\ Types(m.mail[Peer(e)]) \cap OwnTypes = Types(n.mail[Peer(e)]) \cap OwnTypes
      /\ m.end[Peer(e)] = n.end[Peer(e)] /\ m.end[e].state = "deleted"
    BY Ended
<1> HIDE DEF m
<1>3. \A x \in End : x = e \/ x = Peer(e)
    BY Ends
<1>4. \A x \in End : Types(m.mail[x]) \cap OwnTypes = Types(n.mail[x]) \cap OwnTypes
    BY <1>2, <1>3
<1> QED BY <1>1, <1>2, <1>4 DEF Both, m

\* SocketPipeTermAck keeps the invariant.
LEMMA SocketPipeTermAckInv ==
    ASSUME IInv, SocketPipeTermAck
    PROVE  IInv'
<1> DEFINE r == Rest("sock")
<1>1. /\ net' = Deallocate(r, "sock")
      /\ termAcks' = (IF closed THEN termAcks - 1 ELSE termAcks)
      /\ sending' = (IF sending = "written" THEN "dropped" ELSE sending)
      /\ UNCHANGED <<kind, attached, closed, seqnum, engine, conns, wire, pending, session,
                     owner, listener>>
      /\ Arrives("sock", "pipe_term_ack")
    BY DEF SocketPipeTermAck, sessVars, ownVars
<1>2. SessionInv /\ SocketInv /\ (Connects' <=> Connects)
    BY <1>1, ConnectsSame DEF IInv
<1>3. /\ Ending(r, "sock") /\ QueueInv(r) /\ r.end = net.end /\ Alike(net, r)
      /\ Has(net, "sock") /\ attached
    BY <1>1, InvFacts, RestEnding
<1> HIDE DEF r
<1>4. /\ Both(net') /\ net'.end["sess"] = r.end["sess"] /\ net'.end["sock"].state = "deleted"
      /\ \A x \in End : Types(net'.mail[x]) \cap OwnTypes = Types(r.mail[x]) \cap OwnTypes
  <2>1. /\ Both(net') /\ net'.end[Peer("sock")] = r.end[Peer("sock")] /\ net'.end["sock"].state = "deleted"
        /\ \A x \in End : Types(net'.mail[x]) \cap OwnTypes = Types(r.mail[x]) \cap OwnTypes
    BY <1>1, <1>3, InvFacts, EndedBoth
  <2> QED BY <2>1, InvFacts
<1>5. Spelled(SockMail, SockMail', "", "") /\ Spelled(SessMail, SessMail', "", "")
  <2>1. Types(net'.mail["sock"]) \cap OwnTypes = Types(net.mail["sock"]) \cap OwnTypes
    BY <1>3, <1>4, InvFacts DEF Alike
  <2>2. Types(net'.mail["sess"]) \cap OwnTypes = Types(net.mail["sess"]) \cap OwnTypes
    BY <1>3, <1>4, InvFacts DEF Alike
  <2>3. \A t \in OwnTypes : t # ""
    BY DEF OwnTypes
  <2>4. Becomes(SockMail, SockMail', "", "") /\ Becomes(SessMail, SessMail', "", "")
    BY <2>1, <2>2, <2>3 DEF Becomes, SockMail, SessMail
  <2> QED BY <2>4, Spelling
<1>6. /\ Has(net', "sess") <=> Has(net, "sess")
      /\ ~Has(net', "sock")
      /\ net.end["sock"].state # "none"
    BY <1>3, <1>4 DEF Has
<1>7. SessionInv'
    BY <1>1, <1>2, <1>5, <1>6 DEF SessionInv, Spelled
<1>8. PipeDue /\ ~PipeDue'
    BY <1>1, <1>3, <1>6 DEF PipeDue
<1>9. ChildDue' <=> ChildDue
    BY <1>1, <1>2, <1>5 DEF ChildDue, Spelled
<1>10. termAcks' = (IF closed' THEN OneIf(PipeDue') + OneIf(ChildDue') ELSE 0)
    BY <1>1, <1>2, <1>8, <1>9 DEF SocketInv, OneIf
<1>11. SocketInv'
  <2>1. seqnum' = OneIf("own" \in SockMail' \/ "bind" \in SockMail')
    BY <1>1, <1>2, <1>5 DEF SocketInv, OneIf, Spelled
  <2> QED BY <1>1, <1>2, <1>3, <1>4, <1>5, <1>6, <1>10, <2>1 DEF SocketInv, State, Spelled
<1>12. sending' \in {"no", "written", "dropped"}
    BY <1>1, TypeFacts
<1>13. /\ attached' \in BOOLEAN /\ closed' \in BOOLEAN
       /\ engine' \in BOOLEAN /\ wire' \in BOOLEAN \X BOOLEAN \X BOOLEAN /\ pending' \in BOOLEAN
       /\ conns' \in 0 .. MaxConn /\ session' \in {"alive", "deleted"}
       /\ owner' \in {"launched", "owned", "asked", "freed"} /\ listener' \in {"open", "closing"}
    BY <1>1 DEF IInv, TypeOK
<1> QED BY <1>4, <1>7, <1>11, <1>12, <1>13, Assembled

\* SessionPipeTermAck keeps the invariant.
LEMMA SessionPipeTermAckInv ==
    ASSUME IInv, SessionPipeTermAck
    PROVE  IInv'
<1> DEFINE r == Rest("sess")
           k == IF pending THEN Confirm(r) ELSE r
<1>1. /\ net' = Deallocate(k, "sess")
      /\ IF pending THEN session' = "deleted" /\ engine' = FALSE
         ELSE session' = session /\ engine' = engine
      /\ UNCHANGED <<kind, attached, closed, termAcks, seqnum, sending, conns, wire, pending,
                     owner, listener>>
      /\ Arrives("sess", "pipe_term_ack")
    BY DEF SessionPipeTermAck, sockVars, ownVars
<1>2. SessionInv /\ SocketInv /\ (Connects' <=> Connects)
    BY <1>1, ConnectsSame DEF IInv
<1>3. /\ Ending(r, "sess") /\ QueueInv(r) /\ r.end = net.end /\ Alike(net, r)
      /\ Has(net, "sess")
    BY <1>1, InvFacts, RestEnding
<1> HIDE DEF r
<1>4. session = "alive" /\ "term_ack" \notin SockMail /\ "child_ack" \notin SessMail
      /\ (pending => owner = "asked" /\ "term" \notin SessMail)
    BY <1>2, <1>3, TypeFacts DEF SessionInv, SocketInv
<1>5. /\ Becomes(SockMail, Types(r.mail["sock"]), "", "")
      /\ Becomes(SessMail, Types(r.mail["sess"]), "", "")
    BY <1>3, InvFacts, AlikeSame DEF Same, SockMail, SessMail
<1>6. "term_ack" \notin Types(r.mail["sock"]) /\ "child_ack" \notin Types(r.mail["sess"])
    BY <1>4, <1>5 DEF Becomes, OwnTypes
<1>7. /\ Ending(k, "sess") /\ QueueInv(k) /\ k.end = net.end
      /\ Becomes(SockMail, Types(k.mail["sock"]), "", IF pending /\ Connects THEN "term_ack" ELSE "")
      /\ Becomes(SessMail, Types(k.mail["sess"]), "", IF pending /\ ~Connects THEN "child_ack" ELSE "")
  <2>1. CASE ~pending
    <3>1. k = r
      BY <2>1
    <3> QED BY <3>1, <2>1, <1>3, <1>5
  <2>2. CASE pending
    <3> DEFINE y == IF Connects THEN "sock" ELSE "sess"
               t == IF Connects THEN "term_ack" ELSE "child_ack"
               s == Send(r, y, t, 0)
    <3>1. k = s
      BY <2>2 DEF Confirm
    <3>2. /\ y \in End /\ t \in {"term_ack", "child_ack"} /\ t \in OwnTypes
          /\ t \notin Types(r.mail[y])
      BY <1>6 DEF End, OwnTypes
    <3>7. /\ At(y, "sock", t) = (IF Connects THEN "term_ack" ELSE "")
          /\ At(y, "sess", t) = (IF Connects THEN "" ELSE "child_ack")
      BY DEF At
    <3> HIDE DEF y, t, k
    <3>3. /\ Ending(s, "sess") /\ s.end = r.end /\ s.queue = r.queue
          /\ s.mail[Peer(y)] = r.mail[Peer(y)]
          /\ Types(s.mail[y]) = Types(r.mail[y]) \cup {t}
          /\ Grown(r.mail[y], s.mail[y])
      BY <3>2, <1>3, InvFacts, EndingSend
    <3> HIDE DEF s
    <3>4. QueueInv(s)
      <4>1. r \in NetType /\ s \in NetType
        BY <1>3, <3>3 DEF Ending
      <4> QED BY <4>1, <3>2, <3>3, <1>3, MailQueue
    <3>5. Told(r, s, y, t)
      BY <3>3 DEF Told
    <3>6. /\ Becomes(Types(r.mail["sock"]), Types(s.mail["sock"]), "", At(y, "sock", t))
          /\ Becomes(Types(r.mail["sess"]), Types(s.mail["sess"]), "", At(y, "sess", t))
      <4>1. /\ Becomes(Types(r.mail[y]), Types(s.mail[y]), "", t)
            /\ Becomes(Types(r.mail[Peer(y)]), Types(s.mail[Peer(y)]), "", "")
        BY <3>2, <3>5, ToldBecomes DEF Same
      <4> QED BY <4>1, <3>2 DEF At, End, Peer
    <3>8. Becomes(SockMail, Types(s.mail["sock"]), "", At(y, "sock", t))
      BY <1>5, <3>6, BecomesLater
    <3>9. Becomes(SessMail, Types(s.mail["sess"]), "", At(y, "sess", t))
      BY <1>5, <3>6, BecomesLater
    <3> QED BY <2>2, <3>1, <3>3, <3>4, <3>7, <3>8, <3>9, <1>3
  <2> QED BY <2>1, <2>2
<1> HIDE DEF k
<1>8. /\ Both(net') /\ net'.end["sock"] = k.end["sock"] /\ net'.end["sess"].state = "deleted"
      /\ \A x \in End : Types(net'.mail[x]) \cap OwnTypes = Types(k.mail[x]) \cap OwnTypes
  <2>1. /\ Both(net') /\ net'.end[Peer("sess")] = k.end[Peer("sess")] /\ net'.end["sess"].state = "deleted"
        /\ \A x \in End : Types(net'.mail[x]) \cap OwnTypes = Types(k.mail[x]) \cap OwnTypes
    BY <1>1, <1>7, InvFacts, EndedBoth
  <2> QED BY <2>1, InvFacts
<1>9. /\ Spelled(SockMail, SockMail', "", IF pending /\ Connects THEN "term_ack" ELSE "")
      /\ Spelled(SessMail, SessMail', "", IF pending /\ ~Connects THEN "child_ack" ELSE "")
  <2>1. Becomes(SockMail, SockMail', "", IF pending /\ Connects THEN "term_ack" ELSE "")
    BY <1>7, <1>8, InvFacts DEF Becomes, SockMail
  <2>2. Becomes(SessMail, SessMail', "", IF pending /\ ~Connects THEN "child_ack" ELSE "")
    BY <1>7, <1>8, InvFacts DEF Becomes, SessMail
  <2> QED BY <2>1, <2>2, Spelling
<1>10. /\ ~Has(net', "sess")
       /\ Has(net', "sock") <=> Has(net, "sock")
       /\ net'.end["sock"].state = net.end["sock"].state
    BY <1>7, <1>8 DEF Has
<1>11. pending /\ Connects => closed
    BY <1>2, <1>4 DEF SocketInv
<1>12. SessionInv'
  <2>1. CASE pending
    BY <2>1, <1>1, <1>2, <1>4, <1>9, <1>10 DEF SessionInv, Spelled
  <2>2. CASE ~pending
    BY <2>2, <1>1, <1>2, <1>4, <1>9, <1>10 DEF SessionInv, Spelled
  <2> QED BY <2>1, <2>2
<1>13. PipeDue' <=> PipeDue
    BY <1>1, <1>10 DEF PipeDue
<1>14. ChildDue' <=> ChildDue
    BY <1>1, <1>2, <1>4, <1>9 DEF ChildDue, Spelled
<1>15. SocketInv'
  <2>1. seqnum' = OneIf("own" \in SockMail' \/ "bind" \in SockMail')
    BY <1>1, <1>2, <1>9 DEF SocketInv, OneIf, Spelled
  <2>2. termAcks' = (IF closed' THEN OneIf(PipeDue') + OneIf(ChildDue') ELSE 0)
    BY <1>1, <1>2, <1>13, <1>14 DEF SocketInv, OneIf
  <2> QED BY <1>1, <1>2, <1>4, <1>9, <1>10, <1>11, <2>1, <2>2 DEF SocketInv, State, Spelled
<1>16. session' \in {"alive", "deleted"} /\ engine' \in BOOLEAN
    BY <1>1, TypeFacts
<1>17. /\ attached' \in BOOLEAN /\ closed' \in BOOLEAN /\ sending' \in {"no", "written", "dropped"}
       /\ wire' \in BOOLEAN \X BOOLEAN \X BOOLEAN /\ pending' \in BOOLEAN
       /\ conns' \in 0 .. MaxConn
       /\ owner' \in {"launched", "owned", "asked", "freed"} /\ listener' \in {"open", "closing"}
    BY <1>1 DEF IInv, TypeOK
<1> QED BY <1>8, <1>12, <1>15, <1>16, <1>17, Assembled

------------------------------------------------------------------------------
(* The first theorems *)

\* A new end.
LEMMA NewEndType ==
    ASSUME NEW e \in End, NEW state \in States
    PROVE  /\ NewEnd(e, state) \in EndType
           /\ NewEnd(e, state).state = state
           /\ NewEnd(e, state).in = (IF e = "sock" THEN 1 ELSE 2)
           /\ NewEnd(e, state).out = (IF e = "sock" THEN 2 ELSE 1)
BY DEF NewEnd, EndType

\* The net in the beginning.
LEMMA InitPair ==
    ASSUME NEW k
    PROVE  LET n == InitNet(k)
               connects == k \in {"REQ", "SUB"}
           IN /\ Both(n)
              /\ Types(n.mail["sock"]) = IF connects THEN {"own"} ELSE {}
              /\ Types(n.mail["sess"]) = {}
              /\ \A e \in End : n.end[e].state = IF connects THEN "active" ELSE "none"
<1> DEFINE n == InitNet(k)
           connects == k \in {"REQ", "SUB"}
           state == IF connects THEN "active" ELSE "none"
           M == IF connects THEN <<<<"own", 0>>>> ELSE <<>>
           E == [e \in End |-> NewEnd(e, state)]
           B == [e \in End |-> IF e = "sock" /\ connects THEN <<<<"own", 0>>>> ELSE <<>>]
           Z == [e \in End |-> <<>>]
           Q == <<NewQueue, NewQueue>>
<1>1. n = [end |-> E, queue |-> Q, mail |-> B, sent |-> Z, got |-> Z]
    BY DEF InitNet
<1>2. state \in States /\ state \in {"active", "none"} /\ "sock" \in End /\ "sess" \in End
      /\ Peer("sock") = "sess" /\ Peer("sess") = "sock"
    BY DEF States, End, Peer
<1>3. B["sock"] = M /\ B["sess"] = <<>>
    BY <1>2
<1>4. M \in Seq(Cmd) /\ Types(M) = (IF connects THEN {"own"} ELSE {}) /\ Ordered(M)
  <2>1. CASE connects
    <3>1. M = <<<<"own", 0>>>>
      BY <2>1
    <3>2. <<"own", 0>> \in Cmd
      BY DEF Cmd, OwnTypes
    <3> HIDE DEF M
    <3>3. M \in Seq(Cmd) /\ DOMAIN M = {1} /\ M[1][1] = "own"
      BY <3>1, <3>2
    <3> QED BY <2>1, <3>3 DEF Types, Ordered
  <2>2. CASE ~connects
    <3>1. M = <<>>
      BY <2>2
    <3> QED BY <2>2, <3>1 DEF Types, Ordered
  <2> QED BY <2>1, <2>2
<1>5. <<>> \in Seq(Cmd) /\ Types(<<>>) = {} /\ Ordered(<<>>)
    BY DEF Types, Ordered
<1> HIDE DEF M, state
<1>6. E \in [End -> EndType] /\ \A e \in End : E[e] = NewEnd(e, state)
    BY <1>2, NewEndType
<1>7. B \in [End -> Seq(Cmd)] /\ Z \in [End -> Seq(Frame)]
  <2>1. \A e \in End : B[e] \in Seq(Cmd)
    BY <1>3, <1>4, <1>5 DEF End
  <2> HIDE DEF connects
  <2> QED BY <2>1
<1>8. Q \in Seq(QueueType) /\ Len(Q) = 2 /\ DOMAIN Q = {1, 2} /\ Q[1] = NewQueue /\ Q[2] = NewQueue
    BY NewQueueType
<1> HIDE DEF E, B, Z, Q, n
<1>9. n \in NetType
    BY <1>1, <1>6, <1>7, <1>8 DEF NetType
<1>10. /\ n.end["sock"].state = state /\ n.end["sess"].state = state
       /\ n.end["sock"].in = 1 /\ n.end["sock"].out = 2 /\ n.end["sess"].in = 2 /\ n.end["sess"].out = 1
       /\ n.mail["sock"] = M /\ n.mail["sess"] = <<>> /\ n.queue = Q
    BY <1>1, <1>2, <1>3, <1>6, NewEndType
<1>11. Types(M) \cap PipeTypes = {}
    BY <1>4 DEF PipeTypes
<1>12. EndInv(n, "sock") /\ EndInv(n, "sess")
  <2>1. EndOK("sock", state, state, 2, <<>>)
    BY <1>2, <1>5 DEF EndOK, Compatible, Silent, Unasked, NULL
  <2>2. EndOK("sess", state, state, 1, M)
    BY <1>2, <1>4, <1>11 DEF EndOK, Compatible, Silent, Unasked, NULL, PipeTypes
  <2> QED BY <2>1, <2>2, <1>2, <1>10 DEF EndInv
<1>13. RefInv(n)
    BY <1>8, <1>10 DEF RefInv, End
<1>14. QueueInv(n)
  <2>1. HiccupsOK(M, 2, 2)
    <3>1. "hiccup" \notin Types(M)
      BY <1>4
    <3> QED BY <3>1, <1>4, NoHiccups
  <2>2. ~Q[1].deleted /\ ~Q[2].deleted
    BY <1>8 DEF NewQueue
  <2>3. state # "deleted"
    BY <1>2
  <2>4. \A q \in 2 .. 2 - 1 : n.queue[q].deleted <=> 2 = NULL \/ q < 2
    OBVIOUS
  <2>5. /\ Len(n.queue) = 2 /\ n.queue[1] = Q[1] /\ n.queue[2] = Q[2]
        /\ n.end["sock"].out = 2 /\ n.end["sess"].out = 1
    BY <1>8, <1>10
  <2>6. /\ n.queue[1].deleted <=> n.end["sock"].state = "deleted"
        /\ n.queue[2].deleted <=> n.end["sess"].state = "deleted"
    BY <2>2, <2>3, <2>5, <1>10
  <2>7. HiccupsOK(n.mail["sock"], 2, 2)
    BY <2>1, <1>10
  <2> HIDE DEF state
  <2> QED BY <2>4, <2>5, <2>6, <2>7, <1>10 DEF QueueInv, NULL
<1>15. \A e \in End : n.end[e].state = IF connects THEN "active" ELSE "none"
    BY <1>10 DEF End, state
<1> QED BY <1>4, <1>5, <1>9, <1>10, <1>12, <1>13, <1>14, <1>15 DEF Both, PairInv, n

\* The initial states satisfy the invariant.
LEMMA InitInv == Init => IInv
<1> SUFFICES ASSUME Init PROVE IInv
    OBVIOUS
<1>1. /\ Both(net)
      /\ SockMail = (IF Connects THEN {"own"} ELSE {}) /\ SessMail = {}
      /\ \A e \in End : net.end[e].state = IF Connects THEN "active" ELSE "none"
    BY InitPair DEF Init, Connects, SockMail, SessMail
<1>2. "sock" \in End /\ "sess" \in End
    BY DEF End
<1>3. /\ kind \in Kind
      /\ attached = Connects /\ closed = FALSE /\ termAcks = 0
      /\ seqnum = (IF Connects THEN 1 ELSE 0)
      /\ sending = "no"
      /\ engine = FALSE /\ conns = 0 /\ half = FALSE /\ midway = FALSE /\ given = FALSE /\ pending = FALSE
      /\ session = "alive"
      /\ owner = (IF Connects THEN "launched" ELSE "owned") /\ listener = "open"
    BY DEF Init
<1>4. SessionInv
    BY <1>1, <1>3 DEF SessionInv
<1>5. SocketInv
    BY <1>1, <1>2, <1>3 DEF SocketInv, State, OneIf
<1>6. TypeOK
  <2>1. net.end \in [End -> EndType]
    BY <1>1, NetFields DEF Both, PairInv
  <2>2. 0 \in 0 .. MaxConn
    BY PipeAssumption
  <2>3. attached \in BOOLEAN
    BY <1>3 DEF Connects
  <2>4. wire \in BOOLEAN \X BOOLEAN \X BOOLEAN
    BY <1>3 DEF wire
  <2>5. /\ termAcks \in 0 .. 2 /\ seqnum \in 0 .. 1 /\ conns \in 0 .. MaxConn
        /\ owner \in {"launched", "owned", "asked", "freed"}
    BY <1>3, <2>2
  <2> QED BY <1>3, <2>1, <2>3, <2>4, <2>5 DEF TypeOK
<1> QED BY <1>1, <1>4, <1>5, <1>6 DEF IInv, Both

\* So do states in which nothing changes.
LEMMA StayInv ==
    ASSUME IInv, UNCHANGED vars
    PROVE  IInv'
<1>1. /\ net' = net
      /\ UNCHANGED <<kind, attached, closed, termAcks, seqnum, conns, pending, session, owner, listener>>
      /\ engine' = engine /\ sending' = sending /\ <<half, midway, given>>' = wire
    BY DEF vars, sockVars, sessVars, ownVars, wire
<1>2. Both(net') /\ Alike(net, net')
    BY <1>1, InvFacts DEF Alike
<1> QED BY <1>1, <1>2, PipeOnly, TypeFacts

\* The invariant is inductive.
LEMMA NextInv == IInv /\ [Next]_vars => IInv'
<1> SUFFICES ASSUME IInv, [Next]_vars PROVE IInv'
    OBVIOUS
<1>0. "sock" \in End /\ "sess" \in End
    BY DEF End
<1>1. CASE SendWhole      BY <1>1, SendWholeInv
<1>2. CASE SendFirst      BY <1>2, SendFirstInv
<1>3. CASE SendLast       BY <1>3, SendLastInv
<1>4. CASE Receive        BY <1>4, ReceiveInv
<1>5. CASE ReceiveRequest BY <1>5, ReceiveRequestInv
<1>6. CASE Close          BY <1>6, CloseInv
<1>7. CASE EngineReady    BY <1>7, EngineReadyInv
<1>8. CASE Push           BY <1>8, PushInv
<1>9. CASE Pull           BY <1>9, PullInv
<1>10. CASE EngineError   BY <1>10, EngineErrorInv
<1>11. CASE SocketCommand
    BY <1>0, <1>11, ActivateReadInv, ActivateWriteInv, PipeTermInv, ProcessHiccupInv,
       SocketPipeTermAckInv, BindInv, OwnInv, TermAckInv DEF SocketCommand
<1>12. CASE SessionCommand
    BY <1>0, <1>12, ActivateReadInv, ActivateWriteInv, PipeTermInv,
       SessionPipeTermAckInv, TermInv, TermListenerInv, TermReqInv, ChildAckInv DEF SessionCommand
<1>13. CASE UNCHANGED vars
    BY <1>13, StayInv
<1> QED BY <1>1, <1>2, <1>3, <1>4, <1>5, <1>6, <1>7, <1>8, <1>9, <1>10, <1>11, <1>12, <1>13 DEF Next

\* A socket that has gone has left nothing behind.
LEMMA GoneFacts ==
    ASSUME IInv, Gone
    PROVE  /\ session = "deleted" /\ ~Has(net, "sock") /\ ~Has(net, "sess")
           /\ \A e \in End : net.mail[e] = <<>>
<1>1. SessionInv /\ SocketInv /\ closed /\ termAcks = 0 /\ seqnum = 0
    BY DEF IInv, Gone
<1>2. ~PipeDue /\ ~ChildDue
    BY <1>1 DEF SocketInv, OneIf
<1>3. "own" \notin SockMail /\ "bind" \notin SockMail
    BY <1>1 DEF SocketInv, OneIf
<1>4. session = "deleted" /\ "term_ack" \notin SockMail
      /\ (Connects \/ (listener = "closing" /\ owner = "freed"))
  <2>1. CASE Connects
    <3>1. owner = "asked"
      BY <2>1, <1>1, <1>3 DEF SocketInv
    <3> QED BY <3>1, <2>1, <1>2, TypeFacts DEF ChildDue
  <2>2. CASE ~Connects
    BY <2>2, <1>1, <1>2 DEF ChildDue, SessionInv
  <2> QED BY <2>1, <2>2
<1>5. ~Has(net, "sess")
    BY <1>1, <1>4 DEF SessionInv
<1>6. ~Has(net, "sock")
  <2>1. CASE attached
    BY <2>1, <1>2 DEF PipeDue
  <2>2. CASE ~attached
    <3>1. ~Connects /\ conns # 1 /\ conns <= 1
      BY <2>2, <1>1, <1>3 DEF SocketInv
    <3>2. conns = 0
      BY <3>1, PipeAssumption DEF IInv, TypeOK
    <3> QED BY <3>1, <3>2, <1>1 DEF SocketInv, Has
  <2> QED BY <2>1, <2>2
<1>7. EndInv(net, "sock") /\ EndInv(net, "sess")
    BY InvFacts DEF PairInv
<1>8. SockMail \cap PipeTypes = {} /\ SessMail \cap PipeTypes = {}
    BY <1>5, <1>6, <1>7, InvFacts DEF EndInv, EndOK, Has, SockMail, SessMail
<1>9. /\ "term" \notin SessMail /\ "child_ack" \notin SessMail /\ "term_req" \notin SessMail
      /\ "term_listener" \notin SessMail
      /\ "own" \notin SessMail /\ "bind" \notin SessMail /\ "term_ack" \notin SessMail
    BY <1>1, <1>4 DEF SessionInv
<1>10. /\ "term" \notin SockMail /\ "term_listener" \notin SockMail
       /\ "term_req" \notin SockMail /\ "child_ack" \notin SockMail
    BY <1>1 DEF SocketInv
<1>11. \A M \in Seq(Cmd) : M # <<>> => \E t \in PipeTypes \cup OwnTypes : t \in Types(M)
  <2> SUFFICES ASSUME NEW M \in Seq(Cmd), M # <<>>
               PROVE  \E t \in PipeTypes \cup OwnTypes : t \in Types(M)
    OBVIOUS
  <2>1. 1 \in DOMAIN M /\ M[1] \in Cmd
    OBVIOUS
  <2>2. M[1][1] \in PipeTypes \cup OwnTypes /\ M[1][1] \in Types(M)
    BY <2>1 DEF Cmd, Types
  <2> QED BY <2>2
<1>12. net.mail["sock"] \in Seq(Cmd) /\ net.mail["sess"] \in Seq(Cmd)
    BY InvFacts, NetFields
<1>13. net.mail["sock"] = <<>>
    BY <1>3, <1>4, <1>8, <1>10, <1>11, <1>12 DEF SockMail, OwnTypes
<1>14. net.mail["sess"] = <<>>
    BY <1>8, <1>9, <1>11, <1>12 DEF SessMail, OwnTypes
<1> QED BY <1>4, <1>5, <1>6, <1>13, <1>14 DEF End

\* The invariant implies CommandsFindTheirTarget.
LEMMA TargetsFound == IInv => CommandsFindTheirTarget
<1> SUFFICES ASSUME IInv PROVE CommandsFindTheirTarget
    OBVIOUS
<1>1. ASSUME NEW e \in End, net.mail[e] # <<>> PROVE Expected(e, Command(e)[1])
  <2> DEFINE M == net.mail[e]
             type == Command(e)[1]
  <2>1. M \in Seq(Cmd) /\ type = Head(M)[1] /\ EndInv(net, Peer(e)) /\ EndInv(net, e)
        /\ Peer(Peer(e)) = e /\ Peer(e) \in End
    BY InvFacts, NetFields, EndFacts DEF Command
  <2>2. type \in Types(M)
    <3> HIDE DEF M
    <3>1. M # <<>>
      BY <1>1 DEF M
    <3> QED BY <2>1, <3>1, Taken
  <2>3. type \in PipeTypes => Has(net, e)
    BY <2>1, <2>2 DEF EndInv, EndOK, Has
  <2>4. type = "pipe_term" => State(e) \in {"active", "delimiter_received", "term_req_sent1"}
    BY <2>1, <2>2 DEF EndInv, EndOK, State, Unasked
  <2>5. type = "pipe_term_ack" => State(e) \in {"term_ack_sent", "term_req_sent1", "term_req_sent2"}
    <3> SUFFICES ASSUME type = "pipe_term_ack"
                 PROVE  State(e) \in {"term_ack_sent", "term_req_sent1", "term_req_sent2"}
      OBVIOUS
    <3>1. Arrives(e, "pipe_term_ack")
      BY <1>1 DEF Arrives
    <3> QED BY <3>1, RestEnding DEF Ending, State
  <2>6. type = "hiccup" => net.end[e].out # NULL
    BY <2>1, <2>2 DEF EndInv, EndOK, Unasked, Silent
  <2>7. type = "term" => session = "alive" /\ ~pending
    <3>1. SessionInv /\ SocketInv
      BY DEF IInv
    <3>2. CASE e = "sock"
      BY <2>2, <3>1, <3>2 DEF SocketInv, SockMail
    <3>3. CASE e = "sess"
      BY <2>2, <3>1, <3>3 DEF SessionInv, SessMail
    <3> QED BY <3>2, <3>3 DEF End
  <2> HIDE DEF M, type
  <2> QED BY <2>3, <2>4, <2>5, <2>6, <2>7 DEF Expected, PipeTypes, type
<1>2. Gone => /\ session = "deleted" /\ ~Has(net, "sock") /\ ~Has(net, "sess")
              /\ \A e \in End : net.mail[e] = <<>>
    BY GoneFacts
<1> QED BY <1>1, <1>2 DEF CommandsFindTheirTarget

\* The invariant implies QueuesAreFreedOnce.
LEMMA QueuesFreed == IInv => QueuesAreFreedOnce
<1> SUFFICES ASSUME IInv PROVE QueuesAreFreedOnce
    OBVIOUS
<1> DEFINE last == Len(net.queue)
           out == net.end["sock"].out
<1>1. net \in NetType /\ RefInv(net) /\ EndInv(net, "sock") /\ EndInv(net, "sess")
      /\ "sock" \in End /\ "sess" \in End /\ Peer("sock") = "sess" /\ Peer("sess") = "sock"
    BY InvFacts DEF PairInv
<1>2. last \in Nat /\ DOMAIN net.queue = 1 .. last /\ out \in Nat /\ out \in {NULL} \cup (1 .. last)
  <2>1. last \in Nat /\ DOMAIN net.queue = 1 .. last
    BY <1>1, QueueLen
  <2>2. out \in Nat
    BY <1>1, SockFields
  <2> QED BY <1>1, <2>1, <2>2 DEF RefInv
<1>3. /\ last >= 2 /\ net.end["sock"].in = 1 /\ net.end["sess"].in = last
      /\ net.end["sess"].out \in {NULL, 1} /\ out # 1
      /\ net.queue[1].deleted <=> net.end["sock"].state = "deleted"
      /\ net.queue[last].deleted <=> net.end["sess"].state = "deleted"
      /\ \A q \in 2 .. last - 1 : net.queue[q].deleted <=> out = NULL \/ q < out
    BY InvFacts DEF QueueInv
<1>4. /\ out # NULL => net.end["sock"].state \notin Silent
      /\ net.end["sess"].out # NULL => net.end["sess"].state \notin Silent
      /\ Compatible(net.end["sock"].state, net.end["sess"].state)
      /\ Compatible(net.end["sess"].state, net.end["sock"].state)
    BY <1>1 DEF EndInv, EndOK
<1>5. /\ out # NULL => net.end["sess"].state # "deleted"
      /\ net.end["sess"].out # NULL => net.end["sock"].state # "deleted"
      /\ net.end["sock"].state = "deleted" => out = NULL
  <2>1. "deleted" \in Silent
    BY DEF Silent
  <2> QED BY <2>1, <1>4 DEF Compatible
<1>6. ASSUME NEW e \in End, Has(net, e)
      PROVE  /\ ~InQueue(net, e).deleted
             /\ net.end[e].out # NULL => ~OutQueue(net, e).deleted
  <2>1. CASE e = "sock"
    <3>1. ~InQueue(net, e).deleted
      BY <1>3, <1>6, <2>1 DEF InQueue, Has
    <3>2. ASSUME out # NULL PROVE ~net.queue[out].deleted
      <4>1. out \in 2 .. last
        BY <3>2, <1>2, <1>3
      <4>2. CASE out = last
        BY <3>2, <4>2, <1>3, <1>5
      <4>3. CASE out # last
        <5>1. out \in 2 .. last - 1 /\ ~(out < out)
          BY <4>1, <4>3, <1>2
        <5> HIDE DEF out, last
        <5> QED BY <5>1, <3>2, <1>3
      <4> QED BY <4>2, <4>3
    <3> QED BY <2>1, <3>1, <3>2 DEF OutQueue
  <2>2. CASE e = "sess"
    BY <1>3, <1>5, <1>6, <2>2 DEF InQueue, OutQueue, Has
  <2> QED BY <2>1, <2>2 DEF End
<1>7. ASSUME Gone, NEW e \in End, State(e) = "deleted"
      PROVE  \A q \in DOMAIN net.queue : net.queue[q].deleted
  <2>1. ~Has(net, "sock") /\ ~Has(net, "sess")
    BY <1>7, GoneFacts
  <2>2. net.end["sock"].state \in {"none", "deleted"} /\ net.end["sess"].state \in {"none", "deleted"}
        /\ (net.end["sock"].state = "none" <=> net.end["sess"].state = "none")
    BY <2>1, <1>4 DEF Has, Compatible
  <2>3. net.end["sock"].state = "deleted" /\ net.end["sess"].state = "deleted"
    BY <2>2, <1>7 DEF State, End
  <2>4. out = NULL
    BY <2>3, <1>5
  <2> HIDE DEF out, last
  <2> TAKE q \in DOMAIN net.queue
  <2>5. q = 1 \/ q = last \/ q \in 2 .. last - 1
    BY <1>2
  <2> QED BY <2>3, <2>4, <2>5, <1>3
<1> QED BY <1>6, <1>7 DEF QueuesAreFreedOnce

\* In every reachable state the states of the ends, the commands under way, the
\* queues and the counts of the owners agree (pipe.cpp, own.cpp, session_base.cpp).
THEOREM Inductive == Spec => []IInv
BY InitInv, NextInv, PTL DEF Spec

\* All variables stay in their ranges: the counts of acknowledgements (own.cpp)
\* never exceed those of the objects that owe one.
THEOREM TypeCorrect == Spec => []TypeOK
<1>1. IInv => TypeOK
    BY DEF IInv
<1> QED BY <1>1, Inductive, PTL

\* A command finds the object it was sent to, in a state that its handler expects
\* (the assertions of pipe.cpp's process_ functions); and a socket that is freed
\* has left no session, no end and no command behind.
THEOREM CommandsArrive == Spec => []CommandsFindTheirTarget
BY Inductive, TargetsFound, PTL

\* An end that exists reads and writes queues that are not freed; when the socket
\* has gone, all queues are (pipe.cpp, process_pipe_term_ack and process_hiccup).
THEOREM QueuesFreedOnce == Spec => []QueuesAreFreedOnce
BY Inductive, QueuesFreed, PTL

------------------------------------------------------------------------------
(* The counts of messages: the fifth layer *)

\* The reports in a writer's mailbox: in order, and between what it knows that
\* its peer has read and what the peer has read.
Reports(mail, known, read) ==
    /\ \A i \in DOMAIN mail : mail[i][1] = "activate_write" => known <= mail[i][2] /\ mail[i][2] <= read
    /\ \A i, j \in DOMAIN mail :
          i < j /\ mail[i][1] = "activate_write" /\ mail[j][1] = "activate_write" => mail[i][2] <= mail[j][2]

\* The counts of a writer and of its peer, and the queue between them.
Settled(written, known, read, ready, part, mail) ==
    /\ written - read = Count(ready) /\ written - known <= HWM /\ known <= read
    /\ \A i \in DOMAIN ready : ready[i] # DELIMITER
    /\ \A i \in DOMAIN part : More(part[i])
    /\ Reports(mail, known, read)

\* While the end e is active, its counts agree with its queue.
FlowInv(n, e) ==
    n.end[e].state = "active" =>
        Settled(n.end[e].written, n.end[e].peersRead, n.end[Peer(e)].read,
                n.queue[n.end[e].out].ready, n.queue[n.end[e].out].part, n.mail[e])

\* Nothing has been written to a queue the socket does not know yet, or before
\* there is a pipe.
Unwritten(n, q) ==
    \/ n.end["sock"].out # NULL /\ n.end["sock"].out < q
    \/ n.end["sock"].state = "none"
Ahead(n) ==
    \A q \in DOMAIN n.queue :
        Unwritten(n, q) => n.queue[q].ready = <<>> /\ n.queue[q].part = <<>>

Flows(n) == FlowInv(n, "sock") /\ FlowInv(n, "sess") /\ Ahead(n)

\* Messages in two parts of a sequence.
LEMMA CountConcat ==
    ASSUME NEW s \in Seq(Frame), NEW t \in Seq(Frame)
    PROVE  Count(s \o t) = Count(s) + Count(t)
<1> DEFINE a == s \o t
           A == {i \in DOMAIN s : ~More(s[i])}
           B == {i \in DOMAIN t : ~More(t[i])}
           C == {i \in DOMAIN a : ~More(a[i])}
           D == {i \in C : i > Len(s)}
           f == [i \in B |-> i + Len(s)]
<1>1. /\ Len(s) \in Nat /\ Len(t) \in Nat /\ DOMAIN s = 1 .. Len(s) /\ DOMAIN t = 1 .. Len(t)
      /\ DOMAIN a = 1 .. Len(s) + Len(t)
      /\ \A i \in 1 .. Len(s) : a[i] = s[i]
      /\ \A i \in 1 .. Len(t) : a[i + Len(s)] = t[i]
    OBVIOUS
<1> HIDE DEF a
<1>2. IsFiniteSet(A) /\ IsFiniteSet(B) /\ IsFiniteSet(C)
  <2>1. IsFiniteSet(1 .. Len(s)) /\ IsFiniteSet(1 .. Len(t)) /\ IsFiniteSet(1 .. Len(s) + Len(t))
    BY <1>1, FS_Interval
  <2>2. A \in SUBSET (1 .. Len(s)) /\ B \in SUBSET (1 .. Len(t)) /\ C \in SUBSET (1 .. Len(s) + Len(t))
    BY <1>1
  <2> HIDE DEF A, B, C
  <2> QED BY <2>1, <2>2, FS_Subset
<1>3. f \in Bijection(B, D)
  <2>1. \A i \in B : i + Len(s) \in D /\ i \in Int
    BY <1>1
  <2>2. ASSUME NEW j \in D PROVE j - Len(s) \in B /\ (j - Len(s)) + Len(s) = j
    <3>1. j - Len(s) \in 1 .. Len(t) /\ (j - Len(s)) + Len(s) = j /\ ~More(a[j])
      BY <1>1
    <3>2. a[(j - Len(s)) + Len(s)] = t[j - Len(s)]
      BY <1>1, <3>1
    <3> QED BY <1>1, <3>1, <3>2
  <2>3. f \in [B -> D]
    BY <2>1
  <2>4. \A i, j \in B : f[i] = f[j] => i = j
    BY <2>1, <1>1
  <2>5. \A j \in D : \E i \in B : f[i] = j
    BY <2>2
  <2> HIDE DEF f, B, D
  <2> QED BY <2>3, <2>4, <2>5 DEF Bijection, Injection, Surjection, IsInjective
<1>4. IsFiniteSet(D) /\ Cardinality(D) = Cardinality(B)
  <2>1. ExistsBijection(B, D)
    BY <1>3 DEF ExistsBijection
  <2> HIDE DEF B, D, f
  <2> QED BY <1>2, <2>1, FS_Bijection
<1>5. C = A \cup D /\ A \cap D = {}
    BY <1>1
<1>6. Cardinality(C) = Cardinality(A) + Cardinality(D)
  <2> HIDE DEF A, C, D
  <2>1. Cardinality(A \cup D) = Cardinality(A) + Cardinality(D) - Cardinality(A \cap D)
    BY <1>2, <1>4, FS_Union
  <2>2. Cardinality(A) \in Nat /\ Cardinality(D) \in Nat
    BY <1>2, <1>4, FS_CardinalityType
  <2>3. Cardinality(A \cap D) = 0
    BY <1>5, FS_EmptySet
  <2> QED BY <2>1, <2>2, <2>3, <1>5
<1> QED BY <1>4, <1>6 DEF Count, a

\* A message that is not complete counts for nothing.
LEMMA CountPart ==
    ASSUME NEW s \in Seq(Frame), \A i \in DOMAIN s : More(s[i])
    PROVE  Count(s) = 0
<1>1. {i \in DOMAIN s : ~More(s[i])} = {}
    OBVIOUS
<1> QED BY <1>1, FS_EmptySet DEF Count

\* An empty queue holds no message.
LEMMA CountEmpty == Count(<<>>) = 0
<1>1. <<>> \in Seq(Frame) /\ \A i \in DOMAIN <<>> : More(<<>>[i])
    OBVIOUS
<1> QED BY <1>1, CountPart

\* A frame counts if it is the last of its message.
LEMMA CountOne ==
    ASSUME NEW f \in Frame
    PROVE  Count(<<f>>) = IF More(f) THEN 0 ELSE 1
<1>1. CASE More(f)
  <2>1. \A i \in DOMAIN <<f>> : More(<<f>>[i])
    BY <1>1
  <2>2. <<f>> \in Seq(Frame)
    OBVIOUS
  <2> QED BY <1>1, <2>1, <2>2, CountPart
<1>2. CASE ~More(f)
  <2>1. {i \in DOMAIN <<f>> : ~More(<<f>>[i])} = {1}
    BY <1>2
  <2> QED BY <1>2, <2>1, FS_Singleton DEF Count
<1> QED BY <1>1, <1>2

\* A message is written.
LEMMA CountMessage ==
    ASSUME NEW s \in Seq(Frame), NEW part \in Seq(Frame), \A i \in DOMAIN part : More(part[i]),
           NEW f \in Frame, ~More(f)
    PROVE  Count(s \o Append(part, f)) = Count(s) + 1
<1>1. Append(part, f) = part \o <<f>> /\ <<f>> \in Seq(Frame) /\ Append(part, f) \in Seq(Frame)
    OBVIOUS
<1>2. Count(part \o <<f>>) = Count(part) + Count(<<f>>)
    BY <1>1, CountConcat
<1>3. Count(part) = 0 /\ Count(<<f>>) = 1
    BY CountPart, CountOne
<1>4. Count(s \o Append(part, f)) = Count(s) + Count(Append(part, f))
    BY <1>1, CountConcat
<1>5. Count(Append(part, f)) = 1
    BY <1>1, <1>2, <1>3
<1> QED BY <1>4, <1>5

\* A frame is read.
LEMMA CountTail ==
    ASSUME NEW s \in Seq(Frame), s # <<>>
    PROVE  Count(s) = (IF More(Head(s)) THEN 0 ELSE 1) + Count(Tail(s))
<1>1. Head(s) \in Frame /\ Tail(s) \in Seq(Frame) /\ s = <<Head(s)>> \o Tail(s)
    OBVIOUS
<1> DEFINE h == Head(s)  t == Tail(s)
<1> HIDE DEF h, t
<1>2. Count(<<h>> \o t) = Count(<<h>>) + Count(t) /\ Count(<<h>>) = IF More(h) THEN 0 ELSE 1
  <2>1. h \in Frame /\ t \in Seq(Frame) /\ <<h>> \in Seq(Frame)
    BY <1>1 DEF h, t
  <2> QED BY <2>1, CountConcat, CountOne
<1> QED BY <1>1, <1>2 DEF h, t

\* Reports when the mailbox, what is known and what is read change.
LEMMA ReportsAppended ==
    ASSUME NEW M \in Seq(Cmd), NEW known \in Nat, NEW read \in Nat, Reports(M, known, read),
           NEW c \in Cmd, NEW r \in Nat, read <= r, c[1] = "activate_write" => c[2] = r /\ known <= r
    PROVE  Reports(Append(M, c), known, r)
<1> DEFINE a == Append(M, c)
<1>1. /\ Len(M) \in Nat /\ DOMAIN a = 1 .. Len(M) + 1 /\ DOMAIN M = 1 .. Len(M)
      /\ \A i \in 1 .. Len(M) : a[i] = M[i] /\ M[i] \in Cmd
      /\ a[Len(M) + 1] = c
    OBVIOUS
<1> HIDE DEF a
<1>2. \A x \in Cmd : x[2] \in Nat
    BY DEF Cmd
<1>3. \A i \in DOMAIN a : a[i][1] = "activate_write" => known <= a[i][2] /\ a[i][2] <= r
  <2> TAKE i \in DOMAIN a
  <2>1. CASE i \in 1 .. Len(M)
    BY <1>1, <1>2, <2>1 DEF Reports
  <2>2. CASE i = Len(M) + 1
    BY <1>1, <2>2
  <2> QED BY <2>1, <2>2, <1>1
<1>4. ASSUME NEW i \in DOMAIN a, NEW j \in DOMAIN a, i < j,
             a[i][1] = "activate_write", a[j][1] = "activate_write"
      PROVE  a[i][2] <= a[j][2]
  <2>1. i \in 1 .. Len(M)
    BY <1>1, <1>4
  <2>2. CASE j \in 1 .. Len(M)
    BY <1>1, <1>4, <2>1, <2>2 DEF Reports
  <2>3. CASE j = Len(M) + 1
    BY <1>1, <1>2, <1>3, <1>4, <2>1, <2>3
  <2> QED BY <2>2, <2>3, <1>1
<1> QED BY <1>3, <1>4 DEF Reports, a

\* A command is taken from a writer's mailbox.
LEMMA ReportsTaken ==
    ASSUME NEW M \in Seq(Cmd), NEW known \in Nat, NEW read \in Nat, Reports(M, known, read), M # <<>>
    PROVE  /\ Reports(Tail(M), known, read)
           /\ Head(M)[1] = "activate_write" =>
                /\ Head(M)[2] \in Nat /\ known <= Head(M)[2] /\ Head(M)[2] <= read
                /\ Reports(Tail(M), Head(M)[2], read)
<1> DEFINE r == Tail(M)
<1>1. /\ Len(M) \in Nat \ {0} /\ DOMAIN M = 1 .. Len(M) /\ DOMAIN r = 1 .. Len(M) - 1
      /\ \A i \in 1 .. Len(M) - 1 : r[i] = M[i + 1]
      /\ Head(M) = M[1] /\ M[1] \in Cmd
    OBVIOUS
<1> HIDE DEF r
<1>2. \A i \in DOMAIN r : i + 1 \in DOMAIN M /\ 1 < i + 1 /\ r[i] = M[i + 1]
    BY <1>1
<1>3. 1 \in DOMAIN M /\ \A i, j \in DOMAIN r : i < j => i + 1 < j + 1
    BY <1>1
<1>4. Reports(r, known, read)
    BY <1>2, <1>3 DEF Reports
<1>5. ASSUME Head(M)[1] = "activate_write"
      PROVE  /\ Head(M)[2] \in Nat /\ known <= Head(M)[2] /\ Head(M)[2] <= read
             /\ Reports(r, Head(M)[2], read)
  <2>1. Head(M)[2] \in Nat
    BY <1>1 DEF Cmd
  <2>2. known <= Head(M)[2] /\ Head(M)[2] <= read
    BY <1>1, <1>3, <1>5 DEF Reports
  <2>3. Reports(r, Head(M)[2], read)
    BY <1>1, <1>2, <1>3, <1>5 DEF Reports
  <2> QED BY <2>1, <2>2, <2>3
<1> QED BY <1>4, <1>5 DEF r

\* A reader that takes many messages reports in order.
LEMMA ReportsBatch ==
    ASSUME NEW M \in Seq(Cmd), NEW known \in Nat, NEW read \in Nat, Reports(M, known, read), known <= read,
           NEW r \in Nat, read <= r, NEW d \in Seq(Cmd), Reported(d, read, r)
    PROVE  Reports(Cat(M, d), known, r)
<1> DEFINE a == M \o d
<1>1. /\ Len(M) \in Nat /\ Len(d) \in Nat
      /\ DOMAIN a = 1 .. Len(M) + Len(d) /\ DOMAIN M = 1 .. Len(M) /\ DOMAIN d = 1 .. Len(d)
      /\ \A i \in 1 .. Len(M) : a[i] = M[i] /\ M[i] \in Cmd
      /\ \A i \in 1 .. Len(M) + Len(d) : i > Len(M) => a[i] = d[i - Len(M)] /\ i - Len(M) \in 1 .. Len(d)
      /\ \A i \in 1 .. Len(d) : d[i] \in Cmd
    OBVIOUS
<1> HIDE DEF a
<1>2. \A x \in Cmd : x[2] \in Nat
    BY DEF Cmd
<1>3. \A i \in DOMAIN a : a[i][1] = "activate_write" =>
          /\ known <= a[i][2] /\ a[i][2] <= r
          /\ IF i \in 1 .. Len(M) THEN a[i][2] <= read ELSE read < a[i][2]
  <2> TAKE i \in DOMAIN a
  <2>1. CASE i \in 1 .. Len(M)
    BY <1>1, <1>2, <2>1 DEF Reports
  <2>2. CASE i > Len(M)
    <3>1. i - Len(M) \in DOMAIN d /\ a[i] = d[i - Len(M)] /\ a[i][2] \in Nat
      BY <1>1, <1>2, <2>2
    <3>2. read < a[i][2] /\ a[i][2] <= r
      BY <3>1 DEF Reported
    <3> QED BY <3>1, <3>2, <2>2, <1>1
  <2> QED BY <2>1, <2>2, <1>1
<1>4. ASSUME NEW i \in DOMAIN a, NEW j \in DOMAIN a, i < j,
             a[i][1] = "activate_write", a[j][1] = "activate_write"
      PROVE  a[i][2] <= a[j][2]
  <2>1. CASE j \in 1 .. Len(M)
    <3>1. i \in 1 .. Len(M)
      BY <1>1, <1>4, <2>1
    <3> QED BY <1>1, <1>4, <2>1, <3>1 DEF Reports
  <2>2. CASE i \in 1 .. Len(M) /\ j \notin 1 .. Len(M)
    <3>1. a[i][2] <= read /\ read < a[j][2]
      BY <1>3, <1>4, <2>2
    <3>2. a[i][2] \in Nat /\ a[j][2] \in Nat
      <4>1. a[i] \in Cmd /\ a[j] \in Cmd
        BY <1>1, <1>4
      <4> QED BY <4>1, <1>2
    <3> QED BY <3>1, <3>2
  <2>3. CASE i \notin 1 .. Len(M) /\ j \notin 1 .. Len(M)
    <3>1. /\ i - Len(M) \in DOMAIN d /\ j - Len(M) \in DOMAIN d /\ i - Len(M) < j - Len(M)
          /\ a[i] = d[i - Len(M)] /\ a[j] = d[j - Len(M)]
      BY <1>1, <1>4, <2>3
    <3> QED BY <3>1 DEF Reported
  <2> QED BY <2>1, <2>2, <2>3, <1>1
<1>5. Reports(a, known, r)
  <2>1. \A i \in DOMAIN a : a[i][1] = "activate_write" => known <= a[i][2] /\ a[i][2] <= r
    BY <1>3
  <2> QED BY <2>1, <1>4 DEF Reports
<1> QED BY <1>5 DEF a, Cat

\* A message is written.
LEMMA SettledWrite ==
    ASSUME NEW written \in Int, NEW known \in Nat, NEW read \in Nat, NEW ready \in Seq(Frame),
           NEW part \in Seq(Frame), NEW M, Settled(written, known, read, ready, part, M),
           NEW f \in Frame, ~More(f), f # DELIMITER, ~(written - known >= HWM)
    PROVE  Settled(written + 1, known, read, ready \o Append(part, f), <<>>, M)
<1> DEFINE a == ready \o Append(part, f)
<1>1. Count(a) = Count(ready) + 1
    BY CountMessage DEF Settled
<1>2. ASSUME NEW i \in DOMAIN a PROVE a[i] # DELIMITER
  <2>1. \/ i \in DOMAIN ready /\ a[i] = ready[i]
        \/ i - Len(ready) \in DOMAIN part /\ a[i] = part[i - Len(ready)]
        \/ a[i] = f
    <3>1. \/ i \in DOMAIN ready /\ a[i] = ready[i]
          \/ i - Len(ready) \in DOMAIN Append(part, f) /\ a[i] = Append(part, f)[i - Len(ready)]
      <4> DEFINE x == Append(part, f)
      <4>1. x \in Seq(Frame)
        OBVIOUS
      <4> HIDE DEF x
      <4> QED BY <4>1, <1>2
    <3>2. \A j \in DOMAIN Append(part, f) :
            \/ j \in DOMAIN part /\ Append(part, f)[j] = part[j]
            \/ Append(part, f)[j] = f
      OBVIOUS
    <3> HIDE DEF a
    <3> QED BY <3>1, <3>2
  <2>2. ~More(DELIMITER)
    BY DEF More, DELIMITER
  <2> HIDE DEF a
  <2> QED BY <2>1, <2>2 DEF Settled
<1> HIDE DEF a
<1>3. HWM \in Nat /\ Count(ready) \in Nat
    BY PipeAssumption, CountNat
<1>4. (written + 1) - read = Count(a) /\ (written + 1) - known <= HWM /\ known <= read
    BY <1>1, <1>3 DEF Settled
<1>5. \A i \in DOMAIN <<>> : More(<<>>[i])
    OBVIOUS
<1> QED BY <1>2, <1>4, <1>5 DEF Settled, a

\* A first frame is written.
LEMMA SettledPart ==
    ASSUME NEW written, NEW known, NEW read, NEW ready,
           NEW part \in Seq(Frame), NEW M, Settled(written, known, read, ready, part, M),
           NEW f \in Frame, More(f)
    PROVE  Settled(written, known, read, ready, Append(part, f), M)
<1>1. \A i \in DOMAIN Append(part, f) : \/ i \in DOMAIN part /\ Append(part, f)[i] = part[i]
                                        \/ Append(part, f)[i] = f
    OBVIOUS
<1>2. \A i \in DOMAIN Append(part, f) : More(Append(part, f)[i])
    BY <1>1 DEF Settled
<1> QED BY <1>2 DEF Settled

\* A frame is read, and may be reported.
LEMMA SettledRead ==
    ASSUME NEW written \in Int, NEW known \in Nat, NEW read \in Nat, NEW ready \in Seq(Frame),
           NEW part \in Seq(Frame), NEW M \in Seq(Cmd), Settled(written, known, read, ready, part, M),
           ready # <<>>, NEW r, r = read + (IF More(Head(ready)) THEN 0 ELSE 1),
           NEW N, N = IF r % LWM = 0 THEN Append(M, <<"activate_write", r>>) ELSE M
    PROVE  Settled(written, known, r, Tail(ready), part, N)
<1>1. r \in Nat /\ read <= r
    OBVIOUS
<1>2. Count(ready) = (r - read) + Count(Tail(ready)) /\ Count(Tail(ready)) \in Nat
  <2>1. Tail(ready) \in Seq(Frame)
    OBVIOUS
  <2>2. Count(ready) = (IF More(Head(ready)) THEN 0 ELSE 1) + Count(Tail(ready))
    BY CountTail
  <2>3. Count(Tail(ready)) \in Nat
    BY <2>1, CountNat
  <2> DEFINE x == Count(Tail(ready))  y == Count(ready)
  <2> HIDE DEF x, y
  <2>4. y = (IF More(Head(ready)) THEN 0 ELSE 1) + x /\ x \in Nat
    BY <2>2, <2>3 DEF x, y
  <2>5. y = (r - read) + x
    BY <2>4
  <2> QED BY <2>4, <2>5 DEF x, y
<1>3. <<"activate_write", r>> \in Cmd
    BY <1>1 DEF Cmd, PipeTypes
<1>4. Reports(M, known, read) /\ known <= read
    BY DEF Settled
<1>5. Reports(Append(M, <<"activate_write", r>>), known, r)
    BY <1>1, <1>3, <1>4, ReportsAppended
<1>6. Reports(M, known, r)
  <2>1. \A i \in DOMAIN M : M[i][2] \in Nat
    BY DEF Cmd
  <2> QED BY <1>1, <1>4, <2>1 DEF Reports
<1>7. \A i \in DOMAIN Tail(ready) : Tail(ready)[i] # DELIMITER
  <2>1. \A i \in DOMAIN Tail(ready) : i + 1 \in DOMAIN ready /\ Tail(ready)[i] = ready[i + 1]
    OBVIOUS
  <2> QED BY <2>1 DEF Settled
<1>8. written - r = Count(Tail(ready)) /\ known <= r
    BY <1>1, <1>2, <1>4 DEF Settled
<1> QED BY <1>5, <1>6, <1>7, <1>8 DEF Settled

\* All there is is read.
LEMMA SettledBatch ==
    ASSUME NEW written \in Int, NEW known \in Nat, NEW read \in Nat, NEW ready \in Seq(Frame),
           NEW part \in Seq(Frame), NEW M \in Seq(Cmd), Settled(written, known, read, ready, part, M),
           NEW r, r = read + Count(ready), NEW d \in Seq(Cmd), Reported(d, read, r)
    PROVE  Settled(written, known, r, <<>>, part, Cat(M, d))
<1>1. Count(ready) \in Nat /\ r \in Nat /\ read <= r
    BY CountNat
<1>2. Reports(Cat(M, d), known, r)
    BY <1>1, ReportsBatch DEF Settled
<1>3. written - r = Count(<<>>) /\ known <= r
    BY <1>1, CountEmpty DEF Settled
<1>4. \A i \in DOMAIN <<>> : <<>>[i] # DELIMITER
    OBVIOUS
<1> QED BY <1>2, <1>3, <1>4 DEF Settled

\* The queue is given up for the next one.
LEMMA SettledTurn ==
    ASSUME NEW written \in Int, NEW known \in Nat, NEW read \in Nat, NEW ready \in Seq(Frame),
           NEW part, NEW M, Settled(written, known, read, ready, part, M)
    PROVE  Settled(written - Count(ready), known, read, <<>>, <<>>, M)
<1>1. Count(ready) \in Nat /\ HWM \in Nat
    BY CountNat, PipeAssumption
<1>2. (written - Count(ready)) - read = Count(<<>>) /\ (written - Count(ready)) - known <= HWM
    BY <1>1, CountEmpty DEF Settled
<1> QED BY <1>2 DEF Settled

\* What a mailbox gains that is no report, or loses.
LEMMA SettledSent ==
    ASSUME NEW written, NEW known \in Nat, NEW read \in Nat, NEW ready, NEW part, NEW M \in Seq(Cmd),
           Settled(written, known, read, ready, part, M), NEW c \in Cmd, c[1] # "activate_write"
    PROVE  Settled(written, known, read, ready, part, Append(M, c))
BY ReportsAppended DEF Settled

\* The counts still agree when a command is taken.
LEMMA SettledTaken ==
    ASSUME NEW written, NEW known \in Nat, NEW read \in Nat, NEW ready, NEW part, NEW M \in Seq(Cmd),
           Settled(written, known, read, ready, part, M), M # <<>>
    PROVE  Settled(written, known, read, ready, part, Tail(M))
BY ReportsTaken DEF Settled

\* A report is taken.
LEMMA SettledCredit ==
    ASSUME NEW written \in Int, NEW known \in Nat, NEW read \in Nat, NEW ready, NEW part, NEW M \in Seq(Cmd),
           Settled(written, known, read, ready, part, M), M # <<>>, Head(M)[1] = "activate_write"
    PROVE  Settled(written, Head(M)[2], read, ready, part, Tail(M))
<1>1. /\ Head(M)[2] \in Nat /\ known <= Head(M)[2] /\ Head(M)[2] <= read
      /\ Reports(Tail(M), Head(M)[2], read)
    BY ReportsTaken DEF Settled
<1>2. written - Head(M)[2] <= HWM
    BY <1>1, PipeAssumption DEF Settled
<1> QED BY <1>1, <1>2 DEF Settled

\* They do not see what is not complete.
LEMMA SettledRollback ==
    ASSUME NEW written, NEW known, NEW read, NEW ready, NEW part, NEW M,
           Settled(written, known, read, ready, part, M)
    PROVE  Settled(written, known, read, ready, <<>>, M)
BY DEF Settled

\* A new pipe.
LEMMA SettledNew ==
    ASSUME NEW M \in Seq(Cmd), "activate_write" \notin Types(M)
    PROVE  Settled(0, 0, 0, <<>>, <<>>, M)
<1>1. 0 - 0 = Count(<<>>) /\ 0 - 0 <= HWM
    BY CountEmpty, PipeAssumption
<1>2. \A i \in DOMAIN M : M[i][1] # "activate_write"
    BY DEF Types
<1> QED BY <1>1, <1>2 DEF Settled, Reports

\* What the counts need of the states and of the pointers.
Sound(n) ==
    /\ n \in NetType /\ RefInv(n)
    /\ \A e \in End : (n.end[e].out = NULL) <=> (n.end[e].state \in Silent)
    /\ (n.end["sock"].state = "none") <=> (n.end["sess"].state = "none")
    /\ Len(n.queue) >= 2 /\ n.end["sock"].in = 1 /\ n.end["sess"].in = Len(n.queue)
    /\ n.end["sess"].out \in {NULL, 1} /\ n.end["sock"].out # 1

Layer(n) == Sound(n) /\ Flows(n)

\* No end moves to another queue, or becomes active.
Route(n, m) ==
    /\ m \in NetType /\ DOMAIN m.queue = DOMAIN n.queue
    /\ \A x \in End :
         /\ m.end[x].in = n.end[x].in
         /\ \/ m.end[x].out = n.end[x].out /\ (m.end[x].state \in Silent <=> n.end[x].state \in Silent)
            \/ m.end[x].out = NULL /\ m.end[x].state \in Silent
         /\ m.end[x].state = "active" => n.end[x].state = "active"
         /\ (m.end[x].state = "none") <=> (n.end[x].state = "none")

\* A mailbox with the same reports, or fewer.
Echo(M, N) == \A known, read \in Nat : Reports(M, known, read) => Reports(N, known, read)

\* Nothing is written, and nothing read.
Still(n, m) ==
    /\ Route(n, m)
    /\ \A q \in DOMAIN n.queue : /\ m.queue[q].ready = n.queue[q].ready
                                 /\ m.queue[q].part \in {n.queue[q].part, <<>>}
    /\ \A x \in End : Counters(m.end[x], n.end[x]) /\ Echo(n.mail[x], m.mail[x])

\* The first two layers say what the fifth needs.
LEMMA BothSound ==
    ASSUME NEW n, Both(n)
    PROVE  Sound(n)
<1>1. n \in NetType /\ RefInv(n) /\ EndInv(n, "sock") /\ EndInv(n, "sess") /\ QueueInv(n)
    BY DEF Both, PairInv
<1>2. \A e \in End : (n.end[e].out = NULL) <=> (n.end[e].state \in Silent)
    BY <1>1 DEF EndInv, EndOK, End
<1>3. (n.end["sock"].state = "none") <=> (n.end["sess"].state = "none")
    BY <1>1 DEF EndInv, EndOK, Compatible, Peer
<1>4. /\ Len(n.queue) >= 2 /\ n.end["sock"].in = 1 /\ n.end["sess"].in = Len(n.queue)
      /\ n.end["sess"].out \in {NULL, 1} /\ n.end["sock"].out # 1
    BY <1>1 DEF QueueInv
<1> QED BY <1>1, <1>2, <1>3, <1>4 DEF Sound

\* It stays true while ends and queues stay where they are.
LEMMA RouteSound ==
    ASSUME NEW n, Sound(n), NEW m, Route(n, m)
    PROVE  Sound(m)
<1>0. n \in NetType /\ RefInv(n) /\ m \in NetType /\ DOMAIN m.queue = DOMAIN n.queue
    BY DEF Sound, Route
<1>1. Len(m.queue) = Len(n.queue)
    BY <1>0, QueueLen
<1>2. "sock" \in End /\ "sess" \in End
    BY DEF End
<1>3. RefInv(m)
    BY <1>0 DEF Route, RefInv, NULL
<1>4. \A e \in End : (m.end[e].out = NULL) <=> (m.end[e].state \in Silent)
    BY DEF Route, Sound
<1>5. (m.end["sock"].state = "none") <=> (m.end["sess"].state = "none")
    BY <1>2 DEF Route, Sound
<1>6. /\ Len(m.queue) >= 2 /\ m.end["sock"].in = 1 /\ m.end["sess"].in = Len(m.queue)
      /\ m.end["sess"].out \in {NULL, 1} /\ m.end["sock"].out # 1
    BY <1>1, <1>2 DEF Route, Sound, NULL
<1> QED BY <1>0, <1>3, <1>4, <1>5, <1>6 DEF Sound

\* What may happen to a mailbox that is not about reports.
LEMMA EchoFacts ==
    ASSUME NEW M \in Seq(Cmd)
    PROVE  /\ Echo(M, M)
           /\ \A c \in Cmd : c[1] # "activate_write" => Echo(M, Append(M, c))
           /\ M # <<>> => Echo(M, Tail(M))
<1>1. ASSUME NEW c \in Cmd, c[1] # "activate_write" PROVE Echo(M, Append(M, c))
  <2> SUFFICES ASSUME NEW known \in Nat, NEW read \in Nat, Reports(M, known, read)
               PROVE  Reports(Append(M, c), known, read)
    BY DEF Echo
  <2> QED BY <1>1, ReportsAppended
<1>2. ASSUME M # <<>> PROVE Echo(M, Tail(M))
  <2> SUFFICES ASSUME NEW known \in Nat, NEW read \in Nat, Reports(M, known, read)
               PROVE  Reports(Tail(M), known, read)
    BY DEF Echo
  <2> QED BY <1>2, ReportsTaken
<1> QED BY <1>1, <1>2 DEF Echo

\* Where nothing is written or read the counts still agree.
LEMMA SettledStill ==
    ASSUME NEW written, NEW known \in Nat, NEW read \in Nat, NEW ready, NEW part, NEW M,
           Settled(written, known, read, ready, part, M),
           NEW N, Echo(M, N), NEW p \in {part, <<>>}
    PROVE  Settled(written, known, read, ready, p, N)
BY DEF Settled, Echo

\* One thing after another in which nothing is written or read.
LEMMA StillTransitive ==
    ASSUME NEW n, NEW k, NEW m, Still(n, k), Still(k, m)
    PROVE  Still(n, m)
<1>1. Route(n, m)
    BY DEF Still, Route
<1>2. \A q \in DOMAIN n.queue : /\ m.queue[q].ready = n.queue[q].ready
                                /\ m.queue[q].part \in {n.queue[q].part, <<>>}
    BY DEF Still, Route
<1>3. \A x \in End : Counters(m.end[x], n.end[x]) /\ Echo(n.mail[x], m.mail[x])
    BY DEF Still, Counters, Echo
<1> QED BY <1>1, <1>2, <1>3 DEF Still

\* An active end, and its queue.
LEMMA ActiveOut ==
    ASSUME NEW n, Sound(n), NEW e \in End, n.end[e].state = "active"
    PROVE  /\ n.end[e].out # NULL /\ n.end[e].out \in DOMAIN n.queue
           /\ n.end["sock"].state # "none"
BY Ends DEF Sound, RefInv, Silent, End

\* The counts of an end agree after it,
LEMMA StillFlow ==
    ASSUME NEW n, Sound(n), NEW m, Still(n, m), NEW e \in End, FlowInv(n, e)
    PROVE  FlowInv(m, e)
<1> SUFFICES ASSUME m.end[e].state = "active"
             PROVE  Settled(m.end[e].written, m.end[e].peersRead, m.end[Peer(e)].read,
                        m.queue[m.end[e].out].ready, m.queue[m.end[e].out].part, m.mail[e])
    BY DEF FlowInv
<1> DEFINE q == n.end[e].out
<1>1. n.end[e].state = "active" /\ m.end[e].out = q
    BY DEF Still, Route, Silent
<1>2. q \in DOMAIN n.queue
    BY <1>1, ActiveOut
<1>3. Settled(n.end[e].written, n.end[e].peersRead, n.end[Peer(e)].read,
              n.queue[q].ready, n.queue[q].part, n.mail[e])
    BY <1>1 DEF FlowInv
<1>4. /\ m.end[e].written = n.end[e].written /\ m.end[e].peersRead = n.end[e].peersRead
      /\ m.end[Peer(e)].read = n.end[Peer(e)].read /\ Echo(n.mail[e], m.mail[e])
    BY Ends DEF Still, Counters
<1>5. m.queue[q].ready = n.queue[q].ready /\ m.queue[q].part \in {n.queue[q].part, <<>>}
    BY <1>2 DEF Still
<1>6. n.end[e].peersRead \in Nat /\ n.end[Peer(e)].read \in Nat
    BY NetFields, EndFields, Ends DEF Sound
<1> HIDE DEF q
<1>7. Settled(n.end[e].written, n.end[e].peersRead, n.end[Peer(e)].read,
              n.queue[q].ready, m.queue[q].part, m.mail[e])
    BY <1>3, <1>4, <1>5, <1>6, SettledStill
<1> QED BY <1>1, <1>4, <1>5, <1>7

\* and so does the layer.
LEMMA StillLayer ==
    ASSUME NEW n, Layer(n), NEW m, Still(n, m)
    PROVE  Layer(m)
<1>1. Sound(n) /\ Flows(n) /\ "sock" \in End /\ "sess" \in End
    BY DEF Layer, End
<1>2. Sound(m)
    BY <1>1, RouteSound DEF Still
<1>3. FlowInv(m, "sock") /\ FlowInv(m, "sess")
    BY <1>1, StillFlow DEF Flows
<1>4. Ahead(m)
  <2> SUFFICES ASSUME NEW q \in DOMAIN m.queue, Unwritten(m, q)
               PROVE  m.queue[q].ready = <<>> /\ m.queue[q].part = <<>>
    BY DEF Ahead
  <2>1. q \in DOMAIN n.queue /\ Unwritten(n, q)
    BY <1>1 DEF Still, Route, Unwritten
  <2>2. n.queue[q].ready = <<>> /\ n.queue[q].part = <<>>
    BY <1>1, <2>1 DEF Flows, Ahead
  <2> QED BY <2>1, <2>2 DEF Still
<1> QED BY <1>2, <1>3, <1>4 DEF Layer, Flows

\* The layer from one end and its peer.
LEMMA FlowsIntro ==
    ASSUME NEW m, NEW e \in End, FlowInv(m, e), FlowInv(m, Peer(e)), Ahead(m), Sound(m)
    PROVE  Layer(m)
BY DEF Layer, Flows, End, Peer

\* The two queues of an end are not the same, nor the out queues of the two.
LEMMA Apart ==
    ASSUME NEW n, Sound(n), NEW e \in End
    PROVE  /\ n.end[e].in # n.end[e].out
           /\ n.end[e].out # NULL => n.end[e].out # n.end[Peer(e)].out
           /\ n.end[e].in \in DOMAIN n.queue
           /\ e = "sock" /\ n.end[Peer(e)].out # NULL => n.end[Peer(e)].out = n.end[e].in
<1>1. n \in NetType /\ Len(n.queue) \in Nat
    BY NetFields DEF Sound
<1>2. CASE e = "sock"
    BY <1>1, <1>2 DEF Sound, RefInv, End, Peer, NULL
<1>3. CASE e = "sess"
    BY <1>1, <1>3 DEF Sound, RefInv, End, Peer, NULL
<1> QED BY <1>2, <1>3 DEF End

\* What there is to read was written by the peer, where it is still active.
LEMMA InOut ==
    ASSUME NEW n, Layer(n), NEW e \in End, NEW q, q = n.end[e].in,
           e = "sock" \/ n.queue[q].ready # <<>>, n.end[Peer(e)].state = "active"
    PROVE  /\ n.end[Peer(e)].out = q
           /\ Settled(n.end[Peer(e)].written, n.end[Peer(e)].peersRead, n.end[e].read,
                      n.queue[q].ready, n.queue[q].part, n.mail[Peer(e)])
<1>1. Sound(n) /\ Flows(n) /\ Peer(e) \in End /\ Peer(Peer(e)) = e
    BY Ends DEF Layer
<1>2. n.end[Peer(e)].out # NULL /\ n.end[Peer(e)].out \in DOMAIN n.queue
    BY <1>1, ActiveOut
<1>3. n.end[Peer(e)].out = q
  <2>1. CASE e = "sock"
    BY <2>1, <1>1, <1>2, Apart
  <2>2. CASE e = "sess" /\ n.queue[q].ready # <<>>
    <3>1. Peer(e) = "sock" /\ q = Len(n.queue) /\ Len(n.queue) \in Nat
      BY <2>2, <1>1, NetFields DEF Peer, Sound
    <3>2. q \in DOMAIN n.queue /\ DOMAIN n.queue = 1 .. Len(n.queue)
      BY <1>1, <2>2, NetFields DEF Sound, RefInv, End
    <3>3. ~Unwritten(n, q)
      BY <1>1, <2>2, <3>2 DEF Flows, Ahead
    <3>4. n.end["sock"].out \in 1 .. Len(n.queue) /\ ~(n.end["sock"].out < q)
      BY <1>2, <3>1, <3>2, <3>3 DEF Unwritten
    <3> QED BY <3>1, <3>4
  <2> QED BY <2>1, <2>2 DEF End
<1>4. FlowInv(n, Peer(e))
    BY <1>1 DEF Flows, End, Peer
<1> QED BY <1>1, <1>3, <1>4 DEF FlowInv

\* The end e has read from its queue.
Drawn(n, m, e) ==
    /\ Route(n, m)
    /\ m.mail[e] = n.mail[e] /\ m.end[Peer(e)] = n.end[Peer(e)]
    /\ m.end[e].out = n.end[e].out
    /\ m.end[e].written = n.end[e].written /\ m.end[e].peersRead = n.end[e].peersRead
    /\ \A p \in DOMAIN n.queue : p # n.end[e].in => m.queue[p] = n.queue[p]

\* A reader that keeps the counts of its peer keeps the layer.
LEMMA DrawnLayer ==
    ASSUME NEW n, Layer(n), NEW e \in End, NEW m, Drawn(n, m, e), NEW q, q = n.end[e].in,
           n.end["sock"].state # "none", e = "sock" \/ n.queue[q].ready # <<>>,
           n.end[Peer(e)].state = "active" =>
               Settled(n.end[Peer(e)].written, n.end[Peer(e)].peersRead, m.end[e].read,
                       m.queue[q].ready, m.queue[q].part, m.mail[Peer(e)])
    PROVE  Layer(m)
<1>1. Sound(n) /\ Flows(n) /\ Peer(e) \in End /\ Peer(Peer(e)) = e
    BY Ends DEF Layer
<1>2. Sound(m)
    BY <1>1, RouteSound DEF Drawn
<1>3. FlowInv(m, e)
  <2> SUFFICES ASSUME m.end[e].state = "active"
               PROVE  Settled(m.end[e].written, m.end[e].peersRead, m.end[Peer(e)].read,
                          m.queue[m.end[e].out].ready, m.queue[m.end[e].out].part, m.mail[e])
    BY DEF FlowInv
  <2> DEFINE p == n.end[e].out
  <2>1. n.end[e].state = "active"
    BY DEF Drawn, Route
  <2>2. p \in DOMAIN n.queue /\ p # n.end[e].in
    BY <1>1, <2>1, ActiveOut, Apart
  <2>3. m.queue[p] = n.queue[p]
    BY <2>2 DEF Drawn
  <2>4. FlowInv(n, e)
    BY <1>1 DEF Flows, End
  <2>5. Settled(n.end[e].written, n.end[e].peersRead, n.end[Peer(e)].read,
                n.queue[p].ready, n.queue[p].part, n.mail[e])
    BY <2>1, <2>4 DEF FlowInv
  <2>6. /\ m.end[e].written = n.end[e].written /\ m.end[e].peersRead = n.end[e].peersRead
        /\ m.end[Peer(e)].read = n.end[Peer(e)].read /\ m.mail[e] = n.mail[e] /\ m.end[e].out = p
    BY DEF Drawn
  <2> HIDE DEF p
  <2> QED BY <2>3, <2>5, <2>6
<1>4. FlowInv(m, Peer(e))
  <2>1. m.end[Peer(e)] = n.end[Peer(e)]
    BY DEF Drawn
  <2>2. CASE n.end[Peer(e)].state # "active"
    BY <2>1, <2>2 DEF FlowInv
  <2>3. CASE n.end[Peer(e)].state = "active"
    <3>1. n.end[Peer(e)].out = q
      BY <2>3, InOut
    <3> QED BY <1>1, <2>1, <2>3, <3>1 DEF FlowInv
  <2> QED BY <2>2, <2>3
<1>5. Ahead(m)
  <2> SUFFICES ASSUME NEW p \in DOMAIN m.queue, Unwritten(m, p)
               PROVE  m.queue[p].ready = <<>> /\ m.queue[p].part = <<>>
    BY DEF Ahead
  <2>1. p \in DOMAIN n.queue /\ m.end["sock"].out = n.end["sock"].out
    BY <1>1 DEF Drawn, Route, End, Peer
  <2>2. m.end["sock"].state # "none"
    BY DEF Drawn, Route, End
  <2>3. n.end["sock"].out # NULL /\ n.end["sock"].out < p
    BY <2>1, <2>2 DEF Unwritten
  <2>4. Unwritten(n, p)
    BY <2>3 DEF Unwritten
  <2>5. n.queue[p].ready = <<>> /\ n.queue[p].part = <<>>
    BY <1>1, <2>1, <2>4 DEF Flows, Ahead
  <2>6. p # q
    <3>1. CASE e = "sock"
      <4>1. q = 1 /\ n.end["sock"].out \in Nat /\ n.end["sock"].out # 0
        BY <1>1, <2>3, <3>1, SockFields DEF Sound, NULL
      <4> QED BY <4>1, <2>3
    <3>2. CASE n.queue[q].ready # <<>>
      BY <2>5, <3>2
    <3> QED BY <3>1, <3>2
  <2>7. m.queue[p] = n.queue[p]
    BY <2>1, <2>6 DEF Drawn
  <2> QED BY <2>5, <2>7
<1> QED BY <1>2, <1>3, <1>4, <1>5, FlowsIntro

\* The end e has written to its queue.
Filled(n, m, e) ==
    /\ Route(n, m)
    /\ m.mail[e] = n.mail[e] /\ m.end[Peer(e)] = n.end[Peer(e)] /\ Echo(n.mail[Peer(e)], m.mail[Peer(e)])
    /\ m.end[e].out = n.end[e].out
    /\ m.end[e].read = n.end[e].read /\ m.end[e].peersRead = n.end[e].peersRead
    /\ \A p \in DOMAIN n.queue : p # n.end[e].out => m.queue[p] = n.queue[p]

\* So does a writer that keeps its own.
LEMMA FilledLayer ==
    ASSUME NEW n, Layer(n), NEW e \in End, NEW m, Filled(n, m, e), NEW q, q = n.end[e].out, q # NULL,
           n.end["sock"].state # "none",
           m.end[e].state = "active" =>
               Settled(m.end[e].written, n.end[e].peersRead, n.end[Peer(e)].read,
                       m.queue[q].ready, m.queue[q].part, n.mail[e])
    PROVE  Layer(m)
<1>1. Sound(n) /\ Flows(n) /\ Peer(e) \in End /\ Peer(Peer(e)) = e
    BY Ends DEF Layer
<1>2. Sound(m)
    BY <1>1, RouteSound DEF Filled
<1>3. FlowInv(m, e)
    BY <1>1 DEF FlowInv, Filled
<1>4. FlowInv(m, Peer(e))
  <2> SUFFICES ASSUME m.end[Peer(e)].state = "active"
               PROVE  Settled(m.end[Peer(e)].written, m.end[Peer(e)].peersRead, m.end[e].read,
                          m.queue[m.end[Peer(e)].out].ready, m.queue[m.end[Peer(e)].out].part,
                          m.mail[Peer(e)])
    BY <1>1 DEF FlowInv
  <2> DEFINE p == n.end[Peer(e)].out
  <2>1. n.end[Peer(e)].state = "active" /\ m.end[Peer(e)] = n.end[Peer(e)]
    BY DEF Filled
  <2>2. p \in DOMAIN n.queue /\ p # q
    BY <1>1, <2>1, ActiveOut, Apart
  <2>3. m.queue[p] = n.queue[p]
    BY <2>2 DEF Filled
  <2>4. FlowInv(n, Peer(e))
    BY <1>1 DEF Flows, End, Peer
  <2>5. Settled(n.end[Peer(e)].written, n.end[Peer(e)].peersRead, n.end[e].read,
                n.queue[p].ready, n.queue[p].part, n.mail[Peer(e)])
    BY <1>1, <2>1, <2>4 DEF FlowInv
  <2>6. n.end[Peer(e)].peersRead \in Nat /\ n.end[e].read \in Nat
    BY <1>1, NetFields, EndFields DEF Sound
  <2>7. Echo(n.mail[Peer(e)], m.mail[Peer(e)]) /\ m.end[e].read = n.end[e].read
    BY DEF Filled
  <2> HIDE DEF p
  <2>8. Settled(n.end[Peer(e)].written, n.end[Peer(e)].peersRead, n.end[e].read,
                n.queue[p].ready, n.queue[p].part, m.mail[Peer(e)])
    BY <2>5, <2>6, <2>7, SettledStill
  <2> QED BY <2>1, <2>3, <2>7, <2>8 DEF p
<1>5. Ahead(m)
  <2> SUFFICES ASSUME NEW p \in DOMAIN m.queue, Unwritten(m, p)
               PROVE  m.queue[p].ready = <<>> /\ m.queue[p].part = <<>>
    BY DEF Ahead
  <2>1. p \in DOMAIN n.queue /\ m.end["sock"].out = n.end["sock"].out
    BY <1>1 DEF Filled, Route, End, Peer
  <2>2. m.end["sock"].state # "none"
    BY DEF Filled, Route, End
  <2>3. n.end["sock"].out # NULL /\ n.end["sock"].out < p
    BY <2>1, <2>2 DEF Unwritten
  <2>4. Unwritten(n, p)
    BY <2>3 DEF Unwritten
  <2>5. n.queue[p].ready = <<>> /\ n.queue[p].part = <<>>
    BY <1>1, <2>1, <2>4 DEF Flows, Ahead
  <2>6. p # q
    <3>0. n.end["sock"].out \in Nat /\ n.end["sock"].out # 0
      BY <1>1, <2>3, SockFields DEF Sound, NULL
    <3>1. CASE e = "sock"
      BY <3>0, <3>1, <2>3
    <3>2. CASE e = "sess"
      <4>1. q = 1
        BY <1>1, <3>2 DEF Sound
      <4> QED BY <4>1, <3>0, <2>3
    <3> QED BY <3>1, <3>2 DEF End
  <2>7. m.queue[p] = n.queue[p]
    BY <2>1, <2>6 DEF Filled
  <2> QED BY <2>5, <2>7
<1> QED BY <1>2, <1>3, <1>4, <1>5, FlowsIntro

\* The states in which an end may write.
LEMMA TalksOut ==
    ASSUME NEW n, Sound(n), NEW e \in End, Talks(n, e)
    PROVE  n.end[e].out # NULL /\ n.end[e].out \in DOMAIN n.queue /\ n.end["sock"].state # "none"
BY DEF Sound, Talks, RefInv, End

\* A route on which states and pointers stay as they are.
LEMMA SameRoute ==
    ASSUME NEW n, NEW m \in NetType, DOMAIN m.queue = DOMAIN n.queue, NEW e \in End,
           m.end[Peer(e)] = n.end[Peer(e)],
           m.end[e].state = n.end[e].state, Points(m.end[e], n.end[e])
    PROVE  Route(n, m)
<1>1. \A x \in End : x = e \/ x = Peer(e)
    BY Ends
<1> QED BY <1>1 DEF Route, Points

\* The end e goes to a state in which it is not active.
LEMMA GoneRoute ==
    ASSUME NEW n, NEW m \in NetType, DOMAIN m.queue = DOMAIN n.queue, NEW e \in End,
           m.end[Peer(e)] = n.end[Peer(e)], m.end[e].in = n.end[e].in,
           n.end[e].state # "none", m.end[e].state \notin {"none", "active"},
           \/ m.end[e].out = n.end[e].out /\ m.end[e].state \notin Silent /\ n.end[e].state \notin Silent
           \/ m.end[e].out = NULL /\ m.end[e].state \in Silent
    PROVE  Route(n, m)
<1>1. \A x \in End : x = e \/ x = Peer(e)
    BY Ends
<1>2. /\ m.end[e].state = "active" => n.end[e].state = "active"
      /\ (m.end[e].state = "none") <=> (n.end[e].state = "none")
    OBVIOUS
<1> QED BY <1>1, <1>2 DEF Route

\* Only flags and mailboxes change.
LEMMA StillIntro ==
    ASSUME NEW n, NEW m, Route(n, m), m.queue = n.queue, NEW e \in End,
           Counters(m.end[e], n.end[e]), m.end[Peer(e)] = n.end[Peer(e)],
           Echo(n.mail[e], m.mail[e]), Echo(n.mail[Peer(e)], m.mail[Peer(e)])
    PROVE  Still(n, m)
<1>1. \A x \in End : x = e \/ x = Peer(e)
    BY Ends
<1>2. \A x \in End : Counters(m.end[x], n.end[x]) /\ Echo(n.mail[x], m.mail[x])
    BY <1>1 DEF Counters
<1> QED BY <1>2 DEF Still

\* Nothing at all happens.
LEMMA StillReflexive ==
    ASSUME NEW n \in NetType
    PROVE  Still(n, n)
<1>1. \A x \in End : Echo(n.mail[x], n.mail[x])
    BY NetFields, EchoFacts
<1> QED BY <1>1 DEF Still, Route, Counters

\* A command that is not a report writes and reads nothing.
LEMMA SendStill ==
    ASSUME NEW n \in NetType, NEW x \in End, NEW type \in (PipeTypes \cup OwnTypes) \ {"activate_write"},
           NEW arg \in Nat
    PROVE  Still(n, Send(n, x, type, arg)) /\ Send(n, x, type, arg).end = n.end
<1> DEFINE m == Send(n, x, type, arg)
<1>1. /\ m \in NetType /\ m.end = n.end /\ m.queue = n.queue
      /\ m.mail[x] = Append(n.mail[x], <<type, arg>>) /\ m.mail[Peer(x)] = n.mail[Peer(x)]
    BY SendEffect
<1> HIDE DEF m
<1>2. Echo(n.mail[x], m.mail[x]) /\ Echo(n.mail[Peer(x)], m.mail[Peer(x)])
  <2>1. <<type, arg>> \in Cmd /\ <<type, arg>>[1] # "activate_write"
    BY DEF Cmd
  <2>2. n.mail[x] \in Seq(Cmd) /\ n.mail[Peer(x)] \in Seq(Cmd)
    BY NetFields, Ends
  <2>3. Echo(n.mail[x], Append(n.mail[x], <<type, arg>>)) /\ Echo(n.mail[Peer(x)], n.mail[Peer(x)])
    BY <2>1, <2>2, EchoFacts
  <2> QED BY <2>3, <1>1
<1>3. Route(n, m)
    BY <1>1 DEF Route
<1>4. Counters(m.end[x], n.end[x]) /\ m.end[Peer(x)] = n.end[Peer(x)]
    BY <1>1 DEF Counters
<1>5. Still(n, m)
    BY <1>1, <1>2, <1>3, <1>4, StillIntro
<1> QED BY <1>1, <1>5 DEF m

\* Nor does taking a command.
LEMMA RestStill ==
    ASSUME NEW n \in NetType, NEW x \in End, n.mail[x] # <<>>
    PROVE  Still(n, [n EXCEPT !.mail[x] = Tail(@)]) /\ [n EXCEPT !.mail[x] = Tail(@)].end = n.end
<1> DEFINE m == [n EXCEPT !.mail[x] = Tail(@)]
<1>1. /\ m \in NetType /\ m.end = n.end /\ m.queue = n.queue
      /\ m.mail[x] = Tail(n.mail[x]) /\ m.mail[Peer(x)] = n.mail[Peer(x)]
    BY TakenEffect
<1> HIDE DEF m
<1>2. Echo(n.mail[x], m.mail[x]) /\ Echo(n.mail[Peer(x)], m.mail[Peer(x)])
  <2>2. n.mail[x] \in Seq(Cmd) /\ n.mail[Peer(x)] \in Seq(Cmd)
    BY NetFields, Ends
  <2>3. Echo(n.mail[x], Tail(n.mail[x])) /\ Echo(n.mail[Peer(x)], n.mail[Peer(x)])
    BY <2>2, EchoFacts
  <2> QED BY <2>3, <1>1
<1>3. Route(n, m)
    BY <1>1 DEF Route
<1>4. Counters(m.end[x], n.end[x]) /\ m.end[Peer(x)] = n.end[Peer(x)]
    BY <1>1 DEF Counters
<1>5. Still(n, m)
    BY <1>1, <1>2, <1>3, <1>4, StillIntro
<1> QED BY <1>1, <1>5 DEF m

\* Rollback takes back what no reader sees.
LEMMA RollbackStill ==
    ASSUME NEW n, Sound(n), NEW e \in End
    PROVE  Still(n, Rollback(n, e)) /\ Rollback(n, e).end = n.end
<1> DEFINE q == n.end[e].out
           m == Rollback(n, e)
<1>0. n \in NetType /\ q \in {NULL} \cup DOMAIN n.queue
    BY DEF Sound, RefInv
<1>1. CASE q = NULL
  <2>1. m = n
    BY <1>1 DEF Rollback
  <2> QED BY <2>1, <1>0, StillReflexive
<1>2. CASE q # NULL
  <2>1. /\ m \in NetType /\ m.end = n.end /\ m.mail = n.mail
        /\ DOMAIN m.queue = DOMAIN n.queue
        /\ \A p \in DOMAIN n.queue : p # q => m.queue[p] = n.queue[p]
        /\ m.queue[q].part = <<>> /\ m.queue[q].ready = n.queue[q].ready
    BY <1>0, <1>2, RollbackEffect
  <2> HIDE DEF m, q
  <2>2. \A p \in DOMAIN n.queue : /\ m.queue[p].ready = n.queue[p].ready
                                  /\ m.queue[p].part \in {n.queue[p].part, <<>>}
    BY <2>1
  <2>3. Route(n, m)
    BY <2>1 DEF Route
  <2>4. \A x \in End : Counters(m.end[x], n.end[x]) /\ Echo(n.mail[x], m.mail[x])
    BY <2>1, <1>0, NetFields, EchoFacts DEF Counters
  <2> QED BY <2>1, <2>2, <2>3, <2>4 DEF Still, m
<1> QED BY <1>1, <1>2

\* The mailboxes are as they were.
LEMMA SameMail ==
    ASSUME NEW n \in NetType, NEW m, Route(n, m), m.queue = n.queue, m.mail = n.mail, NEW e \in End,
           Counters(m.end[e], n.end[e]), m.end[Peer(e)] = n.end[Peer(e)]
    PROVE  Still(n, m)
<1>1. Echo(n.mail[e], m.mail[e]) /\ Echo(n.mail[Peer(e)], m.mail[Peer(e)])
    BY NetFields, Ends, EchoFacts
<1> QED BY <1>1, StillIntro

\* An end that changes its state writes and reads nothing;
LEMMA GotoStill ==
    ASSUME NEW n, Sound(n), NEW e \in End, NEW s \in States \ (Silent \cup {"none", "active"}), Talks(n, e)
    PROVE  Still(n, Goto(n, e, s))
<1> DEFINE m == Goto(n, e, s)
<1>0. n \in NetType
    BY DEF Sound
<1>1. /\ m \in NetType /\ m.queue = n.queue /\ m.mail = n.mail
      /\ m.end[Peer(e)] = n.end[Peer(e)] /\ m.end[e].state = s
      /\ Points(m.end[e], n.end[e]) /\ Counters(m.end[e], n.end[e])
    BY <1>0, GotoEffect
<1> HIDE DEF m
<1>2. /\ n.end[e].state \notin Silent /\ n.end[e].state # "none"
      /\ m.end[e].state \notin Silent /\ m.end[e].state \notin {"none", "active"}
    BY <1>1 DEF Talks
<1>3. Route(n, m)
    BY <1>1, <1>2, GoneRoute DEF Points
<1> QED BY <1>0, <1>1, <1>3, SameMail DEF m

\* nor does one told not to wait for the delimiter,
LEMMA DelayStill ==
    ASSUME NEW n \in NetType, NEW e \in End, NEW delay \in BOOLEAN
    PROVE  /\ Still(n, [n EXCEPT !.end[e].delay = delay])
           /\ [n EXCEPT !.end[e].delay = delay].end[e].state = n.end[e].state
<1> DEFINE m == [n EXCEPT !.end[e].delay = delay]
<1>1. /\ m \in NetType /\ m.queue = n.queue /\ m.mail = n.mail
      /\ m.end[Peer(e)] = n.end[Peer(e)] /\ m.end[e].state = n.end[e].state
      /\ Points(m.end[e], n.end[e]) /\ Counters(m.end[e], n.end[e])
    BY DelayEffect
<1> HIDE DEF m
<1>2. Route(n, m)
    BY <1>1, SameRoute
<1>3. Still(n, m)
    BY <1>1, <1>2, SameMail
<1> QED BY <1>1, <1>3 DEF m

\* one that stops writing,
LEMMA StopStill ==
    ASSUME NEW n \in NetType, NEW e \in End
    PROVE  /\ Still(n, [n EXCEPT !.end[e].outActive = FALSE])
           /\ [n EXCEPT !.end[e].outActive = FALSE].end[e].state = n.end[e].state
<1> DEFINE m == [n EXCEPT !.end[e].outActive = FALSE]
<1>1. /\ m \in NetType /\ m.queue = n.queue /\ m.mail = n.mail
      /\ m.end[Peer(e)] = n.end[Peer(e)] /\ m.end[e].state = n.end[e].state
      /\ Points(m.end[e], n.end[e]) /\ Counters(m.end[e], n.end[e])
    BY StopEffect
<1> HIDE DEF m
<1>2. Route(n, m)
    BY <1>1, SameRoute
<1>3. Still(n, m)
    BY <1>1, <1>2, SameMail
<1> QED BY <1>1, <1>3 DEF m

\* one that is woken,
LEMMA WakeStill ==
    ASSUME NEW n \in NetType, NEW e \in End
    PROVE  Still(n, [n EXCEPT !.end[e].inActive = TRUE])
<1> DEFINE m == [n EXCEPT !.end[e].inActive = TRUE]
<1>1. /\ m \in NetType /\ m.queue = n.queue /\ m.mail = n.mail
      /\ m.end[Peer(e)] = n.end[Peer(e)] /\ m.end[e].state = n.end[e].state
      /\ Points(m.end[e], n.end[e]) /\ Counters(m.end[e], n.end[e])
    BY WakeEffect
<1> HIDE DEF m
<1>2. Route(n, m)
    BY <1>1, SameRoute
<1> QED BY <1>1, <1>2, SameMail DEF m

\* one that finds its pipe full,
LEMMA CheckWriteStill ==
    ASSUME NEW n \in NetType, NEW e \in End
    PROVE  Still(n, CheckWrite(n, e))
<1> DEFINE m == CheckWrite(n, e)
<1>1. /\ m \in NetType /\ m.queue = n.queue /\ m.mail = n.mail
      /\ m.end[Peer(e)] = n.end[Peer(e)] /\ m.end[e].state = n.end[e].state
      /\ Points(m.end[e], n.end[e]) /\ Counters(m.end[e], n.end[e])
    BY CheckWriteEffect
<1> HIDE DEF m
<1>2. Route(n, m)
    BY <1>1, SameRoute
<1> QED BY <1>1, <1>2, SameMail DEF m

\* one that acknowledges the end of its peer,
LEMMA AcknowledgeStill ==
    ASSUME NEW n \in NetType, NEW e \in End, NEW s \in Silent, n.end[e].state # "none"
    PROVE  Still(n, Acknowledge(n, e, s))
<1> DEFINE m == Acknowledge(n, e, s)
<1>0. s \in States /\ s \notin {"none", "active"}
    BY DEF Silent, States
<1>1. /\ m \in NetType /\ m.queue = n.queue /\ m.mail[e] = n.mail[e]
      /\ m.mail[Peer(e)] = Append(n.mail[Peer(e)], <<"pipe_term_ack", 0>>)
      /\ m.end[Peer(e)] = n.end[Peer(e)]
      /\ m.end[e].state = s /\ m.end[e].in = n.end[e].in /\ m.end[e].out = NULL
      /\ Counters(m.end[e], n.end[e])
    BY <1>0, AcknowledgeEffect
<1> HIDE DEF m
<1>2. Route(n, m)
    BY <1>0, <1>1, GoneRoute
<1>3. Echo(n.mail[e], m.mail[e]) /\ Echo(n.mail[Peer(e)], m.mail[Peer(e)])
  <2>1. <<"pipe_term_ack", 0>> \in Cmd /\ <<"pipe_term_ack", 0>>[1] # "activate_write"
    BY DEF Cmd, PipeTypes
  <2>2. n.mail[e] \in Seq(Cmd) /\ n.mail[Peer(e)] \in Seq(Cmd)
    BY NetFields, Ends
  <2>3. Echo(n.mail[Peer(e)], Append(n.mail[Peer(e)], <<"pipe_term_ack", 0>>)) /\ Echo(n.mail[e], n.mail[e])
    BY <2>1, <2>2, EchoFacts
  <2> QED BY <2>3, <1>1
<1> QED BY <1>1, <1>2, <1>3, StillIntro DEF m

\* or one that finds nothing to read.
LEMMA SleepStill ==
    ASSUME NEW n, Sound(n), NEW e \in End
    PROVE  Still(n, Sleep(n, e))
<1> DEFINE q == n.end[e].in
           m == Sleep(n, e)
<1>0. n \in NetType /\ q \in DOMAIN n.queue
    BY DEF Sound, RefInv
<1>1. /\ m \in NetType /\ m.mail = n.mail
      /\ m.end[Peer(e)] = n.end[Peer(e)] /\ m.end[e].state = n.end[e].state
      /\ Points(m.end[e], n.end[e]) /\ Counters(m.end[e], n.end[e])
      /\ DOMAIN m.queue = DOMAIN n.queue
      /\ \A p \in DOMAIN n.queue : p # q => m.queue[p] = n.queue[p]
      /\ m.queue[q].part = n.queue[q].part /\ m.queue[q].ready = n.queue[q].ready
    BY <1>0, SleepEffect
<1> HIDE DEF m, q
<1>2. Route(n, m)
    BY <1>1, SameRoute
<1>3. \A p \in DOMAIN n.queue : /\ m.queue[p].ready = n.queue[p].ready
                                /\ m.queue[p].part \in {n.queue[p].part, <<>>}
    BY <1>1
<1>4. \A x \in End : Counters(m.end[x], n.end[x]) /\ Echo(n.mail[x], m.mail[x])
  <2>1. \A x \in End : x = e \/ x = Peer(e)
    BY Ends
  <2>2. \A x \in End : Echo(n.mail[x], m.mail[x])
    BY <1>0, <1>1, NetFields, EchoFacts
  <2>3. \A x \in End : Counters(m.end[x], n.end[x])
    BY <1>1, <2>1 DEF Counters
  <2> QED BY <2>2, <2>3
<1> QED BY <1>2, <1>3, <1>4 DEF Still, m

\* An end that may read has a queue to read from.
LEMMA ReadsTalks ==
    ASSUME NEW n, Sound(n), NEW e \in End, Reads(n, e)
    PROVE  Talks(n, e) /\ n.end["sock"].state # "none" /\ n.end[e].in \in DOMAIN n.queue /\ n \in NetType
BY DEF Reads, Talks, Sound, Silent, End, RefInv

\* A delimiter is read only where the peer is no longer active.
LEMMA PopLayer ==
    ASSUME NEW n, Layer(n), NEW e \in End, Reads(n, e), NEW q, q = n.end[e].in,
           n.queue[q].ready # <<>>, Head(n.queue[q].ready) = DELIMITER
    PROVE  Layer(Pop(n, e)) /\ Pop(n, e).end = n.end
<1> DEFINE m == Pop(n, e)
<1>0. Sound(n) /\ n \in NetType /\ q \in DOMAIN n.queue /\ n.end["sock"].state # "none"
    BY ReadsTalks DEF Layer
<1>1. /\ m \in NetType /\ m.end = n.end /\ m.mail = n.mail
      /\ DOMAIN m.queue = DOMAIN n.queue
      /\ \A p \in DOMAIN n.queue : p # q => m.queue[p] = n.queue[p]
    BY <1>0, PopEffect
<1> HIDE DEF m
<1>2. n.end[Peer(e)].state # "active"
  <2> SUFFICES ASSUME n.end[Peer(e)].state = "active" PROVE FALSE
    OBVIOUS
  <2>1. \A i \in DOMAIN n.queue[q].ready : n.queue[q].ready[i] # DELIMITER
    BY InOut DEF Settled
  <2>2. n.queue[q].ready \in Seq(Frame)
    BY <1>0, NetFields, QueueFields
  <2>3. 1 \in DOMAIN n.queue[q].ready /\ Head(n.queue[q].ready) = n.queue[q].ready[1]
    BY <2>2
  <2> QED BY <2>1, <2>3
<1>3. Route(n, m)
    BY <1>1 DEF Route
<1>4. Drawn(n, m, e)
    BY <1>1, <1>3 DEF Drawn
<1>5. Layer(m)
    BY <1>0, <1>2, <1>4, DrawnLayer
<1> QED BY <1>1, <1>5 DEF m

\* process_delimiter keeps the layer.
LEMMA ProcessDelimiterLayer ==
    ASSUME NEW n, Layer(n), NEW e \in End, Reads(n, e)
    PROVE  Layer(ProcessDelimiter(n, e))
<1>1. Sound(n) /\ n \in NetType /\ Talks(n, e)
    BY ReadsTalks DEF Layer
<1>2. CASE n.end[e].state = "active"
  <2>1. "delimiter_received" \in States \ (Silent \cup {"none", "active"})
    BY DEF States, Silent
  <2>2. Still(n, Goto(n, e, "delimiter_received"))
    BY <1>1, <2>1, GotoStill
  <2>3. Layer(Goto(n, e, "delimiter_received"))
    BY <2>2, StillLayer
  <2> QED BY <1>2, <2>3 DEF ProcessDelimiter
<1>3. CASE n.end[e].state # "active"
  <2> DEFINE k == Rollback(n, e)
  <2>1. Still(n, k) /\ k.end = n.end
    BY <1>1, RollbackStill
  <2> HIDE DEF k
  <2>2. Layer(k)
    BY <2>1, StillLayer
  <2>3. k \in NetType /\ k.end[e].state # "none" /\ "term_ack_sent" \in Silent
    BY <2>1, <2>2, <1>1 DEF Layer, Sound, Talks, Silent
  <2>4. Layer(Acknowledge(k, e, "term_ack_sent"))
    BY <2>2, <2>3, AcknowledgeStill, StillLayer
  <2> QED BY <1>3, <2>4 DEF ProcessDelimiter, k
<1> QED BY <1>2, <1>3

\* A frame is read, and perhaps a report is due.
LEMMA TakeLayer ==
    ASSUME NEW n, Layer(n), NEW e \in End, Reads(n, e), NEW q, q = n.end[e].in, n.queue[q].ready # <<>>
    PROVE  Layer(Take(n, e))
<1> DEFINE m == Take(n, e)
           r == n.end[e].read + (IF More(Head(n.queue[q].ready)) THEN 0 ELSE 1)
           M == n.mail[Peer(e)]
<1>0. Sound(n) /\ n \in NetType /\ q \in DOMAIN n.queue /\ n.end["sock"].state # "none"
    BY ReadsTalks DEF Layer
<1>1a. /\ m \in NetType /\ m.mail[e] = n.mail[e]
       /\ m.end[Peer(e)] = n.end[Peer(e)] /\ m.end[e].state = n.end[e].state
       /\ Points(m.end[e], n.end[e])
       /\ m.end[e].written = n.end[e].written /\ m.end[e].peersRead = n.end[e].peersRead
       /\ DOMAIN m.queue = DOMAIN n.queue
    BY <1>0, TakeEffect
<1>1b. m.mail[Peer(e)] = IF r % LWM = 0 THEN Append(M, <<"activate_write", r>>) ELSE M
    BY <1>0, TakeEffect
<1>1c. m.end[e].read = r
    BY <1>0, TakeEffect
<1>1d. /\ \A p \in DOMAIN n.queue : p # q => m.queue[p] = n.queue[p]
       /\ m.queue[q].part = n.queue[q].part /\ m.queue[q].ready = Tail(n.queue[q].ready)
    BY <1>0, TakeEffect
<1> HIDE DEF m
<1>2. Route(n, m)
    BY <1>1a, SameRoute
<1>3. Drawn(n, m, e)
    BY <1>1a, <1>1d, <1>2 DEF Drawn, Points
<1>4. ASSUME n.end[Peer(e)].state = "active"
      PROVE  Settled(n.end[Peer(e)].written, n.end[Peer(e)].peersRead, m.end[e].read,
                     m.queue[q].ready, m.queue[q].part, m.mail[Peer(e)])
  <2>1. Settled(n.end[Peer(e)].written, n.end[Peer(e)].peersRead, n.end[e].read,
                n.queue[q].ready, n.queue[q].part, M)
    BY <1>4, InOut
  <2>2. /\ n.end[Peer(e)].written \in Int /\ n.end[Peer(e)].peersRead \in Nat /\ n.end[e].read \in Nat
        /\ n.queue[q].ready \in Seq(Frame) /\ n.queue[q].part \in Seq(Frame) /\ M \in Seq(Cmd)
    BY <1>0, NetFields, EndFields, QueueFields, Ends
  <2> DEFINE w == n.end[Peer(e)].written
             known == n.end[Peer(e)].peersRead
             read == n.end[e].read
             ready == n.queue[q].ready
             part == n.queue[q].part
             N == m.mail[Peer(e)]
  <2>3. r = read + (IF More(Head(ready)) THEN 0 ELSE 1) /\ ready # <<>>
    OBVIOUS
  <2>4. N = IF r % LWM = 0 THEN Append(M, <<"activate_write", r>>) ELSE M
    BY <1>1b
  <2> HIDE DEF w, known, read, ready, part, N, M, r
  <2>5. /\ Settled(w, known, read, ready, part, M)
        /\ w \in Int /\ known \in Nat /\ read \in Nat
        /\ ready \in Seq(Frame) /\ part \in Seq(Frame) /\ M \in Seq(Cmd)
    BY <2>1, <2>2 DEF w, known, read, ready, part, M
  <2>6. Settled(w, known, r, Tail(ready), part, N)
    BY <2>3, <2>4, <2>5, SettledRead
  <2> QED BY <2>6, <1>1c, <1>1d DEF w, known, ready, part, N
<1> HIDE DEF r, M
<1>5. Layer(m)
    BY <1>0, <1>3, <1>4, DrawnLayer
<1> QED BY <1>5 DEF m

\* Read keeps the layer;
LEMMA ReadLayer ==
    ASSUME NEW n, Layer(n), NEW e \in End
    PROVE  Layer(Read(n, e))
<1> DEFINE q == n.end[e].in
<1>1. CASE ~CanRead(n, e)
    BY <1>1 DEF Read
<1>2. CASE CanRead(n, e)
  <2>0. Reads(n, e)
    BY <1>2 DEF CanRead, Reads
  <2>1. CASE n.queue[q].ready = <<>>
    <3>1. Layer(Sleep(n, e))
      BY SleepStill, StillLayer DEF Layer
    <3> QED BY <1>2, <2>1, <3>1 DEF Read, InQueue
  <2>2. CASE n.queue[q].ready # <<>> /\ Head(n.queue[q].ready) = DELIMITER
    <3> DEFINE k == Pop(n, e)
    <3>1. Layer(k) /\ k.end = n.end
      BY <2>0, <2>2, PopLayer
    <3> HIDE DEF k
    <3>2. Reads(k, e)
      BY <2>0, <3>1 DEF Reads
    <3>3. Layer(ProcessDelimiter(k, e))
      BY <3>1, <3>2, ProcessDelimiterLayer
    <3> QED BY <1>2, <2>2, <3>3 DEF Read, InQueue, k
  <2>3. CASE n.queue[q].ready # <<>> /\ Head(n.queue[q].ready) # DELIMITER
    <3>1. Layer(Take(n, e))
      BY <2>0, <2>3, TakeLayer
    <3> QED BY <1>2, <2>3, <3>1 DEF Read, InQueue
  <2> QED BY <2>1, <2>2, <2>3
<1> QED BY <1>1, <1>2

\* so does CheckRead,
LEMMA CheckReadLayer ==
    ASSUME NEW n, Layer(n), NEW e \in End
    PROVE  Layer(CheckRead(n, e))
BY ReadLayer DEF CheckRead

\* reading a message of one frame or two,
LEMMA ReadMessageLayer ==
    ASSUME NEW n, Layer(n), NEW e \in End
    PROVE  Layer(ReadMessage(n, e))
<1>1. Layer(Read(n, e))
    BY ReadLayer
<1> DEFINE k == Read(n, e)
<1> HIDE DEF k
<1>2. Layer(Read(k, e))
    BY <1>1, ReadLayer DEF k
<1> QED BY <1>1, <1>2 DEF ReadMessage, k

\* and CleanPipes.
LEMMA CleanPipesLayer ==
    ASSUME NEW n, Layer(n)
    PROVE  Layer(CleanPipes(n))
<1>1. "sess" \in End
    BY DEF End
<1> DEFINE k == Rollback(n, "sess")
<1>2. Layer(k)
    BY <1>1, RollbackStill, StillLayer DEF Layer
<1> HIDE DEF k
<1>3. Layer(Read(k, "sess"))
    BY <1>1, <1>2, ReadLayer
<1> QED BY <1>2, <1>3 DEF CleanPipes, k

\* A frame is written, or the pipe is found full.
LEMMA WriteLayer ==
    ASSUME NEW n, Layer(n), NEW e \in End, NEW frame \in Frame, frame # DELIMITER
    PROVE  Layer(Write(n, e, frame))
<1>0. Sound(n) /\ n \in NetType /\ Peer(e) \in End
    BY Ends DEF Layer, Sound
<1>1. CASE ~CanWrite(n, e)
  <2>1. Layer(CheckWrite(n, e))
    BY <1>0, CheckWriteStill, StillLayer
  <2> QED BY <1>1, <2>1 DEF Write
<1>2. CASE CanWrite(n, e)
  <2> DEFINE x == IF More(frame) THEN 0 ELSE 1
             k == [n EXCEPT !.end[e].written = @ + x]
             m == Put(k, e, frame)
             q == n.end[e].out
  <2>0. n.end[e].state = "active" /\ ~(n.end[e].written - n.end[e].peersRead >= HWM)
    BY <1>2 DEF CanWrite, Full
  <2>1. q # NULL /\ q \in DOMAIN n.queue /\ n.end["sock"].state # "none"
    BY <1>0, <2>0, ActiveOut
  <2>2. x \in Int /\ (More(frame) => x = 0) /\ (~More(frame) => x = 1)
    OBVIOUS
  <2> HIDE DEF x
  <2>3. /\ k \in NetType
        /\ k.queue = n.queue /\ k.mail = n.mail
        /\ k.end[Peer(e)] = n.end[Peer(e)]
        /\ k.end[e].state = n.end[e].state
        /\ Points(k.end[e], n.end[e])
        /\ k.end[e].read = n.end[e].read /\ k.end[e].peersRead = n.end[e].peersRead
        /\ k.end[e].written = n.end[e].written + x
    BY <1>0, <2>2, CountEffect
  <2>4. q \in DOMAIN k.queue /\ q = k.end[e].out
    BY <2>1, <2>3 DEF Points
  <2> HIDE DEF k, q
  <2>5. /\ m \in NetType /\ m.end = k.end /\ m.mail[e] = k.mail[e]
        /\ DOMAIN m.queue = DOMAIN k.queue
        /\ \A p \in DOMAIN k.queue : p # q => m.queue[p] = k.queue[p]
    <3>1. CASE More(frame)
      BY <2>3, <2>4, <3>1, PutPart
    <3>2. CASE ~More(frame)
      BY <2>3, <2>4, <3>2, PutFlush
    <3> QED BY <3>1, <3>2
  <2>6. Echo(k.mail[Peer(e)], m.mail[Peer(e)])
    <3>1. k.mail[Peer(e)] \in Seq(Cmd)
      BY <1>0, <2>3, NetFields
    <3>2. <<"activate_read", 0>> \in Cmd /\ <<"activate_read", 0>>[1] # "activate_write"
      BY DEF Cmd, PipeTypes
    <3>3. /\ Echo(k.mail[Peer(e)], k.mail[Peer(e)])
          /\ Echo(k.mail[Peer(e)], Append(k.mail[Peer(e)], <<"activate_read", 0>>))
      BY <3>1, <3>2, EchoFacts
    <3>4. CASE More(frame)
      <4>1. m.mail = k.mail
        BY <2>3, <2>4, <3>4, PutPart
      <4> QED BY <4>1, <3>3
    <3>5. CASE ~More(frame)
      <4>1. \/ m.mail[Peer(e)] = k.mail[Peer(e)]
            \/ m.mail[Peer(e)] = Append(k.mail[Peer(e)], <<"activate_read", 0>>)
        BY <2>3, <2>4, <3>5, PutFlush
      <4> QED BY <4>1, <3>3
    <3> QED BY <3>4, <3>5
  <2>7. /\ n.end[e].written \in Int /\ n.end[e].peersRead \in Nat /\ n.end[Peer(e)].read \in Nat
        /\ n.queue[q].ready \in Seq(Frame) /\ n.queue[q].part \in Seq(Frame)
    BY <1>0, <2>1, NetFields, EndFields, QueueFields
  <2>8. Settled(n.end[e].written, n.end[e].peersRead, n.end[Peer(e)].read,
                n.queue[q].ready, n.queue[q].part, n.mail[e])
    BY <2>0 DEF Layer, Flows, FlowInv, End, q
  <2>9. Settled(m.end[e].written, n.end[e].peersRead, n.end[Peer(e)].read,
                m.queue[q].ready, m.queue[q].part, n.mail[e])
    <3>1. CASE More(frame)
      <4>1. /\ m.queue[q].part = Append(k.queue[q].part, frame)
            /\ m.queue[q].ready = k.queue[q].ready
        BY <2>3, <2>4, <3>1, PutPart
      <4>2. m.end[e].written = n.end[e].written
        BY <2>2, <2>3, <2>5, <2>7, <3>1
      <4>3. Settled(n.end[e].written, n.end[e].peersRead, n.end[Peer(e)].read,
                    n.queue[q].ready, Append(n.queue[q].part, frame), n.mail[e])
        BY <2>7, <2>8, <3>1, SettledPart
      <4> QED BY <4>1, <4>2, <4>3, <2>3
    <3>2. CASE ~More(frame)
      <4>1. /\ m.queue[q].part = <<>>
            /\ m.queue[q].ready = k.queue[q].ready \o Append(k.queue[q].part, frame)
        BY <2>3, <2>4, <3>2, PutFlush
      <4>2. m.end[e].written = n.end[e].written + 1
        BY <2>2, <2>3, <2>5, <3>2
      <4>3. Settled(n.end[e].written + 1, n.end[e].peersRead, n.end[Peer(e)].read,
                    n.queue[q].ready \o Append(n.queue[q].part, frame), <<>>, n.mail[e])
        BY <2>0, <2>7, <2>8, <3>2, SettledWrite
      <4> QED BY <4>1, <4>2, <4>3, <2>3
    <3> QED BY <3>1, <3>2
  <2> HIDE DEF m
  <2>10. Route(n, m)
    <3>1. Points(m.end[e], n.end[e]) /\ m.end[e].state = n.end[e].state /\ m.end[Peer(e)] = n.end[Peer(e)]
      BY <2>3, <2>5
    <3> QED BY <2>3, <2>5, <3>1, SameRoute
  <2>11. Filled(n, m, e)
    <3>1. \A p \in DOMAIN n.queue : p # n.end[e].out => m.queue[p] = n.queue[p]
      BY <2>3, <2>5 DEF q
    <3> QED BY <2>3, <2>5, <2>6, <2>10, <3>1 DEF Filled, Points
  <2>12. Layer(m)
    BY <1>0, <2>1, <2>9, <2>11, FilledLayer DEF q
  <2> QED BY <1>2, <2>12 DEF Write, m, k, x
<1> QED BY <1>1, <1>2

\* The delimiter is written, by an end that is no longer active.
LEMMA PutDelimiterLayer ==
    ASSUME NEW n, Layer(n), NEW e \in End, Talks(n, e), n.end[e].state # "active"
    PROVE  Layer(Put(n, e, DELIMITER))
<1>0. Sound(n) /\ n \in NetType /\ Peer(e) \in End /\ DELIMITER \in Frame /\ ~More(DELIMITER)
    BY Ends DEF Layer, Sound, DELIMITER, Frame, More
<1> DEFINE q == n.end[e].out
           m == Put(n, e, DELIMITER)
<1>1. q # NULL /\ q \in DOMAIN n.queue /\ n.end["sock"].state # "none"
    BY <1>0, TalksOut
<1>2. /\ m \in NetType /\ m.end = n.end /\ m.mail[e] = n.mail[e]
      /\ DOMAIN m.queue = DOMAIN n.queue
      /\ \A p \in DOMAIN n.queue : p # q => m.queue[p] = n.queue[p]
      /\ \/ m.mail[Peer(e)] = n.mail[Peer(e)]
         \/ m.mail[Peer(e)] = Append(n.mail[Peer(e)], <<"activate_read", 0>>)
    BY <1>0, <1>1, PutFlush
<1>3. Echo(n.mail[Peer(e)], m.mail[Peer(e)])
  <2>1. n.mail[Peer(e)] \in Seq(Cmd)
    BY <1>0, NetFields
  <2>2. <<"activate_read", 0>> \in Cmd /\ <<"activate_read", 0>>[1] # "activate_write"
    BY DEF Cmd, PipeTypes
  <2>3. /\ Echo(n.mail[Peer(e)], n.mail[Peer(e)])
        /\ Echo(n.mail[Peer(e)], Append(n.mail[Peer(e)], <<"activate_read", 0>>))
    BY <2>1, <2>2, EchoFacts
  <2> QED BY <1>2, <2>3
<1> HIDE DEF m
<1>4. Route(n, m)
    BY <1>2 DEF Route
<1>5. Filled(n, m, e)
    BY <1>2, <1>3, <1>4 DEF Filled
<1>6. Layer(m)
    BY <1>0, <1>1, <1>2, <1>5, FilledLayer
<1> QED BY <1>6 DEF m

\* Rollback and the delimiter, after the end has stopped writing.
LEMMA DelimitLayer ==
    ASSUME NEW n, Layer(n), NEW e \in End, Talks(n, e), n.end[e].state # "active"
    PROVE  LET k == [n EXCEPT !.end[e].outActive = FALSE]
           IN Layer(Put(Rollback(k, e), e, DELIMITER))
<1> DEFINE k == [n EXCEPT !.end[e].outActive = FALSE]
<1>1. n \in NetType
    BY DEF Layer, Sound
<1>2. Still(n, k) /\ k.end[e].state = n.end[e].state
    BY <1>1, StopStill
<1> HIDE DEF k
<1>3. Layer(k)
    BY <1>2, StillLayer
<1> DEFINE r == Rollback(k, e)
<1>4. Still(k, r) /\ r.end = k.end
    BY <1>3, RollbackStill DEF Layer
<1> HIDE DEF r
<1>5. Layer(r)
    BY <1>3, <1>4, StillLayer
<1>6. Talks(r, e) /\ r.end[e].state # "active"
    BY <1>2, <1>4 DEF Talks
<1>7. Layer(Put(r, e, DELIMITER))
    BY <1>5, <1>6, PutDelimiterLayer
<1> QED BY <1>7 DEF r, k

\* pipe_term is sent.
LEMMA AskStill ==
    ASSUME NEW n, Sound(n), NEW e \in End, Talks(n, e)
    PROVE  Still(n, Ask(n, e)) /\ Ask(n, e).end[e].state = "term_req_sent1"
<1> DEFINE k == Send(n, Peer(e), "pipe_term", 0)
<1>0. n \in NetType /\ Peer(e) \in End
    BY Ends DEF Sound
<1>1. "pipe_term" \in (PipeTypes \cup OwnTypes) \ {"activate_write"}
    BY DEF PipeTypes
<1>2. Still(n, k) /\ k.end = n.end
    BY <1>0, <1>1, SendStill
<1> HIDE DEF k
<1>3. Sound(k) /\ Talks(k, e) /\ k \in NetType
    BY <1>2, RouteSound DEF Still, Route, Talks
<1>4. "term_req_sent1" \in States \ (Silent \cup {"none", "active"})
    BY DEF States, Silent
<1>5. Still(k, Goto(k, e, "term_req_sent1"))
    BY <1>3, <1>4, GotoStill
<1>6. Goto(k, e, "term_req_sent1").end[e].state = "term_req_sent1"
    BY <1>3, <1>4, GotoEffect
<1>7. Ask(n, e) = Goto(k, e, "term_req_sent1")
    BY DEF Ask, k
<1> QED BY <1>2, <1>5, <1>6, <1>7, StillTransitive

\* terminate keeps the layer, whatever the state it finds.
LEMMA TerminateLayer ==
    ASSUME NEW n, Layer(n), NEW e \in End, NEW delay \in BOOLEAN, Has(n, e)
    PROVE  Layer(Terminate(n, e, delay))
<1> DEFINE m == [n EXCEPT !.end[e].delay = delay]
<1>0. n \in NetType
    BY DEF Layer, Sound
<1>1. Still(n, m) /\ m.end[e].state = n.end[e].state
    BY <1>0, DelayStill
<1> HIDE DEF m
<1>2. Layer(m) /\ Sound(m) /\ m \in NetType
    BY <1>1, StillLayer DEF Layer, Sound
<1>3. CASE n.end[e].state \in {"term_req_sent1", "term_req_sent2", "term_ack_sent"}
  <2>1. Terminate(n, e, delay) = m
    BY <1>3 DEF Terminate, m
  <2> QED BY <2>1, <1>2
<1>4. CASE n.end[e].state = "waiting_for_delimiter" /\ ~delay
  <2> DEFINE r == Rollback(m, e)
             a == Acknowledge(r, e, "term_ack_sent")
  <2>1. Still(m, r) /\ r.end = m.end
    BY <1>2, RollbackStill
  <2>2. Layer(r)
    BY <1>2, <2>1, StillLayer
  <2> HIDE DEF r
  <2>3. r \in NetType /\ r.end[e].state # "none" /\ "term_ack_sent" \in Silent
    BY <1>1, <1>4, <2>1, <2>2 DEF Layer, Sound, Silent
  <2>4. Layer(a)
    BY <2>2, <2>3, AcknowledgeStill, StillLayer
  <2> HIDE DEF a
  <2>5. a \in NetType
    BY <2>4 DEF Layer, Sound
  <2>6. Layer([a EXCEPT !.end[e].outActive = FALSE])
    BY <2>4, <2>5, StopStill, StillLayer
  <2>7. Terminate(n, e, delay) = [a EXCEPT !.end[e].outActive = FALSE]
    BY <1>4 DEF Terminate, m, r, a
  <2> QED BY <2>6, <2>7
<1>5. CASE n.end[e].state = "waiting_for_delimiter" /\ delay
  <2>1. Talks(m, e) /\ m.end[e].state # "active"
    BY <1>1, <1>5 DEF Talks, Silent
  <2> DEFINE k == [m EXCEPT !.end[e].outActive = FALSE]
  <2>2. Layer(Put(Rollback(k, e), e, DELIMITER))
    BY <1>2, <2>1, DelimitLayer
  <2>3. Terminate(n, e, delay) = Put(Rollback(k, e), e, DELIMITER)
    BY <1>5 DEF Terminate, m
  <2> QED BY <2>2, <2>3
<1>6. CASE n.end[e].state \in {"active", "delimiter_received"}
  <2> DEFINE a == Ask(m, e)
  <2>1. Talks(m, e)
    BY <1>1, <1>6 DEF Talks, Silent
  <2>2. Still(m, a) /\ a.end[e].state = "term_req_sent1"
    BY <1>2, <2>1, AskStill
  <2> HIDE DEF a
  <2>3. Layer(a)
    BY <1>2, <2>2, StillLayer
  <2>4. Talks(a, e) /\ a.end[e].state # "active"
    BY <2>2 DEF Talks, Silent
  <2> DEFINE k == [a EXCEPT !.end[e].outActive = FALSE]
  <2>5. Layer(Put(Rollback(k, e), e, DELIMITER))
    BY <2>3, <2>4, DelimitLayer
  <2>6. Terminate(n, e, delay) = Put(Rollback(k, e), e, DELIMITER)
    BY <1>6 DEF Terminate, Ask, m, a
  <2> QED BY <2>5, <2>6
<1>7. n.end[e].state \in States
    BY <1>0, NetFields, EndFields
<1> QED BY <1>3, <1>4, <1>5, <1>6, <1>7 DEF Has, States

\* All there is is read, where no delimiter is.
LEMMA WholeRead ==
    ASSUME NEW ready \in Seq(Frame), \A i \in DOMAIN ready : ready[i] # DELIMITER
    PROVE  Whole(ready) = Len(ready) /\ Messages(ready, Whole(ready)) = Count(ready)
<1> DEFINE k == Whole(ready)
<1>1. k \in 0 .. Len(ready) /\ (k = Len(ready) \/ (k = Len(ready) - 1 /\ ready[k + 1] = DELIMITER))
    BY WholeFacts
<1> HIDE DEF k
<1>2. k = Len(ready)
    BY <1>1
<1>3. SubSeq(ready, 1, Len(ready)) = ready
    OBVIOUS
<1>4. Messages(ready, Len(ready)) = Count(ready)
    BY <1>3 DEF Messages
<1> QED BY <1>2, <1>3, <1>4 DEF k

\* All there is is read, and reported.
LEMMA BatchLayer ==
    ASSUME NEW n, Layer(n), Reads(n, "sock")
    PROVE  Layer(Batch(n, "sock"))
<1> DEFINE e == "sock"
           m == Batch(n, e)
           q == n.end[e].in
           r == AllRead(n, e)
           d == Due(n.end[e].read, r)
<1>0. e \in End /\ Peer(e) \in End
    BY DEF End, Peer
<1>1. Sound(n) /\ n \in NetType /\ q \in DOMAIN n.queue /\ n.end["sock"].state # "none"
    BY <1>0, ReadsTalks DEF Layer
<1>2a. /\ m \in NetType /\ m.mail[e] = n.mail[e]
       /\ m.end[Peer(e)] = n.end[Peer(e)] /\ m.end[e].state = n.end[e].state
       /\ Points(m.end[e], n.end[e])
       /\ m.end[e].written = n.end[e].written /\ m.end[e].peersRead = n.end[e].peersRead
       /\ DOMAIN m.queue = DOMAIN n.queue
    BY <1>0, <1>1, BatchEffect
<1>2b. d \in Seq(Cmd) /\ Reported(d, n.end[e].read, r) /\ m.end[e].read = r
    BY <1>0, <1>1, BatchEffect
<1>2c. m.mail[Peer(e)] = Cat(n.mail[Peer(e)], d)
    BY <1>0, <1>1, BatchEffect
<1>2d. /\ \A p \in DOMAIN n.queue : p # q => m.queue[p] = n.queue[p]
       /\ m.queue[q].part = n.queue[q].part
    BY <1>0, <1>1, BatchEffect
<1> PICK k : k = Whole(n.queue[q].ready)
    OBVIOUS
<1>2e. m.queue[q].ready = Beyond(n.queue[q].ready, k)
    BY <1>0, <1>1, BatchEffect
<1>2f. r = n.end[e].read + Messages(n.queue[q].ready, Whole(n.queue[q].ready))
    BY <1>0, <1>1, AllReadFacts
<1> HIDE DEF m, r, d
<1>3. Route(n, m)
    BY <1>0, <1>2a, SameRoute
<1>4. Drawn(n, m, e)
    BY <1>2a, <1>2d, <1>3 DEF Drawn, Points
<1>5. ASSUME n.end[Peer(e)].state = "active"
      PROVE  Settled(n.end[Peer(e)].written, n.end[Peer(e)].peersRead, m.end[e].read,
                     m.queue[q].ready, m.queue[q].part, m.mail[Peer(e)])
  <2>1. Settled(n.end[Peer(e)].written, n.end[Peer(e)].peersRead, n.end[e].read,
                n.queue[q].ready, n.queue[q].part, n.mail[Peer(e)])
    BY <1>0, <1>5, InOut
  <2>2. /\ n.end[Peer(e)].written \in Int /\ n.end[Peer(e)].peersRead \in Nat /\ n.end[e].read \in Nat
        /\ n.queue[q].ready \in Seq(Frame) /\ n.queue[q].part \in Seq(Frame) /\ n.mail[Peer(e)] \in Seq(Cmd)
    BY <1>0, <1>1, NetFields, EndFields, QueueFields
  <2>3. /\ Messages(n.queue[q].ready, Whole(n.queue[q].ready)) = Count(n.queue[q].ready)
        /\ m.queue[q].ready = <<>>
    <3>1. \A i \in DOMAIN n.queue[q].ready : n.queue[q].ready[i] # DELIMITER
      BY <2>1 DEF Settled
    <3>2. k = Len(n.queue[q].ready) /\ Messages(n.queue[q].ready, Whole(n.queue[q].ready)) = Count(n.queue[q].ready)
      BY <2>2, <3>1, WholeRead
    <3>3. SubSeq(n.queue[q].ready, k + 1, Len(n.queue[q].ready)) = <<>>
      BY <2>2, <3>2
    <3> QED BY <3>2, <3>3, <1>2e DEF Beyond
  <2> DEFINE w == n.end[Peer(e)].written
             known == n.end[Peer(e)].peersRead
             read == n.end[e].read
             ready == n.queue[q].ready
             part == n.queue[q].part
             M == n.mail[Peer(e)]
  <2>4. r = read + Count(ready) /\ d \in Seq(Cmd) /\ Reported(d, read, r)
    BY <2>3, <1>2b, <1>2f
  <2>5. /\ Settled(w, known, read, ready, part, M)
        /\ w \in Int /\ known \in Nat /\ read \in Nat
        /\ ready \in Seq(Frame) /\ part \in Seq(Frame) /\ M \in Seq(Cmd)
    BY <2>1, <2>2
  <2> HIDE DEF w, known, read, ready, part, M
  <2>6. Settled(w, known, r, <<>>, part, Cat(M, d))
    BY <2>4, <2>5, SettledBatch
  <2> QED BY <2>3, <2>6, <1>2b, <1>2c, <1>2d DEF w, known, part, M
<1>6. Layer(m)
    BY <1>0, <1>1, <1>4, <1>5, DrawnLayer
<1> QED BY <1>6 DEF m

\* XPUB reads all the subscriptions that have come.
LEMMA ReadAllLayer ==
    ASSUME NEW n, Layer(n)
    PROVE  Layer(ReadAll(n, "sock"))
<1>0. "sock" \in End
    BY DEF End
<1>1. CASE ~CanRead(n, "sock")
    BY <1>1, ReadAllBatch
<1>2. CASE CanRead(n, "sock")
  <2>1. Reads(n, "sock")
    BY <1>2 DEF CanRead, Reads
  <2> DEFINE b == Batch(n, "sock")
  <2>2. Layer(b)
    BY <2>1, BatchLayer
  <2> HIDE DEF b
  <2>3. Layer(Read(b, "sock"))
    BY <1>0, <2>2, ReadLayer
  <2> QED BY <1>2, <2>3, ReadAllBatch DEF b
<1> QED BY <1>1, <1>2

\* A report is taken.
LEMMA CreditLayer ==
    ASSUME NEW n, Layer(n), NEW e \in End, n.mail[e] # <<>>, Head(n.mail[e])[1] = "activate_write",
           NEW b \in BOOLEAN
    PROVE  LET r == [n EXCEPT !.mail[e] = Tail(@)]
           IN Layer(Credited(r, e, Head(n.mail[e])[2], b))
<1> DEFINE r == [n EXCEPT !.mail[e] = Tail(@)]
           c == Head(n.mail[e])[2]
           m == Credited(r, e, c, b)
<1>0. n \in NetType /\ Peer(e) \in End /\ Sound(n) /\ Flows(n)
    BY Ends DEF Layer, Sound
<1>1. /\ r \in NetType /\ r.end = n.end /\ r.queue = n.queue
      /\ r.mail[e] = Tail(n.mail[e]) /\ r.mail[Peer(e)] = n.mail[Peer(e)]
    BY <1>0, TakenEffect
<1>2. n.mail[e] \in Seq(Cmd) /\ c \in Nat
  <2>1. n.mail[e] \in Seq(Cmd)
    BY <1>0, NetFields
  <2>2. Head(n.mail[e]) \in Cmd
    BY <2>1
  <2> QED BY <2>1, <2>2 DEF Cmd
<1> HIDE DEF r, c
<1>3a. /\ m \in NetType /\ m.queue = r.queue /\ m.mail = r.mail
       /\ m.end[Peer(e)] = r.end[Peer(e)] /\ m.end[e].state = r.end[e].state
       /\ Points(m.end[e], r.end[e])
       /\ m.end[e].read = r.end[e].read /\ m.end[e].written = r.end[e].written
    BY <1>1, <1>2, CreditEffect
<1>3b. m.end[e].peersRead = c
    BY <1>1, <1>2, CreditEffect
<1> HIDE DEF m
<1>3. /\ m \in NetType /\ m.queue = n.queue
      /\ m.mail[e] = Tail(n.mail[e]) /\ m.mail[Peer(e)] = n.mail[Peer(e)]
      /\ m.end[Peer(e)] = n.end[Peer(e)] /\ m.end[e].state = n.end[e].state
      /\ Points(m.end[e], n.end[e])
      /\ m.end[e].read = n.end[e].read /\ m.end[e].written = n.end[e].written
      /\ m.end[e].peersRead = c
    BY <1>1, <1>3a, <1>3b
<1> HIDE DEF m
<1>4. Route(n, m)
    BY <1>3, SameRoute
<1>5. Sound(m)
    BY <1>0, <1>4, RouteSound
<1>6. FlowInv(m, e)
  <2> SUFFICES ASSUME m.end[e].state = "active"
               PROVE  Settled(m.end[e].written, m.end[e].peersRead, m.end[Peer(e)].read,
                          m.queue[m.end[e].out].ready, m.queue[m.end[e].out].part, m.mail[e])
    BY DEF FlowInv
  <2> DEFINE q == n.end[e].out
  <2>1. FlowInv(n, e) /\ n.end[e].state = "active" /\ m.end[e].out = q
    BY <1>0, <1>3 DEF Flows, End, Points
  <2>2. Settled(n.end[e].written, n.end[e].peersRead, n.end[Peer(e)].read,
                n.queue[q].ready, n.queue[q].part, n.mail[e])
    BY <2>1 DEF FlowInv
  <2>3. n.end[e].written \in Int /\ n.end[e].peersRead \in Nat /\ n.end[Peer(e)].read \in Nat
    BY <1>0, NetFields, EndFields
  <2> HIDE DEF q
  <2>4. Settled(n.end[e].written, Head(n.mail[e])[2], n.end[Peer(e)].read,
                n.queue[q].ready, n.queue[q].part, Tail(n.mail[e]))
    BY <1>2, <2>2, <2>3, SettledCredit
  <2> QED BY <2>1, <2>4, <1>3 DEF c
<1>7. FlowInv(m, Peer(e))
  <2>1. FlowInv(n, Peer(e)) /\ Peer(Peer(e)) = e
    BY <1>0, Ends DEF Flows, End
  <2> QED BY <2>1, <1>3 DEF FlowInv
<1>8. Ahead(m)
  <2>1. m.end["sock"].state = n.end["sock"].state /\ m.end["sock"].out = n.end["sock"].out
    BY <1>3, Ends DEF Points, End
  <2> QED BY <2>1, <1>0, <1>3 DEF Flows, Ahead, Unwritten
<1>9. Layer(m)
    BY <1>5, <1>6, <1>7, <1>8, FlowsIntro
<1> QED BY <1>9 DEF m, r, c

\* pipe_term is answered.
LEMMA AnswerLayer ==
    ASSUME NEW n, Layer(n), NEW e \in End, n.end[e].state # "none"
    PROVE  Layer(Answer(n, e))
<1>0. n \in NetType /\ Sound(n)
    BY DEF Layer, Sound
<1>1. CASE n.end[e].state = "active" /\ n.end[e].delay
  <2>1. "waiting_for_delimiter" \in States \ (Silent \cup {"none", "active"}) /\ Talks(n, e)
    BY <1>1 DEF States, Silent, Talks
  <2>2. Layer(Goto(n, e, "waiting_for_delimiter"))
    BY <1>0, <2>1, GotoStill, StillLayer
  <2> QED BY <1>1, <2>2 DEF Answer
<1>2. CASE ~(n.end[e].state = "active" /\ n.end[e].delay)
  <2>1. "term_ack_sent" \in Silent /\ "term_req_sent2" \in Silent
    BY DEF Silent
  <2>2. Layer(Acknowledge(n, e, "term_ack_sent")) /\ Layer(Acknowledge(n, e, "term_req_sent2"))
    BY <1>0, <2>1, AcknowledgeStill, StillLayer
  <2> QED BY <1>2, <2>2 DEF Answer
<1> QED BY <1>1, <1>2

\* The last end is deleted: nothing is counted any more.
LEMMA EndedLayer ==
    ASSUME NEW n, NEW e \in End, Ending(n, e), QueueInv(n)
    PROVE  Layer(Deallocate(n, e))
<1> DEFINE m == Deallocate(n, e)
<1>1. Both(m) /\ m.end[Peer(e)] = n.end[Peer(e)] /\ m.end[e].state = "deleted"
    BY EndedBoth
<1> HIDE DEF m
<1>2. n.end[Peer(e)].state \in Silent
    BY DEF Ending
<1>3. \A x \in End : m.end[x].state \in Silent
    BY <1>1, <1>2, Ends DEF Silent
<1>4. Sound(m)
    BY <1>1, BothSound
<1>5. "sock" \in End /\ "sess" \in End /\ "none" \notin Silent /\ "active" \notin Silent
    BY DEF End, Silent
<1>6. m.end["sock"].out = NULL /\ m.end["sock"].state # "none"
    BY <1>3, <1>4, <1>5 DEF Sound
<1>7. FlowInv(m, "sock") /\ FlowInv(m, "sess")
    BY <1>3, <1>5 DEF FlowInv
<1>8. Ahead(m)
    BY <1>6 DEF Ahead, Unwritten
<1> QED BY <1>4, <1>7, <1>8 DEF Layer, Flows, m

\* The session makes a queue, and tells the socket.
LEMMA HiccupLayer ==
    ASSUME NEW n, Both(n), Flows(n)
    PROVE  Layer(Hiccup(n, "sess"))
<1>0. "sess" \in End /\ "sock" \in End /\ Peer("sess") = "sock" /\ Peer("sock") = "sess"
    BY DEF End, Peer
<1>1. Sound(n) /\ n \in NetType
    BY BothSound DEF Sound
<1>2. CASE n.end["sess"].state # "active"
    BY <1>1, <1>2 DEF Hiccup, Layer
<1>3. CASE n.end["sess"].state = "active"
  <2> DEFINE m == Hiccup(n, "sess")
             a == Len(n.queue) + 1
  <2>1a. /\ m.mail["sess"] = n.mail["sess"] /\ m.queue = Append(n.queue, NewQueue) /\ a \in Nat
         /\ m.end["sock"] = n.end["sock"]
         /\ m.end["sess"].state = "active" /\ m.end["sess"].out = n.end["sess"].out
         /\ Counters(m.end["sess"], n.end["sess"])
    <3>1. m.mail["sess"] = n.mail["sess"] /\ m.queue = Append(n.queue, NewQueue)
      BY <1>0, <1>1, <1>3, HiccupEffect
    <3>2. a \in Nat
      BY <1>1, SockFields
    <3>3. m.end[Peer("sess")] = n.end[Peer("sess")]
      BY <1>0, <1>1, <1>3, HiccupEffect
    <3>4. m.end["sess"].state = "active" /\ m.end["sess"].out = n.end["sess"].out
      BY <1>0, <1>1, <1>3, HiccupEffect
    <3>5. Counters(m.end["sess"], n.end["sess"])
      BY <1>0, <1>1, <1>3, HiccupEffect
    <3> HIDE DEF m, a
    <3> QED BY <3>1, <3>2, <3>3, <3>4, <3>5, <1>0
  <2>1b. m.mail["sock"] = Append(n.mail["sock"], <<"hiccup", a>>)
    <3>1. m.mail[Peer("sess")] = Append(n.mail[Peer("sess")], <<"hiccup", Len(n.queue) + 1>>)
      BY <1>0, <1>1, <1>3, HiccupEffect
    <3> HIDE DEF m
    <3> QED BY <3>1, <1>0
  <2>2. Sound(m)
    BY HiccupBoth, BothSound
  <2> HIDE DEF m, a
  <2>3. \A q \in DOMAIN n.queue : m.queue[q] = n.queue[q]
    <3>1. n.queue \in Seq(QueueType)
      BY <1>1, NetFields
    <3> QED BY <3>1, <2>1a
  <2>4. \A q \in DOMAIN m.queue : q \in DOMAIN n.queue \/ m.queue[q] = NewQueue
    <3>1. n.queue \in Seq(QueueType)
      BY <1>1, NetFields
    <3> QED BY <3>1, <2>1a
  <2>5. FlowInv(m, "sess")
    <3>1. n.end["sess"].out \in DOMAIN n.queue
      BY <1>0, <1>1, <1>3, ActiveOut
    <3> QED BY <3>1, <1>0, <1>3, <2>1a, <2>3 DEF Flows, FlowInv, Counters
  <2>6. FlowInv(m, "sock")
    <3> SUFFICES ASSUME m.end["sock"].state = "active"
                 PROVE  Settled(m.end["sock"].written, m.end["sock"].peersRead, m.end["sess"].read,
                            m.queue[m.end["sock"].out].ready, m.queue[m.end["sock"].out].part, m.mail["sock"])
      BY <1>0 DEF FlowInv
    <3> DEFINE q == n.end["sock"].out
    <3>1. n.end["sock"].state = "active" /\ q \in DOMAIN n.queue
      BY <1>0, <1>1, <2>1a, ActiveOut
    <3>2. Settled(n.end["sock"].written, n.end["sock"].peersRead, n.end["sess"].read,
                  n.queue[q].ready, n.queue[q].part, n.mail["sock"])
      BY <1>0, <3>1 DEF Flows, FlowInv
    <3>3. n.end["sock"].peersRead \in Nat /\ n.end["sess"].read \in Nat /\ n.mail["sock"] \in Seq(Cmd)
      BY <1>0, <1>1, NetFields, EndFields
    <3>4. <<"hiccup", a>> \in Cmd /\ <<"hiccup", a>>[1] # "activate_write"
      BY <2>1a DEF Cmd, PipeTypes
    <3> HIDE DEF q
    <3>5. Settled(n.end["sock"].written, n.end["sock"].peersRead, n.end["sess"].read,
                  n.queue[q].ready, n.queue[q].part, Append(n.mail["sock"], <<"hiccup", a>>))
      BY <3>2, <3>3, <3>4, SettledSent
    <3>6. m.end["sock"].out = q /\ m.queue[q] = n.queue[q] /\ m.end["sess"].read = n.end["sess"].read
      BY <2>1a, <2>3, <3>1 DEF q, Counters
    <3> QED BY <2>1a, <2>1b, <3>5, <3>6
  <2>7. Ahead(m)
    <3> SUFFICES ASSUME NEW q \in DOMAIN m.queue, Unwritten(m, q)
                 PROVE  m.queue[q].ready = <<>> /\ m.queue[q].part = <<>>
      BY DEF Ahead
    <3>1. Unwritten(n, q)
      BY <2>1a DEF Unwritten
    <3>2. CASE q \in DOMAIN n.queue
      BY <3>1, <3>2, <2>3 DEF Flows, Ahead
    <3>3. CASE q \notin DOMAIN n.queue
      BY <3>3, <2>4 DEF NewQueue
    <3> QED BY <3>2, <3>3
  <2>8. Layer(m)
    BY <2>2, <2>5, <2>6, <2>7 DEF Layer, Flows
  <2> QED BY <2>8 DEF m
<1> QED BY <1>2, <1>3

\* The socket turns to the queue of a hiccup: what it gives up is no longer counted.
LEMMA TurnedLayer ==
    ASSUME NEW n, Both(n), Flows(n), n.mail["sock"] # <<>>, Head(n.mail["sock"])[1] = "hiccup",
           n.end["sock"].out # NULL
    PROVE  LET r == [n EXCEPT !.mail["sock"] = Tail(@)]
               a == Head(n.mail["sock"])[2]
           IN Layer(Turned(r, a)) /\ Turned(r, a) \in NetType
<1> DEFINE r == [n EXCEPT !.mail["sock"] = Tail(@)]
           a == Head(n.mail["sock"])[2]
           m == Turned(r, a)
           q == n.end["sock"].out
           unread == Count(n.queue[q].ready)
<1>0. "sess" \in End /\ "sock" \in End /\ Peer("sess") = "sock" /\ Peer("sock") = "sess"
    BY DEF End, Peer
<1>1. Sound(n) /\ n \in NetType /\ PairInv(n) /\ QueueInv(n) /\ q \in DOMAIN n.queue /\ q \in Nat
    BY <1>0, BothSound, SockFields DEF Sound, Both, RefInv
<1>2. /\ a \in DOMAIN n.queue /\ a \in Nat /\ Both(m) /\ m \in NetType
      /\ m.mail["sock"] = Tail(n.mail["sock"]) /\ m.mail["sess"] = n.mail["sess"]
      /\ \A x \in End : m.end[x].state = n.end[x].state
    BY <1>1, TurnedQueue DEF Both, PairInv
<1>3. a = q + 1
    BY <1>1, SockFields, HiccupTaken DEF QueueInv
<1>4. r \in NetType /\ r.end = n.end /\ r.queue = n.queue
    BY <1>0, <1>1, TakenEffect
<1> HIDE DEF r, a, q
<1>5. q \in DOMAIN r.queue /\ q = r.end["sock"].out /\ Count(r.queue[q].ready) = unread
    BY <1>1, <1>4 DEF q
<1>6a. /\ m.end["sess"] = r.end["sess"] /\ m.end["sock"].out = a
       /\ m.end["sock"].read = r.end["sock"].read
       /\ m.end["sock"].peersRead = r.end["sock"].peersRead
       /\ DOMAIN m.queue = DOMAIN r.queue
       /\ m.queue[q].ready = <<>> /\ m.queue[q].part = <<>>
       /\ \A p \in DOMAIN r.queue : p # q => m.queue[p] = r.queue[p]
  <2>1. m.end["sess"] = r.end["sess"]
    BY <1>2, <1>4, <1>5, TurnedEffect
  <2>2. m.end["sock"].out = a
    BY <1>2, <1>4, <1>5, TurnedEffect
  <2>3. m.end["sock"].read = r.end["sock"].read
    BY <1>2, <1>4, <1>5, TurnedEffect
  <2>4. m.end["sock"].peersRead = r.end["sock"].peersRead
    BY <1>2, <1>4, <1>5, TurnedEffect
  <2>5. DOMAIN m.queue = DOMAIN r.queue
    <3>0. r \in NetType /\ q \in DOMAIN r.queue /\ q = r.end["sock"].out /\ a \in Nat
      BY <1>2, <1>4, <1>5
    <3>1. Len(m.queue) = Len(r.queue)
      BY <3>0, TurnedEffect
    <3>2. m.queue \in Seq(QueueType) /\ r.queue \in Seq(QueueType)
      BY <1>2, <1>4, NetFields
    <3> HIDE DEF m
    <3> QED BY <3>1, <3>2
  <2>6. m.queue[q].ready = <<>> /\ m.queue[q].part = <<>>
    BY <1>2, <1>4, <1>5, TurnedEffect
  <2>7. ASSUME NEW p \in DOMAIN r.queue, p # q PROVE m.queue[p] = r.queue[p]
    BY <1>2, <1>4, <1>5, <2>7, TurnedOthers
  <2> QED BY <2>1, <2>2, <2>3, <2>4, <2>5, <2>6, <2>7
<1>6b. m.end["sock"].written = Remaining(r, q)
    BY <1>2, <1>4, <1>5, TurnedEffect
<1>6c. Remaining(r, q) = n.end["sock"].written - unread
    BY <1>4 DEF Remaining
<1> HIDE DEF m
<1>6. /\ m.end["sess"] = n.end["sess"] /\ m.end["sock"].out = a
      /\ m.end["sock"].read = n.end["sock"].read
      /\ m.end["sock"].peersRead = n.end["sock"].peersRead
      /\ m.end["sock"].written = n.end["sock"].written - unread
      /\ DOMAIN m.queue = DOMAIN n.queue
      /\ m.queue[q].ready = <<>> /\ m.queue[q].part = <<>>
      /\ \A p \in DOMAIN n.queue : p # q => m.queue[p] = n.queue[p]
    BY <1>4, <1>5, <1>6a, <1>6b, <1>6c
<1>7. Sound(m)
    BY <1>2, BothSound
<1>8. FlowInv(m, "sess")
  <2>1. CASE n.end["sess"].state # "active"
    BY <2>1, <1>6 DEF FlowInv
  <2>2. CASE n.end["sess"].state = "active"
    <3>1. n.end["sess"].out \in DOMAIN n.queue /\ n.end["sess"].out # q
      BY <1>0, <1>1, <2>2, ActiveOut, Apart DEF q
    <3>2. FlowInv(n, "sess")
      BY DEF Flows
    <3> QED BY <3>1, <3>2, <1>0, <1>2, <1>6, <2>2 DEF FlowInv
  <2> QED BY <2>1, <2>2
<1>9. FlowInv(m, "sock")
  <2> SUFFICES ASSUME m.end["sock"].state = "active"
               PROVE  Settled(m.end["sock"].written, m.end["sock"].peersRead, m.end["sess"].read,
                          m.queue[m.end["sock"].out].ready, m.queue[m.end["sock"].out].part, m.mail["sock"])
    BY <1>0 DEF FlowInv
  <2>1. n.end["sock"].state = "active"
    BY <1>0, <1>2
  <2>2. Settled(n.end["sock"].written, n.end["sock"].peersRead, n.end["sess"].read,
                n.queue[q].ready, n.queue[q].part, n.mail["sock"])
    BY <1>0, <2>1 DEF Flows, FlowInv, q
  <2>3. /\ n.end["sock"].written \in Int /\ n.end["sock"].peersRead \in Nat /\ n.end["sess"].read \in Nat
        /\ n.mail["sock"] \in Seq(Cmd) /\ n.queue[q].ready \in Seq(Frame)
    BY <1>0, <1>1, NetFields, EndFields, QueueFields
  <2>4. Settled(n.end["sock"].written - Count(n.queue[q].ready), n.end["sock"].peersRead, n.end["sess"].read,
                <<>>, <<>>, n.mail["sock"])
    BY <2>2, <2>3, SettledTurn
  <2>5. Settled(n.end["sock"].written - Count(n.queue[q].ready), n.end["sock"].peersRead, n.end["sess"].read,
                <<>>, <<>>, Tail(n.mail["sock"]))
    BY <2>3, <2>4, SettledTaken
  <2>6. m.queue[a].ready = <<>> /\ m.queue[a].part = <<>>
    <3>1. Unwritten(n, a) /\ a # q
      BY <1>1, <1>3 DEF Unwritten, q
    <3>2. n.queue[a].ready = <<>> /\ n.queue[a].part = <<>>
      BY <3>1, <1>2 DEF Flows, Ahead
    <3> QED BY <3>1, <3>2, <1>2, <1>6
  <2> QED BY <2>5, <2>6, <1>2, <1>6
<1>10. Ahead(m)
  <2> SUFFICES ASSUME NEW p \in DOMAIN m.queue, Unwritten(m, p)
               PROVE  m.queue[p].ready = <<>> /\ m.queue[p].part = <<>>
    BY DEF Ahead
  <2>1. CASE p = q
    BY <2>1, <1>6
  <2>2. CASE p # q
    <3>1. p \in Nat /\ q # NULL
      BY <1>1, <1>6, NetFields DEF q
    <3>2. Unwritten(n, p)
      BY <3>1, <1>0, <1>1, <1>2, <1>3, <1>6 DEF Unwritten, q
    <3>3. n.queue[p].ready = <<>> /\ n.queue[p].part = <<>>
      BY <3>2, <1>6 DEF Flows, Ahead
    <3> QED BY <3>3, <2>2, <1>6
  <2> QED BY <2>1, <2>2
<1>11. Layer(m) /\ m \in NetType
    BY <1>2, <1>7, <1>8, <1>9, <1>10 DEF Layer, Flows
<1> QED BY <1>11 DEF m, r, a

\* An accepted session gets its pipe.
LEMMA AcceptedLayer ==
    ASSUME NEW n, Both(n), Flows(n), n.end["sock"].state = "none"
    PROVE  Layer(Accepted(n)) /\ Accepted(n) \in NetType
<1> DEFINE m == Accepted(n)
<1>1. n \in NetType /\ PairInv(n) /\ QueueInv(n) /\ Len(n.queue) >= 2
    BY DEF Both, PairInv, QueueInv
<1>2. /\ PairInv(m) /\ m.mail = n.mail /\ m.queue = n.queue
      /\ \A e \in End : m.end[e] = NewEnd(e, "active")
      /\ \A e \in End : Types(n.mail[e]) \cap PipeTypes = {}
    BY <1>1, AcceptedPair
<1>3. Sound(m)
    BY <1>1, <1>2, AcceptedQueue, BothSound DEF Both
<1> HIDE DEF m
<1>4. \A q \in DOMAIN m.queue : m.queue[q].ready = <<>> /\ m.queue[q].part = <<>>
    BY <1>2 DEF Flows, Ahead, Unwritten
<1>5. ASSUME NEW e \in End PROVE FlowInv(m, e)
  <2>1. Peer(e) \in End
    BY Ends
  <2>2. m.end[e] = NewEnd(e, "active") /\ m.end[Peer(e)] = NewEnd(Peer(e), "active")
    BY <1>2, <2>1
  <2>3. m.end[e].state = "active" /\ m.end[e].out \in DOMAIN m.queue
    <3>1. m.end[e].state = "active"
      BY <2>2 DEF NewEnd
    <3> QED BY <3>1, <1>3, ActiveOut
  <2>4. m.end[e].written = 0 /\ m.end[e].peersRead = 0 /\ m.end[Peer(e)].read = 0
    BY <2>2 DEF NewEnd
  <2>5. n.mail[e] \in Seq(Cmd) /\ "activate_write" \notin Types(n.mail[e])
    BY <1>1, <1>2, NetFields DEF PipeTypes
  <2>6. Settled(0, 0, 0, <<>>, <<>>, n.mail[e])
    BY <2>5, SettledNew
  <2> QED BY <2>3, <2>4, <2>6, <1>2, <1>4 DEF FlowInv
<1>6. Ahead(m)
    BY <1>4 DEF Ahead
<1>7. Layer(m) /\ m \in NetType
    BY <1>2, <1>3, <1>5, <1>6 DEF Layer, Flows, End, PairInv
<1> QED BY <1>7 DEF m

\* The layer, in a state of the invariant.
LEMMA NetLayer ==
    ASSUME IInv, Flows(net)
    PROVE  Layer(net) /\ Sound(net) /\ net \in NetType /\ "sock" \in End /\ "sess" \in End
BY InvFacts, BothSound DEF Layer

\* No message is the delimiter.
LEMMA MessageNotDelimiter ==
    ASSUME NEW n \in NetType, NEW e \in End
    PROVE  /\ First(n, e) \in Frame /\ First(n, e) # DELIMITER
           /\ Final(n, e) \in Frame /\ Final(n, e) # DELIMITER
<1>1. Count(n.sent[e]) \in Nat
    BY NetFields, CountNat
<1>2. Count(n.sent[e]) + 1 # 0
    BY <1>1
<1> QED BY <1>2, MessageFrames DEF First, Final, DELIMITER

\* The first or the last frame of a message is written.
LEMMA WriteMessageLayer ==
    ASSUME NEW n, Layer(n), NEW e \in End
    PROVE  /\ Layer(Write(n, e, First(n, e)))
           /\ Layer(Write(n, e, Final(n, e)))
<1>1. n \in NetType
    BY DEF Layer, Sound
<1> QED BY <1>1, MessageNotDelimiter, WriteLayer

\* A command between the owners is sent.
LEMMA SendLayer ==
    ASSUME NEW n, Layer(n), NEW x \in End, NEW type \in OwnTypes
    PROVE  Layer(Send(n, x, type, 0))
<1>1. n \in NetType /\ type \in (PipeTypes \cup OwnTypes) \ {"activate_write"} /\ 0 \in Nat
    BY DEF Layer, Sound, OwnTypes, PipeTypes
<1>2. Still(n, Send(n, x, type, 0))
    BY <1>1, SendStill
<1> QED BY <1>2, StillLayer

\* A command is taken.
LEMMA RestLayer ==
    ASSUME IInv, Flows(net), NEW x \in End, NEW type, Arrives(x, type)
    PROVE  Layer(Rest(x)) /\ Rest(x).end = net.end /\ Rest(x) \in NetType
<1>1. Layer(net) /\ net \in NetType /\ net.mail[x] # <<>>
    BY NetLayer DEF Arrives
<1>2. Still(net, Rest(x)) /\ Rest(x).end = net.end
    BY <1>1, RestStill DEF Rest
<1>3. Layer(Rest(x))
    BY <1>1, <1>2, StillLayer
<1> QED BY <1>2, <1>3 DEF Layer, Sound

\* The user's actions keep the fifth layer.
LEMMA SendWholeFlows ==
    ASSUME IInv, Flows(net), SendWhole
    PROVE  Flows(net')
<1>1. net' = Write(net, "sock", First(net, "sock"))
    BY DEF SendWhole
<1> QED BY <1>1, NetLayer, WriteMessageLayer DEF Layer

\* The first frame of a message, after a read or not.
LEMMA WriteFirstFlows ==
    ASSUME NEW n, Layer(n), WriteFirst(n)
    PROVE  Flows(net')
<1>1. net' = n \/ net' = Write(n, "sock", First(n, "sock"))
    BY DEF WriteFirst
<1> QED BY <1>1, WriteMessageLayer DEF Layer, End

\* SendFirst keeps the fifth layer.
LEMMA SendFirstFlows ==
    ASSUME IInv, Flows(net), SendFirst
    PROVE  Flows(net')
BY NetLayer, WriteFirstFlows DEF SendFirst

\* SendLast keeps the fifth layer.
LEMMA SendLastFlows ==
    ASSUME IInv, Flows(net), SendLast
    PROVE  Flows(net')
<1>1. net' = net \/ net' = Write(net, "sock", Final(net, "sock")) \/ net' = Rollback(net, "sock")
    BY DEF SendLast
<1>2. Layer(Rollback(net, "sock"))
    BY NetLayer, RollbackStill, StillLayer
<1>3. Layer(Write(net, "sock", Final(net, "sock")))
    BY NetLayer, WriteMessageLayer
<1> QED BY <1>1, <1>2, <1>3 DEF Layer

\* Receive keeps the fifth layer.
LEMMA ReceiveFlows ==
    ASSUME IInv, Flows(net), Receive
    PROVE  Flows(net')
<1>1. net' = Read(net, "sock") \/ net' = ReadMessage(net, "sock")
    BY DEF Receive
<1> QED BY <1>1, NetLayer, ReadLayer, ReadMessageLayer DEF Layer

\* ReceiveRequest keeps the fifth layer.
LEMMA ReceiveRequestFlows ==
    ASSUME IInv, Flows(net), ReceiveRequest
    PROVE  Flows(net')
<1> DEFINE n == ReadMessage(net, "sock")
<1>1. Layer(n)
    BY NetLayer, ReadMessageLayer
<1>2. net' = n \/ WriteFirst(n)
    BY DEF ReceiveRequest
<1> HIDE DEF n
<1> QED BY <1>1, <1>2, WriteFirstFlows DEF Layer

\* Close keeps the fifth layer.
LEMMA CloseFlows ==
    ASSUME IInv, Flows(net), Close
    PROVE  Flows(net')
<1> DEFINE pipe == attached /\ Has(net, "sock")
           n == IF pipe THEN Terminate(net, "sock", FALSE) ELSE net
           child == ~Connects \/ owner = "owned"
           type == IF Connects THEN "term" ELSE "term_listener"
<1>1. net' = IF ~child THEN n ELSE Send(n, "sess", type, 0)
    BY DEF Close
<1>2. Layer(n)
    BY NetLayer, TerminateLayer
<1>3. type \in OwnTypes
    BY DEF OwnTypes
<1> HIDE DEF n, type
<1>4. Layer(Send(n, "sess", type, 0))
    BY <1>2, <1>3, SendLayer DEF End
<1> QED BY <1>1, <1>2, <1>4 DEF Layer

\* So do the engine's.
LEMMA EngineReadyFlows ==
    ASSUME IInv, Flows(net), EngineReady
    PROVE  Flows(net')
<1>1. CASE Connects
  <2>1. net' = net
    BY <1>1 DEF EngineReady
  <2> QED BY <2>1
<1>2. CASE ~Connects
  <2> DEFINE a == Accepted(net)
  <2>1. net' = Send(a, "sock", "bind", 0)
    BY <1>2 DEF EngineReady, Accepted
  <2>2. net.end["sock"].state = "none"
    <3>1. conns < 1 /\ conns \in 0 .. MaxConn /\ MaxConn \in Nat
      BY <1>2, PipeAssumption DEF EngineReady, IInv, TypeOK
    <3>2. conns = 0
      BY <3>1
    <3> QED BY <1>2, <3>2 DEF IInv, SocketInv
  <2>3. Layer(a)
    BY <2>2, InvFacts, AcceptedLayer
  <2>4. "bind" \in OwnTypes /\ "sock" \in End
    BY DEF OwnTypes, End
  <2> HIDE DEF a
  <2> QED BY <2>1, <2>3, <2>4, SendLayer DEF Layer
<1> QED BY <1>1, <1>2

\* Push keeps the fifth layer.
LEMMA PushFlows ==
    ASSUME IInv, Flows(net), Push
    PROVE  Flows(net')
<1>1. net' = Write(net, "sess", First(net, "sess")) \/ net' = Write(net, "sess", Final(net, "sess"))
    BY DEF Push
<1> QED BY <1>1, NetLayer, WriteMessageLayer DEF Layer

\* Pull keeps the fifth layer.
LEMMA PullFlows ==
    ASSUME IInv, Flows(net), Pull
    PROVE  Flows(net')
<1>1. net' = Read(net, "sess") \/ net' = ReadMessage(net, "sess")
    BY DEF Pull
<1> QED BY <1>1, NetLayer, ReadLayer, ReadMessageLayer DEF Layer

\* EngineError keeps the fifth layer.
LEMMA EngineErrorFlows ==
    ASSUME IInv, Flows(net), EngineError
    PROVE  Flows(net')
<1> DEFINE pipe == Has(net, "sess")
           n == IF pipe THEN CleanPipes(net) ELSE net
           m == CASE kind = "REQ" -> n
                  [] kind = "SUB" -> IF pipe THEN Hiccup(n, "sess") ELSE n
                  [] ~Connects /\ pending -> IF pipe THEN Terminate(n, "sess", FALSE) ELSE n
                  [] OTHER -> Send(n, "sess", "term_req", 0)
<1>0. "sess" \in End /\ "term_req" \in OwnTypes
    BY DEF End, OwnTypes
<1>1. net' = (IF pipe THEN CheckRead(m, "sess") ELSE m)
    BY DEF EngineError
<1>2. Layer(n)
    BY NetLayer, CleanPipesLayer
<1>3. Step(net, n, "sess")
    BY InvFacts, StepReflexive, CleanPipesStep
<1> HIDE DEF n
<1>4. Both(n) /\ Alike(net, n)
    BY <1>3, InvFacts, SessionSide
<1>5. pipe => Has(n, "sess")
    BY <1>0, <1>4 DEF Alike
<1>6. Layer(Hiccup(n, "sess"))
    BY <1>2, <1>4, HiccupLayer DEF Layer
<1>7. pipe => Layer(Terminate(n, "sess", FALSE))
    BY <1>0, <1>2, <1>5, TerminateLayer
<1>8. Layer(Send(n, "sess", "term_req", 0))
    BY <1>0, <1>2, SendLayer
<1>9. \/ m = n
      \/ m = Hiccup(n, "sess")
      \/ pipe /\ m = Terminate(n, "sess", FALSE)
      \/ m = Send(n, "sess", "term_req", 0)
    BY DEF Connects
<1> HIDE DEF m, pipe
<1>10. Layer(m)
    BY <1>2, <1>6, <1>7, <1>8, <1>9
<1>11. Layer(CheckRead(m, "sess"))
    BY <1>0, <1>10, CheckReadLayer
<1> QED BY <1>1, <1>10, <1>11 DEF Layer

\* A reader is woken: XPUB reads, a session without an engine looks for a delimiter.
LEMMA ActivateReadFlows ==
    ASSUME IInv, Flows(net), NEW e \in End, ActivateRead(e)
    PROVE  Flows(net')
<1> DEFINE r == Rest(e)
           w == [r EXCEPT !.end[e].inActive = TRUE]
<1>1. Arrives(e, "activate_read") /\ (net' = r \/ net' = Activated(w, e))
    BY DEF ActivateRead
<1>2. Layer(r) /\ r \in NetType
    BY <1>1, RestLayer
<1> HIDE DEF r
<1>3. Layer(w)
    BY <1>2, WakeStill, StillLayer
<1> HIDE DEF w
<1>4. Layer(Activated(w, e))
  <2>1. CASE e = "sock"
    <3>1. Activated(w, e) = w \/ Activated(w, e) = ReadAll(w, "sock")
      BY <2>1 DEF Activated
    <3> QED BY <3>1, <1>3, ReadAllLayer
  <2>2. CASE e # "sock"
    <3>1. Activated(w, e) = w \/ Activated(w, e) = CheckRead(w, e)
      BY <2>2 DEF Activated
    <3> QED BY <3>1, <1>3, CheckReadLayer
  <2> QED BY <2>1, <2>2
<1> QED BY <1>1, <1>2, <1>4 DEF Layer

\* A report reaches the writer.
LEMMA ActivateWriteFlows ==
    ASSUME IInv, Flows(net), NEW e \in End, ActivateWrite(e)
    PROVE  Flows(net')
<1> DEFINE b == State(e) = "active"
<1>1. net.mail[e] # <<>> /\ Head(net.mail[e])[1] = "activate_write"
    BY DEF ActivateWrite, Arrives, Command
<1>2. net' = Credited([net EXCEPT !.mail[e] = Tail(@)], e, Head(net.mail[e])[2], b)
    BY DEF ActivateWrite, Credited, Rest, Command
<1>3. b \in BOOLEAN /\ Layer(net)
    BY NetLayer
<1> HIDE DEF b
<1> QED BY <1>1, <1>2, <1>3, CreditLayer DEF Layer

\* PipeTerm keeps the fifth layer.
LEMMA PipeTermFlows ==
    ASSUME IInv, Flows(net), NEW e \in End, PipeTerm(e)
    PROVE  Flows(net')
<1> DEFINE r == Rest(e)
<1>1. Arrives(e, "pipe_term")
    BY DEF PipeTerm
<1>2. Layer(r) /\ r.end = net.end
    BY <1>1, RestLayer
<1>3. net' = Answer(r, e)
  <2>1. net' = (CASE net.end[e].state = "active" /\ net.end[e].delay -> Goto(r, e, "waiting_for_delimiter")
                  [] net.end[e].state = "term_req_sent1" -> Acknowledge(r, e, "term_req_sent2")
                  [] OTHER -> Acknowledge(r, e, "term_ack_sent"))
    BY DEF PipeTerm, State
  <2> HIDE DEF r
  <2> QED BY <2>1, <1>2 DEF Answer
<1> HIDE DEF r
<1>4. r.end[e].state # "none"
  <2>1. Expected(e, "pipe_term")
    BY <1>1, TargetsFound DEF CommandsFindTheirTarget, Arrives
  <2> QED BY <2>1, <1>2 DEF Expected, State
<1> QED BY <1>2, <1>3, <1>4, AnswerLayer DEF Layer

\* The socket gives up a queue, and what it holds.
LEMMA ProcessHiccupFlows ==
    ASSUME IInv, Flows(net), ProcessHiccup
    PROVE  Flows(net')
<1> DEFINE a == Head(net.mail["sock"])[2]
           r == [net EXCEPT !.mail["sock"] = Tail(@)]
           n == Turned(r, a)
<1>1. net.mail["sock"] # <<>> /\ Head(net.mail["sock"])[1] = "hiccup"
    BY DEF ProcessHiccup, Arrives, Command
<1>2. net.end["sock"].out # NULL
  <2>1. Expected("sock", "hiccup")
    BY <1>1, InvFacts, TargetsFound DEF CommandsFindTheirTarget, Command
  <2> QED BY <2>1 DEF Expected
<1>3. Layer(n)
    BY <1>1, <1>2, InvFacts, TurnedLayer
<1>4. net' = n \/ net' = Write(n, "sock", First(n, "sock"))
  <2>1. r.end = net.end /\ r.queue = net.queue
    BY InvFacts DEF NetType
  <2> DEFINE X == [Rest("sock") EXCEPT
                      !.queue[net.end["sock"].out] = [NewQueue EXCEPT !.deleted = TRUE],
                      !.end["sock"].written = @ - Count(net.queue[net.end["sock"].out].ready),
                      !.end["sock"].out = Command("sock")[2],
                      !.end["sock"].outActive = TRUE]
  <2>2. n = X
    BY <2>1 DEF Turned, Rest, Command
  <2>3. net' = X \/ net' = Write(X, "sock", First(X, "sock"))
    BY DEF ProcessHiccup
  <2> HIDE DEF n, r, a, X
  <2> QED BY <2>2, <2>3
<1> HIDE DEF n
<1> QED BY <1>3, <1>4, InvFacts, WriteMessageLayer DEF Layer

\* SocketPipeTermAck keeps the fifth layer.
LEMMA SocketPipeTermAckFlows ==
    ASSUME IInv, Flows(net), SocketPipeTermAck
    PROVE  Flows(net')
<1>1. Arrives("sock", "pipe_term_ack") /\ net' = Deallocate(Rest("sock"), "sock")
    BY DEF SocketPipeTermAck
<1> QED BY <1>1, InvFacts, RestEnding, EndedLayer DEF Layer

\* SessionPipeTermAck keeps the fifth layer.
LEMMA SessionPipeTermAckFlows ==
    ASSUME IInv, Flows(net), SessionPipeTermAck
    PROVE  Flows(net')
<1> DEFINE r == Rest("sess")
           k == IF pending THEN Confirm(r) ELSE r
<1>1. net' = Deallocate(k, "sess") /\ Arrives("sess", "pipe_term_ack")
    BY DEF SessionPipeTermAck
<1>2. Ending(r, "sess") /\ QueueInv(r) /\ Alike(net, r) /\ Has(net, "sess")
    BY <1>1, InvFacts, RestEnding
<1> HIDE DEF r
<1>3. "term_ack" \notin SockMail /\ "child_ack" \notin SessMail
    BY <1>2, TypeFacts DEF IInv, SessionInv, SocketInv
<1>4. "term_ack" \notin Types(r.mail["sock"]) /\ "child_ack" \notin Types(r.mail["sess"])
  <2>1. /\ Becomes(SockMail, Types(r.mail["sock"]), "", "")
        /\ Becomes(SessMail, Types(r.mail["sess"]), "", "")
    BY <1>2, InvFacts, AlikeSame DEF Same, SockMail, SessMail
  <2> QED BY <1>3, <2>1 DEF Becomes, OwnTypes
<1>5. Ending(k, "sess") /\ QueueInv(k)
  <2>1. CASE ~pending
    <3>1. k = r
      BY <2>1
    <3> HIDE DEF k
    <3> QED BY <3>1, <1>2
  <2>2. CASE pending
    <3> DEFINE y == IF Connects THEN "sock" ELSE "sess"
               t == IF Connects THEN "term_ack" ELSE "child_ack"
               s == Send(r, y, t, 0)
    <3>1. k = s
      BY <2>2 DEF Confirm
    <3>2. /\ y \in End /\ t \in {"term_ack", "child_ack"} /\ t \in OwnTypes
          /\ t \notin Types(r.mail[y])
      BY <1>4 DEF End, OwnTypes
    <3> HIDE DEF y, t, k
    <3>3. /\ Ending(s, "sess") /\ s.end = r.end /\ s.queue = r.queue
          /\ s.mail[Peer(y)] = r.mail[Peer(y)]
          /\ Types(s.mail[y]) = Types(r.mail[y]) \cup {t}
          /\ Grown(r.mail[y], s.mail[y])
      BY <3>2, <1>2, InvFacts, EndingSend
    <3> HIDE DEF s
    <3>4. r \in NetType /\ s \in NetType
      BY <1>2, <3>3 DEF Ending
    <3>5. QueueInv(s)
      BY <3>4, <3>2, <3>3, <1>2, MailQueue
    <3> QED BY <3>1, <3>3, <3>5
  <2> QED BY <2>1, <2>2
<1> HIDE DEF k
<1> QED BY <1>1, <1>5, InvFacts, EndedLayer DEF Layer

\* Bind keeps the fifth layer.
LEMMA BindFlows ==
    ASSUME IInv, Flows(net), Bind
    PROVE  Flows(net')
<1> DEFINE r == Rest("sock")
           d == [r EXCEPT !.end["sock"].delay = FALSE]
           n == IF kind = "PUB" THEN ReadAll(d, "sock") ELSE r
           m == Terminate(n, "sock", FALSE)
<1>1. Arrives("sock", "bind") /\ (net' = n \/ net' = m) /\ "bind" \in OwnTypes
    BY DEF Bind, OwnTypes
<1>2. /\ Both(r) /\ "bind" \in SockMail
    BY <1>1, InvFacts, RestOwn
<1>3. Layer(r) /\ r.end = net.end /\ r \in NetType
    BY <1>1, InvFacts, RestLayer
<1>4. net.end["sock"].state = "active"
    BY <1>2 DEF IInv, SocketInv, State
<1>5. PairInv(r) /\ Has(r, "sock")
    BY <1>2, <1>3, <1>4 DEF Both, Has
<1> HIDE DEF r
<1>6. Layer(d)
    BY <1>3, InvFacts, DelayStill, StillLayer
<1>7. Step(r, r, "sock") /\ Step(r, d, "sock")
    BY <1>3, <1>5, InvFacts, StepReflexive, DelayStep
<1> HIDE DEF d
<1>8. Layer(ReadAll(d, "sock"))
    BY <1>6, ReadAllLayer
<1>9. Step(d, ReadAll(d, "sock"), "sock")
    BY <1>7, InvFacts, ReadAllStep DEF Step
<1>10. Step(r, n, "sock")
    BY <1>3, <1>7, <1>9, InvFacts, StepTransitive
<1>11. Layer(n) /\ Has(n, "sock")
  <2>1. Layer(n)
    BY <1>3, <1>8
  <2> HIDE DEF n
  <2> QED BY <2>1, <1>5, <1>10 DEF Step, Keeps
<1> HIDE DEF n
<1>12. Layer(m)
    BY <1>11, InvFacts, TerminateLayer
<1> QED BY <1>1, <1>11, <1>12 DEF Layer

\* A command to the socket, the session or the listener: at most one is passed on.
LEMMA PassFlows ==
    ASSUME IInv, Flows(net), NEW x \in End, NEW type, Arrives(x, type),
           \/ net' = Rest(x)
           \/ net' = Send(Rest(x), "sess", "term", 0)
           \/ net' = Send(Rest(x), "sock", "term_ack", 0)
           \/ net' = Send(Rest(x), "sess", "child_ack", 0)
    PROVE  Flows(net')
<1>1. Layer(Rest(x))
    BY RestLayer
<1>2. /\ Layer(Send(Rest(x), "sess", "term", 0))
      /\ Layer(Send(Rest(x), "sock", "term_ack", 0))
      /\ Layer(Send(Rest(x), "sess", "child_ack", 0))
    BY <1>1, InvFacts, SendLayer DEF OwnTypes
<1> QED BY <1>1, <1>2 DEF Layer

\* Term keeps the fifth layer.
LEMMA TermFlows ==
    ASSUME IInv, Flows(net), Term
    PROVE  Flows(net')
<1> DEFINE r == Rest("sess")
           n == Terminate(r, "sess", Lingers)
<1>1. Arrives("sess", "term")
    BY DEF Term
<1>2. CASE Has(net, "sess")
  <2>1. net' = n \/ net' = CheckRead(n, "sess")
    BY <1>2 DEF Term
  <2>2. Layer(r) /\ Has(r, "sess") /\ "sess" \in End
    BY <1>1, <1>2, InvFacts, RestLayer DEF Has
  <2> HIDE DEF r
  <2>3. Layer(n)
    BY <2>2, TerminateLayer DEF Lingers
  <2> HIDE DEF n
  <2> QED BY <2>1, <2>2, <2>3, CheckReadLayer DEF Layer
<1>3. CASE ~Has(net, "sess")
  <2>1. \/ net' = Send(r, "sock", "term_ack", 0)
        \/ net' = Send(r, "sess", "child_ack", 0)
    BY <1>3 DEF Term, Confirm
  <2> QED BY <2>1, <1>1, InvFacts, PassFlows
<1> QED BY <1>2, <1>3

\* Own keeps the fifth layer.
LEMMA OwnFlows ==
    ASSUME IInv, Flows(net), Own
    PROVE  Flows(net')
<1>1. Arrives("sock", "own") /\ (net' = Rest("sock") \/ net' = Send(Rest("sock"), "sess", "term", 0))
    BY DEF Own
<1> QED BY <1>1, InvFacts, PassFlows

\* TermAck keeps the fifth layer.
LEMMA TermAckFlows ==
    ASSUME IInv, Flows(net), TermAck
    PROVE  Flows(net')
<1>1. Arrives("sock", "term_ack") /\ net' = Rest("sock")
    BY DEF TermAck
<1> QED BY <1>1, InvFacts, PassFlows

\* TermListener keeps the fifth layer.
LEMMA TermListenerFlows ==
    ASSUME IInv, Flows(net), TermListener
    PROVE  Flows(net')
<1>1. /\ Arrives("sess", "term_listener")
      /\ net' = (CASE owner = "owned" -> Send(Rest("sess"), "sess", "term", 0)
                   [] owner = "asked" -> Rest("sess")
                   [] owner = "freed" -> Send(Rest("sess"), "sock", "term_ack", 0))
    BY DEF TermListener
<1>2. owner # "launched"
  <2>1. "term_listener" \in SessMail
    BY <1>1, InvFacts, RestOwn DEF OwnTypes
  <2> QED BY <2>1 DEF IInv, SessionInv, SocketInv, Connects
<1>3. owner \in {"owned", "asked", "freed"}
    BY <1>2, TypeFacts
<1>4. \/ net' = Rest("sess")
      \/ net' = Send(Rest("sess"), "sess", "term", 0)
      \/ net' = Send(Rest("sess"), "sock", "term_ack", 0)
    BY <1>1, <1>3
<1> QED BY <1>1, <1>4, InvFacts, PassFlows

\* TermReq keeps the fifth layer.
LEMMA TermReqFlows ==
    ASSUME IInv, Flows(net), TermReq
    PROVE  Flows(net')
<1>1. Arrives("sess", "term_req") /\ (net' = Rest("sess") \/ net' = Send(Rest("sess"), "sess", "term", 0))
    BY DEF TermReq
<1> QED BY <1>1, InvFacts, PassFlows

\* ChildAck keeps the fifth layer.
LEMMA ChildAckFlows ==
    ASSUME IInv, Flows(net), ChildAck
    PROVE  Flows(net')
<1>1. Arrives("sess", "child_ack") /\ (net' = Rest("sess") \/ net' = Send(Rest("sess"), "sock", "term_ack", 0))
    BY DEF ChildAck
<1> QED BY <1>1, InvFacts, PassFlows

\* The counts agree in the beginning.
LEMMA InitFlows == Init => Flows(net)
<1> SUFFICES ASSUME Init PROVE Flows(net)
    OBVIOUS
<1> DEFINE connects == kind \in {"REQ", "SUB"}
           state == IF connects THEN "active" ELSE "none"
           M == IF connects THEN <<<<"own", 0>>>> ELSE <<>>
           Q == <<NewQueue, NewQueue>>
<1>1. /\ \A e \in End : net.end[e] = NewEnd(e, state)
      /\ net.queue = Q /\ net.mail["sock"] = M /\ net.mail["sess"] = <<>>
    BY Ends DEF Init, InitNet, End
<1>2. M \in Seq(Cmd) /\ "activate_write" \notin Types(M)
  <2>1. CASE connects
    <3>1. <<"own", 0>> \in Cmd
      BY DEF Cmd, OwnTypes, PipeTypes
    <3>2. M = <<<<"own", 0>>>>
      BY <2>1
    <3>3. M \in Seq(Cmd) /\ \A i \in DOMAIN M : M[i][1] = "own"
      BY <3>1, <3>2
    <3> QED BY <3>3 DEF Types
  <2>2. CASE ~connects
    <3>1. M = <<>>
      BY <2>2
    <3> QED BY <3>1 DEF Types
  <2> QED BY <2>1, <2>2
<1>3. <<>> \in Seq(Cmd) /\ "activate_write" \notin Types(<<>>)
    BY DEF Types
<1> HIDE DEF M, state, connects
<1>4. \A q \in DOMAIN net.queue : net.queue[q].ready = <<>> /\ net.queue[q].part = <<>>
  <2>1. NewQueue.ready = <<>> /\ NewQueue.part = <<>>
    BY DEF NewQueue
  <2> QED BY <2>1, <1>1
<1> HIDE DEF Q
<1>5. ASSUME NEW e \in End, net.end[e].state = "active" PROVE FlowInv(net, e)
  <2>1. Peer(e) \in End
    BY Ends
  <2>2. /\ net.end[e].written = 0 /\ net.end[e].peersRead = 0 /\ net.end[Peer(e)].read = 0
    <3>1. net.end[e] = NewEnd(e, state) /\ net.end[Peer(e)] = NewEnd(Peer(e), state)
      BY <1>1, <2>1
    <3> QED BY <3>1 DEF NewEnd
  <2>3. net.end[e].out \in DOMAIN net.queue
    <3>1. net.end[e] = NewEnd(e, state)
      BY <1>1
    <3>2. net.end[e].out = IF e = "sock" THEN 2 ELSE 1
      BY <3>1 DEF NewEnd
    <3>3. DOMAIN Q = {1, 2}
      BY DEF Q
    <3> QED BY <3>2, <3>3, <1>1
  <2>4. net.mail[e] \in Seq(Cmd) /\ "activate_write" \notin Types(net.mail[e])
    BY <1>1, <1>2, <1>3 DEF End
  <2>5. Settled(0, 0, 0, <<>>, <<>>, net.mail[e])
    BY <2>4, SettledNew
  <2> QED BY <2>2, <2>3, <2>5, <1>4 DEF FlowInv
<1>6. FlowInv(net, "sock") /\ FlowInv(net, "sess")
    BY <1>5 DEF FlowInv, End
<1>7. Ahead(net)
    BY <1>4 DEF Ahead
<1> QED BY <1>6, <1>7 DEF Flows

\* No step makes them disagree.
LEMMA NextFlows == IInv /\ Flows(net) /\ [Next]_vars => Flows(net')
<1> SUFFICES ASSUME IInv, Flows(net), [Next]_vars PROVE Flows(net')
    OBVIOUS
<1>0. "sock" \in End /\ "sess" \in End
    BY DEF End
<1>1. CASE SendWhole      BY <1>1, SendWholeFlows
<1>2. CASE SendFirst      BY <1>2, SendFirstFlows
<1>3. CASE SendLast       BY <1>3, SendLastFlows
<1>4. CASE Receive        BY <1>4, ReceiveFlows
<1>5. CASE ReceiveRequest BY <1>5, ReceiveRequestFlows
<1>6. CASE Close          BY <1>6, CloseFlows
<1>7. CASE EngineReady    BY <1>7, EngineReadyFlows
<1>8. CASE Push           BY <1>8, PushFlows
<1>9. CASE Pull           BY <1>9, PullFlows
<1>10. CASE EngineError   BY <1>10, EngineErrorFlows
<1>11. CASE SocketCommand
    BY <1>0, <1>11, ActivateReadFlows, ActivateWriteFlows, PipeTermFlows, ProcessHiccupFlows,
       SocketPipeTermAckFlows, BindFlows, OwnFlows, TermAckFlows DEF SocketCommand
<1>12. CASE SessionCommand
    BY <1>0, <1>12, ActivateReadFlows, ActivateWriteFlows, PipeTermFlows,
       SessionPipeTermAckFlows, TermFlows, TermListenerFlows, TermReqFlows, ChildAckFlows
       DEF SessionCommand
<1>13. CASE UNCHANGED vars
    BY <1>13 DEF vars
<1> QED BY <1>1, <1>2, <1>3, <1>4, <1>5, <1>6, <1>7, <1>8, <1>9, <1>10, <1>11, <1>12, <1>13 DEF Next

\* The layer implies FlowControl.
LEMMA Flowing == IInv /\ Flows(net) => FlowControl
<1> SUFFICES ASSUME IInv, Flows(net), NEW e \in End, State(e) = "active"
             PROVE  LET unread == net.end[e].written - net.end[Peer(e)].read
                    IN unread = Count(OutQueue(net, e).ready) /\ unread <= HWM
    BY DEF FlowControl
<1> DEFINE written == net.end[e].written
           known == net.end[e].peersRead
           read == net.end[Peer(e)].read
           ready == OutQueue(net, e).ready
<1>1. Settled(written, known, read, ready, OutQueue(net, e).part, net.mail[e])
    BY DEF State, Flows, FlowInv, End, OutQueue
<1>2. written - read = Count(ready) /\ written - known <= HWM /\ known <= read
    BY <1>1 DEF Settled
<1>3. written \in Int /\ known \in Int /\ read \in Int /\ HWM \in Int
  <2>1. net.end[e] \in EndType /\ net.end[Peer(e)] \in EndType
    BY InvFacts, Ends, NetFields
  <2> QED BY <2>1, EndFields, PipeAssumption
<1> HIDE DEF written, known, read, ready
<1>4. written - read <= HWM
    BY <1>2, <1>3
<1> QED BY <1>2, <1>4 DEF written, read, ready

------------------------------------------------------------------------------
(* Flow control *)

\* The two counts of an active end, its own of what it has written and its peer's of
\* what that has read, differ by the messages in the queue between them and by at
\* most the high water mark: no hiccup, no lost engine and no command on its way
\* makes pipe_t lose count (pipe.cpp, check_write, write, read, process_hiccup).
THEOREM FlowSound == Spec => []FlowControl
<1>1. Init => IInv /\ Flows(net)
    BY InitInv, InitFlows
<1>2. IInv /\ Flows(net) /\ [Next]_vars => IInv' /\ Flows(net')
    BY NextInv, NextFlows
<1>3. Flows(net)' <=> Flows(net')
    BY DEF Flows, FlowInv, Ahead, Unwritten
<1>4. (IInv /\ Flows(net)) /\ [Next]_vars => (IInv /\ Flows(net))'
    BY <1>2, <1>3
<1>5. Spec => [](IInv /\ Flows(net))
    BY <1>1, <1>4, PTL DEF Spec
<1> QED BY <1>5, Flowing, PTL
=============================================================================
