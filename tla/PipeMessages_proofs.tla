------------------------- MODULE PipeMessages_proofs --------------------------
(***************************************************************************)
(* Proofs about what crosses a Pipe: that messages arrive whole and in     *)
(* their order, and that what linger promises is kept.                     *)
(*                                                                         *)
(* They rest on a sixth layer of the invariant, above the five of          *)
(* Pipe_proofs. What an end sends is a stream of frames, each known by its *)
(* place (FrameAt). A line goes from an end to its peer: the frames read,  *)
(* those in the queue, up to a delimiter, and those sent are one stream    *)
(* (Line); what is written and not flushed is the first frame of the next  *)
(* message or nothing (Began); and a reader that has promised to hear its  *)
(* peer out has read all when it stops (Loyal). DataInv says so of both    *)
(* ends; Use is what the threads rely on when they write or end.           *)
(*                                                                         *)
(* Most of what happens neither writes nor promises anything: it is Fine,  *)
(* or even Calm. A writer keeps the other line (Half), an end that         *)
(* terminates cuts the promise of the line it reads (Cut), unless it has   *)
(* read all (Heeds). The lemmas named ...Data say that an action keeps     *)
(* the layer.                                                              *)
(***************************************************************************)
EXTENDS Pipe_proofs

------------------------------------------------------------------------------
(* The sixth layer *)


\* The frames an end sends, by their place: a message is one frame or two.
FrameAt(e, i) == IF Frames(e) = 2 THEN <<(i + 1) \div 2, i % 2 = 1>> ELSE <<i, FALSE>>

\* The first frames of what the end e sends.
Stream(e, s) == \A i \in DOMAIN s : s[i] = FrameAt(e, i)

\* What is on its way are the frames that follow those read (g) up to those sent
\* (s), and then perhaps a delimiter.
Queued(e, g, s, r) ==
    /\ \A i \in DOMAIN r : IF r[i] = DELIMITER THEN i = Len(r) ELSE r[i] = FrameAt(e, Len(g) + i)
    /\ Len(s) = Len(g) + Whole(r)

\* The states in which no delimiter was written.
Undelimited == {"active", "delimiter_received"}

\* A reader in the middle of a message is awake.
Awake(n, e, x) == Frames(e) = 2 /\ Len(n.got[x]) % 2 = 1 => n.end[x].inActive

\* What was sent and what was read.
Streams(n, e) ==
    /\ Stream(e, n.got[Peer(e)]) /\ Stream(e, n.sent[e])
    /\ Len(n.got[Peer(e)]) <= Len(n.sent[e])
    /\ Len(n.sent[e]) = (IF Frames(e) = 2 THEN Count(n.sent[e]) + Count(n.sent[e]) ELSE Count(n.sent[e]))

\* The line from the end e to its peer x.
LineTo(n, e, x, r) ==
    /\ n.end[e].out \in {NULL, n.end[x].in}
    /\ Streams(n, e)
    /\ n.end[e].state = "none" => n.sent[e] = <<>>
    /\ Reads(n, x) => Queued(e, n.got[x], n.sent[e], r) /\ Awake(n, e, x)
    /\ n.end[e].state \in Undelimited => \A i \in DOMAIN r : r[i] # DELIMITER

\* The same, where the peer now reads.
Line(n, e) == LineTo(n, e, Peer(e), n.queue[n.end[Peer(e)].in].ready)

\* The unfinished message of an active end.
Began(n, e, b) ==
    n.end[e].state = "active" =>
        n.queue[n.end[e].out].part = IF b THEN <<First(n, e)>> ELSE <<>>

\* The end x reads to the delimiter: where it has stopped, it has read all, and
\* its peer sends no more (c: it cannot).
Loyal(n, x, c) ==
    /\ n.end[x].delay
    /\ n.end[x].state # "none" /\ ~Reads(n, x) =>
          /\ Len(n.got[x]) = Len(n.sent[Peer(x)])
          /\ n.end[Peer(x)].state # "active" \/ c

\* A line in one direction: what crosses it, what its writer has begun (b: is a
\* message), and, where that is promised (f), that its reader hears it out.
Wire(n, e, b, f, c) == Line(n, e) /\ Began(n, e, b) /\ (f => Loyal(n, Peer(e), c))

\* Every line but the one that hiccups cut: a SUB's subscriptions may be lost.
Good(n, e, b, f, c) == (e = "sock" /\ kind = "SUB") \/ Wire(n, e, b, f, c)

\* Subscriptions are single frames.
Plain(s) == \A i \in DOMAIN s : ~More(s[i])

\* Where subscriptions may be lost, no half of a message is anywhere.
Thin(n) ==
    kind = "SUB" =>
        /\ \A q \in DOMAIN n.queue \ {1} : Plain(n.queue[q].ready) /\ Plain(n.queue[q].part)
        /\ Plain(n.got["sess"])

\* Nobody else exchanges queues.
Short(n) == kind # "SUB" => Len(n.queue) = 2

\* The active end of the socket is writable: the rest of a message will fit.
Room(n) == n.end["sock"].state = "active" => n.end["sock"].outActive /\ ~Full(n, "sock")

\* The states of an end that has asked for nothing yet.
Open(n, e) == n.end[e].state \in {"active", "delimiter_received", "waiting_for_delimiter"}

\* A mailbox in which pipe_term, if it comes, comes before what ends the session.
Behind(M) ==
    \A i, j \in DOMAIN M : i < j /\ M[j][1] = "pipe_term" => M[i][1] \notin {"term", "term_listener"}

\* The lines of both ends: w and v, whether socket and engine have begun a message;
\* f and h, whether the session and the socket hear their peers out; c, whether the
\* socket can send no more.
Data(n, w, v, f, c, h) ==
    Good(n, "sock", w, f, c) /\ Good(n, "sess", v, h, FALSE) /\ Thin(n) /\ Short(n)

\* Who hears its peer out: an accepted session while its engine holds,
Faithful == ~Connects /\ engine

\* and a socket that is not closed and has not set nodelay.
Loyally == ~closed /\ kind # "PUB"

\* What the threads rely on: that the rest of a message can be written, that only
\* those who send messages of two frames are in the middle of one, that the engine
\* is where the session believes it, that an accepted session is told to end only
\* by a closed socket or for a lost engine, that a closed socket has let go of its
\* end, and that the session hears of that before it is told to end.
Use ==
    /\ sending = "written" => Room(net)
    /\ sending # "no" => attached /\ ~Connects
    /\ midway => kind # "PUB"
    /\ half => HalfRead("sess")
    /\ ~Connects /\ owner = "asked" /\ (engine \/ conns = 0) => closed
    /\ net.sent["sock"] # <<>> => attached
    /\ closed /\ attached => ~Open(net, "sock")
    /\ ~Connects /\ engine /\ net.sent["sock"] # <<>> => Behind(net.mail["sess"])

\* The frames t are those that follow s.
Stamped(e, s, t) == \A k \in DOMAIN t : t[k] = FrameAt(e, Len(s) + k)

------------------------------------------------------------------------------
(* Streams of frames *)

\* The frames of a message, by their place.
LEMMA FrameFacts ==
    ASSUME NEW e, NEW c \in Nat
    PROVE  /\ Frames(e) = 2 => /\ FrameAt(e, c + c + 1) = <<c + 1, TRUE>>
                               /\ FrameAt(e, c + c + 2) = <<c + 1, FALSE>>
           /\ Frames(e) # 2 => FrameAt(e, c) = <<c, FALSE>>
           /\ FrameAt(e, c + 1) # DELIMITER
<1>1. (c + c + 1 + 1) \div 2 = c + 1 /\ (c + c + 1) % 2 = 1
  OBVIOUS
<1>2. (c + c + 2 + 1) \div 2 = c + 1 /\ (c + c + 2) % 2 = 0
  OBVIOUS
<1>3. (c + 1 + 1) \div 2 # 0 /\ c + 1 # 0
  OBVIOUS
<1>4. ((c + c + 1) % 2 = 1) = TRUE /\ ((c + c + 2) % 2 = 1) = FALSE
  BY <1>1, <1>2
<1>5. FrameAt(e, c + 1) # DELIMITER
  BY <1>3 DEF FrameAt, DELIMITER
<1>6. ASSUME Frames(e) = 2 PROVE FrameAt(e, c + c + 1) = <<c + 1, TRUE>>
  <2>1. FrameAt(e, c + c + 1) = <<(c + c + 1 + 1) \div 2, (c + c + 1) % 2 = 1>>
    BY <1>6 DEF FrameAt
  <2> QED
    BY <2>1, <1>1, <1>4
<1>7. ASSUME Frames(e) = 2 PROVE FrameAt(e, c + c + 2) = <<c + 1, FALSE>>
  <2>1. FrameAt(e, c + c + 2) = <<(c + c + 2 + 1) \div 2, (c + c + 2) % 2 = 1>>
    BY <1>7 DEF FrameAt
  <2> QED
    BY <2>1, <1>2, <1>4
<1>8. Frames(e) # 2 => FrameAt(e, c) = <<c, FALSE>>
  BY DEF FrameAt
<1> QED
  BY <1>5, <1>6, <1>7, <1>8

\* The next frames are added to a stream.
LEMMA StreamGrown ==
    ASSUME NEW e, NEW s \in Seq(Frame), NEW t \in Seq(Frame), Stream(e, s), Stamped(e, s, t)
    PROVE  Stream(e, Cat(s, t)) /\ Cat(s, t) \in Seq(Frame) /\ Len(Cat(s, t)) = Len(s) + Len(t)
<1>1. ASSUME NEW i \in DOMAIN (s \o t) PROVE (s \o t)[i] = FrameAt(e, i)
  <2>1. CASE i \in DOMAIN s
    BY <2>1 DEF Stream
  <2>2. CASE i \notin DOMAIN s
    <3>1. i - Len(s) \in DOMAIN t /\ (s \o t)[i] = t[i - Len(s)] /\ Len(s) + (i - Len(s)) = i
      BY <2>2
    <3> QED
      BY <3>1 DEF Stamped
  <2> QED
    BY <2>1, <2>2
<1> QED
  BY <1>1 DEF Stream, Cat

\* Of two streams of one end the shorter begins the longer.
LEMMA StreamPrefix ==
    ASSUME NEW e, NEW g \in Seq(Frame), NEW s \in Seq(Frame), Stream(e, g), Stream(e, s), Len(g) <= Len(s)
    PROVE  IsPrefix(g, s) /\ (Len(g) = Len(s) => g = s)
<1>1. \A i \in 1 .. Len(g) : g[i] = s[i]
  BY DEF Stream
<1>2. Len(g) = Len(s) => g = s
  BY <1>1
<1> QED
  BY <1>1, <1>2 DEF IsPrefix

\* One frame less is left to read.
LEMMA WholeTail ==
    ASSUME NEW r \in Seq(Frame), r # <<>>, Head(r) # DELIMITER
    PROVE  Whole(r) = Whole(Tail(r)) + 1 /\ Whole(Tail(r)) \in Nat /\ Len(Tail(r)) = Len(r) - 1
<1>1. Len(Tail(r)) = Len(r) - 1 /\ Tail(r) \in Seq(Frame) /\ Len(r) \in Nat \ {0}
  OBVIOUS
<1>2. CASE Len(r) = 1
  <2>1. Tail(r) = <<>> /\ Head(r) = r[Len(r)]
    <3>1. Len(Tail(r)) = 0
      BY <1>1, <1>2
    <3>2. Tail(r) = <<>>
      BY <3>1, <1>1
    <3> QED
      BY <3>2, <1>2
  <2>2. Whole(Tail(r)) = 0 /\ Last(r) # DELIMITER
    BY <2>1, <1>1 DEF Whole, Last
  <2>3. Whole(r) = 1
    BY <2>2, <1>2 DEF Whole
  <2> QED
    BY <2>2, <2>3, <1>1
<1>3. CASE Len(r) # 1
  <2>1. Tail(r) # <<>> /\ Tail(r)[Len(Tail(r))] = r[Len(r)]
    <3>1. \A i \in 1 .. Len(r) - 1 : Tail(r)[i] = r[i + 1]
      OBVIOUS
    <3>2. Len(r) - 1 \in 1 .. Len(r) - 1 /\ (Len(r) - 1) + 1 = Len(r)
      BY <1>1, <1>3
    <3>3. Tail(r)[Len(r) - 1] = r[Len(r)]
      BY <3>1, <3>2
    <3>4. Tail(r) # <<>>
      <4>1. Len(Tail(r)) # 0
        BY <1>1, <1>3
      <4>2. Len(<<>>) = 0
        OBVIOUS
      <4> QED
        BY <4>1, <4>2
    <3> QED
      BY <3>3, <3>4, <1>1
  <2>2. Last(Tail(r)) = Last(r)
    BY <2>1 DEF Last
  <2>3. CASE Last(r) = DELIMITER
    BY <1>1, <1>3, <2>1, <2>2, <2>3 DEF Whole
  <2>4. CASE Last(r) # DELIMITER
    <3>1. Whole(r) = Len(r) /\ Whole(Tail(r)) = Len(Tail(r))
      BY <2>2, <2>4 DEF Whole
    <3> QED
      BY <3>1, <1>1
  <2> QED
    BY <2>3, <2>4
<1> QED
  BY <1>2, <1>3

\* A frame is read.
LEMMA QueuedTaken ==
    ASSUME NEW e, NEW g \in Seq(Frame), NEW s \in Seq(Frame), NEW r \in Seq(Frame), r # <<>>,
           Head(r) # DELIMITER, Queued(e, g, s, r), Stream(e, g)
    PROVE  /\ Queued(e, Append(g, Head(r)), s, Tail(r)) /\ Stream(e, Append(g, Head(r)))
           /\ Append(g, Head(r)) \in Seq(Frame) /\ Tail(r) \in Seq(Frame) /\ Head(r) \in Frame
           /\ Len(Append(g, Head(r))) <= Len(s)
<1>1. Whole(r) = Whole(Tail(r)) + 1 /\ Whole(Tail(r)) \in Nat /\ Len(Tail(r)) = Len(r) - 1
  BY WholeTail
<1>2. Head(r) = FrameAt(e, Len(g) + 1)
  BY DEF Queued
<1>3. Len(Append(g, Head(r))) = Len(g) + 1 /\ Head(r) \in Frame
  OBVIOUS
<1>4. Stream(e, Append(g, Head(r)))
  BY <1>2, <1>3 DEF Stream
<1>5. ASSUME NEW i \in DOMAIN Tail(r)
      PROVE  IF Tail(r)[i] = DELIMITER THEN i = Len(Tail(r))
             ELSE Tail(r)[i] = FrameAt(e, Len(Append(g, Head(r))) + i)
  <2>1. i + 1 \in DOMAIN r /\ Tail(r)[i] = r[i + 1] /\ Len(g) + 1 + i = Len(g) + (i + 1)
    OBVIOUS
  <2>2. IF r[i + 1] = DELIMITER THEN i + 1 = Len(r) ELSE r[i + 1] = FrameAt(e, Len(g) + (i + 1))
    BY <2>1 DEF Queued
  <2> QED
    BY <2>1, <2>2, <1>1, <1>3
<1>6. Len(s) = Len(Append(g, Head(r))) + Whole(Tail(r))
  BY <1>1, <1>3 DEF Queued
<1> QED
  BY <1>1, <1>3, <1>4, <1>5, <1>6 DEF Queued

\* Frames are flushed.
LEMMA QueuedSent ==
    ASSUME NEW e, NEW g \in Seq(Frame), NEW s \in Seq(Frame), NEW r \in Seq(Frame), NEW t \in Seq(Frame),
           Queued(e, g, s, r), \A i \in DOMAIN r : r[i] # DELIMITER,
           Stamped(e, s, t), \A i \in DOMAIN t : t[i] # DELIMITER
    PROVE  /\ Queued(e, g, Cat(s, t), Cat(r, t))
           /\ \A i \in DOMAIN Cat(r, t) : Cat(r, t)[i] # DELIMITER
<1>1. Whole(r) = Len(r) /\ Len(s) = Len(g) + Len(r)
  <2>1. r # <<>> => Last(r) # DELIMITER
    BY DEF Last
  <2>2. Whole(r) = Len(r)
    BY <2>1 DEF Whole
  <2> QED
    BY <2>2 DEF Queued
<1>2. ASSUME NEW i \in DOMAIN (r \o t)
      PROVE (r \o t)[i] # DELIMITER /\ (r \o t)[i] = FrameAt(e, Len(g) + i)
  <2>1. CASE i \in DOMAIN r
    BY <2>1 DEF Queued
  <2>2. CASE i \notin DOMAIN r
    <3>1. i - Len(r) \in DOMAIN t /\ (r \o t)[i] = t[i - Len(r)] /\ i \in Int
      BY <2>2
    <3>2. Len(s) + (i - Len(r)) = Len(g) + i
      BY <1>1, <3>1
    <3> QED
      BY <3>1, <3>2 DEF Stamped
  <2> QED
    BY <2>1, <2>2
<1>3. Whole(r \o t) = Len(r \o t)
  <2>1. r \o t # <<>> => Last(r \o t) # DELIMITER
    <3>1. r \o t # <<>> => Len(r \o t) \in DOMAIN (r \o t)
      OBVIOUS
    <3> QED
      BY <3>1, <1>2 DEF Last
  <2> QED
    BY <2>1 DEF Whole
<1>4. Len(s \o t) = Len(s) + Len(t) /\ Len(r \o t) = Len(r) + Len(t)
  OBVIOUS
<1> QED
  BY <1>1, <1>2, <1>3, <1>4 DEF Queued, Cat

\* A delimiter is written behind them.
LEMMA QueuedDelimited ==
    ASSUME NEW e, NEW g \in Seq(Frame), NEW s \in Seq(Frame), NEW r \in Seq(Frame),
           Queued(e, g, s, r), \A i \in DOMAIN r : r[i] # DELIMITER
    PROVE  Queued(e, g, s, Append(r, DELIMITER))
<1>1. Whole(r) = Len(r) /\ Len(s) = Len(g) + Len(r)
  <2>1. r # <<>> => Last(r) # DELIMITER
    BY DEF Last
  <2>2. Whole(r) = Len(r)
    BY <2>1 DEF Whole
  <2> QED
    BY <2>2 DEF Queued
<1>0. DELIMITER \in Frame
  BY DEF DELIMITER, Frame
<1>2. Whole(Append(r, DELIMITER)) = Len(r)
  <2>1. /\ Append(r, DELIMITER)[Len(Append(r, DELIMITER))] = DELIMITER
        /\ Append(r, DELIMITER) # <<>> /\ Len(Append(r, DELIMITER)) = Len(r) + 1
    BY <1>0
  <2>2. Last(Append(r, DELIMITER)) = DELIMITER
    BY <2>1 DEF Last
  <2> QED
    BY <2>1, <2>2 DEF Whole
<1>3. ASSUME NEW i \in DOMAIN Append(r, DELIMITER)
      PROVE  IF Append(r, DELIMITER)[i] = DELIMITER THEN i = Len(Append(r, DELIMITER))
             ELSE Append(r, DELIMITER)[i] = FrameAt(e, Len(g) + i)
  <2>1. CASE i \in DOMAIN r
    <3>1. Append(r, DELIMITER)[i] = r[i]
      BY <2>1, <1>0
    <3> QED
      BY <3>1, <2>1 DEF Queued
  <2>2. CASE i \notin DOMAIN r
    BY <2>2, <1>0
  <2> QED
    BY <2>1, <2>2
<1> QED
  BY <1>1, <1>2, <1>3 DEF Queued

\* All there is is read.
LEMMA QueuedAll ==
    ASSUME NEW e, NEW g \in Seq(Frame), NEW s \in Seq(Frame), NEW r \in Seq(Frame),
           Queued(e, g, s, r), Stream(e, g), NEW k, k = Whole(r)
    PROVE  /\ Queued(e, Cat(g, SubSeq(r, 1, k)), s, Beyond(r, k))
           /\ Stream(e, Cat(g, SubSeq(r, 1, k)))
           /\ Len(Cat(g, SubSeq(r, 1, k))) <= Len(s)
<1>1. /\ k \in 0 .. Len(r)
      /\ k = Len(r) \/ (k = Len(r) - 1 /\ r[k + 1] = DELIMITER)
      /\ k = Len(r) /\ k > 0 => r[k] # DELIMITER
      /\ SubSeq(r, 1, k) \in Seq(Frame) /\ SubSeq(r, k + 1, Len(r)) \in Seq(Frame)
  BY WholeFacts
<1>2. Stamped(e, g, SubSeq(r, 1, k))
  <2>1. \A i \in 1 .. k : r[i] # DELIMITER
    BY <1>1 DEF Queued
  <2>2. \A i \in 1 .. k : SubSeq(r, 1, k)[i] = r[i] /\ i \in DOMAIN r
    BY <1>1
  <2>3. DOMAIN SubSeq(r, 1, k) = 1 .. k
    BY <1>1
  <2>4. \A i \in 1 .. k : r[i] = FrameAt(e, Len(g) + i)
    BY <2>1, <2>2 DEF Queued
  <2> QED
    BY <2>2, <2>3, <2>4 DEF Stamped
<1>3. Stream(e, Cat(g, SubSeq(r, 1, k))) /\ Len(Cat(g, SubSeq(r, 1, k))) = Len(g) + k
  <2>1. Len(SubSeq(r, 1, k)) = k
    BY <1>1
  <2>2. SubSeq(r, 1, k) \in Seq(Frame)
    BY <1>1
  <2>3. /\ Stream(e, Cat(g, SubSeq(r, 1, k)))
        /\ Len(Cat(g, SubSeq(r, 1, k))) = Len(g) + Len(SubSeq(r, 1, k))
    BY <2>2, <1>2, StreamGrown
  <2> QED
    BY <2>1, <2>3
<1>4. Len(s) = Len(g) + k
  BY DEF Queued
<1>5. CASE k = Len(r)
  <2>1. Beyond(r, k) = <<>>
    BY <1>5 DEF Beyond
  <2>2. Whole(<<>>) = 0
    BY DEF Whole
  <2> QED
    BY <1>1, <1>3, <1>4, <2>1, <2>2 DEF Queued
<1>6. CASE k = Len(r) - 1 /\ r[k + 1] = DELIMITER
  <2>1. Beyond(r, k) = <<DELIMITER>>
    <3>1. k + 1 = Len(r) /\ Len(r) \in 1 .. Len(r)
      BY <1>1, <1>6
    <3>2. SubSeq(r, Len(r), Len(r)) = <<r[Len(r)]>>
      <4> DEFINE z == SubSeq(r, Len(r), Len(r))
      <4>1. z \in Seq(Frame) /\ Len(z) = 1 /\ z[1] = r[Len(r)]
        BY <3>1
      <4> HIDE DEF z
      <4>2. z = <<r[Len(r)]>>
        BY <4>1
      <4> QED
        BY <4>2 DEF z
    <3> QED
      BY <3>1, <3>2, <1>6 DEF Beyond
  <2>2. Whole(<<DELIMITER>>) = 0
    BY DEF Whole, Last
  <2> QED
    BY <1>3, <1>4, <2>1, <2>2 DEF Queued
<1> QED
  BY <1>1, <1>3, <1>4, <1>5, <1>6

\* Where nothing is left, all was read.
LEMMA QueuedNone ==
    ASSUME NEW e, NEW g \in Seq(Frame), NEW s \in Seq(Frame), NEW r \in Seq(Frame),
           Queued(e, g, s, r), r = <<>> \/ Head(r) = DELIMITER
    PROVE  Len(g) = Len(s)
<1>1. Whole(r) = 0
  <2>1. CASE r = <<>>
    BY <2>1 DEF Whole
  <2>2. CASE r # <<>>
    <3>0. 1 \in DOMAIN r /\ r[1] = DELIMITER
      BY <2>2
    <3>1. Len(r) = 1 /\ r[Len(r)] = DELIMITER
      BY <3>0 DEF Queued
    <3>2. Last(r) = DELIMITER
      BY <3>1 DEF Last
    <3> QED
      BY <2>2, <3>1, <3>2 DEF Whole
  <2> QED
    BY <2>1, <2>2
<1> QED
  BY <1>1 DEF Queued

\* Where something is left, it is the next frame.
LEMMA QueuedNext ==
    ASSUME NEW e, NEW g \in Seq(Frame), NEW s \in Seq(Frame), NEW r \in Seq(Frame),
           Queued(e, g, s, r), Len(g) < Len(s)
    PROVE  r # <<>> /\ Head(r) # DELIMITER /\ Head(r) = FrameAt(e, Len(g) + 1)
<1>1. r # <<>>
  BY DEF Queued, Whole
<1>2. r[1] # DELIMITER
  <2> SUFFICES ASSUME r[1] = DELIMITER PROVE FALSE
    OBVIOUS
  <2>1. Head(r) = DELIMITER
    BY <1>1
  <2> QED
    BY <2>1, QueuedNone
<1> QED
  BY <1>1, <1>2 DEF Queued

------------------------------------------------------------------------------
(* Changes that a line does not see *)

\* What the line from e to x sees of a change, where nothing crosses it.
Watch(n, m, e, x) ==
    /\ m.sent[e] = n.sent[e] /\ m.got[x] = n.got[x]
    /\ m.end[x].in = n.end[x].in /\ m.end[e].out \in {NULL, n.end[e].out}
    /\ m.end[e].state = "none" => n.end[e].state = "none"
    /\ m.end[e].state \in Undelimited => n.end[e].state \in Undelimited
    /\ m.end[e].state = "active" =>
          /\ n.end[e].state = "active" /\ m.end[e].out = n.end[e].out
          /\ m.queue[n.end[e].out].part = n.queue[n.end[e].out].part
    /\ Reads(m, x) => Reads(n, x) /\ (n.end[x].inActive => m.end[x].inActive)
    /\ Reads(m, x) \/ m.end[e].state \in Undelimited =>
          m.queue[n.end[x].in].ready = n.queue[n.end[x].in].ready

\* The reader goes on reading to the delimiter.
Stays(n, m, x) ==
    /\ m.end[x].delay = n.end[x].delay
    /\ Reads(n, x) => Reads(m, x)
    /\ n.end[x].state = "none" => m.end[x].state = "none"

\* What the line does not see keeps it,
LEMMA WatchLine ==
    ASSUME NEW n, NEW m, NEW e \in End, Watch(n, m, e, Peer(e)), Line(n, e)
    PROVE  Line(m, e)
<1>1. Streams(m, e)
  BY DEF Watch, Streams, Line, LineTo
<1>2. Reads(m, Peer(e)) => /\ Queued(e, m.got[Peer(e)], m.sent[e], m.queue[m.end[Peer(e)].in].ready)
                           /\ Awake(m, e, Peer(e))
  BY DEF Watch, Line, LineTo, Awake
<1>3. m.end[e].state \in Undelimited =>
        \A i \in DOMAIN m.queue[m.end[Peer(e)].in].ready : m.queue[m.end[Peer(e)].in].ready[i] # DELIMITER
  BY DEF Watch, Line, LineTo
<1>4. m.end[e].out \in {NULL, m.end[Peer(e)].in} /\ (m.end[e].state = "none" => m.sent[e] = <<>>)
  BY DEF Watch, Line, LineTo
<1> QED
  BY <1>1, <1>2, <1>3, <1>4 DEF Line, LineTo

\* and what was begun,
LEMMA WatchBegan ==
    ASSUME NEW n, NEW m, NEW e \in End, Watch(n, m, e, Peer(e)), NEW b \in BOOLEAN, Began(n, e, b)
    PROVE  Began(m, e, b)
<1>1. First(m, e) = First(n, e)
  BY DEF Watch, First
<1> QED
  BY <1>1 DEF Watch, Began

\* and the promise of its reader,
LEMMA StaysLoyal ==
    ASSUME NEW n, NEW m, NEW e \in End, Watch(n, m, e, Peer(e)), Stays(n, m, Peer(e)),
           NEW c \in BOOLEAN, Loyal(n, Peer(e), c)
    PROVE  Loyal(m, Peer(e), c)
<1>1. Peer(Peer(e)) = e
  BY Ends
<1> QED
  BY <1>1 DEF Watch, Stays, Loyal

\* and so all of it.
LEMMA WatchGood ==
    ASSUME NEW n, NEW m, NEW e \in End, Watch(n, m, e, Peer(e)),
           NEW b \in BOOLEAN, NEW f \in BOOLEAN, NEW c \in BOOLEAN, Good(n, e, b, f, c),
           f => Stays(n, m, Peer(e))
    PROVE  Good(m, e, b, f, c)
<1>1. CASE e = "sock" /\ kind = "SUB"
  BY <1>1 DEF Good
<1>2. CASE Wire(n, e, b, f, c)
  <2>1. Line(m, e) /\ Began(m, e, b)
    BY <1>2, WatchLine, WatchBegan DEF Wire
  <2>2. f => Loyal(m, Peer(e), c)
    BY <1>2, StaysLoyal DEF Wire
  <2> QED
    BY <2>1, <2>2 DEF Good, Wire
<1> QED
  BY <1>1, <1>2 DEF Good

\* Less may be promised of a line.
LEMMA GoodWeaker ==
    ASSUME NEW n, NEW e \in End,
           NEW b \in BOOLEAN, NEW f \in BOOLEAN, NEW c \in BOOLEAN, Good(n, e, b, f, c),
           NEW g \in BOOLEAN, NEW d \in BOOLEAN, g => f, c => d
    PROVE  Good(n, e, b, g, d)
BY DEF Good, Wire, Loyal

\* What keeps a line, whatever its writer and its reader are about.
GoodKept(n, m, e) == \A b, f, c \in BOOLEAN : Good(n, e, b, f, c) => Good(m, e, b, f, c)

\* A change that keeps the data layer.
Fine(n, m) ==
    /\ \A e \in End : GoodKept(n, m, e)
    /\ Thin(n) => Thin(m)
    /\ Short(n) => Short(m)
    /\ m.sent = n.sent
    /\ Open(m, "sock") => Open(n, "sock")
    /\ Room(n) => Room(m)
    /\ Behind(n.mail["sess"]) => Behind(m.mail["sess"])

\* Fine is transitive: methods that call methods are fine.
LEMMA FineTransitive ==
    ASSUME NEW n, NEW k, NEW m, Fine(n, k), Fine(k, m)
    PROVE  Fine(n, m)
BY DEF Fine, GoodKept

\* A method that does nothing is fine.
LEMMA FineReflexive ==
    ASSUME NEW n
    PROVE  Fine(n, n)
BY DEF Fine, GoodKept

\* What nothing crosses and no end notices.
Calm(n, m) ==
    /\ Still(n, m) /\ m.sent = n.sent /\ m.got = n.got
    /\ \A x \in End :
         /\ m.end[x].state \in Undelimited => n.end[x].state \in Undelimited
         /\ Reads(m, x) <=> Reads(n, x)
         /\ m.end[x].delay = n.end[x].delay
         /\ Reads(m, x) /\ n.end[x].inActive => m.end[x].inActive
         /\ m.end[x].state = "active" => m.queue[n.end[x].out].part = n.queue[n.end[x].out].part
    /\ Open(m, "sock") => Open(n, "sock")
    /\ m.end["sock"].state = "active" /\ n.end["sock"].outActive => m.end["sock"].outActive
    /\ Behind(n.mail["sess"]) => Behind(m.mail["sess"])

\* What moves no frame leaves subscriptions whole.
LEMMA StillThin ==
    ASSUME NEW n, Sound(n), NEW m, Still(n, m), m.got = n.got, Thin(n)
    PROVE  Thin(m)
<1>1. DOMAIN m.queue = DOMAIN n.queue
  BY DEF Still, Route
<1>2. Plain(<<>>)
  BY DEF Plain
<1>3. ASSUME kind = "SUB", NEW q \in DOMAIN m.queue \ {1} PROVE Plain(m.queue[q].ready) /\ Plain(m.queue[q].part)
  <2>1. Plain(n.queue[q].ready) /\ Plain(n.queue[q].part)
    BY <1>1, <1>3 DEF Thin
  <2>2. m.queue[q].ready = n.queue[q].ready /\ m.queue[q].part \in {n.queue[q].part, <<>>}
    BY <1>1 DEF Still
  <2> QED
    BY <1>2, <2>1, <2>2
<1> QED
  BY <1>3 DEF Thin

\* No queue is made.
LEMMA LenSame ==
    ASSUME NEW n \in NetType, NEW m \in NetType, DOMAIN m.queue = DOMAIN n.queue
    PROVE  Len(m.queue) = Len(n.queue) /\ (Short(n) => Short(m))
<1>1. n.queue \in Seq(QueueType) /\ m.queue \in Seq(QueueType)
  BY NetFields
<1>2. Len(m.queue) = Len(n.queue)
  BY <1>1
<1> QED
  BY <1>2 DEF Short

\* A calm change is a fine one.
LEMMA CalmFine ==
    ASSUME NEW n, Sound(n), NEW m, Calm(n, m)
    PROVE  Fine(n, m)
<1>1. Still(n, m) /\ Route(n, m) /\ m \in NetType /\ n \in NetType /\ m.sent = n.sent
  BY DEF Calm, Still, Route, Sound
<1>2. Thin(n) => Thin(m)
  BY <1>1, StillThin DEF Calm
<1>3. Short(n) => Short(m)
  BY <1>1, LenSame DEF Route
<1>4. ASSUME NEW e \in End PROVE Watch(n, m, e, Peer(e)) /\ Stays(n, m, Peer(e))
  <2>1. Peer(e) \in End
    BY Ends
  <2>2. m.end[Peer(e)].in = n.end[Peer(e)].in /\ m.end[e].out \in {NULL, n.end[e].out}
    BY <1>1, <2>1 DEF Route
  <2>3. /\ m.end[e].state = "none" => n.end[e].state = "none"
        /\ n.end[Peer(e)].state = "none" => m.end[Peer(e)].state = "none"
    BY <1>1, <2>1 DEF Route
  <2>4. m.end[e].state = "active" =>
          /\ n.end[e].state = "active" /\ m.end[e].out = n.end[e].out
          /\ m.queue[n.end[e].out].part = n.queue[n.end[e].out].part
    BY <1>1 DEF Route, Calm, Silent
  <2>5. m.queue[n.end[Peer(e)].in].ready = n.queue[n.end[Peer(e)].in].ready
    BY <1>1, <2>1 DEF Still, Sound, RefInv
  <2>6. /\ m.sent[e] = n.sent[e] /\ m.got[Peer(e)] = n.got[Peer(e)]
        /\ m.end[e].state \in Undelimited => n.end[e].state \in Undelimited
        /\ Reads(m, Peer(e)) <=> Reads(n, Peer(e))
        /\ Reads(m, Peer(e)) /\ n.end[Peer(e)].inActive => m.end[Peer(e)].inActive
        /\ m.end[Peer(e)].delay = n.end[Peer(e)].delay
    BY <2>1 DEF Calm
  <2> QED
    BY <2>2, <2>3, <2>4, <2>5, <2>6 DEF Watch, Stays
<1>5. \A e \in End : GoodKept(n, m, e)
  BY <1>4, WatchGood DEF GoodKept
<1>6. Room(n) => Room(m)
  <2>1. /\ m.end["sock"].state = "active" => n.end["sock"].state = "active"
        /\ Counters(m.end["sock"], n.end["sock"])
    BY <1>1 DEF Route, Still, End
  <2> QED
    BY <2>1 DEF Room, Calm, Full, Counters
<1> QED
  BY <1>1, <1>2, <1>3, <1>5, <1>6 DEF Fine, Calm

\* Commands that are added to a mailbox or taken from it.
LEMMA BehindFacts ==
    ASSUME NEW M \in Seq(Cmd), Behind(M)
    PROVE  /\ \A c \in Cmd : c[1] # "pipe_term" => Behind(Append(M, c))
           /\ \A c \in Cmd : "term" \notin Types(M) /\ "term_listener" \notin Types(M) => Behind(Append(M, c))
           /\ M # <<>> => Behind(Tail(M))
<1>1. ASSUME NEW c \in Cmd, NEW i \in DOMAIN Append(M, c), NEW j \in DOMAIN Append(M, c), i < j,
             Append(M, c)[j][1] = "pipe_term",
             c[1] # "pipe_term" \/ ("term" \notin Types(M) /\ "term_listener" \notin Types(M))
      PROVE  Append(M, c)[i][1] \notin {"term", "term_listener"}
  <2>1. i \in DOMAIN M /\ Append(M, c)[i] = M[i]
    BY <1>1
  <2>2. CASE j \in DOMAIN M
    BY <1>1, <2>1, <2>2 DEF Behind
  <2>3. CASE j \notin DOMAIN M
    <3>1. Append(M, c)[j] = c
      BY <2>3
    <3> QED
      BY <1>1, <2>1, <3>1 DEF Types
  <2> QED
    BY <2>2, <2>3
<1>2. ASSUME M # <<>> PROVE Behind(Tail(M))
  <2>1. ASSUME NEW i \in DOMAIN Tail(M), NEW j \in DOMAIN Tail(M), i < j
        PROVE  /\ Tail(M)[i] = M[i + 1] /\ Tail(M)[j] = M[j + 1]
               /\ i + 1 \in DOMAIN M /\ j + 1 \in DOMAIN M /\ i + 1 < j + 1
    BY <1>2, <2>1
  <2> QED
    BY <2>1 DEF Behind
<1> QED
  BY <1>1, <1>2 DEF Behind

------------------------------------------------------------------------------
(* Commands, flags and states *)

\* A calm change of one end.
LEMMA CalmIntro ==
    ASSUME NEW n, NEW m, NEW e \in End, Still(n, m), m.queue = n.queue, m.sent = n.sent, m.got = n.got,
           m.end[Peer(e)] = n.end[Peer(e)], m.end[e].delay = n.end[e].delay,
           Reads(m, e) <=> Reads(n, e),
           m.end[e].state \in Undelimited => n.end[e].state \in Undelimited,
           n.end[e].inActive => m.end[e].inActive,
           m.end[e].state = "active" /\ n.end[e].outActive => m.end[e].outActive,
           Open(m, e) => Open(n, e),
           Behind(n.mail["sess"]) => Behind(m.mail["sess"])
    PROVE  Calm(n, m)
<1>1. Peer(e) \in End /\ "sock" \in End /\ \A x \in End : x = e \/ x = Peer(e)
  BY Ends DEF End
<1>2. Reads(m, Peer(e)) <=> Reads(n, Peer(e))
  BY DEF Reads
<1>3. Open(m, "sock") => Open(n, "sock")
  BY <1>1 DEF Open
<1>4. m.end["sock"].state = "active" /\ n.end["sock"].outActive => m.end["sock"].outActive
  BY <1>1
<1>5. ASSUME NEW x \in End
      PROVE  /\ m.end[x].state \in Undelimited => n.end[x].state \in Undelimited
             /\ Reads(m, x) <=> Reads(n, x)
             /\ m.end[x].delay = n.end[x].delay
             /\ Reads(m, x) /\ n.end[x].inActive => m.end[x].inActive
             /\ m.end[x].state = "active" => m.queue[n.end[x].out].part = n.queue[n.end[x].out].part
  BY <1>1, <1>2
<1> QED
  BY <1>3, <1>4, <1>5 DEF Calm

\* A command that is not pipe_term is sent.
LEMMA MailBehind ==
    ASSUME NEW n \in NetType, NEW x \in End, NEW type \in PipeTypes \cup OwnTypes, NEW arg \in Nat,
           type # "pipe_term"
    PROVE  Behind(n.mail["sess"]) => Behind(Send(n, x, type, arg).mail["sess"])
<1>1. "sess" \in End /\ n.mail["sess"] \in Seq(Cmd) /\ (x = "sess" \/ Peer(x) = "sess")
  BY NetFields DEF End, Peer
<1>2. /\ Send(n, x, type, arg).mail[x] = Append(n.mail[x], <<type, arg>>)
      /\ Send(n, x, type, arg).mail[Peer(x)] = n.mail[Peer(x)]
  BY SendEffect
<1>3. <<type, arg>> \in Cmd /\ <<type, arg>>[1] # "pipe_term"
  BY DEF Cmd
<1> QED
  BY <1>1, <1>2, <1>3, BehindFacts

\* The mailboxes are no matter of the lines: a command is sent,
LEMMA SendCalm ==
    ASSUME NEW n \in NetType, NEW x \in End,
           NEW type \in (PipeTypes \cup OwnTypes) \ {"activate_write", "pipe_term"}, NEW arg \in Nat
    PROVE  Calm(n, Send(n, x, type, arg))
<1> DEFINE m == Send(n, x, type, arg)
<1>1. Still(n, m) /\ m.end = n.end
  BY SendStill
<1>2. m.queue = n.queue /\ m.sent = n.sent /\ m.got = n.got
  BY SendEffect
<1>3. Behind(n.mail["sess"]) => Behind(m.mail["sess"])
  BY MailBehind
<1> HIDE DEF m
<1>4. Calm(n, m)
  <2>1. (Reads(m, x) <=> Reads(n, x)) /\ (Open(m, x) => Open(n, x))
    BY <1>1 DEF Reads, Open
  <2> QED
    BY <1>1, <1>2, <1>3, <2>1, CalmIntro
<1> QED
  BY <1>4 DEF m

\* or taken.
LEMMA RestCalm ==
    ASSUME NEW n \in NetType, NEW x \in End, n.mail[x] # <<>>
    PROVE  Calm(n, [n EXCEPT !.mail[x] = Tail(@)])
<1> DEFINE m == [n EXCEPT !.mail[x] = Tail(@)]
<1>1. Still(n, m) /\ m.end = n.end
  BY RestStill
<1>2. /\ m.queue = n.queue /\ m.sent = n.sent /\ m.got = n.got
      /\ m.mail[x] = Tail(n.mail[x]) /\ m.mail[Peer(x)] = n.mail[Peer(x)]
  BY TakenEffect
<1>3. Behind(n.mail["sess"]) => Behind(m.mail["sess"])
  <2>1. "sess" \in End /\ n.mail["sess"] \in Seq(Cmd) /\ (x = "sess" \/ Peer(x) = "sess")
    BY NetFields DEF End, Peer
  <2> HIDE DEF m
  <2> QED
    BY <1>2, <2>1, BehindFacts
<1> HIDE DEF m
<1>4. Calm(n, m)
  <2>1. (Reads(m, x) <=> Reads(n, x)) /\ (Open(m, x) => Open(n, x))
    BY <1>1 DEF Reads, Open
  <2> QED
    BY <1>1, <1>2, <1>3, <2>1, CalmIntro
<1> QED
  BY <1>4 DEF m

\* A reader wakes.
LEMMA WakeCalm ==
    ASSUME NEW n \in NetType, NEW e \in End
    PROVE  Calm(n, [n EXCEPT !.end[e].inActive = TRUE])
<1> DEFINE m == [n EXCEPT !.end[e].inActive = TRUE]
<1>1. Still(n, m)
  BY WakeStill
<1>2. /\ m.queue = n.queue /\ m.mail = n.mail /\ m.sent = n.sent /\ m.got = n.got
      /\ m.end[Peer(e)] = n.end[Peer(e)]
      /\ m.end[e].state = n.end[e].state /\ m.end[e].inActive = TRUE
      /\ m.end[e].outActive = n.end[e].outActive /\ m.end[e].delay = n.end[e].delay
  BY WakeEffect
<1> HIDE DEF m
<1>3. (Reads(m, e) <=> Reads(n, e)) /\ (Open(m, e) => Open(n, e))
  BY <1>2 DEF Reads, Open
<1>4. Calm(n, m)
  BY <1>1, <1>2, <1>3, CalmIntro
<1> QED
  BY <1>4 DEF m

\* An end that does not read acknowledges.
LEMMA AcknowledgeCalm ==
    ASSUME NEW n \in NetType, NEW e \in End, NEW s \in Silent, n.end[e].state # "none", ~Reads(n, e)
    PROVE  Calm(n, Acknowledge(n, e, s))
<1> DEFINE m == Acknowledge(n, e, s)
<1>1. Still(n, m)
  BY AcknowledgeStill
<1>2. s \in States
  BY DEF Silent, States
<1>3. /\ m.queue = n.queue /\ m.sent = n.sent /\ m.got = n.got
      /\ m.mail[e] = n.mail[e]
      /\ m.mail[Peer(e)] = Append(n.mail[Peer(e)], <<"pipe_term_ack", 0>>)
      /\ m.end[Peer(e)] = n.end[Peer(e)]
      /\ m.end[e].state = s /\ Flags(m.end[e], n.end[e])
  BY <1>2, AcknowledgeEffect
<1>4. Behind(n.mail["sess"]) => Behind(m.mail["sess"])
  <2>1. "sess" \in End /\ n.mail["sess"] \in Seq(Cmd) /\ (e = "sess" \/ Peer(e) = "sess")
    BY NetFields DEF End, Peer
  <2>2. <<"pipe_term_ack", 0>> \in Cmd /\ <<"pipe_term_ack", 0>>[1] # "pipe_term"
    BY DEF Cmd, PipeTypes
  <2> HIDE DEF m
  <2> QED
    BY <1>3, <2>1, <2>2, BehindFacts
<1> HIDE DEF m
<1>5. ~Reads(m, e) /\ ~Open(m, e) /\ m.end[e].state \notin Undelimited /\ m.end[e].state # "active"
  BY <1>3 DEF Reads, Open, Silent, Undelimited
<1>6. m.end[e].delay = n.end[e].delay /\ m.end[e].inActive = n.end[e].inActive
  BY <1>3 DEF Flags
<1>7. Calm(n, m)
  BY <1>1, <1>3, <1>4, <1>5, <1>6, CalmIntro
<1> QED
  BY <1>7 DEF m

\* An end that is told that its peer ends goes on reading.
LEMMA WaitCalm ==
    ASSUME NEW n, Sound(n), NEW e \in End, n.end[e].state = "active"
    PROVE  Calm(n, Goto(n, e, "waiting_for_delimiter"))
<1> DEFINE m == Goto(n, e, "waiting_for_delimiter")
<1>1. "waiting_for_delimiter" \in States \ (Silent \cup {"none", "active"}) /\ n \in NetType
  BY DEF States, Silent, Sound
<1>2. Talks(n, e)
  BY DEF Talks, Silent
<1>3. Still(n, m)
  BY <1>1, <1>2, GotoStill
<1>4. /\ m.queue = n.queue /\ m.mail = n.mail /\ m.sent = n.sent /\ m.got = n.got
      /\ m.end[Peer(e)] = n.end[Peer(e)]
      /\ m.end[e].state = "waiting_for_delimiter" /\ Flags(m.end[e], n.end[e])
  BY <1>1, GotoEffect
<1> HIDE DEF m
<1>5. /\ Reads(m, e) /\ Reads(n, e) /\ Open(n, e) /\ m.end[e].state # "active"
      /\ m.end[e].state \notin Undelimited
      /\ m.end[e].delay = n.end[e].delay /\ m.end[e].inActive = n.end[e].inActive
  BY <1>4 DEF Reads, Open, Undelimited, Flags
<1>6. Calm(n, m)
  BY <1>3, <1>4, <1>5, CalmIntro
<1> QED
  BY <1>6 DEF m

\* rollback where no message can be sent.
LEMMA RollbackCalm ==
    ASSUME NEW n, Sound(n), NEW e \in End, n.end[e].state # "active"
    PROVE  Calm(n, Rollback(n, e))
<1> DEFINE m == Rollback(n, e)
<1>0. n \in NetType /\ n.end[e].out \in {NULL} \cup DOMAIN n.queue
  BY DEF Sound, RefInv
<1>1. Still(n, m) /\ m.end = n.end
  BY RollbackStill
<1>2. /\ m.mail = n.mail /\ m.sent = n.sent /\ m.got = n.got
      /\ \A p \in DOMAIN n.queue : p # n.end[e].out => m.queue[p] = n.queue[p]
  <2>1. CASE n.end[e].out = NULL
    BY <2>1 DEF Rollback
  <2>2. CASE n.end[e].out # NULL
    BY <1>0, <2>2, RollbackEffect
  <2> QED
    BY <2>1, <2>2
<1> HIDE DEF m
<1>3. ASSUME NEW x \in End, m.end[x].state = "active"
      PROVE  m.queue[n.end[x].out].part = n.queue[n.end[x].out].part
  <2>1. x = Peer(e) /\ n.end[x].state = "active"
    BY <1>1, <1>3, Ends
  <2>2. n.end[x].out # NULL /\ n.end[x].out \in DOMAIN n.queue
    BY <2>1, ActiveOut
  <2>3. n.end[x].out # n.end[e].out
    BY <2>1, <2>2, Apart
  <2> QED
    BY <1>2, <2>2, <2>3
<1>4. Calm(n, m)
  BY <1>1, <1>2, <1>3 DEF Calm, Reads, Open
<1> QED
  BY <1>4 DEF m

------------------------------------------------------------------------------
(* Reading *)

\* The end e changes what it reads from, and nothing the peer reads.
LEMMA Aside ==
    ASSUME NEW n, Sound(n), NEW m, NEW e \in End, m.sent = n.sent,
           m.got[Peer(e)] = n.got[Peer(e)], m.end[Peer(e)] = n.end[Peer(e)],
           m.end[e].state = n.end[e].state, m.end[e].out = n.end[e].out,
           \A p \in DOMAIN n.queue : p # n.end[e].in => m.queue[p] = n.queue[p]
    PROVE  Watch(n, m, e, Peer(e)) /\ Stays(n, m, Peer(e))
<1>1. Peer(e) \in End
  BY Ends
<1>2. n.end[Peer(e)].in \in DOMAIN n.queue /\ n.end[Peer(e)].in # n.end[e].in
  <2>1. n.end[Peer(e)].in \in DOMAIN n.queue
    BY <1>1 DEF Sound, RefInv
  <2>2. n.end["sock"].in = 1 /\ n.end["sess"].in = Len(n.queue) /\ Len(n.queue) >= 2
    BY DEF Sound
  <2>3. Len(n.queue) \in Nat
    BY NetFields DEF Sound
  <2> QED
    BY <2>1, <2>2, <2>3 DEF End, Peer
<1>3. m.queue[n.end[Peer(e)].in] = n.queue[n.end[Peer(e)].in]
  BY <1>2
<1>4. m.end[e].state = "active" => m.queue[n.end[e].out].part = n.queue[n.end[e].out].part
  BY ActiveOut, Apart
<1> QED
  BY <1>1, <1>3, <1>4 DEF Watch, Stays, Reads

\* A reader's change is fine if it keeps the line to it.
LEMMA FineIntro ==
    ASSUME NEW n, Sound(n), NEW m \in NetType, NEW e \in End, m.sent = n.sent,
           m.got[Peer(e)] = n.got[Peer(e)], m.end[Peer(e)] = n.end[Peer(e)],
           m.end[e].state = n.end[e].state, m.end[e].out = n.end[e].out,
           m.end[e].outActive = n.end[e].outActive, m.end[e].written = n.end[e].written,
           m.end[e].peersRead = n.end[e].peersRead,
           DOMAIN m.queue = DOMAIN n.queue,
           \A p \in DOMAIN n.queue : p # n.end[e].in => m.queue[p] = n.queue[p],
           GoodKept(n, m, Peer(e)), Thin(n) => Thin(m),
           Behind(n.mail["sess"]) => Behind(m.mail["sess"])
    PROVE  Fine(n, m)
<1>1. GoodKept(n, m, e)
  BY Aside, WatchGood DEF GoodKept
<1>2. \A x \in End : GoodKept(n, m, x)
  BY <1>1, Ends
<1>3. Short(n) => Short(m)
  BY LenSame DEF Sound
<1>4. "sock" = e \/ "sock" = Peer(e)
  BY DEF End, Peer
<1>5. Room(n) => Room(m)
  BY <1>4 DEF Room, Full
<1>6. Open(m, "sock") => Open(n, "sock")
  BY <1>4 DEF Open
<1> QED
  BY <1>2, <1>3, <1>5, <1>6 DEF Fine

\* Messages of two frames are sent whole.
LEMMA EvenStreams ==
    ASSUME NEW n \in NetType, NEW e \in End, Streams(n, e), Frames(e) = 2
    PROVE  Len(n.sent[e]) % 2 = 0 /\ Len(n.sent[e]) \in Nat /\ Len(n.got[Peer(e)]) \in Nat
<1>1. n.sent[e] \in Seq(Frame) /\ n.got[Peer(e)] \in Seq(Frame)
  BY NetFields, Ends
<1>2. Count(n.sent[e]) \in Nat
  BY <1>1, CountNat
<1>3. Len(n.sent[e]) = Count(n.sent[e]) + Count(n.sent[e])
  BY DEF Streams
<1>4. \A k \in Nat : (k + k) % 2 = 0
  OBVIOUS
<1> QED
  BY <1>1, <1>2, <1>3, <1>4

\* A reader goes to sleep, and is never in the middle of a message.
LEMMA SleepFine ==
    ASSUME NEW n, Sound(n), NEW e \in End, Reads(n, e), NEW q, q = n.end[e].in, n.queue[q].ready = <<>>
    PROVE  Fine(n, Sleep(n, e))
<1> DEFINE m == Sleep(n, e)
<1>0. n \in NetType /\ q \in DOMAIN n.queue /\ Peer(e) \in End /\ Peer(Peer(e)) = e
  BY Ends DEF Sound, RefInv
<1>1. /\ m \in NetType
      /\ m.mail = n.mail /\ m.sent = n.sent /\ m.got = n.got
      /\ m.end[Peer(e)] = n.end[Peer(e)]
      /\ m.end[e].state = n.end[e].state /\ m.end[e].delay = n.end[e].delay
      /\ m.end[e].outActive = n.end[e].outActive
      /\ Points(m.end[e], n.end[e]) /\ Counters(m.end[e], n.end[e])
      /\ DOMAIN m.queue = DOMAIN n.queue
      /\ \A p \in DOMAIN n.queue : p # q => m.queue[p] = n.queue[p]
      /\ m.queue[q].part = n.queue[q].part /\ m.queue[q].ready = n.queue[q].ready
  <2>0. q \in DOMAIN n.queue /\ q = n.end[e].in /\ n \in NetType
    BY <1>0
  <2>1. /\ m \in NetType
        /\ m.mail = n.mail /\ m.sent = n.sent /\ m.got = n.got
        /\ m.end[Peer(e)] = n.end[Peer(e)]
        /\ m.end[e].state = n.end[e].state /\ m.end[e].delay = n.end[e].delay
        /\ m.end[e].outActive = n.end[e].outActive
        /\ Points(m.end[e], n.end[e]) /\ Counters(m.end[e], n.end[e])
    BY <2>0, SleepEffect
  <2>2. /\ DOMAIN m.queue = DOMAIN n.queue
        /\ \A p \in DOMAIN n.queue : p # q => m.queue[p] = n.queue[p]
        /\ m.queue[q].part = n.queue[q].part /\ m.queue[q].ready = n.queue[q].ready
    BY <2>0, SleepEffect
  <2> QED
    BY <2>1, <2>2
<1>2. n.queue[q].ready = <<>>
  OBVIOUS
<1> HIDE DEF m
<1>3. \A p \in DOMAIN n.queue : m.queue[p].ready = n.queue[p].ready /\ m.queue[p].part = n.queue[p].part
  BY <1>1
<1>4. Thin(n) => Thin(m)
  BY <1>1, <1>3 DEF Thin
<1>5. ASSUME NEW b \in BOOLEAN, NEW f \in BOOLEAN, NEW c \in BOOLEAN, Wire(n, Peer(e), b, f, c)
      PROVE  Wire(m, Peer(e), b, f, c)
  <2>1. Line(n, Peer(e)) /\ Streams(n, Peer(e)) /\ Queued(Peer(e), n.got[e], n.sent[Peer(e)], n.queue[q].ready)
    BY <1>0, <1>5 DEF Wire, Line, LineTo
  <2>2. n.got[e] \in Seq(Frame) /\ n.sent[Peer(e)] \in Seq(Frame) /\ n.queue[q].ready \in Seq(Frame)
    BY <1>0, <1>2, NetFields
  <2>3. Len(n.got[e]) = Len(n.sent[Peer(e)])
    BY <1>2, <2>1, <2>2, QueuedNone
  <2>4. Awake(m, Peer(e), e)
    <3> SUFFICES ASSUME Frames(Peer(e)) = 2 PROVE Len(m.got[e]) % 2 # 1
      BY DEF Awake
    <3>1. Len(n.sent[Peer(e)]) % 2 = 0 /\ Len(n.sent[Peer(e)]) \in Nat
      BY <1>0, <2>1, EvenStreams
    <3>2. Len(m.got[e]) = Len(n.sent[Peer(e)])
      BY <1>1, <2>3
    <3>3. \A k \in Nat : k % 2 = 0 => k % 2 # 1
      OBVIOUS
    <3>4. Len(n.sent[Peer(e)]) % 2 # 1
      BY <3>1, <3>3
    <3> QED
      BY <3>2, <3>4, Zenon
  <2>5. Line(m, Peer(e))
    <3>1. Streams(m, Peer(e)) /\ m.end[e].in = q /\ m.end[Peer(e)].out \in {NULL, q}
      BY <1>0, <1>1, <2>1 DEF Streams, Points, Line, LineTo
    <3>2. Reads(m, e) => Queued(Peer(e), m.got[e], m.sent[Peer(e)], m.queue[q].ready)
      BY <1>1, <2>1
    <3>3. /\ m.end[Peer(e)].state = "none" => m.sent[Peer(e)] = <<>>
          /\ m.end[Peer(e)].state \in Undelimited =>
               \A i \in DOMAIN m.queue[q].ready : m.queue[q].ready[i] # DELIMITER
      BY <1>0, <1>1, <2>1 DEF Line, LineTo
    <3> QED
      BY <1>0, <2>4, <3>1, <3>2, <3>3 DEF Line, LineTo
  <2>6. Began(m, Peer(e), b)
    <3>1. Began(n, Peer(e), b) /\ First(m, Peer(e)) = First(n, Peer(e))
      BY <1>1, <1>5 DEF Wire, First
    <3>2. n.end[Peer(e)].state = "active" => n.end[Peer(e)].out \in DOMAIN n.queue
      BY <1>0, ActiveOut
    <3> QED
      BY <1>1, <1>3, <3>1, <3>2 DEF Began
  <2>7. f => Loyal(m, e, c)
    BY <1>0, <1>1, <1>5 DEF Wire, Loyal, Reads
  <2> QED
    BY <1>0, <2>5, <2>6, <2>7 DEF Wire
<1>6. GoodKept(n, m, Peer(e))
  BY <1>5 DEF GoodKept, Good
<1>7. Fine(n, m)
  <2>1. /\ m.end[e].out = n.end[e].out /\ m.end[e].written = n.end[e].written
        /\ m.end[e].peersRead = n.end[e].peersRead /\ m.got[Peer(e)] = n.got[Peer(e)]
    BY <1>1 DEF Points, Counters
  <2>2. \A p \in DOMAIN n.queue : p # n.end[e].in => m.queue[p] = n.queue[p]
    BY <1>1
  <2> QED
    BY <1>1, <1>4, <1>6, <2>1, <2>2, FineIntro
<1> QED
  BY <1>7 DEF m

\* What the net is to the end e and the queue q it reads.
LEMMA InFacts ==
    ASSUME NEW n, Sound(n), NEW e \in End, NEW q, q = n.end[e].in
    PROVE  /\ n \in NetType /\ q \in DOMAIN n.queue /\ Peer(e) \in End /\ Peer(Peer(e)) = e
           /\ n.got[e] \in Seq(Frame) /\ n.sent[Peer(e)] \in Seq(Frame)
           /\ n.queue[q].ready \in Seq(Frame) /\ n.queue[q].part \in Seq(Frame)
           /\ (q = 1) <=> (e = "sock")
<1>1. n \in NetType /\ q \in DOMAIN n.queue /\ Peer(e) \in End /\ Peer(Peer(e)) = e
  BY Ends DEF Sound, RefInv
<1>2. n.queue[q] \in QueueType
  BY <1>1, NetFields
<1>3. (q = 1) <=> (e = "sock")
  <2>1. n.end["sock"].in = 1 /\ n.end["sess"].in = Len(n.queue) /\ Len(n.queue) >= 2
    BY DEF Sound
  <2>2. Len(n.queue) \in Nat
    BY <1>1, NetFields
  <2> QED
    BY <2>1, <2>2 DEF End
<1> QED
  BY <1>1, <1>2, <1>3, NetFields, QueueFields

\* The parts of a line from its writer, where its reader is about to read.
LEMMA LineFacts ==
    ASSUME NEW n, Sound(n), NEW e \in End, NEW q, q = n.end[e].in, Line(n, Peer(e))
    PROVE  /\ Streams(n, Peer(e)) /\ n.end[Peer(e)].out \in {NULL, q}
           /\ Reads(n, e) => /\ Queued(Peer(e), n.got[e], n.sent[Peer(e)], n.queue[q].ready)
                             /\ Awake(n, Peer(e), e)
           /\ n.end[Peer(e)].state = "none" => n.sent[Peer(e)] = <<>>
           /\ n.end[Peer(e)].state \in Undelimited =>
                \A i \in DOMAIN n.queue[q].ready : n.queue[q].ready[i] # DELIMITER
           /\ Stream(Peer(e), n.got[e])
<1>1. Peer(Peer(e)) = e
  BY Ends
<1> QED
  BY <1>1 DEF Line, LineTo, Streams

\* The parts make the line.
LEMMA LineIntro ==
    ASSUME NEW m, NEW e \in End, NEW q, q = m.end[e].in,
           Streams(m, Peer(e)), m.end[Peer(e)].out \in {NULL, q},
           Reads(m, e) => /\ Queued(Peer(e), m.got[e], m.sent[Peer(e)], m.queue[q].ready)
                          /\ Awake(m, Peer(e), e),
           m.end[Peer(e)].state = "none" => m.sent[Peer(e)] = <<>>,
           m.end[Peer(e)].state \in Undelimited =>
                \A i \in DOMAIN m.queue[q].ready : m.queue[q].ready[i] # DELIMITER
    PROVE  Line(m, Peer(e))
<1>1. Peer(Peer(e)) = e
  BY Ends
<1> QED
  BY <1>1 DEF Line, LineTo

\* What was sent and what was read, after a read.
LEMMA StreamsRead ==
    ASSUME NEW n, NEW m, NEW e \in End, Streams(n, Peer(e)), m.sent = n.sent,
           Stream(Peer(e), m.got[e]), Len(m.got[e]) <= Len(n.sent[Peer(e)])
    PROVE  Streams(m, Peer(e))
<1>1. Peer(Peer(e)) = e
  BY Ends
<1> QED
  BY <1>1 DEF Streams

\* A frame is read: it is the next that was sent.
LEMMA TakeFine ==
    ASSUME NEW n, Sound(n), NEW e \in End, Reads(n, e), n.end[e].inActive, NEW q, q = n.end[e].in,
           n.queue[q].ready # <<>>, Head(n.queue[q].ready) # DELIMITER
    PROVE  Fine(n, Take(n, e))
<1> DEFINE m == Take(n, e)
           r == n.queue[q].ready
<1>0. /\ n \in NetType /\ q \in DOMAIN n.queue /\ Peer(e) \in End /\ Peer(Peer(e)) = e
      /\ n.got[e] \in Seq(Frame) /\ n.sent[Peer(e)] \in Seq(Frame)
      /\ r \in Seq(Frame) /\ (q = 1 <=> e = "sock")
  BY InFacts
<1>q. n \in NetType /\ q \in DOMAIN n.queue /\ q = n.end[e].in /\ n.queue[q].ready # <<>>
  BY <1>0
<1>1. /\ m \in NetType
      /\ m.sent = n.sent /\ m.mail[e] = n.mail[e]
      /\ m.got[Peer(e)] = n.got[Peer(e)] /\ m.got[e] = Append(n.got[e], Head(r))
      /\ m.end[Peer(e)] = n.end[Peer(e)]
      /\ m.end[e].state = n.end[e].state
      /\ Points(m.end[e], n.end[e]) /\ Flags(m.end[e], n.end[e])
      /\ m.end[e].written = n.end[e].written /\ m.end[e].peersRead = n.end[e].peersRead
  <2>1. /\ m \in NetType
        /\ m.sent = n.sent /\ m.mail[e] = n.mail[e]
        /\ m.got[Peer(e)] = n.got[Peer(e)] /\ m.got[e] = Append(n.got[e], Head(r))
    BY <1>q, TakeEffect, Zenon
  <2>2. /\ m.end[Peer(e)] = n.end[Peer(e)]
        /\ m.end[e].state = n.end[e].state
        /\ Points(m.end[e], n.end[e]) /\ Flags(m.end[e], n.end[e])
        /\ m.end[e].written = n.end[e].written /\ m.end[e].peersRead = n.end[e].peersRead
    BY <1>q, TakeEffect
  <2> QED
    BY <2>1, <2>2
<1>2. /\ DOMAIN m.queue = DOMAIN n.queue
      /\ \A p \in DOMAIN n.queue : p # q => m.queue[p] = n.queue[p]
      /\ m.queue[q].part = n.queue[q].part /\ m.queue[q].ready = Tail(r)
  <2>1. DOMAIN m.queue = DOMAIN n.queue /\ m.queue[q].part = n.queue[q].part
    BY <1>q, TakeEffect
  <2>2. \A p \in DOMAIN n.queue : p # q => m.queue[p] = n.queue[p]
    BY <1>q, TakeEffect, Zenon
  <2>3. m.queue[q].ready = Tail(n.queue[q].ready)
    BY <1>q, TakeEffect
  <2> QED
    BY <2>1, <2>2, <2>3
<1>3. \E count \in Nat : m.mail[Peer(e)] \in
          {n.mail[Peer(e)], Append(n.mail[Peer(e)], <<"activate_write", count>>)}
  <2> DEFINE k == n.end[e].read + (IF More(Head(n.queue[q].ready)) THEN 0 ELSE 1)
  <2>1. k \in Nat
    BY <1>q, TakeEffect
  <2>2. m.mail[Peer(e)] = IF k % LWM = 0 THEN Append(n.mail[Peer(e)], <<"activate_write", k>>)
                          ELSE n.mail[Peer(e)]
    BY <1>q, TakeEffect
  <2> HIDE DEF k, m
  <2> QED
    BY <2>1, <2>2
<1>4. Behind(n.mail["sess"]) => Behind(m.mail["sess"])
  <2>1. "sess" \in End /\ n.mail["sess"] \in Seq(Cmd) /\ ("sess" = e \/ "sess" = Peer(e))
    BY <1>0, NetFields DEF End, Peer
  <2>2. \A count \in Nat : <<"activate_write", count>> \in Cmd /\ <<"activate_write", count>>[1] # "pipe_term"
    BY DEF Cmd, PipeTypes
  <2> HIDE DEF m
  <2> QED
    BY <1>1, <1>3, <2>1, <2>2, BehindFacts
<1>r. r # <<>> /\ Head(r) # DELIMITER /\ r = n.queue[q].ready
  OBVIOUS
<1> HIDE DEF m, r
<1>5. Thin(n) => Thin(m)
  <2> SUFFICES ASSUME Thin(n), kind = "SUB" PROVE Thin(m)
    BY DEF Thin
  <2>1. ASSUME NEW p \in DOMAIN m.queue \ {1} PROVE Plain(m.queue[p].ready) /\ Plain(m.queue[p].part)
    <3>1. Plain(n.queue[p].ready) /\ Plain(n.queue[p].part)
      BY <1>2, <2>1 DEF Thin
    <3>2. CASE p # q
      BY <1>2, <2>1, <3>1, <3>2
    <3>3. CASE p = q
      <4>1. Plain(Tail(r))
        BY <1>0, <1>r, <3>1, <3>3 DEF Plain
      <4> QED
        BY <1>2, <3>1, <3>3, <4>1
    <3> QED
      BY <3>2, <3>3
  <2>2. Plain(m.got["sess"])
    <3>1. Plain(n.got["sess"])
      BY DEF Thin
    <3>2. CASE e = "sock"
      BY <1>1, <3>1, <3>2 DEF Peer
    <3>3. CASE e = "sess"
      <4>1. Plain(r)
        BY <1>0, <1>r, <3>3 DEF Thin
      <4>2. ~More(Head(r)) /\ Head(r) \in Frame
        BY <1>0, <1>r, <4>1 DEF Plain
      <4>3. n.got["sess"] \in Seq(Frame)
        BY <1>0, <3>3
      <4>4. Plain(Append(n.got["sess"], Head(r)))
        BY <3>1, <4>2, <4>3 DEF Plain
      <4> QED
        BY <1>1, <3>3, <4>4
    <3> QED
      BY <3>2, <3>3 DEF End
  <2> QED
    BY <2>1, <2>2 DEF Thin
<1>6. ASSUME NEW b \in BOOLEAN, NEW f \in BOOLEAN, NEW c \in BOOLEAN, Wire(n, Peer(e), b, f, c)
      PROVE  Wire(m, Peer(e), b, f, c)
  <2>0. Line(n, Peer(e))
    BY <1>6 DEF Wire
  <2>1. /\ Streams(n, Peer(e)) /\ n.end[Peer(e)].out \in {NULL, q}
        /\ Queued(Peer(e), n.got[e], n.sent[Peer(e)], r)
        /\ n.end[Peer(e)].state = "none" => n.sent[Peer(e)] = <<>>
        /\ n.end[Peer(e)].state \in Undelimited => \A i \in DOMAIN r : r[i] # DELIMITER
        /\ Stream(Peer(e), n.got[e])
    BY <1>r, <2>0, LineFacts
  <2>2. /\ Queued(Peer(e), Append(n.got[e], Head(r)), n.sent[Peer(e)], Tail(r))
        /\ Stream(Peer(e), Append(n.got[e], Head(r)))
        /\ Len(Append(n.got[e], Head(r))) <= Len(n.sent[Peer(e)])
    BY <1>0, <1>r, <2>1, QueuedTaken, Zenon
  <2>3. Streams(m, Peer(e))
    BY <1>1, <2>1, <2>2, StreamsRead
  <2>4. Awake(m, Peer(e), e)
    BY <1>1 DEF Awake, Flags
  <2>5. n.end[Peer(e)].state \in Undelimited => \A i \in DOMAIN Tail(r) : Tail(r)[i] # DELIMITER
    <3>1. \A i \in DOMAIN Tail(r) : i + 1 \in DOMAIN r /\ Tail(r)[i] = r[i + 1]
      BY <1>0, <1>r
    <3> QED
      BY <2>1, <3>1
  <2>6. Line(m, Peer(e))
    <3>1. q = m.end[e].in /\ m.queue[q].ready = Tail(r)
      BY <1>1, <1>2 DEF Points
    <3>2. Queued(Peer(e), m.got[e], m.sent[Peer(e)], m.queue[q].ready)
      BY <1>1, <2>2, <3>1
    <3>3. /\ m.end[Peer(e)].out \in {NULL, q}
          /\ m.end[Peer(e)].state = "none" => m.sent[Peer(e)] = <<>>
          /\ m.end[Peer(e)].state \in Undelimited =>
                \A i \in DOMAIN m.queue[q].ready : m.queue[q].ready[i] # DELIMITER
      BY <1>1, <2>1, <2>5, <3>1
    <3> QED
      BY <2>3, <2>4, <3>1, <3>2, <3>3, LineIntro
  <2>7. Began(m, Peer(e), b)
    <3>1. Began(n, Peer(e), b) /\ First(m, Peer(e)) = First(n, Peer(e))
      BY <1>1, <1>6 DEF Wire, First
    <3>2. n.end[Peer(e)].state = "active" => n.end[Peer(e)].out \in DOMAIN n.queue
      BY <1>0, ActiveOut
    <3> QED
      BY <1>1, <1>2, <3>1, <3>2, Zenon DEF Began
  <2>8. f => Loyal(m, e, c)
    BY <1>0, <1>1, <1>6 DEF Wire, Loyal, Reads, Flags
  <2> QED
    BY <1>0, <2>6, <2>7, <2>8 DEF Wire
<1>7. GoodKept(n, m, Peer(e))
  BY <1>6 DEF GoodKept, Good
<1>8. Fine(n, m)
  <2>1. m.end[e].out = n.end[e].out /\ m.end[e].outActive = n.end[e].outActive
    BY <1>1 DEF Points, Flags
  <2>2. \A p \in DOMAIN n.queue : p # n.end[e].in => m.queue[p] = n.queue[p]
    BY <1>2
  <2> QED
    BY <1>1, <1>2, <1>4, <1>5, <1>7, <2>1, <2>2, FineIntro
<1> QED
  BY <1>8 DEF m

\* A delimiter is read: what an end that does so changes.
DelimiterRead(n, m, e, q) ==
    /\ m \in NetType /\ m.sent = n.sent /\ m.got = n.got
    /\ m.end[Peer(e)] = n.end[Peer(e)] /\ m.end[e].in = n.end[e].in
    /\ m.end[e].out \in {NULL, n.end[e].out} /\ m.end[e].delay = n.end[e].delay
    /\ m.end[e].state \in {"delimiter_received", "term_ack_sent"}
    /\ m.end[e].state = "delimiter_received" => n.end[e].state = "active"
    /\ DOMAIN m.queue = DOMAIN n.queue
    /\ \A p \in DOMAIN n.queue : m.queue[p].part \in {n.queue[p].part, <<>>}
    /\ \A p \in DOMAIN n.queue : p # q => m.queue[p].ready = n.queue[p].ready
    /\ m.queue[q].ready = Tail(n.queue[q].ready)
    /\ Behind(n.mail["sess"]) => Behind(m.mail["sess"])

\* An acknowledgement is sent.
LEMMA AckBehind ==
    ASSUME NEW n \in NetType, NEW m \in NetType, NEW e \in End, m.mail[e] = n.mail[e],
           m.mail[Peer(e)] \in {n.mail[Peer(e)], Append(n.mail[Peer(e)], <<"pipe_term_ack", 0>>)}
    PROVE  Behind(n.mail["sess"]) => Behind(m.mail["sess"])
<1>1. "sess" \in End /\ n.mail["sess"] \in Seq(Cmd) /\ (e = "sess" \/ Peer(e) = "sess")
  BY NetFields DEF End, Peer
<1>2. <<"pipe_term_ack", 0>> \in Cmd /\ <<"pipe_term_ack", 0>>[1] # "pipe_term"
  BY DEF Cmd, PipeTypes
<1> QED
  BY <1>1, <1>2, BehindFacts

\* What process_delimiter changes.
LEMMA DelimiterEffect ==
    ASSUME NEW n, Sound(n), NEW e \in End, Reads(n, e), NEW q, q = n.end[e].in,
           n.queue[q].ready # <<>>
    PROVE  DelimiterRead(n, ProcessDelimiter(Pop(n, e), e), e, q)
<1> DEFINE k == Pop(n, e)
<1>0. n \in NetType /\ q \in DOMAIN n.queue /\ q = n.end[e].in /\ n.queue[q].ready # <<>>
  BY InFacts
<1>1. k \in NetType /\ k.end = n.end /\ k.mail = n.mail /\ k.sent = n.sent /\ k.got = n.got
  BY <1>0, PopEffect
<1>2. /\ DOMAIN k.queue = DOMAIN n.queue
      /\ \A p \in DOMAIN n.queue : p # q => k.queue[p] = n.queue[p]
  BY <1>0, PopEffect
<1>3. k.queue[q].part = n.queue[q].part /\ k.queue[q].ready = Tail(n.queue[q].ready)
  BY <1>0, PopEffect
<1> HIDE DEF k
<1>4. CASE n.end[e].state = "active"
  <2> DEFINE m == Goto(k, e, "delimiter_received")
  <2>1. ProcessDelimiter(k, e) = m
    BY <1>1, <1>4 DEF ProcessDelimiter
  <2>2. "delimiter_received" \in States
    BY DEF States
  <2>3. /\ m \in NetType
        /\ m.queue = k.queue /\ m.mail = k.mail /\ m.sent = k.sent /\ m.got = k.got
        /\ m.end[Peer(e)] = k.end[Peer(e)]
        /\ m.end[e].state = "delimiter_received"
        /\ Points(m.end[e], k.end[e]) /\ Flags(m.end[e], k.end[e])
    BY <1>1, <2>2, GotoEffect
  <2> HIDE DEF m
  <2>4. Behind(n.mail["sess"]) => Behind(m.mail["sess"])
    BY <1>1, <2>3
  <2>5. DelimiterRead(n, m, e, q)
    BY <1>1, <1>2, <1>3, <1>4, <2>3, <2>4 DEF DelimiterRead, Points, Flags
  <2> QED
    BY <2>1, <2>5 DEF k
<1>5. CASE n.end[e].state = "waiting_for_delimiter"
  <2> DEFINE l == Rollback(k, e)
             m == Acknowledge(l, e, "term_ack_sent")
  <2>1. ProcessDelimiter(k, e) = m
    BY <1>1, <1>5 DEF ProcessDelimiter
  <2>2. n.end[e].out # NULL /\ n.end[e].out \in DOMAIN n.queue
    BY <1>5, TalksOut DEF Talks, Silent
  <2>3. l \in NetType /\ l.end = k.end /\ l.mail = k.mail /\ l.sent = k.sent /\ l.got = k.got
    BY <1>1, <1>2, <2>2, RollbackEffect
  <2>4. /\ DOMAIN l.queue = DOMAIN k.queue
        /\ \A p \in DOMAIN k.queue : p # n.end[e].out => l.queue[p] = k.queue[p]
        /\ l.queue[n.end[e].out].part = <<>> /\ l.queue[n.end[e].out].ready = k.queue[n.end[e].out].ready
    BY <1>1, <1>2, <2>2, RollbackEffect
  <2> HIDE DEF l
  <2>5. "term_ack_sent" \in States
    BY DEF States
  <2>6. /\ m \in NetType
        /\ m.queue = l.queue /\ m.sent = l.sent /\ m.got = l.got
        /\ m.mail[e] = l.mail[e]
        /\ m.mail[Peer(e)] = Append(l.mail[Peer(e)], <<"pipe_term_ack", 0>>)
        /\ m.end[Peer(e)] = l.end[Peer(e)]
        /\ m.end[e].state = "term_ack_sent" /\ m.end[e].in = l.end[e].in /\ m.end[e].out = NULL
        /\ Flags(m.end[e], l.end[e])
    BY <2>3, <2>5, AcknowledgeEffect
  <2> HIDE DEF m
  <2>7. Behind(n.mail["sess"]) => Behind(m.mail["sess"])
    BY <1>0, <1>1, <2>3, <2>6, AckBehind
  <2>8. \A p \in DOMAIN n.queue : m.queue[p].part \in {n.queue[p].part, <<>>}
    BY <1>2, <1>3, <2>4, <2>6
  <2>a. \A p \in DOMAIN n.queue : m.queue[p].ready = k.queue[p].ready
    <3> SUFFICES ASSUME NEW p \in DOMAIN n.queue PROVE m.queue[p].ready = k.queue[p].ready
      OBVIOUS
    <3>1. p \in DOMAIN k.queue /\ m.queue[p] = l.queue[p]
      BY <1>2, <2>6
    <3>2. CASE p = n.end[e].out
      BY <2>4, <3>1, <3>2
    <3>3. CASE p # n.end[e].out
      BY <2>4, <3>1, <3>3
    <3> QED
      BY <3>2, <3>3
  <2>9. /\ \A p \in DOMAIN n.queue : p # q => m.queue[p].ready = n.queue[p].ready
        /\ m.queue[q].ready = Tail(n.queue[q].ready)
    <3>1. \A p \in DOMAIN n.queue : p # q => m.queue[p].ready = n.queue[p].ready
      BY <1>2, <2>a
    <3>2. m.queue[q].ready = Tail(n.queue[q].ready)
      BY <1>0, <1>3, <2>a
    <3> QED
      BY <3>1, <3>2
  <2>10. /\ m.end[Peer(e)] = n.end[Peer(e)] /\ m.end[e].in = n.end[e].in
         /\ m.end[e].out = NULL /\ m.end[e].delay = n.end[e].delay
         /\ DOMAIN m.queue = DOMAIN n.queue /\ m.sent = n.sent /\ m.got = n.got
    BY <1>1, <1>2, <2>3, <2>4, <2>6 DEF Flags
  <2>11. DelimiterRead(n, m, e, q)
    BY <2>6, <2>7, <2>8, <2>9, <2>10 DEF DelimiterRead
  <2> QED
    BY <2>1, <2>11 DEF k
<1> QED
  BY <1>4, <1>5 DEF Reads

\* What is left of subscriptions.
LEMMA PlainTail ==
    ASSUME NEW r \in Seq(Frame), r # <<>>, Plain(r)
    PROVE  Plain(Tail(r))
<1>1. \A i \in DOMAIN Tail(r) : i + 1 \in DOMAIN r /\ Tail(r)[i] = r[i + 1]
  OBVIOUS
<1> QED
  BY <1>1 DEF Plain

\* A reader that meets the delimiter has read all.
LEMMA DelimiterFine ==
    ASSUME NEW n, Sound(n), NEW e \in End, Reads(n, e), NEW q, q = n.end[e].in,
           n.queue[q].ready # <<>>, Head(n.queue[q].ready) = DELIMITER
    PROVE  Fine(n, ProcessDelimiter(Pop(n, e), e))
<1> DEFINE m == ProcessDelimiter(Pop(n, e), e)
<1>0. /\ n \in NetType /\ q \in DOMAIN n.queue /\ Peer(e) \in End /\ Peer(Peer(e)) = e
      /\ n.got[e] \in Seq(Frame) /\ n.sent[Peer(e)] \in Seq(Frame)
      /\ n.queue[q].ready \in Seq(Frame) /\ (q = 1 <=> e = "sock")
  BY InFacts
<1>1. DelimiterRead(n, m, e, q)
  BY DelimiterEffect
<1> HIDE DEF m
<1>2. /\ m \in NetType /\ m.sent = n.sent /\ m.got = n.got /\ DOMAIN m.queue = DOMAIN n.queue
      /\ m.end[Peer(e)] = n.end[Peer(e)] /\ m.end[e].in = n.end[e].in
  BY <1>1 DEF DelimiterRead
<1>3. Thin(n) => Thin(m)
  <2> SUFFICES ASSUME Thin(n), kind = "SUB" PROVE Thin(m)
    BY DEF Thin
  <2>1. ASSUME NEW p \in DOMAIN m.queue \ {1} PROVE Plain(m.queue[p].ready) /\ Plain(m.queue[p].part)
    <3>1. Plain(n.queue[p].ready) /\ Plain(n.queue[p].part) /\ Plain(<<>>)
      BY <1>2, <2>1 DEF Thin, Plain
    <3>2. m.queue[p].part \in {n.queue[p].part, <<>>}
      BY <1>1, <1>2, <2>1 DEF DelimiterRead
    <3>3. CASE p # q
      BY <1>1, <1>2, <2>1, <3>1, <3>2, <3>3 DEF DelimiterRead
    <3>4. CASE p = q
      BY <1>0, <1>1, <3>1, <3>2, <3>4, PlainTail, Zenon DEF DelimiterRead
    <3> QED
      BY <3>3, <3>4
  <2> QED
    BY <1>2, <2>1 DEF Thin
<1>4. ~Reads(m, e) /\ m.end[e].state # "active" /\ m.end[e].state # "none"
  BY <1>1 DEF DelimiterRead, Reads
<1>5. ASSUME NEW b \in BOOLEAN, NEW f \in BOOLEAN, NEW c \in BOOLEAN, Wire(n, Peer(e), b, f, c)
      PROVE  Wire(m, Peer(e), b, f, c)
  <2>0. Line(n, Peer(e))
    BY <1>5 DEF Wire
  <2>1. /\ Streams(n, Peer(e)) /\ n.end[Peer(e)].out \in {NULL, q}
        /\ Queued(Peer(e), n.got[e], n.sent[Peer(e)], n.queue[q].ready)
        /\ n.end[Peer(e)].state = "none" => n.sent[Peer(e)] = <<>>
        /\ n.end[Peer(e)].state \in Undelimited =>
             \A i \in DOMAIN n.queue[q].ready : n.queue[q].ready[i] # DELIMITER
    BY <2>0, LineFacts, Zenon
  <2>2. Len(n.got[e]) = Len(n.sent[Peer(e)])
    BY <1>0, <2>1, QueuedNone
  <2>3. n.end[Peer(e)].state \notin Undelimited /\ n.end[Peer(e)].state # "active"
    <3>1. 1 \in DOMAIN n.queue[q].ready /\ n.queue[q].ready[1] = DELIMITER
      BY <1>0
    <3>2. n.end[Peer(e)].state \notin Undelimited
      BY <2>1, <3>1
    <3> QED
      BY <3>2 DEF Undelimited
  <2>4. Streams(m, Peer(e))
    BY <1>2, <2>1 DEF Streams
  <2>5. Line(m, Peer(e))
    <3>1. /\ m.end[Peer(e)].out \in {NULL, q} /\ q = m.end[e].in
          /\ m.end[Peer(e)].state = "none" => m.sent[Peer(e)] = <<>>
          /\ m.end[Peer(e)].state \notin Undelimited
      BY <1>2, <2>1, <2>3
    <3> QED
      BY <1>4, <2>4, <3>1, LineIntro
  <2>6. Began(m, Peer(e), b)
    BY <1>2, <2>3 DEF Began
  <2>7. f => Loyal(m, e, c)
    <3>1. f => n.end[e].delay
      BY <1>0, <1>5 DEF Wire, Loyal
    <3> QED
      BY <1>1, <1>2, <2>2, <2>3, <3>1 DEF Loyal, DelimiterRead
  <2> QED
    BY <1>0, <2>5, <2>6, <2>7 DEF Wire
<1>6. GoodKept(n, m, Peer(e))
  BY <1>5 DEF GoodKept, Good
<1>7. GoodKept(n, m, e)
  <2>1. Watch(n, m, e, Peer(e)) /\ Stays(n, m, Peer(e))
    <3>1. n.end[Peer(e)].in # q /\ n.end[Peer(e)].in \in DOMAIN n.queue
      BY <1>0, InFacts DEF Peer, End
    <3>2. m.queue[n.end[Peer(e)].in].ready = n.queue[n.end[Peer(e)].in].ready
      BY <1>1, <3>1 DEF DelimiterRead
    <3>3. m.end[e].state \in Undelimited => n.end[e].state \in Undelimited
      BY <1>1 DEF DelimiterRead, Undelimited
    <3>4. m.end[e].out \in {NULL, n.end[e].out}
      BY <1>1 DEF DelimiterRead
    <3> QED
      BY <1>0, <1>2, <1>4, <3>2, <3>3, <3>4 DEF Watch, Stays, Reads
  <2> QED
    BY <2>1, WatchGood DEF GoodKept
<1>8. \A x \in End : GoodKept(n, m, x)
  BY <1>6, <1>7, Ends
<1>9. Short(n) => Short(m)
  BY <1>0, <1>2, LenSame
<1>10. e = "sock" \/ Peer(e) = "sock"
  BY DEF End, Peer
<1>11. (Open(m, "sock") => Open(n, "sock")) /\ (Room(n) => Room(m))
  <2>1. CASE e = "sock"
    BY <1>4, <2>1 DEF Open, Room, Reads
  <2>2. CASE Peer(e) = "sock"
    BY <1>2, <2>2 DEF Open, Room, Full
  <2> QED
    BY <1>10, <2>1, <2>2
<1>12. Fine(n, m)
  BY <1>1, <1>2, <1>3, <1>8, <1>9, <1>11 DEF Fine, DelimiterRead
<1> QED
  BY <1>12 DEF m

\* pipe_t::read is fine,
LEMMA ReadFine ==
    ASSUME NEW n, Sound(n), NEW e \in End
    PROVE  Fine(n, Read(n, e))
<1> DEFINE q == n.end[e].in
<1>1. CASE ~CanRead(n, e)
  BY <1>1, FineReflexive DEF Read
<1>2. CASE CanRead(n, e)
  <2>1. Reads(n, e) /\ n.end[e].inActive
    BY <1>2 DEF CanRead, Reads
  <2>2. CASE n.queue[q].ready = <<>>
    <3>1. Read(n, e) = Sleep(n, e)
      BY <1>2, <2>2 DEF Read, InQueue
    <3> QED
      BY <2>1, <2>2, <3>1, SleepFine
  <2>3. CASE n.queue[q].ready # <<>> /\ Head(n.queue[q].ready) = DELIMITER
    <3>1. Read(n, e) = ProcessDelimiter(Pop(n, e), e)
      BY <1>2, <2>3 DEF Read, InQueue
    <3> QED
      BY <2>1, <2>3, <3>1, DelimiterFine
  <2>4. CASE n.queue[q].ready # <<>> /\ Head(n.queue[q].ready) # DELIMITER
    <3>1. Read(n, e) = Take(n, e)
      BY <1>2, <2>4 DEF Read, InQueue
    <3> QED
      BY <2>1, <2>4, <3>1, TakeFine
  <2> QED
    BY <2>2, <2>3, <2>4
<1> QED
  BY <1>1, <1>2

\* check_read is,
LEMMA CheckReadFine ==
    ASSUME NEW n, Sound(n), NEW e \in End
    PROVE  Fine(n, CheckRead(n, e))
BY ReadFine, FineReflexive DEF CheckRead

\* reading a whole message is,
LEMMA ReadMessageFine ==
    ASSUME NEW n, Layer(n), NEW e \in End
    PROVE  Fine(n, ReadMessage(n, e))
<1>1. Fine(n, Read(n, e)) /\ Sound(Read(n, e))
  BY ReadFine, ReadLayer DEF Layer
<1>2. Fine(Read(n, e), Read(Read(n, e), e))
  BY <1>1, ReadFine
<1>3. Fine(n, Read(Read(n, e), e))
  BY <1>1, <1>2, FineTransitive
<1> QED
  BY <1>1, <1>3 DEF ReadMessage

\* The reports of ReadAll are sent.
LEMMA BatchBehind ==
    ASSUME NEW n \in NetType, NEW m \in NetType, m.mail["sock"] = n.mail["sock"],
           NEW r \in Seq(Cmd), \A i \in DOMAIN r : r[i][1] = "activate_write",
           m.mail["sess"] = Cat(n.mail["sess"], r), Behind(n.mail["sess"])
    PROVE  Behind(m.mail["sess"])
<1> DEFINE M == n.mail["sess"]
<1>1. M \in Seq(Cmd)
  BY NetFields DEF End
<1> HIDE DEF M
<1>2. ASSUME NEW i \in DOMAIN (M \o r), NEW j \in DOMAIN (M \o r), i < j, (M \o r)[j][1] = "pipe_term"
      PROVE  (M \o r)[i][1] \notin {"term", "term_listener"}
  <2>1. CASE j \in DOMAIN M
    <3>1. i \in DOMAIN M /\ (M \o r)[i] = M[i] /\ (M \o r)[j] = M[j]
      BY <1>1, <1>2, <2>1
    <3> QED
      BY <1>2, <2>1, <3>1 DEF Behind, M
  <2>2. CASE j \notin DOMAIN M
    <3>1. j - Len(M) \in DOMAIN r /\ (M \o r)[j] = r[j - Len(M)]
      BY <1>1, <1>2, <2>2
    <3> QED
      BY <1>2, <3>1
  <2> QED
    BY <2>1, <2>2
<1>3. Behind(M \o r)
  BY <1>2 DEF Behind
<1> QED
  BY <1>3 DEF M, Cat

\* What ReadAll reads.
LEMMA BatchGot ==
    ASSUME NEW n \in NetType, NEW e \in End, NEW q \in DOMAIN n.queue, q = n.end[e].in,
           NEW k, k = Whole(n.queue[q].ready)
    PROVE  Batch(n, e).got[e] = Cat(n.got[e], SubSeq(n.queue[q].ready, 1, k))
<1>0. n.got \in [End -> Seq(Frame)]
  BY NetFields
<1>1. Batch(n, e).got = [n.got EXCEPT ![e] = n.got[e] \o SubSeq(n.queue[q].ready, 1, k)]
  BY DEF Batch, NetType, InQueue
<1>2. Batch(n, e).got[e] = n.got[e] \o SubSeq(n.queue[q].ready, 1, k)
  BY <1>0, <1>1, Zenon
<1> QED
  BY <1>2, Zenon DEF Cat

\* All there is is read: it is what was sent next.
LEMMA BatchFine ==
    ASSUME NEW n, Sound(n), Reads(n, "sock"), kind = "PUB"
    PROVE  Fine(n, Batch(n, "sock"))
<1> DEFINE m == Batch(n, "sock")
           q == n.end["sock"].in
           r == n.queue[q].ready
           k == Whole(r)
           d == Due(n.end["sock"].read, AllRead(n, "sock"))
<1>0. "sock" \in End /\ Peer("sock") = "sess" /\ Peer("sess") = "sock" /\ "sess" \in End
  BY DEF End, Peer
<1>q. /\ n \in NetType /\ q \in DOMAIN n.queue
      /\ n.got["sock"] \in Seq(Frame) /\ n.sent["sess"] \in Seq(Frame)
      /\ r \in Seq(Frame)
  BY <1>0, InFacts
<1>1. /\ m \in NetType
      /\ m.sent = n.sent /\ m.mail["sock"] = n.mail["sock"]
      /\ d \in Seq(Cmd) /\ Reported(d, n.end["sock"].read, AllRead(n, "sock"))
      /\ m.mail["sess"] = Cat(n.mail["sess"], d)
      /\ m.got["sess"] = n.got["sess"]
      /\ m.end["sess"] = n.end["sess"]
      /\ m.end["sock"].state = n.end["sock"].state
      /\ Points(m.end["sock"], n.end["sock"]) /\ Flags(m.end["sock"], n.end["sock"])
      /\ m.end["sock"].written = n.end["sock"].written
      /\ m.end["sock"].peersRead = n.end["sock"].peersRead
  BY <1>0, <1>q, BatchEffect
<1>2. /\ DOMAIN m.queue = DOMAIN n.queue
      /\ \A p \in DOMAIN n.queue : p # q => m.queue[p] = n.queue[p]
      /\ m.queue[q].part = n.queue[q].part
  BY <1>0, <1>q, BatchEffect
<1>3. m.got["sock"] = Cat(n.got["sock"], SubSeq(r, 1, k)) /\ m.queue[q].ready = Beyond(r, k)
  <2>1. m.got["sock"] = Cat(n.got["sock"], SubSeq(r, 1, k))
    BY <1>0, <1>q, BatchGot
  <2>2. m.queue[q].ready = Beyond(r, k)
    BY <1>0, <1>q, BatchEffect
  <2> QED
    BY <2>1, <2>2
<1>r. r = n.queue[q].ready /\ k = Whole(r) /\ q = n.end["sock"].in
  OBVIOUS
<1>b. Behind(n.mail["sess"]) => Behind(m.mail["sess"])
  BY <1>q, <1>1, BatchBehind DEF Reported
<1> HIDE DEF m, r, k, d, q
<1>4. Thin(n) => Thin(m)
  BY DEF Thin
<1>5. ASSUME NEW b \in BOOLEAN, NEW f \in BOOLEAN, NEW c \in BOOLEAN, Wire(n, "sess", b, f, c)
      PROVE  Wire(m, "sess", b, f, c)
  <2>0. Line(n, Peer("sock"))
    BY <1>0, <1>5 DEF Wire
  <2>1. /\ Streams(n, "sess") /\ n.end["sess"].out \in {NULL, q}
        /\ Queued("sess", n.got["sock"], n.sent["sess"], r)
        /\ n.end["sess"].state = "none" => n.sent["sess"] = <<>>
        /\ n.end["sess"].state \in Undelimited => \A i \in DOMAIN r : r[i] # DELIMITER
        /\ Stream("sess", n.got["sock"])
    BY <1>0, <1>r, <2>0, LineFacts
  <2>2. /\ Queued("sess", Cat(n.got["sock"], SubSeq(r, 1, k)), n.sent["sess"], Beyond(r, k))
        /\ Stream("sess", Cat(n.got["sock"], SubSeq(r, 1, k)))
        /\ Len(Cat(n.got["sock"], SubSeq(r, 1, k))) <= Len(n.sent["sess"])
    BY <1>q, <1>r, <2>1, QueuedAll
  <2>3. Streams(m, "sess")
    BY <1>0, <1>1, <1>3, <2>1, <2>2, StreamsRead
  <2>4. Awake(m, "sess", "sock")
    BY DEF Awake, Frames
  <2>5. n.end["sess"].state \in Undelimited => \A i \in DOMAIN Beyond(r, k) : Beyond(r, k)[i] # DELIMITER
    <3> SUFFICES ASSUME n.end["sess"].state \in Undelimited
                 PROVE \A i \in DOMAIN Beyond(r, k) : Beyond(r, k)[i] # DELIMITER
      OBVIOUS
    <3>1. \A i \in DOMAIN r : r[i] # DELIMITER
      BY <2>1
    <3>2. k = Len(r)
      BY <1>q, <1>r, <3>1, WholeRead
    <3>3. Beyond(r, k) = <<>>
      BY <1>q, <3>2 DEF Beyond
    <3> QED
      BY <3>3
  <2>6. Line(m, "sess")
    <3>1. q = m.end["sock"].in
      BY <1>1, <1>r DEF Points
    <3>2. Queued("sess", m.got["sock"], m.sent["sess"], m.queue[q].ready)
      BY <1>1, <1>3, <2>2
    <3>3. /\ m.end["sess"].out \in {NULL, q}
          /\ m.end["sess"].state = "none" => m.sent["sess"] = <<>>
          /\ m.end["sess"].state \in Undelimited =>
                \A i \in DOMAIN m.queue[q].ready : m.queue[q].ready[i] # DELIMITER
      BY <1>1, <1>3, <2>1, <2>5
    <3> QED
      BY <1>0, <2>3, <2>4, <3>1, <3>2, <3>3, LineIntro
  <2>7. Began(m, "sess", b)
    <3>1. Began(n, "sess", b) /\ First(m, "sess") = First(n, "sess")
      BY <1>1, <1>5 DEF Wire, First
    <3>2. n.end["sess"].state = "active" => n.end["sess"].out \in DOMAIN n.queue
      BY <1>0, ActiveOut
    <3> QED
      BY <1>1, <1>2, <3>1, <3>2 DEF Began
  <2>8. f => Loyal(m, "sock", c)
    BY <1>0, <1>1, <1>5 DEF Wire, Loyal, Reads, Flags
  <2> QED
    BY <1>0, <2>6, <2>7, <2>8 DEF Wire
<1>6. GoodKept(n, m, "sess")
  BY <1>5 DEF GoodKept, Good
<1>7. Fine(n, m)
  <2>1. m.end["sock"].out = n.end["sock"].out /\ m.end["sock"].outActive = n.end["sock"].outActive
    BY <1>1 DEF Points, Flags
  <2>2. \A p \in DOMAIN n.queue : p # n.end["sock"].in => m.queue[p] = n.queue[p]
    BY <1>2, <1>r
  <2> QED
    BY <1>0, <1>1, <1>2, <1>4, <1>6, <1>b, <2>1, <2>2, FineIntro
<1> QED
  BY <1>7 DEF m

\* Reading all there is is fine,
LEMMA ReadAllFine ==
    ASSUME NEW n, Layer(n), kind = "PUB"
    PROVE  Fine(n, ReadAll(n, "sock"))
<1>0. "sock" \in End /\ Sound(n)
  BY DEF End, Layer
<1>1. CASE ~CanRead(n, "sock")
  BY <1>1, ReadAllBatch, FineReflexive
<1>2. CASE CanRead(n, "sock")
  <2>1. Reads(n, "sock")
    BY <1>2 DEF CanRead, Reads
  <2>2. Fine(n, Batch(n, "sock")) /\ Sound(Batch(n, "sock"))
    BY <1>0, <2>1, BatchFine, BatchLayer DEF Layer
  <2>3. Fine(Batch(n, "sock"), Read(Batch(n, "sock"), "sock"))
    BY <1>0, <2>2, ReadFine
  <2>4. Fine(n, Read(Batch(n, "sock"), "sock"))
    BY <2>2, <2>3, FineTransitive
  <2> QED
    BY <1>2, <2>4, ReadAllBatch
<1> QED
  BY <1>1, <1>2

\* and so is process_activate_read.
LEMMA ActivatedFine ==
    ASSUME NEW n, Layer(n), NEW e \in End
    PROVE  Fine(n, Activated(n, e))
<1>1. Fine(n, CheckRead(n, e))
  BY CheckReadFine DEF Layer
<1>2. kind = "PUB" => Fine(n, ReadAll(n, "sock"))
  BY ReadAllFine
<1> QED
  BY <1>1, <1>2, FineReflexive DEF Activated

------------------------------------------------------------------------------
(* Commands to an end *)

\* process_activate_write: a writer that has room keeps it.
LEMMA CreditFine ==
    ASSUME NEW n, Layer(n), NEW e \in End, n.mail[e] # <<>>, Head(n.mail[e])[1] = "activate_write"
    PROVE  LET r == [n EXCEPT !.mail[e] = Tail(@)]
           IN Fine(n, Credited(r, e, Head(n.mail[e])[2], n.end[e].state = "active"))
<1> DEFINE r == [n EXCEPT !.mail[e] = Tail(@)]
           a == Head(n.mail[e])[2]
           b == n.end[e].state = "active"
           m == Credited(r, e, a, b)
<1>0. Sound(n) /\ n \in NetType /\ Peer(e) \in End /\ Peer(Peer(e)) = e
  BY Ends DEF Layer, Sound
<1>1. n.mail[e] \in Seq(Cmd) /\ Head(n.mail[e]) \in Cmd /\ a \in Nat
  <2>1. n.mail[e] \in Seq(Cmd)
    BY <1>0, NetFields
  <2>2. Head(n.mail[e]) \in Cmd
    BY <2>1
  <2> QED
    BY <2>1, <2>2 DEF Cmd
<1>2. Fine(n, r) /\ r \in NetType /\ r.end = n.end /\ r.queue = n.queue
  <2>1. Fine(n, r)
    BY <1>0, RestCalm, CalmFine
  <2>2. r \in NetType /\ r.end = n.end /\ r.queue = n.queue
    BY <1>0, TakenEffect
  <2> QED
    BY <2>1, <2>2
<1>3. b => n.end[e].peersRead <= a
  <2> SUFFICES ASSUME b PROVE n.end[e].peersRead <= a
    OBVIOUS
  <2>1. FlowInv(n, e)
    BY DEF Layer, Flows, End
  <2>2. Reports(n.mail[e], n.end[e].peersRead, n.end[Peer(e)].read)
    BY <2>1 DEF FlowInv, Settled
  <2>3. 1 \in DOMAIN n.mail[e] /\ n.mail[e][1] = Head(n.mail[e])
    BY <1>1
  <2> QED
    BY <2>2, <2>3 DEF Reports
<1>4. b \in BOOLEAN
  OBVIOUS
<1> HIDE DEF r, a
<1>5. /\ m \in NetType
      /\ m.queue = r.queue /\ m.mail = r.mail /\ m.sent = r.sent /\ m.got = r.got
      /\ m.end[Peer(e)] = r.end[Peer(e)]
      /\ m.end[e].state = r.end[e].state
      /\ m.end[e].inActive = r.end[e].inActive /\ m.end[e].delay = r.end[e].delay
      /\ Points(m.end[e], r.end[e])
      /\ m.end[e].written = r.end[e].written /\ m.end[e].peersRead = a
  <2>0. r \in NetType /\ e \in End /\ a \in Nat /\ b \in BOOLEAN
    BY <1>1, <1>2, <1>4
  <2> HIDE DEF b
  <2>1. /\ m \in NetType
        /\ m.queue = r.queue /\ m.mail = r.mail /\ m.sent = r.sent /\ m.got = r.got
        /\ m.end[Peer(e)] = r.end[Peer(e)]
    BY <2>0, CreditEffect
  <2>2. /\ m.end[e].state = r.end[e].state
        /\ m.end[e].inActive = r.end[e].inActive /\ m.end[e].delay = r.end[e].delay
        /\ Points(m.end[e], r.end[e])
        /\ m.end[e].written = r.end[e].written /\ m.end[e].peersRead = a
    BY <2>0, CreditEffect
  <2> QED
    BY <2>1, <2>2
<1>6. m.end[e].outActive = (r.end[e].outActive \/ b)
  <2>1. r.end \in [End -> EndType]
    BY <1>2, NetFields
  <2>2. m.end = [r.end EXCEPT ![e] = [r.end[e] EXCEPT !.peersRead = a, !.outActive = @ \/ b]]
    <3>1. r.end[e] \in EndType
      BY <2>1
    <3> QED
      BY <1>2, <2>1, <3>1 DEF Credited, NetType, EndType
  <2>3. m.end[e] = [r.end[e] EXCEPT !.peersRead = a, !.outActive = @ \/ b]
    BY <2>1, <2>2
  <2>4. r.end[e] \in EndType
    BY <2>1
  <2> QED
    BY <2>3, <2>4 DEF EndType
<1> HIDE DEF m, b
<1>7. Watch(r, m, e, Peer(e)) /\ Stays(r, m, Peer(e))
  BY <1>5 DEF Watch, Stays, Reads, Points
<1>8. Watch(r, m, Peer(e), e) /\ Stays(r, m, e)
  BY <1>5 DEF Watch, Stays, Reads, Points
<1>9. \A x \in End : GoodKept(r, m, x)
  <2>1. GoodKept(r, m, e)
    BY <1>7, WatchGood DEF GoodKept
  <2>2. GoodKept(r, m, Peer(e))
    BY <1>0, <1>8, WatchGood DEF GoodKept
  <2> QED
    BY <2>1, <2>2, Ends
<1>10. (Thin(r) => Thin(m)) /\ (Short(r) => Short(m))
  BY <1>5 DEF Thin, Short
<1>11. e = "sock" \/ Peer(e) = "sock"
  BY DEF End, Peer
<1>12. Open(m, "sock") => Open(r, "sock")
  BY <1>5, <1>11 DEF Open
<1>13. Room(r) => Room(m)
  <2>1. CASE Peer(e) = "sock"
    BY <1>5, <2>1 DEF Room, Full
  <2>2. CASE e = "sock"
    <3> SUFFICES ASSUME Room(r), m.end[e].state = "active" PROVE m.end[e].outActive /\ ~Full(m, e)
      BY <2>2 DEF Room
    <3>1. b /\ r.end[e].outActive /\ ~Full(r, e)
      BY <1>2, <1>5, <2>2 DEF Room, b
    <3>2. m.end[e].outActive
      BY <1>6, <3>1
    <3>3. r.end[e].peersRead <= a /\ r.end[e].written \in Int /\ r.end[e].peersRead \in Nat /\ HWM \in Nat
      BY <1>2, <1>3, <3>1, NetFields, EndFields, PipeAssumption
    <3>4. ~Full(m, e)
      BY <1>1, <1>5, <3>1, <3>3 DEF Full
    <3> QED
      BY <3>2, <3>4
  <2> QED
    BY <1>11, <2>1, <2>2
<1>14. Fine(r, m)
  BY <1>5, <1>9, <1>10, <1>12, <1>13 DEF Fine
<1>15. Fine(n, m)
  BY <1>2, <1>14, FineTransitive
<1> QED
  BY <1>15 DEF m, r, a, b

\* process_pipe_term_ack: an end that is deleted had stopped reading.
LEMMA DeallocateFine ==
    ASSUME NEW n, NEW e \in End, Ending(n, e)
    PROVE  Fine(n, Deallocate(n, e))
<1> DEFINE m == Deallocate(n, e)
           q == n.end[e].in
<1>0. n \in NetType /\ q \in DOMAIN n.queue /\ Peer(e) \in End /\ Peer(Peer(e)) = e
  BY Ends DEF Ending, RefInv
<1>1. /\ m \in NetType
      /\ m.sent = n.sent /\ m.got = n.got
      /\ m.mail[e] = n.mail[e]
      /\ m.mail[Peer(e)] \in {n.mail[Peer(e)], Append(n.mail[Peer(e)], <<"pipe_term_ack", 0>>)}
      /\ m.end[Peer(e)] = n.end[Peer(e)]
      /\ m.end[e].state = "deleted" /\ m.end[e].in = q
      /\ m.end[e].out \in {NULL, n.end[e].out}
      /\ Flags(m.end[e], n.end[e])
  <2>0. n \in NetType /\ q \in DOMAIN n.queue /\ q = n.end[e].in
    BY <1>0
  <2> HIDE DEF q
  <2>1. /\ m \in NetType
        /\ m.sent = n.sent /\ m.got = n.got
        /\ m.mail[e] = n.mail[e]
        /\ m.end[Peer(e)] = n.end[Peer(e)]
    BY <2>0, DeallocateEffect
  <2>2. /\ m.end[e].state = "deleted" /\ m.end[e].in = q
        /\ Flags(m.end[e], n.end[e])
    BY <2>0, DeallocateEffect
  <2>3. m.mail[Peer(e)] = IF n.end[e].state = "term_req_sent1"
                          THEN Append(n.mail[Peer(e)], <<"pipe_term_ack", 0>>) ELSE n.mail[Peer(e)]
    BY <2>0, DeallocateEffect
  <2>4. m.end[e].out = IF n.end[e].state = "term_req_sent1" THEN NULL ELSE n.end[e].out
    BY <2>0, DeallocateEffect
  <2> HIDE DEF m
  <2> QED
    BY <2>1, <2>2, <2>3, <2>4
<1>2. /\ DOMAIN m.queue = DOMAIN n.queue
      /\ m.queue[q].ready = <<>> /\ m.queue[q].part = <<>>
      /\ \A p \in DOMAIN n.queue : p # q => m.queue[p] = n.queue[p]
  BY <1>0, DeallocateEffect
<1>3. /\ n.end[e].state \in {"term_req_sent1", "term_req_sent2", "term_ack_sent"}
      /\ n.end[Peer(e)].state \in Silent /\ n.end[Peer(e)].out = NULL
  BY DEF Ending
<1> HIDE DEF m, q
<1>4. Watch(n, m, e, Peer(e)) /\ Stays(n, m, Peer(e))
  BY <1>1, <1>3 DEF Watch, Stays, Reads, Silent, Undelimited
<1>5. Watch(n, m, Peer(e), e) /\ Stays(n, m, e)
  BY <1>0, <1>1, <1>3 DEF Watch, Stays, Reads, Silent, Undelimited, Flags, q
<1>6. \A x \in End : GoodKept(n, m, x)
  <2>1. GoodKept(n, m, e)
    BY <1>4, WatchGood DEF GoodKept
  <2>2. GoodKept(n, m, Peer(e))
    BY <1>0, <1>5, WatchGood DEF GoodKept
  <2> QED
    BY <2>1, <2>2, Ends
<1>7. Thin(n) => Thin(m)
  <2>1. Plain(<<>>)
    BY DEF Plain
  <2>2. ASSUME NEW p \in DOMAIN m.queue \ {1}, Plain(n.queue[p].ready), Plain(n.queue[p].part)
        PROVE  Plain(m.queue[p].ready) /\ Plain(m.queue[p].part)
    BY <1>2, <2>1, <2>2
  <2> QED
    BY <1>1, <1>2, <2>2 DEF Thin
<1>8. Short(n) => Short(m)
  BY <1>0, <1>1, <1>2, LenSame
<1>9. e = "sock" \/ Peer(e) = "sock"
  BY DEF End, Peer
<1>10. (Open(m, "sock") => Open(n, "sock")) /\ (Room(n) => Room(m))
  BY <1>1, <1>9 DEF Open, Room, Full
<1>11. Behind(n.mail["sess"]) => Behind(m.mail["sess"])
  BY <1>0, <1>1, AckBehind
<1>12. Fine(n, m)
  BY <1>1, <1>6, <1>7, <1>8, <1>10, <1>11 DEF Fine
<1> QED
  BY <1>12 DEF m

\* An end that need not wait for the delimiter stops reading.
LEMMA StopReading ==
    ASSUME NEW n, Sound(n), NEW e \in End, n.end[e].state = "active", ~n.end[e].delay
    PROVE  Fine(n, Acknowledge(n, e, "term_ack_sent"))
<1> DEFINE m == Acknowledge(n, e, "term_ack_sent")
<1>0. n \in NetType /\ Peer(e) \in End /\ Peer(Peer(e)) = e /\ "term_ack_sent" \in States
  BY Ends DEF Sound, States
<1>1. /\ m \in NetType /\ m.queue = n.queue /\ m.sent = n.sent /\ m.got = n.got
      /\ m.mail[e] = n.mail[e]
      /\ m.mail[Peer(e)] = Append(n.mail[Peer(e)], <<"pipe_term_ack", 0>>)
      /\ m.end[Peer(e)] = n.end[Peer(e)]
      /\ m.end[e].state = "term_ack_sent" /\ m.end[e].in = n.end[e].in /\ m.end[e].out = NULL
      /\ Flags(m.end[e], n.end[e])
  BY <1>0, AcknowledgeEffect
<1> HIDE DEF m
<1>2. Watch(n, m, e, Peer(e)) /\ Stays(n, m, Peer(e))
  BY <1>1 DEF Watch, Stays, Reads, Undelimited
<1>3. Watch(n, m, Peer(e), e)
  BY <1>0, <1>1 DEF Watch, Reads, Undelimited
<1>4. ASSUME NEW b \in BOOLEAN, NEW f \in BOOLEAN, NEW c \in BOOLEAN, Good(n, Peer(e), b, f, c)
      PROVE  Good(m, Peer(e), b, f, c)
  <2>1. CASE Peer(e) = "sock" /\ kind = "SUB"
    BY <2>1 DEF Good
  <2>2. CASE Wire(n, Peer(e), b, f, c)
    <3>1. ~f
      BY <1>0, <2>2 DEF Wire, Loyal
    <3>2. Line(n, Peer(e)) /\ Began(n, Peer(e), b)
      BY <2>2 DEF Wire
    <3>3. Line(m, Peer(e)) /\ Began(m, Peer(e), b)
      BY <1>0, <1>3, <3>2, WatchLine, WatchBegan
    <3> QED
      BY <3>1, <3>3 DEF Good, Wire
  <2> QED
    BY <1>4, <2>1, <2>2 DEF Good
<1>5. \A x \in End : GoodKept(n, m, x)
  <2>1. GoodKept(n, m, e)
    BY <1>2, WatchGood DEF GoodKept
  <2>2. GoodKept(n, m, Peer(e))
    BY <1>4 DEF GoodKept
  <2> QED
    BY <2>1, <2>2, Ends
<1>6. (Thin(n) => Thin(m)) /\ (Short(n) => Short(m))
  BY <1>1 DEF Thin, Short
<1>7. e = "sock" \/ Peer(e) = "sock"
  BY DEF End, Peer
<1>8. (Open(m, "sock") => Open(n, "sock")) /\ (Room(n) => Room(m))
  BY <1>1, <1>7 DEF Open, Room, Full
<1>9. Behind(n.mail["sess"]) => Behind(m.mail["sess"])
  BY <1>0, <1>1, AckBehind
<1>10. Fine(n, m)
  BY <1>1, <1>5, <1>6, <1>8, <1>9 DEF Fine
<1> QED
  BY <1>10 DEF m

\* process_pipe_term.
LEMMA AnswerFine ==
    ASSUME NEW n, Both(n), NEW e \in End, n.mail[e] # <<>>, Head(n.mail[e])[1] = "pipe_term"
    PROVE  Fine(n, Answer([n EXCEPT !.mail[e] = Tail(@)], e))
<1> DEFINE r == [n EXCEPT !.mail[e] = Tail(@)]
<1>0. n \in NetType /\ Sound(n)
  BY BothSound DEF Both, PairInv
<1>1. Calm(n, r) /\ r.end = n.end
  BY <1>0, RestCalm, TakenEffect
<1> HIDE DEF r
<1>2. Sound(r) /\ Fine(n, r) /\ r \in NetType
  <2>1. Route(n, r)
    BY <1>1 DEF Calm, Still
  <2> QED
    BY <1>0, <1>1, <2>1, RouteSound, CalmFine DEF Sound
<1>3. n.end[e].state \in Unasked
  <2>1. EndInv(n, e) /\ EndInv(n, Peer(e)) /\ Peer(Peer(e)) = e /\ Peer(e) \in End
    BY EndFacts DEF Both
  <2>2. n.end[e].state \in States /\ n.end[Peer(e)].state \in States
    BY <1>0, <2>1, NetFields, EndFields
  <2>3. n.mail[e] \in Seq(Cmd) /\ n.mail[Peer(e)] \in Seq(Cmd)
    BY <1>0, <2>1, NetFields
  <2>4. /\ EndOK(e, n.end[e].state, n.end[Peer(e)].state, n.end[e].out, n.mail[Peer(e)])
        /\ EndOK(Peer(e), n.end[Peer(e)].state, n.end[e].state, n.end[Peer(e)].out, n.mail[e])
    BY <2>1 DEF EndInv
  <2> QED
    BY <2>2, <2>3, <2>4, AskedOK
<1>4. r.end[e].state \in {"active", "delimiter_received", "term_req_sent1"}
  BY <1>1, <1>3 DEF Unasked
<1>5. Fine(r, Answer(r, e))
  <2>1. CASE r.end[e].state = "active" /\ r.end[e].delay
    BY <1>2, <2>1, WaitCalm, CalmFine DEF Answer
  <2>2. CASE r.end[e].state = "active" /\ ~r.end[e].delay
    BY <1>2, <2>2, StopReading DEF Answer
  <2>3. CASE r.end[e].state = "term_req_sent1"
    <3>1. Answer(r, e) = Acknowledge(r, e, "term_req_sent2")
      BY <2>3 DEF Answer
    <3>2. "term_req_sent2" \in Silent /\ ~Reads(r, e) /\ r.end[e].state # "none"
      BY <2>3 DEF Silent, Reads
    <3> QED
      BY <1>2, <3>1, <3>2, AcknowledgeCalm, CalmFine
  <2>4. CASE r.end[e].state = "delimiter_received"
    <3>1. Answer(r, e) = Acknowledge(r, e, "term_ack_sent")
      BY <2>4 DEF Answer
    <3>2. "term_ack_sent" \in Silent /\ ~Reads(r, e) /\ r.end[e].state # "none"
      BY <2>4 DEF Silent, Reads
    <3> QED
      BY <1>2, <3>1, <3>2, AcknowledgeCalm, CalmFine
  <2> QED
    BY <1>4, <2>1, <2>2, <2>3, <2>4
<1>6. Fine(n, Answer(r, e))
  BY <1>2, <1>5, FineTransitive
<1> QED
  BY <1>6 DEF r

------------------------------------------------------------------------------
(* Writing *)

\* The end e writes to the queue q: what that leaves as it is.
Filling(n, m, e, q) ==
    /\ m \in NetType /\ m.got = n.got /\ m.sent[Peer(e)] = n.sent[Peer(e)]
    /\ m.mail[e] = n.mail[e]
    /\ m.mail[Peer(e)] \in {n.mail[Peer(e)], Append(n.mail[Peer(e)], <<"activate_read", 0>>)}
    /\ m.end[Peer(e)] = n.end[Peer(e)] /\ m.end[e].state = n.end[e].state
    /\ m.end[e].in = n.end[e].in /\ m.end[e].out = q
    /\ m.end[e].inActive = n.end[e].inActive /\ m.end[e].outActive = n.end[e].outActive
    /\ m.end[e].delay = n.end[e].delay /\ m.end[e].peersRead = n.end[e].peersRead
    /\ DOMAIN m.queue = DOMAIN n.queue
    /\ \A p \in DOMAIN n.queue : p # q => m.queue[p] = n.queue[p]

\* A message is counted.
LEMMA CountFilling ==
    ASSUME NEW n \in NetType, NEW e \in End, NEW x \in Int, NEW q \in DOMAIN n.queue, q = n.end[e].out
    PROVE  LET k == [n EXCEPT !.end[e].written = @ + x]
           IN /\ Filling(n, k, e, q) /\ k \in NetType /\ k.sent = n.sent /\ k.queue = n.queue
              /\ q \in DOMAIN k.queue /\ q = k.end[e].out
              /\ k.end[e].written = n.end[e].written + x
<1> DEFINE k == [n EXCEPT !.end[e].written = @ + x]
<1>1. /\ k \in NetType
      /\ k.queue = n.queue /\ k.mail = n.mail /\ k.sent = n.sent /\ k.got = n.got
      /\ k.end[Peer(e)] = n.end[Peer(e)]
  BY CountEffect
<1>2. /\ k.end[e].state = n.end[e].state
      /\ Points(k.end[e], n.end[e]) /\ Flags(k.end[e], n.end[e])
      /\ k.end[e].peersRead = n.end[e].peersRead
      /\ k.end[e].written = n.end[e].written + x
  BY CountEffect
<1> HIDE DEF k
<1>3. Filling(n, k, e, q)
  BY <1>1, <1>2 DEF Filling, Points, Flags
<1>4. q \in DOMAIN k.queue /\ q = k.end[e].out
  BY <1>1, <1>2 DEF Points
<1> QED
  BY <1>1, <1>2, <1>3, <1>4 DEF k

\* Two parts of one write.
LEMMA FillingAgain ==
    ASSUME NEW n, NEW k, NEW m, NEW e, NEW q, Filling(n, k, e, q), m \in NetType,
           m.end = k.end, m.got = k.got, m.mail[e] = k.mail[e], k.mail[Peer(e)] = n.mail[Peer(e)],
           m.mail[Peer(e)] \in {k.mail[Peer(e)], Append(k.mail[Peer(e)], <<"activate_read", 0>>)},
           m.sent[Peer(e)] = k.sent[Peer(e)],
           DOMAIN m.queue = DOMAIN k.queue, \A p \in DOMAIN k.queue : p # q => m.queue[p] = k.queue[p]
    PROVE  Filling(n, m, e, q)
BY DEF Filling

\* The first frame of a message is written.
LEMMA WritePart ==
    ASSUME NEW n \in NetType, NEW e \in End, NEW frame \in Frame, More(frame), CanWrite(n, e),
           NEW q \in DOMAIN n.queue, q = n.end[e].out
    PROVE  LET m == Write(n, e, frame)
           IN /\ Filling(n, m, e, q) /\ m.sent = n.sent /\ m.end[e].written = n.end[e].written
              /\ m.queue[q].part = Append(n.queue[q].part, frame)
              /\ m.queue[q].ready = n.queue[q].ready
<1> DEFINE k == [n EXCEPT !.end[e].written = @ + 0]
           m == Put(k, e, frame)
<1>1. /\ Filling(n, k, e, q) /\ k \in NetType /\ k.sent = n.sent /\ k.queue = n.queue
      /\ q \in DOMAIN k.queue /\ q = k.end[e].out /\ k.mail = n.mail
      /\ k.end[e].written = n.end[e].written + 0
  <2>1. 0 \in Int
    OBVIOUS
  <2>2. k.mail = n.mail
    BY <2>1, CountEffect
  <2> QED
    BY <2>1, <2>2, CountFilling
<1>2. n.end[e].written \in Int
  BY NetFields, EndFields
<1>3. Write(n, e, frame) = m
  BY DEF Write
<1> HIDE DEF k
<1>4. /\ m \in NetType
      /\ m.end = k.end /\ m.got = k.got /\ m.mail = k.mail /\ m.sent = k.sent
      /\ DOMAIN m.queue = DOMAIN k.queue
      /\ \A p \in DOMAIN k.queue : p # q => m.queue[p] = k.queue[p]
  BY <1>1, PutPart
<1>5. m.queue[q].part = Append(k.queue[q].part, frame) /\ m.queue[q].ready = k.queue[q].ready
  BY <1>1, PutPart, Zenon
<1> HIDE DEF m
<1>6. Filling(n, m, e, q)
  BY <1>1, <1>4, FillingAgain
<1>7. m.end[e].written = n.end[e].written
  BY <1>1, <1>2, <1>4
<1> QED
  BY <1>1, <1>3, <1>4, <1>5, <1>6, <1>7, Zenon

\* The last frame of a message is written, and flushed.
LEMMA WriteFlush ==
    ASSUME NEW n \in NetType, NEW e \in End, NEW frame \in Frame, ~More(frame), frame # DELIMITER, CanWrite(n, e),
           NEW q \in DOMAIN n.queue, q = n.end[e].out
    PROVE  LET m == Write(n, e, frame)
               all == Append(n.queue[q].part, frame)
           IN /\ Filling(n, m, e, q) /\ all \in Seq(Frame)
              /\ m.sent[e] = Cat(n.sent[e], all)
              /\ m.queue[q].part = <<>>
              /\ m.queue[q].ready = Cat(n.queue[q].ready, all)
<1> DEFINE x == 1
           k == [n EXCEPT !.end[e].written = @ + x]
           m == Put(k, e, frame)
           all == Append(n.queue[q].part, frame)
<1>1. /\ Filling(n, k, e, q) /\ k \in NetType /\ k.sent = n.sent /\ k.queue = n.queue
      /\ q \in DOMAIN k.queue /\ q = k.end[e].out /\ k.mail = n.mail
  <2>1. x \in Int
    OBVIOUS
  <2> HIDE DEF x
  <2>2. k.mail = n.mail
    BY <2>1, CountEffect
  <2>3. /\ Filling(n, k, e, q) /\ k \in NetType /\ k.sent = n.sent /\ k.queue = n.queue
        /\ q \in DOMAIN k.queue /\ q = k.end[e].out
    BY <2>1, CountFilling
  <2> QED
    BY <2>2, <2>3
<1>3. Write(n, e, frame) = m
  BY DEF Write
<1> HIDE DEF k
<1>4. /\ m \in NetType
      /\ m.end = k.end /\ m.got = k.got /\ m.mail[e] = k.mail[e]
      /\ m.sent[Peer(e)] = k.sent[Peer(e)]
      /\ DOMAIN m.queue = DOMAIN k.queue
      /\ \A p \in DOMAIN k.queue : p # q => m.queue[p] = k.queue[p]
  BY <1>1, PutFlush, Zenon
<1>5. \/ m.mail[Peer(e)] = k.mail[Peer(e)]
      \/ m.mail[Peer(e)] = Append(k.mail[Peer(e)], <<"activate_read", 0>>)
  BY <1>1, PutFlush
<1>6. m.queue[q].part = <<>>
  BY <1>1, PutFlush
<1>7. Append(k.queue[q].part, frame) \in Seq(Frame)
  BY <1>1, PutFlush, Zenon
<1>8. m.queue[q].ready = k.queue[q].ready \o Append(k.queue[q].part, frame)
  BY <1>1, PutFlush, Zenon
<1>9. m.sent[e] = k.sent[e] \o Append(k.queue[q].part, frame)
  BY <1>1, PutFlush
<1> HIDE DEF m
<1>10. Filling(n, m, e, q)
  BY <1>1, <1>4, <1>5, FillingAgain
<1>11. m.queue[q].ready = Cat(n.queue[q].ready, all) /\ m.sent[e] = Cat(n.sent[e], all) /\ all \in Seq(Frame)
  BY <1>1, <1>7, <1>8, <1>9, Zenon DEF Cat
<1> QED
  BY <1>3, <1>6, <1>10, <1>11

\* A write that fails.
LEMMA WriteFull ==
    ASSUME NEW n, Sound(n), NEW e \in End, NEW frame, ~CanWrite(n, e)
    PROVE  Fine(n, Write(n, e, frame))
<1> DEFINE m == CheckWrite(n, e)
<1>0. n \in NetType /\ Peer(e) \in End /\ Peer(Peer(e)) = e
  BY Ends DEF Sound
<1>1. Write(n, e, frame) = m
  BY DEF Write
<1>2. /\ m \in NetType
      /\ m.queue = n.queue /\ m.mail = n.mail /\ m.sent = n.sent /\ m.got = n.got
      /\ m.end[Peer(e)] = n.end[Peer(e)]
      /\ m.end[e].state = n.end[e].state
      /\ m.end[e].inActive = n.end[e].inActive /\ m.end[e].delay = n.end[e].delay
      /\ Points(m.end[e], n.end[e]) /\ Counters(m.end[e], n.end[e])
  BY <1>0, CheckWriteEffect
<1>3. n.end[e].outActive /\ ~Full(n, e) => m.end[e].outActive
  <2> DEFINE b == ~(n.end[e].state = "active" /\ Full(n, e))
  <2>1. n.end \in [End -> EndType]
    BY <1>0, NetFields
  <2>2. m.end = [n.end EXCEPT ![e] = [n.end[e] EXCEPT !.outActive = @ /\ b]]
    <3>1. n.end[e] \in EndType
      BY <2>1
    <3> QED
      BY <1>0, <2>1, <3>1 DEF CheckWrite, NetType, EndType
  <2> HIDE DEF b, m
  <2>3. m.end[e] = [n.end[e] EXCEPT !.outActive = @ /\ b]
    BY <2>1, <2>2
  <2>4. n.end[e] \in EndType
    BY <2>1
  <2>5. m.end[e].outActive = (n.end[e].outActive /\ b)
    BY <2>3, <2>4 DEF EndType
  <2> QED
    BY <2>5 DEF b
<1> HIDE DEF m
<1>4. Watch(n, m, e, Peer(e)) /\ Stays(n, m, Peer(e))
  BY <1>2 DEF Watch, Stays, Reads, Points
<1>5. Watch(n, m, Peer(e), e) /\ Stays(n, m, e)
  BY <1>2 DEF Watch, Stays, Reads, Points
<1>6. \A x \in End : GoodKept(n, m, x)
  <2>1. GoodKept(n, m, e)
    BY <1>4, WatchGood DEF GoodKept
  <2>2. GoodKept(n, m, Peer(e))
    BY <1>0, <1>5, WatchGood DEF GoodKept
  <2> QED
    BY <2>1, <2>2, Ends
<1>7. (Thin(n) => Thin(m)) /\ (Short(n) => Short(m))
  BY <1>2 DEF Thin, Short
<1>8. e = "sock" \/ Peer(e) = "sock"
  BY DEF End, Peer
<1>9. Open(m, "sock") => Open(n, "sock")
  BY <1>2, <1>8 DEF Open
<1>10. Room(n) => Room(m)
  BY <1>2, <1>3, <1>8 DEF Room, Full, Counters
<1>11. Fine(n, m)
  BY <1>2, <1>6, <1>7, <1>9, <1>10 DEF Fine
<1> QED
  BY <1>1, <1>11

\* What the end e keeps of the layer when it writes: all but its own line.
Half(n, m, e) ==
    /\ GoodKept(n, m, Peer(e))
    /\ Thin(n) => Thin(m)
    /\ Short(n) => Short(m)
    /\ m.sent[Peer(e)] = n.sent[Peer(e)]
    /\ Open(m, "sock") => Open(n, "sock")
    /\ e = "sess" => (Room(n) => Room(m))
    /\ Behind(n.mail["sess"]) => Behind(m.mail["sess"])

\* A reader is woken.
LEMMA NoiseBehind ==
    ASSUME NEW n \in NetType, NEW m \in NetType, NEW e \in End, m.mail[e] = n.mail[e],
           m.mail[Peer(e)] \in {n.mail[Peer(e)], Append(n.mail[Peer(e)], <<"activate_read", 0>>)}
    PROVE  Behind(n.mail["sess"]) => Behind(m.mail["sess"])
<1>1. "sess" \in End /\ n.mail["sess"] \in Seq(Cmd) /\ (e = "sess" \/ Peer(e) = "sess")
  BY NetFields DEF End, Peer
<1>2. <<"activate_read", 0>> \in Cmd /\ <<"activate_read", 0>>[1] # "pipe_term"
  BY DEF Cmd, PipeTypes
<1> QED
  BY <1>1, <1>2, BehindFacts

\* A write keeps all but the writer's line.
LEMMA FillingHalf ==
    ASSUME NEW n, Sound(n), NEW e \in End, NEW q \in DOMAIN n.queue, q = n.end[e].out,
           n.end[e].state = "active", NEW m, Filling(n, m, e, q),
           kind = "SUB" /\ e = "sock" /\ Thin(n) => Plain(m.queue[q].ready) /\ Plain(m.queue[q].part)
    PROVE  Half(n, m, e)
<1>0. n \in NetType /\ m \in NetType /\ Peer(e) \in End /\ Peer(Peer(e)) = e
  BY Ends DEF Sound, Filling
<1>1. q # NULL /\ n.end[e].in # q
  BY ActiveOut, Apart
<1>2. Watch(n, m, Peer(e), e) /\ Stays(n, m, e)
  <2>1. n.end[Peer(e)].state = "active" => n.end[Peer(e)].out # q /\ n.end[Peer(e)].out \in DOMAIN n.queue
    BY <1>0, <1>1, ActiveOut, Apart
  <2>2. m.end[Peer(e)].state = "active" =>
          m.queue[n.end[Peer(e)].out].part = n.queue[n.end[Peer(e)].out].part
    BY <2>1 DEF Filling
  <2>3. n.end[e].in \in DOMAIN n.queue
    BY DEF Sound, RefInv
  <2>4. m.queue[n.end[e].in].ready = n.queue[n.end[e].in].ready
    BY <1>1, <2>3 DEF Filling
  <2> QED
    BY <1>0, <2>2, <2>4 DEF Watch, Stays, Reads, Filling
<1>3. GoodKept(n, m, Peer(e))
  BY <1>0, <1>2, WatchGood DEF GoodKept
<1>4. Thin(n) => Thin(m)
  <2> SUFFICES ASSUME Thin(n), kind = "SUB" PROVE Thin(m)
    BY DEF Thin
  <2>1. ASSUME NEW p \in DOMAIN m.queue \ {1} PROVE Plain(m.queue[p].ready) /\ Plain(m.queue[p].part)
    <3>1. CASE p # q
      BY <2>1, <3>1 DEF Filling, Thin
    <3>2. CASE p = q
      <4>1. e = "sock"
        BY <1>1, <2>1, <3>2 DEF Sound, End
      <4> QED
        BY <3>2, <4>1
    <3> QED
      BY <3>1, <3>2
  <2>2. Plain(m.got["sess"])
    BY DEF Filling, Thin
  <2> QED
    BY <2>1, <2>2 DEF Thin
<1>5. Short(n) => Short(m)
  <2>1. DOMAIN m.queue = DOMAIN n.queue
    BY DEF Filling
  <2> QED
    BY <1>0, <2>1, LenSame
<1>6. e = "sock" \/ Peer(e) = "sock"
  BY DEF End, Peer
<1>7. Open(m, "sock") => Open(n, "sock")
  BY <1>6 DEF Open, Filling
<1>8. e = "sess" => (Room(n) => Room(m))
  BY <1>0 DEF Room, Filling, Full, Peer
<1>9. m.mail[e] = n.mail[e] /\ m.mail[Peer(e)] \in {n.mail[Peer(e)], Append(n.mail[Peer(e)], <<"activate_read", 0>>)}
  BY DEF Filling
<1>10. Behind(n.mail["sess"]) => Behind(m.mail["sess"])
  BY <1>0, <1>9, NoiseBehind
<1> QED
  BY <1>3, <1>4, <1>5, <1>7, <1>8, <1>10 DEF Half, Filling

\* What the line from the writer e says of its queue.
LEMMA OutFacts ==
    ASSUME NEW n, Sound(n), NEW e \in End, n.end[e].state = "active", NEW q, q = n.end[e].out, Line(n, e)
    PROVE  /\ q = n.end[Peer(e)].in /\ q \in DOMAIN n.queue /\ n \in NetType
           /\ n.queue[q].ready \in Seq(Frame) /\ n.queue[q].part \in Seq(Frame)
           /\ n.sent[e] \in Seq(Frame) /\ n.got[Peer(e)] \in Seq(Frame)
           /\ Streams(n, e)
           /\ Reads(n, Peer(e)) => /\ Queued(e, n.got[Peer(e)], n.sent[e], n.queue[q].ready)
                                   /\ Awake(n, e, Peer(e))
           /\ \A i \in DOMAIN n.queue[q].ready : n.queue[q].ready[i] # DELIMITER
<1>1. q # NULL /\ q \in DOMAIN n.queue /\ n \in NetType /\ Peer(e) \in End
  BY ActiveOut, Ends DEF Sound
<1>2. q = n.end[Peer(e)].in
  BY <1>1 DEF Line, LineTo
<1>3. n.queue[q] \in QueueType /\ n.sent[e] \in Seq(Frame) /\ n.got[Peer(e)] \in Seq(Frame)
  BY <1>1, NetFields
<1>4. "active" \in Undelimited
  BY DEF Undelimited
<1> QED
  BY <1>1, <1>2, <1>3, <1>4, QueueFields DEF Line, LineTo

\* The first frame begins a message, and the rest will fit.
LEMMA FirstWritten ==
    ASSUME NEW n, Sound(n), NEW e \in End, CanWrite(n, e), Frames(e) = 2,
           NEW f \in BOOLEAN, NEW c \in BOOLEAN, Good(n, e, FALSE, f, c)
    PROVE  LET m == Write(n, e, First(n, e))
           IN Good(m, e, TRUE, f, c) /\ Half(n, m, e) /\ m.sent = n.sent /\ m \in NetType
              /\ (e = "sock" => Room(m))
<1> DEFINE m == Write(n, e, First(n, e))
           q == n.end[e].out
           P == Peer(e)
<1>0. /\ n \in NetType /\ P \in End /\ Peer(P) = e /\ n.end[e].state = "active"
      /\ n.end[e].outActive /\ ~Full(n, e) /\ q \in DOMAIN n.queue /\ q = n.end[e].out
  BY ActiveOut, Ends DEF Sound, CanWrite
<1>1. ~(e = "sock" /\ kind = "SUB")
  BY DEF Frames, Connects
<1>2. Line(n, e) /\ Began(n, e, FALSE) /\ (f => Loyal(n, P, c))
  BY <1>1 DEF Good, Wire
<1>3. First(n, e) \in Frame /\ More(First(n, e))
  BY <1>0, MessageFrames DEF First, More
<1>4. /\ Filling(n, m, e, q) /\ m.sent = n.sent /\ m.end[e].written = n.end[e].written
      /\ m.queue[q].part = Append(n.queue[q].part, First(n, e))
      /\ m.queue[q].ready = n.queue[q].ready
  BY <1>0, <1>3, WritePart, Zenon
<1> HIDE DEF m, q
<1>5. Half(n, m, e)
  BY <1>0, <1>1, <1>4, FillingHalf, Zenon
<1>6. q = n.end[P].in /\ Streams(n, e)
  BY <1>0, <1>2, OutFacts
<1>7. m.end[P] = n.end[P] /\ m.end[e].state = n.end[e].state /\ m.end[e].out = q /\ m.got = n.got
      /\ m.end[e].outActive = n.end[e].outActive /\ m.end[e].peersRead = n.end[e].peersRead /\ m \in NetType
  BY <1>4 DEF Filling
<1>8. Line(m, e)
  <2>1. m.end[P].in = q /\ Reads(m, P) = Reads(n, P)
    BY <1>6, <1>7 DEF Reads
  <2>2. Streams(m, e) /\ (Awake(n, e, P) => Awake(m, e, P))
    BY <1>4, <1>6, <1>7, Zenon DEF Streams, Awake
  <2>3. LineTo(n, e, P, n.queue[q].ready)
    BY <1>2, <1>6 DEF Line
  <2>4. LineTo(m, e, P, m.queue[q].ready)
    BY <1>4, <1>6, <1>7, <2>1, <2>2, <2>3, Zenon DEF LineTo
  <2> QED
    BY <2>1, <2>4 DEF Line
<1>9. Began(m, e, TRUE)
  <2>1. n.queue[q].part = <<>>
    BY <1>0, <1>2 DEF Began, q
  <2>2. m.queue[q].part = <<First(n, e)>>
    BY <1>4, <2>1
  <2>3. First(m, e) = First(n, e)
    BY <1>4 DEF First
  <2> QED
    BY <1>7, <2>2, <2>3 DEF Began
<1>10. f => Loyal(m, P, c)
  BY <1>0, <1>2, <1>4, <1>7, Zenon DEF Loyal, Reads
<1>11. e = "sock" => Room(m)
  BY <1>0, <1>4, <1>7, Zenon DEF Room, Full
<1>12. Good(m, e, TRUE, f, c)
  BY <1>8, <1>9, <1>10 DEF Good, Wire
<1> QED
  BY <1>4, <1>5, <1>7, <1>11, <1>12 DEF m

\* The last frame of the message that the end e writes.
Closing(n, e) == IF Frames(e) = 2 THEN Final(n, e) ELSE First(n, e)

\* The last frame, whichever it is.
LEMMA ClosingFacts ==
    ASSUME NEW n \in NetType, NEW e \in End
    PROVE  /\ Closing(n, e) \in Frame /\ Closing(n, e) # DELIMITER /\ ~More(Closing(n, e))
           /\ Closing(n, e) = <<Count(n.sent[e]) + 1, FALSE>>
<1>1. Closing(n, e) \in Frame /\ Closing(n, e) # DELIMITER
  BY MessageNotDelimiter DEF Closing
<1>2. CASE Frames(e) = 2
  BY <1>1, <1>2 DEF Closing, Final, More
<1>3. CASE Frames(e) # 2
  <2>1. (Frames(e) = 2) = FALSE
    BY <1>3
  <2>2. Closing(n, e) = <<Count(n.sent[e]) + 1, Frames(e) = 2>>
    BY <1>3 DEF Closing, First
  <2>3. Closing(n, e) = <<Count(n.sent[e]) + 1, FALSE>>
    BY <2>1, <2>2
  <2>4. Closing(n, e)[2] = FALSE
    BY <2>3
  <2>5. ~More(Closing(n, e))
    BY <2>4 DEF More
  <2> QED
    BY <1>1, <2>3, <2>5
<1> QED
  BY <1>2, <1>3

\* A message that is flushed is the next.
LEMMA MessageStamped ==
    ASSUME NEW n \in NetType, NEW e \in End, Streams(n, e), NEW part,
           part = IF Frames(e) = 2 THEN <<First(n, e)>> ELSE <<>>,
           NEW all, all = Append(part, Closing(n, e))
    PROVE  /\ all \in Seq(Frame) /\ part \in Seq(Frame) /\ \A i \in DOMAIN part : More(part[i])
           /\ Stamped(e, n.sent[e], all) /\ \A i \in DOMAIN all : all[i] # DELIMITER
           /\ Len(all) = IF Frames(e) = 2 THEN 2 ELSE 1
<1> DEFINE s == n.sent[e]
           c == Count(s)
<1>1. s \in Seq(Frame) /\ c \in Nat /\ Len(s) \in Nat
  BY NetFields, CountNat
<1>2. Len(s) = IF Frames(e) = 2 THEN c + c ELSE c
  BY DEF Streams
<1>3. /\ Closing(n, e) \in Frame /\ Closing(n, e) # DELIMITER
      /\ Closing(n, e) = <<c + 1, FALSE>>
  BY ClosingFacts
<1>4. First(n, e) \in Frame /\ First(n, e) # DELIMITER
  BY MessageNotDelimiter
<1>5. First(n, e) = <<c + 1, Frames(e) = 2>>
  BY DEF First
<1> HIDE DEF s, c
<1>6. CASE Frames(e) = 2
  <2>1. part = <<First(n, e)>>
    BY <1>6
  <2>2. (Frames(e) = 2) = TRUE
    BY <1>6
  <2>3. First(n, e) = <<c + 1, TRUE>>
    BY <1>5, <2>2
  <2>4. FrameAt(e, c + c + 1) = <<c + 1, TRUE>> /\ FrameAt(e, c + c + 2) = <<c + 1, FALSE>>
    BY <1>1, <1>6, FrameFacts
  <2>5. Len(s) + 1 = c + c + 1 /\ Len(s) + 2 = c + c + 2
    BY <1>1, <1>2, <1>6
  <2>6. DOMAIN all = {1, 2} /\ Len(all) = 2 /\ all[1] = First(n, e) /\ all[2] = Closing(n, e)
    <3>1. part \in Seq(Frame) /\ Len(part) = 1 /\ part[1] = First(n, e)
      BY <1>4, <2>1
    <3>2. \A f \in Frame : /\ Len(Append(part, f)) = 2 /\ Append(part, f)[1] = First(n, e)
                            /\ Append(part, f)[2] = f /\ DOMAIN Append(part, f) = {1, 2}
      BY <3>1
    <3> QED
      BY <1>3, <3>2, Zenon
  <2>7. Stamped(e, s, all)
    <3>1. all[1] = FrameAt(e, Len(s) + 1)
      BY <2>3, <2>4, <2>5, <2>6
    <3>2. all[2] = FrameAt(e, Len(s) + 2)
      BY <1>3, <2>4, <2>5, <2>6
    <3> QED
      BY <2>6, <3>1, <3>2 DEF Stamped
  <2>8. More(First(n, e))
    BY <2>3 DEF More
  <2>9. \A i \in DOMAIN part : More(part[i])
    BY <2>1, <2>8
  <2>10. \A i \in DOMAIN all : all[i] # DELIMITER
    BY <1>3, <1>4, <2>6
  <2>11. part \in Seq(Frame)
    BY <1>4, <2>1
  <2>12. all \in Seq(Frame)
    BY <1>3, <2>11
  <2> QED
    BY <1>6, <2>6, <2>7, <2>9, <2>10, <2>11, <2>12 DEF s
<1>7. CASE Frames(e) # 2
  <2>1. all = <<Closing(n, e)>> /\ part = <<>>
    BY <1>7
  <2>2. c + 1 \in Nat
    BY <1>1
  <2>3. FrameAt(e, c + 1) = <<c + 1, FALSE>>
    BY <1>7, <2>2, FrameFacts
  <2>4. DOMAIN all = {1} /\ Len(all) = 1 /\ all[1] = Closing(n, e)
    BY <2>1
  <2>5. Stamped(e, s, all)
    <3>1. all[1] = FrameAt(e, Len(s) + 1)
      BY <1>2, <1>3, <1>7, <2>3, <2>4
    <3> QED
      BY <2>4, <3>1 DEF Stamped
  <2>6. \A i \in DOMAIN all : all[i] # DELIMITER
    BY <1>3, <2>4
  <2>7. all \in Seq(Frame) /\ part \in Seq(Frame) /\ \A i \in DOMAIN part : More(part[i])
    BY <1>3, <2>1
  <2> QED
    BY <1>7, <2>4, <2>5, <2>6, <2>7 DEF s
<1> QED
  BY <1>6, <1>7

\* It is one message.
LEMMA CountCat ==
    ASSUME NEW s \in Seq(Frame), NEW part \in Seq(Frame), \A i \in DOMAIN part : More(part[i]),
           NEW f \in Frame, ~More(f)
    PROVE  Count(Cat(s, Append(part, f))) = Count(s) + 1
BY CountMessage DEF Cat

\* The last frame ends a message.
LEMMA LastWritten ==
    ASSUME NEW n, Sound(n), NEW e \in End, CanWrite(n, e), NEW b \in BOOLEAN, b <=> Frames(e) = 2,
           NEW f \in BOOLEAN, Good(n, e, b, f, FALSE)
    PROVE  LET m == Write(n, e, Closing(n, e))
           IN Good(m, e, FALSE, f, FALSE) /\ Half(n, m, e) /\ m \in NetType
<1> DEFINE m == Write(n, e, Closing(n, e))
           q == n.end[e].out
           P == Peer(e)
           part == n.queue[q].part
           ready == n.queue[q].ready
           all == Append(part, Closing(n, e))
<1>0. /\ n \in NetType /\ P \in End /\ Peer(P) = e /\ n.end[e].state = "active"
      /\ q \in DOMAIN n.queue /\ q = n.end[e].out
  BY ActiveOut, Ends DEF Sound, CanWrite
<1>1. Closing(n, e) \in Frame /\ Closing(n, e) # DELIMITER /\ ~More(Closing(n, e))
  BY <1>0, ClosingFacts
<1>2. /\ Filling(n, m, e, q) /\ all \in Seq(Frame)
      /\ m.sent[e] = Cat(n.sent[e], all)
      /\ m.queue[q].part = <<>>
      /\ m.queue[q].ready = Cat(ready, all)
  BY <1>0, <1>1, WriteFlush
<1>3. ready \in Seq(Frame) /\ part \in Seq(Frame)
  BY <1>0, NetFields, QueueFields
<1>u. all = Append(part, Closing(n, e)) /\ part = n.queue[q].part /\ ready = n.queue[q].ready
  OBVIOUS
<1> HIDE DEF m, q, part, ready, all
<1>4. Half(n, m, e)
  <2>1. kind = "SUB" /\ e = "sock" /\ Thin(n) => Plain(m.queue[q].ready) /\ Plain(m.queue[q].part)
    <3> SUFFICES ASSUME kind = "SUB", e = "sock", Thin(n) PROVE Plain(m.queue[q].ready) /\ Plain(m.queue[q].part)
      OBVIOUS
    <3>1. q \in DOMAIN n.queue \ {1}
      BY <1>0 DEF Sound
    <3>2. Plain(ready) /\ Plain(part) /\ Plain(<<>>)
      BY <1>u, <3>1 DEF Thin, Plain
    <3>3. Plain(all)
      BY <1>1, <1>3, <1>u, <3>2 DEF Plain
    <3>4. Plain(ready \o all)
      BY <1>2, <1>3, <3>2, <3>3 DEF Plain
    <3> QED
      BY <1>2, <3>2, <3>4 DEF Cat
  <2> QED
    BY <1>0, <1>2, <2>1, FillingHalf
<1>5. /\ m.end[P] = n.end[P] /\ m.end[e].state = n.end[e].state /\ m.end[e].out = q /\ m.got = n.got
      /\ m \in NetType
  BY <1>2 DEF Filling
<1>6. CASE e = "sock" /\ kind = "SUB"
  BY <1>4, <1>5, <1>6 DEF Good, m
<1>7. CASE Wire(n, e, b, f, FALSE)
  <2>1. Line(n, e) /\ Began(n, e, b) /\ (f => Loyal(n, P, FALSE))
    BY <1>7, Zenon DEF Wire
  <2>2. /\ q = n.end[P].in
        /\ n.sent[e] \in Seq(Frame) /\ n.got[P] \in Seq(Frame)
        /\ Streams(n, e)
        /\ Reads(n, P) => Queued(e, n.got[P], n.sent[e], ready) /\ Awake(n, e, P)
        /\ \A i \in DOMAIN ready : ready[i] # DELIMITER
    BY <1>0, <1>u, <2>1, OutFacts, Zenon
  <2>3. part = IF Frames(e) = 2 THEN <<First(n, e)>> ELSE <<>>
    BY <1>0, <1>u, <2>1 DEF Began, q
  <2>4. /\ \A i \in DOMAIN part : More(part[i])
        /\ Stamped(e, n.sent[e], all) /\ \A i \in DOMAIN all : all[i] # DELIMITER
        /\ Len(all) = IF Frames(e) = 2 THEN 2 ELSE 1
    BY <1>0, <1>u, <2>2, <2>3, MessageStamped, Zenon
  <2>5. Count(m.sent[e]) = Count(n.sent[e]) + 1 /\ Count(n.sent[e]) \in Nat
    <3>1. Count(Cat(n.sent[e], all)) = Count(n.sent[e]) + 1
      BY <1>1, <1>3, <1>u, <2>2, <2>4, CountCat, Zenon
    <3> QED
      BY <1>2, <2>2, <3>1, CountNat
  <2>6. Stream(e, m.sent[e]) /\ Len(m.sent[e]) = Len(n.sent[e]) + Len(all)
    <3>1. Stream(e, n.sent[e])
      BY <2>2 DEF Streams
    <3>2. /\ Stream(e, Cat(n.sent[e], all))
          /\ Len(Cat(n.sent[e], all)) = Len(n.sent[e]) + Len(all)
      BY <1>2, <2>2, <2>4, <3>1, StreamGrown
    <3> QED
      BY <1>2, <3>2
  <2>7. Streams(m, e)
    <3>1. Len(n.sent[e]) = IF Frames(e) = 2 THEN Count(n.sent[e]) + Count(n.sent[e]) ELSE Count(n.sent[e])
      BY <2>2 DEF Streams
    <3>2. Len(m.sent[e]) = IF Frames(e) = 2 THEN Count(m.sent[e]) + Count(m.sent[e]) ELSE Count(m.sent[e])
      BY <2>4, <2>5, <2>6, <3>1
    <3>3. Stream(e, m.got[P]) /\ Len(n.got[P]) <= Len(n.sent[e])
      BY <1>5, <2>2 DEF Streams
    <3>4. Len(m.got[P]) <= Len(m.sent[e])
      <4>1. Len(n.got[P]) \in Nat /\ Len(n.sent[e]) \in Nat /\ Len(all) \in Nat
        BY <1>2, <2>2
      <4>2. m.got[P] = n.got[P]
        BY <1>5
      <4> QED
        BY <2>6, <3>3, <4>1, <4>2
    <3> QED
      BY <2>6, <3>2, <3>3, <3>4 DEF Streams
  <2>8. Reads(m, P) => Queued(e, m.got[P], m.sent[e], m.queue[q].ready) /\ Awake(m, e, P)
    <3> SUFFICES ASSUME Reads(m, P) PROVE Queued(e, m.got[P], m.sent[e], m.queue[q].ready) /\ Awake(m, e, P)
      OBVIOUS
    <3>1. Reads(n, P)
      BY <1>5 DEF Reads
    <3>2. Queued(e, n.got[P], n.sent[e], ready) /\ Awake(n, e, P)
      BY <2>2, <3>1
    <3>3. Queued(e, n.got[P], Cat(n.sent[e], all), Cat(ready, all))
      BY <1>2, <1>3, <2>2, <2>4, <3>2, QueuedSent
    <3>4. m.got[P] = n.got[P]
      BY <1>5
    <3>5. Awake(m, e, P)
      BY <1>5, <3>2, <3>4 DEF Awake
    <3> QED
      BY <1>2, <3>3, <3>4, <3>5
  <2>9. \A i \in DOMAIN m.queue[q].ready : m.queue[q].ready[i] # DELIMITER
    <3>1. \A i \in DOMAIN (ready \o all) : (ready \o all)[i] # DELIMITER
      BY <1>2, <1>3, <2>2, <2>4
    <3> QED
      BY <1>2, <3>1 DEF Cat
  <2>10. Line(m, e)
    <3>1. m.end[P].in = q
      BY <1>5, <2>2
    <3>2. m.end[e].state # "none"
      BY <1>0, <1>5
    <3>3. LineTo(m, e, P, m.queue[q].ready)
      BY <1>5, <2>7, <2>8, <2>9, <3>1, <3>2 DEF LineTo
    <3> QED
      BY <3>1, <3>3 DEF Line
  <2>11. Began(m, e, FALSE)
    BY <1>2, <1>5 DEF Began
  <2>12. f => Loyal(m, P, FALSE)
    <3> SUFFICES ASSUME f PROVE Loyal(m, P, FALSE)
      OBVIOUS
    <3>1. Loyal(n, P, FALSE)
      BY <2>1
    <3>2. n.end[P].delay /\ (n.end[P].state = "none" \/ Reads(n, P))
      BY <1>0, <3>1 DEF Loyal
    <3>3. m.end[P].delay /\ (m.end[P].state = "none" \/ Reads(m, P))
      BY <1>5, <3>2 DEF Reads
    <3> QED
      BY <3>3 DEF Loyal
  <2>13. Good(m, e, FALSE, f, FALSE)
    BY <2>10, <2>11, <2>12 DEF Good, Wire
  <2> QED
    BY <1>4, <1>5, <2>13 DEF m
<1> QED
  BY <1>6, <1>7 DEF Good

------------------------------------------------------------------------------
(* Taking back, and the end of a line *)

\* What rollback changes: no more than an unfinished message.
LEMMA RollbackKept ==
    ASSUME NEW n, Sound(n), NEW e \in End
    PROVE  LET m == Rollback(n, e)
           IN /\ m \in NetType /\ m.end = n.end /\ m.mail = n.mail /\ m.sent = n.sent /\ m.got = n.got
              /\ DOMAIN m.queue = DOMAIN n.queue
              /\ \A p \in DOMAIN n.queue : p # n.end[e].out => m.queue[p] = n.queue[p]
              /\ n.end[e].out \in DOMAIN n.queue =>
                    m.queue[n.end[e].out].part = <<>> /\ m.queue[n.end[e].out].ready = n.queue[n.end[e].out].ready
<1>1. n \in NetType /\ n.end[e].out \in {NULL} \cup DOMAIN n.queue
  BY DEF Sound, RefInv
<1>2. CASE n.end[e].out = NULL
  <2>1. NULL \notin DOMAIN n.queue
    BY <1>1, NetFields DEF NULL
  <2> QED
    BY <1>1, <1>2, <2>1 DEF Rollback
<1>3. CASE n.end[e].out # NULL
  <2> DEFINE q == n.end[e].out
             m == Rollback(n, e)
  <2>1. q \in DOMAIN n.queue
    BY <1>1, <1>3
  <2>2. /\ m \in NetType
        /\ m.end = n.end /\ m.mail = n.mail /\ m.sent = n.sent /\ m.got = n.got
        /\ DOMAIN m.queue = DOMAIN n.queue
        /\ \A p \in DOMAIN n.queue : p # q => m.queue[p] = n.queue[p]
        /\ m.queue[q].part = <<>> /\ m.queue[q].ready = n.queue[q].ready
    BY <1>1, <1>3, <2>1, RollbackEffect
  <2> QED
    BY <2>2
<1> QED
  BY <1>2, <1>3

\* A message that is not begun.
LEMMA NotBegun ==
    ASSUME NEW n, NEW e \in End, n.end[e].state # "active",
           NEW b \in BOOLEAN, NEW f \in BOOLEAN, NEW c \in BOOLEAN, Good(n, e, b, f, c)
    PROVE  Good(n, e, FALSE, f, c)
BY DEF Good, Wire, Began

\* rollback takes a message back.
LEMMA RolledBack ==
    ASSUME NEW n, Sound(n), NEW e \in End,
           NEW b \in BOOLEAN, NEW f \in BOOLEAN, NEW c \in BOOLEAN, Good(n, e, b, f, c)
    PROVE  Good(Rollback(n, e), e, FALSE, f, c)
<1> DEFINE m == Rollback(n, e)
           q == n.end[e].out
<1>1. /\ m.end = n.end /\ m.sent = n.sent /\ m.got = n.got
      /\ DOMAIN m.queue = DOMAIN n.queue
      /\ \A p \in DOMAIN n.queue : p # q => m.queue[p] = n.queue[p]
      /\ q \in DOMAIN n.queue => m.queue[q].part = <<>> /\ m.queue[q].ready = n.queue[q].ready
  BY RollbackKept
<1> HIDE DEF m
<1>2. n.end[Peer(e)].in \in DOMAIN n.queue
  BY Ends DEF Sound, RefInv
<1> HIDE DEF q
<1>3. m.queue[n.end[Peer(e)].in].ready = n.queue[n.end[Peer(e)].in].ready
  BY <1>1, <1>2
<1>4. CASE e = "sock" /\ kind = "SUB"
  BY <1>4 DEF Good, m
<1>5. CASE Wire(n, e, b, f, c)
  <2>1. Line(m, e)
    <3> DEFINE r == n.queue[n.end[Peer(e)].in].ready
    <3>1. LineTo(n, e, Peer(e), r)
      BY <1>5 DEF Wire, Line
    <3> HIDE DEF r
    <3>2. Streams(m, e)
      BY <1>1, <3>1 DEF LineTo, Streams
    <3>3. Reads(m, Peer(e)) => Queued(e, m.got[Peer(e)], m.sent[e], r) /\ Awake(m, e, Peer(e))
      BY <1>1, <3>1 DEF LineTo, Reads, Awake
    <3>4. LineTo(m, e, Peer(e), r)
      BY <1>1, <3>1, <3>2, <3>3 DEF LineTo
    <3> QED
      BY <1>1, <1>3, <3>4 DEF Line, r
  <2>2. Began(m, e, FALSE)
    <3> SUFFICES ASSUME m.end[e].state = "active" PROVE m.queue[m.end[e].out].part = <<>>
      BY DEF Began
    <3>1. q \in DOMAIN n.queue
      BY <1>1, ActiveOut DEF q
    <3> QED
      BY <1>1, <3>1 DEF q
  <2>3. f => Loyal(m, Peer(e), c)
    BY <1>1, <1>5 DEF Wire, Loyal, Reads
  <2> QED
    BY <2>1, <2>2, <2>3 DEF Good, Wire, m
<1> QED
  BY <1>4, <1>5 DEF Good

\* The other end does not see it, nor does the rest of the layer.
LEMMA RollbackHalf ==
    ASSUME NEW n, Sound(n), NEW e \in End
    PROVE  /\ GoodKept(n, Rollback(n, e), Peer(e)) /\ Sound(Rollback(n, e))
           /\ Thin(n) => Thin(Rollback(n, e))
           /\ Short(n) => Short(Rollback(n, e))
           /\ Rollback(n, e).sent = n.sent /\ Rollback(n, e).end = n.end /\ Rollback(n, e).mail = n.mail
<1> DEFINE m == Rollback(n, e)
           q == n.end[e].out
<1>1. /\ m \in NetType /\ m.end = n.end /\ m.mail = n.mail /\ m.sent = n.sent /\ m.got = n.got
      /\ DOMAIN m.queue = DOMAIN n.queue
      /\ \A p \in DOMAIN n.queue : p # q => m.queue[p] = n.queue[p]
      /\ q \in DOMAIN n.queue => m.queue[q].part = <<>> /\ m.queue[q].ready = n.queue[q].ready
  BY RollbackKept
<1>2. Still(n, m)
  BY RollbackStill
<1>3. Peer(e) \in End /\ Peer(Peer(e)) = e /\ n \in NetType
  BY Ends DEF Sound
<1> HIDE DEF m
<1>4. Watch(n, m, Peer(e), e) /\ Stays(n, m, e)
  <2>1. n.end[Peer(e)].state = "active" => n.end[Peer(e)].out # q /\ n.end[Peer(e)].out \in DOMAIN n.queue
    BY <1>3, ActiveOut, Apart
  <2>2. m.queue[n.end[e].in].ready = n.queue[n.end[e].in].ready
    BY <1>2 DEF Still, Sound, RefInv
  <2>3. m.end[Peer(e)].state = "active" =>
          m.queue[n.end[Peer(e)].out].part = n.queue[n.end[Peer(e)].out].part
    BY <1>1, <2>1
  <2> QED
    BY <1>1, <2>2, <2>3 DEF Watch, Stays, Reads
<1>5. GoodKept(n, m, Peer(e))
  BY <1>3, <1>4, WatchGood DEF GoodKept
<1>6. Sound(m) /\ (Thin(n) => Thin(m)) /\ (Short(n) => Short(m))
  BY <1>1, <1>2, <1>3, RouteSound, StillThin, LenSame DEF Still
<1> QED
  BY <1>1, <1>5, <1>6 DEF m

\* What terminate does to the lines.
Terminated(n, m, e) ==
    /\ m \in NetType /\ m.sent = n.sent /\ m.got = n.got /\ m.end[Peer(e)] = n.end[Peer(e)]
    /\ m.end[e].in = n.end[e].in /\ m.end[e].out \in {NULL, n.end[e].out}
    /\ m.end[e].state \notin {"none", "active", "delimiter_received"}
    /\ m.end[e].inActive = n.end[e].inActive
    /\ Reads(m, e) => Reads(n, e)
    /\ DOMAIN m.queue = DOMAIN n.queue
    /\ \A p \in DOMAIN n.queue : p # n.end[e].out => m.queue[p] = n.queue[p]
    /\ n.end[e].out \in DOMAIN n.queue =>
         /\ m.queue[n.end[e].out].part \in {n.queue[n.end[e].out].part, <<>>}
         /\ \/ m.queue[n.end[e].out].ready = n.queue[n.end[e].out].ready
            \/ /\ m.queue[n.end[e].out].ready = Append(n.queue[n.end[e].out].ready, DELIMITER)
               /\ n.end[e].state \in Undelimited \/ ~Reads(n, Peer(e))

\* The line from the end that terminates.
LEMMA TerminatedLine ==
    ASSUME NEW n, Sound(n), NEW e \in End, NEW m, Terminated(n, m, e), Line(n, e)
    PROVE  Line(m, e)
<1> DEFINE i == n.end[Peer(e)].in
           q == n.end[e].out
<1>1. /\ i \in DOMAIN n.queue /\ n \in NetType /\ Peer(e) \in End
      /\ n.queue[i].ready \in Seq(Frame) /\ n.sent[e] \in Seq(Frame) /\ n.got[Peer(e)] \in Seq(Frame)
  BY Ends, NetFields, QueueFields DEF Sound, RefInv
<1>2. LineTo(n, e, Peer(e), n.queue[i].ready)
  BY DEF Line
<1> HIDE DEF i, q
<1>3. /\ m.end[Peer(e)].in = i /\ m.end[e].out \in {NULL, i} /\ m.end[e].state \notin Undelimited
      /\ m.end[e].state # "none"
  BY <1>2, Zenon DEF Terminated, LineTo, Undelimited, i
<1>4. Streams(m, e)
  BY <1>2, Zenon DEF Terminated, LineTo, Streams
<1>5. Reads(m, Peer(e)) <=> Reads(n, Peer(e))
  BY DEF Terminated, Reads
<1>6. Reads(n, Peer(e)) => Queued(e, n.got[Peer(e)], n.sent[e], n.queue[i].ready) /\ Awake(n, e, Peer(e))
  BY <1>2 DEF LineTo
<1>7. Reads(n, Peer(e)) => Awake(m, e, Peer(e))
  BY <1>6, Zenon DEF Terminated, Awake
<1>8. Reads(n, Peer(e)) => Queued(e, n.got[Peer(e)], n.sent[e], m.queue[i].ready)
  <2>1. CASE m.queue[i].ready = n.queue[i].ready
    BY <1>6, <2>1
  <2>2. CASE m.queue[i].ready # n.queue[i].ready
    <3>1. i = q
      BY <1>1, <2>2, Zenon DEF Terminated, q
    <3>2. /\ m.queue[i].ready = Append(n.queue[i].ready, DELIMITER)
          /\ n.end[e].state \in Undelimited \/ ~Reads(n, Peer(e))
      BY <1>1, <2>2, <3>1, Zenon DEF Terminated, q
    <3>3. n.end[e].state \in Undelimited => \A j \in DOMAIN n.queue[i].ready : n.queue[i].ready[j] # DELIMITER
      BY <1>2 DEF LineTo
    <3> QED
      BY <1>1, <1>6, <3>2, <3>3, QueuedDelimited
  <2> QED
    BY <2>1, <2>2
<1>9. LineTo(m, e, Peer(e), m.queue[i].ready)
  <2>1. m.got[Peer(e)] = n.got[Peer(e)] /\ m.sent[e] = n.sent[e]
    BY DEF Terminated
  <2> QED
    BY <1>3, <1>4, <1>5, <1>7, <1>8, <2>1 DEF LineTo
<1> QED
  BY <1>3, <1>9 DEF Line

\* All but the reader's promise is kept, for either line.
Cut(n, m, e) ==
    /\ \A b, f, c \in BOOLEAN : Good(n, e, b, f, c) => Good(m, e, FALSE, f, c)
    /\ \A b, f, c \in BOOLEAN : Good(n, Peer(e), b, f, c) => Good(m, Peer(e), b, FALSE, c)
    /\ Thin(n) => Thin(m)
    /\ Short(n) => Short(m)
    /\ m.sent = n.sent
    /\ Room(n) => Room(m)

\* Where the reader has read all, its promise is kept too.
Heeds(n, m, e) ==
    \A b, c \in BOOLEAN :
        /\ Good(n, Peer(e), b, TRUE, c)
        /\ n.end[e].state = "active" => /\ Len(n.got[e]) = Len(n.sent[Peer(e)])
                                        /\ n.end[Peer(e)].state # "active" \/ c
        => Good(m, Peer(e), b, TRUE, c)

\* What terminate leaves of both lines.
LEMMA TerminatedCut ==
    ASSUME NEW n, Sound(n), NEW e \in End, NEW m, Terminated(n, m, e)
    PROVE  /\ Cut(n, m, e)
           /\ m.end[e].delay /\ (Reads(n, e) /\ n.end[e].state # "active" => Reads(m, e)) /\ n.end[e].state # "none"
                => Heeds(n, m, e)
<1>0. n \in NetType /\ m \in NetType /\ Peer(e) \in End /\ Peer(Peer(e)) = e
  BY Ends, Zenon DEF Sound, Terminated
<1>1. Watch(n, m, Peer(e), e)
  <2>1. n.end[Peer(e)].state = "active" => n.end[Peer(e)].out # n.end[e].out /\ n.end[Peer(e)].out \in DOMAIN n.queue
    BY <1>0, ActiveOut, Apart
  <2>2. n.end[e].in \in DOMAIN n.queue /\ n.end[e].in # n.end[e].out
    BY <1>0, Apart
  <2>3. m.end[Peer(e)].state = "active" =>
          m.queue[n.end[Peer(e)].out].part = n.queue[n.end[Peer(e)].out].part
    BY <2>1 DEF Terminated
  <2>4. m.queue[n.end[e].in].ready = n.queue[n.end[e].in].ready
    BY <2>2 DEF Terminated
  <2> QED
    BY <2>3, <2>4, Zenon DEF Terminated, Watch
<1>2. ASSUME NEW b \in BOOLEAN, NEW f \in BOOLEAN, NEW c \in BOOLEAN, Good(n, e, b, f, c)
      PROVE  Good(m, e, FALSE, f, c)
  <2>1. CASE e = "sock" /\ kind = "SUB"
    BY <2>1 DEF Good
  <2>2. CASE Wire(n, e, b, f, c)
    <3>1. Line(m, e)
      BY <2>2, TerminatedLine DEF Wire
    <3>2. Began(m, e, FALSE)
      BY Zenon DEF Began, Terminated
    <3>3. f => Loyal(m, Peer(e), c)
      BY <1>0, <2>2 DEF Wire, Loyal, Terminated, Reads
    <3> QED
      BY <3>1, <3>2, <3>3 DEF Good, Wire
  <2> QED
    BY <1>2, <2>1, <2>2 DEF Good
<1>3. ASSUME NEW b \in BOOLEAN, NEW f \in BOOLEAN, NEW c \in BOOLEAN, Wire(n, Peer(e), b, f, c)
      PROVE  Line(m, Peer(e)) /\ Began(m, Peer(e), b)
  BY <1>0, <1>1, <1>3, WatchLine, WatchBegan DEF Wire
<1>4. \A b, f, c \in BOOLEAN : Good(n, Peer(e), b, f, c) => Good(m, Peer(e), b, FALSE, c)
  BY <1>3 DEF Good, Wire
<1>5. Thin(n) => Thin(m)
  <2> SUFFICES ASSUME Thin(n), kind = "SUB" PROVE Thin(m)
    BY DEF Thin
  <2>1. ASSUME NEW p \in DOMAIN m.queue \ {1} PROVE Plain(m.queue[p].ready) /\ Plain(m.queue[p].part)
    <3>0. p \in DOMAIN n.queue \ {1}
      BY <2>1 DEF Terminated
    <3>e. Plain(<<>>)
      BY DEF Plain
    <3>1. p \in DOMAIN n.queue /\ Plain(n.queue[p].ready) /\ Plain(n.queue[p].part) /\ Plain(<<>>)
      BY <3>0, <3>e DEF Thin
    <3>2. n.queue[p].ready \in Seq(Frame) /\ DELIMITER \in Frame /\ ~More(DELIMITER)
      BY <1>0, <3>1, NetFields, QueueFields DEF DELIMITER, Frame, More
    <3>3. Plain(Append(n.queue[p].ready, DELIMITER))
      BY <3>1, <3>2 DEF Plain
    <3>4. CASE p # n.end[e].out
      BY <3>1, <3>4, Zenon DEF Terminated
    <3>5. CASE p = n.end[e].out
      <4>1. /\ m.queue[p].part \in {n.queue[p].part, <<>>}
            /\ m.queue[p].ready \in {n.queue[p].ready, Append(n.queue[p].ready, DELIMITER)}
        BY <3>1, <3>5, Zenon DEF Terminated
      <4> QED
        BY <3>1, <3>3, <4>1, Zenon
    <3> QED
      BY <3>4, <3>5
  <2>2. Plain(m.got["sess"])
    BY DEF Terminated, Thin
  <2> QED
    BY <2>1, <2>2 DEF Thin
<1>6. Short(n) => Short(m)
  BY <1>0, LenSame DEF Terminated
<1>7. Room(n) => Room(m)
  <2>1. e = "sock" \/ Peer(e) = "sock"
    BY DEF End, Peer
  <2> QED
    BY <2>1 DEF Room, Terminated, Full
<1>8. Cut(n, m, e)
  BY <1>2, <1>4, <1>5, <1>6, <1>7 DEF Cut, Terminated
<1>9. ASSUME m.end[e].delay, Reads(n, e) /\ n.end[e].state # "active" => Reads(m, e), n.end[e].state # "none",
             NEW b \in BOOLEAN, NEW c \in BOOLEAN, Good(n, Peer(e), b, TRUE, c),
             n.end[e].state = "active" => /\ Len(n.got[e]) = Len(n.sent[Peer(e)])
                                          /\ n.end[Peer(e)].state # "active" \/ c
      PROVE  Good(m, Peer(e), b, TRUE, c)
  <2>1. CASE Peer(e) = "sock" /\ kind = "SUB"
    BY <2>1 DEF Good
  <2>2. CASE Wire(n, Peer(e), b, TRUE, c)
    <3>1. Line(m, Peer(e)) /\ Began(m, Peer(e), b)
      BY <1>3, <2>2, Zenon
    <3>2. Loyal(n, e, c)
      BY <1>0, <2>2 DEF Wire
    <3>3. Loyal(m, e, c)
      <4> SUFFICES ASSUME ~Reads(m, e)
                   PROVE  Len(m.got[e]) = Len(m.sent[Peer(e)]) /\ (m.end[Peer(e)].state # "active" \/ c)
        BY <1>9 DEF Loyal
      <4>1. n.end[e].state = "active" \/ ~Reads(n, e)
        BY <1>9
      <4>2. Len(n.got[e]) = Len(n.sent[Peer(e)]) /\ (n.end[Peer(e)].state # "active" \/ c)
        BY <1>9, <3>2, <4>1 DEF Loyal
      <4> QED
        BY <4>2 DEF Terminated
    <3> QED
      BY <1>0, <3>1, <3>3 DEF Good, Wire
  <2> QED
    BY <1>9, <2>1, <2>2 DEF Good
<1> QED
  BY <1>8, <1>9, Zenon DEF Heeds

\* What the delimiter leaves as it is, behind the last message.
Delimited(n, m, e, q) ==
    /\ m \in NetType /\ m.sent = n.sent /\ m.got = n.got
    /\ m.mail[e] = n.mail[e]
    /\ m.mail[Peer(e)] \in {n.mail[Peer(e)], Append(n.mail[Peer(e)], <<"activate_read", 0>>)}
    /\ m.end[Peer(e)] = n.end[Peer(e)] /\ m.end[e].state = n.end[e].state
    /\ m.end[e].in = n.end[e].in /\ m.end[e].out = n.end[e].out
    /\ m.end[e].inActive = n.end[e].inActive /\ m.end[e].delay = n.end[e].delay
    /\ DOMAIN m.queue = DOMAIN n.queue
    /\ \A p \in DOMAIN n.queue : p # q => m.queue[p] = n.queue[p]
    /\ m.queue[q].part = <<>>
    /\ m.queue[q].ready = Append(n.queue[q].ready, DELIMITER)

\* What writing the delimiter changes.
LEMMA DelimitEffect ==
    ASSUME NEW n \in NetType, NEW e \in End, NEW q \in DOMAIN n.queue, q = n.end[e].out
    PROVE  Delimited(n, Put(Rollback([n EXCEPT !.end[e].outActive = FALSE], e), e, DELIMITER), e, q)
<1> DEFINE k == [n EXCEPT !.end[e].outActive = FALSE]
           r == Rollback(k, e)
           m == Put(r, e, DELIMITER)
<1>0. DELIMITER \in Frame /\ ~More(DELIMITER) /\ q # NULL /\ Peer(e) # e
  <2>1. q # NULL
    BY NetFields DEF NULL
  <2> QED
    BY <2>1, Ends DEF DELIMITER, Frame, More
<1>1. /\ k \in NetType
      /\ k.queue = n.queue /\ k.mail = n.mail /\ k.sent = n.sent /\ k.got = n.got
      /\ k.end[Peer(e)] = n.end[Peer(e)]
      /\ k.end[e].state = n.end[e].state
      /\ k.end[e].inActive = n.end[e].inActive /\ k.end[e].delay = n.end[e].delay
      /\ k.end[e].in = n.end[e].in /\ k.end[e].out = n.end[e].out
  BY StopEffect DEF Points
<1> HIDE DEF k
<1>2. q \in DOMAIN k.queue /\ q = k.end[e].out
  BY <1>1
<1>3. /\ r \in NetType
      /\ r.end = k.end /\ r.mail = k.mail /\ r.sent = k.sent /\ r.got = k.got
      /\ DOMAIN r.queue = DOMAIN k.queue
      /\ \A p \in DOMAIN k.queue : p # q => r.queue[p] = k.queue[p]
      /\ r.queue[q].part = <<>> /\ r.queue[q].ready = k.queue[q].ready
  BY <1>0, <1>1, <1>2, RollbackEffect
<1> HIDE DEF r
<1>4. r \in NetType /\ q \in DOMAIN r.queue /\ q = r.end[e].out
  BY <1>1, <1>2, <1>3
<1>5. m \in NetType /\ m.end = r.end /\ m.got = r.got /\ m.mail[e] = r.mail[e]
  BY <1>0, <1>4, PutFlush
<1>6. m.sent[Peer(e)] = r.sent[Peer(e)] /\ m.sent[e] = r.sent[e]
  BY <1>0, <1>4, PutFlush
<1>7. DOMAIN m.queue = DOMAIN r.queue /\ \A p \in DOMAIN r.queue : p # q => m.queue[p] = r.queue[p]
  BY <1>0, <1>4, PutFlush, Zenon
<1>8. \/ m.mail[Peer(e)] = r.mail[Peer(e)]
      \/ m.mail[Peer(e)] = Append(r.mail[Peer(e)], <<"activate_read", 0>>)
  BY <1>0, <1>4, PutFlush
<1>9. m.queue[q].part = <<>>
  BY <1>0, <1>4, PutFlush
<1>10. m.queue[q].ready = r.queue[q].ready \o Append(r.queue[q].part, DELIMITER)
  BY <1>0, <1>4, PutFlush, Zenon
<1> HIDE DEF m
<1>11. m.queue[q].ready = Append(n.queue[q].ready, DELIMITER)
  <2>1. n.queue[q].ready \in Seq(Frame)
    BY NetFields, QueueFields
  <2>2. r.queue[q].ready = n.queue[q].ready /\ r.queue[q].part = <<>>
    BY <1>1, <1>3
  <2>3. \A s \in Seq(Frame) : s \o Append(<<>>, DELIMITER) = Append(s, DELIMITER)
    BY <1>0
  <2> QED
    BY <1>10, <2>1, <2>2, <2>3, Zenon
<1>12. m.sent = n.sent
  <2>1. m.sent \in [End -> Seq(Frame)] /\ r.sent \in [End -> Seq(Frame)]
    BY <1>3, <1>5, NetFields
  <2>2. \A x \in End : m.sent[x] = r.sent[x]
    BY <1>6, Ends
  <2>3. m.sent = r.sent
    BY <2>1, <2>2
  <2> QED
    BY <1>1, <1>3, <2>3
<1>13. Delimited(n, m, e, q)
  <2>1. m.end = k.end /\ m.got = n.got /\ m.mail[e] = n.mail[e]
    BY <1>1, <1>3, <1>5
  <2>2. m.mail[Peer(e)] \in {n.mail[Peer(e)], Append(n.mail[Peer(e)], <<"activate_read", 0>>)}
    BY <1>1, <1>3, <1>8
  <2>3. DOMAIN m.queue = DOMAIN n.queue /\ \A p \in DOMAIN n.queue : p # q => m.queue[p] = n.queue[p]
    BY <1>1, <1>3, <1>7
  <2> QED
    BY <1>1, <1>5, <1>9, <1>11, <1>12, <2>1, <2>2, <2>3, Zenon DEF Delimited
<1> QED
  BY <1>13 DEF m, r, k

\* What terminate does, and says to the peer.
Parted(n, m, e, delay) ==
    /\ Terminated(n, m, e) /\ m.end[e].delay = delay
    /\ delay /\ Reads(n, e) /\ n.end[e].state # "active" => Reads(m, e)
    /\ ~delay => ~Open(m, e)
    /\ m.mail[e] = n.mail[e]
    /\ (\A t \in Types(n.mail["sess"]) : t \notin {"term", "term_listener"}) => Behind(m.mail["sess"])

\* Nothing is behind a term.
LEMMA NoTermBehind ==
    ASSUME NEW M, \A t \in Types(M) : t \notin {"term", "term_listener"}
    PROVE  Behind(M)
BY DEF Types, Behind

\* A command that is none of the two.
LEMMA NoTermAppended ==
    ASSUME NEW M \in Seq(Cmd), \A t \in Types(M) : t \notin {"term", "term_listener"},
           NEW t \in {"pipe_term", "pipe_term_ack", "activate_read"}
    PROVE  /\ \A u \in Types(Append(M, <<t, 0>>)) : u \notin {"term", "term_listener"}
           /\ Append(M, <<t, 0>>) \in Seq(Cmd)
<1>1. <<t, 0>> \in Cmd /\ t \in PipeTypes \cup OwnTypes /\ 0 \in Nat
  BY DEF Cmd, PipeTypes
<1>2. Types(Append(M, <<t, 0>>)) = Types(M) \cup {t}
  BY <1>1, TypeAppended
<1> QED
  BY <1>1, <1>2

\* terminate where all that is to be said was said: only the flag changes.
LEMMA PartedDelay ==
    ASSUME NEW n, Both(n), NEW e \in End, NEW delay \in BOOLEAN,
           n.end[e].state \in {"term_req_sent1", "term_req_sent2", "term_ack_sent"}
    PROVE  Parted(n, Terminate(n, e, delay), e, delay)
<1> DEFINE m == [n EXCEPT !.end[e].delay = delay]
<1>0. n \in NetType
  BY BothSound DEF Sound
<1>1. /\ m \in NetType
      /\ m.queue = n.queue /\ m.mail = n.mail /\ m.sent = n.sent /\ m.got = n.got
      /\ m.end[Peer(e)] = n.end[Peer(e)]
      /\ m.end[e].state = n.end[e].state /\ m.end[e].delay = delay
      /\ m.end[e].inActive = n.end[e].inActive
      /\ m.end[e].in = n.end[e].in /\ m.end[e].out = n.end[e].out
  BY <1>0, DelayEffect DEF Points
<1>2. Terminate(n, e, delay) = m
  BY DEF Terminate
<1> HIDE DEF m
<1>3. Terminated(n, m, e)
  BY <1>1 DEF Terminated, Reads
<1>4. ~Open(m, e) /\ ~Reads(n, e)
  BY <1>1 DEF Open, Reads
<1>5. (\A t \in Types(n.mail["sess"]) : t \notin {"term", "term_listener"}) => Behind(m.mail["sess"])
  BY <1>1, NoTermBehind
<1> QED
  BY <1>1, <1>2, <1>3, <1>4, <1>5 DEF Parted

\* terminate from a state in which nothing was asked yet.
LEMMA PartedAsk ==
    ASSUME NEW n, Both(n), NEW e \in End, NEW delay \in BOOLEAN,
           n.end[e].state \in {"active", "delimiter_received"}
    PROVE  Parted(n, Terminate(n, e, delay), e, delay)
<1> DEFINE d == [n EXCEPT !.end[e].delay = delay]
           k == Send(d, Peer(e), "pipe_term", 0)
           a == Goto(k, e, "term_req_sent1")
           q == n.end[e].out
           m == Put(Rollback([a EXCEPT !.end[e].outActive = FALSE], e), e, DELIMITER)
<1>0. n \in NetType /\ Sound(n) /\ Peer(e) \in End /\ Peer(Peer(e)) = e
  BY BothSound, Ends DEF Sound
<1>1. /\ d \in NetType
      /\ d.queue = n.queue /\ d.mail = n.mail /\ d.sent = n.sent /\ d.got = n.got
      /\ d.end[Peer(e)] = n.end[Peer(e)]
      /\ d.end[e].state = n.end[e].state /\ d.end[e].delay = delay
      /\ d.end[e].inActive = n.end[e].inActive
      /\ d.end[e].in = n.end[e].in /\ d.end[e].out = n.end[e].out
  BY <1>0, DelayEffect DEF Points
<1>2. Terminate(n, e, delay) = m
  BY DEF Terminate
<1> HIDE DEF d
<1>3. /\ k \in NetType
      /\ k.end = d.end /\ k.queue = d.queue /\ k.sent = d.sent /\ k.got = d.got
      /\ k.mail[Peer(e)] = Append(d.mail[Peer(e)], <<"pipe_term", 0>>)
      /\ k.mail[e] = d.mail[e]
  <2>1. "pipe_term" \in PipeTypes \cup OwnTypes /\ 0 \in Nat
    BY DEF PipeTypes
  <2> QED
    BY <1>1, <2>1, SendPeer
<1> HIDE DEF k
<1>4. /\ a \in NetType
      /\ a.queue = k.queue /\ a.mail = k.mail /\ a.sent = k.sent /\ a.got = k.got
      /\ a.end[Peer(e)] = k.end[Peer(e)]
      /\ a.end[e].state = "term_req_sent1"
      /\ a.end[e].in = k.end[e].in /\ a.end[e].out = k.end[e].out
      /\ a.end[e].inActive = k.end[e].inActive /\ a.end[e].delay = k.end[e].delay
  <2>1. "term_req_sent1" \in States
    BY DEF States
  <2> QED
    BY <1>3, <2>1, GotoEffect DEF Points, Flags
<1> HIDE DEF a
<1>5. q \in DOMAIN n.queue
  <2>1. Talks(n, e)
    BY DEF Talks, Silent
  <2> QED
    BY <1>0, <2>1, TalksOut
<1>6. q \in DOMAIN a.queue /\ q = a.end[e].out
  BY <1>1, <1>3, <1>4, <1>5
<1>7. Delimited(a, m, e, q)
  BY <1>4, <1>6, DelimitEffect
<1> HIDE DEF m
<1>8. n.end[e].state \in Undelimited /\ m.end[e].state = "term_req_sent1"
  BY <1>4, <1>7, Zenon DEF Delimited, Undelimited
<1>9. Terminated(n, m, e)
  <2>1. m \in NetType /\ m.sent = n.sent /\ m.got = n.got /\ m.end[Peer(e)] = n.end[Peer(e)]
    BY <1>1, <1>3, <1>4, <1>7, Zenon DEF Delimited
  <2>2. m.end[e].in = n.end[e].in /\ m.end[e].out = n.end[e].out /\ m.end[e].inActive = n.end[e].inActive
    BY <1>1, <1>3, <1>4, <1>7, Zenon DEF Delimited
  <2>3. /\ DOMAIN m.queue = DOMAIN n.queue
        /\ \A p \in DOMAIN n.queue : p # q => m.queue[p] = n.queue[p]
        /\ m.queue[q].part = <<>> /\ m.queue[q].ready = Append(n.queue[q].ready, DELIMITER)
    BY <1>1, <1>3, <1>4, <1>7, Zenon DEF Delimited
  <2>4. ~Reads(m, e)
    BY <1>8 DEF Reads
  <2> QED
    BY <1>8, <2>1, <2>2, <2>3, <2>4, Zenon DEF Terminated
<1>10. ~Open(m, e) /\ (Reads(n, e) /\ n.end[e].state # "active" => Reads(m, e))
  BY <1>8 DEF Open, Reads
<1>11. m.end[e].delay = delay /\ m.mail[e] = n.mail[e]
  BY <1>1, <1>3, <1>4, <1>7, Zenon DEF Delimited
<1>12. ASSUME \A t \in Types(n.mail["sess"]) : t \notin {"term", "term_listener"}
       PROVE  Behind(m.mail["sess"])
  <2>1. CASE e = "sess"
    BY <1>11, <1>12, <2>1, NoTermBehind
  <2>2. CASE Peer(e) = "sess"
    <3> DEFINE M == n.mail[Peer(e)]
               N == Append(M, <<"pipe_term", 0>>)
    <3>1. M \in Seq(Cmd)
      BY <1>0, NetFields
    <3>2. m.mail[Peer(e)] \in {N, Append(N, <<"activate_read", 0>>)}
      BY <1>1, <1>3, <1>4, <1>7, Zenon DEF Delimited
    <3>3. \A t \in Types(M) : t \notin {"term", "term_listener"}
      BY <1>12, <2>2
    <3> HIDE DEF M
    <3>4. N \in Seq(Cmd) /\ \A t \in Types(N) : t \notin {"term", "term_listener"}
      BY <3>1, <3>3, NoTermAppended
    <3> HIDE DEF N
    <3>5. \A t \in Types(Append(N, <<"activate_read", 0>>)) : t \notin {"term", "term_listener"}
      BY <3>4, NoTermAppended
    <3>6. Behind(m.mail[Peer(e)])
      BY <3>2, <3>4, <3>5, NoTermBehind
    <3> QED
      BY <2>2, <3>6
  <2> QED
    BY <2>1, <2>2 DEF End, Peer
<1> QED
  BY <1>2, <1>9, <1>10, <1>11, <1>12 DEF Parted

\* The peer of an end that waits for its delimiter does not read.
LEMMA WaitingPeer ==
    ASSUME NEW n, Both(n), NEW e \in End, n.end[e].state = "waiting_for_delimiter"
    PROVE  ~Reads(n, Peer(e)) /\ n.end[e].out \in DOMAIN n.queue
<1>1. EndInv(n, e) /\ Sound(n)
  BY EndFacts, BothSound DEF Both
<1>2. n.end[Peer(e)].state = "term_req_sent1"
  BY <1>1 DEF EndInv, EndOK, Compatible
<1>3. Talks(n, e)
  BY DEF Talks, Silent
<1> QED
  BY <1>1, <1>2, <1>3, TalksOut DEF Reads

\* terminate of an end that waits for the delimiter, and goes on waiting,
LEMMA PartedWait ==
    ASSUME NEW n, Both(n), NEW e \in End, n.end[e].state = "waiting_for_delimiter"
    PROVE  Parted(n, Terminate(n, e, TRUE), e, TRUE)
<1> DEFINE delay == TRUE
           d == [n EXCEPT !.end[e].delay = delay]
           q == n.end[e].out
           m == Put(Rollback([d EXCEPT !.end[e].outActive = FALSE], e), e, DELIMITER)
<1>0. n \in NetType /\ Sound(n) /\ Peer(e) \in End /\ Peer(Peer(e)) = e /\ delay \in BOOLEAN
  BY BothSound, Ends DEF Sound
<1>2. Terminate(n, e, TRUE) = m
  BY DEF Terminate
<1>d. delay = TRUE
  OBVIOUS
<1> HIDE DEF delay
<1>1. /\ d \in NetType
      /\ d.queue = n.queue /\ d.mail = n.mail /\ d.sent = n.sent /\ d.got = n.got
      /\ d.end[Peer(e)] = n.end[Peer(e)]
      /\ d.end[e].state = n.end[e].state /\ d.end[e].delay = delay
      /\ d.end[e].inActive = n.end[e].inActive
      /\ d.end[e].in = n.end[e].in /\ d.end[e].out = n.end[e].out
  BY <1>0, DelayEffect DEF Points
<1> HIDE DEF d
<1>5. q \in DOMAIN n.queue /\ ~Reads(n, Peer(e))
  BY WaitingPeer
<1>6. q \in DOMAIN d.queue /\ q = d.end[e].out
  BY <1>1, <1>5
<1>7. Delimited(d, m, e, q)
  BY <1>1, <1>6, DelimitEffect
<1> HIDE DEF m
<1>8. m.end[e].state = "waiting_for_delimiter"
  BY <1>1, <1>7, Zenon DEF Delimited
<1>9. Terminated(n, m, e)
  <2>1. m \in NetType /\ m.sent = n.sent /\ m.got = n.got /\ m.end[Peer(e)] = n.end[Peer(e)]
    BY <1>1, <1>7, Zenon DEF Delimited
  <2>2. m.end[e].in = n.end[e].in /\ m.end[e].out = n.end[e].out /\ m.end[e].inActive = n.end[e].inActive
    BY <1>1, <1>7, Zenon DEF Delimited
  <2>3. /\ DOMAIN m.queue = DOMAIN n.queue
        /\ \A p \in DOMAIN n.queue : p # q => m.queue[p] = n.queue[p]
        /\ m.queue[q].part = <<>> /\ m.queue[q].ready = Append(n.queue[q].ready, DELIMITER)
    BY <1>1, <1>7, Zenon DEF Delimited
  <2>4. Reads(n, e)
    BY DEF Reads
  <2> QED
    BY <1>5, <1>8, <2>1, <2>2, <2>3, <2>4, Zenon DEF Terminated
<1>10. Reads(m, e)
  BY <1>8 DEF Reads
<1>11. m.end[e].delay = TRUE /\ m.mail[e] = n.mail[e]
  BY <1>1, <1>7, <1>d, Zenon DEF Delimited
<1>12. ASSUME \A t \in Types(n.mail["sess"]) : t \notin {"term", "term_listener"}
       PROVE  Behind(m.mail["sess"])
  <2>1. CASE e = "sess"
    BY <1>11, <1>12, <2>1, NoTermBehind
  <2>2. CASE Peer(e) = "sess"
    <3> DEFINE N == n.mail[Peer(e)]
    <3>1. N \in Seq(Cmd)
      BY <1>0, NetFields
    <3>2. m.mail[Peer(e)] \in {N, Append(N, <<"activate_read", 0>>)}
      BY <1>1, <1>7, Zenon DEF Delimited
    <3>3. \A t \in Types(N) : t \notin {"term", "term_listener"}
      BY <1>12, <2>2
    <3> HIDE DEF N
    <3>5. \A t \in Types(Append(N, <<"activate_read", 0>>)) : t \notin {"term", "term_listener"}
      BY <3>1, <3>3, NoTermAppended
    <3>6. Behind(m.mail[Peer(e)])
      BY <3>2, <3>3, <3>5, NoTermBehind
    <3> QED
      BY <2>2, <3>6
  <2> QED
    BY <2>1, <2>2 DEF End, Peer
<1> QED
  BY <1>2, <1>9, <1>10, <1>11, <1>12 DEF Parted

\* or acknowledges at once.
LEMMA PartedAcknowledge ==
    ASSUME NEW n, Both(n), NEW e \in End, n.end[e].state = "waiting_for_delimiter"
    PROVE  Parted(n, Terminate(n, e, FALSE), e, FALSE)
<1> DEFINE delay == FALSE
           d == [n EXCEPT !.end[e].delay = delay]
           q == n.end[e].out
           r == Rollback(d, e)
           a == Acknowledge(r, e, "term_ack_sent")
           m == [a EXCEPT !.end[e].outActive = FALSE]
<1>0. n \in NetType /\ Sound(n) /\ Peer(e) \in End /\ Peer(Peer(e)) = e /\ delay \in BOOLEAN
  BY BothSound, Ends DEF Sound
<1>2. Terminate(n, e, FALSE) = m
  BY DEF Terminate
<1>d. delay = FALSE
  OBVIOUS
<1> HIDE DEF delay
<1>1. /\ d \in NetType
      /\ d.queue = n.queue /\ d.mail = n.mail /\ d.sent = n.sent /\ d.got = n.got
      /\ d.end[Peer(e)] = n.end[Peer(e)]
      /\ d.end[e].state = n.end[e].state /\ d.end[e].delay = delay
      /\ d.end[e].inActive = n.end[e].inActive
      /\ d.end[e].in = n.end[e].in /\ d.end[e].out = n.end[e].out
  BY <1>0, DelayEffect DEF Points
<1> HIDE DEF d
<1>3. q \in DOMAIN n.queue /\ q # NULL
  <2>1. q \in DOMAIN n.queue
    BY WaitingPeer
  <2> QED
    BY <1>0, <2>1, NetFields DEF NULL
<1>4. q \in DOMAIN d.queue /\ q = d.end[e].out
  BY <1>1, <1>3
<1>5. /\ r \in NetType
      /\ r.end = d.end /\ r.mail = d.mail /\ r.sent = d.sent /\ r.got = d.got
      /\ DOMAIN r.queue = DOMAIN d.queue
      /\ \A p \in DOMAIN d.queue : p # q => r.queue[p] = d.queue[p]
      /\ r.queue[q].part = <<>> /\ r.queue[q].ready = d.queue[q].ready
  BY <1>1, <1>3, <1>4, RollbackEffect
<1> HIDE DEF r
<1>6. /\ a \in NetType
      /\ a.queue = r.queue /\ a.sent = r.sent /\ a.got = r.got
      /\ a.mail[e] = r.mail[e]
      /\ a.mail[Peer(e)] = Append(r.mail[Peer(e)], <<"pipe_term_ack", 0>>)
      /\ a.end[Peer(e)] = r.end[Peer(e)]
      /\ a.end[e].state = "term_ack_sent" /\ a.end[e].in = r.end[e].in /\ a.end[e].out = NULL
      /\ a.end[e].inActive = r.end[e].inActive /\ a.end[e].delay = r.end[e].delay
  <2>1. "term_ack_sent" \in States
    BY DEF States
  <2> QED
    BY <1>5, <2>1, AcknowledgeEffect, Zenon DEF Flags
<1> HIDE DEF a
<1>7. /\ m \in NetType
      /\ m.queue = a.queue /\ m.mail = a.mail /\ m.sent = a.sent /\ m.got = a.got
      /\ m.end[Peer(e)] = a.end[Peer(e)]
      /\ m.end[e].state = a.end[e].state
      /\ m.end[e].inActive = a.end[e].inActive /\ m.end[e].delay = a.end[e].delay
      /\ m.end[e].in = a.end[e].in /\ m.end[e].out = a.end[e].out
  BY <1>6, StopEffect DEF Points
<1> HIDE DEF m
<1>9. Terminated(n, m, e)
  <2>1. m \in NetType /\ m.sent = n.sent /\ m.got = n.got /\ m.end[Peer(e)] = n.end[Peer(e)]
    BY <1>1, <1>5, <1>6, <1>7
  <2>2. /\ m.end[e].in = n.end[e].in /\ m.end[e].out = NULL /\ m.end[e].inActive = n.end[e].inActive
        /\ m.end[e].state = "term_ack_sent"
    BY <1>1, <1>5, <1>6, <1>7
  <2>3. /\ DOMAIN m.queue = DOMAIN n.queue
        /\ \A p \in DOMAIN n.queue : p # q => m.queue[p] = n.queue[p]
        /\ m.queue[q].part = <<>> /\ m.queue[q].ready = n.queue[q].ready
    BY <1>1, <1>5, <1>6, <1>7
  <2>4. ~Reads(m, e)
    BY <2>2 DEF Reads
  <2> QED
    BY <2>1, <2>2, <2>3, <2>4 DEF Terminated
<1>10. ~Open(m, e)
  BY <1>6, <1>7 DEF Open
<1>11. m.end[e].delay = FALSE /\ m.mail[e] = n.mail[e]
  BY <1>1, <1>5, <1>6, <1>7, <1>d
<1>12. ASSUME \A t \in Types(n.mail["sess"]) : t \notin {"term", "term_listener"}
       PROVE  Behind(m.mail["sess"])
  <2>1. CASE e = "sess"
    BY <1>11, <1>12, <2>1, NoTermBehind
  <2>2. CASE Peer(e) = "sess"
    <3> DEFINE N == n.mail[Peer(e)]
    <3>1. N \in Seq(Cmd)
      BY <1>0, NetFields
    <3>2. m.mail[Peer(e)] = Append(N, <<"pipe_term_ack", 0>>)
      BY <1>1, <1>5, <1>6, <1>7
    <3>3. \A t \in Types(N) : t \notin {"term", "term_listener"}
      BY <1>12, <2>2
    <3> HIDE DEF N
    <3>5. \A t \in Types(Append(N, <<"pipe_term_ack", 0>>)) : t \notin {"term", "term_listener"}
      BY <3>1, <3>3, NoTermAppended
    <3>6. Behind(m.mail[Peer(e)])
      BY <3>2, <3>5, NoTermBehind
    <3> QED
      BY <2>2, <3>6
  <2> QED
    BY <2>1, <2>2 DEF End, Peer
<1> QED
  BY <1>2, <1>9, <1>10, <1>11, <1>12 DEF Parted

\* terminate, in every state.
LEMMA TerminateParted ==
    ASSUME NEW n, Both(n), NEW e \in End, NEW delay \in BOOLEAN, Has(n, e)
    PROVE  Parted(n, Terminate(n, e, delay), e, delay)
<1>1. n.end[e].state \in States
  BY BothSound, NetFields, EndFields DEF Sound
<1>2. CASE n.end[e].state = "waiting_for_delimiter"
  <2>1. CASE delay
    <3>1. delay = TRUE
      BY <2>1
    <3> QED
      BY <1>2, <3>1, PartedWait
  <2>2. CASE ~delay
    <3>1. delay = FALSE
      BY <2>2
    <3> QED
      BY <1>2, <3>1, PartedAcknowledge
  <2> QED
    BY <2>1, <2>2
<1> QED
  BY <1>1, <1>2, PartedDelay, PartedAsk DEF Has, States

------------------------------------------------------------------------------
(* New queues and new pipes *)

\* No frames, and a queue that is new.
LEMMA NothingPlain == Plain(<<>>) /\ NewQueue.ready = <<>> /\ NewQueue.part = <<>>
BY DEF Plain, NewQueue

\* pipe_t::hiccup: the new queue is empty.
LEMMA HiccupFine ==
    ASSUME NEW n, Both(n), kind = "SUB"
    PROVE  Fine(n, Hiccup(n, "sess"))
<1> DEFINE m == Hiccup(n, "sess")
           last == Len(n.queue) + 1
<1>0. Sound(n) /\ n \in NetType /\ "sess" \in End /\ "sock" \in End /\ Peer("sess") = "sock" /\ Peer("sock") = "sess"
  BY BothSound DEF Sound, End, Peer
<1>1. CASE n.end["sess"].state # "active"
  <2>1. m = n
    BY <1>1 DEF Hiccup
  <2> QED
    BY <2>1, FineReflexive
<1>2. CASE n.end["sess"].state = "active"
  <2>1. /\ m \in NetType /\ m.sent = n.sent /\ m.got = n.got
        /\ m.mail["sess"] = n.mail["sess"]
        /\ m.queue = Append(n.queue, NewQueue) /\ last \in Nat
        /\ m.end["sock"] = n.end["sock"]
        /\ m.end["sess"].state = "active" /\ m.end["sess"].out = n.end["sess"].out
    <3> DEFINE e == "sess"
    <3>1. e \in End /\ n.end[e].state = "active" /\ Peer(e) = "sock"
      BY <1>0, <1>2
    <3> HIDE DEF e
    <3>2. LET k == Hiccup(n, e)
          IN /\ k \in NetType /\ k.sent = n.sent /\ k.got = n.got
             /\ k.mail[e] = n.mail[e]
             /\ k.queue = Append(n.queue, NewQueue) /\ Len(n.queue) + 1 \in Nat
             /\ k.end[Peer(e)] = n.end[Peer(e)]
             /\ k.end[e].state = "active" /\ k.end[e].out = n.end[e].out
      BY <1>0, <3>1, HiccupEffect
    <3> QED
      BY <3>1, <3>2 DEF e
  <2> HIDE DEF m
  <2>2. /\ n.queue \in Seq(QueueType) /\ DOMAIN m.queue = 1 .. last /\ DOMAIN n.queue = 1 .. Len(n.queue)
        /\ \A p \in DOMAIN n.queue : m.queue[p] = n.queue[p]
        /\ m.queue[last] = NewQueue
    BY <1>0, <2>1, NetFields, NewQueueType
  <2>3. n.end["sock"].in \in DOMAIN n.queue /\ (n.end["sess"].out # NULL => n.end["sess"].out \in DOMAIN n.queue)
    BY <1>0 DEF Sound, RefInv
  <2>4. m.queue[n.end["sock"].in] = n.queue[n.end["sock"].in]
    BY <2>2, <2>3
  <2>5. n.end["sess"].out # NULL
    BY <1>0, <1>2, ActiveOut
  <2>6. Watch(n, m, "sess", Peer("sess")) /\ Stays(n, m, Peer("sess"))
    <3>1. m.queue[n.end["sess"].out].part = n.queue[n.end["sess"].out].part
      BY <2>2, <2>3, <2>5
    <3> QED
      BY <1>0, <1>2, <2>1, <2>4, <3>1 DEF Watch, Stays, Reads
  <2>7. GoodKept(n, m, "sess")
    BY <1>0, <2>6, WatchGood DEF GoodKept
  <2>8. GoodKept(n, m, "sock")
    BY DEF GoodKept, Good
  <2>9. Thin(n) => Thin(m)
    <3>1. ASSUME Thin(n), NEW q \in DOMAIN m.queue \ {1}
          PROVE  Plain(m.queue[q].ready) /\ Plain(m.queue[q].part)
      <4>1. CASE q \in DOMAIN n.queue
        BY <2>2, <3>1, <4>1 DEF Thin
      <4>2. CASE q \notin DOMAIN n.queue
        <5>1. q = last
          BY <2>1, <2>2, <4>2
        <5> QED
          BY <5>1, <2>2, NothingPlain
      <4> QED
        BY <4>1, <4>2
    <3> QED
      BY <2>1, <3>1 DEF Thin
  <2>10. Open(m, "sock") => Open(n, "sock")
    BY <2>1 DEF Open
  <2>11. Room(n) => Room(m)
    BY <2>1 DEF Room, Full
  <2>12. \A e \in End : GoodKept(n, m, e)
    BY <2>7, <2>8 DEF End
  <2>13. Short(m)
    BY DEF Short
  <2> QED
    BY <2>1, <2>9, <2>10, <2>11, <2>12, <2>13 DEF Fine, m
<1> QED
  BY <1>1, <1>2

\* The socket turns to the next queue, and gives up what it wrote to the old one.
LEMMA TurnedFine ==
    ASSUME NEW n, Sound(n), kind = "SUB", n.end["sock"].out # NULL, NEW a \in Nat
    PROVE  Fine(n, Turned(n, a))
<1> DEFINE m == Turned(n, a)
<1> DEFINE q == n.end["sock"].out
<1>0. n \in NetType /\ "sess" \in End /\ "sock" \in End /\ Peer("sess") = "sock" /\ Peer("sock") = "sess"
  BY DEF Sound, End, Peer
<1>1. q \in DOMAIN n.queue /\ q # 1 /\ n.end["sock"].in = 1 /\ n.end["sess"].out \in {NULL, 1}
  BY <1>0 DEF Sound, RefInv
<1>2. /\ m \in NetType
      /\ m.mail = n.mail /\ m.sent = n.sent /\ m.got = n.got
      /\ m.end["sess"] = n.end["sess"]
      /\ m.end["sock"].state = n.end["sock"].state
      /\ m.end["sock"].in = n.end["sock"].in
      /\ m.end["sock"].written = Remaining(n, q)
      /\ m.end["sock"].peersRead = n.end["sock"].peersRead
      /\ m.end["sock"].inActive = n.end["sock"].inActive
      /\ m.end["sock"].outActive = TRUE
      /\ m.end["sock"].delay = n.end["sock"].delay
      /\ DOMAIN m.queue = DOMAIN n.queue
      /\ m.queue[q].ready = <<>> /\ m.queue[q].part = <<>>
      /\ \A p \in DOMAIN n.queue : p # q => m.queue[p] = n.queue[p]
  BY <1>0, <1>1, TurnedEffect, Zenon
<1>3. 1 \in DOMAIN n.queue /\ m.queue[1] = n.queue[1]
  BY <1>0, <1>1, <1>2 DEF Sound, RefInv
<1>3a. n.end["sock"].written \in Int /\ n.end["sock"].peersRead \in Nat /\ Count(n.queue[q].ready) \in Nat
  <2>1. n.queue[q] \in QueueType /\ n.end["sock"] \in EndType
    BY <1>0, <1>1, NetFields
  <2>2. n.queue[q].ready \in Seq(Frame)
    BY <2>1, QueueFields
  <2> QED
    BY <2>1, <2>2, CountNat DEF EndType
<1> HIDE DEF m
<1>4. Watch(n, m, "sess", Peer("sess")) /\ Stays(n, m, Peer("sess"))
  <2>1. n.end["sess"].state = "active" => n.end["sess"].out = 1
    BY <1>0, <1>1, ActiveOut
  <2>2. n.end["sess"].state = "active" => m.queue[n.end["sess"].out].part = n.queue[n.end["sess"].out].part
    BY <2>1, <1>3
  <2>3. m.queue[n.end["sock"].in].ready = n.queue[n.end["sock"].in].ready
    BY <1>1, <1>3
  <2> QED
    BY <1>0, <1>2, <2>2, <2>3 DEF Watch, Stays, Reads
<1>5. GoodKept(n, m, "sess")
  BY <1>0, <1>4, WatchGood DEF GoodKept
<1>6. GoodKept(n, m, "sock")
  BY DEF GoodKept, Good
<1>7. Thin(n) => Thin(m)
  <2>1. ASSUME Thin(n), NEW p \in DOMAIN m.queue \ {1}
        PROVE  Plain(m.queue[p].ready) /\ Plain(m.queue[p].part)
    <3>1. CASE p = q
      BY <3>1, <1>2, NothingPlain
    <3>2. CASE p # q
      BY <3>2, <2>1, <1>2 DEF Thin
    <3> QED
      BY <3>1, <3>2
  <2> QED
    BY <1>2, <2>1 DEF Thin
<1>8. Room(n) => Room(m)
  <2>1. Remaining(n, q) = n.end["sock"].written - Count(n.queue[q].ready)
    BY DEF Remaining
  <2>2. HWM \in Nat
    BY PipeAssumption
  <2>3. Full(m, "sock") => Full(n, "sock")
    BY <1>2, <1>3a, <2>1, <2>2 DEF Full
  <2> QED
    BY <1>2, <2>3 DEF Room
<1>9. Open(m, "sock") => Open(n, "sock")
  BY <1>2 DEF Open
<1>10. \A e \in End : GoodKept(n, m, e)
  BY <1>5, <1>6 DEF End
<1>11. Short(m)
  BY DEF Short
<1> QED
  BY <1>2, <1>7, <1>8, <1>9, <1>10, <1>11 DEF Fine, m

\* A new pipe carries nothing yet.
LEMMA AcceptedLine ==
    ASSUME NEW n, Both(n), Layer(n), n.end["sock"].state = "none", ~Connects,
           NEW e \in End, NEW f \in BOOLEAN, NEW c \in BOOLEAN, Good(n, e, FALSE, f, c),
           NEW g \in BOOLEAN, NEW d \in BOOLEAN
    PROVE  Good(Accepted(n), e, FALSE, g, d)
<1> DEFINE m == Accepted(n)
           x == Peer(e)
           q == n.end[x].in
<1>0. /\ Sound(n) /\ n \in NetType /\ x \in End /\ Peer(x) = e
      /\ n.queue \in Seq(QueueType) /\ Len(n.queue) >= 2
  BY BothSound, Ends, NetFields DEF Sound
<1>1. /\ m.mail = n.mail /\ m.queue = n.queue
      /\ m.sent = n.sent /\ m.got = n.got
      /\ \A y \in End : m.end[y] = NewEnd(y, "active")
  BY <1>0, AcceptedPair DEF Both
<1> HIDE DEF m
<1>2. /\ m.end[e].state = "active" /\ m.end[e].out = (IF e = "sock" THEN 2 ELSE 1)
      /\ m.end[x].in = (IF x = "sock" THEN 1 ELSE 2) /\ m.end[x].inActive = TRUE /\ m.end[x].delay = TRUE
      /\ m.end[x].state = "active"
  <2>1. m.end[e] = NewEnd(e, "active") /\ m.end[x] = NewEnd(x, "active")
    BY <1>0, <1>1
  <2>2. NewEnd(e, "active").state = "active" /\ NewEnd(x, "active").state = "active"
    BY DEF NewEnd
  <2>3. NewEnd(x, "active").inActive = TRUE /\ NewEnd(x, "active").delay = TRUE
    BY DEF NewEnd
  <2>4. NewEnd(e, "active").out = (IF e = "sock" THEN 2 ELSE 1) /\ NewEnd(x, "active").in = (IF x = "sock" THEN 1 ELSE 2)
    BY DEF NewEnd
  <2> HIDE DEF x
  <2> QED
    BY <2>1, <2>2, <2>3, <2>4
<1>3. m.end[e].out = m.end[x].in
  BY <1>2 DEF End, Peer
<1>4. m.end[e].out \in DOMAIN n.queue
  BY <1>0, <1>2
<1>5. m.queue[m.end[e].out].ready = <<>> /\ m.queue[m.end[e].out].part = <<>>
  BY <1>1, <1>4 DEF Layer, Flows, Ahead, Unwritten
<1>6. Line(n, e)
  BY DEF Good, Wire, Connects
<1>7. Streams(n, e) /\ n.end[e].state = "none"
  BY <1>0, <1>6 DEF Line, LineTo, Sound, End
<1>8. n.sent[e] = <<>>
  BY <1>6, <1>7 DEF Line, LineTo
<1>9. n.got[x] = <<>>
  <2>1. n.got[x] \in Seq(Frame) /\ Len(n.got[x]) <= Len(n.sent[e])
    BY <1>0, <1>7, NetFields DEF Streams
  <2>2. Len(n.got[x]) = 0
    BY <2>1, <1>8
  <2> QED
    BY <2>1, <2>2
<1>10. Queued(e, m.got[x], m.sent[e], m.queue[m.end[x].in].ready)
  <2>1. Queued(e, <<>>, <<>>, <<>>)
    BY DEF Queued, Whole
  <2> QED
    BY <2>1, <1>1, <1>3, <1>5, <1>8, <1>9
<1>11. Streams(m, e) /\ Awake(m, e, x)
  BY <1>1, <1>2, <1>7 DEF Streams, Awake
<1>12. \A i \in DOMAIN m.queue[m.end[x].in].ready : m.queue[m.end[x].in].ready[i] # DELIMITER
  BY <1>3, <1>5
<1>13. Line(m, e)
  BY <1>2, <1>3, <1>10, <1>11, <1>12 DEF Line, LineTo
<1>14. Began(m, e, FALSE)
  BY <1>5 DEF Began
<1>15. Loyal(m, x, d)
  BY <1>2 DEF Loyal, Reads
<1> QED
  BY <1>13, <1>14, <1>15 DEF Good, Wire, m

\* It is so for both ends.
LEMMA AcceptedData ==
    ASSUME NEW n, Both(n), Layer(n), n.end["sock"].state = "none", ~Connects,
           NEW o \in BOOLEAN, ~o,
           NEW f \in BOOLEAN, NEW c \in BOOLEAN, NEW h \in BOOLEAN, Data(n, o, o, f, c, h),
           NEW g \in BOOLEAN, NEW d \in BOOLEAN, NEW k \in BOOLEAN
    PROVE  /\ Data(Accepted(n), o, o, g, d, k) /\ Accepted(n).sent = n.sent /\ Accepted(n).got = n.got
           /\ Sound(Accepted(n))
<1>6. o = FALSE
  OBVIOUS
<1>7. Data(n, FALSE, FALSE, f, c, h)
  BY <1>6
<1> DEFINE m == Accepted(n)
<1>0. "sock" \in End /\ "sess" \in End
  BY DEF End
<1>1. Good(m, "sock", FALSE, g, d)
  BY <1>0, <1>7, AcceptedLine DEF Data
<1>2. Good(m, "sess", FALSE, k, FALSE)
  BY <1>0, <1>7, AcceptedLine DEF Data
<1>3. Len(n.queue) >= 2 /\ PairInv(n)
  BY DEF Layer, Sound, Both
<1>4. m.queue = n.queue /\ m.got = n.got /\ m.sent = n.sent
  BY <1>3, AcceptedPair
<1> HIDE DEF m
<1>5. Thin(m) /\ Short(m)
  BY <1>4 DEF Data, Thin, Short
<1>8. Data(m, FALSE, FALSE, g, d, k)
  BY <1>1, <1>2, <1>5 DEF Data
<1>9. Sound(m)
  BY AcceptedLayer DEF Layer, m
<1> QED
  BY <1>4, <1>6, <1>8, <1>9 DEF m

------------------------------------------------------------------------------
(* The layer as an invariant *)

\* Whether a step keeps the kind of socket decides what its frames are.
LEMMA SameStreams ==
    ASSUME kind' = kind, NEW e \in End, Line(net', e)
    PROVE  Line(net, e)'
<1> DEFINE x == Peer(e)
<1>1. (Frames(e))' = Frames(e)
  BY DEF Frames, Connects
<1>2. \A i : (FrameAt(e, i))' = FrameAt(e, i)
  BY <1>1 DEF FrameAt
<1>3. Streams(net', e) => Streams(net, e)'
  BY <1>1, <1>2 DEF Streams, Stream
<1>4. ASSUME NEW r, Queued(e, net'.got[x], net'.sent[e], r)
      PROVE  (Queued(e, net.got[x], net.sent[e], r))'
  BY <1>2, <1>4 DEF Queued
<1>5. Awake(net', e, x) => (Awake(net, e, x))'
  BY <1>1 DEF Awake
<1> QED
  BY <1>3, <1>4, <1>5 DEF Line, LineTo, Reads

\* The sixth layer: the lines of the two ends.
DataInv == Data(net, sending = "written", engine /\ midway, Faithful, closed, Loyally)

\* The layer of the next net is that of the next state.
LEMMA Carried ==
    ASSUME kind' = kind,
           Data(net', sending' = "written", engine' /\ midway', Faithful', closed', Loyally')
    PROVE  DataInv'
<1>0. "sock" \in End /\ "sess" \in End
  BY DEF End
<1>1. \A e \in End : Line(net', e) => Line(net, e)'
  BY SameStreams
<1>2. \A e \in End : (Frames(e))' = Frames(e)
  BY DEF Frames, Connects
<1>3. ASSUME Wire(net', "sock", sending' = "written", Faithful', closed')
      PROVE  (Wire(net, "sock", sending = "written", Faithful, closed))'
  <2>1. Line(net, "sock")'
    BY <1>0, <1>1, <1>3 DEF Wire
  <2>2. Began(net, "sock", sending = "written")'
    BY <1>0, <1>2, <1>3 DEF Wire, Began, First
  <2>3. (Faithful => Loyal(net, Peer("sock"), closed))'
    BY <1>3 DEF Wire, Loyal, Reads
  <2> QED
    BY <2>1, <2>2, <2>3 DEF Wire
<1>4. ASSUME Wire(net', "sess", engine' /\ midway', Loyally', FALSE)
      PROVE  (Wire(net, "sess", engine /\ midway, Loyally, FALSE))'
  <2>1. Line(net, "sess")'
    BY <1>0, <1>1, <1>4 DEF Wire
  <2>2. Began(net, "sess", engine /\ midway)'
    BY <1>0, <1>2, <1>4 DEF Wire, Began, First
  <2>3. (Loyally => Loyal(net, Peer("sess"), FALSE))'
    BY <1>4 DEF Wire, Loyal, Reads
  <2> QED
    BY <2>1, <2>2, <2>3, Zenon DEF Wire
<1>5. (Good(net, "sock", sending = "written", Faithful, closed))'
  BY <1>3 DEF Data, Good
<1>6. (Good(net, "sess", engine /\ midway, Loyally, FALSE))'
  BY <1>4, Zenon DEF Data, Good
<1>7. Thin(net)'
  BY DEF Data, Thin
<1>8. Short(net)'
  BY DEF Data, Short
<1> QED
  BY <1>5, <1>6, <1>7, <1>8, Zenon DEF DataInv, Data

\* A change that keeps the layer, in its flags' terms.
LEMMA FineData ==
    ASSUME NEW n, NEW m, Fine(n, m),
           NEW w \in BOOLEAN, NEW v \in BOOLEAN, NEW f \in BOOLEAN, NEW c \in BOOLEAN, NEW h \in BOOLEAN,
           Data(n, w, v, f, c, h)
    PROVE  Data(m, w, v, f, c, h)
BY DEF Fine, GoodKept, Data, End

\* Less may be promised.
LEMMA DataWeaker ==
    ASSUME NEW n, NEW w \in BOOLEAN, NEW v \in BOOLEAN,
           NEW f \in BOOLEAN, NEW c \in BOOLEAN, NEW h \in BOOLEAN, Data(n, w, v, f, c, h),
           NEW g \in BOOLEAN, NEW d \in BOOLEAN, NEW k \in BOOLEAN, g => f, c => d, k => h
    PROVE  Data(n, w, v, g, d, k)
<1>0. "sock" \in End /\ "sess" \in End
  BY DEF End
<1>1. Good(n, "sock", w, g, d)
  BY <1>0, GoodWeaker DEF Data
<1>2. Good(n, "sess", v, k, FALSE)
  <2> DEFINE s == FALSE
  <2>1. s \in BOOLEAN /\ (s => s) /\ Good(n, "sess", v, h, s)
    BY DEF Data
  <2> HIDE DEF s
  <2>2. Good(n, "sess", v, k, s)
    BY <1>0, <2>1, GoodWeaker
  <2> QED
    BY <2>2 DEF s
<1> QED
  BY <1>1, <1>2 DEF Data

\* What a change keeps of what the threads rely on.
Eased(n, m) ==
    /\ m.sent["sock"] = n.sent["sock"]
    /\ Open(m, "sock") => Open(n, "sock")
    /\ Room(n) => Room(m)
    /\ Behind(n.mail["sess"]) => Behind(m.mail["sess"])

\* Fine changes ease, and so do two that do.
LEMMA EasedFacts ==
    ASSUME NEW n, NEW k, NEW m
    PROVE  /\ Fine(n, m) => Eased(n, m)
           /\ Eased(n, k) /\ Eased(k, m) => Eased(n, m)
           /\ Eased(n, n)
BY DEF Fine, Eased

\* clean_pipes takes back what the engine has not finished.
LEMMA CleanData ==
    ASSUME NEW n, Sound(n),
           NEW w \in BOOLEAN, NEW v \in BOOLEAN, NEW f \in BOOLEAN, NEW c \in BOOLEAN, NEW h \in BOOLEAN,
           Data(n, w, v, f, c, h), NEW g \in BOOLEAN, ~g
    PROVE  Data(CleanPipes(n), w, g, f, c, h) /\ Eased(n, CleanPipes(n))
<1> DEFINE m == Rollback(n, "sess")
<1>0. "sock" \in End /\ "sess" \in End /\ Peer("sess") = "sock"
  BY DEF End, Peer
<1>1. /\ GoodKept(n, m, "sock") /\ Sound(m) /\ (Thin(n) => Thin(m)) /\ (Short(n) => Short(m))
      /\ m.sent = n.sent /\ m.end = n.end /\ m.mail = n.mail
  BY <1>0, RollbackHalf
<1>2. Good(m, "sess", FALSE, h, FALSE)
  <2> DEFINE s == FALSE
  <2>1. s \in BOOLEAN /\ Good(n, "sess", v, h, s)
    BY DEF Data
  <2> HIDE DEF s
  <2>2. Good(m, "sess", FALSE, h, s)
    BY <1>0, <2>1, RolledBack
  <2> QED
    BY <2>2 DEF s
<1>3. CleanPipes(n) = (IF half THEN Read(m, "sess") ELSE m)
  BY DEF CleanPipes
<1> HIDE DEF m
<1>4. Data(m, w, FALSE, f, c, h)
  BY <1>1, <1>2 DEF GoodKept, Data
<1>5. Eased(n, m)
  BY <1>1 DEF Eased, Open, Room, Full
<1>6. Fine(m, Read(m, "sess"))
  BY <1>0, <1>1, ReadFine
<1>7. Data(Read(m, "sess"), w, FALSE, f, c, h)
  <2> DEFINE s == FALSE
  <2>1. s \in BOOLEAN /\ Data(m, w, s, f, c, h)
    BY <1>4
  <2> HIDE DEF s
  <2>2. Data(Read(m, "sess"), w, s, f, c, h)
    BY <1>6, <2>1, FineData
  <2> QED
    BY <2>2 DEF s
<1>8. Eased(n, Read(m, "sess"))
  BY <1>5, <1>6, EasedFacts
<1>9. g = FALSE
  OBVIOUS
<1> QED
  BY <1>3, <1>4, <1>5, <1>7, <1>8, <1>9

\* read takes nothing from the other end's queue,
LEMMA ReadOther ==
    ASSUME NEW n, Sound(n), NEW e \in End
    PROVE  Read(n, e).got[Peer(e)] = n.got[Peer(e)]
<1> DEFINE q == n.end[e].in
<1>0. n \in NetType /\ q \in DOMAIN n.queue
  BY DEF Sound, RefInv
<1>1. CASE ~CanRead(n, e)
  BY <1>1 DEF Read
<1>2. CASE CanRead(n, e) /\ n.queue[q].ready = <<>>
  <2>1. Read(n, e) = Sleep(n, e)
    BY <1>2 DEF Read, InQueue
  <2>2. Sleep(n, e).got = n.got
    BY <1>0, SleepEffect
  <2> QED
    BY <2>1, <2>2
<1>3. CASE CanRead(n, e) /\ n.queue[q].ready # <<>> /\ Head(n.queue[q].ready) = DELIMITER
  <2>1. Read(n, e) = ProcessDelimiter(Pop(n, e), e)
    BY <1>3 DEF Read, InQueue
  <2>2. Reads(n, e)
    BY <1>3 DEF CanRead, Reads
  <2>3. DelimiterRead(n, ProcessDelimiter(Pop(n, e), e), e, q)
    BY <1>3, <2>2, DelimiterEffect
  <2> QED
    BY <2>1, <2>3 DEF DelimiterRead
<1>4. CASE CanRead(n, e) /\ n.queue[q].ready # <<>> /\ Head(n.queue[q].ready) # DELIMITER
  <2>1. Read(n, e) = Take(n, e)
    BY <1>4 DEF Read, InQueue
  <2>2. Take(n, e).got[Peer(e)] = n.got[Peer(e)]
    BY <1>0, <1>4, TakeEffect
  <2> QED
    BY <2>1, <2>2
<1> QED
  BY <1>1, <1>2, <1>3, <1>4

\* check_read takes nothing at all but a delimiter,
LEMMA CheckReadOther ==
    ASSUME NEW n, Sound(n), NEW e \in End
    PROVE  CheckRead(n, e).got = n.got
<1> DEFINE q == n.end[e].in
<1>0. n \in NetType /\ q \in DOMAIN n.queue
  BY DEF Sound, RefInv
<1>1. CASE ~CanRead(n, e)
  BY <1>1 DEF CheckRead, Read
<1>2. CASE CanRead(n, e) /\ n.queue[q].ready = <<>>
  <2>1. CheckRead(n, e) = Sleep(n, e)
    BY <1>2 DEF CheckRead, Read, InQueue
  <2>2. Sleep(n, e).got = n.got
    BY <1>0, SleepEffect
  <2> QED
    BY <2>1, <2>2
<1>3. CASE CanRead(n, e) /\ n.queue[q].ready # <<>> /\ Head(n.queue[q].ready) = DELIMITER
  <2>1. CheckRead(n, e) = ProcessDelimiter(Pop(n, e), e)
    BY <1>3 DEF CheckRead, Read, InQueue
  <2>2. Reads(n, e)
    BY <1>3 DEF CanRead, Reads
  <2>3. DelimiterRead(n, ProcessDelimiter(Pop(n, e), e), e, q)
    BY <1>3, <2>2, DelimiterEffect
  <2> QED
    BY <2>1, <2>3 DEF DelimiterRead
<1>4. CASE CanRead(n, e) /\ n.queue[q].ready # <<>> /\ Head(n.queue[q].ready) # DELIMITER
  BY <1>4 DEF CheckRead, InQueue
<1> QED
  BY <1>1, <1>2, <1>3, <1>4

\* nor do reads of a message or of all there is.
LEMMA ReadsOther ==
    ASSUME NEW n, Layer(n), NEW e \in End
    PROVE  /\ ReadMessage(n, e).got[Peer(e)] = n.got[Peer(e)]
           /\ ReadAll(n, e).got[Peer(e)] = n.got[Peer(e)]
<1>0. Sound(n) /\ Sound(Read(n, e)) /\ n \in NetType /\ n.end[e].in \in DOMAIN n.queue
  <2>1. Layer(Read(n, e))
    BY ReadLayer
  <2> QED
    BY <2>1 DEF Layer, Sound, RefInv
<1>1. Read(n, e).got[Peer(e)] = n.got[Peer(e)] /\ Read(Read(n, e), e).got[Peer(e)] = n.got[Peer(e)]
  BY <1>0, ReadOther
<1>2. ReadMessage(n, e) \in {Read(n, e), Read(Read(n, e), e)}
  BY DEF ReadMessage
<1>3. Batch(n, e) \in NetType /\ Batch(n, e).got[Peer(e)] = n.got[Peer(e)]
  <2> DEFINE q == n.end[e].in
             k == Whole(n.queue[q].ready)
  <2>1. q \in DOMAIN n.queue
    BY <1>0
  <2> HIDE DEF k
  <2> QED
    BY <1>0, <2>1, BatchEffect DEF k
<1>4. Read(Batch(n, e), e).got[Peer(e)] = n.got[Peer(e)]
  <2>1. Sound(Batch(n, e))
    <3> DEFINE q == n.end[e].in
               k == Whole(n.queue[q].ready)
               m == Batch(n, e)
    <3>1. q \in DOMAIN n.queue
      BY <1>0
    <3>2. /\ m \in NetType /\ m.end[Peer(e)] = n.end[Peer(e)] /\ m.end[e].state = n.end[e].state
          /\ Points(m.end[e], n.end[e]) /\ DOMAIN m.queue = DOMAIN n.queue
      <4> HIDE DEF k
      <4> QED
        BY <1>0, <3>1, BatchEffect DEF k
    <3> HIDE DEF m
    <3>3. Route(n, m)
      BY <3>2, SameRoute
    <3> QED
      BY <1>0, <3>3, RouteSound DEF m
  <2> QED
    BY <1>3, <2>1, ReadOther
<1> QED
  BY <1>1, <1>2, <1>4, ReadAllBatch

\* write reads nothing.
LEMMA WriteOther ==
    ASSUME NEW n, Sound(n), NEW e \in End, NEW frame \in Frame, frame # DELIMITER
    PROVE  Write(n, e, frame).got = n.got
<1>0. n \in NetType
  BY DEF Sound
<1>1. CASE ~CanWrite(n, e)
  <2>1. Write(n, e, frame) = CheckWrite(n, e)
    BY <1>1 DEF Write
  <2>2. CheckWrite(n, e).got = n.got
    BY <1>0, CheckWriteEffect
  <2> QED
    BY <2>1, <2>2
<1>2. CASE CanWrite(n, e)
  <2> DEFINE q == n.end[e].out
  <2>1. q \in DOMAIN n.queue
    BY <1>2, ActiveOut DEF CanWrite
  <2>2. CASE More(frame)
    <3>1. Filling(n, Write(n, e, frame), e, q)
      BY <1>0, <1>2, <2>1, <2>2, WritePart
    <3> QED
      BY <3>1 DEF Filling
  <2>3. CASE ~More(frame)
    <3>1. Filling(n, Write(n, e, frame), e, q)
      BY <1>0, <1>2, <2>1, <2>3, WriteFlush
    <3> QED
      BY <3>1 DEF Filling
  <2> QED
    BY <2>2, <2>3
<1> QED
  BY <1>1, <1>2

\* What the threads rely on is kept where nothing else changes.
LEMMA UseKept ==
    ASSUME Use, Eased(net, net'), (half => HalfRead("sess"))',
           kind' = kind, attached' = attached, closed' = closed,
           sending' = "written" => sending = "written", sending' # "no" => sending # "no",
           midway' => midway \/ kind # "PUB", engine' => engine,
           ~Connects /\ owner' = "asked" /\ (engine' \/ conns' = 0) => closed
    PROVE  Use'
<1>0. Connects' <=> Connects
  BY ConnectsSame
<1>1. (sending = "written" => Room(net))'
  BY DEF Use, Eased, Room, Full
<1>2. (sending # "no" => attached /\ ~Connects)' /\ (midway => kind # "PUB")'
  BY <1>0 DEF Use
<1>3. (half => HalfRead("sess"))'
  OBVIOUS
<1>4. (~Connects /\ owner = "asked" /\ (engine \/ conns = 0) => closed)'
  BY <1>0
<1>5. (net.sent["sock"] # <<>> => attached)' /\ (closed /\ attached => ~Open(net, "sock"))'
  BY DEF Use, Eased, Open
<1>6. (~Connects /\ engine /\ net.sent["sock"] # <<>> => Behind(net.mail["sess"]))'
  BY <1>0 DEF Use, Eased, Behind
<1> QED
  BY <1>1, <1>2, <1>3, <1>4, <1>5, <1>6 DEF Use

\* What the engine has read in part is still there.
LEMMA HalfStays ==
    ASSUME Use, half' => half, net'.got["sess"] = net.got["sess"]
    PROVE  (half => HalfRead("sess"))'
BY DEF Use, HalfRead, Last

\* A socket that is not closed has told neither the session nor the listener to end.
LEMMA NoTerm ==
    ASSUME IInv, Use, ~Connects, engine, ~closed
    PROVE  /\ \A t \in Types(net.mail["sess"]) : t \notin {"term", "term_listener"}
           /\ Behind(net.mail["sess"])
<1>1. "term" \notin SessMail /\ "term_listener" \notin SessMail
  BY DEF IInv, SessionInv, Use
<1>2. \A t \in Types(net.mail["sess"]) : t \notin {"term", "term_listener"}
  BY <1>1 DEF SessMail
<1> QED
  BY <1>2, NoTermBehind

\* The socket writes.
LEMMA UseSocket ==
    ASSUME IInv, Use, Usable, net'.got["sess"] = net.got["sess"],
           Behind(net.mail["sess"]) => Behind(net'.mail["sess"]),
           kind' = kind, attached' = attached, closed' = closed,
           sending' = "written" => Room(net'), sending' # "no" => ~Connects,
           midway' = midway, half' = half, owner' = owner, conns' = conns, engine' = engine
    PROVE  Use'
<1>0. Connects' <=> Connects
  BY ConnectsSame
<1>1. (sending = "written" => Room(net))'
  BY DEF Room, Full
<1>2. (sending # "no" => attached /\ ~Connects)' /\ (midway => kind # "PUB")'
  BY <1>0 DEF Use, Usable
<1>3. (half => HalfRead("sess"))'
  BY DEF Use, HalfRead, Last
<1>4. (~Connects /\ owner = "asked" /\ (engine \/ conns = 0) => closed)'
  BY <1>0 DEF Use
<1>5. (net.sent["sock"] # <<>> => attached)' /\ (closed /\ attached => ~Open(net, "sock"))'
  BY DEF Usable
<1>6. (~Connects /\ engine /\ net.sent["sock"] # <<>> => Behind(net.mail["sess"]))'
  BY <1>0, NoTerm DEF Usable, Behind
<1> QED
  BY <1>1, <1>2, <1>3, <1>4, <1>5, <1>6 DEF Use

\* The flags of the layer are truth values.
LEMMA FlagTypes ==
    ASSUME IInv
    PROVE  /\ (sending = "written") \in BOOLEAN /\ (engine /\ midway) \in BOOLEAN
           /\ Faithful \in BOOLEAN /\ closed \in BOOLEAN /\ Loyally \in BOOLEAN
BY TypeFacts DEF Faithful, Loyally

\* They are so in the next state, and promise less.
LEMMA FlagsWeaker ==
    ASSUME IInv, kind' = kind, closed' = closed, engine' \in BOOLEAN, engine' => engine
    PROVE  /\ Faithful' \in BOOLEAN /\ closed' \in BOOLEAN /\ Loyally' \in BOOLEAN
           /\ (Faithful' => Faithful) /\ (closed => closed') /\ (Loyally' => Loyally)
<1>1. Connects' <=> Connects
  BY ConnectsSame
<1> QED
  BY <1>1, TypeFacts DEF Faithful, Loyally

\* A step that only does what is fine.
LEMMA FineAction ==
    ASSUME IInv, DataInv, Use, Fine(net, net'), (half => HalfRead("sess"))',
           UNCHANGED <<kind, attached, closed, sending, engine, midway, conns>>,
           ~Connects /\ owner' = "asked" /\ (engine \/ conns = 0) => closed
    PROVE  DataInv' /\ Use'
<1>1. Eased(net, net')
  BY EasedFacts
<1>2. Use'
  BY <1>1, UseKept
<1> DEFINE w == sending = "written"
           v == engine /\ midway
<1>3. w \in BOOLEAN /\ v \in BOOLEAN /\ Faithful \in BOOLEAN /\ closed \in BOOLEAN /\ Loyally \in BOOLEAN
  BY FlagTypes
<1>4. Faithful' = Faithful /\ Loyally' = Loyally
  BY ConnectsSame DEF Faithful, Loyally, Connects
<1>5. Data(net, w, v, Faithful, closed, Loyally)
  BY DEF DataInv
<1> HIDE DEF w, v
<1>6. Data(net', w, v, Faithful, closed, Loyally)
  BY <1>3, <1>5, FineData
<1>7. Data(net', sending' = "written", engine' /\ midway', Faithful', closed', Loyally')
  BY <1>4, <1>6 DEF w, v
<1> QED
  BY <1>2, <1>7, Carried

\* Who asked for the end of a session, where nothing of it changes.
LEMMA AskedKept ==
    ASSUME Use, owner' = owner
    PROVE  ~Connects /\ owner' = "asked" /\ (engine \/ conns = 0) => closed
BY DEF Use

------------------------------------------------------------------------------
(* The actions keep the sixth layer *)

\* Receive keeps the sixth layer.
LEMMA ReceiveData ==
    ASSUME IInv, Flows(net), DataInv, Use, Receive
    PROVE  DataInv' /\ Use'
<1> DEFINE e == "sock"
<1>0. e \in End /\ Peer(e) = "sess" /\ Layer(net) /\ Sound(net)
  BY NetLayer DEF Peer
<1>1. net' \in {Read(net, e), ReadMessage(net, e)}
  BY DEF Receive
<1>2. UNCHANGED <<kind, attached, closed, sending, engine, midway, conns, half, owner>>
  BY DEF Receive, sockVars, sessVars, ownVars, wire
<1> HIDE DEF e
<1>3. Fine(net, net') /\ net'.got[Peer(e)] = net.got[Peer(e)]
  BY <1>0, <1>1, ReadFine, ReadMessageFine, ReadOther, ReadsOther
<1>4. (half => HalfRead("sess"))'
  BY <1>0, <1>2, <1>3, HalfStays
<1> QED
  BY <1>2, <1>3, <1>4, AskedKept, FineAction

\* Pull keeps the sixth layer.
LEMMA PullData ==
    ASSUME IInv, Flows(net), DataInv, Use, Pull
    PROVE  DataInv' /\ Use'
<1> DEFINE e == "sess"
<1>0. e \in End /\ Peer(e) = "sock" /\ Layer(net) /\ Sound(net) /\ PairInv(net)
  BY NetLayer, InvFacts DEF Peer
<1>1. net' \in {Read(net, e), ReadMessage(net, e)}
  BY DEF Pull
<1>2. /\ UNCHANGED <<kind, attached, closed, sending, engine, midway, conns, owner>>
      /\ half' = (IF net'.got = net.got THEN half ELSE More(Last(net'.got["sess"])))
  BY DEF Pull, sockVars, ownVars
<1>3. (half => HalfRead("sess"))'
  <2>1. CASE net'.got = net.got
    BY <1>2, <2>1, HalfStays
  <2>2. CASE net'.got # net.got
    <3>1. net'.got["sess"] # <<>>
      <4> HIDE DEF e
      <4>1. net'.got[e] # <<>>
        BY <1>0, <1>1, <2>2, ReadGot, ReadMessageGot
      <4> QED
        BY <4>1 DEF e
    <3> QED
      BY <1>2, <2>2, <3>1 DEF HalfRead, Last, More
  <2> QED
    BY <2>1, <2>2
<1> HIDE DEF e
<1>4. Fine(net, net')
  BY <1>0, <1>1, ReadFine, ReadMessageFine
<1> QED
  BY <1>2, <1>3, <1>4, AskedKept, FineAction

\* A command is taken.
LEMMA RestFine ==
    ASSUME IInv, Flows(net), NEW x \in End, NEW type, Arrives(x, type)
    PROVE  /\ Fine(net, Rest(x)) /\ Rest(x).got = net.got
           /\ Layer(Rest(x)) /\ Sound(Rest(x)) /\ Rest(x) \in NetType
<1>1. Layer(Rest(x)) /\ Rest(x) \in NetType
  BY RestLayer
<1>2. net \in NetType /\ Sound(net)
  BY NetLayer
<1>3. net.mail[x] # <<>>
  BY DEF Arrives
<1>4. Calm(net, Rest(x))
  BY <1>2, <1>3, RestCalm DEF Rest
<1>5. Rest(x).got = net.got
  BY <1>4 DEF Calm
<1>6. Fine(net, Rest(x))
  BY <1>2, <1>4, CalmFine
<1> QED
  BY <1>1, <1>5, <1>6 DEF Layer

\* process_activate_read of the socket takes nothing the session has.
LEMMA ActivatedOther ==
    ASSUME NEW n, Layer(n), NEW e \in End
    PROVE  Activated(n, e).got["sess"] = n.got["sess"]
<1>0. Sound(n) /\ "sock" \in End /\ "sess" \in End /\ (e # "sock" => e = "sess") /\ Peer("sock") = "sess"
  BY DEF Layer, End, Peer
<1>1. CASE e = "sock"
  <2>1. ReadAll(n, e).got[Peer(e)] = n.got[Peer(e)]
    BY ReadsOther
  <2>2. ReadAll(n, "sock").got["sess"] = n.got["sess"]
    BY <1>0, <1>1, <2>1
  <2>3. Activated(n, e) \in {ReadAll(n, "sock"), n}
    BY <1>1 DEF Activated
  <2> QED
    BY <2>2, <2>3
<1>2. CASE e # "sock"
  <2>1. CheckRead(n, e).got = n.got
    BY <1>0, CheckReadOther
  <2>2. Activated(n, e) \in {CheckRead(n, e), n}
    BY <1>2 DEF Activated
  <2> QED
    BY <2>1, <2>2
<1> QED
  BY <1>1, <1>2

\* ActivateRead keeps the sixth layer.
LEMMA ActivateReadData ==
    ASSUME IInv, Flows(net), DataInv, Use, NEW e \in End, ActivateRead(e)
    PROVE  DataInv' /\ Use'
<1> DEFINE r == Rest(e)
           k == [r EXCEPT !.end[e].inActive = TRUE]
<1>0. net' = Activated(k, e) \/ net' = r
  BY DEF ActivateRead
<1>1. UNCHANGED <<kind, attached, closed, sending, engine, midway, conns, half, owner>>
  BY DEF ActivateRead, sockVars, sessVars, ownVars, wire
<1>2. Fine(net, r) /\ r.got = net.got /\ Layer(r) /\ Sound(r) /\ r \in NetType
  BY RestFine DEF ActivateRead
<1> HIDE DEF r
<1>3. Calm(r, k)
  BY <1>2, WakeCalm
<1>4. Layer(k)
  BY <1>2, WakeStill, StillLayer
<1>5. Fine(r, k) /\ k.got = r.got
  BY <1>2, <1>3, CalmFine DEF Calm
<1> HIDE DEF k
<1>6. Fine(k, Activated(k, e)) /\ Activated(k, e).got["sess"] = k.got["sess"]
  BY <1>4, ActivatedFine, ActivatedOther
<1>7. Fine(net, Activated(k, e))
  BY <1>2, <1>5, <1>6, FineTransitive
<1>8. Fine(net, net') /\ net'.got["sess"] = net.got["sess"]
  BY <1>0, <1>2, <1>5, <1>6, <1>7
<1>9. (half => HalfRead("sess"))'
  BY <1>1, <1>8, HalfStays
<1> QED
  BY <1>1, <1>8, <1>9, AskedKept, FineAction

\* ActivateWrite keeps the sixth layer.
LEMMA ActivateWriteData ==
    ASSUME IInv, Flows(net), DataInv, Use, NEW e \in End, ActivateWrite(e)
    PROVE  DataInv' /\ Use'
<1> DEFINE r == Rest(e)
           c == Command(e)[2]
           b == net.end[e].state = "active"
<1>0. UNCHANGED <<kind, attached, closed, sending, engine, midway, conns, half, owner>>
  BY DEF ActivateWrite, sockVars, sessVars, ownVars, wire
<1>1. net' = Credited(r, e, c, b)
  BY DEF ActivateWrite, Credited, State
<1>2. net.mail[e] # <<>> /\ Head(net.mail[e])[1] = "activate_write" /\ c = Head(net.mail[e])[2]
      /\ r = [net EXCEPT !.mail[e] = Tail(@)] /\ Arrives(e, "activate_write")
  BY DEF ActivateWrite, Arrives, Command, Rest
<1>3. Layer(net) /\ net \in NetType
  BY NetLayer
<1>4. Fine(net, net')
  BY <1>1, <1>2, <1>3, CreditFine
<1>5. r.got = net.got /\ r \in NetType
  BY <1>2, RestFine
<1>6. c \in Nat
  <2>1. net.mail[e] \in Seq(Cmd)
    BY <1>3, NetFields
  <2>2. Head(net.mail[e]) \in Cmd
    BY <1>2, <2>1
  <2> QED
    BY <1>2, <2>2 DEF Cmd
<1>7. net'.got = r.got
  <2>1. b \in BOOLEAN
    OBVIOUS
  <2> HIDE DEF r, c, b
  <2> QED
    BY <1>1, <1>5, <1>6, <2>1, CreditEffect
<1>8. (half => HalfRead("sess"))'
  BY <1>0, <1>5, <1>7, HalfStays
<1> QED
  BY <1>0, <1>4, <1>8, AskedKept, FineAction

\* PipeTerm keeps the sixth layer.
LEMMA PipeTermData ==
    ASSUME IInv, Flows(net), DataInv, Use, NEW e \in End, PipeTerm(e)
    PROVE  DataInv' /\ Use'
<1> DEFINE r == Rest(e)
<1>0. UNCHANGED <<kind, attached, closed, sending, engine, midway, conns, half, owner>>
  BY DEF PipeTerm, sockVars, sessVars, ownVars, wire
<1>1. net' = Answer(r, e)
  <2>1. r.end = net.end
    BY RestLayer DEF PipeTerm
  <2> QED
    BY <2>1 DEF PipeTerm, Answer, State
<1>2. net.mail[e] # <<>> /\ Head(net.mail[e])[1] = "pipe_term"
      /\ r = [net EXCEPT !.mail[e] = Tail(@)] /\ Arrives(e, "pipe_term")
  BY DEF PipeTerm, Arrives, Command, Rest
<1>3. Both(net)
  BY InvFacts
<1>4. Fine(net, net')
  BY <1>1, <1>2, <1>3, AnswerFine
<1>5. r.got = net.got /\ r \in NetType
  BY <1>2, RestFine
<1>6. net'.got = r.got
  <2> HIDE DEF r
  <2>1. Acknowledge(r, e, "term_req_sent2").got = r.got /\ Acknowledge(r, e, "term_ack_sent").got = r.got
    <3>1. "term_req_sent2" \in States /\ "term_ack_sent" \in States
      BY DEF States
    <3> QED
      BY <1>5, <3>1, AcknowledgeEffect
  <2>2. Goto(r, e, "waiting_for_delimiter").got = r.got
    BY <1>5, GotoEffect DEF States
  <2> QED
    BY <1>1, <2>1, <2>2 DEF Answer
<1>7. (half => HalfRead("sess"))'
  BY <1>0, <1>5, <1>6, HalfStays
<1> QED
  BY <1>0, <1>4, <1>7, AskedKept, FineAction

\* A command that is not about what crosses is sent.
LEMMA SendFine ==
    ASSUME NEW n, Sound(n), NEW x \in End, NEW type \in {"term", "term_ack", "child_ack", "term_listener", "term_req", "bind"}
    PROVE  Fine(n, Send(n, x, type, 0)) /\ Send(n, x, type, 0).got = n.got /\ Send(n, x, type, 0).end = n.end
           /\ Sound(Send(n, x, type, 0))
<1>0. n \in NetType
  BY DEF Sound
<1>1. type \in (PipeTypes \cup OwnTypes) \ {"activate_write", "pipe_term"} /\ 0 \in Nat
  BY DEF OwnTypes
<1>2. Calm(n, Send(n, x, type, 0))
  BY <1>0, <1>1, SendCalm
<1>3. Fine(n, Send(n, x, type, 0))
  BY <1>2, CalmFine
<1>4. type \in (PipeTypes \cup OwnTypes) \ {"activate_write"}
  BY <1>1
<1>5. Send(n, x, type, 0).end = n.end /\ Still(n, Send(n, x, type, 0))
  BY <1>0, <1>1, <1>4, SendStill
<1>6. Sound(Send(n, x, type, 0))
  BY <1>5, RouteSound DEF Still
<1> QED
  BY <1>2, <1>3, <1>5, <1>6 DEF Calm

\* A command is taken, another one may be sent.
LEMMA PassData ==
    ASSUME IInv, Flows(net), DataInv, Use, NEW x \in End, NEW type, Arrives(x, type),
           \/ net' = Rest(x)
           \/ net' = Send(Rest(x), "sess", "term", 0)
           \/ net' = Send(Rest(x), "sock", "term_ack", 0),
           UNCHANGED <<kind, attached, closed, sending, engine, midway, conns, half>>,
           ~Connects /\ owner' = "asked" /\ (engine \/ conns = 0) => closed
    PROVE  DataInv' /\ Use'
<1> DEFINE r == Rest(x)
<1>1. Fine(net, r) /\ r.got = net.got /\ Sound(r)
  BY RestFine
<1>2. "sock" \in End /\ "sess" \in End
  BY DEF End
<1>3. \/ net' = r
      \/ net' = Send(r, "sess", "term", 0)
      \/ net' = Send(r, "sock", "term_ack", 0)
  OBVIOUS
<1> HIDE DEF r
<1>4. /\ Fine(r, Send(r, "sess", "term", 0)) /\ Send(r, "sess", "term", 0).got = r.got
      /\ Fine(r, Send(r, "sock", "term_ack", 0)) /\ Send(r, "sock", "term_ack", 0).got = r.got
  BY <1>1, <1>2, SendFine
<1>5. Fine(net, net') /\ net'.got = net.got
  BY <1>1, <1>3, <1>4, FineTransitive
<1>6. (half => HalfRead("sess"))'
  BY <1>5, HalfStays
<1> QED
  BY <1>5, <1>6, FineAction

\* Own keeps the sixth layer.
LEMMA OwnData ==
    ASSUME IInv, Flows(net), DataInv, Use, Own
    PROVE  DataInv' /\ Use'
<1>1. Arrives("sock", "own") /\ "sock" \in End
  BY DEF Own, End
<1>2. net' = Rest("sock") \/ net' = Send(Rest("sock"), "sess", "term", 0)
  BY DEF Own
<1>3. UNCHANGED <<kind, attached, closed, sending, engine, midway, conns, half>>
  BY DEF Own, sockVars, sessVars, wire
<1>4. Connects
  <2>1. "own" \in SockMail
    BY <1>1, RestOwn, Zenon DEF OwnTypes
  <2> QED
    BY <2>1 DEF IInv, SocketInv, SessionInv
<1> QED
  BY <1>1, <1>2, <1>3, <1>4, PassData

\* TermAck keeps the sixth layer.
LEMMA TermAckData ==
    ASSUME IInv, Flows(net), DataInv, Use, TermAck
    PROVE  DataInv' /\ Use'
<1>1. Arrives("sock", "term_ack") /\ "sock" \in End
  BY DEF TermAck, End
<1>2. net' = Rest("sock")
  BY DEF TermAck
<1>3. UNCHANGED <<kind, attached, closed, sending, engine, midway, conns, half, owner>>
  BY DEF TermAck, sessVars, ownVars, wire
<1> QED
  BY <1>1, <1>2, <1>3, AskedKept, PassData

\* TermListener keeps the sixth layer.
LEMMA TermListenerData ==
    ASSUME IInv, Flows(net), DataInv, Use, TermListener
    PROVE  DataInv' /\ Use'
<1>1. Arrives("sess", "term_listener") /\ "sess" \in End
  BY DEF TermListener, End
<1>2. owner \in {"owned", "asked", "freed"}
  <2>1. "term_listener" \in SessMail
    BY <1>1, RestOwn, Zenon DEF OwnTypes
  <2> QED
    BY <2>1, TypeFacts DEF IInv, SessionInv
<1>3. \/ net' = Rest("sess")
      \/ net' = Send(Rest("sess"), "sess", "term", 0)
      \/ net' = Send(Rest("sess"), "sock", "term_ack", 0)
  BY <1>2 DEF TermListener
<1>4. UNCHANGED <<kind, attached, closed, sending, engine, midway, conns, half>>
  BY DEF TermListener, sockVars, sessVars, wire
<1>5. closed
  <2>1. "term_listener" \in SessMail
    BY <1>1, RestOwn, Zenon DEF OwnTypes
  <2> QED
    BY <2>1 DEF IInv, SessionInv
<1> QED
  BY <1>1, <1>3, <1>4, <1>5, PassData

\* TermReq keeps the sixth layer.
LEMMA TermReqData ==
    ASSUME IInv, Flows(net), DataInv, Use, TermReq
    PROVE  DataInv' /\ Use'
<1>1. Arrives("sess", "term_req") /\ "sess" \in End
  BY DEF TermReq, End
<1>3. \/ net' = Rest("sess")
      \/ net' = Send(Rest("sess"), "sess", "term", 0)
  BY DEF TermReq
<1>4. UNCHANGED <<kind, attached, closed, sending, engine, midway, conns, half>>
  BY DEF TermReq, sockVars, sessVars, wire
<1>5. conns = 1 /\ ~engine
  <2>1. "term_req" \in SessMail
    BY <1>1, RestOwn, Zenon DEF OwnTypes
  <2> QED
    BY <2>1 DEF IInv, SessionInv
<1> QED
  BY <1>1, <1>3, <1>4, <1>5, PassData

\* ChildAck keeps the sixth layer.
LEMMA ChildAckData ==
    ASSUME IInv, Flows(net), DataInv, Use, ChildAck
    PROVE  DataInv' /\ Use'
<1>1. Arrives("sess", "child_ack") /\ "sess" \in End
  BY DEF ChildAck, End
<1>3. \/ net' = Rest("sess")
      \/ net' = Send(Rest("sess"), "sock", "term_ack", 0)
  BY DEF ChildAck
<1>4. UNCHANGED <<kind, attached, closed, sending, engine, midway, conns, half>> /\ owner' = "freed"
  BY DEF ChildAck, sockVars, sessVars, wire
<1> QED
  BY <1>1, <1>3, <1>4, PassData

\* Only an active end has a message begun.
LEMMA AnyBegun ==
    ASSUME NEW n, NEW e \in End, n.end[e].state # "active",
           NEW b \in BOOLEAN, NEW f \in BOOLEAN, NEW c \in BOOLEAN, Good(n, e, b, f, c), NEW d \in BOOLEAN
    PROVE  Good(n, e, d, f, c)
BY DEF Good, Wire, Began

\* A step that only does what is fine, and may end a thread's part in it.
LEMMA FineEnding ==
    ASSUME IInv, DataInv, Use, Fine(net, net'), (half => HalfRead("sess"))',
           UNCHANGED <<kind, attached, closed, midway, conns>>,
           \/ sending' = sending
           \/ sending = "written" /\ sending' = "dropped" /\ net'.end["sock"].state # "active",
           \/ engine' = engine
           \/ engine' = FALSE /\ net'.end["sess"].state # "active",
           ~Connects /\ owner' = "asked" /\ (engine' \/ conns = 0) => closed
    PROVE  DataInv' /\ Use'
<1>1. Eased(net, net')
  BY EasedFacts
<1>18. kind' = kind /\ closed' = closed /\ midway' = midway /\ conns' = conns
  OBVIOUS
<1>0. engine \in BOOLEAN /\ engine' \in BOOLEAN /\ (engine' => engine)
  <2>1. engine \in BOOLEAN
    BY TypeFacts
  <2>2. CASE engine' = engine
    BY <2>1, <2>2
  <2>3. CASE engine' = FALSE
    BY <2>1, <2>3
  <2> QED
    BY <2>2, <2>3
<1>2. Use'
  <2>1. (sending' = "written" => sending = "written") /\ (sending' # "no" => sending # "no")
    OBVIOUS
  <2> QED
    BY <1>0, <1>1, <2>1, UseKept
<1> DEFINE w == sending = "written"
           v == engine /\ midway
           x == sending' = "written"
           y == engine' /\ midway'
<1>3. w \in BOOLEAN /\ v \in BOOLEAN /\ Faithful \in BOOLEAN /\ closed \in BOOLEAN /\ Loyally \in BOOLEAN
  BY FlagTypes
<1>4. /\ Faithful' \in BOOLEAN /\ closed' \in BOOLEAN /\ Loyally' \in BOOLEAN
      /\ (Faithful' => Faithful) /\ (closed => closed') /\ (Loyally' => Loyally)
  BY <1>0, <1>18, FlagsWeaker
<1>5. x \in BOOLEAN /\ y \in BOOLEAN
  BY <1>3, <1>0, TypeFacts
<1>6. x = w \/ net'.end["sock"].state # "active"
  OBVIOUS
<1>7. y = v \/ net'.end["sess"].state # "active"
  OBVIOUS
<1>8. Data(net, w, v, Faithful, closed, Loyally)
  BY DEF DataInv
<1>9. "sock" \in End /\ "sess" \in End
  BY DEF End
<1> HIDE DEF w, v, x, y
<1>10. Data(net', w, v, Faithful, closed, Loyally)
  BY <1>3, <1>8, FineData
<1>11. Data(net', w, v, Faithful', closed', Loyally')
  BY <1>3, <1>4, <1>10, DataWeaker
<1> DEFINE s == "sock"
           t == "sess"
           o == FALSE
<1>12. Good(net', s, w, Faithful', closed') /\ Good(net', t, v, Loyally', o) /\ o \in BOOLEAN
  BY <1>11 DEF Data
<1>13. s \in End /\ t \in End /\ (x = w \/ net'.end[s].state # "active") /\ (y = v \/ net'.end[t].state # "active")
  BY <1>6, <1>7, <1>9
<1> HIDE DEF s, t, o
<1>14. Good(net', s, x, Faithful', closed')
  BY <1>3, <1>4, <1>5, <1>12, <1>13, AnyBegun
<1>15. Good(net', t, y, Loyally', o)
  BY <1>3, <1>4, <1>5, <1>12, <1>13, AnyBegun
<1>16. Data(net', x, y, Faithful', closed', Loyally')
  BY <1>11, <1>14, <1>15 DEF Data, s, t, o
<1>17. Data(net', sending' = "written", engine' /\ midway', Faithful', closed', Loyally')
  BY <1>16 DEF x, y
<1> QED
  BY <1>2, <1>17, Carried

\* The end is deleted: what was read stays read.
LEMMA DeallocateOther ==
    ASSUME NEW n, NEW e \in End, Ending(n, e)
    PROVE  Deallocate(n, e).got = n.got
<1> DEFINE q == n.end[e].in
<1>1. n \in NetType /\ q \in DOMAIN n.queue /\ q = n.end[e].in
  BY DEF Ending, RefInv
<1> HIDE DEF q
<1> QED
  BY <1>1, DeallocateEffect

\* SocketPipeTermAck keeps the sixth layer.
LEMMA SocketPipeTermAckData ==
    ASSUME IInv, Flows(net), DataInv, Use, SocketPipeTermAck
    PROVE  DataInv' /\ Use'
<1> DEFINE r == Rest("sock")
           e == "sock"
<1>1. Arrives("sock", "pipe_term_ack") /\ net' = Deallocate(r, e)
  BY DEF SocketPipeTermAck
<1>2. e \in End
  BY DEF End
<1>3. Fine(net, r) /\ r.got = net.got
  BY <1>1, <1>2, RestFine
<1>4. Ending(r, e) /\ QueueInv(r)
  BY <1>1, <1>2, RestEnding
<1> HIDE DEF r, e
<1>5. Fine(net, net') /\ net'.got = net.got
  BY <1>1, <1>2, <1>3, <1>4, DeallocateFine, DeallocateOther, FineTransitive
<1>6. net'.end[e].state = "deleted"
  BY <1>1, <1>2, <1>4, EndedBoth
<1>7. /\ UNCHANGED <<kind, attached, closed, midway, conns, half, engine, owner>>
      /\ sending' = (IF sending = "written" THEN "dropped" ELSE sending)
  BY DEF SocketPipeTermAck, sessVars, ownVars, wire
<1>8. (half => HalfRead("sess"))'
  BY <1>5, <1>7, HalfStays
<1>9. ~Connects /\ owner' = "asked" /\ (engine' \/ conns = 0) => closed
  BY <1>7, AskedKept
<1> QED
  BY <1>5, <1>6, <1>7, <1>8, <1>9, FineEnding DEF e

\* SessionPipeTermAck keeps the sixth layer.
LEMMA SessionPipeTermAckData ==
    ASSUME IInv, Flows(net), DataInv, Use, SessionPipeTermAck
    PROVE  DataInv' /\ Use'
<1> DEFINE r == Rest("sess")
           k == IF pending THEN Confirm(r) ELSE r
           e == "sess"
<1>1. net' = Deallocate(k, e) /\ Arrives("sess", "pipe_term_ack") /\ e \in End
  BY DEF SessionPipeTermAck, End
<1>0. Fine(net, r) /\ r.got = net.got /\ Sound(r)
  BY <1>1, RestFine
<1>2. Ending(r, "sess") /\ QueueInv(r) /\ Alike(net, r) /\ Has(net, "sess")
  BY <1>1, InvFacts, RestEnding
<1> HIDE DEF r
<1>3. "term_ack" \notin SockMail /\ "child_ack" \notin SessMail
  BY <1>2, TypeFacts DEF IInv, SessionInv, SocketInv
<1>4. "term_ack" \notin Types(r.mail["sock"]) /\ "child_ack" \notin Types(r.mail["sess"])
  <2>1. /\ Becomes(SockMail, Types(r.mail["sock"]), "", "")
        /\ Becomes(SessMail, Types(r.mail["sess"]), "", "")
    BY <1>2, InvFacts, AlikeSame, Zenon DEF Same, SockMail, SessMail
  <2> QED
    BY <1>3, <2>1 DEF Becomes, OwnTypes
<1>5. Ending(k, "sess") /\ QueueInv(k) /\ Fine(r, k) /\ k.got = r.got
  <2>1. CASE ~pending
    <3>1. k = r
      BY <2>1
    <3> HIDE DEF k
    <3> QED
      BY <3>1, <1>2, FineReflexive
  <2>2. CASE pending
    <3> DEFINE y == IF Connects THEN "sock" ELSE "sess"
               t == IF Connects THEN "term_ack" ELSE "child_ack"
               s == Send(r, y, t, 0)
    <3>1. k = s
      BY <2>2 DEF Confirm
    <3>2. /\ y \in End /\ t \in {"term_ack", "child_ack"} /\ t \in OwnTypes
          /\ t \notin Types(r.mail[y])
          /\ t \in {"term", "term_ack", "child_ack", "term_listener", "term_req", "bind"}
      BY <1>4 DEF End, OwnTypes
    <3> HIDE DEF y, t, k
    <3>3. /\ Ending(s, "sess") /\ s.end = r.end /\ s.queue = r.queue
          /\ s.mail[Peer(y)] = r.mail[Peer(y)]
          /\ Types(s.mail[y]) = Types(r.mail[y]) \cup {t}
          /\ Grown(r.mail[y], s.mail[y])
      BY <3>2, <1>2, InvFacts, EndingSend
    <3>6. Fine(r, s) /\ s.got = r.got
      BY <1>0, <3>2, SendFine
    <3> HIDE DEF s
    <3>4. r \in NetType /\ s \in NetType
      BY <1>2, <3>3 DEF Ending
    <3>5. QueueInv(s)
      BY <3>4, <3>2, <3>3, <1>2, MailQueue
    <3> QED
      BY <3>1, <3>3, <3>5, <3>6
  <2> QED
    BY <2>1, <2>2, TypeFacts
<1>6. Ending(k, e)
  BY <1>5
<1>7. /\ UNCHANGED <<kind, attached, closed, midway, conns, half, sending, owner>>
      /\ engine' = engine \/ engine' = FALSE
  BY DEF SessionPipeTermAck, sockVars, ownVars, wire
<1> HIDE DEF k, e
<1>8. Fine(net, net') /\ net'.got = net.got /\ net'.end[e].state = "deleted"
  BY <1>0, <1>1, <1>5, <1>6, DeallocateFine, DeallocateOther, EndedBoth, FineTransitive
<1>9. (half => HalfRead("sess"))'
  BY <1>7, <1>8, HalfStays
<1>10. ~Connects /\ owner' = "asked" /\ (engine' \/ conns = 0) => closed
  BY <1>7 DEF Use
<1> QED
  BY <1>7, <1>8, <1>9, <1>10, FineEnding DEF e

\* An accepted session that is told to end while its engine holds has taken all
\* that its socket has sent, or its socket has sent the end of the line.
LEMMA TermHeeded ==
    ASSUME IInv, Flows(net), DataInv, Use, Arrives("sess", "term"), ~Connects, engine,
           net.end["sess"].state = "active"
    PROVE  Len(net.got["sess"]) = Len(net.sent["sock"]) /\ closed
<1>1. "term" \in SessMail /\ "sess" \in End /\ "sock" \in End /\ net \in NetType
  BY RestOwn, InvFacts, Zenon DEF OwnTypes
<1>2. owner = "asked"
  BY <1>1 DEF IInv, SessionInv
<1>3. closed
  BY <1>2 DEF Use
<1>4. net.sent["sock"] = <<>>
  <2> SUFFICES ASSUME net.sent["sock"] # <<>> PROVE FALSE
    OBVIOUS
  <2>1. attached /\ Behind(net.mail["sess"])
    BY DEF Use
  <2>2. net.end["sock"].state \notin {"active", "delimiter_received", "waiting_for_delimiter"}
    BY <1>3, <2>1 DEF Use, Open
  <2>3. EndInv(net, "sock") /\ EndInv(net, "sess")
    BY InvFacts DEF PairInv
  <2>4. /\ EndOK("sock", net.end["sock"].state, net.end["sess"].state, net.end["sock"].out, net.mail["sess"])
        /\ EndOK("sess", net.end["sess"].state, net.end["sock"].state, net.end["sess"].out, net.mail["sock"])
    BY <2>3 DEF EndInv, Peer
  <2>5. net.end["sock"].state \in Unasked
    BY <2>4 DEF EndOK, Compatible
  <2>6. net.end["sock"].state = "term_req_sent1"
    BY <2>2, <2>5 DEF Unasked
  <2>7. "pipe_term" \in Types(net.mail["sess"])
    BY <2>4, <2>6 DEF EndOK, Unasked
  <2>8. PICK j \in DOMAIN net.mail["sess"] : net.mail["sess"][j][1] = "pipe_term"
    BY <2>7 DEF Types
  <2>9. net.mail["sess"] \in Seq(Cmd) /\ net.mail["sess"] # <<>> /\ Head(net.mail["sess"])[1] = "term"
    BY <1>1 DEF NetType, Arrives, Command
  <2>10. 1 \in DOMAIN net.mail["sess"] /\ net.mail["sess"][1][1] = "term"
    BY <2>9
  <2>11. 1 < j
    BY <2>8, <2>9, <2>10
  <2> QED
    BY <2>1, <2>8, <2>10, <2>11 DEF Behind
<1>5. Line(net, "sock")
  BY DEF DataInv, Data, Good, Wire, Connects
<1>6. Streams(net, "sock")
  BY <1>5 DEF Line, LineTo
<1>7. Len(net.got["sess"]) <= Len(net.sent["sock"])
  BY <1>6 DEF Streams, Peer
<1>8. Len(net.got["sess"]) \in Nat /\ Len(net.sent["sock"]) = 0
  BY <1>1, <1>4 DEF NetType
<1> QED
  BY <1>3, <1>7, <1>8

\* The socket ends the pipe: its line says no more, and it need not hear more.
LEMMA SockCut ==
    ASSUME NEW n, Sound(n), NEW m, Terminated(n, m, "sock"),
           NEW w \in BOOLEAN, NEW v \in BOOLEAN, NEW f \in BOOLEAN, NEW c \in BOOLEAN, NEW h \in BOOLEAN,
           Data(n, w, v, f, c, h), NEW d \in BOOLEAN, NEW g \in BOOLEAN, ~g
    PROVE  Data(m, d, v, f, c, g) /\ m.sent = n.sent /\ (Room(n) => Room(m))
<1> DEFINE e == "sock"
           o == FALSE
<1>1. e \in End /\ o \in BOOLEAN /\ Terminated(n, m, e) /\ Peer(e) = "sess"
  BY DEF End, Peer
<1>2. Good(n, e, w, f, c) /\ Good(n, Peer(e), v, h, o) /\ Thin(n) /\ Short(n)
  BY <1>1 DEF Data
<1> HIDE DEF e, o
<1>3. Cut(n, m, e)
  BY <1>1, TerminatedCut
<1>8. Good(m, e, FALSE, f, c) /\ Good(m, Peer(e), v, FALSE, o)
  BY <1>1, <1>2, <1>3 DEF Cut
<1>9. g = FALSE
  OBVIOUS
<1>4. Good(m, e, FALSE, f, c) /\ Good(m, Peer(e), v, g, o)
  BY <1>8, <1>9, Zenon
<1>5. m.end[e].state # "active"
  BY <1>1, Zenon DEF Terminated
<1>6. Good(m, e, d, f, c)
  <2> DEFINE z == FALSE
  <2>1. z \in BOOLEAN /\ Good(m, e, z, f, c)
    BY <1>4
  <2> HIDE DEF z
  <2> QED
    BY <1>1, <1>5, <2>1, AnyBegun
<1>7. Thin(m) /\ Short(m) /\ m.sent = n.sent /\ (Room(n) => Room(m))
  BY <1>2, <1>3 DEF Cut
<1> QED
  BY <1>1, <1>4, <1>6, <1>7 DEF Data, e, o

\* The session ends the pipe: what it need not hear is the matter of linger.
LEMMA SessCut ==
    ASSUME NEW n, Sound(n), NEW m, Terminated(n, m, "sess"),
           NEW w \in BOOLEAN, NEW v \in BOOLEAN, NEW f \in BOOLEAN, NEW c \in BOOLEAN, NEW h \in BOOLEAN,
           Data(n, w, v, f, c, h), NEW d \in BOOLEAN,
           NEW g \in BOOLEAN, g => f /\ Heeds(n, m, "sess"),
           g /\ n.end["sess"].state = "active" =>
               Len(n.got["sess"]) = Len(n.sent["sock"]) /\ (n.end["sock"].state # "active" \/ c)
    PROVE  Data(m, w, d, g, c, h) /\ m.sent = n.sent /\ (Room(n) => Room(m))
<1> DEFINE e == "sess"
           o == FALSE
<1>1. e \in End /\ o \in BOOLEAN /\ Terminated(n, m, e) /\ Peer(e) = "sock"
  BY DEF End, Peer
<1>2. Good(n, Peer(e), w, f, c) /\ Good(n, e, v, h, o) /\ Thin(n) /\ Short(n)
  BY <1>1 DEF Data
<1>8. /\ g => f /\ Heeds(n, m, e)
      /\ g /\ n.end[e].state = "active" =>
               Len(n.got[e]) = Len(n.sent[Peer(e)]) /\ (n.end[Peer(e)].state # "active" \/ c)
  BY <1>1
<1> HIDE DEF e, o
<1>3. Cut(n, m, e)
  BY <1>1, TerminatedCut
<1>4. Good(m, e, FALSE, h, o) /\ Good(m, Peer(e), w, FALSE, c)
  BY <1>1, <1>2, <1>3, Zenon DEF Cut
<1>5. m.end[e].state # "active"
  BY <1>1, Zenon DEF Terminated
<1>6. Good(m, e, d, h, o)
  <2> DEFINE z == FALSE
  <2>1. z \in BOOLEAN /\ Good(m, e, z, h, o)
    BY <1>4
  <2> HIDE DEF z
  <2> QED
    BY <1>1, <1>5, <2>1, AnyBegun
<1>9. Good(m, Peer(e), w, g, c)
  <2>1. CASE g
    <3>1. g = TRUE /\ f = TRUE /\ Heeds(n, m, e)
      BY <2>1, <1>8
    <3>2. Good(n, Peer(e), w, TRUE, c)
      BY <1>2, <3>1
    <3>3. n.end[e].state = "active" => /\ Len(n.got[e]) = Len(n.sent[Peer(e)])
                                       /\ n.end[Peer(e)].state # "active" \/ c
      BY <2>1, <1>8
    <3>4. Good(m, Peer(e), w, TRUE, c)
      BY <3>1, <3>2, <3>3 DEF Heeds
    <3> QED
      BY <3>1, <3>4
  <2>2. CASE ~g
    <3>1. g = FALSE
      BY <2>2
    <3> QED
      BY <1>4, <3>1
  <2> QED
    BY <2>1, <2>2
<1>7. Thin(m) /\ Short(m) /\ m.sent = n.sent /\ (Room(n) => Room(m))
  BY <1>2, <1>3 DEF Cut
<1> QED
  BY <1>1, <1>6, <1>7, <1>9 DEF Data, e, o

\* Term keeps the sixth layer.
LEMMA TermData ==
    ASSUME IInv, Flows(net), DataInv, Use, Term
    PROVE  DataInv' /\ Use'
<1> DEFINE r == Rest("sess")
<1>1. Arrives("sess", "term") /\ "sess" \in End /\ "sock" \in End
  BY DEF Term, End
<1>2. Fine(net, r) /\ r.got = net.got /\ Sound(r) /\ Layer(r)
  BY <1>1, RestFine
<1>3. Both(r) /\ r.end = net.end
  BY <1>1, RestOwn, Zenon DEF OwnTypes
<1>4. UNCHANGED <<kind, attached, closed, midway, conns, half, sending, owner>>
  BY DEF Term, sockVars, ownVars, wire
<1>5. CASE ~Has(net, "sess")
  <2>1. net' = Send(r, "sock", "term_ack", 0) \/ net' = Send(r, "sess", "child_ack", 0)
    BY <1>5 DEF Term, Confirm
  <2>2. engine' = FALSE
    BY <1>5 DEF Term
  <2> HIDE DEF r
  <2>3. /\ Fine(r, Send(r, "sock", "term_ack", 0)) /\ Send(r, "sock", "term_ack", 0).got = r.got
        /\ Send(r, "sock", "term_ack", 0).end = r.end
        /\ Fine(r, Send(r, "sess", "child_ack", 0)) /\ Send(r, "sess", "child_ack", 0).got = r.got
        /\ Send(r, "sess", "child_ack", 0).end = r.end
    BY <1>1, <1>2, SendFine
  <2>4. Fine(net, net') /\ net'.got = net.got /\ net'.end = net.end
    BY <1>2, <1>3, <2>1, <2>3, FineTransitive
  <2>5. net'.end["sess"].state # "active"
    BY <1>5, <2>4 DEF Has
  <2>6. (half => HalfRead("sess"))'
    BY <1>4, <2>4, HalfStays
  <2>7. ~Connects /\ owner' = "asked" /\ (engine' \/ conns = 0) => closed
    BY <1>4, <2>2 DEF Use
  <2> QED
    BY <1>4, <2>2, <2>4, <2>5, <2>6, <2>7, FineEnding
<1>6. CASE Has(net, "sess")
  <2> DEFINE n == Terminate(r, "sess", Lingers)
             w == sending = "written"
             v == engine /\ midway
             g == Faithful
             h == Loyally
  <2>1. net' = IF engine THEN n ELSE CheckRead(n, "sess")
    BY <1>6 DEF Term
  <2>2. engine' = engine
    BY <1>6 DEF Term
  <2>3. w \in BOOLEAN /\ v \in BOOLEAN /\ g \in BOOLEAN /\ closed \in BOOLEAN /\ h \in BOOLEAN
    BY FlagTypes
  <2>4. Data(net, w, v, g, closed, h)
    BY DEF DataInv
  <2>5. Lingers \in BOOLEAN /\ Has(r, "sess") /\ (g => Lingers /\ engine /\ ~Connects)
    BY <1>3, <1>6 DEF Lingers, Has, Connects, Faithful
  <2>6. g /\ net.end["sess"].state = "active" =>
           Len(net.got["sess"]) = Len(net.sent["sock"]) /\ closed
    BY <1>1, <2>5, TermHeeded
  <2>7. r.sent = net.sent /\ (Behind(net.mail["sess"]) => Behind(r.mail["sess"]))
    BY <1>2 DEF Fine
  <2>17. g => g
    OBVIOUS
  <2> HIDE DEF r, w, v, g, h
  <2>8. Data(r, w, v, g, closed, h)
    BY <1>2, <2>3, <2>4, FineData
  <2>9. Parted(r, n, "sess", Lingers)
    BY <1>1, <1>3, <2>5, TerminateParted
  <2>10. Layer(n)
    BY <1>1, <1>2, <2>5, TerminateLayer
  <2> HIDE DEF n
  <2>11. /\ Terminated(r, n, "sess") /\ n.end["sess"].delay = Lingers
         /\ Lingers /\ Reads(r, "sess") /\ r.end["sess"].state # "active" => Reads(n, "sess")
         /\ n.mail["sess"] = r.mail["sess"]
    BY <2>9 DEF Parted
  <2>12. g => Heeds(r, n, "sess")
    <3>1. r.end["sess"].state # "none"
      BY <2>5 DEF Has
    <3> QED
      BY <1>1, <1>2, <2>5, <2>11, <3>1, TerminatedCut
  <2>13. /\ g => g /\ Heeds(r, n, "sess")
         /\ g /\ r.end["sess"].state = "active" =>
              Len(r.got["sess"]) = Len(r.sent["sock"]) /\ (r.end["sock"].state # "active" \/ closed)
    BY <1>2, <1>3, <2>6, <2>7, <2>12
  <2>14. Data(n, w, v, g, closed, h) /\ n.sent = r.sent /\ (Room(r) => Room(n))
    BY <1>2, <2>3, <2>8, <2>11, <2>13, SessCut
  <2>15. Eased(r, n) /\ n.got = r.got
    <3>1. n.end["sock"] = r.end["sock"] /\ n.got = r.got
      BY <2>11 DEF Terminated, Peer
    <3> QED
      BY <3>1, <2>11, <2>14 DEF Eased, Open
  <2>16. Sound(n)
    BY <2>10 DEF Layer
  <2>18. Fine(n, CheckRead(n, "sess")) /\ CheckRead(n, "sess").got = n.got
    BY <1>1, <2>16, CheckReadFine, CheckReadOther
  <2>19. Fine(n, net') /\ net'.got = n.got
    BY <2>1, <2>18, FineReflexive
  <2>20. Data(net', w, v, g, closed, h)
    BY <2>3, <2>14, <2>19, FineData
  <2>21. Eased(net, net')
    BY <1>2, <2>15, <2>19, EasedFacts
  <2>22. net'.got["sess"] = net.got["sess"]
    BY <1>2, <2>15, <2>19
  <2>23. (half => HalfRead("sess"))'
    BY <1>4, <2>22, HalfStays
  <2>24. ~Connects /\ owner' = "asked" /\ (engine' \/ conns' = 0) => closed
    BY <1>4, <2>2 DEF Use
  <2>25. Use'
    BY <1>4, <2>2, <2>21, <2>23, <2>24, UseKept
  <2>26. Data(net', sending' = "written", engine' /\ midway', Faithful', closed', Loyally')
    <3>1. Faithful' = g /\ Loyally' = h
      BY <1>4, <2>2, ConnectsSame DEF Faithful, Loyally, g, h, Connects
    <3> QED
      BY <1>4, <2>2, <2>20, <3>1 DEF w, v
  <2> QED
    BY <1>4, <2>25, <2>26, Carried
<1> QED
  BY <1>5, <1>6

\* PUB sets nodelay: its socket need not hear its session out.
LEMMA DelayData ==
    ASSUME NEW n \in NetType, NEW w \in BOOLEAN, NEW v \in BOOLEAN, NEW f \in BOOLEAN, NEW c \in BOOLEAN,
           Data(n, w, v, f, c, FALSE), NEW delay \in BOOLEAN
    PROVE  LET m == [n EXCEPT !.end["sock"].delay = delay]
           IN Data(m, w, v, f, c, FALSE) /\ m.sent = n.sent /\ m.got = n.got
<1> DEFINE m == [n EXCEPT !.end["sock"].delay = delay]
           o == FALSE
           e == "sock"
           x == "sess"
<1>1. e \in End /\ x \in End /\ Peer(e) = x /\ Peer(x) = e /\ o \in BOOLEAN /\ "sock" \in End
  BY DEF End, Peer
<1>2. /\ m.queue = n.queue /\ m.sent = n.sent /\ m.got = n.got
      /\ m.end[Peer("sock")] = n.end[Peer("sock")] /\ m.end["sock"].state = n.end["sock"].state
      /\ m.end["sock"].inActive = n.end["sock"].inActive
      /\ Points(m.end["sock"], n.end["sock"])
  <2> DEFINE y == "sock"
  <2>1. y \in End /\ m = [n EXCEPT !.end[y].delay = delay]
    BY <1>1
  <2> HIDE DEF y, m
  <2>2. /\ m.queue = n.queue /\ m.sent = n.sent /\ m.got = n.got
        /\ m.end[Peer(y)] = n.end[Peer(y)] /\ m.end[y].state = n.end[y].state
        /\ m.end[y].inActive = n.end[y].inActive /\ Points(m.end[y], n.end[y])
    BY <2>1, DelayEffect
  <2> QED
    BY <2>2 DEF y
<1> HIDE DEF m
<1>3. m.end[x] = n.end[x] /\ m.end[e].in = n.end[e].in /\ m.end[e].out = n.end[e].out /\ m.end[e].state = n.end[e].state
      /\ m.end[e].inActive = n.end[e].inActive
  BY <1>2 DEF Points, Peer
<1>4. Good(n, e, w, f, c) /\ Good(n, x, v, o, o) /\ Thin(n) /\ Short(n)
  BY DEF Data
<1> HIDE DEF e, x, o
<1>5. Watch(n, m, e, x) /\ Watch(n, m, x, e) /\ Stays(n, m, x)
  BY <1>2, <1>3 DEF Watch, Stays, Reads
<1>6. Good(m, e, w, f, c)
  BY <1>1, <1>4, <1>5, WatchGood
<1>7. Good(m, x, v, o, o)
  <2>1. o => Stays(n, m, e)
    BY DEF o
  <2> QED
    BY <1>1, <1>4, <1>5, <2>1, WatchGood
<1>8. Thin(m) /\ Short(m)
  BY <1>2, <1>4 DEF Thin, Short
<1>9. Data(m, w, v, f, c, FALSE)
  BY <1>6, <1>7, <1>8 DEF Data, e, x, o
<1> QED
  BY <1>2, <1>9 DEF m

\* process_bind, up to what a closed socket does.
LEMMA AttachData ==
    ASSUME IInv, Flows(net), DataInv, Arrives("sock", "bind"), NEW n,
           n = IF kind = "PUB" THEN ReadAll([Rest("sock") EXCEPT !.end["sock"].delay = FALSE], "sock")
               ELSE Rest("sock")
    PROVE  /\ Data(n, sending = "written", engine /\ midway, Faithful, closed, Loyally)
           /\ Both(n) /\ Has(n, "sock") /\ n.sent = net.sent /\ n.got["sess"] = net.got["sess"]
<1> DEFINE r == Rest("sock")
           d == [r EXCEPT !.end["sock"].delay = FALSE]
           k == ReadAll(d, "sock")
           w == sending = "written"
           v == engine /\ midway
           f == Faithful
           h == Loyally
<1>1. "sock" \in End /\ "sess" \in End /\ Peer("sock") = "sess" /\ "bind" \in OwnTypes
  BY DEF End, Peer, OwnTypes
<1>2. Fine(net, r) /\ r.got = net.got /\ Layer(r) /\ r \in NetType
  BY <1>1, RestFine
<1>3. /\ Both(r) /\ r.end = net.end /\ "bind" \in SockMail
  BY <1>1, RestOwn, Zenon
<1>4. ~attached /\ conns = 1 /\ net.end["sock"].state = "active"
  BY <1>3 DEF IInv, SocketInv, State
<1>5. w \in BOOLEAN /\ v \in BOOLEAN /\ f \in BOOLEAN /\ closed \in BOOLEAN /\ h \in BOOLEAN
  BY FlagTypes
<1>6. Data(net, w, v, f, closed, h)
  BY DEF DataInv
<1>7. n = IF kind = "PUB" THEN k ELSE r
  OBVIOUS
<1>8. kind = "PUB" => h = FALSE
  BY DEF Loyally
<1>9. PairInv(r) /\ Has(r, "sock") /\ r.sent = net.sent
  BY <1>2, <1>3, <1>4 DEF Both, Has, Fine
<1> HIDE DEF r, w, v, f, h
<1>10. Data(r, w, v, f, closed, h)
  BY <1>2, <1>5, <1>6, FineData
<1>11. Layer(d)
  BY <1>1, <1>2, DelayStill, StillLayer
<1>12. Step(r, r, "sock") /\ Step(r, d, "sock")
  BY <1>2, <1>9, InvFacts, StepReflexive, DelayStep
<1>13. kind = "PUB" => Data(d, w, v, f, closed, FALSE)
  BY <1>2, <1>5, <1>8, <1>10, DelayData, Zenon
<1>14. d.sent = r.sent /\ d.got = r.got
  BY <1>1, <1>2, DelayEffect
<1> HIDE DEF d
<1>15. Step(d, k, "sock")
  BY <1>12, InvFacts, ReadAllStep DEF Step
<1>16. Step(r, k, "sock")
  BY <1>2, <1>12, <1>15, InvFacts, StepTransitive
<1>17. kind = "PUB" => Fine(d, k)
  BY <1>11, ReadAllFine
<1>18. k.got["sess"] = d.got["sess"]
  BY <1>1, <1>11, ReadsOther
<1> HIDE DEF k
<1>19. CASE kind = "PUB"
  <2> DEFINE o == FALSE
  <2>1. o \in BOOLEAN /\ Data(d, w, v, f, closed, o)
    BY <1>13, <1>19
  <2> HIDE DEF o
  <2>2. Data(k, w, v, f, closed, o)
    BY <1>5, <1>17, <1>19, <2>1, FineData
  <2>3. Data(n, w, v, f, closed, h) /\ n = k
    BY <1>7, <1>8, <1>19, <2>2 DEF o
  <2>4. Both(n) /\ Has(n, "sock")
    <3>1. Both(k)
      BY <1>1, <1>3, <1>16, StepBoth
    <3>2. Has(k, "sock")
      BY <1>9, <1>16 DEF Step, Keeps
    <3> QED
      BY <2>3, <3>1, <3>2
  <2>5. n.sent = net.sent /\ n.got["sess"] = net.got["sess"]
    BY <1>2, <1>9, <1>14, <1>17, <1>18, <1>19, <2>3 DEF Fine
  <2> QED
    BY <2>3, <2>4, <2>5 DEF w, v, f, h
<1>20. CASE kind # "PUB"
  <2>1. n = r
    BY <1>7, <1>20
  <2> QED
    BY <2>1, <1>2, <1>3, <1>9, <1>10 DEF w, v, f, h
<1> QED
  BY <1>19, <1>20

\* Bind keeps the sixth layer.
LEMMA BindData ==
    ASSUME IInv, Flows(net), DataInv, Use, Bind
    PROVE  DataInv' /\ Use'
<1> DEFINE n == IF kind = "PUB" THEN ReadAll([Rest("sock") EXCEPT !.end["sock"].delay = FALSE], "sock")
                ELSE Rest("sock")
           m == Terminate(n, "sock", FALSE)
           w == sending = "written"
           v == engine /\ midway
           f == Faithful
           h == Loyally
<1>1. Arrives("sock", "bind") /\ net' = (IF closed THEN m ELSE n)
  BY DEF Bind
<1>2. attached' = TRUE /\ UNCHANGED <<kind, closed, sending, engine, midway, conns, half, owner>>
  BY DEF Bind, sessVars, ownVars, wire
<1>3. /\ Data(n, sending = "written", engine /\ midway, Faithful, closed, Loyally)
      /\ Both(n) /\ Has(n, "sock") /\ n.sent = net.sent /\ n.got["sess"] = net.got["sess"]
  BY <1>1, AttachData
<1>4. Data(n, w, v, f, closed, h)
  BY <1>3
<1>5. w \in BOOLEAN /\ v \in BOOLEAN /\ f \in BOOLEAN /\ closed \in BOOLEAN /\ h \in BOOLEAN
  BY FlagTypes
<1>6. Faithful' = f /\ Loyally' = h /\ (closed => h = FALSE)
  BY <1>2, ConnectsSame DEF Faithful, Loyally, Connects
<1>7. "sock" \in End /\ Peer("sock") = "sess"
  BY DEF End, Peer
<1>8. ~attached
  <2>1. "bind" \in SockMail
    BY <1>1, <1>7, RestOwn, Zenon DEF OwnTypes
  <2> QED
    BY <2>1 DEF IInv, SocketInv
<1> HIDE DEF n, w, v, f, h
<1>9. Sound(n)
  BY <1>3, BothSound
<1>10. Parted(n, m, "sock", FALSE)
  BY <1>3, <1>7, TerminateParted
<1> HIDE DEF m
<1>11. Terminated(n, m, "sock") /\ ~Open(m, "sock")
  BY <1>10 DEF Parted
<1>20. Terminated(n, m, "sock")
  BY <1>11
<1>12. Data(m, w, v, f, closed, FALSE) /\ m.sent = n.sent
  <2> DEFINE g == FALSE
  <2>1. g \in BOOLEAN /\ ~g
    OBVIOUS
  <2> HIDE DEF g
  <2>2. Data(m, w, v, f, closed, g) /\ m.sent = n.sent
    BY <1>4, <1>5, <1>9, <1>20, <2>1, SockCut
  <2> QED
    BY <2>2 DEF g
<1>13. /\ Data(net', w, v, f, closed, h)
       /\ net'.sent = net.sent /\ net'.got["sess"] = net.got["sess"]
       /\ closed => ~Open(net', "sock")
  <2>1. CASE closed
    <3>1. net' = m /\ h = FALSE
      BY <1>1, <1>6, <2>1
    <3>2. m.got["sess"] = n.got["sess"]
      BY <1>11 DEF Terminated
    <3> QED
      BY <3>1, <3>2, <1>3, <1>11, <1>12
  <2>2. CASE ~closed
    <3>1. net' = n
      BY <1>1, <2>2
    <3> QED
      BY <3>1, <2>2, <1>3, <1>4
  <2> QED
    BY <2>1, <2>2
<1>14. Data(net', sending' = "written", engine' /\ midway', Faithful', closed', Loyally')
  BY <1>2, <1>6, <1>13 DEF w, v
<1>15. (half => HalfRead("sess"))'
  BY <1>2, <1>13, HalfStays
<1>16. net.sent["sock"] = <<>> /\ sending = "no"
  BY <1>8 DEF Use
<1>17. Connects' <=> Connects
  BY <1>2, ConnectsSame
<1>18. /\ net'.sent["sock"] = <<>> /\ sending' = "no"
       /\ closed' => ~Open(net', "sock")
       /\ midway' => kind' # "PUB"
       /\ ~Connects' /\ owner' = "asked" /\ (engine' \/ conns' = 0) => closed'
  BY <1>2, <1>13, <1>16, <1>17 DEF Use
<1>19. Use'
  BY <1>2, <1>15, <1>18 DEF Use
<1> QED
  BY <1>2, <1>14, <1>19, Carried

\* zmq_close, up to what is said to the session or the listener.
LEMMA ClosePipe ==
    ASSUME IInv, DataInv, Use, ~closed, NEW n,
           n = IF attached /\ Has(net, "sock") THEN Terminate(net, "sock", FALSE) ELSE net,
           NEW g \in BOOLEAN, ~g
    PROVE  /\ Data(n, sending = "written", engine /\ midway, Faithful, closed, g)
           /\ Sound(n) /\ n.sent = net.sent /\ n.got = net.got
           /\ attached => ~Open(n, "sock")
           /\ ~Connects /\ engine => Behind(n.mail["sess"])
<1> DEFINE w == sending = "written"
           v == engine /\ midway
           f == Faithful
           h == Loyally
<1>1. Both(net) /\ Sound(net) /\ "sock" \in End
  BY InvFacts, BothSound
<1>2. w \in BOOLEAN /\ v \in BOOLEAN /\ f \in BOOLEAN /\ closed \in BOOLEAN /\ h \in BOOLEAN
  BY FlagTypes
<1>3. Data(net, w, v, f, closed, h)
  BY DEF DataInv
<1>4. ~Connects /\ engine => /\ \A t \in Types(net.mail["sess"]) : t \notin {"term", "term_listener"}
                             /\ Behind(net.mail["sess"])
  BY NoTerm
<1> HIDE DEF w, v, f, h
<1>5. CASE attached /\ Has(net, "sock")
  <2>1. n = Terminate(net, "sock", FALSE)
    BY <1>5
  <2>2. Parted(net, n, "sock", FALSE)
    BY <1>1, <1>5, <2>1, TerminateParted
  <2>3. Terminated(net, n, "sock") /\ ~Open(n, "sock")
        /\ ((\A t \in Types(net.mail["sess"]) : t \notin {"term", "term_listener"}) => Behind(n.mail["sess"]))
    BY <2>2 DEF Parted
  <2>4. Terminated(net, n, "sock")
    BY <2>3
  <2>5. Data(n, w, v, f, closed, g) /\ n.sent = net.sent
    <3>1. g \in BOOLEAN /\ ~g /\ Sound(net)
      BY <1>1
    <3> QED
      BY ONLY <3>1, <1>2, <1>3, <2>4, SockCut
  <2>6. n.got = net.got
    BY <2>4, Zenon DEF Terminated
  <2>7. Sound(n)
    <3>1. PairInv(net)
      BY InvFacts
    <3>2. Step(net, n, "sock")
      BY <1>1, <1>5, <2>1, <3>1, TerminateStep
    <3>3. Both(n)
      BY <1>1, <3>2, StepBoth
    <3> QED
      BY <3>3, BothSound
  <2> QED
    BY <1>4, <2>3, <2>5, <2>6, <2>7 DEF w, v, f
<1>6. CASE ~(attached /\ Has(net, "sock"))
  <2>1. n = net
    BY <1>6
  <2>2. Data(net, w, v, f, closed, g)
    BY <1>2, <1>3, DataWeaker
  <2>3. attached => ~Open(net, "sock")
    BY <1>6 DEF Has, Open
  <2> QED
    BY <1>1, <1>4, <2>1, <2>2, <2>3 DEF w, v, f
<1> QED
  BY <1>5, <1>6

\* Close keeps the sixth layer.
LEMMA CloseData ==
    ASSUME IInv, Flows(net), DataInv, Use, Close
    PROVE  DataInv' /\ Use'
<1> DEFINE n == IF attached /\ Has(net, "sock") THEN Terminate(net, "sock", FALSE) ELSE net
           w == sending = "written"
           v == engine /\ midway
           f == Faithful
           g == FALSE
           c == TRUE
<1>1. /\ \/ net' = n
         \/ net' = Send(n, "sess", "term", 0)
         \/ net' = Send(n, "sess", "term_listener", 0)
      /\ ~closed /\ closed' = TRUE /\ sending = "no"
  BY DEF Close
<1>2. UNCHANGED <<kind, attached, sending, engine, midway, conns, half>>
  BY DEF Close, sessVars, wire
<1>3. g \in BOOLEAN /\ ~g /\ c \in BOOLEAN /\ (closed => c) /\ (g => g)
  OBVIOUS
<1>4. n = IF attached /\ Has(net, "sock") THEN Terminate(net, "sock", FALSE) ELSE net
  OBVIOUS
<1>5. Loyally' = g /\ closed' = c /\ Faithful' = f
  BY <1>1, <1>2, ConnectsSame DEF Loyally, Faithful, Connects
<1>6. w \in BOOLEAN /\ v \in BOOLEAN /\ f \in BOOLEAN /\ closed \in BOOLEAN /\ "sess" \in End
  BY FlagTypes DEF End
<1> HIDE DEF n, g, c
<1>7. /\ Data(n, sending = "written", engine /\ midway, Faithful, closed, g)
      /\ Sound(n) /\ n.sent = net.sent /\ n.got = net.got
      /\ attached => ~Open(n, "sock")
      /\ ~Connects /\ engine => Behind(n.mail["sess"])
  BY <1>1, <1>3, <1>4, ClosePipe
<1>8. Data(n, w, v, f, closed, g)
  BY <1>7
<1> HIDE DEF w, v, f
<1>9. Data(n, w, v, f, c, g)
  <2>1. f => f
    OBVIOUS
  <2> QED
    BY <1>3, <1>6, <1>8, <2>1, DataWeaker
<1>10. /\ Fine(n, Send(n, "sess", "term", 0)) /\ Send(n, "sess", "term", 0).got = n.got
       /\ Fine(n, Send(n, "sess", "term_listener", 0)) /\ Send(n, "sess", "term_listener", 0).got = n.got
  BY <1>6, <1>7, SendFine
<1>11. Fine(n, net') /\ net'.got = net.got
  BY <1>1, <1>7, <1>10, FineReflexive
<1>12. Data(net', w, v, f, c, g)
  BY <1>3, <1>6, <1>9, <1>11, FineData
<1>13. Data(net', sending' = "written", engine' /\ midway', Faithful', closed', Loyally')
  BY <1>2, <1>5, <1>12 DEF w, v
<1>14. (half => HalfRead("sess"))'
  BY <1>2, <1>11, HalfStays
<1>15. Connects' <=> Connects
  BY <1>2, ConnectsSame
<1>16. /\ net'.sent = net.sent /\ (attached => ~Open(net', "sock"))
       /\ (~Connects /\ engine => Behind(net'.mail["sess"]))
  BY <1>7, <1>11 DEF Fine
<1>17. /\ sending' = "no" /\ closed'
       /\ (midway' => kind' # "PUB") /\ (net'.sent["sock"] # <<>> => attached')
       /\ (closed' /\ attached' => ~Open(net', "sock"))
       /\ (~Connects' /\ engine' /\ net'.sent["sock"] # <<>> => Behind(net'.mail["sess"]))
  BY <1>1, <1>2, <1>15, <1>16 DEF Use
<1>18. Use'
  BY <1>14, <1>17 DEF Use
<1> QED
  BY <1>2, <1>13, <1>18, Carried

\* EngineReady keeps the sixth layer.
LEMMA EngineReadyData ==
    ASSUME IInv, Flows(net), DataInv, Use, EngineReady
    PROVE  DataInv' /\ Use'
<1> DEFINE w == sending = "written"
           v == engine /\ midway
           f == Faithful
           h == Loyally
           o == FALSE
<1>1. /\ ~engine /\ engine' = TRUE /\ midway' = FALSE
      /\ conns < (IF Connects THEN MaxConn ELSE 1)
      /\ UNCHANGED <<kind, attached, closed, sending, half, owner>>
  BY DEF EngineReady, ownVars
<1>2. w \in BOOLEAN /\ v \in BOOLEAN /\ f \in BOOLEAN /\ closed \in BOOLEAN /\ h \in BOOLEAN
  BY FlagTypes
<1>3. Data(net, w, v, f, closed, h)
  BY DEF DataInv
<1>4. v = o /\ (engine' /\ midway') = o /\ o \in BOOLEAN /\ ~o
  BY <1>1
<1>5. Loyally' = h /\ (Connects' <=> Connects)
  BY <1>1, ConnectsSame DEF Loyally
<1>6. Connects => Faithful' = f
  BY <1>1, ConnectsSame DEF Faithful
<1>7. Faithful' \in BOOLEAN
  BY <1>1, <1>5 DEF Faithful, Connects
<1> HIDE DEF w, v, f, h, o
<1>8. CASE Connects
  <2>1. net' = net
    BY <1>8 DEF EngineReady
  <2>2. Data(net', sending' = "written", engine' /\ midway', Faithful', closed', Loyally')
    BY <1>1, <1>3, <1>4, <1>5, <1>6, <1>8, <2>1 DEF w
  <2>3. Use'
    BY <1>1, <1>5, <1>8, <2>1 DEF Use, Room, HalfRead, Open, Full
  <2> QED
    BY <1>1, <2>2, <2>3, Carried
<1>9. CASE ~Connects
  <2> DEFINE a == Accepted(net)
             g == Faithful'
  <2>1. net' = Send(a, "sock", "bind", 0) /\ "sock" \in End
    BY <1>9 DEF EngineReady, Accepted, End
  <2>2. conns = 0 /\ net.end["sock"].state = "none"
    <3>1. conns < 1 /\ conns \in 0 .. MaxConn /\ MaxConn \in Nat
      BY <1>1, <1>9, PipeAssumption DEF IInv, TypeOK
    <3>2. conns = 0
      BY <3>1
    <3> QED
      BY <1>9, <3>2 DEF IInv, SocketInv
  <2>3. ~attached
    BY <1>9, <2>2 DEF IInv, SocketInv
  <2>4. sending = "no" /\ net.sent["sock"] = <<>>
    BY <2>3 DEF Use
  <2>5. w = o
    BY <2>4 DEF w, o
  <2>6. Layer(net) /\ Both(net)
    BY NetLayer, InvFacts
  <2>7. Data(net, o, o, f, closed, h) /\ g \in BOOLEAN
    BY <1>3, <1>4, <1>7, <2>5
  <2>10. g = Faithful'
    OBVIOUS
  <2> HIDE DEF a, g
  <2>8. Data(a, o, o, g, closed, h) /\ a.sent = net.sent /\ a.got = net.got /\ Sound(a)
    BY <1>2, <1>4, <1>9, <2>2, <2>6, <2>7, AcceptedData DEF a
  <2>9. Fine(a, net') /\ net'.got = a.got
    BY <2>1, <2>8, SendFine
  <2>11. Data(net', o, o, g, closed, h)
    BY <1>2, <1>4, <2>7, <2>8, <2>9, FineData
  <2>12. Data(net', sending' = "written", engine' /\ midway', Faithful', closed', Loyally')
    <3>1. (sending' = "written") = o /\ (engine' /\ midway') = o
      BY <1>1, <1>4, <2>4 DEF o
    <3> QED
      BY <1>1, <1>5, <2>10, <2>11, <3>1
  <2>13. (half => HalfRead("sess"))'
    BY <1>1, <2>8, <2>9, HalfStays
  <2>14. /\ net'.sent["sock"] = <<>> /\ sending' = "no" /\ attached' = FALSE
         /\ ~Connects' /\ owner' = "asked" => closed'
    <3>1. net'.sent["sock"] = <<>>
      BY <2>4, <2>8, <2>9 DEF Fine
    <3>2. attached' = FALSE /\ sending' = "no"
      BY <1>1, <2>3, <2>4, TypeFacts
    <3>3. owner = "asked" => closed
      BY <1>9, <2>2 DEF Use
    <3> QED
      BY <1>1, <3>1, <3>2, <3>3
  <2>15. Use'
    BY <1>1, <2>13, <2>14 DEF Use
  <2> QED
    BY <1>1, <2>12, <2>15, Carried
<1> QED
  BY <1>8, <1>9

\* The session that has no active end has begun no message.
LEMMA SessBegun ==
    ASSUME NEW n, n.end["sess"].state # "active",
           NEW w \in BOOLEAN, NEW v \in BOOLEAN, NEW f \in BOOLEAN, NEW c \in BOOLEAN, NEW h \in BOOLEAN,
           Data(n, w, v, f, c, h), NEW d \in BOOLEAN
    PROVE  Data(n, w, d, f, c, h)
<1> DEFINE e == "sess"
           o == FALSE
<1>1. e \in End /\ o \in BOOLEAN /\ Good(n, e, v, h, o) /\ n.end[e].state # "active"
  BY DEF End, Data
<1> HIDE DEF e, o
<1>2. Good(n, e, d, h, o)
  BY <1>1, AnyBegun
<1> QED
  BY <1>2 DEF Data, e, o

\* An engine is lost: what it had begun is taken back.
LEMMA LostPipe ==
    ASSUME IInv, DataInv, NEW o \in BOOLEAN, ~o,
           NEW n, n = IF Has(net, "sess") THEN CleanPipes(net) ELSE net
    PROVE  /\ Data(n, sending = "written", o, o, closed, Loyally)
           /\ Eased(net, n) /\ Both(n) /\ (Has(net, "sess") => Has(n, "sess"))
<1> DEFINE w == sending = "written"
           v == engine /\ midway
           f == Faithful
           h == Loyally
<1>1. Both(net) /\ Sound(net) /\ PairInv(net) /\ "sess" \in End
  BY InvFacts, BothSound
<1>2. w \in BOOLEAN /\ v \in BOOLEAN /\ f \in BOOLEAN /\ closed \in BOOLEAN /\ h \in BOOLEAN
  BY FlagTypes
<1>3. Data(net, w, v, f, closed, h)
  BY DEF DataInv
<1>4. (o => f) /\ (closed => closed) /\ (h => h)
  OBVIOUS
<1> HIDE DEF w, v, f, h
<1>5. Data(net, w, v, o, closed, h)
  BY <1>2, <1>3, <1>4, DataWeaker
<1>6. CASE Has(net, "sess")
  <2>1. n = CleanPipes(net)
    BY <1>6
  <2>2. Data(n, w, o, o, closed, h) /\ Eased(net, n)
    BY <1>1, <1>2, <1>5, <2>1, CleanData
  <2>3. Step(net, n, "sess")
    BY <1>1, <2>1, CleanPipesStep
  <2>4. Both(n) /\ Alike(net, n)
    BY <1>1, <2>3, SessionSide
  <2>5. Has(n, "sess")
    BY <1>1, <1>6, <2>4 DEF Alike
  <2> QED
    BY <2>2, <2>4, <2>5 DEF w, h
<1>7. CASE ~Has(net, "sess")
  <2>1. n = net
    BY <1>7
  <2>2. net.end["sess"].state # "active"
    BY <1>7 DEF Has
  <2>3. Data(net, w, o, o, closed, h)
    BY <1>2, <1>5, <2>2, SessBegun
  <2> QED
    BY <1>1, <1>7, <2>1, <2>3, EasedFacts DEF w, h
<1> QED
  BY <1>6, <1>7

\* What the session then does about it.
LEMMA LostData ==
    ASSUME NEW n, Both(n), NEW w \in BOOLEAN, NEW o \in BOOLEAN, ~o, NEW c \in BOOLEAN, NEW h \in BOOLEAN,
           Data(n, w, o, o, c, h), NEW m,
           \/ m = n
           \/ kind = "SUB" /\ m = Hiccup(n, "sess")
           \/ Has(n, "sess") /\ m = Terminate(n, "sess", FALSE)
           \/ m = Send(n, "sess", "term_req", 0)
    PROVE  /\ Data(m, w, o, o, c, h) /\ Sound(m)
           /\ m.sent = n.sent /\ (Open(m, "sock") => Open(n, "sock")) /\ (Room(n) => Room(m))
<1>1. Sound(n) /\ PairInv(n) /\ "sess" \in End /\ Peer("sess") = "sock"
  BY BothSound DEF Both, End, Peer
<1>2. CASE m = n
  BY <1>1, <1>2
<1>3. CASE kind = "SUB" /\ m = Hiccup(n, "sess")
  <2>1. Fine(n, m)
    BY <1>3, HiccupFine
  <2>2. Data(m, w, o, o, c, h)
    BY <2>1, FineData
  <2>3. Sound(m)
    BY <1>3, HiccupBoth, BothSound
  <2> QED
    BY <2>1, <2>2, <2>3 DEF Fine
<1>4. CASE Has(n, "sess") /\ m = Terminate(n, "sess", FALSE)
  <2>1. Parted(n, m, "sess", FALSE)
    BY <1>1, <1>4, TerminateParted
  <2>2. Terminated(n, m, "sess")
    BY <2>1 DEF Parted
  <2>3. /\ o => o /\ Heeds(n, m, "sess")
        /\ o /\ n.end["sess"].state = "active" =>
             Len(n.got["sess"]) = Len(n.sent["sock"]) /\ (n.end["sock"].state # "active" \/ c)
    OBVIOUS
  <2>4. Data(m, w, o, o, c, h) /\ m.sent = n.sent /\ (Room(n) => Room(m))
    BY <1>1, <2>2, <2>3, SessCut
  <2>5. m.end["sock"] = n.end["sock"]
    BY <1>1, <2>2, Zenon DEF Terminated
  <2>6. Step(n, m, "sess")
    BY <1>1, <1>4, TerminateStep
  <2>7. Sound(m)
    BY <2>6, SessionSide, BothSound
  <2> QED
    BY <2>4, <2>5, <2>7 DEF Open
<1>5. CASE m = Send(n, "sess", "term_req", 0)
  <2>1. Fine(n, m) /\ Sound(m)
    BY <1>1, <1>5, SendFine
  <2>2. Data(m, w, o, o, c, h)
    BY <2>1, FineData
  <2> QED
    BY <2>1, <2>2 DEF Fine
<1> QED
  BY <1>2, <1>3, <1>4, <1>5

\* EngineError keeps the sixth layer.
LEMMA EngineErrorData ==
    ASSUME IInv, Flows(net), DataInv, Use, EngineError
    PROVE  DataInv' /\ Use'
<1> DEFINE pipe == Has(net, "sess")
           n == IF pipe THEN CleanPipes(net) ELSE net
           m == CASE kind = "REQ" -> n
                  [] kind = "SUB" -> IF pipe THEN Hiccup(n, "sess") ELSE n
                  [] ~Connects /\ pending -> IF pipe THEN Terminate(n, "sess", FALSE) ELSE n
                  [] OTHER -> Send(n, "sess", "term_req", 0)
           w == sending = "written"
           h == Loyally
           o == FALSE
<1>1. net' = (IF pipe THEN CheckRead(m, "sess") ELSE m) /\ engine /\ engine' = FALSE /\ half' = FALSE
  BY DEF EngineError
<1>2. UNCHANGED <<kind, attached, closed, sending, midway, conns, owner>>
  BY DEF EngineError, sockVars, ownVars
<1>3. w \in BOOLEAN /\ closed \in BOOLEAN /\ h \in BOOLEAN /\ o \in BOOLEAN /\ ~o /\ "sess" \in End
  BY FlagTypes DEF End
<1>4. /\ (sending' = "written") = w /\ (engine' /\ midway') = o /\ Faithful' = o
      /\ closed' = closed /\ Loyally' = h /\ (Connects' <=> Connects)
  BY <1>1, <1>2, ConnectsSame DEF Faithful, Loyally
<1>5. n = IF Has(net, "sess") THEN CleanPipes(net) ELSE net
  OBVIOUS
<1>16. w = (sending = "written") /\ h = Loyally
  OBVIOUS
<1> HIDE DEF n, w, h, o
<1>6. /\ Data(n, sending = "written", o, o, closed, Loyally)
      /\ Eased(net, n) /\ Both(n) /\ (Has(net, "sess") => Has(n, "sess"))
  BY <1>3, <1>5, LostPipe
<1>7. Data(n, w, o, o, closed, h)
  BY <1>6, <1>16
<1>8. \/ m = n
      \/ kind = "SUB" /\ m = Hiccup(n, "sess")
      \/ Has(n, "sess") /\ m = Terminate(n, "sess", FALSE)
      \/ m = Send(n, "sess", "term_req", 0)
  BY <1>6 DEF Connects
<1> HIDE DEF m, pipe
<1>9. /\ Data(m, w, o, o, closed, h) /\ Sound(m)
      /\ m.sent = n.sent /\ (Open(m, "sock") => Open(n, "sock")) /\ (Room(n) => Room(m))
  <2>1. Both(n) /\ o \in BOOLEAN /\ ~o /\ w \in BOOLEAN /\ closed \in BOOLEAN /\ h \in BOOLEAN
    BY <1>3, <1>6
  <2> QED
    BY ONLY <2>1, <1>7, <1>8, LostData, Zenon
<1>10. Fine(m, CheckRead(m, "sess"))
  BY <1>3, <1>9, CheckReadFine
<1>11. Fine(m, net')
  BY <1>1, <1>10, FineReflexive
<1>12. Data(net', w, o, o, closed, h)
  BY <1>3, <1>9, <1>11, FineData
<1>13. Data(net', sending' = "written", engine' /\ midway', Faithful', closed', Loyally')
  BY <1>4, <1>12
<1>14. net'.sent["sock"] = net.sent["sock"] /\ (Open(net', "sock") => Open(net, "sock")) /\ (Room(net) => Room(net'))
  BY <1>6, <1>9, <1>11 DEF Eased, Fine
<1>15. conns # 0
  BY <1>1 DEF IInv, SessionInv
<1>17. /\ (sending' = "written" => Room(net')) /\ (sending' # "no" => attached' /\ ~Connects')
       /\ (midway' => kind' # "PUB") /\ ~half'
       /\ ~(engine' \/ conns' = 0)
       /\ (net'.sent["sock"] # <<>> => attached')
       /\ (closed' /\ attached' => ~Open(net', "sock")) /\ ~engine'
  BY <1>1, <1>2, <1>4, <1>14, <1>15 DEF Use
<1>18. Use'
  BY <1>17 DEF Use
<1> QED
  BY <1>2, <1>13, <1>18, Carried

\* The frames the engine brings.
LEMMA PushFrames ==
    ASSUME IInv, Use, NEW frame, frame = IF midway THEN Final(net, "sess") ELSE First(net, "sess")
    PROVE  /\ frame \in Frame /\ frame # DELIMITER
           /\ Frames("sess") = 2 /\ ~midway => frame = First(net, "sess") /\ More(frame) = TRUE
           /\ ~(Frames("sess") = 2 /\ ~midway) =>
                frame = Closing(net, "sess") /\ More(frame) = FALSE /\ (midway <=> Frames("sess") = 2)
           /\ Frames("sess") = 2 => kind # "PUB"
<1>1. net \in NetType /\ "sess" \in End /\ "sess" # "sock"
  BY InvFacts
<1>2. Frames("sess") = (IF kind = "PUB" THEN 1 ELSE 2)
  BY DEF Frames
<1>3. midway => kind # "PUB"
  BY DEF Use
<1>4. /\ Closing(net, "sess") \in Frame /\ Closing(net, "sess") # DELIMITER /\ ~More(Closing(net, "sess"))
      /\ Closing(net, "sess") = <<Count(net.sent["sess"]) + 1, FALSE>>
  BY <1>1, ClosingFacts
<1>5. CASE Frames("sess") = 2 /\ ~midway
  <2>1. frame = First(net, "sess")
    BY <1>5
  <2>2. (Frames("sess") = 2) = TRUE
    BY <1>5
  <2>3. frame = <<Count(net.sent["sess"]) + 1, TRUE>>
    BY <2>1, <2>2 DEF First
  <2>4. frame \in Frame
    BY <1>1, <2>1, MessageFrames
  <2>5. More(frame) = TRUE /\ frame # DELIMITER
    <3>3. \A c, b : <<c, b>>[2] = b
      OBVIOUS
    <3>1. frame[2] = TRUE
      BY ONLY <2>3, <3>3
    <3>2. DELIMITER[2] = FALSE
      BY DEF DELIMITER
    <3> QED
      BY <3>1, <3>2 DEF More
  <2> QED
    BY <1>2, <1>5, <2>1, <2>4, <2>5
<1>6. CASE ~(Frames("sess") = 2 /\ ~midway)
  <2>1. midway <=> Frames("sess") = 2
    BY <1>2, <1>3, <1>6
  <2>2. frame = Closing(net, "sess")
    BY <2>1 DEF Closing
  <2>3. More(frame) = FALSE
    BY <1>4, <2>2 DEF More
  <2> QED
    BY <1>2, <1>4, <1>6, <2>1, <2>2, <2>3
<1> QED
  BY <1>5, <1>6

\* Push keeps the sixth layer.
LEMMA PushData ==
    ASSUME IInv, Flows(net), DataInv, Use, Push
    PROVE  DataInv' /\ Use'
<1> DEFINE frame == IF midway THEN Final(net, "sess") ELSE First(net, "sess")
           w == sending = "written"
           f == Faithful
           h == Loyally
           o == FALSE
           e == "sess"
<1>1. /\ engine /\ net' = Write(net, e, frame)
      /\ midway' = (IF CanWrite(net, e) THEN More(frame) ELSE midway)
      /\ UNCHANGED <<kind, attached, closed, sending, engine, conns, half, owner>>
  BY DEF Push, sockVars, ownVars
<1>2. /\ frame \in Frame /\ frame # DELIMITER
      /\ Frames(e) = 2 /\ ~midway => frame = First(net, e) /\ More(frame) = TRUE
      /\ ~(Frames(e) = 2 /\ ~midway) =>
                frame = Closing(net, e) /\ More(frame) = FALSE /\ (midway <=> Frames(e) = 2)
      /\ Frames(e) = 2 => kind # "PUB"
  BY PushFrames
<1>3. Sound(net) /\ e \in End /\ Peer(e) = "sock" /\ midway \in BOOLEAN /\ o \in BOOLEAN
  BY InvFacts, BothSound, TypeFacts
<1>4. w \in BOOLEAN /\ f \in BOOLEAN /\ closed \in BOOLEAN /\ h \in BOOLEAN
  BY FlagTypes
<1>5. (engine /\ midway) = midway
  BY <1>1, <1>3
<1>6. Good(net, "sock", w, f, closed) /\ Good(net, e, midway, h, o) /\ Thin(net) /\ Short(net)
  BY <1>5, Zenon DEF DataInv, Data
<1>7. e = "sess" /\ o = FALSE
  OBVIOUS
<1> HIDE DEF frame, w, f, h, o, e
<1>8. net'.got = net.got
  BY <1>1, <1>2, <1>3, WriteOther
<1>9. (half => HalfRead("sess"))'
  BY <1>1, <1>8, HalfStays
<1>10. CASE ~CanWrite(net, e)
  <2>1. Fine(net, net') /\ midway' = midway
    BY <1>1, <1>3, <1>10, WriteFull
  <2>2. ~Connects /\ owner' = "asked" /\ (engine \/ conns = 0) => closed
    BY <1>1, AskedKept
  <2> QED
    BY <1>1, <1>9, <2>1, <2>2, FineAction
<1>11. CASE CanWrite(net, e)
  <2>1. midway' = More(frame)
    BY <1>1, <1>11
  <2>2. Good(net', e, midway', h, o) /\ Half(net, net', e) /\ midway' \in BOOLEAN /\ (midway' => kind # "PUB")
    <3>1. CASE Frames(e) = 2 /\ ~midway
      <4>1. frame = First(net, e) /\ midway' = TRUE /\ midway = FALSE
        BY <1>2, <1>3, <2>1, <3>1
      <4>2. Good(net, e, FALSE, h, o)
        BY <1>6, <4>1, Zenon
      <4>3. net' = Write(net, e, First(net, e))
        BY <1>1, <4>1
      <4>4. Good(net', e, TRUE, h, o) /\ Half(net, net', e)
        BY <1>3, <1>4, <1>11, <3>1, <4>2, <4>3, FirstWritten
      <4> QED
        BY <1>2, <3>1, <4>1, <4>4
    <3>2. CASE ~(Frames(e) = 2 /\ ~midway)
      <4>1. frame = Closing(net, e) /\ midway' = FALSE /\ (midway <=> Frames(e) = 2)
        BY <1>2, <2>1, <3>2
      <4>2. Good(net, e, midway, h, FALSE)
        BY <1>6, <1>7, Zenon
      <4>3. net' = Write(net, e, Closing(net, e))
        BY <1>1, <4>1
      <4>4. Good(net', e, FALSE, h, FALSE) /\ Half(net, net', e)
        BY <1>3, <1>4, <1>11, <4>1, <4>2, <4>3, LastWritten
      <4> QED
        BY <1>7, <4>1, <4>4
    <3> QED
      BY <3>1, <3>2
  <2>3. /\ GoodKept(net, net', "sock") /\ Thin(net') /\ Short(net')
        /\ Eased(net, net')
    BY <1>3, <1>6, <1>7, <2>2 DEF Half, Eased
  <2>4. Good(net', "sock", w, f, closed)
    BY <1>4, <1>6, <2>3 DEF GoodKept
  <2>5. Data(net', w, midway', f, closed, h)
    BY <1>7, <2>2, <2>3, <2>4 DEF Data
  <2>6. Data(net', sending' = "written", engine' /\ midway', Faithful', closed', Loyally')
    <3>1. (engine' /\ midway') = midway'
      BY <1>1, <2>2
    <3>2. Faithful' = f /\ Loyally' = h
      BY <1>1, ConnectsSame DEF Faithful, Loyally, Connects, f, h
    <3> QED
      BY <1>1, <2>5, <3>1, <3>2 DEF w
  <2>7. ~Connects /\ owner' = "asked" /\ (engine' \/ conns' = 0) => closed
    BY <1>1 DEF Use
  <2>8. Use'
    BY <1>1, <1>9, <2>2, <2>3, <2>7, UseKept
  <2> QED
    BY <1>1, <2>6, <2>8, Carried
<1> QED
  BY <1>10, <1>11

\* The socket writes the last frame of a message.
LEMMA SockWrote ==
    ASSUME NEW n, Sound(n), CanWrite(n, "sock"), NEW b \in BOOLEAN, b <=> Frames("sock") = 2,
           NEW o \in BOOLEAN, ~o, NEW v \in BOOLEAN, NEW f \in BOOLEAN, NEW h \in BOOLEAN, Data(n, b, v, f, o, h),
           NEW m, m = Write(n, "sock", Closing(n, "sock"))
    PROVE  /\ Data(m, o, v, f, o, h) /\ m.got = n.got
           /\ (Behind(n.mail["sess"]) => Behind(m.mail["sess"]))
<1> DEFINE e == "sock"
<1>1. e \in End /\ Peer(e) = "sess" /\ n \in NetType /\ o = FALSE
  BY DEF End, Peer, Sound
<1>2. /\ CanWrite(n, e) /\ (b <=> Frames(e) = 2) /\ m = Write(n, e, Closing(n, e))
      /\ Good(n, e, b, f, FALSE) /\ Good(n, "sess", v, h, FALSE) /\ Thin(n) /\ Short(n)
  BY <1>1 DEF Data
<1>7. e = "sock"
  OBVIOUS
<1> HIDE DEF e
<1>3. Good(m, e, FALSE, f, FALSE) /\ Half(n, m, e)
  <2>1. /\ Good(Write(n, e, Closing(n, e)), e, FALSE, f, FALSE)
        /\ Half(n, Write(n, e, Closing(n, e)), e)
    BY <1>1, <1>2, LastWritten
  <2> QED
    BY <1>2, <2>1
<1>4. /\ GoodKept(n, m, "sess") /\ Thin(m) /\ Short(m) /\ (Behind(n.mail["sess"]) => Behind(m.mail["sess"]))
  BY <1>1, <1>2, <1>3 DEF Half
<1>5. Good(m, "sess", v, h, FALSE)
  BY <1>2, <1>4 DEF GoodKept
<1>6. m.got = n.got
  BY <1>1, <1>2, ClosingFacts, WriteOther
<1>8. Data(m, FALSE, v, f, FALSE, h)
  BY <1>3, <1>4, <1>5, <1>7 DEF Data
<1> QED
  BY <1>1, <1>4, <1>6, <1>8

\* It writes the first one, where it can.
LEMMA WriteFirstData ==
    ASSUME NEW n, Sound(n), Frames("sock") = 2,
           NEW o \in BOOLEAN, ~o, NEW v \in BOOLEAN, NEW f \in BOOLEAN, NEW h \in BOOLEAN, Data(n, o, v, f, o, h),
           WriteFirst(n)
    PROVE  /\ Data(net', sending' = "written", v, f, o, h) /\ net'.got = n.got
           /\ (Behind(n.mail["sess"]) => Behind(net'.mail["sess"]))
           /\ sending' = "written" => Room(net')
<1> DEFINE e == "sock"
           w == sending' = "written"
<1>1. e \in End /\ Peer(e) = "sess" /\ n \in NetType /\ o = FALSE /\ e = "sock"
  BY DEF End, Peer, Sound
<1>2. /\ sending' = (IF Has(n, e) /\ CanWrite(n, e) THEN "written" ELSE "dropped")
      /\ net' = (IF Has(n, e) THEN Write(n, e, First(n, e)) ELSE n)
  BY DEF WriteFirst
<1>3. Good(n, e, FALSE, f, o) /\ Good(n, "sess", v, h, FALSE) /\ Thin(n) /\ Short(n) /\ Frames(e) = 2
  BY <1>1 DEF Data
<1>9. w = (sending' = "written")
  OBVIOUS
<1> HIDE DEF e, w
<1>4. First(n, e) \in Frame /\ First(n, e) # DELIMITER
  BY <1>1, MessageNotDelimiter
<1>5. CASE Has(n, e) /\ CanWrite(n, e)
  <2>1. net' = Write(n, e, First(n, e)) /\ w = TRUE
    BY <1>2, <1>5, <1>9
  <2>2. Good(net', e, TRUE, f, o) /\ Half(n, net', e) /\ Room(net')
    BY <1>1, <1>3, <1>5, <2>1, FirstWritten
  <2>3. /\ GoodKept(n, net', "sess") /\ Thin(net') /\ Short(net')
        /\ (Behind(n.mail["sess"]) => Behind(net'.mail["sess"]))
    BY <1>1, <1>3, <2>2 DEF Half
  <2>4. Good(net', "sess", v, h, FALSE)
    BY <1>3, <2>3 DEF GoodKept
  <2>5. net'.got = n.got
    BY <1>1, <1>4, <2>1, WriteOther
  <2>6. Data(net', TRUE, v, f, o, h)
    BY <1>1, <2>2, <2>3, <2>4 DEF Data
  <2> QED
    BY <1>9, <2>1, <2>2, <2>3, <2>5, <2>6
<1>6. CASE ~(Has(n, e) /\ CanWrite(n, e))
  <2>1. w = o /\ sending' # "written"
    BY <1>1, <1>2, <1>6, <1>9
  <2>2. Fine(n, net') /\ net'.got = n.got
    <3>1. CASE Has(n, e)
      <4>1. net' = Write(n, e, First(n, e)) /\ ~CanWrite(n, e)
        BY <1>2, <1>6, <3>1
      <4> QED
        BY <1>1, <1>4, <4>1, WriteFull, WriteOther
    <3>2. CASE ~Has(n, e)
      BY <1>2, <3>2, FineReflexive
    <3> QED
      BY <3>1, <3>2
  <2>3. Data(net', o, v, f, o, h)
    BY <2>2, FineData
  <2>4. Behind(n.mail["sess"]) => Behind(net'.mail["sess"])
    BY <2>2 DEF Fine
  <2> QED
    BY <1>9, <2>1, <2>2, <2>3, <2>4
<1> QED
  BY <1>5, <1>6

\* What the layer says where the socket may be used.
LEMMA UsableData ==
    ASSUME IInv, DataInv, Usable, NEW o \in BOOLEAN, ~o
    PROVE  /\ Data(net, sending = "written", engine /\ midway, Faithful, o, Loyally)
           /\ Sound(net) /\ (Frames("sock") = 2 <=> ~Connects)
<1>1. closed = o
  BY TypeFacts DEF Usable
<1>2. Sound(net)
  BY InvFacts, BothSound
<1> QED
  BY <1>1, <1>2 DEF DataInv, Frames

\* The socket has used the pipe.
LEMMA UsedData ==
    ASSUME IInv, Use, Usable, NEW o \in BOOLEAN, ~o,
           Data(net', sending' = "written", engine /\ midway, Faithful, o, Loyally),
           net'.got["sess"] = net.got["sess"],
           Behind(net.mail["sess"]) => Behind(net'.mail["sess"]),
           UNCHANGED <<kind, attached, closed, midway, half, owner, conns, engine>>,
           sending' = "written" => Room(net'), sending' # "no" => ~Connects
    PROVE  DataInv' /\ Use'
<1>1. closed = o
  BY TypeFacts DEF Usable
<1>2. Use'
  BY UseSocket
<1>3. Faithful' = Faithful /\ Loyally' = Loyally
  BY ConnectsSame DEF Faithful, Loyally, Connects
<1>4. Data(net', sending' = "written", engine' /\ midway', Faithful', closed', Loyally')
  BY <1>1, <1>3
<1> QED
  BY <1>2, <1>4, Carried

\* SendWhole keeps the sixth layer.
LEMMA SendWholeData ==
    ASSUME IInv, Flows(net), DataInv, Use, SendWhole
    PROVE  DataInv' /\ Use'
<1> DEFINE o == FALSE
           v == engine /\ midway
           f == Faithful
           h == Loyally
<1>1. /\ Usable /\ Connects /\ net' = Write(net, "sock", First(net, "sock"))
      /\ UNCHANGED <<kind, attached, closed, sending, engine, midway, conns, half, owner>>
  BY DEF SendWhole, sockVars, sessVars, ownVars, wire
<1>2. o \in BOOLEAN /\ ~o /\ v \in BOOLEAN /\ f \in BOOLEAN /\ h \in BOOLEAN /\ "sock" \in End
  BY FlagTypes DEF End
<1>9. v = (engine /\ midway) /\ f = Faithful /\ h = Loyally
  OBVIOUS
<1> HIDE DEF o, v, f, h
<1>3. /\ Data(net, sending = "written", engine /\ midway, Faithful, o, Loyally)
      /\ Sound(net) /\ (Frames("sock") = 2 <=> ~Connects)
  BY <1>1, <1>2, UsableData
<1>4. sending = "no"
  BY <1>1 DEF Use
<1>5. (sending = "written") = o /\ (o <=> Frames("sock") = 2)
  BY <1>1, <1>2, <1>3, <1>4
<1>6. Data(net, o, v, f, o, h)
  BY <1>3, <1>5, <1>9
<1>7. Data(net', o, v, f, o, h) /\ net'.got = net.got /\ (Behind(net.mail["sess"]) => Behind(net'.mail["sess"]))
  <2>1. CASE CanWrite(net, "sock")
    <3>1. net' = Write(net, "sock", Closing(net, "sock"))
      BY <1>1, <1>3 DEF Closing
    <3> QED
      BY <1>2, <1>3, <1>5, <1>6, <2>1, <3>1, SockWrote
  <2>2. CASE ~CanWrite(net, "sock")
    <3>1. Fine(net, net')
      BY <1>1, <1>2, <1>3, <2>2, WriteFull
    <3>2. Data(net', o, v, f, o, h)
      BY <1>2, <1>6, <3>1, FineData
    <3>3. net'.got = net.got
      BY <1>1, <1>2, <1>3, InvFacts, MessageNotDelimiter, WriteOther
    <3> QED
      BY <3>1, <3>2, <3>3 DEF Fine
  <2> QED
    BY <2>1, <2>2
<1>8. /\ Data(net', sending' = "written", engine /\ midway, Faithful, o, Loyally)
      /\ (sending' = "written" => Room(net')) /\ (sending' # "no" => ~Connects)
  BY <1>1, <1>4, <1>5, <1>7, <1>9
<1> QED
  BY <1>1, <1>2, <1>7, <1>8, UsedData

\* The first frame of a message, or of a reply, from what the socket finds.
LEMMA FirstData ==
    ASSUME IInv, Use, Usable, ~Connects, NEW o \in BOOLEAN, ~o, NEW n, Sound(n), WriteFirst(n),
           Data(n, o, engine /\ midway, Faithful, o, Loyally), n.got["sess"] = net.got["sess"],
           Behind(net.mail["sess"]) => Behind(n.mail["sess"]),
           UNCHANGED <<kind, attached, closed, midway, half, owner, conns, engine>>
    PROVE  DataInv' /\ Use'
<1> DEFINE v == engine /\ midway
           f == Faithful
           h == Loyally
<1>1. v \in BOOLEAN /\ f \in BOOLEAN /\ h \in BOOLEAN /\ Frames("sock") = 2
  BY FlagTypes DEF Frames
<1>2. Data(n, o, v, f, o, h)
  OBVIOUS
<1>3. v = (engine /\ midway) /\ f = Faithful /\ h = Loyally
  OBVIOUS
<1> HIDE DEF v, f, h
<1>4. /\ Data(net', sending' = "written", v, f, o, h) /\ net'.got = n.got
      /\ (Behind(n.mail["sess"]) => Behind(net'.mail["sess"]))
      /\ (sending' = "written" => Room(net'))
  BY <1>1, <1>2, WriteFirstData
<1>5. Data(net', sending' = "written", engine /\ midway, Faithful, o, Loyally)
  BY <1>3, <1>4
<1> QED
  BY <1>4, <1>5, UsedData

\* SendFirst keeps the sixth layer.
LEMMA SendFirstData ==
    ASSUME IInv, Flows(net), DataInv, Use, SendFirst
    PROVE  DataInv' /\ Use'
<1> DEFINE o == FALSE
<1>1. /\ Usable /\ ~Connects /\ sending = "no" /\ WriteFirst(net)
      /\ UNCHANGED <<kind, attached, closed, midway, half, owner, conns, engine>>
  BY DEF SendFirst, sessVars, ownVars, wire, Connects
<1>2. o \in BOOLEAN /\ ~o /\ (sending = "written") = o
  BY <1>1
<1> HIDE DEF o
<1>3. Data(net, sending = "written", engine /\ midway, Faithful, o, Loyally) /\ Sound(net)
  BY <1>1, <1>2, UsableData
<1>4. Data(net, o, engine /\ midway, Faithful, o, Loyally)
  BY <1>2, <1>3
<1> QED
  BY <1>1, <1>2, <1>3, <1>4, FirstData

\* SendLast keeps the sixth layer.
LEMMA SendLastData ==
    ASSUME IInv, Flows(net), DataInv, Use, SendLast
    PROVE  DataInv' /\ Use'
<1> DEFINE o == FALSE
           w == sending = "written"
           v == engine /\ midway
           f == Faithful
           h == Loyally
<1>1. /\ Usable /\ sending # "no" /\ sending' = "no"
      /\ net' = (IF sending = "dropped" THEN net
               ELSE IF CanWrite(net, "sock") THEN Write(net, "sock", Final(net, "sock"))
               ELSE IF kind = "REP" THEN Rollback(net, "sock") ELSE net)
      /\ UNCHANGED <<kind, attached, closed, midway, half, owner, conns, engine>>
  BY DEF SendLast, sessVars, ownVars, wire
<1>2. o \in BOOLEAN /\ ~o /\ w \in BOOLEAN /\ v \in BOOLEAN /\ f \in BOOLEAN /\ h \in BOOLEAN /\ "sock" \in End
  BY FlagTypes DEF End
<1>3. v = (engine /\ midway) /\ f = Faithful /\ h = Loyally /\ w = (sending = "written")
  OBVIOUS
<1>15. o = FALSE
  OBVIOUS
<1> HIDE DEF o, v, f, h, w
<1>4. ~Connects
  BY <1>1 DEF Use
<1>5. /\ Data(net, sending = "written", engine /\ midway, Faithful, o, Loyally)
      /\ Sound(net) /\ Frames("sock") = 2
  BY <1>1, <1>2, <1>4, UsableData
<1>6. Data(net, w, v, f, o, h)
  BY <1>3, <1>5
<1>7. Data(net', o, v, f, o, h) /\ net'.got = net.got /\ (Behind(net.mail["sess"]) => Behind(net'.mail["sess"]))
  <2>1. CASE ~w
    <3>1. w = o /\ net' = net
      BY <1>1, <1>2, <1>3, <2>1, TypeFacts
    <3> QED
      BY <1>6, <3>1
  <2>2. CASE w /\ CanWrite(net, "sock")
    <3>1. net' = Write(net, "sock", Closing(net, "sock")) /\ (w <=> Frames("sock") = 2)
      BY <1>1, <1>3, <1>5, <2>2 DEF Closing
    <3>2. Sound(net) /\ CanWrite(net, "sock")
      BY <1>5, <2>2
    <3> QED
      BY ONLY <1>2, <1>6, <3>1, <3>2, SockWrote
  <2>3. CASE w /\ ~CanWrite(net, "sock")
    <3>1. net' = net \/ net' = Rollback(net, "sock")
      BY <1>1, <1>3, <2>3
    <3>2. net.end["sock"].state # "active"
      BY <1>3, <2>3 DEF Use, Room, CanWrite
    <3>3. Calm(net, Rollback(net, "sock"))
      BY <1>2, <1>5, <3>2, RollbackCalm
    <3>4. Fine(net, Rollback(net, "sock")) /\ Rollback(net, "sock").got = net.got
      BY <1>5, <3>3, CalmFine DEF Calm
    <3>5. Fine(net, net') /\ net'.got = net.got
      BY <3>1, <3>4, FineReflexive
    <3>6. Data(net, o, v, f, o, h)
      <4> DEFINE e == "sock"
      <4>1. e \in End /\ net.end[e].state # "active" /\ Good(net, e, w, f, o)
        BY <1>2, <1>6, <3>2 DEF Data
      <4> HIDE DEF e
      <4>2. Good(net, e, o, f, o)
        BY <1>2, <4>1, AnyBegun
      <4> QED
        BY <1>6, <4>2, Zenon DEF Data, e
    <3>7. Data(net', o, v, f, o, h)
      BY <1>2, <3>5, <3>6, FineData
    <3> QED
      BY <3>5, <3>7 DEF Fine
  <2> QED
    BY <1>2, <2>1, <2>2, <2>3
<1>8. /\ Data(net', sending' = "written", engine /\ midway, Faithful, o, Loyally)
      /\ (sending' = "written" => Room(net')) /\ (sending' # "no" => ~Connects)
  <2>1. (sending' = "written") = o
    BY <1>1, <1>15, Zenon
  <2> QED
    BY <1>1, <1>3, <1>7, <2>1
<1> QED
  BY <1>1, <1>2, <1>7, <1>8, UsedData

\* ReceiveRequest keeps the sixth layer.
LEMMA ReceiveRequestData ==
    ASSUME IInv, Flows(net), DataInv, Use, ReceiveRequest
    PROVE  DataInv' /\ Use'
<1> DEFINE n == ReadMessage(net, "sock")
           o == FALSE
           v == engine /\ midway
           f == Faithful
           h == Loyally
<1>1. /\ Usable /\ ~Connects /\ sending = "no"
      /\ \/ net' = n /\ sending' = sending
         \/ WriteFirst(n)
      /\ UNCHANGED <<kind, attached, closed, midway, half, owner, conns, engine>>
  BY DEF ReceiveRequest, sessVars, ownVars, wire, Connects
<1>2. o \in BOOLEAN /\ ~o /\ (sending = "written") = o /\ "sock" \in End /\ Peer("sock") = "sess" /\ Layer(net)
  BY <1>1, NetLayer DEF End, Peer
<1>3. Fine(net, n) /\ n.got["sess"] = net.got["sess"] /\ Layer(n)
  BY <1>2, ReadMessageFine, ReadsOther, ReadMessageLayer
<1>4. v \in BOOLEAN /\ f \in BOOLEAN /\ h \in BOOLEAN
  BY FlagTypes
<1>5. v = (engine /\ midway) /\ f = Faithful /\ h = Loyally
  OBVIOUS
<1> HIDE DEF n, o, v, f, h
<1>6. CASE net' = n /\ sending' = sending
  <2>1. (half => HalfRead("sess"))'
    BY <1>1, <1>3, <1>6, HalfStays
  <2> QED
    BY <1>1, <1>3, <1>6, <2>1, AskedKept, FineAction
<1>7. CASE WriteFirst(n)
  <2>1. Data(net, sending = "written", engine /\ midway, Faithful, o, Loyally)
    BY <1>1, <1>2, UsableData
  <2>2. Data(net, o, v, f, o, h)
    BY <1>2, <1>5, <2>1
  <2>3. Data(n, o, v, f, o, h)
    BY <1>2, <1>3, <1>4, <2>2, FineData
  <2>4. Data(n, o, engine /\ midway, Faithful, o, Loyally)
    BY <1>5, <2>3
  <2>5. Sound(n) /\ (Behind(net.mail["sess"]) => Behind(n.mail["sess"]))
    BY <1>3 DEF Layer, Fine
  <2> QED
    BY <1>1, <1>2, <1>3, <1>7, <2>4, <2>5, FirstData
<1> QED
  BY <1>1, <1>6, <1>7

\* Only a SUB's session hiccups.
LEMMA HiccupSub ==
    ASSUME IInv, DataInv, net.mail["sock"] # <<>>, Head(net.mail["sock"])[1] = "hiccup",
           net.end["sock"].out # NULL
    PROVE  kind = "SUB"
<1> SUFFICES ASSUME kind # "SUB" PROVE FALSE
  OBVIOUS
<1>1. Len(net.queue) = 2
  BY DEF DataInv, Data, Short
<1>2. /\ net \in NetType /\ QueueInv(net) /\ "sock" \in End /\ net.mail["sock"] \in Seq(Cmd)
  BY InvFacts DEF NetType
<1>3. HiccupsOK(net.mail["sock"], net.end["sock"].out, Len(net.queue)) /\ net.end["sock"].out # 1
  BY <1>2 DEF QueueInv
<1>4. net.end["sock"].out \in Nat
  BY <1>2, SockFields
<1> DEFINE last == Len(net.queue)
           out == net.end["sock"].out
           M == net.mail["sock"]
<1>5. last \in Nat /\ out \in Nat /\ M \in Seq(Cmd) /\ HiccupsOK(M, out, last) /\ M # <<>> /\ Head(M)[1] = "hiccup" /\ out # NULL
  BY <1>1, <1>2, <1>3, <1>4
<1>6. last = 2 /\ out # 1
  BY <1>1, <1>3
<1> HIDE DEF last, out, M
<1>7. out + 1 <= last
  BY <1>5, HiccupTaken
<1> QED
  BY <1>5, <1>6, <1>7 DEF NULL

\* ProcessHiccup keeps the sixth layer.
LEMMA ProcessHiccupData ==
    ASSUME IInv, Flows(net), DataInv, Use, ProcessHiccup
    PROVE  DataInv' /\ Use'
<1> DEFINE a == Head(net.mail["sock"])[2]
           r == Rest("sock")
           n == Turned(r, a)
           o == FALSE
           v == engine /\ midway
           f == Faithful
           h == Loyally
<1>1. net.mail["sock"] # <<>> /\ Head(net.mail["sock"])[1] = "hiccup" /\ Arrives("sock", "hiccup") /\ "sock" \in End
  BY DEF ProcessHiccup, Arrives, Command, End
<1>2. net.end["sock"].out # NULL
  <2>1. Expected("sock", "hiccup")
    BY <1>1, InvFacts, TargetsFound DEF CommandsFindTheirTarget, Command
  <2> QED
    BY <2>1 DEF Expected
<1>3. kind = "SUB"
  BY <1>1, <1>2, HiccupSub
<1>4. Fine(net, r) /\ r.got = net.got /\ Sound(r) /\ r \in NetType
  BY <1>1, RestFine
<1>5. r.end = net.end /\ r.queue = net.queue /\ r = [net EXCEPT !.mail["sock"] = Tail(@)]
  BY InvFacts DEF NetType, Rest
<1>6. net' = (IF State("sock") = "active" /\ net.sent["sock"] # <<>>
              THEN Write(n, "sock", First(n, "sock")) ELSE n)
  <2> DEFINE X == [Rest("sock") EXCEPT
                      !.queue[net.end["sock"].out] = [NewQueue EXCEPT !.deleted = TRUE],
                      !.end["sock"].written = @ - Count(net.queue[net.end["sock"].out].ready),
                      !.end["sock"].out = Command("sock")[2],
                      !.end["sock"].outActive = TRUE]
  <2>2. n = X
    BY <1>5 DEF Turned, Rest, Command
  <2>3. net' = (IF State("sock") = "active" /\ net.sent["sock"] # <<>>
                THEN Write(X, "sock", First(X, "sock")) ELSE X)
    BY DEF ProcessHiccup
  <2> HIDE DEF n, r, a, X
  <2> QED
    BY <2>2, <2>3
<1>7. a \in Nat
  <2>1. net.mail["sock"] \in Seq(Cmd)
    BY InvFacts DEF NetType
  <2>2. Head(net.mail["sock"]) \in Cmd
    BY <1>1, <2>1
  <2> QED
    BY <2>2 DEF Cmd
<1>8. Layer(n)
  <2>1. Layer(Turned([net EXCEPT !.mail["sock"] = Tail(@)], Head(net.mail["sock"])[2]))
    BY <1>1, <1>2, InvFacts, TurnedLayer
  <2> QED
    BY <1>5, <2>1
<1>9. UNCHANGED <<kind, attached, closed, sending, engine, midway, conns, half, owner>>
  BY DEF ProcessHiccup, sockVars, sessVars, ownVars, wire
<1>10. Sound(n)
  BY <1>8 DEF Layer
<1>11. n.got = r.got /\ n.end["sock"].state = r.end["sock"].state
  <2> DEFINE q == r.end["sock"].out
  <2>1. q \in DOMAIN r.queue /\ q = r.end["sock"].out
    BY <1>1, <1>2, <1>4, <1>5 DEF Sound, RefInv
  <2> HIDE DEF q, r, a
  <2>2. Turned(r, a).got = r.got /\ Turned(r, a).end["sock"].state = r.end["sock"].state
    BY <1>4, <1>7, <2>1, TurnedEffect
  <2> QED
    BY <2>2
<1>12. v \in BOOLEAN /\ f \in BOOLEAN /\ closed \in BOOLEAN /\ h \in BOOLEAN /\ o \in BOOLEAN /\ ~o
  BY FlagTypes
<1>13. v = (engine /\ midway) /\ f = Faithful /\ h = Loyally
  OBVIOUS
<1>14. Connects /\ attached
  BY <1>3 DEF Connects, IInv, SocketInv
<1> HIDE DEF r, a
<1>15. Fine(r, n)
  BY <1>2, <1>3, <1>4, <1>5, <1>7, TurnedFine
<1> HIDE DEF n, o, v, f, h
<1>16. Fine(net, n) /\ n.got = net.got
  BY <1>4, <1>11, <1>15, FineTransitive
<1>17. First(n, "sock") \in Frame /\ First(n, "sock") # DELIMITER
  BY <1>1, <1>10, MessageNotDelimiter DEF Sound
<1>18. CASE State("sock") = "active" /\ net.sent["sock"] # <<>> /\ CanWrite(n, "sock")
  <2>1. Usable
    BY <1>12, <1>14, <1>18 DEF Use, Open, Usable, State
  <2>2. /\ Data(net, sending = "written", engine /\ midway, Faithful, o, Loyally)
        /\ (Frames("sock") = 2 <=> ~Connects)
    BY <1>12, <2>1, UsableData
  <2>3. sending = "no" /\ ~(Frames("sock") = 2)
    BY <1>14, <2>2 DEF Use
  <2>4. (sending = "written") = o
    BY <1>12, <2>3
  <2>5. Data(net, o, v, f, o, h)
    BY <1>13, <2>2, <2>4
  <2>6. Data(n, o, v, f, o, h)
    BY <1>12, <1>16, <2>5, FineData
  <2>7. net' = Write(n, "sock", Closing(n, "sock")) /\ (o <=> Frames("sock") = 2)
    BY <1>6, <1>12, <1>18, <2>3 DEF Closing
  <2>8. Data(net', o, v, f, o, h) /\ net'.got = n.got /\ (Behind(n.mail["sess"]) => Behind(net'.mail["sess"]))
    <3>1. Sound(n) /\ CanWrite(n, "sock")
      BY <1>10, <1>18
    <3> QED
      BY ONLY <1>12, <2>6, <2>7, <3>1, SockWrote
  <2>9. /\ Data(net', sending' = "written", engine /\ midway, Faithful, o, Loyally)
        /\ (sending' = "written" => Room(net')) /\ (sending' # "no" => ~Connects)
    BY <1>9, <1>13, <2>3, <2>4, <2>8
  <2>10. net'.got["sess"] = net.got["sess"] /\ (Behind(net.mail["sess"]) => Behind(net'.mail["sess"]))
    BY <1>16, <2>8 DEF Fine
  <2> QED
    BY <1>9, <1>12, <2>1, <2>9, <2>10, UsedData
<1>19. CASE ~(State("sock") = "active" /\ net.sent["sock"] # <<>> /\ CanWrite(n, "sock"))
  <2>1. Fine(n, net') /\ net'.got = n.got
    <3>1. CASE net' = n
      BY <3>1, FineReflexive
    <3>2. CASE net' # n
      <4>1. net' = Write(n, "sock", First(n, "sock")) /\ ~CanWrite(n, "sock")
        BY <1>6, <1>19, <3>2
      <4> QED
        BY <1>1, <1>10, <1>17, <4>1, WriteFull, WriteOther
    <3> QED
      BY <3>1, <3>2
  <2>2. Fine(net, net') /\ net'.got["sess"] = net.got["sess"]
    BY <1>16, <2>1, FineTransitive
  <2>3. (half => HalfRead("sess"))'
    BY <1>9, <2>2, HalfStays
  <2> QED
    BY <1>9, <2>2, <2>3, AskedKept, FineAction
<1> QED
  BY <1>18, <1>19

------------------------------------------------------------------------------
(* The sixth layer is inductive *)

\* In the beginning nothing was sent, nothing is queued and nobody writes.
LEMMA InitData ==
    ASSUME Init
    PROVE  DataInv /\ Use
<1> DEFINE connects == kind \in {"REQ", "SUB"}
           state == IF connects THEN "active" ELSE "none"
           M == IF connects THEN <<<<"own", 0>>>> ELSE <<>>
           Q == <<NewQueue, NewQueue>>
<1>1. /\ \A e \in End : net.end[e] = NewEnd(e, state) /\ net.sent[e] = <<>> /\ net.got[e] = <<>>
      /\ net.queue = Q /\ net.mail["sock"] = M /\ net.mail["sess"] = <<>>
  BY Ends DEF Init, InitNet, End
<1>2. /\ engine = FALSE /\ midway = FALSE /\ half = FALSE /\ sending = "no" /\ closed = FALSE
      /\ owner = (IF Connects THEN "launched" ELSE "owned") /\ attached = Connects
  BY DEF Init
<1>3. /\ Q[1] = NewQueue /\ Q[2] = NewQueue /\ DOMAIN Q = {1, 2} /\ Len(Q) = 2
  OBVIOUS
<1>4. state \in {"active", "none"}
  OBVIOUS
<1> HIDE DEF M, state, connects, Q
<1>5. \A q \in {1, 2} : net.queue[q].ready = <<>> /\ net.queue[q].part = <<>>
  <2>1. NewQueue.ready = <<>> /\ NewQueue.part = <<>>
    BY DEF NewQueue
  <2> QED
    BY <2>1, <1>1, <1>3
<1>6. ASSUME NEW e \in End
      PROVE  /\ Peer(e) \in End /\ net.sent[e] = <<>> /\ net.got[e] = <<>> /\ net.end[e].state = state
             /\ net.end[e].in \in {1, 2} /\ net.end[e].out \in {1, 2}
             /\ net.end[e].out = net.end[Peer(e)].in
             /\ net.end[e].inActive = TRUE /\ net.end[e].delay = TRUE
  <2>1. Peer(e) \in End
    BY Ends
  <2>2. net.end[e] = NewEnd(e, state) /\ net.end[Peer(e)] = NewEnd(Peer(e), state)
    BY <1>1, <2>1
  <2>3. /\ net.end[e].state = state /\ net.end[e].inActive = TRUE /\ net.end[e].delay = TRUE
        /\ net.end[e].in = (IF e = "sock" THEN 1 ELSE 2)
        /\ net.end[e].out = (IF e = "sock" THEN 2 ELSE 1)
        /\ net.end[Peer(e)].in = (IF Peer(e) = "sock" THEN 1 ELSE 2)
    BY <2>2 DEF NewEnd
  <2>4. net.end[e].out = net.end[Peer(e)].in
    BY <2>3 DEF Peer, End
  <2> QED
    BY <1>1, <2>1, <2>3, <2>4
<1>7. ASSUME NEW e \in End PROVE Line(net, e)
  <2> DEFINE r == net.queue[net.end[Peer(e)].in].ready
  <2>1. r = <<>>
    BY <1>5, <1>6
  <2>2. net.sent[e] = <<>> /\ net.got[Peer(e)] = <<>>
    BY <1>6
  <2>3. Len(<<>>) = 0 /\ Whole(<<>>) = 0 /\ Count(<<>>) = 0 /\ DOMAIN <<>> = {}
    BY CountEmpty DEF Whole
  <2> HIDE DEF r
  <2>4. Stream(e, <<>>)
    BY <2>3 DEF Stream
  <2>5. Streams(net, e)
    BY <2>2, <2>3, <2>4 DEF Streams
  <2>6. Queued(e, <<>>, <<>>, <<>>)
    BY <2>3 DEF Queued
  <2>7. Awake(net, e, Peer(e))
    BY <1>6 DEF Awake
  <2>8. net.end[e].out \in {NULL, net.end[Peer(e)].in}
    BY <1>6
  <2>9. \A i \in DOMAIN r : r[i] # DELIMITER
    BY <2>1, <2>3
  <2>10. LineTo(net, e, Peer(e), r)
    BY <2>1, <2>2, <2>5, <2>6, <2>7, <2>8, <2>9 DEF LineTo
  <2> QED
    BY <2>10 DEF Line, r
<1>8. ASSUME NEW e \in End, NEW b \in BOOLEAN, ~b PROVE Began(net, e, b)
  <2>1. net.queue[net.end[e].out].part = <<>>
    BY <1>5, <1>6
  <2> QED
    BY <1>8, <2>1 DEF Began
<1>9. ASSUME NEW e \in End, NEW c PROVE Loyal(net, e, c)
  <2>1. state # "none" => Reads(net, e)
    BY <1>4, <1>6 DEF Reads
  <2> QED
    BY <1>6, <2>1 DEF Loyal
<1>10. ASSUME NEW e \in End, NEW b \in BOOLEAN, ~b, NEW f, NEW c PROVE Good(net, e, b, f, c)
  <2>1. Peer(e) \in End
    BY <1>6
  <2> QED
    BY <1>7, <1>8, <1>9, <1>10, <2>1 DEF Good, Wire
<1>11. Thin(net)
  <2>1. Plain(<<>>)
    BY DEF Plain
  <2>2. DOMAIN net.queue = {1, 2} /\ net.got["sess"] = <<>>
    BY <1>1, <1>3 DEF End
  <2> QED
    BY <1>5, <2>1, <2>2 DEF Thin
<1>12. Short(net)
  BY <1>1, <1>3 DEF Short
<1>13. DataInv
  <2>1. (sending = "written") \in BOOLEAN /\ ~(sending = "written")
        /\ (engine /\ midway) \in BOOLEAN /\ ~(engine /\ midway)
    BY <1>2
  <2>2. "sock" \in End /\ "sess" \in End
    BY DEF End
  <2>3. Good(net, "sock", sending = "written", Faithful, closed)
    BY ONLY <1>10, <2>1, <2>2
  <2>4. Good(net, "sess", engine /\ midway, Loyally, FALSE)
    BY ONLY <1>10, <2>1, <2>2
  <2> QED
    BY <1>11, <1>12, <2>3, <2>4, Zenon DEF DataInv, Data
<1>14. Use
  <2>1. net.sent["sock"] = <<>>
    BY <1>6 DEF End
  <2> QED
    BY <1>2, <2>1 DEF Use
<1> QED
  BY <1>13, <1>14

\* Nothing changes.
LEMMA StayData ==
    ASSUME DataInv, Use, UNCHANGED vars
    PROVE  DataInv' /\ Use'
<1>1. /\ net' = net /\ kind' = kind /\ attached' = attached /\ closed' = closed /\ sending' = sending
      /\ engine' = engine /\ midway' = midway /\ half' = half /\ conns' = conns /\ owner' = owner
  BY DEF vars, sockVars, sessVars, wire, ownVars
<1>2. Faithful' = Faithful /\ Loyally' = Loyally /\ (Connects' <=> Connects)
  BY <1>1 DEF Faithful, Loyally, Connects
<1>3. Data(net', sending' = "written", engine' /\ midway', Faithful', closed', Loyally')
  BY <1>1, <1>2 DEF DataInv
<1>4. (Room(net) <=> Room(net)') /\ (HalfRead("sess") <=> HalfRead("sess")')
      /\ (Open(net, "sock") <=> Open(net, "sock")')
  BY <1>1 DEF Room, Full, HalfRead, Open
<1>5. Use'
  BY <1>1, <1>2, <1>4 DEF Use
<1> QED
  BY <1>1, <1>3, <1>5, Carried

\* The layer is inductive, given the other five.
LEMMA NextData ==
    ASSUME IInv, Flows(net), DataInv, Use, [Next]_vars
    PROVE  DataInv' /\ Use'
<1>0. "sock" \in End /\ "sess" \in End
  BY DEF End
<1>1. CASE SendWhole      BY <1>1, SendWholeData
<1>2. CASE SendFirst      BY <1>2, SendFirstData
<1>3. CASE SendLast       BY <1>3, SendLastData
<1>4. CASE Receive        BY <1>4, ReceiveData
<1>5. CASE ReceiveRequest BY <1>5, ReceiveRequestData
<1>6. CASE Close          BY <1>6, CloseData
<1>7. CASE EngineReady    BY <1>7, EngineReadyData
<1>8. CASE Push           BY <1>8, PushData
<1>9. CASE Pull           BY <1>9, PullData
<1>10. CASE EngineError   BY <1>10, EngineErrorData
<1>11. CASE SocketCommand
  BY <1>0, <1>11, ActivateReadData, ActivateWriteData, PipeTermData, ProcessHiccupData,
     SocketPipeTermAckData, BindData, OwnData, TermAckData DEF SocketCommand
<1>12. CASE SessionCommand
  BY <1>0, <1>12, ActivateReadData, ActivateWriteData, PipeTermData,
     SessionPipeTermAckData, TermData, TermListenerData, TermReqData, ChildAckData
     DEF SessionCommand
<1>13. CASE UNCHANGED vars
  BY <1>13, StayData
<1> QED
  BY <1>1, <1>2, <1>3, <1>4, <1>5, <1>6, <1>7, <1>8, <1>9, <1>10, <1>11, <1>12, <1>13 DEF Next

------------------------------------------------------------------------------
(* What the layer says *)

\* Half a message was read: the other half is next.
LEMMA HalfFacts ==
    ASSUME NEW n, Sound(n), NEW e \in End, n.got[e] # <<>>, More(Last(n.got[e])),
           NEW b, NEW c, Wire(n, Peer(e), b, TRUE, c)
    PROVE  /\ CanRead(n, e) /\ InQueue(n, e).ready # <<>>
           /\ Head(InQueue(n, e).ready) = <<Last(n.got[e])[1], FALSE>>
<1> DEFINE d == Peer(e)
           g == n.got[e]
           s == n.sent[d]
           r == n.queue[n.end[e].in].ready
<1>1. d \in End /\ Peer(d) = e
  BY Ends
<1>2. Line(n, d) /\ Loyal(n, e, c)
  BY <1>1 DEF Wire
<1>3. /\ Streams(n, d) /\ (n.end[d].state = "none" => s = <<>>)
      /\ Reads(n, e) => Queued(d, g, s, r) /\ Awake(n, d, e)
  BY <1>1, <1>2 DEF Line, LineTo
<1>4. g \in Seq(Frame) /\ s \in Seq(Frame) /\ r \in Seq(Frame)
  <2>1. n \in NetType /\ n.end[e].in \in DOMAIN n.queue
    BY DEF Sound, RefInv
  <2>2. n.queue[n.end[e].in] \in QueueType
    BY <2>1, NetFields
  <2> QED
    BY <1>1, <2>1, <2>2, NetFields DEF QueueType
<1>5. Stream(d, g) /\ Stream(d, s) /\ Len(g) <= Len(s)
  BY <1>1, <1>3 DEF Streams
<1>6. g # <<>> /\ More(Last(g)) /\ Last(g) = g[Len(g)] /\ Len(g) \in DOMAIN g /\ Len(g) \in Nat
  BY <1>4 DEF Last
<1>7. Last(g) = FrameAt(d, Len(g))
  BY <1>5, <1>6 DEF Stream
<1>20. Sound(n) /\ n \in NetType
  BY DEF Sound
<1>21. n.got[Peer(d)] = g
  BY <1>1
<1> HIDE DEF d, g, s, r
<1>8. Frames(d) = 2 /\ Len(g) % 2 = 1
  <2>1. CASE Frames(d) # 2
    <3>1. Last(g) = <<Len(g), FALSE>>
      BY <1>6, <1>7, <2>1, FrameFacts
    <3>2. Last(g)[2] = FALSE
      <4>1. \A k : <<k, FALSE>>[2] = FALSE
        OBVIOUS
      <4> QED
        BY <3>1, <4>1
    <3> QED
      BY <1>6, <3>2 DEF More
  <2>2. CASE Frames(d) = 2
    <3>1. Last(g) = <<(Len(g) + 1) \div 2, Len(g) % 2 = 1>>
      BY <1>7, <2>2 DEF FrameAt
    <3>2. \A k, l : <<k, l>>[2] = l
      OBVIOUS
    <3>3. Last(g)[2] = (Len(g) % 2 = 1)
      BY ONLY <3>1, <3>2
    <3> QED
      BY <1>6, <2>2, <3>3 DEF More
  <2> QED
    BY <2>1, <2>2
<1>9. Len(g) < Len(s) /\ Len(s) \in Nat
  <2>1. Len(s) % 2 = 0 /\ Len(s) \in Nat
    BY <1>1, <1>3, <1>8, <1>20, EvenStreams DEF s
  <2>2. \A i, j \in Nat : i % 2 = 1 /\ j % 2 = 0 => i # j
    OBVIOUS
  <2>3. Len(g) # Len(s)
    BY <1>6, <1>8, <2>1, <2>2
  <2> QED
    BY <1>5, <1>6, <2>1, <2>3
<1>10. Reads(n, e)
  <2>1. n.end[e].state # "none"
    <3>1. n.end[e].state = "none" => n.end[d].state = "none"
      BY <1>20, <1>1 DEF Sound, End, d, Peer
    <3>2. s # <<>>
      BY <1>6, <1>9, <1>4
    <3> QED
      BY <1>3, <3>1, <3>2
  <2>2. ~Reads(n, e) => Len(g) = Len(s)
    BY <1>2, <2>1 DEF Loyal, g, s, d
  <2> QED
    BY <1>9, <2>2, <1>6
<1>11. r # <<>> /\ Head(r) = FrameAt(d, Len(g) + 1)
  BY <1>3, <1>4, <1>9, <1>10, QueuedNext
<1>12. n.end[e].inActive
  BY <1>3, <1>8, <1>10 DEF Awake, g
<1>13. CanRead(n, e)
  BY <1>10, <1>12 DEF CanRead, Reads
<1>14. Head(r) = <<Last(g)[1], FALSE>>
  <2>1. PICK k \in Nat : Len(g) = k + k + 1
    <3>1. \A i \in Nat : i % 2 = 1 => i = (i \div 2) + (i \div 2) + 1 /\ i \div 2 \in Nat
      OBVIOUS
    <3> QED
      BY <1>6, <1>8, <3>1
  <2>2. Last(g) = <<k + 1, TRUE>>
    BY <1>7, <1>8, <2>1, FrameFacts
  <2>3. Head(r) = <<k + 1, FALSE>>
    <3>1. Len(g) + 1 = k + k + 2
      BY <2>1
    <3>2. Head(r) = FrameAt(d, k + k + 2)
      BY <1>11, <3>1
    <3> QED
      BY <1>8, <3>2, FrameFacts
  <2>4. \A a, l : <<a, l>>[1] = a
    OBVIOUS
  <2>5. Last(g)[1] = k + 1
    BY <2>2, <2>4
  <2> QED
    BY <2>3, <2>5
<1> QED
  BY <1>11, <1>13, <1>14, Zenon DEF InQueue, r, g

\* What the layer says where it says something.
LEMMA WiresFacts ==
    ASSUME DataInv
    PROVE  /\ kind # "SUB" => Wire(net, "sock", sending = "written", Faithful, closed)
           /\ Wire(net, "sess", engine /\ midway, Loyally, FALSE)
           /\ kind = "SUB" => Plain(net.got["sess"])
<1>1. "sess" # "sock"
  OBVIOUS
<1> QED
  BY <1>1 DEF DataInv, Data, Good, Thin

\* The assertions of fq_t and of clean_pipes.
LEMMA HalvesMeet ==
    ASSUME IInv, DataInv, Use, NEW e \in End,
           IF e = "sess" THEN engine /\ half /\ Has(net, e) ELSE Usable /\ HalfRead(e)
    PROVE  /\ CanRead(net, e) /\ InQueue(net, e).ready # <<>>
           /\ Head(InQueue(net, e).ready) = <<Last(net.got[e])[1], FALSE>>
<1>0. Sound(net) /\ Peer("sock") = "sess" /\ Peer("sess") = "sock" /\ "sess" # "sock"
      /\ "sock" \in End /\ "sess" \in End
  BY InvFacts, BothSound
<1>1. net.got["sess"] \in Seq(Frame) /\ net.got["sock"] \in Seq(Frame)
  BY InvFacts, NetFields
<1>2. CASE e = "sess"
  <2>1. engine /\ HalfRead("sess")
    BY <1>2 DEF Use
  <2>2. net.got["sess"] # <<>> /\ More(Last(net.got["sess"]))
    BY <2>1 DEF HalfRead
  <2>3. kind # "SUB"
    <3>1. Last(net.got["sess"]) = net.got["sess"][Len(net.got["sess"])]
          /\ Len(net.got["sess"]) \in DOMAIN net.got["sess"]
      BY <1>1, <2>2 DEF Last
    <3>2. ~Plain(net.got["sess"])
      BY <2>2, <3>1 DEF Plain
    <3> QED
      BY <3>2, WiresFacts
  <2>4. Wire(net, "sock", sending = "written", Faithful, closed)
    BY <2>3, WiresFacts
  <2>5. ~Connects
    <3> SUFFICES ASSUME Connects PROVE FALSE
      OBVIOUS
    <3>1. Frames("sock") # 2
      BY DEF Frames
    <3>2. Stream("sock", net.got["sess"])
      BY <1>0, <2>4 DEF Wire, Line, LineTo, Streams
    <3>3. Len(net.got["sess"]) \in DOMAIN net.got["sess"] /\ Len(net.got["sess"]) \in Nat
          /\ Last(net.got["sess"]) = net.got["sess"][Len(net.got["sess"])]
      BY <1>1, <2>2 DEF Last
    <3>4. Last(net.got["sess"]) = <<Len(net.got["sess"]), FALSE>>
      BY <3>1, <3>2, <3>3, FrameFacts DEF Stream
    <3>5. \A k : <<k, FALSE>>[2] = FALSE
      OBVIOUS
    <3> QED
      BY <2>2, <3>4, <3>5 DEF More
  <2>6. Wire(net, Peer("sess"), sending = "written", TRUE, closed)
    BY <1>0, <2>1, <2>4, <2>5 DEF Faithful, Wire
  <2> QED
    BY <1>0, <1>2, <2>2, <2>6, HalfFacts
<1>3. CASE e = "sock"
  <2>1. attached /\ ~closed /\ HalfRead("sock")
    BY <1>0, <1>3 DEF Usable
  <2>2. net.got["sock"] # <<>> /\ More(Last(net.got["sock"]))
    BY <2>1 DEF HalfRead
  <2>4. Wire(net, "sess", engine /\ midway, Loyally, FALSE)
    BY WiresFacts
  <2>5. kind # "PUB"
    <3> SUFFICES ASSUME kind = "PUB" PROVE FALSE
      OBVIOUS
    <3>1. Frames("sess") # 2
      BY DEF Frames
    <3>2. Stream("sess", net.got["sock"])
      BY <1>0, <2>4 DEF Wire, Line, LineTo, Streams
    <3>3. Len(net.got["sock"]) \in DOMAIN net.got["sock"] /\ Len(net.got["sock"]) \in Nat
          /\ Last(net.got["sock"]) = net.got["sock"][Len(net.got["sock"])]
      BY <1>1, <2>2 DEF Last
    <3>4. Last(net.got["sock"]) = <<Len(net.got["sock"]), FALSE>>
      BY <3>1, <3>2, <3>3, FrameFacts DEF Stream
    <3>5. \A k : <<k, FALSE>>[2] = FALSE
      OBVIOUS
    <3> QED
      BY <2>2, <3>4, <3>5 DEF More
  <2>6. Wire(net, Peer("sock"), engine /\ midway, TRUE, FALSE)
    BY <1>0, <2>1, <2>4, <2>5 DEF Loyally, Wire
  <2> QED
    BY <1>0, <1>3, <2>2, <2>6, HalfFacts
<1> QED
  BY <1>2, <1>3 DEF End

\* What is read is what was sent, and messages have the frames they should.
LEMMA StreamsMeet ==
    ASSUME IInv, DataInv, NEW e \in End, ~(e = "sock" /\ kind = "SUB")
    PROVE  /\ IsPrefix(net.got[Peer(e)], net.sent[e])
           /\ Frames(e) = 2 => \A i \in DOMAIN net.sent[e] : More(net.sent[e][i]) <=> i % 2 = 1
<1>1. Line(net, e)
  <2>1. CASE e = "sock"
    BY <2>1, WiresFacts DEF Wire
  <2>2. CASE e = "sess"
    BY <2>2, WiresFacts DEF Wire
  <2> QED
    BY <2>1, <2>2 DEF End
<1>2. /\ Stream(e, net.got[Peer(e)]) /\ Stream(e, net.sent[e])
      /\ Len(net.got[Peer(e)]) <= Len(net.sent[e])
  BY <1>1 DEF Line, LineTo, Streams
<1>3. net.got[Peer(e)] \in Seq(Frame) /\ net.sent[e] \in Seq(Frame)
  BY InvFacts, NetFields, Ends
<1>4. IsPrefix(net.got[Peer(e)], net.sent[e])
  BY <1>2, <1>3, StreamPrefix
<1>5. ASSUME Frames(e) = 2, NEW i \in DOMAIN net.sent[e]
      PROVE  More(net.sent[e][i]) <=> i % 2 = 1
  <2>1. net.sent[e][i] = <<(i + 1) \div 2, i % 2 = 1>>
    BY <1>2, <1>5 DEF Stream, FrameAt
  <2>2. \A k, l : <<k, l>>[2] = l
    OBVIOUS
  <2>3. net.sent[e][i][2] = (i % 2 = 1)
    BY ONLY <2>1, <2>2
  <2> QED
    BY <2>3 DEF More
<1> QED
  BY <1>4, <1>5

\* The layer implies MessagesAreWhole.
LEMMA Meeting ==
    ASSUME IInv, DataInv, Use
    PROVE  MessagesAreWhole
<1>1. \A e \in End : Frames(e) = 2 => ~(e = "sock" /\ kind = "SUB")
  BY DEF Frames, Connects
<1>2. \A e \in End : (IF e = "sess" THEN engine /\ half /\ Has(net, e) ELSE Usable /\ HalfRead(e)) =>
           /\ CanRead(net, e) /\ InQueue(net, e).ready # <<>>
           /\ Head(InQueue(net, e).ready) = <<Last(net.got[e])[1], FALSE>>
  BY HalvesMeet
<1>3. \A e \in End : ~(e = "sock" /\ kind = "SUB") => IsPrefix(net.got[Peer(e)], net.sent[e])
  BY StreamsMeet
<1>4. \A e \in End : Frames(e) = 2 =>
           \A i \in DOMAIN net.sent[e] : More(net.sent[e][i]) <=> i % 2 = 1
  BY <1>1, StreamsMeet
<1> QED
  BY <1>2, <1>3, <1>4 DEF MessagesAreWhole

\* An end that reads no more has read all.
LEMMA ReadToEnd ==
    ASSUME IInv, NEW e \in End, NEW b, NEW c, Wire(net, Peer(e), b, TRUE, c), ~Reads(net, e)
    PROVE  net.got[e] = net.sent[Peer(e)]
<1>1. Peer(e) \in End /\ Peer(Peer(e)) = e
  BY Ends
<1>2. Line(net, Peer(e)) /\ Loyal(net, e, c)
  BY <1>1 DEF Wire
<1>3. /\ Stream(Peer(e), net.got[e]) /\ Stream(Peer(e), net.sent[Peer(e)])
      /\ Len(net.got[e]) <= Len(net.sent[Peer(e)])
      /\ net.end[Peer(e)].state = "none" => net.sent[Peer(e)] = <<>>
  BY <1>1, <1>2 DEF Line, LineTo, Streams
<1>4. net.got[e] \in Seq(Frame) /\ net.sent[Peer(e)] \in Seq(Frame)
  BY <1>1, InvFacts, NetFields
<1>5. Len(net.got[e]) = Len(net.sent[Peer(e)])
  <2>1. CASE net.end[e].state # "none"
    BY <1>2, <2>1 DEF Loyal
  <2>2. CASE net.end[e].state = "none"
    <3>1. Sound(net)
      BY InvFacts, BothSound
    <3>2. net.end[Peer(e)].state = "none"
      BY <2>2, <3>1 DEF Sound, End, Peer
    <3>3. net.sent[Peer(e)] = <<>>
      BY <1>3, <3>2
    <3>4. Len(net.got[e]) \in Nat /\ Len(net.sent[Peer(e)]) = 0
      BY <1>4, <3>3
    <3> QED
      BY <1>3, <3>4
  <2> QED
    BY <2>1, <2>2
<1> QED
  BY <1>3, <1>4, <1>5, StreamPrefix

\* The session reads to the delimiter as long as its engine holds.
LEMMA SessionRead ==
    ASSUME IInv, DataInv, ~Connects, engine, ~Reads(net, "sess")
    PROVE  net.got["sess"] = net.sent["sock"]
<1>1. Peer("sess") = "sock" /\ "sess" \in End /\ kind # "SUB" /\ Faithful
  BY InvFacts DEF Connects, Faithful
<1>2. Wire(net, Peer("sess"), sending = "written", TRUE, closed)
  BY <1>1, WiresFacts DEF Wire
<1> QED
  BY <1>1, <1>2, ReadToEnd

\* The socket does as long as it is not closed.
LEMMA SocketRead ==
    ASSUME IInv, DataInv, kind = "REP", ~closed, ~Reads(net, "sock")
    PROVE  net.got["sock"] = net.sent["sess"]
<1>1. Peer("sock") = "sess" /\ "sock" \in End /\ Loyally
  BY InvFacts DEF Loyally
<1>2. Wire(net, Peer("sock"), engine /\ midway, TRUE, FALSE)
  BY <1>1, WiresFacts DEF Wire
<1> QED
  BY <1>1, <1>2, ReadToEnd

\* An end that is told that its peer has gone had stopped reading.
LEMMA AckedStopped ==
    ASSUME IInv, NEW e \in End, Arrives(e, "pipe_term_ack")
    PROVE  ~Reads(net, e)
<1>1. State(e) \in {"term_ack_sent", "term_req_sent1", "term_req_sent2"}
  <2>1. CommandsFindTheirTarget
    BY TargetsFound
  <2>2. net.mail[e] # <<>> /\ Command(e)[1] = "pipe_term_ack"
    BY DEF Arrives
  <2> QED
    BY <2>1, <2>2 DEF CommandsFindTheirTarget, Expected
<1> QED
  BY <1>1 DEF Reads, State

\* A session goes when its end is told, or when it is and has no end.
LEMMA SessionGoes ==
    ASSUME IInv, DataInv, ~Connects, engine, session' = "deleted", [Next]_vars
    PROVE  net.got["sess"] = net.sent["sock"]
<1>1. session = "alive"
  BY DEF IInv, SessionInv
<1>2. SessionPipeTermAck \/ Term
  <2>1. session' # session
    BY <1>1
  <2> QED
    BY <2>1 DEF Next, vars, sessVars, SendWhole, SendFirst, SendLast, Receive, ReceiveRequest, Close,
       EngineReady, Push, Pull, EngineError, SocketCommand, SessionCommand, ActivateRead, ActivateWrite,
       PipeTerm, ProcessHiccup, SocketPipeTermAck, Bind, Own, TermAck, TermListener, TermReq, ChildAck
<1>3. ~Reads(net, "sess")
  <2>1. CASE SessionPipeTermAck
    BY <2>1, InvFacts, AckedStopped DEF SessionPipeTermAck
  <2>2. CASE Term
    <3>1. ~Has(net, "sess")
      BY <1>1, <2>2 DEF Term
    <3> QED
      BY <3>1 DEF Has, Reads
  <2> QED
    BY <1>2, <2>1, <2>2
<1> QED
  BY <1>3, SessionRead

\* The calls of the session leave the socket's end where it is.
LEMMA SockStays ==
    ASSUME IInv, DataInv, kind = "REP", ~closed, Has(net, "sock"), [Next]_vars, ~SocketPipeTermAck
    PROVE  Has(net', "sock")
<1>0. /\ "sock" \in End /\ "sess" \in End /\ Peer("sock") = "sess" /\ Peer("sess") = "sock"
      /\ Both(net) /\ PairInv(net) /\ net \in NetType /\ ~Connects
  BY InvFacts DEF Connects
<1>1. ASSUME NEW e \in End, Step(net, net', e) PROVE Has(net', "sock")
  BY <1>1, KeepsAlike, AlikeSock DEF Step
<1>2. ASSUME net'.end = net.end PROVE Has(net', "sock")
  BY <1>2 DEF Has
<1>3. CASE SendLast
  <2>1. Step(net, Write(net, "sock", Final(net, "sock")), "sock")
    BY <1>0, MessageFrames, WriteStep
  <2>2. Step(net, Rollback(net, "sock"), "sock")
    BY <1>0, RollbackStep
  <2>3. Step(net, net, "sock")
    BY <1>0, StepReflexive
  <2>4. Step(net, net', "sock")
    BY <1>3, <2>1, <2>2, <2>3 DEF SendLast
  <2> QED
    BY <1>0, <1>1, <2>4
<1>4. CASE ReceiveRequest
  <2> DEFINE n == ReadMessage(net, "sock")
             m == Write(n, "sock", First(n, "sock"))
  <2>1. Step(net, n, "sock")
    BY <1>0, ReadMessageStep
  <2>2. net' = n \/ net' = m
    BY <1>4 DEF ReceiveRequest, WriteFirst
  <2> HIDE DEF n
  <2>3. PairInv(n) /\ n \in NetType
    BY <2>1 DEF Step, PairInv
  <2>4. Step(n, m, "sock")
    BY <1>0, <2>3, MessageFrames, WriteStep
  <2>5. Step(net, m, "sock")
    BY <1>0, <2>1, <2>4, StepTransitive
  <2> QED
    BY <1>0, <1>1, <2>1, <2>2, <2>5
<1>5. CASE Close
  <2> DEFINE n == Terminate(net, "sock", FALSE)
  <2>1. Step(net, n, "sock") /\ Step(net, net, "sock")
    BY <1>0, TerminateStep, StepReflexive
  <2> HIDE DEF n
  <2>2. Has(n, "sock")
    BY <1>0, <2>1, KeepsAlike, AlikeSock DEF Step
  <2>3. \/ net' = n \/ net' = net \/ net' = Send(n, "sess", "term_listener", 0)
        \/ net' = Send(net, "sess", "term_listener", 0)
    BY <1>0, <1>5 DEF Close, n
  <2>4. \A k : Send(k, "sess", "term_listener", 0).end = k.end
    BY DEF Send
  <2> QED
    BY <2>2, <2>3, <2>4 DEF Has
<1>6. CASE EngineReady
  <2>1. conns < 1 /\ conns \in 0 .. MaxConn /\ MaxConn \in Nat
    BY <1>0, <1>6, PipeAssumption DEF EngineReady, IInv, TypeOK
  <2>2. net.end["sock"].state = "none"
    BY <1>0, <2>1 DEF IInv, SocketInv
  <2> QED
    BY <2>2 DEF Has
<1>7. CASE Push
  <2> DEFINE frame == IF midway THEN Final(net, "sess") ELSE First(net, "sess")
  <2>1. frame \in Frame
    BY <1>0, MessageFrames
  <2>2. net' = Write(net, "sess", frame)
    BY <1>7 DEF Push
  <2> HIDE DEF frame
  <2> QED
    BY <1>0, <1>1, <2>1, <2>2, WriteStep
<1>8. CASE Pull
  <2>1. net' = Read(net, "sess") \/ net' = ReadMessage(net, "sess")
    BY <1>8 DEF Pull
  <2> QED
    BY <1>0, <1>1, <2>1, ReadStep, ReadMessageStep
<1>9. CASE EngineError
  <2> DEFINE n == IF Has(net, "sess") THEN CleanPipes(net) ELSE net
             m == IF pending THEN IF Has(net, "sess") THEN Terminate(n, "sess", FALSE) ELSE n
                  ELSE Send(n, "sess", "term_req", 0)
  <2>1. net' = (IF Has(net, "sess") THEN CheckRead(m, "sess") ELSE m)
    BY <1>0, <1>9 DEF EngineError, Connects
  <2>2. Step(net, n, "sess")
    BY <1>0, CleanPipesStep, StepReflexive
  <2>3. Both(n) /\ Alike(net, n)
    BY <1>0, <2>2, StepBoth
  <2> HIDE DEF n
  <2>4. PairInv(m) /\ (Has(m, "sock") <=> Has(n, "sock"))
    <3>1. CASE pending /\ Has(net, "sess")
      <4>1. m = Terminate(n, "sess", FALSE) /\ Has(n, "sess")
        BY <1>0, <2>3, <3>1 DEF Alike
      <4>2. Step(n, m, "sess")
        BY <1>0, <2>3, <4>1, TerminateStep DEF Both
      <4> HIDE DEF m
      <4> QED
        BY <1>0, <4>2, KeepsAlike, AlikeSock DEF Step
    <3>2. CASE pending /\ ~Has(net, "sess")
      BY <2>3, <3>2 DEF Both
    <3>3. CASE ~pending
      <4>1. m = Send(n, "sess", "term_req", 0)
        BY <3>3
      <4>2. "term_req" \notin Types(net.mail["sess"]) /\ "child_ack" \notin Types(net.mail["sess"])
        BY <1>9 DEF EngineError, IInv, SessionInv, SessMail
      <4>3. "term_req" \in OwnTypes /\ "child_ack" \in OwnTypes
        BY DEF OwnTypes
      <4>4. Types(n.mail["sess"]) \cap OwnTypes = Types(net.mail["sess"]) \cap OwnTypes
        BY <1>0, <2>3 DEF Alike
      <4>5. "term_req" \notin Types(n.mail["sess"]) /\ "child_ack" \notin Types(n.mail["sess"])
        BY <4>2, <4>3, <4>4
      <4>6. "term_req" # "bind"
        OBVIOUS
      <4> DEFINE c == "term_req"
      <4>7. /\ Both(n) /\ "sess" \in End /\ c \in OwnTypes /\ c \notin Types(n.mail["sess"])
            /\ c = "bind" => Types(n.mail["sess"]) \cap PipeTypes = {}
            /\ c = "term_req" => "child_ack" \notin Types(n.mail["sess"])
            /\ m = Send(n, "sess", c, 0)
        BY <1>0, <2>3, <4>1, <4>3, <4>5, <4>6
      <4> HIDE DEF m, c
      <4>8. Both(m) /\ Told(n, m, "sess", c)
        BY ONLY <4>7, SendBoth
      <4>9. m.end = n.end
        BY <4>8 DEF Told
      <4> QED
        BY <4>8, <4>9 DEF Both, Has
    <3> QED
      BY <3>1, <3>2, <3>3
  <2>5. Has(m, "sock")
    BY <2>3, <2>4, AlikeSock
  <2> HIDE DEF m
  <2>6. Has(CheckRead(m, "sess"), "sock")
    BY <1>0, <2>4, <2>5, CheckReadStep, KeepsAlike, AlikeSock DEF Step
  <2> QED
    BY <2>1, <2>5, <2>6
<1>10. ASSUME NEW e \in End, ActivateRead(e) PROVE Has(net', "sock")
  <2> DEFINE r == Rest(e)
             w == [r EXCEPT !.end[e].inActive = TRUE]
  <2>1. Arrives(e, "activate_read") /\ "activate_read" \in Noise
    BY <1>10 DEF ActivateRead, Noise
  <2>2. PairInv(r) /\ r \in NetType /\ r.end = net.end
    BY <2>1, RestPair DEF Rest
  <2>3. Step(r, w, e)
    BY <2>2, WakeStep
  <2>4. net' = r \/ net' = Activated(w, e)
    BY <1>10 DEF ActivateRead
  <2>5. Step(w, Activated(w, e), e)
    BY <2>3, ActivatedStep DEF Step
  <2> HIDE DEF r, w
  <2>6. Has(Activated(w, e), "sock") <=> Has(r, "sock")
    BY <2>3, <2>5, KeepsAlike, AlikeSock DEF Step
  <2>7. Has(r, "sock")
    BY <2>2 DEF Has
  <2> QED
    BY <2>4, <2>6, <2>7
<1>11. ASSUME NEW e \in End, ActivateWrite(e) PROVE Has(net', "sock")
  <2> DEFINE r == Rest(e)
             b == State(e) = "active"
             count == Command(e)[2]
  <2>1. Arrives(e, "activate_write") /\ "activate_write" \in Noise
    BY <1>11 DEF ActivateWrite, Noise
  <2>2. PairInv(r) /\ r.end = net.end
    BY <2>1, RestPair DEF Rest
  <2>3. count \in Nat
    <3>1. net.mail[e] \in Seq(Cmd) /\ net.mail[e] # <<>>
      BY <1>0, <2>1, NetFields DEF Arrives
    <3>2. Head(net.mail[e]) \in Cmd
      BY <3>1
    <3> QED
      BY <3>2 DEF Command, Cmd
  <2>4. b \in BOOLEAN /\ net' = Credited(r, e, count, b)
    BY <1>11 DEF ActivateWrite, Credited
  <2> HIDE DEF r, b, count
  <2>5. Step(r, net', e)
    BY <2>2, <2>3, <2>4, CreditStep
  <2>6. Has(r, "sock")
    BY <2>2 DEF Has
  <2> QED
    BY <2>5, <2>6, KeepsAlike, AlikeSock DEF Step
<1>12. ASSUME NEW e \in End, PipeTerm(e) PROVE Has(net', "sock")
  <2> DEFINE r == Rest(e)
             m == Answer(r, e)
  <2>1. net.mail[e] # <<>> /\ Head(net.mail[e])[1] = "pipe_term"
    BY <1>12 DEF PipeTerm, Arrives, Command
  <2>2. r.end = net.end
    BY DEF Rest
  <2>3. net' = m
    <3>1. net' = (CASE net.end[e].state = "active" /\ net.end[e].delay -> Goto(r, e, "waiting_for_delimiter")
                    [] net.end[e].state = "term_req_sent1" -> Acknowledge(r, e, "term_req_sent2")
                    [] OTHER -> Acknowledge(r, e, "term_ack_sent"))
      BY <1>12 DEF PipeTerm, State
    <3> HIDE DEF r
    <3> QED
      BY <2>2, <3>1 DEF Answer
  <2>4. Left(net, m, e)
    BY <1>0, <2>1, AnswerStep DEF Rest
  <2> HIDE DEF m, r
  <2>5. e = "sock" \/ e = "sess"
    BY DEF End
  <2> QED
    BY <1>0, <2>3, <2>4, <2>5 DEF Left, Has
<1>13. CASE Bind
  <2>1. net' = Rest("sock")
    BY <1>13 DEF Bind
  <2> QED
    BY <1>2, <2>1 DEF Rest
<1>14. CASE Own \/ TermAck \/ TermListener \/ TermReq \/ ChildAck
  <2>1. \A x : Rest(x).end = net.end
    BY DEF Rest
  <2>2. \A k, x, c : Send(k, x, c, 0).end = k.end
    BY DEF Send
  <2>3. Send(Rest("sock"), "sess", "term", 0).end = net.end /\ Send(Rest("sess"), "sess", "term", 0).end = net.end
        /\ Send(Rest("sess"), "sock", "term_ack", 0).end = net.end
    BY <2>1, <2>2
  <2>4. CASE Own
    BY <1>2, <2>1, <2>3, <2>4 DEF Own
  <2>5. CASE TermAck
    BY <1>2, <2>1, <2>5 DEF TermAck
  <2>6. CASE TermListener
    <3>1. owner # "launched"
      BY <1>0 DEF IInv, SessionInv
    <3>2. owner \in {"owned", "asked", "freed"}
      BY <3>1, TypeFacts
    <3>3. \/ net' = Rest("sess")
          \/ net' = Send(Rest("sess"), "sess", "term", 0)
          \/ net' = Send(Rest("sess"), "sock", "term_ack", 0)
      BY <2>6, <3>2 DEF TermListener
    <3> QED
      BY <1>2, <2>1, <2>3, <3>3
  <2>7. CASE TermReq
    BY <1>2, <2>1, <2>3, <2>7 DEF TermReq
  <2>8. CASE ChildAck
    BY <1>2, <2>1, <2>3, <2>8 DEF ChildAck
  <2> QED
    BY <1>14, <2>4, <2>5, <2>6, <2>7, <2>8
<1>15. CASE Term
  <2> DEFINE r == Rest("sess")
             n == Terminate(r, "sess", Lingers)
             m == CheckRead(n, "sess")
  <2>1. r.end = net.end
    BY DEF Rest
  <2>2. Arrives("sess", "term") /\ "term" \in OwnTypes
    BY <1>15 DEF Term, OwnTypes
  <2>3. PairInv(r)
    BY <1>0, <2>2, RestOwn, Zenon DEF Both
  <2>4. \/ Has(net, "sess") /\ net' \in {n, m}
        \/ net' = Send(r, "sess", "child_ack", 0)
    BY <1>0, <1>15 DEF Term, Confirm
  <2>5. \A k : Send(k, "sess", "child_ack", 0).end = k.end
    BY DEF Send
  <2>6. Lingers \in BOOLEAN
    BY DEF Lingers, Connects
  <2> HIDE DEF r
  <2>7. Has(r, "sock") /\ (Has(net, "sess") => Has(r, "sess"))
    BY <2>1 DEF Has
  <2>8. Has(net, "sess") => Step(r, n, "sess")
    BY <1>0, <2>3, <2>6, <2>7, TerminateStep
  <2> HIDE DEF n
  <2>9. Has(net, "sess") => Step(n, m, "sess")
    BY <1>0, <2>8, CheckReadStep DEF Step
  <2> HIDE DEF m
  <2>10. Has(net, "sess") => Has(n, "sock") /\ Has(m, "sock")
    BY <1>0, <2>7, <2>8, <2>9, KeepsAlike, AlikeSock DEF Step
  <2> QED
    BY <2>4, <2>5, <2>7, <2>10 DEF Has
<1>16. CASE SessionPipeTermAck
  <2> DEFINE r == Rest("sess")
             k == IF pending THEN Send(r, "sess", "child_ack", 0) ELSE r
  <2>1. net' = Deallocate(k, "sess")
    BY <1>0, <1>16 DEF SessionPipeTermAck, Confirm
  <2>2. k.end = net.end /\ net.end \in [End -> EndType]
    BY <1>0, NetFields DEF Rest, Send
  <2> HIDE DEF k
  <2> DEFINE g == Goto(k, "sess", "deleted")
             a == Acknowledge(k, "sess", "deleted")
             d == IF k.end["sess"].state = "term_req_sent1" THEN a ELSE g
  <2>3. g.end["sock"] = net.end["sock"]
    BY <1>0, <2>2 DEF Goto
  <2>4. a.end["sock"] = net.end["sock"]
    <3> DEFINE b == [k EXCEPT !.end["sess"].out = NULL, !.end["sess"].state = "deleted"]
    <3>1. b.end["sock"] = net.end["sock"]
      BY <1>0, <2>2
    <3>2. a = Send(b, Peer("sess"), "pipe_term_ack", 0)
      BY DEF Acknowledge
    <3> HIDE DEF a, b
    <3>3. a.end = b.end
      BY <3>2 DEF Send
    <3> QED
      BY <3>1, <3>3
  <2> HIDE DEF g, a
  <2>5. net' = [d EXCEPT !.queue[k.end["sess"].in] = [NewQueue EXCEPT !.deleted = TRUE]]
    BY <2>1 DEF Deallocate, g, a
  <2> HIDE DEF d
  <2>6. net'.end = d.end
    BY <2>5
  <2>7. net'.end["sock"] = net.end["sock"]
    BY <2>3, <2>4, <2>6 DEF d
  <2> QED
    BY <2>7 DEF Has
<1>17. ~ProcessHiccup
  <2> SUFFICES ASSUME ProcessHiccup PROVE FALSE
    OBVIOUS
  <2>1. Arrives("sock", "hiccup")
    BY DEF ProcessHiccup
  <2>2. net.mail["sock"] # <<>> /\ Head(net.mail["sock"])[1] = "hiccup"
    BY <2>1 DEF Arrives, Command
  <2>3. net.end["sock"].out # NULL
    <3>1. CommandsFindTheirTarget
      BY TargetsFound
    <3> QED
      BY <1>0, <2>2, <3>1 DEF CommandsFindTheirTarget, Expected, Command
  <2> QED
    BY <2>2, <2>3, HiccupSub
<1>18. CASE UNCHANGED vars
  BY <1>2, <1>18 DEF vars
<1>19. ~SendWhole /\ ~SendFirst /\ ~Receive
  BY <1>0 DEF SendWhole, SendFirst, Receive
<1>20. CASE SocketCommand
  BY <1>0, <1>10, <1>11, <1>12, <1>13, <1>14, <1>17, <1>20 DEF SocketCommand
<1>21. CASE SessionCommand
  BY <1>0, <1>10, <1>11, <1>12, <1>14, <1>15, <1>16, <1>21 DEF SessionCommand
<1> QED
  BY <1>3, <1>4, <1>5, <1>6, <1>7, <1>8, <1>9, <1>18, <1>19, <1>20, <1>21 DEF Next

\* A socket's end goes when it is told.
LEMMA SocketGoes ==
    ASSUME IInv, DataInv, kind = "REP", ~closed, Has(net, "sock"),
           net'.end["sock"].state = "deleted", [Next]_vars
    PROVE  net.got["sock"] = net.sent["sess"]
<1>1. SocketPipeTermAck
  BY SockStays DEF Has
<1>2. ~Reads(net, "sock")
  BY <1>1, InvFacts, AckedStopped DEF SocketPipeTermAck
<1> QED
  BY <1>2, SocketRead

\* The layer implies the promise.
LEMMA Promised ==
    ASSUME IInv, DataInv, [Next]_vars
    PROVE  /\ (Lingers /\ engine /\ session' = "deleted")
                 => net.got["sess"] = net.sent["sock"]
           /\ (kind = "REP" /\ ~closed /\ Has(net, "sock") /\ State("sock")' = "deleted")
                 => net.got["sock"] = net.sent["sess"]
BY SessionGoes, SocketGoes DEF Lingers, State

------------------------------------------------------------------------------
(* Messages and promises *)

\* The layers of the invariant hold in every reachable state.
THEOREM Layered == Spec => [](IInv /\ DataInv /\ Use)
<1>1. Init => IInv /\ Flows(net) /\ DataInv /\ Use
  BY InitInv, InitFlows, InitData
<1>2. IInv /\ Flows(net) /\ DataInv /\ Use /\ [Next]_vars => IInv' /\ Flows(net') /\ DataInv' /\ Use'
  BY NextInv, NextFlows, NextData
<1>3. Flows(net)' <=> Flows(net')
  BY DEF Flows, FlowInv, Ahead, Unwritten
<1>4. (IInv /\ Flows(net) /\ DataInv /\ Use) /\ [Next]_vars => (IInv /\ Flows(net) /\ DataInv /\ Use)'
  BY <1>2, <1>3
<1>5. Spec => [](IInv /\ Flows(net) /\ DataInv /\ Use)
  BY <1>1, <1>4, PTL DEF Spec
<1> QED
  BY <1>5, PTL

\* What is read from a pipe is what was written to it, in order and message by
\* message: whoever has read the first frame of a message finds the last one there
\* (the assertions of fq_t::recvpipe and of session_base_t::clean_pipes), whatever
\* was closed, lost or full between the writes of the two frames (pipe.cpp, write,
\* rollback, process_delimiter; socket and session do not write half messages).
THEOREM MessagesSound == Spec => []MessagesAreWhole
BY Layered, Meeting, PTL

\* With linger, what a closed socket has sent is taken by its session before that is
\* deleted, if its engine holds; and a Responder's end is deleted only when all that
\* was sent to it was read (pipe.cpp, process_pipe_term, terminate with a delay, and
\* the delimiter; session_base.cpp, process_term).
THEOREM PromisesKept == Spec => NothingPromisedIsDropped
<1>1. IInv /\ DataInv /\ Use /\ [Next]_vars =>
        [ /\ (Lingers /\ engine /\ session' = "deleted") => net.got["sess"] = net.sent["sock"]
          /\ (kind = "REP" /\ ~closed /\ Has(net, "sock") /\ State("sock")' = "deleted")
                => net.got["sock"] = net.sent["sess"] ]_vars
  BY Promised
<1> QED
  BY <1>1, Layered, PTL DEF Spec, NothingPromisedIsDropped
==============================================================================
