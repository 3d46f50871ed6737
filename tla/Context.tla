------------------------------- MODULE Context -------------------------------
(***************************************************************************)
(* The one Communicator of a process, over its ZeroMQ context: the maps of *)
(* instances, the slots and sockets of ctx_t, the reaper, and the end of   *)
(* the process, when static destruction takes all of it down.              *)
(*                                                                         *)
(* Two threads.  The main thread makes the calls of the owners, as the     *)
(* maps are not locked: `at` is its place in one.  The reaper takes over   *)
(* the sockets that are closed.  What ctx_t does under _slot_sync is one   *)
(* step; mailboxes are CommandChannels; that a socket handed to the reaper *)
(* comes to an end is what module Pipe is about.                           *)
(***************************************************************************)
EXTENDS Integers, Sequences, SequencesExt

CONSTANTS
    Owner,      \* the objects that own one instance each
    MaxSockets, \* ctx_t::_max_sockets (1023 unless set)
    MaxCreate   \* bound: sockets created

ASSUME ContextAssumption == MaxSockets \in Nat \ {0} /\ MaxCreate \in Nat

VARIABLES
    inst,       \* each owner's pointer: a socket, or NULL
    maps,       \* the sockets of the instances in Communicator's maps
    at,         \* where the main thread is
    who,        \* the owners whose call it is in: none or one
    created,    \* sockets created; they are numbered
    terminating,\* ctx_t::_terminating
    sockets,    \* ctx_t::_sockets
    tid,        \* the slot of each socket created
    empty,      \* ctx_t::_empty_slots, a stack
    reaper,     \* the reaper's thread: "none" (ctx_t::_starting), "loop", "ended"
    mail,       \* its mailbox
    counted,    \* the sockets that reaper_t::_sockets counts
    leaving,    \* of these, one that is destroyed and not yet reported
    stopping,   \* reaper_t::_terminating
    done,       \* commands in _term_mailbox
    retried     \* a start() has failed after it had started a reaper

owners == <<inst, maps, at, who>>
ctx == <<created, terminating, sockets, tid, empty>>
reap == <<reaper, counted, leaving, stopping>>
vars == <<owners, ctx, reap, mail, done, retried>>

NULL == 0
STOP == <<"stop", NULL>>
Socket == 1 .. MaxCreate
Slot == 1 .. MaxSockets
Calling == {"idle", "open", "init"}
Exiting == {"closing", "term", "wait", "join", "end", "aborted"}
Commands == ({"reap", "reaped"} \X Socket) \cup {STOP}

\* One type invariant: the range of every variable.
TypeOK ==
    /\ inst \in [Owner -> Socket \cup {NULL}] /\ maps \subseteq Socket
    /\ at \in Calling \cup Exiting /\ who \subseteq Owner
    /\ created \in 0 .. MaxCreate
    /\ terminating \in BOOLEAN /\ sockets \subseteq Socket
    /\ tid \in [Socket -> Slot] /\ empty \in Seq(Slot)
    /\ reaper \in {"none", "loop", "ended"} /\ mail \in Seq(Commands)
    /\ counted \subseteq Socket /\ leaving \subseteq Socket
    /\ stopping \in BOOLEAN /\ done \in Nat /\ retried \in BOOLEAN

Init ==
    /\ inst = [o \in Owner |-> NULL] /\ maps = {} /\ at = "idle" /\ who = {}
    /\ created = 0 /\ terminating = FALSE
    /\ sockets = {} /\ tid = [s \in Socket |-> 1] /\ empty = <<>>
    /\ reaper = "none" /\ mail = <<>>
    /\ counted = {} /\ leaving = {} /\ stopping = FALSE
    /\ done = 0 /\ retried = FALSE

-----------------------------------------------------------------------------
(* Owners: ConnectNetwork, StartProcess, Start; DisconnectNetwork,
   StopProcess, Stop; CallFunc that reconnects after a timeout. *)

Connect(o) ==
    /\ at = "idle" /\ inst[o] = NULL
    /\ at' = "open" /\ who' = {o}
    /\ UNCHANGED <<inst, maps, ctx, reap, mail, done, retried>>

\* DestroyInstance: the erased unique_ptr closes the socket, which goes to the
\* reaper.
DestroyInstance(s) ==
    /\ maps' = maps \ {s}
    /\ mail' = Append(mail, <<"reap", s>>)

Disconnect(o) ==
    /\ at = "idle" /\ inst[o] # NULL
    /\ DestroyInstance(inst[o])
    /\ inst' = [inst EXCEPT ![o] = NULL]
    /\ UNCHANGED <<at, who, ctx, reap, done, retried>>

\* Faulty: the pointer is left as it is until there is a new one.
\* Breaks PointersAreOwned.
FaultyReconnect(o) ==
    /\ at = "idle" /\ inst[o] # NULL
    /\ DestroyInstance(inst[o])
    /\ at' = "open" /\ who' = {o}
    /\ UNCHANGED <<inst, ctx, reap, done, retried>>

\* CallFunc destroys the instance, resets the pointer and creates another.
Reconnect(o) ==
    /\ at = "idle" /\ inst[o] # NULL
    /\ DestroyInstance(inst[o])
    /\ inst' = [inst EXCEPT ![o] = NULL]
    /\ at' = "open" /\ who' = {o}
    /\ UNCHANGED <<ctx, reap, done, retried>>

\* ctx_t::start, on the first socket.
Start ==
    /\ at = "open" /\ reaper = "none"
    /\ reaper' = "loop"
    /\ empty' = [i \in 1 .. MaxSockets |-> MaxSockets + 1 - i]
    /\ UNCHANGED <<owners, created, terminating, sockets, tid, counted, leaving,
                   stopping, mail, done, retried>>

\* The owner's call ends: with an instance, with NULL, or, where zmq_socket
\* fails, with an exception out of socket_t's constructor.
Return == at' = "idle" /\ who' = {}

\* No descriptor is left for the I/O thread's mailbox: the reaper is stopped,
\* says it is done, and is deleted; so the next start is a fresh one.
StartFails ==
    /\ at = "open" /\ reaper = "none" /\ ~retried
    /\ done' = done + 1 /\ retried' = TRUE
    /\ Return
    /\ UNCHANGED <<inst, maps, ctx, reap, mail>>

CreateSocket ==
    /\ at = "open" /\ reaper # "none"
    /\ ~terminating /\ empty # <<>> /\ created < MaxCreate
    /\ created' = created + 1
    /\ tid' = [tid EXCEPT ![created + 1] = Last(empty)]
    /\ empty' = Front(empty)
    /\ sockets' = sockets \cup {created + 1}
    /\ at' = "init"
    /\ UNCHANGED <<inst, maps, who, terminating, reap, mail, done, retried>>

\* EMFILE.  (ETERM would need a call that begins after Exit.)
CreateFails ==
    /\ at = "open" /\ reaper # "none" /\ empty = <<>>
    /\ Return
    /\ UNCHANGED <<inst, maps, ctx, reap, mail, done, retried>>

\* CreateInstance: Init has connected or bound the socket.
InitInstance ==
    /\ at = "init"
    /\ maps' = maps \cup {created}
    /\ inst' = [o \in Owner |-> IF o \in who THEN created ELSE inst[o]]
    /\ Return
    /\ UNCHANGED <<ctx, reap, mail, done, retried>>

\* Faulty: the instance is not deleted.  Breaks SocketsHaveOneHolder.
FaultyInitFails ==
    /\ at = "init"
    /\ Return
    /\ UNCHANGED <<inst, maps, ctx, reap, mail, done, retried>>

\* Init fails, for instance as the port is in use: the instance is deleted.
InitFails ==
    /\ at = "init"
    /\ mail' = Append(mail, <<"reap", created>>)
    /\ Return
    /\ UNCHANGED <<inst, maps, ctx, reap, done, retried>>

-----------------------------------------------------------------------------
(* The end of the process *)

StopReaperIf(condition) ==
    mail' = (IF condition THEN Append(mail, STOP) ELSE mail)

\* ctx_t::shutdown, from ~Communicator.  (The stop it sends to sockets would
\* interrupt a thread in recv; owners with a thread have been stopped.)
Exit ==
    /\ at = "idle"
    /\ at' = "closing"
    /\ terminating' = TRUE
    /\ StopReaperIf(reaper # "none" /\ sockets = {})
    /\ UNCHANGED <<inst, maps, who, created, sockets, tid, empty, reap, done, retried>>

\* Faulty: the context is a member behind the maps and is destroyed before
\* them.  Breaks ExitReturns.
FaultyCloseInstance ==
    /\ at = "closing" /\ maps # {}
    /\ at' = "term"
    /\ UNCHANGED <<inst, maps, who, ctx, reap, mail, done, retried>>

\* The maps are destroyed, instance by instance.
CloseInstance ==
    /\ at = "closing"
    /\ \E s \in maps : DestroyInstance(s)
    /\ UNCHANGED <<inst, at, who, ctx, reap, done, retried>>

MapsDestroyed ==
    /\ at = "closing" /\ maps = {}
    /\ at' = "term"
    /\ UNCHANGED <<inst, maps, who, ctx, reap, mail, done, retried>>

\* Faulty: a terminate that comes after shutdown, or again after a signal,
\* stops the reaper as well.  Breaks DoneMeansEmpty.
FaultyTerminate ==
    /\ at = "term"
    /\ terminating' = TRUE
    /\ at' = (IF reaper = "none" THEN "end" ELSE "wait")
    /\ StopReaperIf(reaper # "none" /\ sockets = {})
    /\ UNCHANGED <<inst, maps, who, created, sockets, tid, empty, reap, done, retried>>

\* ctx_t::terminate, from ~context_t; `restarted` if shutdown came before.
Terminate ==
    /\ at = "term"
    /\ terminating' = TRUE
    /\ at' = (IF reaper = "none" THEN "end" ELSE "wait")
    /\ StopReaperIf(reaper # "none" /\ ~terminating /\ sockets = {})
    /\ UNCHANGED <<inst, maps, who, created, sockets, tid, empty, reap, done, retried>>

\* A signal interrupts the wait; context_t::close calls terminate again.
Interrupted ==
    /\ at = "wait"
    /\ at' = "term"
    /\ UNCHANGED <<inst, maps, who, ctx, reap, mail, done, retried>>

\* The done command, and the assertion that no socket is left.
Done ==
    /\ at = "wait" /\ done > 0
    /\ done' = done - 1
    /\ at' = (IF sockets = {} THEN "join" ELSE "aborted")
    /\ UNCHANGED <<inst, maps, who, ctx, reap, mail, retried>>

\* ~ctx_t joins the I/O threads and the reaper.
Join ==
    /\ at = "join" /\ reaper = "ended"
    /\ at' = "end"
    /\ UNCHANGED <<inst, maps, who, ctx, reap, mail, done, retried>>

-----------------------------------------------------------------------------
(* The reaper *)

Arrives(type) ==
    reaper = "loop" /\ leaving = {} /\ mail # <<>> /\ Head(mail)[1] = type

\* process_reap and start_reaping.
ProcessReap ==
    /\ Arrives("reap")
    /\ mail' = Tail(mail)
    /\ counted' = counted \cup {Head(mail)[2]}
    /\ UNCHANGED <<owners, ctx, reaper, leaving, stopping, done, retried>>

\* check_destroy of a socket that has lost its pipes and children, in
\* start_reaping or later: ctx_t::destroy_socket gives back the slot, and stops
\* the reaper after the last one.
DestroySocket(s) ==
    /\ reaper = "loop" /\ leaving = {}
    /\ s \in counted \cap sockets
    /\ sockets' = sockets \ {s}
    /\ empty' = Append(empty, tid[s])
    /\ leaving' = {s}
    /\ StopReaperIf(terminating /\ sockets = {s})
    /\ UNCHANGED <<owners, created, terminating, tid, reaper, counted, stopping, done,
                   retried>>

\* send_reaped, after the lock was released.
SendReaped ==
    /\ \E s \in leaving : mail' = Append(mail, <<"reaped", s>>)
    /\ leaving' = {}
    /\ UNCHANGED <<owners, ctx, reaper, counted, stopping, done, retried>>

\* send_done, and the end of the thread.
DoneIf(condition) ==
    /\ done' = (IF condition THEN done + 1 ELSE done)
    /\ reaper' = (IF condition THEN "ended" ELSE reaper)

ProcessReaped ==
    /\ Arrives("reaped")
    /\ mail' = Tail(mail)
    /\ counted' = counted \ {Head(mail)[2]}
    /\ DoneIf(stopping /\ counted' = {})
    /\ UNCHANGED <<owners, ctx, leaving, stopping, retried>>

ProcessStop ==
    /\ Arrives("stop")
    /\ mail' = Tail(mail)
    /\ stopping' = TRUE
    /\ DoneIf(counted = {})
    /\ UNCHANGED <<owners, ctx, counted, leaving, retried>>

-----------------------------------------------------------------------------

Call == \/ Start \/ StartFails \/ CreateSocket \/ CreateFails
        \/ InitInstance \/ InitFails
        \/ CloseInstance \/ MapsDestroyed \/ Terminate \/ Done \/ Join
Reaper == \/ ProcessReap \/ SendReaped \/ ProcessReaped \/ ProcessStop
          \/ \E s \in Socket : DestroySocket(s)

Next == \/ \E o \in Owner : Connect(o) \/ Disconnect(o) \/ Reconnect(o)
        \/ Exit \/ Call \/ Interrupted
        \/ Reaper

\* A call that was begun goes on, the reaper runs, and every socket it has
\* comes to an end.  Signals stop coming.
Fairness == /\ WF_vars(Call) /\ SF_vars(Done)
            /\ WF_vars(Reaper)
            /\ \A s \in Socket : SF_vars(DestroySocket(s))

Spec == Init /\ [][Next]_vars /\ Fairness

-----------------------------------------------------------------------------
(* Properties *)

Reapable(s) == \E i \in DOMAIN mail : mail[i] = <<"reap", s>>
Holders(s) == {h \in {"maps", "call", "mail", "reaper"} :
                 \/ h = "maps" /\ s \in maps
                 \/ h = "call" /\ at = "init" /\ s = created
                 \/ h = "mail" /\ Reapable(s)
                 \/ h = "reaper" /\ s \in counted}

\* Whatever fails half way, a socket that lives is held by one and no more of:
\* an instance in the maps, the call that creates it, the reaper's mailbox, the
\* reaper; nothing but the reaper's count remembers one that does not.  A slot
\* is empty or some living socket's, never both, and no two's.
SocketsHaveOneHolder ==
    /\ \A s \in sockets : \E h \in Holders(s) : Holders(s) = {h}
    /\ \A s \in Socket \ sockets : Holders(s) \subseteq {"reaper"}
    /\ \A s, u \in sockets : tid[s] = tid[u] => s = u
    /\ reaper # "none" =>
          \A t \in Slot : (\E s \in sockets : tid[s] = t) # (\E i \in DOMAIN empty : empty[i] = t)

\* Between calls, a pointer that is not null is to an instance in the maps, and
\* to nobody else's, also after a call in which creating one has failed.
PointersAreOwned ==
    at = "idle" =>
        /\ \A o \in Owner : inst[o] # NULL => inst[o] \in maps
        /\ \A o, p \in Owner : inst[o] # NULL /\ inst[o] = inst[p] => o = p

\* The assertion of terminate: when the reaper says it is done, once, there is
\* no socket left and nothing in its mailbox.  Only where a start has failed is
\* there a done that this reaper has not sent, and the assertion may fail.
DoneMeansEmpty ==
    /\ reaper = "ended" => sockets = {} /\ counted = {} /\ mail = <<>>
    /\ ~retried => /\ (done > 0 \/ at = "join") => reaper = "ended"
                   /\ done <= 1 /\ at # "aborted"

\* The process ends: static destruction does not wait for ever.
ExitReturns == (at = "closing") ~> (at \in {"end", "aborted"})

==============================================================================
