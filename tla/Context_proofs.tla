---------------------------- MODULE Context_proofs ----------------------------
(***************************************************************************)
(* That Context is type correct, that its sockets and slots have one       *)
(* holder each and its pointers are owned, and that the reaper's done      *)
(* means what terminate asserts.                                           *)
(*                                                                         *)
(* The invariant says where a socket may be (HolderInv, PointerInv), which *)
(* slot it has (SlotInv), what the reaper still has to hear of it          *)
(* (CountInv), and that a stop is sent once, when the context terminates   *)
(* and no socket is left (StopInv).  Sequences appear in it as what they   *)
(* hold, without order and without repetition.                             *)
(***************************************************************************)
EXTENDS Context, TLAPS

In(x, q) == \E i \in DOMAIN q : q[i] = x
Once(q) == \A i, j \in DOMAIN q : q[i] = q[j] => i = j

Reap(s) == <<"reap", s>>
Reaped(s) == <<"reaped", s>>

HolderInv ==
    /\ maps \subseteq sockets /\ sockets \subseteq 1 .. created
    /\ counted \subseteq 1 .. created
    /\ maps \cap counted = {}
    /\ at = "init" => created \in sockets \ (maps \cup counted) /\ ~In(Reap(created), mail)
    /\ \A s \in Socket : In(Reap(s), mail) => s \in sockets \ (maps \cup counted)
    /\ \A s \in sockets : \/ s \in maps \cup counted \/ In(Reap(s), mail)
                          \/ at = "init" /\ s = created

SlotInv ==
    /\ \A s, u \in sockets : tid[s] = tid[u] => s = u
    /\ Once(empty)
    /\ reaper # "none" =>
          \A t \in Slot : (\E s \in sockets : tid[s] = t) # In(t, empty)

StopInv ==
    /\ terminating <=> (at \in Exiting)
    /\ Once(mail)
    /\ (In(STOP, mail) \/ stopping) <=> (reaper # "none" /\ terminating /\ sockets = {})
    /\ ~(In(STOP, mail) /\ stopping)
    /\ reaper = "none" => sockets = {} /\ counted = {} /\ mail = <<>>
    /\ reaper = "ended" => stopping /\ counted = {} /\ mail = <<>>
    /\ at \in {"wait", "join"} => reaper # "none"

CountInv ==
    /\ leaving \subseteq counted \ sockets
    /\ \A s, u \in leaving : s = u
    /\ \A s \in Socket : In(Reaped(s), mail) => s \in counted \ (sockets \cup leaving)

DoneInv ==
    ~retried => /\ (done > 0 \/ at = "join") => reaper = "ended"
                /\ done <= 1 /\ at # "aborted"

PointerInv ==
    /\ \A o, p \in who : o = p
    /\ at \in Calling =>
          /\ \A o \in Owner : inst[o] # NULL => inst[o] \in maps
          /\ \A o, p \in Owner : inst[o] # NULL /\ inst[o] = inst[p] => o = p

IInv == TypeOK /\ HolderInv /\ SlotInv /\ StopInv /\ CountInv /\ DoneInv /\ PointerInv

-----------------------------------------------------------------------------
(* Sequences as what they hold *)

\* Appending adds an element, and no repetition if it is new.
LEMMA InAppend ==
    ASSUME NEW S, NEW q \in Seq(S), NEW c \in S
    PROVE  /\ Append(q, c) \in Seq(S)
           /\ \A x : In(x, Append(q, c)) <=> (In(x, q) \/ x = c)
           /\ Once(q) /\ ~In(c, q) => Once(Append(q, c))
<1>1. /\ DOMAIN Append(q, c) = 1 .. (Len(q) + 1) /\ DOMAIN q = 1 .. Len(q) /\ Len(q) \in Nat
      /\ \A i \in 1 .. Len(q) : Append(q, c)[i] = q[i]
      /\ Append(q, c)[Len(q) + 1] = c
    OBVIOUS
<1>2. \A i \in 1 .. (Len(q) + 1) : i \in 1 .. Len(q) \/ i = Len(q) + 1
    BY <1>1
<1>3. Append(q, c) \in Seq(S)
    OBVIOUS
<1>4. ASSUME NEW x PROVE In(x, Append(q, c)) <=> (In(x, q) \/ x = c)
    <2>1. In(x, Append(q, c)) => In(x, q) \/ x = c
        BY <1>1, <1>2 DEF In
    <2>2. In(x, q) => In(x, Append(q, c))
        BY <1>1 DEF In
    <2>3. x = c => In(x, Append(q, c))
        BY <1>1 DEF In
    <2> QED BY <2>1, <2>2, <2>3
<1>5. Once(q) /\ ~In(c, q) => Once(Append(q, c))
    BY <1>1, <1>2 DEF Once, In
<1> QED BY <1>3, <1>4, <1>5

\* Taking the head removes it, and all of it where nothing is repeated.
LEMMA InTail ==
    ASSUME NEW S, NEW q \in Seq(S), q # <<>>, Once(q)
    PROVE  /\ Head(q) \in S /\ In(Head(q), q)
           /\ Tail(q) \in Seq(S) /\ Once(Tail(q))
           /\ \A x : In(x, Tail(q)) <=> (In(x, q) /\ x # Head(q))
<1>1. /\ Len(q) \in Nat \ {0} /\ DOMAIN q = 1 .. Len(q) /\ Head(q) = q[1] /\ q[1] \in S
      /\ Tail(q) \in Seq(S) /\ DOMAIN Tail(q) = 1 .. (Len(q) - 1)
      /\ \A i \in 1 .. (Len(q) - 1) : Tail(q)[i] = q[i + 1]
    OBVIOUS
<1>2. In(Head(q), q)
    BY <1>1 DEF In
<1>3. Once(Tail(q))
    BY <1>1 DEF Once
<1>4. ASSUME NEW x PROVE In(x, Tail(q)) <=> (In(x, q) /\ x # Head(q))
    <2>1. ASSUME NEW i \in 1 .. (Len(q) - 1), Tail(q)[i] = x
          PROVE  In(x, q) /\ x # Head(q)
        BY <1>1, <2>1 DEF In, Once
    <2>2. ASSUME NEW i \in 1 .. Len(q), q[i] = x, x # Head(q)
          PROVE  In(x, Tail(q))
        <3>1. i - 1 \in 1 .. (Len(q) - 1) /\ (i - 1) + 1 = i
            BY <1>1, <2>2
        <3> QED BY <1>1, <2>2, <3>1 DEF In
    <2> QED BY <1>1, <2>1, <2>2 DEF In
<1> QED BY <1>1, <1>2, <1>3, <1>4

\* The same for the other end.
LEMMA InFront ==
    ASSUME NEW S, NEW q \in Seq(S), q # <<>>, Once(q)
    PROVE  /\ Last(q) \in S /\ In(Last(q), q)
           /\ Front(q) \in Seq(S) /\ Once(Front(q))
           /\ \A x : In(x, Front(q)) <=> (In(x, q) /\ x # Last(q))
<1>1. /\ Len(q) \in Nat \ {0} /\ DOMAIN q = 1 .. Len(q) /\ Last(q) = q[Len(q)]
      /\ q[Len(q)] \in S
    BY DEF Last
<1>2. /\ Front(q) \in Seq(S) /\ DOMAIN Front(q) = 1 .. (Len(q) - 1)
      /\ \A i \in 1 .. (Len(q) - 1) : Front(q)[i] = q[i]
    BY <1>1 DEF Front
<1>3. Once(Front(q)) /\ In(Last(q), q)
    BY <1>1, <1>2 DEF Once, In
<1>4. ASSUME NEW x PROVE In(x, Front(q)) <=> (In(x, q) /\ x # Last(q))
    <2>1. ASSUME NEW i \in 1 .. (Len(q) - 1), Front(q)[i] = x
          PROVE  In(x, q) /\ x # Last(q)
        BY <1>1, <1>2, <2>1 DEF In, Once
    <2>2. ASSUME NEW i \in 1 .. Len(q), q[i] = x, x # Last(q)
          PROVE  In(x, Front(q))
        <3>1. i \in 1 .. (Len(q) - 1)
            BY <1>1, <2>2
        <3> QED BY <1>2, <2>2, <3>1 DEF In
    <2> QED BY <1>1, <1>2, <2>1, <2>2 DEF In
<1> QED BY <1>1, <1>2, <1>3, <1>4

\* What holds nothing is empty.
LEMMA InNone ==
    ASSUME NEW S, NEW q \in Seq(S), \A x \in S : ~In(x, q)
    PROVE  q = <<>>
<1>1. Len(q) \in Nat /\ DOMAIN q = 1 .. Len(q) /\ \A i \in 1 .. Len(q) : q[i] \in S
    OBVIOUS
<1>2. Len(q) = 0
    BY <1>1 DEF In
<1> QED BY <1>2

\* The commands of the mailbox are told apart, and an empty one has none.
LEMMA CommandFacts ==
    /\ STOP \in Commands
    /\ \A s \in Socket : Reap(s) \in Commands /\ Reaped(s) \in Commands
    /\ \A c \in Commands :
          \/ c = STOP
          \/ \E s \in Socket : c = Reap(s)
          \/ \E s \in Socket : c = Reaped(s)
    /\ \A s, u \in Socket : /\ Reap(s) = Reap(u) => s = u
                            /\ Reaped(s) = Reaped(u) => s = u
                            /\ Reap(s) # Reaped(u)
                            /\ Reap(s) # STOP /\ Reaped(s) # STOP
    /\ \A x : ~In(x, <<>>)
<1>1. \A x : ~In(x, <<>>)
    BY DEF In
<1>2. \A c \in Commands : c = STOP \/ c \in {"reap", "reaped"} \X Socket
    BY DEF Commands
<1>3. \A c \in {"reap", "reaped"} \X Socket :
          \E s \in Socket : c = <<"reap", s>> \/ c = <<"reaped", s>>
    OBVIOUS
<1> QED BY <1>1, <1>2, <1>3 DEF Commands, STOP, Reap, Reaped

LEMMA SendFacts ==
    ASSUME TypeOK, NEW c \in Commands, mail' = Append(mail, c)
    PROVE  /\ mail' \in Seq(Commands)
           /\ \A x : In(x, mail') <=> (In(x, mail) \/ x = c)
           /\ Once(mail) /\ ~In(c, mail) => Once(mail')
BY InAppend, Zenon DEF TypeOK

LEMMA TakeFacts ==
    ASSUME TypeOK, Once(mail), mail # <<>>, mail' = Tail(mail)
    PROVE  /\ Head(mail) \in Commands /\ In(Head(mail), mail)
           /\ mail' \in Seq(Commands) /\ Once(mail')
           /\ \A x : In(x, mail') <=> (In(x, mail) /\ x # Head(mail))
BY InTail, Zenon DEF TypeOK

-----------------------------------------------------------------------------
(* The invariant is inductive: the calls of the owners *)

LEMMA InitInv == ASSUME Init PROVE IInv
<1>1. TypeOK
    <2>1. tid \in [Socket -> Slot]
        BY ContextAssumption DEF Init, Slot
    <2>2. empty \in Seq(Slot) /\ mail \in Seq(Commands)
        BY DEF Init
    <2>3. created \in 0 .. MaxCreate /\ done \in Nat
        BY ContextAssumption DEF Init
    <2> QED BY <2>1, <2>2, <2>3 DEF Init, TypeOK, Calling
<1>2. HolderInv /\ CountInv /\ StopInv /\ DoneInv /\ PointerInv
    <2>1. \A x : ~In(x, mail)
        BY CommandFacts, Zenon DEF Init
    <2>2. Once(mail)
        BY DEF Init, Once
    <2> QED BY <2>1, <2>2
            DEF Init, HolderInv, CountInv, StopInv, DoneInv, PointerInv, Exiting
<1>3. SlotInv
    BY DEF Init, SlotInv, Once
<1> QED BY <1>1, <1>2, <1>3 DEF IInv

\* What leaves the sockets and the reaper alone, in a call or between two.
LEMMA CallsFrame ==
    ASSUME IInv, UNCHANGED <<inst, maps, ctx, reap, mail>>,
           at \in Calling \ {"init"}, at' \in Calling \ {"init"},
           who' \subseteq Owner, \A o, p \in who' : o = p,
           done' \in Nat, retried' \in BOOLEAN, ~retried' => ~retried /\ done' = done
    PROVE  IInv'
<1> USE DEF IInv, ctx, reap
<1>1. TypeOK'
    BY DEF TypeOK
<1>2. HolderInv' /\ SlotInv' /\ CountInv'
    BY DEF HolderInv, SlotInv, CountInv
<1>3. StopInv'
    BY DEF StopInv, Calling, Exiting
<1>4. DoneInv' /\ PointerInv'
    BY DEF DoneInv, PointerInv, Calling
<1> QED BY <1>1, <1>2, <1>3, <1>4

\* An instance of the maps is destroyed.
LEMMA DestroyFrame ==
    ASSUME IInv, NEW s \in maps, DestroyInstance(s), UNCHANGED <<ctx, reap, done, retried>>,
           at \in {"idle", "closing"}, at' = at \/ (at = "idle" /\ at' = "open"),
           who' = who \/ \E o \in Owner : who' = {o},
           inst' \in [Owner -> Socket \cup {NULL}],
           at = "idle" => \A o \in Owner : inst'[o] = NULL \/ (inst'[o] = inst[o] /\ inst[o] # s)
    PROVE  IInv'
<1> USE DEF IInv, ctx, reap
<1>1. s \in Socket /\ s \in sockets /\ s \notin counted /\ ~In(Reap(s), mail)
    BY DEF TypeOK, HolderInv
<1>2. /\ mail' \in Seq(Commands) /\ Once(mail')
      /\ \A x : In(x, mail') <=> (In(x, mail) \/ x = Reap(s))
    <2>1. mail' = Append(mail, Reap(s)) /\ Reap(s) \in Commands
        BY <1>1, CommandFacts DEF DestroyInstance, Reap
    <2> QED BY <1>1, <2>1, SendFacts, Zenon DEF StopInv
<1>3. /\ \A u \in Socket : In(Reap(u), mail') <=> (In(Reap(u), mail) \/ u = s)
      /\ \A u \in Socket : In(Reaped(u), mail') <=> In(Reaped(u), mail)
      /\ In(STOP, mail') <=> In(STOP, mail)
    BY <1>1, <1>2, CommandFacts
<1>4. TypeOK'
    BY <1>1, <1>2 DEF TypeOK, DestroyInstance, Calling, Exiting
<1>5. HolderInv'
    BY <1>1, <1>3 DEF HolderInv, DestroyInstance, TypeOK
<1>6. SlotInv' /\ CountInv'
    BY <1>3 DEF SlotInv, CountInv
<1>7. StopInv'
    BY <1>1, <1>2, <1>3 DEF StopInv, Exiting
<1>8. DoneInv'
    BY DEF DoneInv
<1>9. PointerInv'
    BY DEF PointerInv, DestroyInstance, Calling
<1> QED BY <1>4, <1>5, <1>6, <1>7, <1>8, <1>9

LEMMA ConnectInv == ASSUME IInv, NEW o \in Owner, Connect(o) PROVE IInv'
BY CallsFrame DEF Connect, Calling, IInv, TypeOK

LEMMA DisconnectInv == ASSUME IInv, NEW o \in Owner, Disconnect(o) PROVE IInv'
<1>1. /\ inst[o] \in maps
      /\ \A p \in Owner \ {o} : inst[p] # NULL => inst[p] # inst[o]
    BY DEF Disconnect, IInv, PointerInv, Calling
<1>2. /\ inst' \in [Owner -> Socket \cup {NULL}]
      /\ \A p \in Owner : inst'[p] = NULL \/ (inst'[p] = inst[p] /\ inst[p] # inst[o])
    BY <1>1 DEF Disconnect, IInv, TypeOK
<1> QED BY <1>1, <1>2, DestroyFrame DEF Disconnect

LEMMA ReconnectInv == ASSUME IInv, NEW o \in Owner, Reconnect(o) PROVE IInv'
<1>1. /\ inst[o] \in maps
      /\ \A p \in Owner \ {o} : inst[p] # NULL => inst[p] # inst[o]
    BY DEF Reconnect, IInv, PointerInv, Calling
<1>2. /\ inst' \in [Owner -> Socket \cup {NULL}]
      /\ \A p \in Owner : inst'[p] = NULL \/ (inst'[p] = inst[p] /\ inst[p] # inst[o])
    BY <1>1 DEF Reconnect, IInv, TypeOK
<1> QED BY <1>1, <1>2, DestroyFrame DEF Reconnect

LEMMA StartFailsInv == ASSUME IInv, StartFails PROVE IInv'
BY CallsFrame DEF StartFails, Return, Calling, IInv, TypeOK

LEMMA CreateFailsInv == ASSUME IInv, CreateFails PROVE IInv'
BY CallsFrame DEF CreateFails, Return, Calling, IInv, TypeOK

\* The first socket starts the reaper: every slot is empty.
LEMMA StartInv == ASSUME IInv, Start PROVE IInv'
<1> USE DEF IInv, Start, owners
<1>0. MaxSockets \in Nat \ {0}
    BY ContextAssumption
<1>1. empty' \in Seq(Slot) /\ Once(empty') /\ \A t \in Slot : In(t, empty')
    <2>1. /\ empty' = [i \in 1 .. MaxSockets |-> MaxSockets + 1 - i]
          /\ \A i \in 1 .. MaxSockets : MaxSockets + 1 - i \in 1 .. MaxSockets
        BY <1>0
    <2>2. empty' \in Seq(Slot)
        BY <1>0, <2>1 DEF Slot
    <2>3. DOMAIN empty' = 1 .. MaxSockets
        BY <2>1
    <2>4. Once(empty')
        BY <1>0, <2>1, <2>3 DEF Once
    <2>5. ASSUME NEW t \in Slot PROVE In(t, empty')
        <3>1. /\ MaxSockets + 1 - t \in 1 .. MaxSockets
              /\ MaxSockets + 1 - (MaxSockets + 1 - t) = t
            BY <1>0 DEF Slot
        <3> QED BY <2>1, <2>3, <3>1 DEF In
    <2> QED BY <2>2, <2>4, <2>5
<1>2. sockets = {} /\ counted = {} /\ mail = <<>> /\ ~stopping /\ ~In(STOP, mail)
    BY CommandFacts DEF StopInv
<1>3. TypeOK'
    BY <1>1 DEF TypeOK
<1>4. HolderInv' /\ CountInv' /\ PointerInv' /\ DoneInv'
    BY DEF HolderInv, CountInv, PointerInv, DoneInv
<1>5. SlotInv'
    BY <1>1, <1>2 DEF SlotInv
<1>6. StopInv'
    BY <1>2 DEF StopInv, Exiting
<1> QED BY <1>3, <1>4, <1>5, <1>6

\* A socket takes the slot on top of the empty ones.
LEMMA CreateSocketInv == ASSUME IInv, CreateSocket PROVE IInv'
<1> DEFINE n == created + 1
<1> USE DEF IInv, CreateSocket, reap
<1>1. /\ n \in Socket /\ n \notin 1 .. created
      /\ n \notin sockets \cup counted \cup maps \cup leaving
      /\ ~In(Reap(n), mail) /\ ~In(Reaped(n), mail)
    <2>1. n \in Socket /\ n \notin 1 .. created
        BY ContextAssumption DEF TypeOK, Socket
    <2>2. n \notin sockets \cup counted \cup maps \cup leaving
        BY <2>1 DEF HolderInv, CountInv
    <2> QED BY <2>1, <2>2 DEF HolderInv, CountInv
<1>2. /\ Last(empty) \in Slot /\ In(Last(empty), empty)
      /\ empty' \in Seq(Slot) /\ Once(empty')
      /\ \A t : In(t, empty') <=> (In(t, empty) /\ t # Last(empty))
    BY InFront, Zenon DEF TypeOK, SlotInv
<1>3. /\ tid' \in [Socket -> Slot] /\ tid'[n] = Last(empty)
      /\ \A s \in Socket \ {n} : tid'[s] = tid[s]
    BY <1>1, <1>2 DEF TypeOK
<1>4. \A s \in sockets : s \in Socket \ {n} /\ tid[s] # Last(empty)
    BY <1>1, <1>2 DEF TypeOK, SlotInv
<1>5. SlotInv'
    <2>1. \A s, u \in sockets' : tid'[s] = tid'[u] => s = u
        BY <1>3, <1>4 DEF SlotInv
    <2>2. ASSUME NEW t \in Slot
          PROVE  (\E s \in sockets' : tid'[s] = t) # In(t, empty')
        <3>1. (\E s \in sockets' : tid'[s] = t)
                <=> ((\E s \in sockets : tid[s] = t) \/ t = Last(empty))
            BY <1>1, <1>3, <1>4
        <3>2. ~((\E s \in sockets : tid[s] = t) <=> In(t, empty))
            BY DEF SlotInv, In
        <3>3. ~((\E s \in sockets' : tid'[s] = t) <=> In(t, empty'))
            BY <1>2, <3>1, <3>2
        <3> QED BY <3>3 DEF In
    <2> QED BY <1>2, <2>1, <2>2 DEF SlotInv
<1>6. TypeOK'
    BY <1>1, <1>2, <1>3, ContextAssumption DEF TypeOK, Calling, Socket
<1>7. HolderInv'
    BY <1>1, <1>6 DEF HolderInv, TypeOK
<1>8. CountInv' /\ DoneInv'
    BY <1>1 DEF CountInv, DoneInv
<1>9. StopInv'
    BY DEF StopInv, Exiting
<1>10. PointerInv'
    BY DEF PointerInv, Calling
<1> QED BY <1>5, <1>6, <1>7, <1>8, <1>9, <1>10

\* The instance is recorded, and the owner has its pointer.
LEMMA InitInstanceInv == ASSUME IInv, InitInstance PROVE IInv'
<1> USE DEF IInv, InitInstance, Return, ctx, reap
<1>1. created \in Socket /\ created \in sockets \ (maps \cup counted) /\ created # NULL
    BY DEF HolderInv, TypeOK, Socket, NULL
<1>2. /\ inst' \in [Owner -> Socket \cup {NULL}]
      /\ \A o \in Owner : inst'[o] = IF o \in who THEN created ELSE inst[o]
    BY <1>1 DEF TypeOK
<1>3. TypeOK'
    BY <1>1, <1>2 DEF TypeOK, Calling
<1>4. HolderInv'
    BY <1>1 DEF HolderInv
<1>5. SlotInv' /\ CountInv' /\ DoneInv'
    BY DEF SlotInv, CountInv, DoneInv
<1>6. StopInv'
    BY DEF StopInv, Exiting
<1>7. PointerInv'
    BY <1>1, <1>2 DEF PointerInv, Calling
<1> QED BY <1>3, <1>4, <1>5, <1>6, <1>7

\* The instance that could not connect or bind is deleted.
LEMMA InitFailsInv == ASSUME IInv, InitFails PROVE IInv'
<1> USE DEF IInv, InitFails, Return, ctx, reap
<1>1. /\ created \in Socket /\ created \in sockets \ (maps \cup counted)
      /\ ~In(Reap(created), mail)
    BY DEF HolderInv, TypeOK
<1>2. /\ mail' \in Seq(Commands) /\ Once(mail')
      /\ \A x : In(x, mail') <=> (In(x, mail) \/ x = Reap(created))
    <2>1. mail' = Append(mail, Reap(created)) /\ Reap(created) \in Commands
        BY <1>1, CommandFacts DEF Reap
    <2> QED BY <1>1, <2>1, SendFacts, Zenon DEF StopInv
<1>3. /\ \A u \in Socket : In(Reap(u), mail') <=> (In(Reap(u), mail) \/ u = created)
      /\ \A u \in Socket : In(Reaped(u), mail') <=> In(Reaped(u), mail)
      /\ In(STOP, mail') <=> In(STOP, mail)
    BY <1>1, <1>2, CommandFacts
<1>4. TypeOK'
    BY <1>2 DEF TypeOK, Calling
<1>5. HolderInv'
    BY <1>1, <1>3 DEF HolderInv, TypeOK
<1>6. SlotInv' /\ CountInv' /\ DoneInv'
    BY <1>3 DEF SlotInv, CountInv, DoneInv
<1>7. StopInv'
    BY <1>1, <1>2, <1>3 DEF StopInv, Exiting
<1>8. PointerInv'
    BY DEF PointerInv, Calling
<1> QED BY <1>4, <1>5, <1>6, <1>7, <1>8

-----------------------------------------------------------------------------
(* The end of the process *)

\* What shutdown sends: a stop, the first, if there is no socket to wait for.
LEMMA ExitInv == ASSUME IInv, Exit PROVE IInv'
<1> USE DEF IInv, Exit, StopReaperIf, reap
<1>1. ~terminating /\ ~In(STOP, mail) /\ ~stopping /\ reaper # "ended"
    BY DEF StopInv, Exiting
<1>2. /\ mail' \in Seq(Commands) /\ Once(mail')
      /\ \A s \in Socket : /\ In(Reap(s), mail') <=> In(Reap(s), mail)
                           /\ In(Reaped(s), mail') <=> In(Reaped(s), mail)
      /\ In(STOP, mail') <=> (reaper # "none" /\ sockets = {})
      /\ reaper = "none" => mail' = mail
    <2>1. CASE reaper # "none" /\ sockets = {}
        <3>1. mail' = Append(mail, STOP) /\ STOP \in Commands
            BY <2>1, CommandFacts
        <3>2. /\ mail' \in Seq(Commands) /\ Once(mail')
              /\ \A x : In(x, mail') <=> (In(x, mail) \/ x = STOP)
            BY <1>1, <3>1, SendFacts, Zenon DEF StopInv
        <3> QED BY <2>1, <3>2, CommandFacts
    <2>2. CASE ~(reaper # "none" /\ sockets = {})
        BY <1>1, <2>2 DEF TypeOK, StopInv
    <2> QED BY <2>1, <2>2
<1>3. TypeOK'
    BY <1>2 DEF TypeOK, Exiting
<1>4. HolderInv'
    BY <1>2 DEF HolderInv
<1>5. SlotInv' /\ CountInv' /\ DoneInv' /\ PointerInv'
    BY <1>2 DEF SlotInv, CountInv, DoneInv, PointerInv, Calling
<1>6. StopInv'
    BY <1>1, <1>2 DEF StopInv, Exiting
<1> QED BY <1>3, <1>4, <1>5, <1>6

LEMMA CloseInstanceInv == ASSUME IInv, CloseInstance PROVE IInv'
BY DestroyFrame DEF CloseInstance, IInv, TypeOK

\* What moves the main thread on, while the process ends.
LEMMA ExitFrame ==
    ASSUME IInv, UNCHANGED <<inst, maps, who, ctx, reap, mail, retried>>,
           at \in Exiting, at' \in Exiting,
           at' \in {"wait", "join"} => reaper # "none",
           done' \in Nat, done' <= done,
           at' = "join" => at = "join" \/ done > 0,
           at' = "aborted" => at = "aborted" \/ retried
    PROVE  IInv'
<1> USE DEF IInv, ctx, reap
<1>1. TypeOK'
    BY DEF TypeOK
<1>2. HolderInv' /\ SlotInv' /\ CountInv'
    BY DEF HolderInv, SlotInv, CountInv, Exiting
<1>3. StopInv'
    BY DEF StopInv
<1>4. DoneInv'
    BY DEF DoneInv, TypeOK
<1>5. PointerInv'
    BY DEF PointerInv, Exiting, Calling
<1> QED BY <1>1, <1>2, <1>3, <1>4, <1>5

LEMMA MapsDestroyedInv == ASSUME IInv, MapsDestroyed PROVE IInv'
BY ExitFrame DEF MapsDestroyed, Exiting, IInv, TypeOK

\* shutdown has come first: terminate sends no second stop.
LEMMA TerminateInv == ASSUME IInv, Terminate PROVE IInv'
<1>1. terminating
    BY DEF IInv, StopInv, Terminate, Exiting
<1>2. UNCHANGED <<ctx, mail>>
    BY <1>1 DEF Terminate, StopReaperIf, ctx, IInv, TypeOK
<1> QED BY <1>2, ExitFrame DEF Terminate, Exiting, IInv, TypeOK

LEMMA InterruptedInv == ASSUME IInv, Interrupted PROVE IInv'
BY ExitFrame DEF Interrupted, Exiting, IInv, TypeOK

\* Unless a start has failed, a done is this reaper's, and it has no sockets.
LEMMA DoneActionInv == ASSUME IInv, Done PROVE IInv'
<1>1. ~retried => sockets = {}
    BY DEF IInv, DoneInv, StopInv, Done
<1>2. done \in Nat /\ done > 0 /\ done' = done - 1
    BY DEF Done, IInv, TypeOK
<1>3. done' \in Nat /\ done' <= done
    BY <1>2
<1>4. reaper # "none" /\ (at' = "join" \/ at' = "aborted")
    BY DEF IInv, StopInv, Done
<1>5. at' = "aborted" => retried
    BY <1>1 DEF Done
<1> QED BY <1>2, <1>3, <1>4, <1>5, ExitFrame DEF Done, Exiting

LEMMA JoinInv == ASSUME IInv, Join PROVE IInv'
BY ExitFrame DEF Join, Exiting, IInv, TypeOK

-----------------------------------------------------------------------------
(* The reaper *)

\* The reaper takes a socket over: from its mailbox into its count.
LEMMA ProcessReapInv == ASSUME IInv, ProcessReap PROVE IInv'
<1> USE DEF IInv, ProcessReap, Arrives, owners, ctx
<1>1. PICK s \in Socket : Head(mail) = Reap(s) /\ In(Reap(s), mail)
    <2>1. Head(mail) \in Commands /\ In(Head(mail), mail) /\ Head(mail)[1] = "reap"
        BY TakeFacts DEF StopInv
    <2>2. Head(mail) # STOP /\ \A s \in Socket : Head(mail) # Reaped(s)
        BY <2>1 DEF STOP, Reaped
    <2> QED BY <2>1, <2>2, CommandFacts
<1>2. /\ mail' \in Seq(Commands) /\ Once(mail')
      /\ \A u \in Socket : In(Reap(u), mail') <=> (In(Reap(u), mail) /\ u # s)
      /\ \A u \in Socket : In(Reaped(u), mail') <=> In(Reaped(u), mail)
      /\ In(STOP, mail') <=> In(STOP, mail)
    <2>1. /\ mail' \in Seq(Commands) /\ Once(mail')
          /\ \A x : In(x, mail') <=> (In(x, mail) /\ x # Reap(s))
        BY <1>1, TakeFacts DEF StopInv
    <2> QED BY <2>1, CommandFacts
<1>3. counted' = counted \cup {s} /\ s \in sockets \ (maps \cup counted)
    BY <1>1 DEF Reap, HolderInv
<1>4. TypeOK'
    BY <1>2, <1>3 DEF TypeOK
<1>5. HolderInv'
    BY <1>1, <1>2, <1>3 DEF HolderInv, TypeOK
<1>6. SlotInv' /\ DoneInv' /\ PointerInv'
    BY DEF SlotInv, DoneInv, PointerInv
<1>7. CountInv'
    BY <1>2, <1>3 DEF CountInv
<1>8. StopInv'
    BY <1>2, <1>3 DEF StopInv
<1> QED BY <1>4, <1>5, <1>6, <1>7, <1>8

\* A socket ends: its slot is given back, and the last one sends the stop.
LEMMA DestroySocketInv == ASSUME IInv, NEW s \in Socket, DestroySocket(s) PROVE IInv'
<1> USE DEF IInv, DestroySocket, StopReaperIf, owners
<1>1. s \in counted /\ s \in sockets /\ s \notin maps
      /\ ~In(Reap(s), mail) /\ ~In(Reaped(s), mail) /\ ~In(STOP, mail) /\ ~stopping
    BY DEF HolderInv, CountInv, StopInv
<1>2. tid[s] \in Slot /\ ~In(tid[s], empty)
    BY <1>1 DEF TypeOK, SlotInv, In
<1>3. /\ empty' \in Seq(Slot) /\ Once(empty')
      /\ \A t : In(t, empty') <=> (In(t, empty) \/ t = tid[s])
    <2>1. empty \in Seq(Slot) /\ Once(empty) /\ empty' = Append(empty, tid[s])
        BY DEF TypeOK, SlotInv
    <2>2. /\ Append(empty, tid[s]) \in Seq(Slot)
          /\ \A t : In(t, Append(empty, tid[s])) <=> (In(t, empty) \/ t = tid[s])
          /\ Once(empty) /\ ~In(tid[s], empty) => Once(Append(empty, tid[s]))
        <3> HIDE DEF IInv, DestroySocket
        <3> QED BY <1>2, <2>1, InAppend, Zenon
    <2> QED BY <1>2, <2>1, <2>2
<1>4. /\ mail' \in Seq(Commands) /\ Once(mail')
      /\ \A u \in Socket : /\ In(Reap(u), mail') <=> In(Reap(u), mail)
                           /\ In(Reaped(u), mail') <=> In(Reaped(u), mail)
      /\ In(STOP, mail') <=> (terminating /\ sockets = {s})
    <2>1. CASE terminating /\ sockets = {s}
        <3>1. mail' = Append(mail, STOP) /\ STOP \in Commands
            BY <2>1, CommandFacts
        <3>2. /\ mail' \in Seq(Commands) /\ Once(mail')
              /\ \A x : In(x, mail') <=> (In(x, mail) \/ x = STOP)
            BY <1>1, <3>1, SendFacts, Zenon DEF StopInv
        <3> QED BY <2>1, <3>2, CommandFacts
    <2>2. CASE ~(terminating /\ sockets = {s})
        BY <1>1, <2>2 DEF TypeOK, StopInv
    <2> QED BY <2>1, <2>2
<1>5. TypeOK'
    BY <1>3, <1>4 DEF TypeOK
<1>6. HolderInv'
    BY <1>1, <1>4 DEF HolderInv, CountInv, StopInv, Exiting, Calling
<1>7. SlotInv'
    <2>1. ASSUME NEW t \in Slot
          PROVE  (\E u \in sockets' : tid'[u] = t) # In(t, empty')
        <3>1. (\E u \in sockets' : tid'[u] = t)
                <=> ((\E u \in sockets : tid[u] = t) /\ t # tid[s])
            BY <1>1 DEF SlotInv
        <3>2. ~((\E u \in sockets : tid[u] = t) <=> In(t, empty))
            BY DEF SlotInv, In
        <3>3. t = tid[s] => \E u \in sockets : tid[u] = t
            BY <1>1
        <3>4. ~((\E u \in sockets' : tid'[u] = t) <=> In(t, empty'))
            BY <1>3, <3>1, <3>2, <3>3
        <3> QED BY <3>4 DEF In
    <2> QED BY <1>3, <2>1 DEF SlotInv
<1>8. StopInv'
    BY <1>1, <1>4 DEF StopInv
<1>9. CountInv'
    BY <1>1, <1>4 DEF CountInv
<1>10. DoneInv' /\ PointerInv'
    BY DEF DoneInv, PointerInv
<1> QED BY <1>5, <1>6, <1>7, <1>8, <1>9, <1>10

LEMMA SendReapedInv == ASSUME IInv, SendReaped PROVE IInv'
<1> USE DEF IInv, SendReaped, owners, ctx
<1>1. PICK s \in leaving : mail' = Append(mail, Reaped(s))
    BY DEF Reaped
<1>2. /\ s \in Socket /\ s \in counted \ sockets /\ leaving = {s}
      /\ ~In(Reaped(s), mail) /\ reaper = "loop"
    BY DEF TypeOK, CountInv, StopInv
<1>3. /\ mail' \in Seq(Commands) /\ Once(mail')
      /\ \A u \in Socket : In(Reap(u), mail') <=> In(Reap(u), mail)
      /\ \A u \in Socket : In(Reaped(u), mail') <=> (In(Reaped(u), mail) \/ u = s)
      /\ In(STOP, mail') <=> In(STOP, mail)
    <2>1. /\ mail' \in Seq(Commands) /\ Once(mail')
          /\ \A x : In(x, mail') <=> (In(x, mail) \/ x = Reaped(s))
        BY <1>1, <1>2, SendFacts, CommandFacts, Zenon DEF StopInv
    <2> QED BY <1>2, <2>1, CommandFacts
<1>4. TypeOK'
    BY <1>3 DEF TypeOK
<1>5. HolderInv'
    BY <1>3 DEF HolderInv, TypeOK
<1>6. SlotInv' /\ DoneInv' /\ PointerInv'
    BY DEF SlotInv, DoneInv, PointerInv
<1>7. CountInv'
    BY <1>2, <1>3 DEF CountInv
<1>8. StopInv'
    BY <1>2, <1>3 DEF StopInv
<1> QED BY <1>4, <1>5, <1>6, <1>7, <1>8

\* Where the reaper ends, it has been told to stop, and nothing is left for it.
LEMMA NothingLeft ==
    ASSUME TypeOK', HolderInv', CountInv', stopping', sockets' = {}, counted' = {},
           ~In(STOP, mail)'
    PROVE  mail' = <<>>
<1>1. \A s \in Socket : ~In(Reap(s), mail)' /\ ~In(Reaped(s), mail)'
    BY DEF HolderInv, CountInv
<1>2. mail' \in Seq(Commands)
    BY DEF TypeOK
<1>3. \A c \in Commands : ~In(c, mail)'
    BY <1>1, CommandFacts
<1> QED BY <1>2, <1>3, InNone, Zenon

LEMMA ProcessReapedInv == ASSUME IInv, ProcessReaped PROVE IInv'
<1> USE DEF IInv, ProcessReaped, Arrives, DoneIf, owners, ctx
<1>1. PICK s \in Socket : Head(mail) = Reaped(s) /\ In(Reaped(s), mail)
    <2>1. Head(mail) \in Commands /\ In(Head(mail), mail) /\ Head(mail)[1] = "reaped"
        BY TakeFacts DEF StopInv
    <2>2. Head(mail) # STOP /\ \A s \in Socket : Head(mail) # Reap(s)
        BY <2>1 DEF STOP, Reap
    <2> QED BY <2>1, <2>2, CommandFacts
<1>2. /\ mail' \in Seq(Commands) /\ Once(mail')
      /\ \A u \in Socket : In(Reap(u), mail') <=> In(Reap(u), mail)
      /\ \A u \in Socket : In(Reaped(u), mail') <=> (In(Reaped(u), mail) /\ u # s)
      /\ In(STOP, mail') <=> In(STOP, mail)
    <2>1. /\ mail' \in Seq(Commands) /\ Once(mail')
          /\ \A x : In(x, mail') <=> (In(x, mail) /\ x # Reaped(s))
        BY <1>1, TakeFacts DEF StopInv
    <2> QED BY <2>1, CommandFacts
<1>3. counted' = counted \ {s} /\ s \in counted \ sockets
    BY <1>1 DEF Reaped, CountInv
<1>4. TypeOK'
    BY <1>2, <1>3 DEF TypeOK
<1>5. HolderInv'
    BY <1>1, <1>2, <1>3 DEF HolderInv, TypeOK
<1>6. SlotInv' /\ PointerInv'
    BY DEF SlotInv, PointerInv
<1>7. CountInv'
    BY <1>2, <1>3 DEF CountInv
<1>8. StopInv'
    <2>1. CASE stopping /\ counted' = {}
        <3>1. sockets' = {} /\ ~In(STOP, mail)'
            BY <1>2, <2>1 DEF StopInv
        <3>2. mail' = <<>>
            BY <1>4, <1>5, <1>7, <2>1, <3>1, NothingLeft
        <3> QED BY <1>2, <2>1, <3>2 DEF StopInv
    <2>2. CASE ~(stopping /\ counted' = {})
        BY <1>2, <1>3, <2>2 DEF StopInv
    <2> QED BY <2>1, <2>2
<1>9. DoneInv'
    BY DEF DoneInv, TypeOK
<1> QED BY <1>4, <1>5, <1>6, <1>7, <1>8, <1>9

LEMMA ProcessStopInv == ASSUME IInv, ProcessStop PROVE IInv'
<1> USE DEF IInv, ProcessStop, Arrives, DoneIf, owners, ctx
<1>1. Head(mail) = STOP /\ In(STOP, mail)
    <2>1. Head(mail) \in Commands /\ In(Head(mail), mail) /\ Head(mail)[1] = "stop"
        BY TakeFacts DEF StopInv
    <2>2. \A s \in Socket : Head(mail) # Reap(s) /\ Head(mail) # Reaped(s)
        BY <2>1 DEF Reap, Reaped
    <2> QED BY <2>1, <2>2, CommandFacts
<1>2. /\ mail' \in Seq(Commands) /\ Once(mail')
      /\ \A u \in Socket : /\ In(Reap(u), mail') <=> In(Reap(u), mail)
                           /\ In(Reaped(u), mail') <=> In(Reaped(u), mail)
      /\ ~In(STOP, mail')
    <2>1. /\ mail' \in Seq(Commands) /\ Once(mail')
          /\ \A x : In(x, mail') <=> (In(x, mail) /\ x # STOP)
        BY <1>1, TakeFacts DEF StopInv
    <2> QED BY <2>1, CommandFacts
<1>3. TypeOK'
    BY <1>2 DEF TypeOK
<1>4. HolderInv'
    BY <1>2 DEF HolderInv, TypeOK
<1>5. SlotInv' /\ PointerInv'
    BY DEF SlotInv, PointerInv
<1>6. CountInv'
    BY <1>2 DEF CountInv
<1>7. StopInv'
    <2>1. terminating /\ sockets = {} /\ sockets' = {} /\ stopping'
        BY <1>1 DEF StopInv
    <2>2. CASE counted = {}
        <3>1. mail' = <<>>
            BY <1>2, <1>3, <1>4, <1>6, <2>1, <2>2, NothingLeft
        <3> QED BY <1>2, <2>1, <2>2, <3>1 DEF StopInv
    <2>3. CASE counted # {}
        BY <1>2, <2>1, <2>3 DEF StopInv
    <2> QED BY <2>2, <2>3
<1>8. DoneInv'
    BY DEF DoneInv, TypeOK
<1> QED BY <1>3, <1>4, <1>5, <1>6, <1>7, <1>8

-----------------------------------------------------------------------------
(* Theorems *)

LEMMA StepInv == ASSUME IInv, [Next]_vars PROVE IInv'
<1>1. ASSUME NEW o \in Owner, Connect(o) \/ Disconnect(o) \/ Reconnect(o)
      PROVE  IInv'
    BY <1>1, ConnectInv, DisconnectInv, ReconnectInv
<1>2. CASE Exit \/ Interrupted
    BY <1>2, ExitInv, InterruptedInv
<1>3. CASE Call
    BY <1>3, StartInv, StartFailsInv, CreateSocketInv, CreateFailsInv, InitInstanceInv,
       InitFailsInv, CloseInstanceInv, MapsDestroyedInv, TerminateInv, DoneActionInv,
       JoinInv DEF Call
<1>4. CASE Reaper
    BY <1>4, ProcessReapInv, DestroySocketInv, SendReapedInv, ProcessReapedInv,
       ProcessStopInv DEF Reaper
<1>5. CASE UNCHANGED vars
    <2> USE DEF vars, owners, ctx, reap
    <2>1. TypeOK' /\ HolderInv' /\ SlotInv'
        BY <1>5 DEF IInv, TypeOK, HolderInv, SlotInv
    <2>2. StopInv' /\ CountInv' /\ DoneInv' /\ PointerInv'
        BY <1>5 DEF IInv, StopInv, CountInv, DoneInv, PointerInv
    <2> QED BY <2>1, <2>2 DEF IInv
<1> QED BY <1>1, <1>2, <1>3, <1>4, <1>5 DEF Next

LEMMA Inductive == Spec => []IInv
<1>1. Init => IInv
    BY InitInv
<1>2. IInv /\ [Next]_vars => IInv'
    BY StepInv
<1> QED BY <1>1, <1>2, PTL DEF Spec

\* Type correctness of owners, context and reaper (Communicator, ctx_t, reaper_t).
THEOREM TypeCorrect == Spec => []TypeOK
<1>1. IInv => TypeOK
    BY DEF IInv
<1> QED BY <1>1, Inductive, PTL

\* Whatever fails half way, a living socket has exactly one holder among maps,
\* call, mailbox and reaper, and slots are conserved, for any number of them.
THEOREM HoldersSound == Spec => []SocketsHaveOneHolder
<1>1. ASSUME IInv PROVE SocketsHaveOneHolder
    <2> USE <1>1 DEF IInv
    <2>1. \A s \in Socket : Reapable(s) <=> In(Reap(s), mail)
        BY DEF Reapable, In, Reap
    <2>2. \A s \in sockets : \E h \in Holders(s) : Holders(s) = {h}
        <3> SUFFICES ASSUME NEW s \in sockets
                     PROVE  \E h \in Holders(s) : Holders(s) = {h}
            OBVIOUS
        <3>1. s \in Socket /\ (Reapable(s) <=> In(Reap(s), mail))
            BY <2>1 DEF TypeOK
        <3>2. CASE s \in maps
            BY <3>1, <3>2 DEF Holders, HolderInv
        <3>3. CASE s \in counted
            BY <3>1, <3>3 DEF Holders, HolderInv
        <3>4. CASE In(Reap(s), mail)
            BY <3>1, <3>4 DEF Holders, HolderInv
        <3>5. CASE at = "init" /\ s = created
            BY <3>1, <3>5 DEF Holders, HolderInv
        <3> QED BY <3>2, <3>3, <3>4, <3>5 DEF HolderInv
    <2>3. \A s \in Socket \ sockets : Holders(s) \subseteq {"reaper"}
        BY <2>1 DEF Holders, HolderInv
    <2>4. /\ \A s, u \in sockets : tid[s] = tid[u] => s = u
          /\ reaper # "none" =>
                \A t \in Slot : (\E s \in sockets : tid[s] = t)
                                   # (\E i \in DOMAIN empty : empty[i] = t)
        BY DEF SlotInv, In
    <2> QED BY <2>2, <2>3, <2>4 DEF SocketsHaveOneHolder
<1> QED BY <1>1, Inductive, PTL

\* No owner is left with a pointer to an instance that is destroyed or another's.
THEOREM PointersSound == Spec => []PointersAreOwned
<1>1. IInv => PointersAreOwned
    BY DEF IInv, PointerInv, PointersAreOwned, Calling
<1> QED BY <1>1, Inductive, PTL

\* The assertion in ctx_t::terminate, for any number of sockets and slots.
THEOREM DoneSound == Spec => []DoneMeansEmpty
<1>1. IInv => DoneMeansEmpty
    BY DEF IInv, DoneInv, StopInv, DoneMeansEmpty
<1> QED BY <1>1, Inductive, PTL

==============================================================================
