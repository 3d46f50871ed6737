---------------------------- MODULE CommandChannel ----------------------------
(***************************************************************************)
(* What ZeroMQ's objects expect of the mailbox of a thread: commands of    *)
(* any number of senders reach its one receiver in the order in which they *)
(* were sent, none is lost, none comes twice, and a receiver that waits is *)
(* woken.  The channel may be destroyed once nobody will send any more.    *)
(***************************************************************************)
EXTENDS Naturals, Sequences

CONSTANT Command

VARIABLES
    sent,     \* all commands sent, in order
    taken,    \* how many of them the receiver has taken
    gone      \* TRUE when the channel is destroyed

chanVars == <<sent, taken, gone>>

ChannelInit == sent = <<>> /\ taken = 0 /\ gone = FALSE

Post == /\ ~gone
        /\ \E m \in Command : sent' = Append(sent, m)
        /\ UNCHANGED <<taken, gone>>

Take == /\ ~gone
        /\ taken < Len(sent)
        /\ taken' = taken + 1
        /\ UNCHANGED <<sent, gone>>

Dispose == /\ taken = Len(sent)
           /\ gone' = TRUE
           /\ UNCHANGED <<sent, taken>>

ChannelNext == Post \/ Take \/ Dispose

ChannelSafety == ChannelInit /\ [][ChannelNext]_chanVars
ChannelSpec == ChannelSafety /\ WF_chanVars(Take)
==============================================================================
