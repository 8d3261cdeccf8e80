---------------------------- MODULE BroadcastLog ----------------------------
(***************************************************************************)
(* What SpmcQueue promises its users, without slots, cursors or threads:   *)
(* one log of events, of which every consumer sees every entry, once and   *)
(* in order, and of which no more than Capacity entries are ever unread by *)
(* the slowest consumer.                                                   *)
(***************************************************************************)
EXTENDS Naturals, Sequences

CONSTANTS Events,      \* what may be published
          Consumers,   \* the fixed set of consumers
          Capacity     \* how far the slowest consumer may lag

VARIABLES log,         \* everything published so far, oldest first
          got          \* got[c]: everything consumer c has been handed

vars == <<log, got>>

Init == /\ log = << >>
        /\ got = [c \in Consumers |-> << >>]

Publish(e) == /\ \A c \in Consumers : Len(log) - Len(got[c]) < Capacity
              /\ log' = Append(log, e)
              /\ UNCHANGED got

Deliver(c) == /\ Len(got[c]) < Len(log)
              /\ got' = [got EXCEPT ![c] = Append(@, log[Len(@) + 1])]
              /\ UNCHANGED log

Next == \/ \E e \in Events : Publish(e)
        \/ \E c \in Consumers : Deliver(c)

Spec == Init /\ [][Next]_vars
=============================================================================
