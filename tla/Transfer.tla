------------------------------- MODULE Transfer -------------------------------
(***************************************************************************)
(* What a call of Send, SendTo, Receive, ReceiveFrom or Listen promises    *)
(* (socket.h), without polls, clocks, partial writes and buffers: the      *)
(* units of its data (bytes of a stream, or one datagram or connection)    *)
(* pass in order, none left out and none twice; what it reports is how     *)
(* many; it is incomplete only if its timeout was limited.  It may throw,  *)
(* and then says nothing of what it sent, but has received nothing.        *)
(***************************************************************************)
EXTENDS Integers, Sequences

CONSTANT Sizes      \* how many units a call may pass

VARIABLES active,   \* whether a call is under way
          sending,  \* whether it sends or receives
          size,     \* how many units it was called with
          limited,  \* whether it has a timeout
          wire,     \* the positions of the units that passed, in order
          outcome,  \* how it ended: "none" yet, "returned" or "thrown"
          count     \* the number it returned

vars == <<active, sending, size, limited, wire, outcome, count>>

call == <<sending, size, limited>>

\* A send needs all of its data to be sent, a receive has enough with any.
Complete(w) == IF sending THEN Len(w) = size ELSE w # <<>>

\* w continues what has passed.
Continues(w) == /\ w \in {[i \in 1..n |-> i] : n \in Len(wire)..size}
                /\ SubSeq(w, 1, Len(wire)) = wire

Init == /\ active = FALSE
        /\ sending \in BOOLEAN
        /\ size \in Sizes
        /\ limited \in BOOLEAN
        /\ wire = <<>>
        /\ outcome = "none"
        /\ count = 0

Begin == /\ ~active
         /\ active' = TRUE
         /\ sending' \in BOOLEAN
         /\ size' \in Sizes
         /\ limited' \in BOOLEAN
         /\ wire' = <<>>
         /\ outcome' = "none"
         /\ count' = 0

\* A part is sent, more has to follow.
Part == /\ active /\ sending
        /\ Continues(wire')
        /\ ~Complete(wire')
        /\ UNCHANGED <<active, call, outcome, count>>

Return == /\ active
          /\ Continues(wire')
          /\ limited \/ Complete(wire')
          /\ active' = FALSE
          /\ outcome' = "returned"
          /\ count' = Len(wire')
          /\ UNCHANGED call

Throw == /\ active
         /\ sending \/ wire = <<>>
         /\ active' = FALSE
         /\ outcome' = "thrown"
         /\ UNCHANGED <<wire, count, call>>

\* A call that throws before it has done anything.
Refuse == /\ ~active
          /\ wire' = <<>>
          /\ outcome' = "thrown"
          /\ count' = 0
          /\ sending' \in BOOLEAN
          /\ size' \in Sizes
          /\ limited' \in BOOLEAN
          /\ UNCHANGED active

Next == Begin \/ Part \/ Return \/ Throw \/ Refuse

Spec == Init /\ [][Next]_vars
===============================================================================
