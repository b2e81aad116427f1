------------------------------- MODULE Contract -------------------------------
(***************************************************************************)
(* What the driver promises its users, without mutexes or pipe: a step is  *)
(* a phase during which only the stepping thread's own tasks change the    *)
(* registrations; a client's operation happens at once, between steps; a   *)
(* poll watches exactly what is registered; and nobody waits forever.      *)
(* Driver implements this specification.                                   *)
(***************************************************************************)
CONSTANT Clients

VARIABLES
  phase,     \* "out" of a step, running "tasks", or "polling"
  sockets,   \* clients whose socket is registered
  polled,    \* registrations a blocking poll watches
  requests   \* clients that asked for an operation and have not been served

vars == <<phase, sockets, polled, requests>>

Init == /\ phase = "out"
        /\ sockets = {}
        /\ polled = {}
        /\ requests = {}

\* c's registration may come or go.
Change(c) == sockets' \in {sockets, sockets \cup {c}, sockets \ {c}}

BeginStep == /\ phase = "out"
             /\ phase' = "tasks"
             /\ UNCHANGED <<sockets, polled, requests>>

Task == /\ phase = "tasks"
        /\ \E c \in Clients : Change(c)
        /\ UNCHANGED <<phase, polled, requests>>

Poll == /\ phase = "tasks"
        /\ phase' = "polling"
        /\ polled' = sockets
        /\ UNCHANGED <<sockets, requests>>

Serve == /\ phase = "polling"
         /\ polled # {}
         /\ phase' = "tasks"
         /\ polled' = {}
         /\ UNCHANGED <<sockets, requests>>

EndStep == /\ phase # "out"
           /\ phase' = "out"
           /\ polled' = {}
           /\ UNCHANGED <<sockets, requests>>

Request(c) == /\ c \notin requests
              /\ requests' = requests \cup {c}
              /\ UNCHANGED <<phase, sockets, polled>>

Perform(c) == /\ phase = "out"
              /\ c \in requests
              /\ requests' = requests \ {c}
              /\ Change(c)
              /\ UNCHANGED <<phase, polled>>

Next == \/ BeginStep \/ Task \/ Poll \/ Serve \/ EndStep
        \/ \E c \in Clients : Request(c) \/ Perform(c)

Spec == Init /\ [][Next]_vars

\* Every operation a client asked for is performed.
Answered == \A c \in Clients : c \in requests ~> c \notin requests
===============================================================================
