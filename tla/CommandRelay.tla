---------------------------- MODULE CommandRelay ----------------------------
(***************************************************************************)
(* What RoombaBrain promises the user of a robot, without its network, its *)
(* tasks and its restarts: only commands that were issued are performed,   *)
(* and a command that is answered has been performed - once or more often. *)
(***************************************************************************)
EXTENDS Naturals, Sequences

CONSTANTS
    Requests,  \* the requests of the client
    Gets       \* those that only ask and command nothing

VARIABLES
    issued,    \* the requests the client has made
    performed, \* the commands the robot was sent, in that order
    answered   \* the requests the client has the answer to

vars == <<issued, performed, answered>>

Init ==
    /\ issued = {}
    /\ performed = <<>>
    /\ answered = {}

Issue(r) ==
    /\ r \notin issued
    /\ issued' = issued \cup {r}
    /\ UNCHANGED <<performed, answered>>

Perform(r) ==
    /\ r \in issued \ Gets
    /\ performed' = Append(performed, r)
    /\ UNCHANGED <<issued, answered>>

Answer(r) ==
    /\ r \in issued \ answered
    /\ r \in Gets \/ \E i \in 1..Len(performed) : performed[i] = r
    /\ answered' = answered \cup {r}
    /\ UNCHANGED <<issued, performed>>

Next == \E r \in Requests : Issue(r) \/ Perform(r) \/ Answer(r)

Spec == Init /\ [][Next]_vars
=============================================================================
