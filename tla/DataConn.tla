------------------------------ MODULE DataConn ------------------------------
(***************************************************************************)
(* What the AGPS code promises to the platform's connectivity service: on  *)
(* every network interface it never asks for a connection that it already  *)
(* wants, never gives back one that it does not want, and gives each back  *)
(* at most once.  Who asks and why is not said here; module Agps           *)
(* implements this specification.                                          *)
(***************************************************************************)

CONSTANT Nif       \* the network interfaces

VARIABLES
    phase,         \* phase[n]: does the code want a connection on n?
    sent           \* the call made to the platform by the last step

Phase == {"idle", "wanted", "closing"}

NoCall       == [nif |-> "none", conn |-> "none"]
CallFor(n,c) == [nif |-> n, conn |-> c]
Calls        == {NoCall} \cup {CallFor(n, c) : n \in Nif, c \in {"request", "release"}}

Init == /\ phase = [n \in Nif |-> "idle"]
        /\ sent = NoCall

Move(n, from, to) == /\ phase[n] = from
                     /\ phase' = [phase EXCEPT ![n] = to]

Request(n) == Move(n, "idle", "wanted") /\ sent' = CallFor(n, "request")

Release(n) == Move(n, "wanted", "closing") /\ sent' = CallFor(n, "release")

\* The platform refused the request or took the connection away.
Lost(n) == Move(n, "wanted", "idle") /\ sent' = NoCall

Closed(n) == Move(n, "closing", "idle") /\ sent' = NoCall

\* The close was confirmed while somebody was waiting for a new connection.
Reopen(n) == Move(n, "closing", "wanted") /\ sent' = CallFor(n, "request")

Silent == sent' = NoCall /\ UNCHANGED phase

Next == \/ \E n \in Nif : Request(n) \/ Release(n) \/ Lost(n) \/ Closed(n) \/ Reopen(n)
        \/ Silent

Spec == Init /\ [][Next]_<<phase, sent>>
=============================================================================
