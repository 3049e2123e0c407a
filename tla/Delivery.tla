------------------------------ MODULE Delivery ------------------------------
(***************************************************************************)
(* What UUPC/extended promises the programs that queue files (uux, uucp,   *)
(* rmail): a file leaves the hands of the host that has it only when it    *)
(* has arrived, and a request is forgotten only when its file has arrived  *)
(* or its sender was told why it will not.  A file may arrive twice.       *)
(* Xfer.tla implements this over a line that drops and hosts that crash.   *)
(***************************************************************************)
EXTENDS Naturals

CONSTANTS Files

VARIABLES
    pending,   \* files some work file asks to be sent
    kept,      \* files their sender still has
    arrivals,  \* how often each file has arrived
    refused    \* files whose refusal was reported

vars == <<pending, kept, arrivals, refused>>

Init == /\ pending = Files /\ kept = Files
        /\ arrivals = [f \in Files |-> 0]
        /\ refused = {}

Arrive(f) == /\ f \in pending \cap kept
             /\ arrivals' = [arrivals EXCEPT ![f] = @ + 1]
             /\ UNCHANGED <<pending, kept, refused>>

Refuse(f) == /\ f \in pending
             /\ refused' = refused \cup {f}
             /\ UNCHANGED <<pending, kept, arrivals>>

Purge(f)  == /\ f \in kept /\ arrivals[f] > 0
             /\ kept' = kept \ {f}
             /\ UNCHANGED <<pending, arrivals, refused>>

\* A work file is deleted, and with it all its requests.
Forget(F) == /\ \A f \in F : arrivals[f] > 0 \/ f \in refused
             /\ pending' = pending \ F
             /\ UNCHANGED <<kept, arrivals, refused>>

Next == \/ \E f \in Files : Arrive(f) \/ Refuse(f) \/ Purge(f)
        \/ \E F \in SUBSET pending : Forget(F)

Spec == Init /\ [][Next]_vars
=============================================================================
