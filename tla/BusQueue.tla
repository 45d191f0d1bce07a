------------------------------ MODULE BusQueue ------------------------------
(***************************************************************************)
(* What the HIF promises to HTC: bus requests are carried out one at a     *)
(* time, in the order they were submitted, and each once.  HTCSend and     *)
(* HTCRecv rely on it.                                                     *)
(***************************************************************************)
EXTENDS Sequences

CONSTANTS Requests,     \* bus requests
          NoRequest

VARIABLES pending,      \* submitted requests that have not been begun
          serving       \* the request whose transfer is under way

Init == pending = <<>> /\ serving = NoRequest

\* A request that is still to be carried out cannot be submitted again.
Submit(r) ==
    /\ r # serving
    /\ \A i \in DOMAIN pending : pending[i] # r
    /\ pending' = Append(pending, r)
    /\ UNCHANGED serving

Begin ==
    /\ serving = NoRequest
    /\ pending # <<>>
    /\ serving' = Head(pending)
    /\ pending' = Tail(pending)

Finish ==
    /\ serving # NoRequest
    /\ serving' = NoRequest
    /\ UNCHANGED pending

Next == Begin \/ Finish \/ \E r \in Requests : Submit(r)

Spec == Init /\ [][Next]_<<pending, serving>>
=============================================================================
