-------------------------- MODULE OperationLifecycle --------------------------
(***************************************************************************)
(* What the eIM promises to a caller of its REST API about an operation,   *)
(* with no queue, device or message in sight: an accepted operation is     *)
(* pending, the device carries it out at most once, and the outcome the    *)
(* eIM reports is never "done" for an operation the device did not carry   *)
(* out.  An outcome may be replaced by another outcome, but an operation   *)
(* never becomes pending again and never disappears.                       *)
(***************************************************************************)
EXTENDS Integers

VARIABLES outcome,   \* by operation id
          carriedOut \* ids of the operations the device carried out

Init ==
    /\ outcome = [i \in {} |-> i]
    /\ carriedOut = {}

\* The new id follows every id in use.
Accept ==
    /\ outcome' = [i \in DOMAIN outcome' |->
                     IF i \in DOMAIN outcome THEN outcome[i] ELSE "pending"]
    /\ \E n \in DOMAIN outcome' :
         /\ DOMAIN outcome' = DOMAIN outcome \cup {n}
         /\ \A i \in DOMAIN outcome : i < n
    /\ UNCHANGED carriedOut

CarryOut == \E i \in DOMAIN outcome \ carriedOut :
    /\ carriedOut' = carriedOut \cup {i}
    /\ UNCHANGED outcome

Report == \E i \in DOMAIN outcome, o \in {"done", "failed"} :
    /\ o = "done" => i \in carriedOut
    /\ outcome' = [outcome EXCEPT ![i] = o]
    /\ UNCHANGED carriedOut

Next == Accept \/ CarryOut \/ Report

Spec == Init /\ [][Next]_<<outcome, carriedOut>>

=============================================================================
