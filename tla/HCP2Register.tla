---------------------------- MODULE HCP2Register ----------------------------
(***************************************************************************)
(* What a block of the HCP2 mailbox promises, with the sequence lock       *)
(* hidden: an atomic register of several fields.  Publications are         *)
(* numbered; one that its CPU did not live to complete never happened, so  *)
(* numbers may be skipped.  A read returns all fields of the one           *)
(* publication that is current at some instant of the call.                *)
(***************************************************************************)
EXTENDS Naturals

CONSTANT Fields

VARIABLES
    val,    \* the publication that is current
    out     \* what the last read returned

Init == val = 0 /\ out = [f \in Fields |-> 0]

Publish ==
    /\ val' \in Nat
    /\ val' > val
    /\ UNCHANGED out

Read ==
    /\ out' = [f \in Fields |-> val]
    /\ UNCHANGED val

Next == Publish \/ Read

Spec == Init /\ [][Next]_<<val, out>>
=============================================================================
