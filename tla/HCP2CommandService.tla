------------------------ MODULE HCP2CommandService -------------------------
(***************************************************************************)
(* What the command channel of the HCP2 mailbox promises to whoever calls  *)
(* queue_button_.  Commands are numbered as they are sent.  The responder  *)
(* performs some of them, in the order they were sent and each at most     *)
(* once; a command that is overwritten while it is being taken may be      *)
(* performed with the button of the one that overwrites it.  Everything    *)
(* else the channel does - settling, expiry, acks, sessions, resets - is   *)
(* invisible here: it may lose a command but never repeats or reorders.    *)
(***************************************************************************)
EXTENDS Naturals

VARIABLES
    sent,   \* number of commands sent so far
    done    \* pairs <<command performed, command whose button was pressed>>

Init == sent = 0 /\ done = {}

Send ==
    /\ sent' = sent + 1
    /\ UNCHANGED done

Perform(c, b) ==
    /\ \A d \in done : d[1] < c
    /\ done' = done \cup {<<c, b>>}
    /\ UNCHANGED sent

Next == Send \/ \E c \in 1..sent : \E b \in c..sent : Perform(c, b)

Spec == Init /\ [][Next]_<<sent, done>>
=============================================================================
