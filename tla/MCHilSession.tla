---------------------------- MODULE MCHilSession ----------------------------
(* A healthy answer of /health, with or without a response pending, and the *)
(* answers that report one or two troubles more.                            *)
EXTENDS HilSession
Healthy == [verdict |-> "ok", safe |-> TRUE, reasons |-> {}, linked |-> TRUE, active |-> FALSE,
            raw |-> 0, pending |-> FALSE, stale |-> FALSE, sticky |-> FALSE, starved |-> FALSE]
Good == {Healthy, [Healthy EXCEPT !.pending = TRUE], [Healthy EXCEPT !.safe = FALSE]}
OneTrouble == UNION {OneWorse(p) : p \in Good}
MCAnswers == Good \cup OneTrouble \cup UNION {OneWorse(p) : p \in OneTrouble}
=============================================================================
