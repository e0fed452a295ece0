-------------------------- MODULE TimingCalibration --------------------------
(***************************************************************************)
(* tools/run_hcp_timing_calibration.py: the protocol recording is cleared  *)
(* and started over HTTP, the door is sent to its ends over the native     *)
(* API, each time until the reported state names the end, and the          *)
(* recording is stopped, downloaded and analysed.  A command is fired and  *)
(* forgotten and may be lost, the reports of the state arrive later than   *)
(* the door, every request may fail, and a wait may run into its timeout.  *)
(***************************************************************************)
EXTENDS Integers, SequencesExt

CONSTANTS
    Sequence,     \* --sequence: the ends the door is sent to
    Tries,        \* requests get() makes (3) and attempts of save_nonempty (3)
    MaxMisses     \* bound: requests and commands that fail in a session

\* What the constants must be (assumed by the modules that give them values).
CalibrationConstants ==
    /\ Sequence \in Seq({"open", "closed"}) /\ Sequence # <<>>
    /\ Tries \in Nat \ {0} /\ MaxMisses \in Nat

VARIABLES
    pc,         \* what run_cycle does next
    i,          \* index into Sequence
    tried,      \* attempts of the request in progress
    misses,     \* failures so far (bounded)
    recording,  \* the ESP records (external)
    place,      \* the door (external): an end, or on its way to one
    reports,    \* state reports on their way to the session
    text,       \* the last one that arrived
    json, bin,  \* what the two downloads wrote
    seen        \* history: the ends reached while the ESP was recording
vars == <<pc, i, tried, misses, recording, place, reports, text, json, bin, seen>>

Ends == {"open", "closed"}
Towards == [open |-> "opening", closed |-> "closing"]
Files == {"none", "empty", "error", "log"}
Requests == {"clear", "start", "stop"}
After == [clear |-> "start", start |-> "connect", stop |-> "json"]

\* A door that ran is not sent anywhere by anyone else (assumption).
Init ==
    /\ pc = "clear" /\ i = 1 /\ tried = 0 /\ misses = 0
    /\ recording \in BOOLEAN
    /\ place \in Ends \cup {"between"}
    /\ reports = <<>> /\ text = "" /\ json = "none" /\ bin = "none" /\ seen = <<>>

Door == <<place, reports, seen>>
Downloads == <<json, bin>>
Miss == misses < MaxMisses /\ misses' = misses + 1

\* EspHttpClient.get and the check behind it: a clear or a start that failed every
\* time ends the session, a stop that did is only written down.
Required(what) == what \in {"clear", "start"}
Served(what) ==
    recording' = CASE what = "start" -> TRUE [] what = "stop" -> FALSE [] OTHER -> recording

Request ==
    /\ pc \in Requests
    /\ \/ /\ Served(pc)
          /\ pc' = After[pc] /\ tried' = 0 /\ UNCHANGED misses
       \/ /\ Miss
          /\ (Served(pc) \/ UNCHANGED recording)
          /\ IF tried + 1 < Tries THEN tried' = tried + 1 /\ UNCHANGED pc
             ELSE tried' = 0 /\ pc' = IF Required(pc) THEN "failed" ELSE After[pc]
    /\ UNCHANGED <<i, Door, text, Downloads>>

\* __aenter__: connected, the session hears the current state and every later one.
Connect ==
    /\ pc = "connect"
    /\ \/ pc' = "command" /\ text' = place /\ UNCHANGED misses
       \/ pc' = "failed" /\ Miss /\ UNCHANGED text
    /\ UNCHANGED <<i, tried, recording, Door, Downloads>>

\* command_cover: nobody learns whether it arrived.
Target == Sequence[i]
Command ==
    /\ pc = "command"
    /\ \/ place # Target /\ place' = Towards[Target] /\ reports' = Append(reports, place')
          /\ UNCHANGED misses
       \/ place = Target /\ UNCHANGED <<place, reports, misses>>
       \/ Miss /\ UNCHANGED <<place, reports>>
    /\ pc' = "wait"
    /\ UNCHANGED <<i, tried, recording, text, Downloads, seen>>

\* The door gets where it goes, and says so.
Arrive ==
    /\ \E e \in Ends :
        /\ place = Towards[e]
        /\ place' = e /\ reports' = Append(reports, e)
        /\ seen' = IF recording THEN Append(seen, e) ELSE seen
    /\ UNCHANGED <<pc, i, tried, misses, recording, text, Downloads>>

Report ==
    /\ reports # <<>>
    /\ text' = Head(reports) /\ reports' = Tail(reports)
    /\ UNCHANGED <<pc, i, tried, misses, recording, place, Downloads, seen>>

\* wait_for_text_state: the last report names the end, or the time is up.
\* Mutant of WaitPassed: the end of the wait is taken for the end of the movement.
MutWaitPassed == TRUE
WaitPassed == text = Target
Wait ==
    /\ pc = "wait"
    /\ WaitPassed
    /\ IF i < Len(Sequence) THEN i' = i + 1 /\ pc' = "command"
       ELSE UNCHANGED i /\ pc' = "stop"
    /\ UNCHANGED <<tried, misses, recording, Door, text, Downloads>>

WaitTimesOut ==
    /\ pc = "wait" /\ text # Target
    /\ pc' = "failed"
    /\ UNCHANGED <<i, tried, misses, recording, Door, text, Downloads>>

\* save: whatever came is written, the body of an error reply too.  The JSON log is
\* asked for again while it is empty or an error, the binary one is not.
Written == IF misses' = misses THEN {"log"} ELSE {"empty", "error"}
SaveJson ==
    /\ pc = "json"
    /\ (UNCHANGED misses \/ Miss)
    /\ json' \in Written
    /\ IF json' # "log" /\ tried + 1 < Tries THEN tried' = tried + 1 /\ UNCHANGED pc
       ELSE tried' = 0 /\ pc' = "bin"
    /\ UNCHANGED <<i, recording, Door, text, bin>>

SaveBin ==
    /\ pc = "bin"
    /\ (UNCHANGED misses \/ Miss)
    /\ bin' \in Written
    /\ pc' = "analyse"
    /\ UNCHANGED <<i, tried, recording, Door, text, json>>

\* run_analyzer: the binary log if the JSON one is empty.  The analyser (external)
\* fails on anything that is not a log.
Input == IF json = "empty" THEN bin ELSE json
Analyse ==
    /\ pc = "analyse"
    /\ pc' = IF Input = "log" THEN "done" ELSE "failed"
    /\ UNCHANGED <<i, tried, misses, recording, Door, text, Downloads>>

Next ==
    \/ Request \/ Connect \/ Command \/ Wait \/ WaitTimesOut
    \/ SaveJson \/ SaveBin \/ Analyse
    \/ Arrive \/ Report

Spec == Init /\ [][Next]_vars

-----------------------------------------------------------------------------
(* Properties. *)

\* The state stays in its types.
TypeOK ==
    /\ pc \in Requests \cup {"connect", "command", "wait", "json", "bin", "analyse",
                             "failed", "done"}
    /\ i \in DOMAIN Sequence /\ tried \in 0..(Tries - 1) /\ misses \in 0..MaxMisses
    /\ recording \in BOOLEAN
    /\ json \in Files /\ bin \in Files

\* A session that is analysed recorded every movement of its sequence, in order and
\* to its end; only a first step to where the door already was leaves none
\* (run_cycle, wait_for_text_state).
AnalysedIsRecorded ==
    pc = "done" => seen = Sequence \/ seen = Tail(Sequence)

=============================================================================
