---------------------------- MODULE GarageWizard ----------------------------
(***************************************************************************)
(* tools/garage_test_wizard.py: a guided test session at the door.  The    *)
(* session is a script of prompts, requests to the ESP's HTTP server,      *)
(* commands to the door through Home Assistant, and measurements typed in  *)
(* by the operator.  Every request may fail, be executed although it is    *)
(* reported failed, be executed late, or raise; the operator may answer,   *)
(* quit or press Ctrl-C at any time; a write to the disk may fail.         *)
(*                                                                         *)
(* The script is data (Script and Finish), one record per statement that   *)
(* asks, sends or measures; the actions are what a statement may do.       *)
(***************************************************************************)
EXTENDS Integers, SequencesExt

CONSTANTS
    Targets,      \* the target positions the operator asks to test, in order
    Attempts,     \* requests EspClient.get makes before it gives up (3)
    MaxFails      \* bound: requests that fail in a session

\* What the constants must be (assumed by the modules that give them values).
WizardConstants ==
    /\ Targets \in Seq(STRING)
    /\ Attempts \in Nat \ {0}
    /\ MaxFails \in Nat

-----------------------------------------------------------------------------
\* The script.  "ask" is prompt_enter, "choose" is prompt_yes_no (a "no" leaves
\* out the next `skip` steps), "esp" a GET with retries, "page" one without,
\* "door" command_cover, "goto" command_position, "light" toggle_light,
\* "measure" measure_height, "save" an event written to the disk.

Step(op, arg) == << [op |-> op, arg |-> arg, skip |-> 0] >>
Ask == Step("ask", "none")
Snapshot == Step("esp", "stats") \o Step("esp", "status") \o Step("save", "none")
Optional(steps) ==
    << [op |-> "choose", arg |-> "none", skip |-> Len(steps)] >> \o steps
Moved(c) == Step("door", c) \o Ask \o Snapshot

Preflight == Snapshot \o Step("esp", "stats") \o Ask
StartRecording ==
    Step("esp", "clear") \o Optional(Step("page", "format")) \o Step("esp", "start")
FullTravel ==
    Ask \o Snapshot \o Ask \o Moved("open") \o Step("measure", "open")
        \o Ask \o Moved("close") \o Step("measure", "close")
StopTest ==
    Optional(Ask \o Step("door", "open") \o Ask \o Moved("stop")
                 \o Step("measure", "stop") \o Optional(Moved("open")))
PositionTests ==
    FlattenSeq([i \in DOMAIN Targets |->
        Ask \o Step("goto", Targets[i]) \o Ask \o Snapshot
            \o Step("measure", Targets[i])])
LightTest ==
    Optional(Step("light", "none") \o Optional(<<>>) \o Step("save", "none") \o Snapshot
                 \o Optional(Step("light", "none") \o Ask \o Snapshot))
ObstructionTest ==
    Optional(Ask \o Step("door", "close") \o Ask \o Snapshot \o Step("save", "none")
                 \o Optional(Moved("open")))
Finish ==
    Step("esp", "stop") \o Step("page", "stats") \o Step("page", "log") \o Step("save", "none")

Script == Preflight \o StartRecording \o FullTravel \o StopTest
              \o PositionTests \o LightTest \o ObstructionTest \o Finish

-----------------------------------------------------------------------------
VARIABLES
    ha,       \* a Home Assistant token was given
    part,     \* "main": run_all's try block; "again": finish() after an interrupt
    at,       \* the step of the part that runs
    stage,    \* attempts of a GET, or how far down a command's fallbacks
    exit,     \* "running", "done" (0), "interrupted" (130), "crashed"
    log,      \* the ESP's protocol recording (external): "on" or "off"
    stops,    \* fate of the stop requests since it was started
    door,     \* the last command the door got (external): what and how
    late,     \* commands reported failed that Home Assistant still holds
    rows,     \* the measurements in memory: what they name, where the door was
    disk,     \* how many of them measurements.json holds
    fails     \* requests failed so far (bounded)
vars == <<ha, part, at, stage, exit, log, stops, door, late, rows, disk, fails>>

Commands == {"open", "close", "stop"} \cup ToSet(Targets)
Hows == {"nobody", "hub", "operator", "late"}

Init ==
    /\ ha \in BOOLEAN
    /\ part = "main" /\ at = 1 /\ stage = 0 /\ exit = "running"
    /\ log \in {"on", "off"}            \* a session before may have left it on
    /\ stops = "none"
    /\ door = [at |-> "unknown", how |-> "nobody"]
    /\ late = {} /\ rows = <<>> /\ disk = 0 /\ fails = 0

Lines == IF part = "main" THEN Script ELSE Finish
Line == Lines[at]
Running(op) == exit = "running" /\ Line.op = op

\* The next statement, n steps on; the end of the part is the end of the session.
GoOn(n) ==
    /\ stage' = 0
    /\ IF at + n <= Len(Lines)
       THEN at' = at + n /\ UNCHANGED exit
       ELSE /\ UNCHANGED at
            /\ exit' = IF part = "main" THEN "done" ELSE "interrupted"
    /\ UNCHANGED <<ha, part>>

Deeper == stage' = stage + 1 /\ UNCHANGED <<ha, part, at, exit>>
Outside == <<log, stops, door, late>>

\* save_run: everything in memory is written.
\* Mutants of Save: an event is only kept in memory; the count of the rows is ahead.
MutSave == UNCHANGED disk
MutSaveAhead == disk' = Len(rows') + stage
Save == disk' = Len(rows')
\* write_text truncates the file before it writes: a write that is cut short by an
\* interrupt or a full disk leaves none of the rows that were there.  It may also
\* be the table written after the rows that is cut short.
CutShort == disk' \in {disk, 0, Len(rows')}
Failing == fails < MaxFails /\ fails' = fails + 1

-----------------------------------------------------------------------------
\* Prompts.

Enter ==
    /\ Running("ask")
    /\ GoOn(1)
    /\ UNCHANGED <<Outside, rows, disk, fails>>

Choose ==
    /\ Running("choose")
    /\ \E n \in {1, 1 + Line.skip} : GoOn(n)
    /\ UNCHANGED <<Outside, rows, disk, fails>>

\* "q" at a prompt, or Ctrl-C anywhere: run_all catches KeyboardInterrupt and
\* runs finish() from its beginning; one that comes while it does so is not caught.
\* Mutant of Caught: an interrupt returns at once.
MutCaught == exit' = "interrupted" /\ UNCHANGED <<part, at>>
Caught == part' = "again" /\ at' = 1 /\ UNCHANGED exit
Interrupt ==
    /\ exit = "running"
    /\ IF part = "main" THEN Caught
       ELSE exit' = "crashed" /\ UNCHANGED <<part, at>>
    /\ stage' = 0
    /\ UNCHANGED <<ha, Outside, rows, fails>>
    /\ CutShort

-----------------------------------------------------------------------------
\* Requests to the ESP.  What a start or a stop does there: uapbridge_esp.cpp.

Served(what) ==
    /\ log' = CASE what = "start" -> "on" [] what = "stop" -> "off" [] OTHER -> log
    /\ stops' = CASE what = "start" -> "none" [] what = "stop" -> "done" [] OTHER -> stops
    /\ UNCHANGED <<door, late>>
Unserved(what) ==
    /\ stops' = IF what = "stop" /\ stops # "done" THEN "lost" ELSE stops
    /\ UNCHANGED <<log, door, late>>

\* Any other exception (a reply cut short, the end of the input, a full disk) is
\* caught only around the second finish(), which then saves and gives up.
Raised ==
    /\ exit = "running" /\ UNCHANGED rows
    /\ \/ part = "again" /\ exit' = "interrupted" /\ Save
       \/ exit' = "crashed" /\ CutShort
    /\ IF Line.op = "esp" THEN (Served(Line.arg) \/ Unserved(Line.arg))
       ELSE UNCHANGED Outside
    /\ UNCHANGED <<ha, part, at, stage, fails>>

GiveUp == stage + 1 = Attempts

\* get(): up to Attempts requests, until one is answered and not with "busy"; the
\* result, whatever it is, is written down and the session goes on.
Get ==
    /\ Running("esp")
    /\ \/ Served(Line.arg) /\ GoOn(1) /\ UNCHANGED <<rows, fails>> /\ Save
       \/ /\ Failing
          /\ (Served(Line.arg) \/ Unserved(Line.arg))
          /\ UNCHANGED rows
          /\ IF GiveUp THEN GoOn(1) /\ Save ELSE Deeper /\ UNCHANGED disk

\* save_endpoint() and the formatting of the log: one request.
GetOnce ==
    /\ Running("page")
    /\ \/ Served(Line.arg) /\ UNCHANGED fails
       \/ Unserved(Line.arg) /\ Failing
    /\ GoOn(1) /\ UNCHANGED rows /\ Save

-----------------------------------------------------------------------------
\* Commands to the door and the light.

Obeyed(c, how) == door' = [at |-> c, how |-> how] /\ UNCHANGED <<log, stops>>
Unmoved == UNCHANGED <<log, stops, door>>

\* Without a token, or when the services failed: the operator is asked to do it.
\* Mutant of ByHand: the manual fallback is skipped when the services failed.
MutByHand(c) ==
    /\ IF stage > 0 THEN Unmoved ELSE Obeyed(c, "operator")
    /\ GoOn(1) /\ UNCHANGED <<late, rows, fails>> /\ Save
ByHand(c) == Obeyed(c, "operator") /\ GoOn(1) /\ UNCHANGED <<late, rows, fails>> /\ Save

\* A service call is executed and answered, or reported failed: then it was
\* executed nevertheless, never will be, or will be later.
Called(c) ==
    \/ Obeyed(c, "hub") /\ UNCHANGED late /\ GoOn(1) /\ UNCHANGED fails
    \/ /\ Failing /\ Deeper
       /\ \/ Obeyed(c, "hub") /\ UNCHANGED late
          \/ Unmoved /\ UNCHANGED late
          \/ Unmoved /\ late' = late \cup {c}

\* How many services are tried before the operator: the number entity comes
\* after the cover service for a position, nothing for open, close and stop.
Services(op) == IF ha THEN (IF op = "goto" THEN 2 ELSE 1) ELSE 0

Command ==
    /\ exit = "running" /\ Line.op \in {"door", "goto"}
    /\ IF stage < Services(Line.op)
       THEN Called(Line.arg) /\ UNCHANGED rows /\ Save
       ELSE ByHand(Line.arg)

\* toggle_light: a failed toggle is neither repeated nor handed to the operator.
Light ==
    /\ Running("light")
    /\ (UNCHANGED fails \/ (ha /\ Failing))
    /\ GoOn(1) /\ UNCHANGED <<Outside, rows>> /\ Save

\* Home Assistant executes a command it had reported failed.
Late ==
    /\ exit = "running"
    /\ \E c \in late :
        /\ door' = [at |-> c, how |-> "late"]
        /\ late' = late \ {c}
    /\ UNCHANGED <<ha, part, at, stage, exit, log, stops, rows, disk, fails>>

-----------------------------------------------------------------------------
\* measure_height: the row names the step's target; it is kept in memory, then
\* written with everything else.
Measure ==
    /\ Running("measure")
    /\ rows' = Append(rows, [of |-> Line.arg, door |-> door.at, how |-> door.how])
    /\ Save
    /\ GoOn(1) /\ UNCHANGED <<Outside, fails>>

\* The disk is full: the exception leaves run_all, and the row may be lost.
MeasureUnsaved ==
    /\ Running("measure")
    /\ rows' = Append(rows, [of |-> Line.arg, door |-> door.at, how |-> door.how])
    /\ exit' = "crashed"
    /\ CutShort
    /\ UNCHANGED <<ha, part, at, stage, Outside, fails>>

SaveEvent ==
    /\ Running("save")
    /\ UNCHANGED rows /\ Save
    /\ GoOn(1) /\ UNCHANGED <<Outside, fails>>

Next ==
    \/ Enter \/ Choose \/ Interrupt \/ Raised
    \/ Get \/ GetOnce
    \/ Command \/ Light \/ Late
    \/ Measure \/ MeasureUnsaved \/ SaveEvent

Spec == Init /\ [][Next]_vars

-----------------------------------------------------------------------------
(* Properties. *)

\* The state stays in its types: the step named is one of the script's, no command
\* has more fallbacks than its function, and no more rows are on the disk than were
\* measured (run_all, get, save_run).
TypeOK ==
    /\ ha \in BOOLEAN
    /\ part \in {"main", "again"} /\ at \in DOMAIN Lines
    /\ stage \in 0..(IF Line.op = "esp" THEN Attempts - 1
                     ELSE IF Line.op \in {"door", "goto"} THEN Services(Line.op) ELSE 0)
    /\ exit \in {"running", "done", "interrupted", "crashed"}
    /\ log \in {"on", "off"} /\ stops \in {"none", "lost", "done"}
    /\ door.at \in Commands \cup {"unknown"} /\ door.how \in Hows
    /\ late \subseteq Commands
    /\ \A i \in DOMAIN rows : rows[i].of \in Commands
    /\ disk \in 0..Len(rows) /\ fails \in 0..MaxFails

\* A measurement is taken where it says: the last command the door got before the
\* row was written is the one the row names, through every fallback of
\* command_cover and command_position, unless Home Assistant executed a command
\* late that it had reported failed (measure_height in the run_ functions).
MeasuresWhatItNames ==
    \A i \in DOMAIN rows : rows[i].door = rows[i].of \/ rows[i].how = "late"

\* A session that ends, finished or interrupted, leaves the ESP recording only when
\* every request to stop it was lost: whatever was skipped, quit or failed before
\* (run_all, finish, stop_and_download_recording).
RecordingEnds ==
    exit \in {"done", "interrupted"} /\ log = "on" => stops = "lost"

\* A session that ends, finished or interrupted, has all its measurements on the
\* disk, also when an interrupt cut a write short before; one that crashes may
\* have lost them all (add_event, save_run, run_all).
MeasurementsAreKept == exit \in {"done", "interrupted"} => disk = Len(rows)

=============================================================================
