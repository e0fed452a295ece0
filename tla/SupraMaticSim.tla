---------------------------- MODULE SupraMaticSim ----------------------------
(***************************************************************************)
(* The closed loop simulator of tools/supramatic_sim/simulator.py: it plays *)
(* the drive's side of the HCP2 bus - bus scan, then one broadcast and one  *)
(* status poll per cycle - against an accessory, lets the buttons it sees   *)
(* in the replies command the door of DoorModel, injects frame faults and   *)
(* judges the run.  The loop is one thread; the accessory is external: it   *)
(* takes a press request when it is idle, shows the press and then the      *)
(* release of the button in its replies, and a reply may be lost or come    *)
(* after the read for it has timed out.                                     *)
(***************************************************************************)
EXTENDS DoorModel, FiniteSets

CONSTANTS Cycles,           \* --cycles
          SecondAction,     \* the cycle of a scenario's second button (12)
          GotoPosition,     \* --goto-position-raw
          Threshold,        \* missed_poll_threshold (5)
          BadFrames,        \* how many of the frame faults are selected (0..5)
          Duplicate,        \* TRUE when the duplicate fault is selected
          FaultCycles,      \* --fault-cycle, beside the injection in cycle 1
          ExpectedButtons,  \* --expect-button, for each scenario
          Scenarios,        \* the scenarios the runs choose from
          ProfilesUsed,     \* the reversal profiles the runs choose from
          MaxTrouble,       \* bound: replies lost or late in a run
          SendFails         \* TRUE when command_sender may raise or be refused

ASSUME SimConstants ==
    /\ {Cycles, SecondAction, Threshold, MaxTrouble, BadFrames} \subseteq Nat
    /\ Threshold > 0
    /\ GotoPosition \in Positions
    /\ FaultCycles \subseteq Nat
    /\ ExpectedButtons \in [Scenarios -> SUBSET Buttons]
    /\ ProfilesUsed \subseteq Profiles
    /\ {Duplicate, SendFails} \subseteq BOOLEAN

VARIABLES
    scenario, strict, emulate, abortOnMiss, legacyLight,   \* the options of the run
    door,
    pc, cycle, told, checksLeft, dupLeft,
    polls, replies, misses, consecutive, maxConsecutive,
    checks, recoveries, unexpected,
    commandReplies,
    observed,      \* the keys of button_observations
    seen, active,  \* seen_button_presses, active_button_presses
    verdict,
    acc,           \* external: what the accessory shows
    late,          \* external: a reply that missed its read
    pressed, obeyed, trouble   \* history

options == <<scenario, strict, emulate, abortOnMiss, legacyLight>>
counts == <<polls, replies, misses, consecutive, maxConsecutive>>
faultCounts == <<checks, recoveries, unexpected, commandReplies>>
presses == <<observed, seen, active>>
external == <<acc, late, pressed, obeyed, trouble>>
vars == <<options, door, pc, cycle, told, checksLeft, dupLeft, counts,
          faultCounts, presses, verdict, external>>

Idle == [button |-> "none", phase |-> "idle"]
NoFrame == [counter |-> 0, shows |-> Idle]

\* status_counter_for_cycle, the default profile
CounterOf(c) == (c % 127) + 1

\* build_scenario_actions
FirstButton(s) ==
    CASE s \in {"open-from-closed", "stop-mid-opening", "reverse-open-to-close",
                "goto-position"} -> "open"
      [] s \in {"close-from-open", "reverse-close-to-open", "closing-obstruction"} -> "close"
      [] s = "half-position" -> "half"
      [] s = "vent-position" -> "vent"
      [] s = "light-toggle" -> "light"
      [] OTHER -> "none"
SecondButton(s) ==
    CASE s = "stop-mid-opening" -> "stop"
      [] s = "reverse-open-to-close" -> "close"
      [] s = "reverse-close-to-open" -> "open"
      [] OTHER -> "none"
ActionAt(s, c) == IF c = 2 THEN FirstButton(s)
                  ELSE IF c = SecondAction THEN SecondButton(s) ELSE "none"
FirstDoor(s, prof) ==
    IF s \in {"close-from-open", "reverse-close-to-open", "closing-obstruction"}
    THEN OpenDoor(prof) ELSE ClosedDoor(prof)

\* should_inject_faults
Injects(c) == c = 1 \/ c \in FaultCycles

\* apply_scenario_verdict
Tolerance == Larger(2, OvershootTicks + 1)
Distance(a, b) == IF a > b THEN a - b ELSE b - a
ScenarioFailed ==
    \/ scenario = "open-from-closed" /\ door.state # "open"
    \/ scenario = "close-from-open" /\ door.state # "closed"
    \/ scenario = "stop-mid-opening" /\ door.state # "stopped"
    \/ scenario = "half-position" /\ door.state # "half"
    \/ scenario = "vent-position" /\ door.state # "vent"
    \/ scenario = "closing-obstruction" /\ door.incomplete < 1
    \/ scenario = "light-toggle" /\ door.light = "on"
    \/ scenario = "goto-position"
       /\ \/ Distance(door.position, GotoPosition) > Tolerance
          \/ door.state # "stopped"

Init ==
    /\ scenario \in Scenarios
    /\ strict \in BOOLEAN
    /\ emulate \in BOOLEAN
    /\ abortOnMiss \in BOOLEAN
    /\ legacyLight \in (IF scenario = "steady" THEN BOOLEAN ELSE {FALSE})
    /\ \E prof \in ProfilesUsed : door = FirstDoor(scenario, prof)
    /\ pc = "scan" /\ cycle = 0 /\ told = door.position
    /\ checksLeft = 0 /\ dupLeft = FALSE
    /\ polls = 0 /\ replies = 0 /\ misses = 0 /\ consecutive = 0 /\ maxConsecutive = 0
    /\ checks = 0 /\ recoveries = 0 /\ unexpected = 0 /\ commandReplies = 0
    /\ observed = {} /\ seen = {} /\ active = {}
    /\ verdict = "ok"
    /\ acc = Idle /\ late = NoFrame
    /\ pressed = 0 /\ obeyed = 0 /\ trouble = 0

----------------------------------------------------------------------------
\* run_bus_scan: the scan answer carries no counter, and no answer ends the run.
BusScan ==
    /\ pc = "scan"
    /\ \/ pc' = "top" /\ UNCHANGED verdict
       \/ pc' = "done" /\ verdict' = "scan-failed"
    /\ UNCHANGED <<options, door, cycle, told, checksLeft, dupLeft, counts,
                   faultCounts, presses, external>>

\* The head of run_cycle: the broadcast, then the faults of this cycle.
StartCycle ==
    /\ pc = "top"
    /\ verdict = "ok" /\ cycle < Cycles /\ consecutive < Threshold
    /\ told' = door.position
    /\ checksLeft' = IF Injects(cycle) THEN BadFrames ELSE 0
    /\ dupLeft' = (Injects(cycle) /\ Duplicate)
    /\ pc' = "faults"
    /\ UNCHANGED <<options, door, cycle, counts, faultCounts, presses, verdict, external>>

\* expect_no_response: whatever is read in the window counts against the
\* frame just sent, a reply that is overdue from an earlier poll included.
ExpectNoResponse ==
    /\ pc = "faults" /\ checksLeft > 0
    /\ checksLeft' = checksLeft - 1
    /\ checks' = checks + 1
    /\ \/ recoveries' = recoveries + 1 /\ UNCHANGED <<unexpected, late>>
       \/ late # NoFrame /\ late' = NoFrame
          /\ unexpected' = unexpected + 1 /\ UNCHANGED recoveries
    /\ UNCHANGED <<options, door, pc, cycle, told, dupLeft, counts, commandReplies, presses,
                   verdict, acc, pressed, obeyed, trouble>>

FaultsDone ==
    /\ pc = "faults" /\ checksLeft = 0 /\ ~dupLeft
    /\ pc' = "actions"
    /\ UNCHANGED <<options, door, cycle, told, checksLeft, dupLeft, counts, faultCounts,
                   presses, verdict, external>>

----------------------------------------------------------------------------
\* issue_button, and apply_emulated_button when the commands are emulated.
\* A busy accessory is asked again for 0.3 s; it is free then or it is not.
Accepted(b) ==
    IF emulate
    THEN /\ door' = Command(door, b)
         /\ seen' = seen \cup {b}
         /\ UNCHANGED <<acc, pressed>>
    ELSE /\ acc' = [button |-> b, phase |-> "press"]
         /\ pressed' = pressed + 1
         /\ UNCHANGED <<door, seen>>
IssueButton(b) ==
    /\ UNCHANGED <<observed, active, late, obeyed, trouble>>
    /\ \/ Accepted(b) /\ UNCHANGED verdict
       \/ /\ \/ SendFails
             \/ ~emulate /\ acc # Idle
          /\ verdict' = "command-send-failed"
          /\ UNCHANGED <<door, seen, acc, pressed>>

\* A failed button ends the cycle without a poll or a tick, and with it the run.
AfterButton(next) == pc' = IF verdict' = "ok" THEN next ELSE "top"

ScenarioAction ==
    /\ pc = "actions"
    /\ LET b == ActionAt(scenario, cycle)
       IN  IF b = "none"
           THEN pc' = "goto" /\ UNCHANGED <<door, presses, verdict, external>>
           ELSE IssueButton(b) /\ AfterButton("goto")
    /\ cycle' = IF pc' = "top" THEN cycle + 1 ELSE cycle
    /\ UNCHANGED <<options, told, checksLeft, dupLeft, counts, faultCounts>>

\* The stop of a goto is sent a step early, and again each cycle until the
\* press is seen in a reply.
StopLead == Larger(TravelStep, OvershootTicks)
GotoStop ==
    /\ pc = "goto"
    /\ IF /\ scenario = "goto-position" /\ cycle > 2 /\ "stop" \notin seen
          /\ told + StopLead >= GotoPosition
       THEN IssueButton("stop") /\ AfterButton("light")
       ELSE pc' = "light" /\ UNCHANGED <<door, presses, verdict, external>>
    /\ cycle' = IF pc' = "top" THEN cycle + 1 ELSE cycle
    /\ UNCHANGED <<options, told, checksLeft, dupLeft, counts, faultCounts>>

\* run_light_command: one frame of its own in cycle 2; a reply that is overdue
\* is read and passed over, and a missing answer is only noted.
LightCommand ==
    /\ pc = "light"
    /\ IF legacyLight /\ cycle = 2
       THEN /\ commandReplies' \in {commandReplies, commandReplies + 1}
            /\ late' = NoFrame
       ELSE UNCHANGED <<commandReplies, late>>
    /\ pc' = "poll"
    /\ UNCHANGED <<options, door, cycle, told, checksLeft, dupLeft, counts, checks,
                   recoveries, unexpected, presses, verdict, acc, pressed, obeyed, trouble>>

----------------------------------------------------------------------------
\* External: the accessory shows what it has, and moves on or keeps showing it.
NextShown(a) == IF a.phase = "press" THEN [a EXCEPT !.phase = "release"] ELSE Idle
Serve == acc' \in {acc, NextShown(acc)}

\* mutants: a press shown in two replies commands twice; the longest run of misses
\* is not kept.
MutPressEdge(r) == r.phase = "press"
MutMissed ==
    /\ misses' = misses + 1
    /\ consecutive' = consecutive + 1
    /\ verdict' = IF abortOnMiss /\ verdict = "ok" THEN "missed-poll" ELSE verdict
    /\ UNCHANGED <<maxConsecutive, replies, observed, active, seen, door, obeyed>>

\* What send_status_poll does with a reply that shows r.
PressEdge(r) == r.phase = "press" /\ r.button \notin active
Observe(r) ==
    /\ observed' = IF r = Idle THEN observed ELSE observed \cup {r.button}
    /\ active' = IF r = Idle THEN {}
                 ELSE IF r.phase = "press" THEN active \cup {r.button}
                                           ELSE active \ {r.button}
    /\ seen' = IF PressEdge(r) THEN seen \cup {r.button} ELSE seen
    /\ door' = IF PressEdge(r) THEN Command(door, r.button) ELSE door
    /\ obeyed' = IF PressEdge(r) THEN obeyed + 1 ELSE obeyed
    /\ replies' = replies + 1
    /\ consecutive' = 0
    /\ UNCHANGED <<misses, maxConsecutive, verdict>>
Missed ==
    /\ misses' = misses + 1
    /\ consecutive' = consecutive + 1
    /\ maxConsecutive' = Larger(maxConsecutive, consecutive + 1)
    /\ verdict' = IF abortOnMiss /\ verdict = "ok" THEN "missed-poll" ELSE verdict
    /\ UNCHANGED <<replies, observed, active, seen, door, obeyed>>

\* The match of a status poll: a status reply with its counter.
Answers(frame, c) == frame # NoFrame /\ frame.counter = c

\* read_response for counter c: frames come in the order they were sent, one
\* with another counter is passed over, one with this counter is the reply.
StatusPoll(c) ==
    /\ polls' = polls + 1
    /\ pressed' = pressed
    /\ \E fate \in {"intime", "lost", "late"} :
         /\ fate # "intime" => trouble < MaxTrouble
         /\ trouble' = IF fate = "intime" THEN trouble ELSE trouble + 1
         /\ Serve
         /\ LET own == [counter |-> c, shows |-> acc]
                stale == Answers(late, c)
            IN  \/ fate = "intime" /\ ~stale /\ Observe(acc) /\ late' = NoFrame
                \/ stale /\ Observe(late.shows)
                   /\ late' = IF fate = "lost" THEN NoFrame ELSE own
                \/ fate # "intime" /\ ~stale /\ Missed
                   /\ late' = IF fate = "late" THEN own ELSE NoFrame

DuplicatePoll ==
    /\ pc = "faults" /\ checksLeft = 0 /\ dupLeft
    /\ dupLeft' = FALSE
    /\ StatusPoll(CounterOf(cycle))
    /\ UNCHANGED <<options, pc, cycle, told, checksLeft, faultCounts>>

\* The poll of the cycle; a verdict ends the cycle before its tick.
CyclePoll ==
    /\ pc = "poll"
    /\ StatusPoll(CounterOf(cycle))
    /\ pc' = IF verdict' = "ok" THEN "tick" ELSE "top"
    /\ cycle' = IF verdict' = "ok" THEN cycle ELSE cycle + 1
    /\ UNCHANGED <<options, told, checksLeft, dupLeft, faultCounts>>

TickDoor ==
    /\ pc = "tick"
    /\ door' = Tick(door)
    /\ cycle' = cycle + 1
    /\ pc' = "top"
    /\ UNCHANGED <<options, told, checksLeft, dupLeft, counts, faultCounts, presses,
                   verdict, external>>

\* mutants: a judgement that keeps no verdict of the loop's; a loop that forgets to
\* stop at the threshold.
MutJudged(v) ==
    IF v = "ok" /\ ~(ExpectedButtons[scenario] \subseteq observed) THEN "button-missing"
    ELSE IF unexpected > 0 THEN "fault-failed"
    ELSE IF consecutive >= Threshold THEN "error-04"
    ELSE IF v = "ok" /\ strict /\ ScenarioFailed THEN "door-scenario-failed"
    ELSE "ok"
MutFinish ==
    /\ pc = "top"
    /\ verdict # "ok" \/ cycle >= Cycles
    /\ pc' = "done"
    /\ UNCHANGED <<options, door, cycle, told, checksLeft, dupLeft, counts, faultCounts,
                   presses, verdict, external>>

\* The end of run: the loop's last verdict, then the first of the checks that applies.
LoopVerdict == IF verdict = "ok" /\ cycle < Cycles THEN "error-04" ELSE verdict
Judged(v) ==
    IF v = "ok" /\ ~(ExpectedButtons[scenario] \subseteq observed) THEN "button-missing"
    ELSE IF unexpected > 0 THEN "fault-failed"
    ELSE IF consecutive >= Threshold THEN "error-04"
    ELSE IF v = "ok" /\ strict /\ ScenarioFailed THEN "door-scenario-failed"
    ELSE v
Finish ==
    /\ pc = "top"
    /\ verdict # "ok" \/ cycle >= Cycles \/ consecutive >= Threshold
    /\ verdict' = Judged(LoopVerdict)
    /\ pc' = "done"
    /\ UNCHANGED <<options, door, cycle, told, checksLeft, dupLeft, counts, faultCounts,
                   presses, external>>

Next == \/ BusScan \/ StartCycle \/ ExpectNoResponse \/ FaultsDone
        \/ ScenarioAction \/ GotoStop \/ LightCommand \/ DuplicatePoll \/ CyclePoll
        \/ TickDoor \/ Finish

Spec == Init /\ [][Next]_vars
\* The simulator is one thread that no step of which blocks for good: every
\* read has a deadline.
FairSpec == Spec /\ WF_vars(Next)

----------------------------------------------------------------------------
Frames == [counter : Nat, shows : [button : Buttons \cup {"none"},
                                   phase : {"idle", "press", "release"}]]
Verdicts == {"ok", "scan-failed", "missed-poll", "command-send-failed", "error-04",
             "button-missing", "fault-failed", "door-scenario-failed"}
\* Every variable keeps to its set (SimulationReport, the fields of the simulator).
TypeOK ==
    /\ door \in Door
    /\ pc \in {"scan", "top", "faults", "actions", "goto", "light", "poll", "tick", "done"}
    /\ {cycle, polls, replies, misses, consecutive, maxConsecutive, checks, recoveries,
        unexpected, commandReplies, pressed, obeyed, trouble, checksLeft} \subseteq Nat
    /\ told \in Positions /\ dupLeft \in BOOLEAN
    /\ observed \subseteq Buttons /\ seen \subseteq Buttons /\ active \subseteq Buttons
    /\ verdict \in Verdicts
    /\ late \in Frames

\* The door under the bus: whatever presses, emulated or decoded, obstructions
\* and dwells come in whatever order, a resting door is where its state says, a
\* travelling one aims at what its state names, and a reversal is armed or
\* dropped as a whole (DoorModel).
DoorInv == DoorOK(door)

\* The position the goto decision is taken on is the position the door still has
\* when the poll of that cycle commands it (run_cycle reads state before
\* faults, button and poll, and ticks after them).
DecidesOnCurrent == pc \in {"faults", "actions", "goto", "light", "poll", "tick"}
                    => told = door.position
\* No poll goes uncounted or counts twice, a duplicate counts as a poll, and the
\* run of misses passes the threshold by the one duplicate at most.
CountsAgree == /\ replies + misses = polls
               /\ recoveries + unexpected = checks
               /\ consecutive <= maxConsecutive /\ maxConsecutive <= misses
               /\ maxConsecutive <= Threshold + (IF Duplicate THEN 1 ELSE 0)
SimInv == DecidesOnCurrent /\ CountsAgree

\* A run is only called ok when it ran to its end, saw every expected button,
\* and nothing it checked failed on the way (run, apply_scenario_verdict).
OkIsEarned ==
    pc = "done" /\ verdict = "ok" =>
        /\ cycle = Cycles
        /\ ExpectedButtons[scenario] \subseteq observed
        /\ unexpected = 0 /\ consecutive < Threshold
        /\ abortOnMiss => misses = 0
        /\ strict => ~ScenarioFailed

\* A press of the accessory commands the door once however many replies show it,
\* and on a bus that loses and delays nothing every press does
\* (send_status_poll, active_button_presses).
PressesObeyed ==
    /\ obeyed <= pressed
    /\ trouble = 0 /\ acc.phase # "press" => obeyed = pressed

\* On a bus without trouble a goto that got its stop through is never judged as
\* missed: the lead of the stop, its latency and the overshoot add up to no more
\* than the tolerance (run_cycle, DoorModel.tick, apply_scenario_verdict).
CleanGotoPasses ==
    pc = "done" /\ scenario = "goto-position" /\ trouble = 0
        => verdict # "door-scenario-failed"

\* With the dwell profile an opening door never closes in the next step: it
\* stands first (_direction_command, tick).
NeverTurnsAtOnce ==
    [][(door.state = "opening" /\ door.profile = "stop_then_reverse")
         => door'.state # "closing"]_vars

\* Every run ends with a verdict, whatever is lost (run).
Ends == <>(pc = "done")
=============================================================================
