--------------------------- MODULE SimulatorsProofs ---------------------------
(***************************************************************************)
(* The two simulated halves for every value of their constants.             *)
(* DoorInv: each method of DoorModel maps a sound door to a sound door, and *)
(* the simulator changes the door through Command and Tick alone.           *)
(* OkIsEarned: a failure on the way is in the verdict or in a count that    *)
(* the judgement reads.  PressesObeyed: the replies reach the simulator in  *)
(* the order in which the accessory showed them.                            *)
(* The emulator: the bytes that have ended are the first of the FIFO, and   *)
(* every service moves all of them, as of the driver they ended under.      *)
(* The latency: a request on a silent bus goes through four phases, each of *)
(* which bounds how long ago it ended.                                      *)
(***************************************************************************)
EXTENDS MCSimulators, TLAPS, FiniteSetTheorems, SequenceTheorems

\* A new target from any door whose fields have their types, pending or not,
\* gives a sound door (_move_to).
LEMMA MoveToSound ==
    ASSUME NEW d \in Door,
           NEW t \in Positions, NEW moving \in Moving, NEW done \in Resting,
           <<moving, done, t>> \in {<<"opening", "open", PositionOpen>>,
                                    <<"closing", "closed", PositionClosed>>,
                                    <<"moving_half", "half", HalfPosition>>,
                                    <<"moving_vent", "vent", VentPosition>>}
    PROVE  /\ DoorOK(MoveTo(d, t, moving, done))
           /\ MoveTo(d, t, moving, done).pendingStop = 0
<1>1. MoveTo(d, t, moving, done) \in Door
  BY DEF MoveTo, Door
<1>2. RestsInPlace(MoveTo(d, t, moving, done)) /\ AimsWhereItGoes(MoveTo(d, t, moving, done))
  BY DEF MoveTo, Door, RestsInPlace, AimsWhereItGoes, Moving, Resting
<1>3. DwellIsWhole(MoveTo(d, t, moving, done)) /\ PendingBounded(MoveTo(d, t, moving, done))
  BY DoorConstants DEF MoveTo, Door, DwellIsWhole, PendingBounded, Larger
<1>4. MoveTo(d, t, moving, done).pendingStop = 0
  BY DEF MoveTo, Door
<1> QED BY <1>1, <1>2, <1>3, <1>4 DEF DoorOK

\* A stop keeps a door sound (_stop).
LEMMA StoppedSound ==
    ASSUME NEW d \in Door, DwellIsWhole(d), PendingBounded(d)
    PROVE  DoorOK(Stopped(d)) /\ Stopped(d).pendingReverse = d.pendingReverse
<1>1. Stopped(d) \in Door
  BY DEF Stopped, Door, Resting
<1>2. RestsInPlace(Stopped(d)) /\ AimsWhereItGoes(Stopped(d))
  BY DEF Stopped, Door, RestsInPlace, AimsWhereItGoes, Moving, Resting
<1>3. DwellIsWhole(Stopped(d)) /\ PendingBounded(Stopped(d))
  BY DEF Stopped, Door, DwellIsWhole, PendingBounded
<1> QED BY <1>1, <1>2, <1>3 DEF DoorOK, Stopped, Door

\* A direction button keeps a door sound, whatever its profile
\* (_direction_command).
LEMMA DirectionSound ==
    ASSUME NEW d \in Door, DoorOK(d), NEW b \in Directions
    PROVE  DoorOK(Direction(d, b))
<1>1. DoorOK(Travel(d, b))
  BY MoveToSound, DoorConstants
     DEF Travel, Directions, Moving, Resting, Positions, PositionClosed
<1>2. CASE ~Opposes(d, b) \/ d.profile = "immediate_reverse"
  BY <1>1, <1>2 DEF Direction
<1>3. CASE /\ Opposes(d, b) /\ d.profile # "immediate_reverse"
           /\ d.profile = "ignore_until_stop"
  BY <1>3 DEF Direction
<1>4. CASE /\ Opposes(d, b) /\ d.profile # "immediate_reverse"
           /\ d.profile # "ignore_until_stop"
  <2> DEFINE r == [Stopped(d) EXCEPT !.pendingReverse = b,
                                     !.reverseWait = Larger(1, ReverseDwell)]
  <2>1. Direction(d, b) = r
    BY <1>4 DEF Direction
  <2>2. d.profile = "stop_then_reverse"
    BY <1>4 DEF Door, Profiles
  <2>3. Larger(1, ReverseDwell) \in Nat /\ Larger(1, ReverseDwell) > 0
    BY DoorConstants DEF Larger
  <2>4. r \in Door
    BY <2>3 DEF Stopped, Door, Resting, Directions
  <2>5. RestsInPlace(r) /\ AimsWhereItGoes(r)
    BY <2>3 DEF Stopped, Door, RestsInPlace, AimsWhereItGoes, Moving, Resting
  <2>6. DwellIsWhole(r) /\ PendingBounded(r)
    BY <2>2, <2>3 DEF Stopped, Door, DwellIsWhole, PendingBounded, Directions, DoorOK
  <2> QED BY <2>1, <2>4, <2>5, <2>6 DEF DoorOK
<1> QED BY <1>2, <1>3, <1>4

\* Every button keeps a door sound (command).
LEMMA CommandSound ==
    ASSUME NEW d, DoorOK(d), NEW b \in Buttons
    PROVE  DoorOK(Command(d, b))
<1> d \in Door
  BY DEF DoorOK
<1>1. CASE b \in Directions
  BY <1>1, DirectionSound DEF Command, Directions
<1>2. CASE b = "stop"
  <2>1. CASE StopLatency = 0
    <3>1. Command(d, b) = [Stopped(d) EXCEPT !.pendingStop = 0]
      BY <1>2, <2>1 DEF Command, Directions
    <3>2. d.pendingStop = 0
      BY <2>1 DEF DoorOK, PendingBounded, Door
    <3>3. [Stopped(d) EXCEPT !.pendingStop = 0] = Stopped(d)
      BY <3>2 DEF Stopped, Door
    <3> QED BY <3>1, <3>3, StoppedSound DEF DoorOK
  <2>2. CASE StopLatency # 0
    <3>1. Command(d, b) = [d EXCEPT !.pendingStop = StopLatency]
      BY <1>2, <2>2 DEF Command, Directions
    <3> QED BY <3>1, DoorConstants
            DEF DoorOK, Door, RestsInPlace, AimsWhereItGoes, DwellIsWhole, PendingBounded
  <2> QED BY <2>1, <2>2
<1>3. CASE b = "half"
  BY <1>3, MoveToSound, DoorConstants
     DEF Command, Directions, Moving, Resting, Positions, PositionClosed
<1>4. CASE b = "vent"
  BY <1>4, MoveToSound, DoorConstants
     DEF Command, Directions, Moving, Resting, Positions, PositionClosed
<1>5. CASE b = "light"
  <2>1. Command(d, b) = [d EXCEPT !.light = IF d.light = "on" THEN "off" ELSE "on"]
    BY <1>5 DEF Command, Directions
  <2> QED BY <2>1
          DEF DoorOK, Door, RestsInPlace, AimsWhereItGoes, DwellIsWhole, PendingBounded
<1> QED BY <1>1, <1>2, <1>3, <1>4, <1>5 DEF Buttons

\* One step of the travel keeps a door sound and leaves what is pending alone
\* (_move_one_step, _arrive).
LEMMA MoveOneStepSound ==
    ASSUME NEW d \in Door, RestsInPlace(d), AimsWhereItGoes(d),
           DwellIsWhole(d), PendingBounded(d), NEW o \in BOOLEAN
    PROVE  /\ DoorOK(MoveOneStep(d, o))
           /\ MoveOneStep(d, o).pendingStop = d.pendingStop
<1> DEFINE m == MoveOneStep(d, o)
<1>1. CASE d.state \notin Moving
  BY <1>1 DEF MoveOneStep, DoorOK
<1>2. CASE d.state \in Moving /\ d.position = d.target
  <2>1. m = [d EXCEPT !.state = ArrivedState(d.target)]
    BY <1>2 DEF MoveOneStep
  <2>2. d.reverseWait = 0
    BY <1>2 DEF DwellIsWhole, Moving, Door
  <2> QED BY <1>2, <2>1, <2>2
          DEF ArrivedState, DoorOK, Door, RestsInPlace, AimsWhereItGoes, DwellIsWhole,
              PendingBounded, Moving, Resting
<1>3. CASE d.state \in Moving /\ d.position # d.target
  <2> DEFINE p == NextPosition(d, o)
             s == IF p = d.target /\ ~o THEN ArrivedState(d.target) ELSE d.state
  <2>1. m = [d EXCEPT !.position = p, !.state = s]
    BY <1>3 DEF MoveOneStep
  <2>2. StepSize(o) \in Nat /\ StepSize(o) > 0
    BY DoorConstants DEF StepSize, Larger
  <2>3. p \in Positions
    BY <2>2, DoorConstants
       DEF NextPosition, Positions, PositionClosed, Smaller, Larger, Door
  <2>4. d.reverseWait = 0
    BY <1>3 DEF DwellIsWhole, Moving, Door
  <2>5. s \in Moving \cup Resting /\ (s \in Resting => p = d.target /\ s = ArrivedState(d.target))
    BY <1>3 DEF ArrivedState, Moving, Resting
  <2>6. s \notin Resting => s = d.state
    BY DEF ArrivedState, Resting
  <2> HIDE DEF p, s
  <2>7. m \in Door
    BY <2>1, <2>3, <2>5 DEF Door
  <2>8. RestsInPlace(m)
    BY <2>1, <2>3, <2>5 DEF Door, RestsInPlace, ArrivedState, Moving, Resting
  <2>9. AimsWhereItGoes(m)
    BY <2>1, <2>3, <2>5, <2>6 DEF Door, AimsWhereItGoes, Moving, Resting
  <2>10. DwellIsWhole(m) /\ PendingBounded(m) /\ m.pendingStop = d.pendingStop
    BY <2>1, <2>4 DEF Door, DwellIsWhole, PendingBounded
  <2> QED BY <2>7, <2>8, <2>9, <2>10 DEF DoorOK
<1> QED BY <1>1, <1>2, <1>3

\* An obstruction keeps a door sound: it only meets a closing door
\* (_maybe_inject_obstruction).
LEMMA ObstructedSound ==
    ASSUME NEW d, DoorOK(d)
    PROVE  DoorOK(Obstructed(d))
<1> DEFINE hit == [d EXCEPT !.incomplete = d.incomplete + 1]
<1>1. hit \in Door /\ DwellIsWhole(hit) /\ PendingBounded(hit)
  BY DEF DoorOK, Door, DwellIsWhole, PendingBounded
<1>2. DoorOK(MoveTo(hit, PositionOpen, "opening", "open"))
  BY <1>1, MoveToSound, DoorConstants DEF Moving, Resting, Positions, PositionClosed
<1>3. DoorOK(Stopped(hit))
  BY <1>1, StoppedSound
<1> QED BY <1>2, <1>3 DEF Obstructed

\* A tick keeps a door sound: coasting to a stop, dwelling before a reversal and
\* travelling (tick).
LEMMA TickSound ==
    ASSUME NEW d, DoorOK(d)
    PROVE  DoorOK(Tick(d))
<1> DEFINE c == [d EXCEPT !.cycle = d.cycle + 1]
           e == Obstructed(c)
<1>1. DoorOK(c)
  BY DEF DoorOK, Door, RestsInPlace, AimsWhereItGoes, DwellIsWhole, PendingBounded
<1>2. DoorOK(e)
  BY <1>1, ObstructedSound
<1>6. Tick(d) = Advance(e)
  BY DEF Tick
<1> HIDE DEF e
<1>3. CASE e.pendingStop > 0
  <2> DEFINE f == [e EXCEPT !.pendingStop = e.pendingStop - 1]
             m == MoveOneStep(f, TRUE)
  <2>1. f \in Door /\ RestsInPlace(f) /\ AimsWhereItGoes(f) /\ DwellIsWhole(f)
          /\ PendingBounded(f)
    BY <1>2, <1>3, DoorConstants
       DEF DoorOK, Door, RestsInPlace, AimsWhereItGoes, DwellIsWhole, PendingBounded
  <2> HIDE DEF f
  <2>2. DoorOK(m)
    BY <2>1, MoveOneStepSound
  <2> HIDE DEF m
  <2>3. DoorOK(Stopped(m))
    BY <2>2, StoppedSound DEF DoorOK
  <2>4. Advance(e) = IF m.pendingStop = 0 THEN Stopped(m) ELSE m
    BY <1>3 DEF Advance, Coast, f, m
  <2> QED BY <2>2, <2>3, <2>4, <1>6
<1>4. CASE ~(e.pendingStop > 0) /\ e.reverseWait > 0
  <2> DEFINE w == [e EXCEPT !.reverseWait = e.reverseWait - 1]
             z == [w EXCEPT !.pendingReverse = "none"]
  <2>1. Advance(e) = IF w.reverseWait = 0 /\ w.pendingReverse # "none"
                     THEN Direction(z, w.pendingReverse) ELSE w
    BY <1>4 DEF Advance, Dwell
  <2>2. e \in Door /\ w \in Door
    BY <1>2, <1>4 DEF DoorOK, Door
  <2>3. w.reverseWait = e.reverseWait - 1 /\ w.pendingReverse = e.pendingReverse
    BY <2>2 DEF Door
  <2>4. e.pendingReverse # "none" /\ e.pendingReverse \in Directions
    BY <1>2, <1>4, <2>2 DEF DoorOK, DwellIsWhole, Door
  <2>5. CASE w.reverseWait = 0
    <3>1. z = [e EXCEPT !.reverseWait = 0, !.pendingReverse = "none"]
      BY <2>2, <2>3, <2>5 DEF Door
    <3> HIDE DEF z
    <3>4. z \in Door
      BY <2>2, <3>1 DEF Door
    <3>5. RestsInPlace(z) /\ AimsWhereItGoes(z)
      BY <1>2, <2>2, <3>1 DEF DoorOK, Door, RestsInPlace, AimsWhereItGoes
    <3>6. Larger(1, ReverseDwell) \in Nat
      BY DoorConstants DEF Larger
    <3>7. DwellIsWhole(z) /\ PendingBounded(z)
      BY <1>2, <2>2, <3>1, <3>6 DEF DoorOK, Door, DwellIsWhole, PendingBounded
    <3>3. DoorOK(z)
      BY <3>4, <3>5, <3>7 DEF DoorOK
    <3>2. DoorOK(Direction(z, w.pendingReverse))
      BY <3>3, <2>3, <2>4, DirectionSound DEF DoorOK
    <3> QED BY <2>1, <2>3, <2>4, <2>5, <3>2, <1>6
  <2>6. CASE w.reverseWait # 0
    <3>2. w.reverseWait > 0 /\ e.reverseWait > 0
      BY <1>4, <2>2, <2>3, <2>6 DEF Door
    <3>3. RestsInPlace(w) /\ AimsWhereItGoes(w)
      BY <1>2, <2>2 DEF DoorOK, Door, RestsInPlace, AimsWhereItGoes
    <3>4. DwellIsWhole(w)
      BY <1>2, <2>2, <3>2 DEF DoorOK, Door, DwellIsWhole
    <3>5. Larger(1, ReverseDwell) \in Nat
      BY DoorConstants DEF Larger
    <3>6. PendingBounded(w)
      BY <1>2, <2>2, <3>5 DEF DoorOK, Door, PendingBounded
    <3>1. DoorOK(w)
      BY <2>2, <3>3, <3>4, <3>6 DEF DoorOK
    <3> QED BY <2>1, <2>6, <3>1, <1>6
  <2> QED BY <2>5, <2>6
<1>5. CASE ~(e.pendingStop > 0) /\ ~(e.reverseWait > 0)
  <2>1. DoorOK(MoveOneStep(e, FALSE))
    BY <1>2, MoveOneStepSound DEF DoorOK
  <2>2. Advance(e) = MoveOneStep(e, FALSE)
    BY <1>5 DEF Advance
  <2> QED BY <2>1, <2>2, <1>6
<1> QED BY <1>3, <1>4, <1>5

\* A door at rest at either end is sound (closed, open).
LEMMA FirstDoorSound ==
    ASSUME NEW s, NEW prof \in Profiles
    PROVE  DoorOK(FirstDoor(s, prof))
<1> USE DoorConstants
    DEF FirstDoor, OpenDoor, ClosedDoor, DoorAt, Positions, PositionClosed
<1>1. FirstDoor(s, prof) \in Door
  BY DEF Door, Moving, Resting, Directions
<1>2. RestsInPlace(FirstDoor(s, prof)) /\ AimsWhereItGoes(FirstDoor(s, prof))
  BY DEF RestsInPlace, AimsWhereItGoes, Resting
<1>3. DwellIsWhole(FirstDoor(s, prof)) /\ PendingBounded(FirstDoor(s, prof))
  BY DEF DwellIsWhole, PendingBounded, Larger
<1> QED BY <1>1, <1>2, <1>3 DEF DoorOK

\* What is strengthened: a button that reaches the door is a button, be it shown
\* by the accessory now or by a reply that is still on its way.
ShownOK(r) == r = Idle \/ r \in [button : Buttons, phase : {"press", "release"}]
DoorIInv == DoorInv /\ ShownOK(acc) /\ ShownOK(late.shows)

LEMMA ActionButton == ASSUME NEW s, NEW c PROVE ActionAt(s, c) \in Buttons \cup {"none"}
BY DEF ActionAt, FirstButton, SecondButton, Buttons, Directions

LEMMA IssueButtonKeeps ==
    ASSUME DoorIInv, NEW b \in Buttons, IssueButton(b)
    PROVE  DoorIInv'
<1>1. CASE Accepted(b) /\ UNCHANGED verdict
  BY <1>1, CommandSound DEF IssueButton, Accepted, DoorIInv, DoorInv, ShownOK, Idle
<1>2. CASE UNCHANGED <<door, seen, acc, pressed>>
  BY <1>2 DEF IssueButton, DoorIInv, DoorInv, ShownOK
<1> QED BY <1>1, <1>2 DEF IssueButton

LEMMA StatusPollKeeps ==
    ASSUME DoorIInv, NEW c, StatusPoll(c)
    PROVE  DoorIInv'
<1>1. ASSUME NEW r, ShownOK(r), Observe(r) PROVE DoorOK(door')
  BY <1>1, CommandSound DEF Observe, PressEdge, DoorIInv, DoorInv, ShownOK, Idle
<1>2. Missed => DoorOK(door')
  BY DEF Missed, DoorIInv, DoorInv
<1>3. ShownOK(acc')
  BY DEF StatusPoll, Serve, NextShown, DoorIInv, ShownOK, Idle
<1>4. DoorOK(door')
  BY <1>1, <1>2 DEF StatusPoll, DoorIInv
<1>5. ShownOK(late'.shows)
  BY DEF StatusPoll, DoorIInv, ShownOK, NoFrame, Idle
<1> QED BY <1>3, <1>4, <1>5 DEF DoorIInv, DoorInv, ShownOK

LEMMA DoorInit == Init => DoorIInv
<1> SUFFICES ASSUME Init PROVE DoorIInv
  OBVIOUS
<1>1. DoorOK(door)
  BY FirstDoorSound, SimConstants DEF Init
<1> QED BY <1>1 DEF Init, DoorIInv, DoorInv, ShownOK, NoFrame

LEMMA DoorStep == DoorIInv /\ [Next]_vars => DoorIInv'
<1> SUFFICES ASSUME DoorIInv, [Next]_vars PROVE DoorIInv'
  OBVIOUS
<1> USE DEF DoorIInv, DoorInv, ShownOK
<1>1. CASE BusScan
  BY <1>1 DEF BusScan, external
<1>2. CASE StartCycle
  BY <1>2 DEF StartCycle, external
<1>3. CASE ExpectNoResponse
  BY <1>3 DEF ExpectNoResponse, NoFrame
<1>4. CASE FaultsDone
  BY <1>4 DEF FaultsDone, external
<1>5. CASE ScenarioAction
  <2>1. CASE ActionAt(scenario, cycle) = "none"
    BY <1>5, <2>1 DEF ScenarioAction, external
  <2>2. CASE ActionAt(scenario, cycle) # "none"
    BY <1>5, <2>2, ActionButton, IssueButtonKeeps DEF ScenarioAction
  <2> QED BY <2>1, <2>2
<1>6. CASE GotoStop
  <2>1. IssueButton("stop") => DoorIInv'
    BY IssueButtonKeeps DEF Buttons
  <2> QED BY <1>6, <2>1 DEF GotoStop, external
<1>7. CASE LightCommand
  BY <1>7 DEF LightCommand, NoFrame
<1>8. CASE DuplicatePoll
  BY <1>8, StatusPollKeeps DEF DuplicatePoll
<1>9. CASE CyclePoll
  BY <1>9, StatusPollKeeps DEF CyclePoll
<1>10. CASE TickDoor
  BY <1>10, TickSound DEF TickDoor, external
<1>11. CASE Finish
  BY <1>11 DEF Finish, external
<1>12. CASE UNCHANGED vars
  BY <1>12 DEF vars, external
<1> QED BY <1>1, <1>2, <1>3, <1>4, <1>5, <1>6, <1>7, <1>8, <1>9, <1>10, <1>11, <1>12
        DEF Next

\* Under every interleaving of presses, replies, losses, emulated commands,
\* obstructions and ticks, for every travel, latency, dwell and position, the
\* door of the simulator stays sound (DoorModel.command and tick).
THEOREM DoorStaysSound == Spec => []DoorInv
<1>1. DoorIInv => DoorInv
  BY DEF DoorIInv
<1> QED BY <1>1, DoorInit, DoorStep, PTL DEF Spec
-----------------------------------------------------------------------------
(* The verdict *)

\* What is strengthened: a cycle is only begun before the last, and a miss that
\* is to end the run has done so.
JudgeInv ==
    /\ cycle \in 0..Cycles
    /\ pc \notin {"scan", "top", "done"} => cycle < Cycles
    /\ misses \in Nat /\ consecutive \in Nat /\ unexpected \in Nat
    /\ abortOnMiss /\ verdict = "ok" => misses = 0
    /\ OkIsEarned

\* A poll counts its miss, and ends the run for it where it is to.
LEMMA PollJudged ==
    ASSUME JudgeInv, NEW c, StatusPoll(c), UNCHANGED options
    PROVE  /\ misses' \in Nat /\ consecutive' \in Nat
           /\ (abortOnMiss /\ verdict = "ok" => misses = 0)'
<1>1. ASSUME NEW r, Observe(r)
      PROVE  /\ misses' \in Nat /\ consecutive' \in Nat
             /\ (abortOnMiss /\ verdict = "ok" => misses = 0)'
  BY <1>1 DEF Observe, JudgeInv, options
<1>2. Missed => /\ misses' \in Nat /\ consecutive' \in Nat
                /\ (abortOnMiss /\ verdict = "ok" => misses = 0)'
  BY DEF Missed, JudgeInv, options
<1>3. Missed \/ \E r \in {acc, late.shows} : Observe(r)
  BY DEF StatusPoll
<1> QED BY <1>1, <1>2, <1>3

\* A button that is issued leaves the counts alone, and no run that failed is ok
\* after it.
LEMMA IssueJudged ==
    ASSUME NEW b, IssueButton(b)
    PROVE  verdict' = "ok" => verdict = "ok"
BY DEF IssueButton, Accepted

\* A verdict ends the cycle before its tick, and only a cycle that ends counts.
LEMMA AfterPoll ==
    ASSUME CyclePoll
    PROVE  (pc' = "tick" /\ cycle' = cycle) \/ (pc' = "top" /\ cycle' = cycle + 1)
BY DEF CyclePoll

LEMMA JudgeStep == JudgeInv /\ [Next]_vars => JudgeInv'
<1> SUFFICES ASSUME JudgeInv, [Next]_vars PROVE JudgeInv'
  OBVIOUS
<1> USE SimConstants DEF JudgeInv, options, counts, faultCounts
<1>1. CASE BusScan
  BY <1>1 DEF BusScan, OkIsEarned
<1>2. CASE StartCycle
  BY <1>2 DEF StartCycle, OkIsEarned
<1>3. CASE ExpectNoResponse
  BY <1>3 DEF ExpectNoResponse, OkIsEarned
<1>4. CASE FaultsDone
  BY <1>4 DEF FaultsDone, OkIsEarned
<1>5. CASE ScenarioAction
  <2>1. verdict' = "ok" => verdict = "ok"
    BY <1>5, IssueJudged DEF ScenarioAction
  <2>2. pc = "actions" /\ pc' \in {"goto", "top"}
        /\ cycle' = (IF pc' = "top" THEN cycle + 1 ELSE cycle)
    BY <1>5 DEF ScenarioAction, AfterButton
  <2> QED BY <1>5, <2>1, <2>2 DEF ScenarioAction, OkIsEarned
<1>6. CASE GotoStop
  <2>1. verdict' = "ok" => verdict = "ok"
    BY <1>6, IssueJudged DEF GotoStop
  <2>2. pc = "goto" /\ pc' \in {"light", "top"}
        /\ cycle' = (IF pc' = "top" THEN cycle + 1 ELSE cycle)
    BY <1>6 DEF GotoStop, AfterButton
  <2> QED BY <1>6, <2>1, <2>2 DEF GotoStop, OkIsEarned
<1>7. CASE LightCommand
  BY <1>7 DEF LightCommand, OkIsEarned
<1>8. CASE DuplicatePoll
  <2>1. StatusPoll(CounterOf(cycle)) /\ UNCHANGED <<options, pc, cycle, unexpected>> /\ pc = "faults"
    BY <1>8 DEF DuplicatePoll
  <2> QED BY <2>1, PollJudged DEF OkIsEarned
<1>9. CASE CyclePoll
  <2>1. StatusPoll(CounterOf(cycle)) /\ UNCHANGED <<options, unexpected>> /\ pc = "poll"
    BY <1>9 DEF CyclePoll
  <2>2. (pc' = "tick" /\ cycle' = cycle) \/ (pc' = "top" /\ cycle' = cycle + 1)
    BY <1>9, AfterPoll
  <2> QED BY <2>1, <2>2, PollJudged DEF OkIsEarned
<1>10. CASE TickDoor
  BY <1>10 DEF TickDoor, OkIsEarned
<1>11. CASE Finish
  <2>1. verdict' = "ok" =>
           /\ verdict = "ok" /\ cycle >= Cycles
           /\ ExpectedButtons[scenario] \subseteq observed
           /\ ~(unexpected > 0) /\ ~(consecutive >= Threshold)
           /\ strict => ~ScenarioFailed
    BY <1>11 DEF Finish, Judged, LoopVerdict
  <2>2. UNCHANGED <<options, door, cycle, counts, faultCounts, presses>>
    BY <1>11 DEF Finish
  <2>3. ScenarioFailed' = ScenarioFailed
    BY <2>2 DEF ScenarioFailed
  <2>4. OkIsEarned'
    BY <2>1, <2>2, <2>3 DEF OkIsEarned, presses
  <2>5. pc' = "done"
    BY <1>11 DEF Finish
  <2> QED BY <2>1, <2>2, <2>4, <2>5
<1>12. CASE UNCHANGED vars
  <2>1. ScenarioFailed' = ScenarioFailed
    BY <1>12 DEF vars, ScenarioFailed
  <2> QED BY <1>12, <2>1 DEF vars, OkIsEarned, presses
<1> QED BY <1>1, <1>2, <1>3, <1>4, <1>5, <1>6, <1>7, <1>8, <1>9, <1>10, <1>11, <1>12
        DEF Next

\* A run that is called ok ran to its end, saw every button it expected and had
\* no failure it was to look at, whatever the accessory did.
THEOREM OkEarned == Spec => []OkIsEarned
<1>1. Init => JudgeInv
  BY SimConstants DEF Init, JudgeInv, OkIsEarned
<1>2. JudgeInv => OkIsEarned
  BY DEF JudgeInv
<1> QED BY <1>1, <1>2, JudgeStep, PTL DEF Spec
-----------------------------------------------------------------------------
(* The presses *)

\* 1 when a reply that shows r commands the door while the buttons in a are held.
Edge(r, a) == IF r.phase = "press" /\ r.button \notin a THEN 1 ELSE 0
\* active_button_presses after a reply that shows r.
HeldAfter(r, a) ==
    IF r = Idle THEN {} ELSE IF r.phase = "press" THEN a \cup {r.button} ELSE a \ {r.button}

\* What is strengthened, for any bus: the commands still to come, from the reply
\* on its way and then from what the accessory shows, are presses it was given.
OwedInv ==
    /\ pressed \in Nat /\ obeyed \in Nat /\ trouble \in Nat
    /\ obeyed + Edge(acc, active) <= pressed
    /\ late # NoFrame =>
         obeyed + Edge(late.shows, active) + Edge(acc, HeldAfter(late.shows, active)) <= pressed

\* And for a bus without trouble: every press is obeyed or about to be, none is
\* about to be where a button is issued, and no button is issued twice.
Issued(c) == cycle > c \/ (cycle = c /\ pc \in {"goto", "light", "poll", "tick"})
Asked(b) == \/ b = FirstButton(scenario) /\ Issued(2)
            \/ b = SecondButton(scenario) /\ SecondAction # 2 /\ Issued(SecondAction)
            \/ b = "stop" /\ scenario = "goto-position"
CleanBus ==
    /\ late = NoFrame
    /\ obeyed + Edge(acc, active) = pressed
    /\ pc \notin {"goto", "light", "poll"} => Edge(acc, active) = 0
    /\ pc = "goto" /\ scenario = "goto-position" /\ cycle > 2 => Edge(acc, active) = 0
    /\ \A b \in (active \cup {acc.button}) \ {"none"} : Asked(b)
    /\ active \subseteq seen
    /\ verdict = "ok" \/ pc \in {"top", "done"}
PressInv == OwedInv /\ (trouble = 0 => CleanBus)

LEMMA EdgeIsOne == ASSUME NEW r, NEW a PROVE Edge(r, a) \in {0, 1}
BY DEF Edge

\* A reply counts its edge and holds its button; it says no more a second time,
\* and moving on adds nothing (send_status_poll).
LEMMA ObservedEdge ==
    ASSUME NEW r, ShownOK(r), Observe(r), obeyed \in Nat
    PROVE  obeyed' = obeyed + Edge(r, active) /\ active' = HeldAfter(r, active)
BY DEF ShownOK, Observe, PressEdge, Edge, HeldAfter, Idle

LEMMA ServedEdge ==
    ASSUME NEW r, ShownOK(r), NEW a, NEW s \in {r, NextShown(r)}
    PROVE  Edge(s, HeldAfter(r, a)) = 0 /\ (Edge(s, a) = 0 \/ s = r)
<1>1. CASE r.phase = "press"
  <2>1. r # Idle
    BY <1>1 DEF Idle
  <2>2. NextShown(r).phase = "release"
    BY <1>1, <2>1 DEF NextShown, ShownOK
  <2> QED BY <1>1, <2>1, <2>2 DEF Edge, HeldAfter
<1>2. CASE r.phase # "press"
  <2>1. NextShown(r).phase = "idle"
    BY <1>2 DEF NextShown, Idle
  <2> QED BY <1>2, <2>1 DEF Edge
<1> QED BY <1>1, <1>2

\* A poll keeps what is owed, in time, late or lost.
LEMMA PollOwed ==
    ASSUME DoorIInv, OwedInv, NEW c, StatusPoll(c)
    PROVE  OwedInv'
<1> DEFINE own == [counter |-> c, shows |-> acc]
<1>1. ShownOK(acc) /\ ShownOK(late.shows)
  BY DEF DoorIInv
<1>2. pressed' = pressed /\ pressed \in Nat /\ obeyed \in Nat /\ trouble' \in Nat
  BY DEF StatusPoll, OwedInv
<1>3. acc' \in {acc, NextShown(acc)}
  BY DEF StatusPoll, Serve
<1>4. \A a : Edge(acc', HeldAfter(acc, a)) = 0 /\ (Edge(acc', a) = 0 \/ acc' = acc)
  BY <1>1, <1>3, ServedEdge
<1>5. \A r, a : Edge(r, a) \in {0, 1}
  BY EdgeIsOne
<1>6. own.shows = acc /\ NoFrame.shows = Idle
  BY DEF NoFrame
<1>7. CASE Observe(acc) /\ late' = NoFrame
  <2>1. obeyed' = obeyed + Edge(acc, active) /\ active' = HeldAfter(acc, active)
    BY <1>1, <1>2, <1>7, ObservedEdge
  <2>2. Edge(acc', active') = 0
    BY <1>4, <2>1
  <2>3. obeyed' \in Nat
    BY <1>2, <1>5, <2>1
  <2>4. obeyed' + Edge(acc', active') <= pressed
    BY <1>2, <1>5, <2>1, <2>2 DEF OwedInv
  <2>5. late' = NoFrame
    BY <1>7
  <2> QED BY <1>2, <2>3, <2>4, <2>5 DEF OwedInv
<1>8. CASE /\ late # NoFrame /\ Observe(late.shows) /\ late' \in {NoFrame, own}
  <2>1. obeyed' = obeyed + Edge(late.shows, active) /\ active' = HeldAfter(late.shows, active)
    BY <1>1, <1>2, <1>8, ObservedEdge
  <2>2. obeyed' \in Nat /\ obeyed' + Edge(acc, active') <= pressed
    BY <1>2, <1>5, <1>8, <2>1 DEF OwedInv
  <2>3. obeyed' + Edge(acc', active') <= pressed
    BY <1>2, <1>4, <1>5, <2>2
  <2>4. late' # NoFrame => late'.shows = acc
    BY <1>6, <1>8
  <2>5. Edge(acc', HeldAfter(acc, active')) = 0
    BY <1>4
  <2>6. late' # NoFrame =>
          obeyed' + Edge(late'.shows, active') + Edge(acc', HeldAfter(late'.shows, active'))
            <= pressed
    BY <1>2, <1>5, <2>2, <2>4, <2>5
  <2> QED BY <1>2, <2>2, <2>3, <2>6 DEF OwedInv
<1>9. CASE Missed /\ late' \in {NoFrame, own}
  <2>1. obeyed' = obeyed /\ active' = active
    BY <1>9 DEF Missed
  <2>2. obeyed' + Edge(acc', active') <= pressed
    BY <1>2, <1>4, <1>5, <2>1 DEF OwedInv
  <2>3. late' # NoFrame => late'.shows = acc
    BY <1>6, <1>9
  <2>4. Edge(acc', HeldAfter(acc, active')) = 0
    BY <1>4
  <2>5. late' # NoFrame =>
          obeyed' + Edge(late'.shows, active') + Edge(acc', HeldAfter(late'.shows, active'))
            <= pressed
    BY <1>2, <1>5, <2>1, <2>3, <2>4 DEF OwedInv
  <2> QED BY <1>2, <2>1, <2>2, <2>5 DEF OwedInv
<1> HIDE DEF own
<1>10. \/ Observe(acc) /\ late' = NoFrame
       \/ /\ late # NoFrame /\ Observe(late.shows) /\ late' \in {NoFrame, own}
       \/ Missed /\ late' \in {NoFrame, own}
  BY DEF StatusPoll, Answers, own
<1> QED BY <1>7, <1>8, <1>9, <1>10
\* On a bus without trouble the one reply of a poll obeys what is shown.
LEMMA PollClean ==
    ASSUME DoorIInv, OwedInv, CleanBus, Observe(acc), late' = NoFrame, Serve,
           pc' \in {pc, "tick"}, UNCHANGED <<scenario, pressed, cycle>>, verdict = "ok"
    PROVE  CleanBus'
<1>1. ShownOK(acc) /\ acc' \in {acc, NextShown(acc)}
  BY DEF DoorIInv, Serve
<1>2. obeyed' = obeyed + Edge(acc, active) /\ active' = HeldAfter(acc, active)
  BY <1>1, ObservedEdge DEF OwedInv
<1>3. Edge(acc', active') = 0
  BY <1>1, <1>2, ServedEdge
<1>4. obeyed' + Edge(acc', active') = pressed'
  BY <1>2, <1>3, EdgeIsOne DEF CleanBus, OwedInv
<1>5. acc'.button \in {acc.button, "none"}
  BY <1>1 DEF NextShown, Idle, ShownOK
<1>6. active' \subseteq active \cup {acc.button}
  BY <1>2 DEF HeldAfter
<1>7. \A b : Asked(b) => Asked(b)'
  BY DEF Asked, Issued
<1>8. \A b \in (active' \cup {acc'.button}) \ {"none"} : Asked(b)'
  BY <1>5, <1>6, <1>7 DEF CleanBus
<1>9. active' \subseteq seen'
  BY DEF Observe, PressEdge, CleanBus, Idle
<1>10. verdict' = verdict
  BY DEF Observe
<1> QED BY <1>3, <1>4, <1>8, <1>9, <1>10 DEF CleanBus

\* A button that was never asked for is owed from the moment it is accepted.
LEMMA IssueClean ==
    ASSUME DoorIInv, OwedInv, CleanBus, NEW b \in Buttons, IssueButton(b),
           b \notin active, Edge(acc, active) = 0
    PROVE  /\ OwedInv'
           /\ late' = NoFrame /\ active' = active /\ seen \subseteq seen'
           /\ obeyed' + Edge(acc, active)' = pressed'
           /\ acc'.button \in {acc.button, b}
           /\ verdict' # verdict => Edge(acc, active)' = 0
<1> USE DEF IssueButton, OwedInv, CleanBus
<1>1. CASE Accepted(b) /\ ~emulate
  BY <1>1 DEF Accepted, Edge
<1>2. CASE Accepted(b) /\ emulate
  BY <1>2 DEF Accepted
<1>3. CASE verdict' = "command-send-failed" /\ UNCHANGED <<door, seen, acc, pressed>>
  BY <1>3
<1> QED BY <1>1, <1>2, <1>3

\* What is owed stays so when a button is issued.
LEMMA IssueOwed ==
    ASSUME OwedInv, NEW b, IssueButton(b)
    PROVE  OwedInv'
<1>1. \A r, a : Edge(r, a) \in {0, 1}
  BY EdgeIsOne
<1>2. late' = late /\ active' = active /\ obeyed' = obeyed /\ trouble' = trouble
  BY DEF IssueButton
<1>3. CASE acc' = acc /\ pressed' = pressed
  BY <1>2, <1>3 DEF OwedInv
<1>4. CASE pressed' = pressed + 1
  <2>1. obeyed + Edge(acc', active) <= pressed'
    BY <1>1, <1>4 DEF OwedInv
  <2>2. late # NoFrame =>
          obeyed + Edge(late.shows, active) + Edge(acc', HeldAfter(late.shows, active))
            <= pressed'
    BY <1>1, <1>4 DEF OwedInv
  <2>3. pressed' \in Nat
    BY <1>4 DEF OwedInv
  <2> QED BY <1>2, <2>1, <2>2, <2>3 DEF OwedInv
<1> QED BY <1>3, <1>4 DEF IssueButton, Accepted

\* With no trouble the reply of a poll is in time and the only one.
LEMMA PollInTime ==
    ASSUME PressInv, NEW c, StatusPoll(c), trouble' = 0
    PROVE  /\ CleanBus /\ Observe(acc) /\ late' = NoFrame
           /\ UNCHANGED <<pressed, verdict>>
<1>1. trouble = 0
  BY DEF PressInv, OwedInv, StatusPoll
<1>2. CleanBus
  BY <1>1 DEF PressInv
<1>3. Observe(acc) /\ late' = NoFrame /\ pressed' = pressed
  BY <1>1, <1>2 DEF StatusPoll, CleanBus, Answers
<1> QED BY <1>2, <1>3 DEF Observe

\* Where a button of the scenario is due, no earlier press holds it.
LEMMA NotAskedYet ==
    ASSUME CleanBus, cycle \in Nat, pc = "actions", ActionAt(scenario, cycle) # "none"
    PROVE  ActionAt(scenario, cycle) \notin active
<1> DEFINE b == ActionAt(scenario, cycle)
<1>1. ~Asked(b)
  BY SimConstants DEF ActionAt, Asked, Issued, FirstButton, SecondButton
<1> QED BY <1>1 DEF CleanBus

LEMMA PressStep == PressInv /\ DoorIInv /\ JudgeInv /\ [Next]_vars => PressInv'
<1> SUFFICES ASSUME PressInv, DoorIInv, JudgeInv, [Next]_vars PROVE PressInv'
  OBVIOUS
<1>a. cycle \in Nat /\ SecondAction \in Nat
  BY SimConstants DEF JudgeInv
<1>b. ASSUME UNCHANGED <<scenario, active, acc, pressed, obeyed, trouble, seen>>,
             late' \in {late, NoFrame}, \A b : Asked(b) => Asked(b)',
             CleanBus /\ pc' \notin {"light", "poll"} => Edge(acc, active) = 0,
             CleanBus => verdict' = "ok" \/ pc' \in {"top", "done"}
      PROVE  PressInv'
  <2>1. OwedInv'
    BY <1>b DEF PressInv, OwedInv
  <2>2. CleanBus => CleanBus'
    BY <1>b DEF CleanBus
  <2> QED BY <1>b, <2>1, <2>2 DEF PressInv
<1>c. ASSUME NEW c, StatusPoll(c), UNCHANGED scenario,
             verdict' = "ok" => pc' \in {pc, "tick"} /\ UNCHANGED cycle,
             pc \notin {"top", "done"}
      PROVE  PressInv'
  <2>1. OwedInv'
    BY <1>c, PollOwed DEF PressInv
  <2>2. ASSUME trouble' = 0 PROVE CleanBus'
    <3>1. CleanBus /\ UNCHANGED verdict
      BY <1>c, <2>2, PollInTime
    <3>2. verdict = "ok"
      BY <1>c, <3>1 DEF CleanBus
    <3>3. Observe(acc) /\ late' = NoFrame /\ pressed' = pressed /\ Serve
      BY <1>c, <2>2, PollInTime DEF StatusPoll
    <3> QED BY <1>c, <3>1, <3>2, <3>3, PollClean DEF PressInv
  <2> QED BY <2>1, <2>2 DEF PressInv
<1>d. ASSUME NEW b \in Buttons, NEW next \in {"goto", "light"},
             IssueButton(b), UNCHANGED scenario, pc \in {"actions", "goto"},
             pc' = IF verdict' = "ok" THEN next ELSE "top",
             cycle' = IF pc' = "top" THEN cycle + 1 ELSE cycle,
             CleanBus => /\ Edge(acc, active) = 0 /\ b \notin active
                         /\ Asked(b)'
                         /\ (scenario = "goto-position" /\ next = "goto" => cycle <= 2)
      PROVE  PressInv'
  <2>1. OwedInv'
    BY <1>d, IssueOwed DEF PressInv
  <2>2. ASSUME trouble' = 0 PROVE CleanBus'
    <3>1. CleanBus
      BY <1>d, <2>2 DEF PressInv, IssueButton
    <3>2. /\ late' = NoFrame /\ active' = active /\ active \subseteq seen'
          /\ obeyed' + Edge(acc, active)' = pressed'
          /\ acc'.button \in {acc.button, b}
          /\ verdict' # verdict => Edge(acc, active)' = 0
      BY <1>d, <3>1, IssueClean DEF PressInv, CleanBus
    <3>3. verdict = "ok" /\ (pc' = "top" <=> verdict' # "ok")
      BY <1>d, <3>1 DEF CleanBus
    <3>4. \A x : Asked(x) => Asked(x)'
      BY <1>a, <1>d DEF Asked, Issued
    <3>5. \A x \in (active' \cup {acc'.button}) \ {"none"} : Asked(x)'
      BY <1>d, <3>1, <3>2, <3>4 DEF CleanBus
    <3>6. pc' \notin {"goto", "light", "poll"} => Edge(acc, active)' = 0
      BY <1>d, <3>2, <3>3
    <3>7. pc' = "goto" /\ scenario' = "goto-position" => ~(cycle' > 2)
      BY <1>a, <1>d, <3>1, <3>3
    <3> QED BY <1>d, <3>2, <3>3, <3>5, <3>6, <3>7 DEF CleanBus
  <2> QED BY <2>1, <2>2 DEF PressInv
<1>1. CASE BusScan
  BY <1>1, <1>b DEF BusScan, options, presses, external, CleanBus, Asked, Issued
<1>2. CASE StartCycle
  BY <1>2, <1>b DEF StartCycle, options, presses, external, CleanBus, Asked, Issued
<1>3. CASE ExpectNoResponse
  BY <1>3, <1>b DEF ExpectNoResponse, options, presses, CleanBus, Asked, Issued
<1>4. CASE FaultsDone
  BY <1>4, <1>b DEF FaultsDone, options, presses, external, CleanBus, Asked, Issued
<1>5. CASE ScenarioAction
  <2> PICK b : b = ActionAt(scenario, cycle)
    OBVIOUS
  <2>1. CASE b = "none"
    BY <1>5, <2>1, <1>b DEF ScenarioAction, options, presses, external, CleanBus, Asked, Issued
  <2>2. CASE b # "none"
    <3>1. b \in Buttons
      BY <2>2, ActionButton
    <3>2. CleanBus => Edge(acc, active) = 0 /\ b \notin active
      BY <1>5, <1>a, <2>2, NotAskedYet DEF ScenarioAction, CleanBus
    <3>3. /\ IssueButton(b) /\ UNCHANGED scenario /\ pc = "actions"
          /\ pc' = IF verdict' = "ok" THEN "goto" ELSE "top"
          /\ cycle' = IF pc' = "top" THEN cycle + 1 ELSE cycle
      BY <1>5, <2>2 DEF ScenarioAction, AfterButton, options
    <3>4. Asked(b)'
      BY <1>a, <2>2, <3>3 DEF ActionAt, Asked, Issued
    <3>5. scenario = "goto-position" => cycle <= 2
      BY <1>a, <2>2 DEF ActionAt, SecondButton
    <3> QED BY <1>d, <3>1, <3>2, <3>3, <3>4, <3>5
  <2> QED BY <2>1, <2>2
<1>6. CASE GotoStop
  <2> DEFINE due == /\ scenario = "goto-position" /\ cycle > 2 /\ "stop" \notin seen
                    /\ told + StopLead >= GotoPosition
  <2>1. CASE ~due
    BY <1>6, <2>1, <1>b DEF GotoStop, options, presses, external, CleanBus, Asked, Issued
  <2>2. CASE due
    <3>1. /\ IssueButton("stop") /\ UNCHANGED scenario /\ pc = "goto"
          /\ pc' = IF verdict' = "ok" THEN "light" ELSE "top"
          /\ cycle' = IF pc' = "top" THEN cycle + 1 ELSE cycle
      BY <1>6, <2>2 DEF GotoStop, AfterButton, options
    <3>2. CleanBus => Edge(acc, active) = 0 /\ "stop" \notin active
      BY <2>2, <3>1 DEF CleanBus
    <3>3. Asked("stop")'
      BY <2>2, <3>1 DEF Asked
    <3>4. "stop" \in Buttons
      BY DEF Buttons
    <3> HIDE DEF due
    <3> QED BY <1>d, <3>1, <3>2, <3>3, <3>4
  <2> QED BY <2>1, <2>2
<1>7. CASE LightCommand
  BY <1>7, <1>b DEF LightCommand, options, presses, CleanBus, Asked, Issued
<1>8. CASE DuplicatePoll
  BY <1>8, <1>c DEF DuplicatePoll, options
<1>9. CASE CyclePoll
  BY <1>9, <1>c DEF CyclePoll, options
<1>10. CASE TickDoor
  BY <1>10, <1>a, <1>b DEF TickDoor, options, presses, external, CleanBus, Asked, Issued
<1>11. CASE Finish
  BY <1>11, <1>b DEF Finish, options, presses, external, CleanBus, Asked, Issued
<1>12. CASE UNCHANGED vars
  <2>1. UNCHANGED <<scenario, active, acc, late, pressed, obeyed, trouble, seen, pc, cycle, verdict>>
    BY <1>12 DEF vars, options, presses, external
  <2>2. OwedInv'
    BY <2>1 DEF PressInv, OwedInv
  <2>3. CleanBus => CleanBus'
    BY <2>1 DEF CleanBus, Asked, Issued
  <2> QED BY <2>1, <2>2, <2>3 DEF PressInv
<1> QED BY <1>1, <1>2, <1>3, <1>4, <1>5, <1>6, <1>7, <1>8, <1>9, <1>10, <1>11, <1>12
        DEF Next

\* No press commands the door twice, whatever is lost or late and whenever the
\* next press comes; and on a bus without trouble none is passed over.
THEOREM PressesAreObeyed == Spec => []PressesObeyed
<1>1. Init => PressInv
  BY DEF Init, PressInv, OwedInv, CleanBus, Edge, NoFrame, Idle
<1>2. Init => JudgeInv
  BY SimConstants DEF Init, JudgeInv, OkIsEarned
<1>3. PressInv => PressesObeyed
  BY EdgeIsOne DEF PressInv, OwedInv, CleanBus, PressesObeyed, Edge
<1> QED BY <1>1, <1>2, <1>3, DoorInit, DoorStep, JudgeStep, PressStep, PTL DEF Spec

\* A behaviour of the two halves is one of the simulator: what is proved of it holds
\* of the pair.
THEOREM SimulatorIsWithin == SimulatorsSpec => Spec
<1>1. SimulatorsInit => Init
  BY DEF SimulatorsInit
<1>2. [SimulatorsNext]_allVars => [Next]_vars
  BY DEF SimulatorsNext, Simulator, Emulator, allVars
<1> QED BY <1>1, <1>2, PTL DEF SimulatorsSpec, Spec

-----------------------------------------------------------------------------
(* The emulator. *)

\* The numbers of the emulator.
LEMMA Numbers == {Byte, Sync, Depth, FrameLen, ReplyLen, Cap, Delay, Loop, Deadline, Gap}
                     \subseteq Nat \ {0}
BY HalvesConstants DEF E!EmulatorConstants

\* The count of the emulator's module is the library's.
LEMMA SameCount == ASSUME NEW S PROVE E!Cardinality(S) = Cardinality(S)
BY DEF E!Cardinality, Cardinality

\* A set of positions that holds all before its last is a first segment.
LEMMA Segment ==
    ASSUME NEW L \in Nat, NEW S \in SUBSET (1..L), \A i \in S : 1..i \subseteq S
    PROVE  /\ Cardinality(S) \in 0..L
           /\ S = 1..Cardinality(S)
<1>1. IsFiniteSet(1..L) /\ Cardinality(1..L) = L
  BY FS_Interval
<1>2. IsFiniteSet(S) /\ Cardinality(S) \in Nat /\ Cardinality(S) <= L
  BY <1>1, FS_Subset, FS_CardinalityType, ZenonT(60)
<1>3. PICK n \in Nat : n = Cardinality(S)
  BY <1>2
<1>4. ASSUME NEW i \in S PROVE i <= n
  <2>1. i \in Nat /\ IsFiniteSet(1..i) /\ Cardinality(1..i) = i
    BY FS_Interval
  <2> QED BY <1>2, <1>3, <1>4, <2>1, FS_Subset
<1>5. S \subseteq 1..n
  BY <1>4
<1>6. IsFiniteSet(1..n) /\ Cardinality(1..n) = n
  BY FS_Interval
<1>7. S = 1..n
  BY <1>2, <1>3, <1>5, <1>6, FS_Subset
<1> QED BY <1>2, <1>3, <1>7

\* The bytes that have ended are the first of the FIFO (_drain_tx stops at the first
\* that has not).
LEMMA EndedSegment ==
    ASSUME NEW u, NEW A, u.tx \in Seq(A), u.due \in Int
    PROVE  /\ E!Ended(u) \in 0..Len(u.tx)
           /\ \A i \in 1..Len(u.tx) : i <= E!Ended(u) <=> u.due + (i - 1) * Byte <= 0
<1> DEFINE S == {i \in DOMAIN u.tx : u.due + (i - 1) * Byte <= 0}
<1>1. DOMAIN u.tx = 1..Len(u.tx) /\ Len(u.tx) \in Nat
  OBVIOUS
<1>2. ASSUME NEW i \in S, NEW j \in 1..i PROVE j \in S
  <2>1. Byte \in Nat /\ i \in Nat /\ j \in Nat /\ j <= i
    BY <1>1, Numbers
  <2>2. (j - 1) * Byte <= (i - 1) * Byte
    BY <2>1
  <2> QED BY <1>1, <2>1, <2>2, SMTT(60)
<1>3. Cardinality(S) \in 0..Len(u.tx) /\ S = 1..Cardinality(S)
  BY <1>1, <1>2, Segment
<1>4. E!Ended(u) = Cardinality(S)
  BY SameCount DEF E!Ended
<1> QED BY <1>1, <1>3, <1>4

\* The states of the UART.
Uart == [wire : Seq(Int), rx : Int, tx : Seq(Nat), due : Int, out : Seq(Nat),
         first : BOOLEAN, written : BOOLEAN, mark : Int, de : BOOLEAN, low : Int, lag : Nat]

\* The two parts of a sequence, and the last element of two joined.
LEMMA Cut ==
    ASSUME NEW A, NEW s \in Seq(A), NEW n \in 0..Len(s)
    PROVE  /\ SubSeq(s, n + 1, Len(s)) \in Seq(A)
           /\ Len(SubSeq(s, n + 1, Len(s))) = Len(s) - n
           /\ SubSeq(s, 1, n) \in Seq(A)
           /\ Len(SubSeq(s, 1, n)) = n
           /\ \A i \in 1..(Len(s) - n) : SubSeq(s, n + 1, Len(s))[i] = s[n + i]
OBVIOUS

LEMMA Joined ==
    ASSUME NEW A, NEW s \in Seq(A), NEW t \in Seq(A)
    PROVE  /\ s \o t \in Seq(A) /\ Len(s \o t) = Len(s) + Len(t)
           /\ Len(t) > 0 => (s \o t)[Len(s) + Len(t)] = t[Len(t)]
           /\ Len(t) = 0 /\ Len(s) > 0 => (s \o t)[Len(s)] = s[Len(s)]
OBVIOUS

\* The service of the UART, part by part: what arrives, what leaves, what time does.
LEMMA ArrivedBounded == ASSUME NEW u \in Uart PROVE E!Arrived(u) \in 0..Len(u.wire)
<1> DEFINE S == {i \in DOMAIN u.wire : u.wire[i] <= 0}
<1>1. DOMAIN u.wire = 1..Len(u.wire) /\ Len(u.wire) \in Nat
  BY DEF Uart
<1>2. IsFiniteSet(1..Len(u.wire)) /\ Cardinality(1..Len(u.wire)) = Len(u.wire)
  BY <1>1, FS_Interval
<1>3. S \subseteq 1..Len(u.wire)
  BY <1>1
<1>4. Cardinality(S) \in 0..Len(u.wire)
  BY <1>1, <1>2, <1>3, FS_Subset, FS_CardinalityType
<1>5. E!Arrived(u) = Cardinality(S)
  BY SameCount DEF E!Arrived
<1> QED BY <1>4, <1>5

LEMMA Moved ==
    ASSUME NEW u \in Uart
    PROVE  /\ E!MoveWireToRx(u) \in Uart
           /\ E!MoveWireToRx(u).tx = u.tx /\ E!MoveWireToRx(u).due = u.due
           /\ E!MoveWireToRx(u).out = u.out /\ E!MoveWireToRx(u).de = u.de
           /\ E!MoveWireToRx(u).low = u.low
<1>1. PICK n \in 0..Len(u.wire) : n = E!Arrived(u)
  BY ArrivedBounded
<1>2. PICK w \in Seq(Int) : w = SubSeq(u.wire, n + 1, Len(u.wire))
  BY Cut DEF Uart
<1>3. PICK r \in Int : r = IF u.rx + n <= Depth THEN u.rx + n ELSE Depth
  <2>1. u.rx \in Int /\ Len(u.wire) \in Nat
    BY DEF Uart
  <2>2. n \in Int /\ Depth \in Int
    BY <2>1, Numbers
  <2>3. u.rx + n \in Int
    BY <2>1, <2>2
  <2> QED BY <2>2, <2>3
<1>4. E!MoveWireToRx(u) = [u EXCEPT !.wire = w, !.rx = r]
  BY <1>1, <1>2, <1>3 DEF E!MoveWireToRx
<1> QED BY <1>4 DEF Uart

\* Arithmetic on the times of successive bytes.
LEMMA Times == ASSUME NEW a \in Int, NEW b \in Int PROVE a * b \in Int
OBVIOUS

LEMMA Shifted ==
    \A d, n, i, b \in Int : (d + n * b) + (i - 1) * b = d + (n + i - 1) * b
OBVIOUS

\* After _drain_tx no byte is left that has ended.
LEMMA Drained ==
    ASSUME NEW u \in Uart, NEW n \in 0..Len(u.tx), n = E!Ended(u)
    PROVE  /\ E!DrainTx(u) \in Uart
           /\ E!DrainTx(u) = [u EXCEPT !.out = u.out \o SubSeq(u.tx, 1, n),
                                      !.tx = SubSeq(u.tx, n + 1, Len(u.tx)),
                                      !.due = IF n = Len(u.tx) THEN Byte ELSE u.due + n * Byte,
                                      !.first = u.first \/ n > 0,
                                      !.low = IF u.de THEN u.low ELSE u.low + n]
           /\ E!Ended(E!DrainTx(u)) = 0
<1> DEFINE d == E!DrainTx(u)
<1>1. u.tx \in Seq(Nat) /\ u.due \in Int /\ u.out \in Seq(Nat) /\ u.low \in Int
      /\ u.first \in BOOLEAN /\ u.de \in BOOLEAN
  BY DEF Uart
<1>a. SubSeq(u.tx, 1, n) \in Seq(Nat)
  BY <1>1, Cut
<1>2. PICK o \in Seq(Nat) : o = u.out \o SubSeq(u.tx, 1, n)
  BY <1>1, <1>a, ConcatProperties
<1>3. PICK t \in Seq(Nat) : t = SubSeq(u.tx, n + 1, Len(u.tx))
  BY <1>1, Cut
<1>b. Byte \in Int /\ Byte > 0 /\ Len(u.tx) \in Nat
  BY <1>1, Numbers, SMTT(60)
<1>t. n * Byte \in Int
  BY <1>1, <1>b, Times
<1>4. PICK due \in Int : due = IF n = Len(u.tx) THEN Byte ELSE u.due + n * Byte
  BY <1>1, <1>b, <1>t, SMTT(60)
<1>5. PICK l \in Int : l = IF u.de THEN u.low ELSE u.low + n
  BY <1>1
<1>6. PICK f \in BOOLEAN : f = (u.first \/ n > 0)
  OBVIOUS
<1>7. d = [u EXCEPT !.out = o, !.tx = t, !.due = due, !.first = f, !.low = l]
  BY <1>2, <1>3, <1>4, <1>5, <1>6 DEF E!DrainTx
<1>8. d \in Uart
  BY <1>7, ZenonT(60) DEF Uart
<1>9. d.tx = t /\ d.due = due
  BY <1>7 DEF Uart
<1> HIDE DEF d
<1>10. Len(t) = Len(u.tx) - n
  BY <1>1, <1>3, Cut
<1>11. ASSUME NEW i \in 1..Len(t) PROVE ~(due + (i - 1) * Byte <= 0)
  <2>1. n # Len(u.tx) /\ n + i \in 1..Len(u.tx) /\ ~(n + i <= n) /\ i \in Int /\ n \in Int
    <3>1. PICK m \in Nat : m = Len(u.tx)
      BY <1>b
    <3>2. i \in 1..(m - n) /\ n \in 0..m
      BY <1>10, <1>11, <3>1
    <3> QED BY <3>1, <3>2, SMTT(60)
  <2>3. ~(u.due + (n + i - 1) * Byte <= 0)
    <3>1. \A j \in 1..Len(u.tx) : j <= E!Ended(u) <=> u.due + (j - 1) * Byte <= 0
      BY <1>1, EndedSegment
    <3>2. PICK j \in 1..Len(u.tx) : j = n + i
      BY <2>1
    <3>3. ~(j <= E!Ended(u))
      BY <2>1, <3>2
    <3> QED BY <3>1, <3>2, <3>3, SMTT(60)
  <2>4. (u.due + n * Byte) + (i - 1) * Byte = u.due + (n + i - 1) * Byte
    <3>1. u.due \in Int /\ n \in Int /\ i \in Int /\ Byte \in Int
      BY <1>1, <1>b, <2>1
    <3> QED BY <3>1, Shifted, SMTT(60)
  <2>5. due = u.due + n * Byte
    BY <1>4, <2>1
  <2> QED BY <2>3, <2>4, <2>5
<1>12. E!Ended(d) = 0
  <2>1. /\ E!Ended(d) \in 0..Len(t)
        /\ \A i \in 1..Len(t) : i <= E!Ended(d) <=> due + (i - 1) * Byte <= 0
    BY <1>9, EndedSegment
  <2>2. Len(t) \in Nat
    OBVIOUS
  <2>3. CASE E!Ended(d) # 0
    <3>1. E!Ended(d) \in 1..Len(t) /\ E!Ended(d) <= E!Ended(d)
      BY <2>1, <2>2, <2>3
    <3>2. PICK e \in 1..Len(t) : e = E!Ended(d)
      BY <3>1
    <3>3. due + (e - 1) * Byte <= 0
      BY <2>1, <3>1, <3>2
    <3> QED BY <1>11, <3>2, <3>3
  <2> QED BY <2>3
<1> QED BY <1>2, <1>3, <1>4, <1>5, <1>6, <1>7, <1>8, <1>12 DEF d

\* What has ended depends on the FIFO and the time of its first byte alone.
LEMMA EndedOf ==
    ASSUME NEW u, NEW v, u.tx = v.tx, u.due = v.due
    PROVE  E!Ended(u) = E!Ended(v)
BY DEF E!Ended

LEMMA EndedCount == ASSUME NEW u \in Uart PROVE E!Ended(u) \in 0..Len(u.tx) /\ Len(u.tx) \in Nat
BY EndedSegment, SMTT(60) DEF Uart

\* The service moves the ended bytes to the output and counts those sent with the
\* driver off.
LEMMA Serviced ==
    ASSUME NEW u \in Uart, NEW n \in 0..Len(u.tx), n = E!Ended(u)
    PROVE  /\ E!ServiceSerial(u) \in Uart
           /\ E!ServiceSerial(u).tx = SubSeq(u.tx, n + 1, Len(u.tx))
           /\ E!ServiceSerial(u).out = u.out \o SubSeq(u.tx, 1, n)
           /\ E!ServiceSerial(u).de = u.de
           /\ E!ServiceSerial(u).low = (IF u.de THEN u.low ELSE u.low + n)
           /\ E!Ended(E!ServiceSerial(u)) = 0
<1>1. PICK m \in Uart : m = E!MoveWireToRx(u)
  BY Moved
<1>2. m.tx = u.tx /\ m.due = u.due /\ m.out = u.out /\ m.de = u.de /\ m.low = u.low
  BY <1>1, Moved DEF Uart
<1>3. n = E!Ended(m) /\ n \in 0..Len(m.tx)
  BY <1>2, EndedOf
<1>4. E!ServiceSerial(u) = E!DrainTx(m)
  BY <1>1 DEF E!ServiceSerial
<1>5. /\ E!DrainTx(m) \in Uart
      /\ E!DrainTx(m) = [m EXCEPT !.out = m.out \o SubSeq(m.tx, 1, n),
                                 !.tx = SubSeq(m.tx, n + 1, Len(m.tx)),
                                 !.due = IF n = Len(m.tx) THEN Byte ELSE m.due + n * Byte,
                                 !.first = m.first \/ n > 0,
                                 !.low = IF m.de THEN m.low ELSE m.low + n]
      /\ E!Ended(E!DrainTx(m)) = 0
  BY <1>3, Drained
<1> QED BY <1>2, <1>4, <1>5, ZenonT(60) DEF Uart

LEMMA PastNat ==
    E!Past \in Nat /\ E!Past = Delay + Byte + 3 * Loop + 1 + Sync + Gap
<1>1. /\ Delay \in Nat /\ Byte \in Nat /\ Loop \in Nat /\ Sync \in Nat /\ Gap \in Nat
  BY Numbers
<1>2. Delay + Byte + 3 * Loop + 1 + Sync + Gap \in Nat
  BY <1>1
<1> QED BY <1>2 DEF E!Past

\* Time that passes touches neither the output nor the driver.
LEMMA Elapsed ==
    ASSUME NEW u \in Uart, NEW n \in Nat
    PROVE  /\ E!Elapse(u, n) \in Uart
           /\ E!Elapse(u, n).tx = u.tx /\ E!Elapse(u, n).out = u.out
           /\ E!Elapse(u, n).de = u.de /\ E!Elapse(u, n).low = u.low
<1>1. u.wire \in Seq(Int) /\ u.due \in Int /\ u.mark \in Int
  BY DEF Uart
<1>2. DOMAIN u.wire = 1..Len(u.wire) /\ Len(u.wire) \in Nat /\ \A i \in 1..Len(u.wire) : u.wire[i] \in Int
  BY <1>1
<1>3. PICK w : w = [i \in DOMAIN u.wire |-> u.wire[i] - n]
  OBVIOUS
<1>4. w \in [1..Len(u.wire) -> Int]
  BY <1>2, <1>3
<1>5. w \in Seq(Int)
  BY <1>2, <1>4
<1>6. PICK due \in Int : due = IF u.tx = <<>> THEN u.due ELSE u.due - n
  BY <1>1
<1>7. PICK mark \in Int : mark = IF u.mark - n > -E!Past THEN u.mark - n ELSE -E!Past
  BY <1>1, PastNat
<1>8. E!Elapse(u, n) = [u EXCEPT !.wire = w, !.due = due, !.mark = mark]
  BY <1>3, <1>6, <1>7 DEF E!Elapse
<1> QED BY <1>5, <1>8, ZenonT(60) DEF Uart

\* What is sent last is the end of a reply.
Complete(u) ==
    IF Len(u.tx) > 0 THEN u.tx[Len(u.tx)] = ReplyLen
    ELSE Len(u.out) > 0 => u.out[Len(u.out)] = ReplyLen

\* The service keeps the last byte sent the last byte of a reply.
LEMMA ServiceCompletes ==
    ASSUME NEW u \in Uart, Complete(u)
    PROVE  Complete(E!ServiceSerial(u))
<1>1. PICK n \in 0..Len(u.tx) : n = E!Ended(u)
  BY EndedCount
<1>2. u.tx \in Seq(Nat) /\ u.out \in Seq(Nat) /\ Len(u.tx) \in Nat /\ Len(u.out) \in Nat
  BY DEF Uart
<1>3. PICK s \in Uart : s = E!ServiceSerial(u)
  BY <1>1, Serviced
<1>4. s.tx = SubSeq(u.tx, n + 1, Len(u.tx)) /\ s.out = u.out \o SubSeq(u.tx, 1, n)
  BY <1>1, <1>3, Serviced
<1>5. Len(s.tx) = Len(u.tx) - n
  BY <1>2, <1>4, Cut
<1>6. CASE n < Len(u.tx)
  <2>1. s.tx[Len(u.tx) - n] = u.tx[Len(u.tx)]
    <3>1. Len(u.tx) - n \in 1..(Len(u.tx) - n) /\ n + (Len(u.tx) - n) = Len(u.tx)
      BY <1>2, <1>6
    <3> QED BY <1>2, <1>4, <3>1, Cut
  <2>2. Len(s.tx) > 0 /\ Len(u.tx) > 0
    BY <1>2, <1>5, <1>6
  <2> QED BY <1>3, <1>5, <2>1, <2>2 DEF Complete
<1>7. CASE n = Len(u.tx) /\ n > 0
  <2>1. SubSeq(u.tx, 1, n) = u.tx
    BY <1>2, <1>7, SubSeqFull
  <2>2. Len(s.out) = Len(u.out) + n /\ s.out[Len(u.out) + n] = u.tx[n]
    <3>1. PICK c \in Seq(Nat) : c = u.tx
      BY <1>2
    <3>2. s.out = u.out \o c /\ Len(c) = n
      BY <1>4, <1>7, <2>1, <3>1
    <3>3. /\ Len(u.out \o c) = Len(u.out) + Len(c)
          /\ Len(c) > 0 => (u.out \o c)[Len(u.out) + Len(c)] = c[Len(c)]
      BY <1>2, Joined
    <3> QED BY <1>7, <3>1, <3>2, <3>3
  <2>3. ~(Len(s.tx) > 0)
    BY <1>5, <1>7
  <2> QED BY <1>3, <1>7, <2>2, <2>3 DEF Complete
<1>8. CASE n = Len(u.tx) /\ n = 0
  <2>1. Len(SubSeq(u.tx, 1, n)) = 0 /\ SubSeq(u.tx, 1, n) \in Seq(Nat)
    BY <1>2, <1>8, Cut
  <2>2. Len(s.out) = Len(u.out) /\ (Len(u.out) > 0 => s.out[Len(u.out)] = u.out[Len(u.out)])
    <3>1. PICK c \in Seq(Nat) : c = SubSeq(u.tx, 1, n)
      BY <2>1
    <3>2. s.out = u.out \o c /\ Len(c) = 0
      BY <1>4, <2>1, <3>1
    <3>3. /\ Len(u.out \o c) = Len(u.out) + Len(c)
          /\ Len(c) = 0 /\ Len(u.out) > 0 => (u.out \o c)[Len(u.out)] = u.out[Len(u.out)]
      BY <1>2, Joined
    <3> QED BY <1>2, <3>2, <3>3
  <2>3. ~(Len(s.tx) > 0) /\ ~(Len(u.tx) > 0)
    BY <1>5, <1>8
  <2> QED BY <1>3, <2>2, <2>3 DEF Complete
<1> QED BY <1>2, <1>6, <1>7, <1>8

\* Those of the firmware and of the caller.
Fw == [at : {"listen", "wait", "send", "drain"}, count : Nat, wait : Nat,
       left : 1..ReplyLen, spun : BOOLEAN]
Caller == [at : {"idle", "read", "settle", "extra", "skip"}, left : Nat]

\* The inductive invariant.  Between two of the caller's runs nothing is left that
\* has ended, so that a reset drops no byte of the count; and unless a reply was cut
\* short, the last byte sent is the last of a reply whenever none is being sent.
EmuInv ==
    /\ uart \in Uart /\ trueLow \in Int /\ torn \in BOOLEAN
    /\ caller \in Caller
    /\ fw \in Fw
    /\ caller.at \in {"idle", "skip"} => E!Ended(uart) = 0
    /\ uart.de <=> fw.at \in {"send", "drain"}
    /\ fw.at = "drain" \/ (fw.at \in {"listen", "wait"} /\ ~torn) => Complete(uart)
    /\ DriverLowIsExact /\ WholeReply

\* Time with or without the service keeps the count, and the end of a reply.
LEMMA Clocked ==
    ASSUME EmuInv, NEW n \in Nat, NEW b \in BOOLEAN, NEW lag \in Nat, E!Clock(n, b, lag)
    PROVE  /\ uart' \in Uart /\ trueLow' \in Int
           /\ DriverLowIsExact'
           /\ uart'.de = uart.de
           /\ Complete(uart) => Complete(uart')
           /\ b => E!Ended(uart') = 0
<1>1. PICK e \in Uart : e = E!Elapse(uart, n)
  BY Elapsed DEF EmuInv
<1>2. e.tx = uart.tx /\ e.out = uart.out /\ e.de = uart.de /\ e.low = uart.low
  BY <1>1, Elapsed DEF EmuInv
<1>3. PICK k \in 0..Len(e.tx) : k = E!Ended(e)
  BY EndedCount
<1>4. PICK j \in 0..Len(e.tx) : j = E!Ended(uart)
  BY <1>2, EndedCount DEF EmuInv
<1>5. trueLow' = IF uart.de THEN trueLow ELSE trueLow + (k - j)
  BY <1>1, <1>3, <1>4 DEF E!Clock
<1>6. trueLow = uart.low + (IF uart.de THEN 0 ELSE j) /\ uart.low \in Int /\ trueLow \in Int
      /\ uart.de \in BOOLEAN /\ k \in Int /\ j \in Int
  <2>1. uart.low \in Int /\ trueLow \in Int /\ uart.de \in BOOLEAN /\ k \in Int /\ j \in Int
    BY DEF EmuInv, Uart
  <2>2. uart.low + (IF uart.de THEN 0 ELSE E!Ended(uart)) = trueLow
    BY DEF EmuInv, DriverLowIsExact, E!DriverLowIsExact
  <2> QED BY <1>4, <2>1, <2>2
<1>7. Complete(uart) => Complete(e)
  BY <1>2 DEF Complete
<1>8. CASE b
  <2>1. PICK s \in Uart : s = E!ServiceSerial(e)
    BY <1>3, Serviced
  <2>2. s.de = e.de /\ s.low = (IF e.de THEN e.low ELSE e.low + k) /\ E!Ended(s) = 0
    BY <1>3, <2>1, Serviced
  <2>3. uart' = [s EXCEPT !.lag = lag]
    BY <1>1, <1>8, <2>1 DEF E!Clock
  <2>4. uart' \in Uart /\ uart'.tx = s.tx /\ uart'.due = s.due /\ uart'.out = s.out
        /\ uart'.de = s.de /\ uart'.low = s.low
    BY <2>3 DEF Uart
  <2>5. E!Ended(uart') = 0
    BY <2>2, <2>4, EndedOf
  <2>6. Complete(e) => Complete(uart')
    BY <2>1, <2>4, ServiceCompletes DEF Complete
  <2>7. uart'.low + (IF uart'.de THEN 0 ELSE 0) = trueLow'
    BY <1>2, <1>5, <1>6, <2>2, <2>4
  <2> QED BY <1>2, <1>5, <1>6, <1>7, <2>2, <2>4, <2>5, <2>6, <2>7
          DEF DriverLowIsExact, E!DriverLowIsExact
<1>9. CASE ~b
  <2>3. uart' = [e EXCEPT !.lag = lag]
    BY <1>1, <1>9 DEF E!Clock
  <2>4. uart' \in Uart /\ uart'.tx = e.tx /\ uart'.due = e.due /\ uart'.out = e.out
        /\ uart'.de = e.de /\ uart'.low = e.low
    BY <2>3 DEF Uart
  <2>5. E!Ended(uart') = k
    BY <1>3, <2>4, EndedOf
  <2>6. Complete(e) => Complete(uart')
    BY <2>4 DEF Complete
  <2>7. uart'.low + (IF uart'.de THEN 0 ELSE k) = trueLow'
    BY <1>2, <1>5, <1>6, <2>4
  <2> QED BY <1>2, <1>5, <1>6, <1>7, <1>9, <2>4, <2>5, <2>6, <2>7
          DEF DriverLowIsExact, E!DriverLowIsExact
<1> QED BY <1>8, <1>9

\* The service makes up the count.
LEMMA ServicedNow ==
    ASSUME EmuInv
    PROVE  /\ E!ServiceSerial(uart) \in Uart
           /\ E!Ended(E!ServiceSerial(uart)) = 0
           /\ E!ServiceSerial(uart).de = uart.de
           /\ E!ServiceSerial(uart).low = trueLow
           /\ Complete(uart) => Complete(E!ServiceSerial(uart))
<1>1. PICK n \in 0..Len(uart.tx) : n = E!Ended(uart)
  BY EndedCount DEF EmuInv
<1>2. uart.low \in Int /\ trueLow \in Int /\ uart.de \in BOOLEAN /\ n \in Int /\ uart \in Uart
  BY DEF EmuInv, Uart
<1>3. uart.low + (IF uart.de THEN 0 ELSE n) = trueLow
  BY <1>1 DEF EmuInv, DriverLowIsExact, E!DriverLowIsExact
<1>4. PICK s : s = E!ServiceSerial(uart)
  OBVIOUS
<1>5. s \in Uart /\ s.de = uart.de /\ s.low = (IF uart.de THEN uart.low ELSE uart.low + n)
      /\ E!Ended(s) = 0
  BY <1>1, <1>2, <1>4, Serviced
<1>6. s.low = trueLow
  BY <1>2, <1>3, <1>5
<1>7. Complete(uart) => Complete(s)
  BY <1>2, <1>4, ServiceCompletes
<1> QED BY <1>4, <1>5, <1>6, <1>7

\* What leaves the transmitter alone after the service keeps the count.
LEMMA AfterService ==
    ASSUME EmuInv, NEW s, s = E!ServiceSerial(uart), UNCHANGED trueLow,
           uart' \in Uart, uart'.tx = s.tx, uart'.due = s.due, uart'.low = s.low
    PROVE  /\ E!Ended(uart') = 0 /\ DriverLowIsExact'
           /\ (uart'.out = s.out /\ Complete(uart) => Complete(uart'))
<1>1. E!Ended(uart') = 0
  BY ServicedNow, EndedOf
<1>2. uart'.low = trueLow' /\ trueLow' \in Int
  BY ServicedNow DEF EmuInv
<1>3. uart'.out = s.out /\ Complete(uart) => Complete(uart')
  BY ServicedNow DEF Complete
<1> QED BY <1>1, <1>2, <1>3 DEF DriverLowIsExact, E!DriverLowIsExact

\* A time left, and the time since the service, stay numbers.
LEMMA LessNat == ASSUME NEW t \in Nat, NEW n \in Nat PROVE E!Less(t, n) \in Nat
BY DEF E!Less
LEMMA LaterNat == ASSUME uart \in Uart, NEW n \in Nat PROVE E!Later(n) \in Nat
<1>1. uart.lag \in Nat /\ Sync \in Nat
  BY Numbers DEF Uart
<1> QED BY <1>1 DEF E!Later

\* What the firmware and the caller become keeps to its set.
LEMMA FwOff ==
    ASSUME NEW f \in Fw
    PROVE  /\ [[f EXCEPT !.at = "listen"] EXCEPT !.spun = FALSE] \in Fw
           /\ [[f EXCEPT !.at = "listen"] EXCEPT !.spun = FALSE].at = "listen"
BY DEF Fw
LEMMA FwOn ==
    ASSUME NEW f \in Fw
    PROVE  /\ [[f EXCEPT !.at = "send", !.left = 1] EXCEPT !.spun = FALSE] \in Fw
           /\ [[f EXCEPT !.at = "send", !.left = 1] EXCEPT !.spun = FALSE].at = "send"
<1>1. 1 \in 1..ReplyLen
  BY Numbers
<1> QED BY <1>1 DEF Fw
LEMMA FwTook ==
    ASSUME NEW f \in Fw
    PROVE  /\ [[f EXCEPT !.count = @ + 1] EXCEPT !.spun = FALSE] \in Fw
           /\ [[f EXCEPT !.count = @ + 1] EXCEPT !.spun = FALSE].at = f.at
           /\ [[f EXCEPT !.at = "wait", !.count = 0, !.wait = Delay] EXCEPT !.spun = FALSE] \in Fw
           /\ [[f EXCEPT !.at = "wait", !.count = 0, !.wait = Delay] EXCEPT !.spun = FALSE].at
                = "wait"
<1>1. Delay \in Nat
  BY Numbers
<1>2. f.count + 1 \in Nat
  BY DEF Fw
<1> QED BY <1>1, <1>2 DEF Fw
LEMMA FwPushed ==
    ASSUME NEW f \in Fw
    PROVE  /\ f.left < ReplyLen =>
                /\ [[f EXCEPT !.left = @ + 1] EXCEPT !.spun = FALSE] \in Fw
                /\ [[f EXCEPT !.left = @ + 1] EXCEPT !.spun = FALSE].at = f.at
           /\ [[f EXCEPT !.at = "drain"] EXCEPT !.spun = FALSE] \in Fw
           /\ [[f EXCEPT !.at = "drain"] EXCEPT !.spun = FALSE].at = "drain"
<1>1. ReplyLen \in Nat
  BY Numbers
<1>2. f.left < ReplyLen => f.left + 1 \in 1..ReplyLen
  BY <1>1 DEF Fw
<1> QED BY <1>2 DEF Fw
LEMMA FwReset ==
    ASSUME NEW f \in Fw
    PROVE  /\ [f EXCEPT !.at = "listen", !.count = 0, !.wait = 0, !.spun = FALSE] \in Fw
           /\ [f EXCEPT !.at = "listen", !.count = 0, !.wait = 0, !.spun = FALSE].at = "listen"
BY DEF Fw

\* What the registers, a request and a reset make of the UART.
LEMMA UartReleased ==
    ASSUME NEW u \in Uart, NEW v, v = [[u EXCEPT !.de = FALSE] EXCEPT !.rx = 0]
    PROVE  /\ v \in Uart /\ v.tx = u.tx /\ v.due = u.due /\ v.low = u.low
           /\ v.out = u.out /\ v.de = FALSE
<1>1. PICK w \in Uart : /\ w = [u EXCEPT !.de = FALSE] /\ w.tx = u.tx /\ w.due = u.due
                       /\ w.low = u.low /\ w.out = u.out /\ w.de = FALSE
  <2>1. [u EXCEPT !.de = FALSE] \in Uart
    BY DEF Uart
  <2> QED BY <2>1 DEF Uart
<1>2. v = [w EXCEPT !.rx = 0] /\ 0 \in Int
  BY <1>1
<1> QED BY <1>1, <1>2 DEF Uart
LEMMA Appended ==
    ASSUME NEW A, NEW s \in Seq(A), NEW b \in A
    PROVE  /\ Append(s, b) \in Seq(A) /\ Len(Append(s, b)) = Len(s) + 1
           /\ Append(s, b)[Len(s) + 1] = b /\ Len(s) \in Nat
BY AppendProperties
LEMMA UartRead ==
    ASSUME NEW u \in Uart, NEW v, v = [u EXCEPT !.out = <<>>]
    PROVE  /\ v \in Uart /\ v.tx = u.tx /\ v.due = u.due /\ v.low = u.low
           /\ v.out = <<>> /\ v.de = u.de
<1>1. <<>> \in Seq(Nat)
  OBVIOUS
<1> QED BY <1>1 DEF Uart
LEMMA UartReset ==
    ASSUME NEW u \in Uart, NEW v,
           v = [u EXCEPT !.tx = <<>>, !.due = Byte, !.first = FALSE, !.de = FALSE]
    PROVE  v \in Uart /\ v.tx = <<>> /\ v.low = u.low /\ v.out = u.out /\ v.de = FALSE
<1>1. <<>> \in Seq(Nat) /\ Byte \in Int
  BY Numbers
<1> QED BY <1>1 DEF Uart

\* Every step of the emulator keeps its invariant.
LEMMA EmuStep == EmuInv /\ [E!Next]_emuVars => EmuInv'
<1> SUFFICES ASSUME EmuInv, [E!Next]_emuVars PROVE EmuInv'
  OBVIOUS
<1>s. PICK s \in Uart : /\ s = E!ServiceSerial(uart) /\ E!Ended(s) = 0 /\ s.de = uart.de
                       /\ s.low = trueLow /\ (Complete(uart) => Complete(s))
  BY ServicedNow
<1>n. /\ Byte \in Nat /\ Depth \in Nat /\ FrameLen \in Nat /\ ReplyLen \in Nat
      /\ Delay \in Nat /\ Loop \in Nat /\ Deadline \in Nat /\ Gap \in Nat
      /\ Byte > 0 /\ ReplyLen > 0 /\ FrameLen > 0
  BY Numbers
<1>t. /\ fw \in Fw
      /\ caller \in Caller
      /\ uart \in Uart
  BY DEF EmuInv
<1>d. /\ uart.de <=> fw.at \in {"send", "drain"}
      /\ torn \in BOOLEAN
      /\ (fw.at = "drain" \/ (fw.at \in {"listen", "wait"} /\ ~torn)) => Complete(uart)
  BY DEF EmuInv
\* the firmware's time
<1>b. ASSUME NEW n \in Nat, NEW lag \in Nat, E!Clock(n, TRUE, lag) \/ E!Clock(n, FALSE, lag),
             fw' \in Fw, fw'.at = fw.at, caller' \in Caller, caller'.at = caller.at,
             E!Running, UNCHANGED <<got, torn>>
      PROVE  EmuInv'
  <2>1. /\ uart' \in Uart /\ trueLow' \in Int /\ DriverLowIsExact'
        /\ uart'.de = uart.de /\ (Complete(uart) => Complete(uart'))
    BY <1>b, Clocked
  <2>2. caller'.at = caller.at /\ fw'.at = fw.at
    BY <1>b
  <2>3. caller.at \notin {"idle", "skip"}
    BY <1>b DEF E!Running
  <2>4. WholeReply'
    BY <1>b DEF EmuInv, WholeReply, E!WholeReply
  <2>5. /\ fw' \in Fw
        /\ caller' \in Caller
    BY <1>b, <1>t
  <2>6. caller'.at \in {"idle", "skip"} => E!Ended(uart') = 0
    BY <2>2, <2>3
  <2>7. uart'.de <=> fw'.at \in {"send", "drain"}
    <3>1. uart'.de = uart.de /\ fw'.at = fw.at
      BY <2>1, <2>2
    <3>2. uart.de <=> fw.at \in {"send", "drain"}
      BY <1>d
    <3> QED BY <3>1, <3>2, Zenon
  <2>8. torn' \in BOOLEAN
        /\ (fw'.at = "drain" \/ (fw'.at \in {"listen", "wait"} /\ ~torn') => Complete(uart'))
    <3>1. torn' = torn /\ fw'.at = fw.at
      BY <1>b, <2>2
    <3>2. Complete(uart) => Complete(uart')
      BY <2>1
    <3> QED BY <3>1, <3>2, <1>d, Zenon
  <2> QED BY <2>1, <2>4, <2>5, <2>6, <2>7, <2>8 DEF EmuInv
\* a register or a reading of the clock after the service
<1>c. ASSUME uart' \in Uart, uart'.tx = s.tx, uart'.due = s.due, uart'.low = s.low,
             uart'.out = s.out, UNCHANGED trueLow, WholeReply', torn' \in BOOLEAN,
             fw' \in Fw,
             caller' \in Caller,
             uart'.de <=> fw'.at \in {"send", "drain"},
             (fw'.at = "drain" \/ (fw'.at \in {"listen", "wait"} /\ ~torn')) => Complete(uart)
      PROVE  EmuInv'
  <2>1. E!Ended(uart') = 0 /\ DriverLowIsExact' /\ (Complete(uart) => Complete(uart'))
    BY <1>c, <1>s, AfterService
  <2>2. trueLow' \in Int
    BY <1>c DEF EmuInv
  <2> QED BY <1>c, <2>1, <2>2 DEF EmuInv
<1>d1. ASSUME UNCHANGED got PROVE WholeReply'
  BY <1>d1 DEF EmuInv, WholeReply, E!WholeReply
<1>d2. ASSUME got' = E!Nothing PROVE WholeReply'
  BY <1>d2 DEF E!Nothing, WholeReply, E!WholeReply
<1>1. CASE E!Spin
  <2>1. uart.lag + 1 \in Nat /\ E!Less(fw.wait, 1) \in Nat /\ E!Less(caller.left, 1) \in Nat
    <3>1. uart.lag \in Nat
      BY <1>t DEF Uart
    <3>2. fw.wait \in Nat /\ caller.left \in Nat
      BY <1>t DEF Fw, Caller
    <3>3. E!Less(fw.wait, 1) \in Nat
      BY <3>2, LessNat
    <3>4. E!Less(caller.left, 1) \in Nat
      BY <3>2, LessNat
    <3> QED BY <3>1, <3>3, <3>4
  <2>2. /\ fw' = [fw EXCEPT !.wait = E!Less(fw.wait, 1), !.spun = TRUE]
        /\ caller' = [caller EXCEPT !.left = E!Less(caller.left, 1)]
        /\ E!Running /\ UNCHANGED <<got, torn>>
    BY <1>1 DEF E!Spin
  <2>3. /\ fw' \in Fw /\ fw'.at = fw.at
        /\ caller' \in Caller /\ caller'.at = caller.at
    BY <1>t, <2>1, <2>2 DEF Fw, Caller
  <2>4. E!Clock(1, TRUE, 0) \/ E!Clock(1, FALSE, uart.lag + 1)
    BY <1>1 DEF E!Spin
  <2> QED BY <1>b, <2>1, <2>2, <2>3, <2>4
<1>2. CASE E!Sleep
  <2>1. /\ E!Later(Loop) \in Nat /\ Loop \in Nat
        /\ E!Less(fw.wait, Loop) \in Nat /\ E!Less(caller.left, Loop) \in Nat
    <3>1. fw.wait \in Nat /\ caller.left \in Nat
      BY <1>t DEF Fw, Caller
    <3> QED BY <1>t, <1>n, <3>1, LessNat, LaterNat
  <2>2. /\ fw' = [fw EXCEPT !.wait = E!Less(fw.wait, Loop), !.spun = FALSE]
        /\ caller' = [caller EXCEPT !.left = E!Less(caller.left, Loop)]
        /\ E!Running /\ UNCHANGED <<got, torn>>
    BY <1>2 DEF E!Sleep
  <2>3. /\ fw' \in Fw /\ fw'.at = fw.at
        /\ caller' \in Caller /\ caller'.at = caller.at
    BY <1>t, <2>1, <2>2 DEF Fw, Caller
  <2>4. E!Clock(Loop, TRUE, E!Later(Loop))
    BY <1>2 DEF E!Sleep
  <2> QED BY <1>b, <2>1, <2>2, <2>3, <2>4
<1>3. CASE E!Take
  <2> PICK r \in Int : r = IF s.rx > 0 THEN s.rx - 1 ELSE 0
    BY <1>s DEF Uart
  <2>1. uart' = [s EXCEPT !.rx = r] /\ fw.at = "listen"
        /\ UNCHANGED <<caller, got, torn, trueLow>>
    BY <1>3, <1>s DEF E!Take, E!Touch, E!ReadFifo, E!Accessed
  <2>2. fw' = [(IF fw.count + 1 < FrameLen THEN [fw EXCEPT !.count = @ + 1]
                ELSE [fw EXCEPT !.at = "wait", !.count = 0, !.wait = Delay]) EXCEPT !.spun = FALSE]
    BY <1>3, SMTT(60) DEF E!Take, E!Touch
  <2>3. fw' \in Fw /\ fw'.at \in {"listen", "wait"}
    BY <1>t, <2>1, <2>2, FwTook
  <2>4. /\ uart' \in Uart /\ uart'.tx = s.tx /\ uart'.due = s.due /\ uart'.low = s.low
        /\ uart'.out = s.out /\ uart'.de = s.de
    BY <2>1 DEF Uart
  <2>5. uart'.de <=> fw'.at \in {"send", "drain"}
    BY <1>s, <1>d, <2>1, <2>3, <2>4
  <2>6. (fw'.at = "drain" \/ (fw'.at \in {"listen", "wait"} /\ ~torn')) => Complete(uart)
    BY <1>d, <2>1, <2>3
  <2>7. WholeReply' /\ torn' \in BOOLEAN /\ caller' = caller
    BY <1>d, <1>d1, <2>1
  <2> QED BY <1>c, <1>t, <2>1, <2>3, <2>4, <2>5, <2>6, <2>7
<1>4. CASE E!DriveOn
  <2>1. uart' = [s EXCEPT !.de = TRUE]
        /\ fw' = [[fw EXCEPT !.at = "send", !.left = 1] EXCEPT !.spun = FALSE]
        /\ UNCHANGED <<caller, got, torn, trueLow>>
    BY <1>4, <1>s DEF E!DriveOn, E!Touch, E!SetDe, E!Accessed
  <2>2. /\ fw' \in Fw
        /\ fw'.at = "send"
    BY <1>t, <2>1, FwOn
  <2>3. /\ uart' \in Uart /\ uart'.tx = s.tx /\ uart'.due = s.due /\ uart'.low = s.low
        /\ uart'.out = s.out /\ uart'.de = TRUE
    BY <2>1 DEF Uart
  <2>4. uart'.de <=> fw'.at \in {"send", "drain"}
    BY <2>2, <2>3
  <2>5. WholeReply' /\ torn' \in BOOLEAN /\ caller' = caller
    BY <1>d, <1>d1, <2>1
  <2> QED BY <1>c, <1>t, <2>1, <2>2, <2>3, <2>4, <2>5
<1>r. ASSUME uart' = E!Released(uart), fw.at \in {"send", "drain"},
             fw' = [[fw EXCEPT !.at = "listen"] EXCEPT !.spun = FALSE],
             UNCHANGED <<caller, got, trueLow>>, torn' \in BOOLEAN,
             fw.at = "send" => torn'
      PROVE  EmuInv'
  <2>1. uart' = [[s EXCEPT !.de = FALSE] EXCEPT !.rx = 0]
    BY <1>r, <1>s DEF E!Released, E!SetDe, E!Accessed
  <2>2. /\ fw' \in Fw
        /\ fw'.at = "listen"
    BY <1>t, <1>r, FwOff
  <2>3. /\ uart' \in Uart /\ uart'.tx = s.tx /\ uart'.due = s.due /\ uart'.low = s.low
        /\ uart'.out = s.out /\ uart'.de = FALSE
    BY <2>1, UartReleased
  <2>4. uart'.de <=> fw'.at \in {"send", "drain"}
    BY <2>2, <2>3
  <2>5. WholeReply' /\ caller' = caller
    BY <1>r, <1>d1
  <2>6. (fw'.at = "drain" \/ (fw'.at \in {"listen", "wait"} /\ ~torn')) => Complete(uart)
    BY <1>d, <1>r, <2>2
  <2> QED BY <1>c, <1>t, <1>r, <2>2, <2>3, <2>4, <2>5, <2>6
<1>5. CASE E!DriveOff
  <2>1. /\ uart' = E!Released(uart) /\ fw.at = "drain"
        /\ fw' = [[fw EXCEPT !.at = "listen"] EXCEPT !.spun = FALSE]
        /\ UNCHANGED <<caller, got, trueLow, torn>>
    BY <1>5 DEF E!DriveOff, E!Touch
  <2> QED BY <1>d, <1>r, <2>1
<1>6. CASE E!GiveUp
  <2>1. /\ uart' = E!Released(uart) /\ fw.at \in {"send", "drain"}
        /\ fw' = [[fw EXCEPT !.at = "listen"] EXCEPT !.spun = FALSE]
        /\ UNCHANGED <<caller, got, trueLow>>
    BY <1>6 DEF E!GiveUp, E!Touch
  <2>2. torn' = (torn \/ fw.at = "send")
    BY <1>6 DEF E!GiveUp
  <2> QED BY <1>d, <1>r, <2>1, <2>2
<1>7. CASE E!Push
  <2>1. PICK b \in Nat : b = E!Reply[fw.left] /\ (fw.left = ReplyLen => b = ReplyLen)
    BY <1>n, <1>t DEF E!Reply, Fw
  <2>2. PICK due \in Int : due = IF s.tx = <<>> THEN Byte ELSE s.due
    <3>1. Byte \in Int /\ s.due \in Int
      BY <1>n DEF Uart
    <3> QED BY <3>1
  <2>3. Len(s.tx) < Depth
    BY <1>7, <1>s DEF E!Push, E!Accessed
  <2>4. Len(s.tx) \in Nat
    BY DEF Uart
  <2>t. PICK t \in Seq(Nat) : t = Append(s.tx, b) /\ Len(t) > 0 /\ t[Len(t)] = b
    <3>1. s.tx \in Seq(Nat)
      BY DEF Uart
    <3>2. PICK q \in Seq(Nat) : q = s.tx
      BY <3>1
    <3>3. /\ Append(q, b) \in Seq(Nat) /\ Len(Append(q, b)) = Len(q) + 1
          /\ Append(q, b)[Len(q) + 1] = b /\ Len(q) \in Nat
      BY <2>1, <3>2, Appended
    <3>4. PICK t \in Seq(Nat) : t = Append(q, b)
      BY <3>3
    <3>5. Len(t) > 0 /\ t[Len(t)] = b
      BY <3>3, <3>4
    <3> QED BY <3>2, <3>4, <3>5
  <2>5. uart' = [s EXCEPT !.tx = t, !.due = due]
    BY <1>7, <1>n, <1>s, <2>1, <2>2, <2>3, <2>4, <2>t DEF E!Push, E!Touch, E!WriteFifo, E!Accessed
  <2>6. /\ uart' \in Uart /\ uart'.low = s.low /\ uart'.de = s.de /\ Len(uart'.tx) > 0
        /\ uart'.tx[Len(uart'.tx)] = b
    <3>1. /\ uart' \in Uart /\ uart'.low = s.low /\ uart'.de = s.de /\ uart'.tx = t
      BY <2>5 DEF Uart
    <3> QED BY <2>t, <3>1
  <2>7. /\ fw.at = "send" /\ E!Running /\ UNCHANGED <<caller, got, trueLow, torn>>
        /\ fw' = [(IF fw.left < ReplyLen THEN [fw EXCEPT !.left = @ + 1]
                  ELSE [fw EXCEPT !.at = "drain"]) EXCEPT !.spun = FALSE]
    BY <1>7 DEF E!Push, E!Touch
  <2>8. fw' \in Fw /\ fw'.at \in {"send", "drain"} /\ (fw'.at = "drain" => ~(fw.left < ReplyLen))
    BY <1>t, <2>7, FwPushed
  <2>9. fw'.at = "drain" => Complete(uart')
    <3>1. ~(fw.left < ReplyLen) => fw.left = ReplyLen
      BY <1>n, <1>t DEF Fw
    <3> QED BY <2>1, <2>6, <2>8, <3>1 DEF Complete
  <2>10. uart'.de = TRUE
    BY <1>d, <1>s, <1>t, <2>6, <2>7 DEF Uart
  <2>11. DriverLowIsExact' /\ trueLow' \in Int
    <3>1. uart'.low = trueLow' /\ trueLow' \in Int
      BY <1>s, <2>6, <2>7 DEF EmuInv
    <3>2. uart'.low + 0 = trueLow'
      <4>1. PICK l \in Int : l = trueLow'
        BY <3>1
      <4>2. l + 0 = l
        OBVIOUS
      <4> QED BY <3>1, <4>1, <4>2
    <3> QED BY <2>10, <3>1, <3>2 DEF DriverLowIsExact, E!DriverLowIsExact
  <2>12. caller' = caller /\ caller.at \notin {"idle", "skip"}
    BY <2>7 DEF E!Running
  <2>13. WholeReply' /\ torn' \in BOOLEAN
    BY <1>d, <1>d1, <2>7
  <2>14. uart'.de <=> fw'.at \in {"send", "drain"}
    BY <2>8, <2>10
  <2>15. (fw'.at = "drain" \/ (fw'.at \in {"listen", "wait"} /\ ~torn')) => Complete(uart')
    BY <2>8, <2>9
  <2> QED BY <1>t, <2>6, <2>8, <2>11, <2>12, <2>13, <2>14, <2>15 DEF EmuInv
<1>8. CASE E!Write
  <2>1. PICK f \in Int : f = E!FirstDue(uart)
    <3>1. uart.wire # <<>> => uart.wire[Len(uart.wire)] \in Int
      BY <1>t, SMTT(60) DEF Uart
    <3> QED BY <3>1 DEF E!FirstDue, E!Last
  <2>2. PICK dues : dues = [i \in 1..FrameLen |-> f + i * Byte]
    OBVIOUS
  <2>3. dues \in Seq(Int) /\ E!Last(dues) \in Int
    <3>1. \A i \in 1..FrameLen : f + i * Byte \in Int
      BY <1>n, Times
    <3>2. dues \in [1..FrameLen -> Int]
      BY <2>2, <3>1
    <3>3. Len(dues) = FrameLen /\ dues \in Seq(Int)
      BY <1>n, <3>2
    <3>4. dues[FrameLen] \in Int
      BY <1>n, <3>2
    <3> QED BY <3>3, <3>4 DEF E!Last
  <2>4. PICK mark \in Int : mark = E!Last(dues)
    BY <2>3
  <2>w. PICK w \in Seq(Int) : w = uart.wire \o dues
    <3>1. uart.wire \in Seq(Int)
      BY <1>t DEF Uart
    <3> QED BY <2>3, <3>1, Joined
  <2>5. uart' = [uart EXCEPT !.wire = w, !.first = FALSE, !.written = TRUE, !.mark = mark]
    BY <1>8, <2>1, <2>2, <2>4, <2>w DEF E!Write
  <2>6. /\ uart' \in Uart /\ uart'.tx = uart.tx /\ uart'.due = uart.due /\ uart'.low = uart.low
        /\ uart'.out = uart.out /\ uart'.de = uart.de
    BY <1>t, <2>5 DEF Uart
  <2>7. UNCHANGED <<fw, caller, trueLow, torn>> /\ got' = E!Nothing
    BY <1>8 DEF E!Write
  <2>8. E!Ended(uart') = E!Ended(uart)
    BY <2>6, EndedOf
  <2>9. Complete(uart') <=> Complete(uart)
    BY <2>6 DEF Complete
  <2>10. WholeReply'
    BY <1>d2, <2>7
  <2>11. DriverLowIsExact'
    BY <2>6, <2>7, <2>8 DEF EmuInv, DriverLowIsExact, E!DriverLowIsExact
  <2>12. uart'.de <=> fw'.at \in {"send", "drain"}
    BY <1>d, <2>6, <2>7
  <2>13. (fw'.at = "drain" \/ (fw'.at \in {"listen", "wait"} /\ ~torn')) => Complete(uart')
    BY <1>d, <2>7, <2>9
  <2> QED BY <1>d, <1>t, <2>6, <2>7, <2>8, <2>10, <2>11, <2>12, <2>13 DEF EmuInv
<1>9. CASE E!Read
  <2>1. /\ UNCHANGED <<uart, fw, trueLow, torn>> /\ got' = E!Nothing
        /\ caller' = [at |-> "read", left |-> Deadline]
    BY <1>9 DEF E!Read
  <2>2. WholeReply'
    BY <1>d2, <2>1
  <2> QED BY <1>n, <2>1, <2>2 DEF EmuInv, Caller, DriverLowIsExact, E!DriverLowIsExact
<1>10. CASE E!ReadReturns
  <2>1. /\ uart' = [s EXCEPT !.out = <<>>] /\ torn' = (torn /\ s.tx # <<>>)
        /\ got' = [bytes |-> s.out, why |-> E!WhyReturn(s), torn |-> torn]
        /\ caller' = [at |-> "idle", left |-> 0] /\ UNCHANGED <<fw, trueLow>>
    BY <1>10, <1>s DEF E!ReadReturns
  <2>2. /\ uart' \in Uart /\ uart'.tx = s.tx /\ uart'.due = s.due /\ uart'.low = s.low
        /\ uart'.out = <<>> /\ uart'.de = s.de
    BY <2>1, UartRead
  <2>3. E!Ended(uart') = 0 /\ DriverLowIsExact'
    BY <1>s, <2>1, <2>2, AfterService
  <2>4. Complete(s) \/ s.tx = <<>> => Complete(uart')
    <3>1. Len(<<>>) = 0 /\ (s.tx = <<>> => Len(s.tx) = 0)
      OBVIOUS
    <3> QED BY <2>2, <3>1 DEF Complete
  <2>5. (fw'.at = "drain" \/ (fw'.at \in {"listen", "wait"} /\ ~torn')) => Complete(uart')
    BY <1>d, <1>s, <2>1, <2>4
  <2>6. uart'.de <=> fw'.at \in {"send", "drain"}
    BY <1>d, <1>s, <2>1, <2>2
  <2>7. WholeReply'
    <3>1. SUFFICES ASSUME E!WhyReturn(s) = "quiet", ~torn PROVE E!Last(s.out) = ReplyLen
      BY <2>1 DEF WholeReply, E!WholeReply
    <3>2. s.out # <<>> /\ s.tx = <<>> /\ ~s.de
      BY <3>1 DEF E!WhyReturn, E!ReplyHasLeft
    <3>3. fw.at \in {"listen", "wait"}
      BY <1>d, <1>s, <1>t, <3>2 DEF Fw
    <3>4. Complete(s)
      BY <1>d, <1>s, <3>1, <3>3
    <3>5. s.out \in Seq(Nat)
      BY DEF Uart
    <3>6. ~(Len(s.tx) > 0) /\ Len(s.out) > 0
      BY <3>2, <3>5
    <3> QED BY <3>4, <3>6 DEF Complete, E!Last
  <2>8. trueLow' \in Int /\ torn' \in BOOLEAN /\ fw' \in Fw
    BY <1>d, <1>t, <2>1 DEF EmuInv
  <2>9. caller' \in Caller
    BY <2>1 DEF Caller
  <2> QED BY <2>2, <2>3, <2>5, <2>6, <2>7, <2>8, <2>9 DEF EmuInv
<1>e. ASSUME uart' = s, UNCHANGED <<fw, trueLow, torn>>, WholeReply',
             caller' \in Caller
      PROVE  EmuInv'
  <2>1. uart'.de <=> fw'.at \in {"send", "drain"}
    BY <1>d, <1>e, <1>s
  <2> QED BY <1>c, <1>d, <1>e, <1>t, <2>1
<1>11. CASE E!AdvanceTime
  <2>1. /\ UNCHANGED <<fw, trueLow, torn>> /\ got' = E!Nothing /\ uart' = s
        /\ caller' = [at |-> IF E!SerialQuiescent(uart') THEN "skip" ELSE "settle", left |-> Gap]
    BY <1>11, <1>s DEF E!AdvanceTime
  <2> QED BY <1>d2, <1>e, <1>n, <2>1 DEF Caller
<1>12. CASE E!Settled
  <2>1. /\ UNCHANGED <<fw, trueLow, torn, got>> /\ uart' = s
        /\ caller' = [caller EXCEPT !.at = "extra"]
    BY <1>12, <1>s DEF E!Settled
  <2> QED BY <1>d1, <1>e, <1>t, <2>1 DEF Caller
<1>13. CASE E!RunEnds
  <2>1. /\ UNCHANGED <<fw, trueLow, torn, got>> /\ uart' = s
        /\ caller' = [caller EXCEPT !.at = "skip"]
    BY <1>13, <1>s DEF E!RunEnds
  <2> QED BY <1>d1, <1>e, <1>t, <2>1 DEF Caller
<1>14. CASE E!Skip
  <2>1. caller.left \in Nat /\ fw.wait \in Nat
    BY <1>t DEF Caller, Fw
  <2>2. E!Later(caller.left) \in Nat
    BY <1>t, <2>1, LaterNat
  <2>3. E!Less(fw.wait, caller.left) \in Nat
    BY <2>1, LessNat
  <2>4. /\ E!Clock(caller.left, TRUE, E!Later(caller.left))
        /\ fw' = [fw EXCEPT !.wait = E!Less(fw.wait, caller.left)]
        /\ caller' = [at |-> "idle", left |-> 0] /\ UNCHANGED <<got, torn>>
    BY <1>14 DEF E!Skip
  <2>5. /\ uart' \in Uart /\ trueLow' \in Int /\ DriverLowIsExact'
        /\ uart'.de = uart.de /\ (Complete(uart) => Complete(uart')) /\ E!Ended(uart') = 0
    BY <2>1, <2>2, <2>4, Clocked
  <2>6. fw' \in Fw /\ fw'.at = fw.at
    BY <1>t, <2>3, <2>4 DEF Fw
  <2>7. caller' \in Caller
    BY <2>4 DEF Caller
  <2>8. WholeReply' /\ torn' \in BOOLEAN
    BY <1>d, <1>d1, <2>4
  <2>9. uart'.de <=> fw'.at \in {"send", "drain"}
    BY <1>d, <2>5, <2>6
  <2>10. (fw'.at = "drain" \/ (fw'.at \in {"listen", "wait"} /\ ~torn')) => Complete(uart')
    BY <1>d, <2>4, <2>5, <2>6
  <2> QED BY <2>5, <2>6, <2>7, <2>8, <2>9, <2>10 DEF EmuInv
<1>15. CASE E!LpReset
  <2>1. /\ caller.at = "idle"
        /\ uart' = E!ServiceSerial([uart EXCEPT !.tx = <<>>, !.due = Byte,
                                               !.first = FALSE, !.de = FALSE])
        /\ fw' = [fw EXCEPT !.at = "listen", !.count = 0, !.wait = 0, !.spun = FALSE]
        /\ torn' = (torn \/ fw.at = "send" \/ uart.tx # <<>>)
        /\ UNCHANGED <<caller, got, trueLow>>
    BY <1>15 DEF E!LpReset
  <2>2. PICK v : v = [uart EXCEPT !.tx = <<>>, !.due = Byte, !.first = FALSE, !.de = FALSE]
    OBVIOUS
  <2>3. v \in Uart /\ v.tx = <<>> /\ v.low = uart.low /\ v.out = uart.out /\ v.de = FALSE
    BY <1>t, <2>2, UartReset
  <2>4. E!Ended(v) = 0 /\ 0 \in 0..Len(v.tx)
    <3>1. E!Ended(v) \in 0..Len(v.tx) /\ Len(v.tx) = 0
      BY <2>3, EndedCount
    <3> QED BY <3>1
  <2>5. uart' = E!ServiceSerial(v)
    BY <2>1, <2>2
  <2>6. /\ uart' \in Uart /\ uart'.de = FALSE /\ uart'.low = v.low + 0 /\ E!Ended(uart') = 0
    BY <2>3, <2>4, <2>5, Serviced
  <2>7. E!Ended(uart) = 0 /\ uart.low \in Int /\ trueLow \in Int /\ uart.de \in BOOLEAN
    BY <1>t, <2>1 DEF EmuInv, Uart
  <2>8. uart.low = trueLow
    BY <2>7 DEF EmuInv, DriverLowIsExact, E!DriverLowIsExact
  <2>9. DriverLowIsExact' /\ trueLow' \in Int
    BY <2>1, <2>3, <2>6, <2>7, <2>8 DEF DriverLowIsExact, E!DriverLowIsExact
  <2>10. fw' \in Fw /\ fw'.at = "listen"
    BY <1>t, <2>1, FwReset
  <2>11. ~torn' => Complete(uart')
    <3>1. SUFFICES ASSUME ~torn' PROVE Complete(uart')
      OBVIOUS
    <3>2. ~torn /\ fw.at # "send" /\ uart.tx = <<>>
      BY <2>1, <3>1
    <3>3. Complete(uart)
      BY <1>d, <1>t, <3>2 DEF Fw
    <3>4. Complete(v)
      BY <2>3, <3>2, <3>3 DEF Complete
    <3> QED BY <2>3, <2>5, <3>4, ServiceCompletes
  <2>12. WholeReply' /\ torn' \in BOOLEAN /\ caller' \in Caller
    BY <1>d, <1>d1, <1>t, <2>1
  <2>13. uart'.de <=> fw'.at \in {"send", "drain"}
    BY <2>6, <2>10
  <2>14. (fw'.at = "drain" \/ (fw'.at \in {"listen", "wait"} /\ ~torn')) => Complete(uart')
    BY <2>10, <2>11
  <2> QED BY <2>6, <2>9, <2>10, <2>12, <2>13, <2>14 DEF EmuInv
<1>16. CASE UNCHANGED emuVars
  BY <1>16 DEF emuVars, EmuInv, DriverLowIsExact, E!DriverLowIsExact, WholeReply, E!WholeReply
<1> QED BY <1>1, <1>2, <1>3, <1>4, <1>5, <1>6, <1>7, <1>8, <1>9, <1>10, <1>11, <1>12, <1>13,
           <1>14, <1>15, <1>16 DEF E!Next

\* The emulator starts in it.
LEMMA EmuInit == E!Init => EmuInv
<1> SUFFICES ASSUME E!Init PROVE EmuInv
  OBVIOUS
<1>1. /\ uart = [wire |-> <<>>, rx |-> 0, tx |-> <<>>, due |-> Byte, out |-> <<>>,
                first |-> FALSE, written |-> FALSE, mark |-> 0, de |-> FALSE,
                low |-> 0, lag |-> 0]
      /\ fw = [at |-> "listen", count |-> 0, wait |-> 0, left |-> 1, spun |-> FALSE]
      /\ caller = [at |-> "idle", left |-> 0] /\ got = E!Nothing
      /\ trueLow = 0 /\ torn = FALSE
  BY DEF E!Init
<1>2. <<>> \in Seq(Int) /\ <<>> \in Seq(Nat) /\ Byte \in Int /\ 1 \in 1..ReplyLen
  BY Numbers
<1>3. uart \in Uart
  BY <1>1, <1>2 DEF Uart
<1>4. fw \in Fw /\ caller \in Caller
  BY <1>1, <1>2 DEF Fw, Caller
<1>5. uart.tx = <<>> /\ uart.out = <<>> /\ uart.de = FALSE /\ uart.low = 0
  BY <1>1
<1>6. E!Ended(uart) = 0
  <2>1. E!Ended(uart) \in 0..Len(uart.tx) /\ Len(uart.tx) = 0
    BY <1>3, <1>5, EndedCount
  <2> QED BY <2>1
<1>7. Complete(uart)
  BY <1>5 DEF Complete
<1>8. DriverLowIsExact
  BY <1>1, <1>5, <1>6 DEF DriverLowIsExact, E!DriverLowIsExact
<1>9. WholeReply
  BY <1>1 DEF E!Nothing, WholeReply, E!WholeReply
<1>10. uart.de <=> fw.at \in {"send", "drain"}
  BY <1>1
<1>11. trueLow \in Int /\ torn \in BOOLEAN
  <2>1. trueLow \in Int
    BY <1>1
  <2>2. torn \in BOOLEAN
    BY <1>1, Zenon
  <2> QED BY <2>1, <2>2
<1> QED BY <1>3, <1>4, <1>6, <1>7, <1>8, <1>9, <1>10, <1>11 DEF EmuInv

\* It holds whichever half runs.
LEMMA EmuAlways == SimulatorsSpec => []EmuInv
<1>1. SimulatorsInit => EmuInv
  BY EmuInit DEF SimulatorsInit
<1>2. EmuInv /\ [SimulatorsNext]_allVars => EmuInv'
  <2>1. [SimulatorsNext]_allVars => [E!Next]_emuVars
    BY DEF SimulatorsNext, Simulator, Emulator, allVars
  <2> QED BY <2>1, EmuStep
<1> QED BY <1>1, <1>2, PTL DEF SimulatorsSpec

\* The count of bytes sent with the driver off is the count of those that ended while
\* it was off, for any FIFO, reply, byte time and interval of the service (_drain_tx,
\* _hook_mem_write).
THEOREM LowIsExact == SimulatorsSpec => []DriverLowIsExact
<1>1. EmuInv => DriverLowIsExact
  BY DEF EmuInv
<1> QED BY <1>1, EmuAlways, PTL

\* A read that returns because the reply has left returns it to its last byte, however
\* late the bytes are found (read_uart_available).
THEOREM RepliesAreWhole == SimulatorsSpec => []WholeReply
<1>1. EmuInv => WholeReply
  BY DEF EmuInv
<1> QED BY <1>1, EmuAlways, PTL

-----------------------------------------------------------------------------
(* The latency. *)

\* When the latency of a request is to be found, request by request: its end is
\* uart.mark, and what is between it and the end of the first byte of the reply is
\* bounded phase by phase.  A spin is one tick late at most, as the firmware does not
\* spin twice; a sleep is Loop ticks late, and it does not sleep on a byte that is there.
Spun(f) == IF f.spun THEN 1 ELSE 0
Alone(u, f) == f.count = 0 /\ u.rx = 0 /\ Len(u.wire) = 0

\* The FIFO lost a byte of it, or there is none: no reply will come.
Lost(u, f) == f.at = "listen" /\ Len(u.tx) = 0 /\ f.count + u.rx + Len(u.wire) < FrameLen

\* Its bytes are on the wire, Byte apart, or in the FIFO, or taken; the next to be taken
\* ended no longer ago than one sleep and a spin.
Spaced(u) ==
    /\ \A i \in 1..Len(u.wire) : u.wire[i] = u.mark - (Len(u.wire) - i) * Byte
    /\ Len(u.wire) < FrameLen => u.mark <= Len(u.wire) * Byte
Arriving(u, f) ==
    /\ f.at = "listen" /\ Len(u.tx) = 0 /\ f.count < FrameLen /\ u.rx >= 0
    /\ f.count + u.rx + Len(u.wire) = FrameLen
    /\ Spaced(u)
    /\ u.mark - (FrameLen - f.count - 1) * Byte >= 1 - Loop - Spun(f)

\* It has been taken and the firmware waits, or drives the bus and has sent nothing.
Waiting(u, f) ==
    /\ f.at = "wait" /\ Len(u.tx) = 0 /\ Alone(u, f)
    /\ f.wait > 0 => 0 <= f.wait - u.mark - Delay /\ f.wait - u.mark - Delay <= Loop
    /\ f.wait = 0 => 0 <= 0 - u.mark - Delay /\ 0 - u.mark - Delay <= 2 * Loop - 1 + Spun(f)
Driving(u, f) ==
    /\ f.at = "send" /\ Len(u.tx) = 0 /\ Alone(u, f)
    /\ 0 <= 0 - u.mark - Delay /\ 0 - u.mark - Delay <= 2 * Loop + Spun(f)

\* The first byte of the reply is on the wire.
InTime(us) == Delay + Byte <= us /\ us <= Delay + Byte + 2 * Loop + 1
Sending(u, f) ==
    f.at # "wait" /\ Len(u.tx) > 0 /\ Alone(u, f) /\ InTime(u.due - u.mark)

Phase(u, f) == Lost(u, f) \/ Arriving(u, f) \/ Waiting(u, f) \/ Driving(u, f) \/ Sending(u, f)

\* The inductive invariant: a request that was written to a silent bus and has no
\* latency yet is in one of the phases, and no byte of the FIFO ended longer ago than
\* the service was last counted.
Owed(m, u) == ~m /\ u.written /\ ~u.first
LatOK(l) == l.us \in Int /\ l.mixed \in BOOLEAN /\ (~l.mixed => InTime(l.us))
UartOK(u) == u.lag <= Sync /\ (Len(u.tx) > 0 => u.due > 0 - u.lag)
LatInv ==
    /\ mixed \in BOOLEAN /\ LatOK(lat) /\ UartOK(uart)
    /\ caller.at \in {"settle", "extra", "skip"} => caller.left <= Gap
    /\ Owed(mixed, uart) => Phase(uart, fw)

\* The fields of the UART after the service, and after some time.
LEMMA ServedFields ==
    ASSUME NEW u \in Uart
    PROVE  /\ E!ServiceSerial(u) \in Uart /\ E!Ended(E!ServiceSerial(u)) = 0
           /\ Len(E!ServiceSerial(u).tx) = Len(u.tx) - E!Ended(u)
           /\ E!ServiceSerial(u).due
                = (IF E!Ended(u) = Len(u.tx) THEN Byte ELSE u.due + E!Ended(u) * Byte)
           /\ E!ServiceSerial(u).wire = SubSeq(u.wire, E!Arrived(u) + 1, Len(u.wire))
           /\ Len(E!ServiceSerial(u).wire) = Len(u.wire) - E!Arrived(u)
           /\ E!ServiceSerial(u).rx
                = (IF u.rx + E!Arrived(u) <= Depth THEN u.rx + E!Arrived(u) ELSE Depth)
           /\ E!ServiceSerial(u).first = (u.first \/ E!Ended(u) > 0)
           /\ E!ServiceSerial(u).written = u.written
           /\ E!ServiceSerial(u).mark = u.mark /\ E!ServiceSerial(u).lag = u.lag
<1>n. PICK n \in 0..Len(u.tx) : n = E!Ended(u)
  BY EndedCount
<1>j. PICK j \in 0..Len(u.wire) : j = E!Arrived(u)
  BY ArrivedBounded
<1>s. PICK s : s = E!ServiceSerial(u)
  OBVIOUS
<1>1. PICK m \in Uart : m = E!MoveWireToRx(u)
  BY Moved
<1>2. PICK w \in Seq(Int) : w = SubSeq(u.wire, j + 1, Len(u.wire))
  BY Cut DEF Uart
<1>3. PICK r \in Int : r = IF u.rx + j <= Depth THEN u.rx + j ELSE Depth
  <2>1. u.rx \in Int /\ Len(u.wire) \in Nat /\ j \in Int /\ Depth \in Int
    BY Numbers DEF Uart
  <2>3. u.rx + j \in Int
    BY <2>1
  <2> QED BY <2>1, <2>3
<1>4. m = [u EXCEPT !.wire = w, !.rx = r]
  BY <1>1, <1>2, <1>3, <1>j DEF E!MoveWireToRx
<1>5. /\ m.tx = u.tx /\ m.due = u.due /\ m.wire = w /\ m.rx = r /\ m.first = u.first
      /\ m.written = u.written /\ m.mark = u.mark /\ m.lag = u.lag
  BY <1>4 DEF Uart
<1>6. n = E!Ended(m) /\ n \in 0..Len(m.tx)
  BY <1>5, <1>n, EndedOf
<1>7. s = E!DrainTx(m)
  BY <1>1, <1>s DEF E!ServiceSerial
<1>8. /\ s \in Uart /\ E!Ended(s) = 0
      /\ s = [m EXCEPT !.out = m.out \o SubSeq(m.tx, 1, n),
                       !.tx = SubSeq(m.tx, n + 1, Len(m.tx)),
                       !.due = IF n = Len(m.tx) THEN Byte ELSE m.due + n * Byte,
                       !.first = m.first \/ n > 0,
                       !.low = IF m.de THEN m.low ELSE m.low + n]
  BY <1>6, <1>7, Drained, ZenonT(60)
<1>9. /\ s.tx = SubSeq(m.tx, n + 1, Len(m.tx))
      /\ s.due = (IF n = Len(m.tx) THEN Byte ELSE m.due + n * Byte)
      /\ s.wire = m.wire /\ s.rx = m.rx /\ s.written = m.written
      /\ s.mark = m.mark /\ s.lag = m.lag
  BY <1>8, ZenonT(60) DEF Uart
<1>10. s.first = (m.first \/ n > 0)
  BY <1>8 DEF Uart
<1>11. u.tx \in Seq(Nat) /\ u.wire \in Seq(Int)
  BY DEF Uart
<1>12. Len(SubSeq(u.tx, n + 1, Len(u.tx))) = Len(u.tx) - n
  BY <1>11, Cut
<1>13. Len(w) = Len(u.wire) - j
  BY <1>2, <1>11, Cut
<1>15. /\ s \in Uart /\ E!Ended(s) = 0 /\ Len(s.tx) = Len(u.tx) - n
       /\ s.due = (IF n = Len(u.tx) THEN Byte ELSE u.due + n * Byte)
       /\ s.wire = SubSeq(u.wire, j + 1, Len(u.wire)) /\ Len(s.wire) = Len(u.wire) - j
       /\ s.rx = (IF u.rx + j <= Depth THEN u.rx + j ELSE Depth)
       /\ s.first = (u.first \/ n > 0) /\ s.written = u.written
       /\ s.mark = u.mark /\ s.lag = u.lag
  BY <1>2, <1>3, <1>5, <1>8, <1>9, <1>10, <1>12, <1>13
<1> QED BY <1>n, <1>j, <1>s, <1>15

LEMMA ElapsedFields ==
    ASSUME NEW u \in Uart, NEW n \in Nat, NEW e, e = E!Elapse(u, n)
    PROVE  /\ e \in Uart /\ e.tx = u.tx /\ e.rx = u.rx /\ e.first = u.first
           /\ e.written = u.written /\ e.lag = u.lag
           /\ Len(e.wire) = Len(u.wire)
           /\ \A i \in 1..Len(u.wire) : e.wire[i] = u.wire[i] - n
           /\ e.due = (IF Len(u.tx) = 0 THEN u.due ELSE u.due - n)
           /\ e.mark = (IF u.mark - n > -E!Past THEN u.mark - n ELSE -E!Past)
<1>1. u.wire \in Seq(Int) /\ u.due \in Int /\ u.mark \in Int /\ u.tx \in Seq(Nat)
  BY DEF Uart
<1>2. DOMAIN u.wire = 1..Len(u.wire) /\ Len(u.wire) \in Nat /\ \A i \in 1..Len(u.wire) : u.wire[i] \in Int
  BY <1>1
<1>3. PICK w : w = [i \in DOMAIN u.wire |-> u.wire[i] - n]
  OBVIOUS
<1>4. w \in [1..Len(u.wire) -> Int] /\ \A i \in 1..Len(u.wire) : w[i] = u.wire[i] - n
  BY <1>2, <1>3
<1>5. w \in Seq(Int) /\ Len(w) = Len(u.wire)
  BY <1>2, <1>4, SMTT(60)
<1>6. PICK due \in Int : due = IF u.tx = <<>> THEN u.due ELSE u.due - n
  BY <1>1
<1>e. u.tx = <<>> <=> Len(u.tx) = 0
  BY <1>1, EmptySeq
<1>7. PICK mark \in Int : mark = IF u.mark - n > -E!Past THEN u.mark - n ELSE -E!Past
  BY <1>1, PastNat
<1>8. e = [u EXCEPT !.wire = w, !.due = due, !.mark = mark]
  BY <1>3, <1>6, <1>7 DEF E!Elapse
<1>9. /\ e.tx = u.tx /\ e.rx = u.rx /\ e.first = u.first /\ e.written = u.written
      /\ e.lag = u.lag /\ e.wire = w /\ e.due = due /\ e.mark = mark /\ e \in Uart
  BY <1>5, <1>8, ZenonT(60) DEF Uart
<1> QED BY <1>4, <1>5, <1>6, <1>7, <1>9, <1>e

LEMMA Positive ==
    /\ Byte \in Nat /\ Sync \in Nat /\ Depth \in Nat /\ FrameLen \in Nat /\ Delay \in Nat
    /\ Loop \in Nat /\ Gap \in Nat
    /\ Byte > 0 /\ Depth > 0 /\ FrameLen > 0 /\ Delay > 0 /\ Loop > 0
BY Numbers

\* The wait of k byte times.
LEMMA ByteTimes ==
    /\ \A k \in Int : k * Byte \in Int
    /\ \A k, l \in Int : (k - l) * Byte = k * Byte - l * Byte
    /\ \A k, l \in Int : k <= l => k * Byte <= l * Byte
    /\ \A k \in Int : k >= 0 => k * Byte >= 0
    /\ 0 * Byte = 0 /\ 1 * Byte = Byte
<1>1. Byte \in Int /\ Byte > 0
  BY Positive
<1>2. \A k \in Int : k * Byte \in Int
  BY <1>1, Times
<1>3. \A k, l, b \in Int : (k - l) * b = k * b - l * b
  OBVIOUS
<1>4. \A k, l \in Int : k <= l => k * Byte <= l * Byte
  <2>1. \A d, b \in Int : d >= 0 /\ b > 0 => d * b >= 0
    OBVIOUS
  <2>2. TAKE k, l \in Int
  <2>3. k <= l => (l - k) * Byte >= 0
    BY <1>1, <2>1
  <2>4. (l - k) * Byte = l * Byte - k * Byte
    BY <1>1, <1>3
  <2> QED BY <1>2, <2>3, <2>4
<1>5. \A k \in Int : k >= 0 => k * Byte >= 0
  <2>1. \A d, b \in Int : d >= 0 /\ b > 0 => d * b >= 0
    OBVIOUS
  <2> QED BY <1>1, <2>1
<1> QED BY <1>1, <1>2, <1>3, <1>4, <1>5

\* The bytes on the wire that have ended are its first ones.
LEMMA ArrivedFirst ==
    ASSUME NEW u \in Uart, Spaced(u)
    PROVE  /\ E!Arrived(u) \in 0..Len(u.wire)
           /\ \A i \in 1..Len(u.wire) : i <= E!Arrived(u) <=> u.wire[i] <= 0
<1> DEFINE S == {i \in DOMAIN u.wire : u.wire[i] <= 0}
<1>1. DOMAIN u.wire = 1..Len(u.wire) /\ Len(u.wire) \in Nat
  BY DEF Uart
<1>2. ASSUME NEW i \in S, NEW j \in 1..i PROVE j \in S
  <2>1. PICK m \in Nat : m = Len(u.wire)
    BY <1>1
  <2>2. i \in 1..m /\ j \in 1..m /\ j <= i /\ u.wire[i] <= 0
    BY <1>1, <2>1
  <2>3. u.wire[i] = u.mark - (m - i) * Byte /\ u.wire[j] = u.mark - (m - j) * Byte
    BY <2>1, <2>2 DEF Spaced
  <2>4. (m - i) * Byte <= (m - j) * Byte /\ (m - i) * Byte \in Int /\ (m - j) * Byte \in Int
    <3>1. PICK a \in Int : a = m - i
      BY <2>2
    <3>2. PICK b \in Int : b = m - j
      BY <2>2
    <3>3. a <= b
      BY <2>2, <3>1, <3>2
    <3> QED BY <3>1, <3>2, <3>3, ByteTimes
  <2>5. u.mark \in Int
    BY DEF Uart
  <2>6. u.wire[j] <= 0
    BY <2>2, <2>3, <2>4, <2>5
  <2> QED BY <1>1, <2>1, <2>2, <2>6
<1>3. Cardinality(S) \in 0..Len(u.wire) /\ S = 1..Cardinality(S)
  BY <1>1, <1>2, Segment
<1>4. E!Arrived(u) = Cardinality(S)
  BY SameCount DEF E!Arrived
<1> QED BY <1>1, <1>3, <1>4

\* After the service the first byte of the FIFO is still to end.
LEMMA ToEnd ==
    ASSUME NEW s \in Uart, E!Ended(s) = 0, Len(s.tx) > 0
    PROVE  s.due > 0
<1>1. s.tx \in Seq(Nat) /\ s.due \in Int /\ Len(s.tx) \in Nat
  BY DEF Uart
<1>2. \A i \in 1..Len(s.tx) : i <= E!Ended(s) <=> s.due + (i - 1) * Byte <= 0
  BY <1>1, EndedSegment
<1>3. 1 \in 1..Len(s.tx) /\ ~(1 <= 0) /\ 1 - 1 = 0
  BY <1>1
<1>4. ~(s.due + (1 - 1) * Byte <= 0)
  BY <1>2, <1>3
<1>5. (1 - 1) * Byte = 0
  BY <1>3, ByteTimes
<1> QED BY <1>1, <1>4, <1>5

\* The service ends the wait for the latency or leaves its phase as it is.
LEMMA ServePhase ==
    ASSUME NEW u \in Uart, NEW f \in Fw, ~u.first, Phase(u, f)
    PROVE  /\ E!ServiceSerial(u).first \/ Phase(E!ServiceSerial(u), f)
           /\ E!Ended(u) > 0 => InTime(u.due - u.mark)
<1>t. PICK T \in Nat : T = Len(u.tx)
  BY DEF Uart
<1>l. PICK L \in Nat : L = Len(u.wire)
  BY DEF Uart
<1>1. PICK n \in 0..T : n = E!Ended(u)
  BY <1>t, EndedCount
<1>2. PICK j \in 0..L : j = E!Arrived(u)
  BY <1>l, ArrivedBounded
<1>3. PICK s : s = E!ServiceSerial(u)
  OBVIOUS
<1>b. PICK k \in 0..Len(u.tx) : k = E!Ended(u)
  BY EndedCount
<1>d. PICK h \in 0..Len(u.wire) : h = E!Arrived(u)
  BY ArrivedBounded
<1>f. /\ s \in Uart /\ Len(s.tx) = Len(u.tx) - k /\ Len(s.wire) = Len(u.wire) - h
      /\ s.rx = (IF u.rx + h <= Depth THEN u.rx + h ELSE Depth)
      /\ s.due = (IF k = Len(u.tx) THEN Byte ELSE u.due + k * Byte)
      /\ s.first = (u.first \/ k > 0) /\ s.mark = u.mark
      /\ s.wire = SubSeq(u.wire, h + 1, Len(u.wire))
  BY <1>b, <1>d, <1>3, ServedFields
<1>4. /\ s \in Uart /\ Len(s.tx) = T - n /\ Len(s.wire) = L - j
      /\ s.rx = (IF u.rx + j <= Depth THEN u.rx + j ELSE Depth)
      /\ s.due = (IF n = T THEN Byte ELSE u.due + n * Byte)
      /\ s.first = (u.first \/ n > 0) /\ s.mark = u.mark
  BY <1>t, <1>l, <1>1, <1>2, <1>b, <1>d, <1>f
<1>w. s.wire = SubSeq(u.wire, j + 1, L) /\ u.wire \in Seq(Int)
  BY <1>l, <1>2, <1>d, <1>f DEF Uart
<1>5. PICK r \in Int : r = u.rx
  BY DEF Uart
<1>6. PICK c \in Nat : c = f.count
  BY DEF Fw
<1>7. PICK N \in Nat : N = FrameLen /\ N > 0
  BY Positive
<1>8. PICK D \in Nat : D = Depth /\ D > 0
  BY Positive
<1>m. u.mark \in Int /\ u.due \in Int
  BY DEF Uart
<1>q. s.rx = (IF r + j <= D THEN r + j ELSE D) /\ s.rx \in Int
  BY <1>4, <1>5, <1>8
<1>a. Alone(u, f) => Alone(s, f)
  <2>1. ASSUME r = 0, L = 0 PROVE s.rx = 0 /\ Len(s.wire) = 0
    <3>1. j = 0
      BY <2>1
    <3>2. r + j <= D /\ r + j = 0 /\ L - j = 0
      BY <1>8, <2>1, <3>1
    <3> QED BY <1>4, <1>q, <3>2
  <2> QED BY <1>l, <1>5, <2>1 DEF Alone
<1>e. T = 0 => n = 0 /\ T - n = 0
  BY <1>t, <1>1
<1>9. CASE Lost(u, f)
  <2>1. T = 0 /\ c + r + L < N /\ f.at = "listen"
    BY <1>t, <1>l, <1>5, <1>6, <1>7, <1>9 DEF Lost
  <2>2. c + s.rx + (L - j) < N
    BY <1>q, <2>1
  <2>3. Lost(s, f)
    BY <1>4, <1>6, <1>7, <1>e, <2>1, <2>2 DEF Lost
  <2> QED BY <1>1, <1>3, <1>e, <2>1, <2>3 DEF Phase
<1>10. CASE Arriving(u, f)
  <2>1. T = 0 /\ f.at = "listen" /\ c < N /\ r >= 0 /\ c + r + L = N /\ Spaced(u)
    BY <1>t, <1>l, <1>5, <1>6, <1>7, <1>10 DEF Arriving
  <2>2. \A i \in 1..L : i <= j <=> u.wire[i] <= 0
    BY <1>l, <1>2, <2>1, ArrivedFirst
  <2>4. CASE r + j > D
    <3>1. c + s.rx + (L - j) < N
      BY <1>q, <2>1, <2>4
    <3>2. Lost(s, f)
      BY <1>4, <1>6, <1>7, <1>e, <2>1, <3>1 DEF Lost
    <3> QED BY <1>1, <1>3, <1>e, <2>1, <3>2 DEF Phase
  <2>5. CASE r + j <= D
    <3>1. s.rx = r + j /\ s.rx >= 0 /\ c + s.rx + (L - j) = N
      BY <1>q, <2>1, <2>5
    <3>2. ASSUME NEW i \in 1..(L - j) PROVE s.wire[i] = s.mark - ((L - j) - i) * Byte
      <4>1. j + i \in 1..L /\ (L - j) - i = L - (j + i)
        OBVIOUS
      <4>2. s.wire[i] = u.wire[j + i]
        BY <1>l, <1>w, Cut
      <4>3. u.wire[j + i] = u.mark - (L - (j + i)) * Byte
        BY <1>l, <2>1, <4>1 DEF Spaced
      <4> QED BY <1>4, <4>1, <4>2, <4>3
    <3>3. L - j < N => s.mark <= (L - j) * Byte
      <4>1. CASE j = 0
        <5>1. L < N => u.mark <= L * Byte
          BY <1>l, <1>7, <2>1 DEF Spaced
        <5> QED BY <1>4, <4>1, <5>1
      <4>2. CASE j > 0
        <5>1. j \in 1..L
          BY <4>2
        <5>2. u.wire[j] <= 0 /\ u.wire[j] = u.mark - (L - j) * Byte
          BY <1>l, <2>1, <2>2, <5>1 DEF Spaced
        <5>3. (L - j) * Byte \in Int
          BY ByteTimes
        <5> QED BY <1>4, <1>m, <5>2, <5>3
      <4> QED BY <4>1, <4>2
    <3>4. s.mark - (FrameLen - f.count - 1) * Byte >= 1 - Loop - Spun(f)
      BY <1>4, <1>10 DEF Arriving
    <3>5. Spaced(s)
      BY <1>4, <1>7, <3>2, <3>3 DEF Spaced
    <3>6. Arriving(s, f)
      BY <1>4, <1>6, <1>7, <1>e, <2>1, <3>1, <3>4, <3>5 DEF Arriving
    <3> QED BY <1>1, <1>3, <1>e, <2>1, <3>6 DEF Phase
  <2> QED BY <2>4, <2>5
<1>11. CASE Waiting(u, f)
  <2>1. T = 0
    BY <1>t, <1>11 DEF Waiting
  <2>2. Waiting(s, f)
    BY <1>4, <1>a, <1>e, <1>11, <2>1 DEF Waiting
  <2> QED BY <1>1, <1>3, <1>e, <2>1, <2>2 DEF Phase
<1>12. CASE Driving(u, f)
  <2>1. T = 0
    BY <1>t, <1>12 DEF Driving
  <2>2. Driving(s, f)
    BY <1>4, <1>a, <1>e, <1>12, <2>1 DEF Driving
  <2> QED BY <1>1, <1>3, <1>e, <2>1, <2>2 DEF Phase
<1>13. CASE Sending(u, f)
  <2>1. CASE n > 0
    BY <1>1, <1>3, <1>4, <1>13, <2>1 DEF Sending
  <2>2. CASE n = 0
    <3>1. T > 0
      BY <1>t, <1>13 DEF Sending
    <3>2. 0 * Byte = 0
      BY ByteTimes
    <3>3. s.due = u.due /\ Len(s.tx) > 0
      BY <1>4, <1>m, <2>2, <3>1, <3>2
    <3>4. Sending(s, f)
      BY <1>4, <1>a, <1>13, <3>3 DEF Sending
    <3> QED BY <1>1, <1>3, <2>2, <3>4 DEF Phase
  <2> QED BY <2>1, <2>2
<1> QED BY <1>9, <1>10, <1>11, <1>12, <1>13 DEF Phase

\* The end of a request that is owed a reply is not forgotten in a tick, a sleep or a gap.
LEMMA Unclipped ==
    ASSUME NEW u \in Uart, NEW n \in Nat, n <= Loop \/ n <= Gap,
           u.mark + Sync + Delay + Byte + 2 * Loop + 1 > 0
    PROVE  E!Elapse(u, n).mark = u.mark - n
<1>1. PICK p \in Nat : p = E!Past /\ p = Delay + Byte + 3 * Loop + 1 + Sync + Gap
  BY PastNat
<1>2. PICK m \in Int : m = u.mark
  BY DEF Uart
<1>3. m - n > -p
  BY <1>1, <1>2, Positive
<1>4. E!Elapse(u, n).mark = (IF u.mark - n > -E!Past THEN u.mark - n ELSE -E!Past)
  BY ElapsedFields
<1> QED BY <1>1, <1>2, <1>3, <1>4

\* The first byte of the reply in time stays so, and the end it answers remembered.
LEMMA InTimeElapses ==
    ASSUME NEW u \in Uart, NEW n \in Nat, n <= Loop \/ n <= Gap, Len(u.tx) > 0,
           InTime(u.due - u.mark), u.lag <= Sync, u.due > 0 - u.lag
    PROVE  InTime(E!Elapse(u, n).due - E!Elapse(u, n).mark)
<1>1. u.mark \in Int /\ u.due \in Int /\ u.lag \in Nat /\ Len(u.tx) \in Nat
  BY DEF Uart
<1>2. u.mark + Sync + Delay + Byte + 2 * Loop + 1 > 0
  <2>1. PICK m \in Int : m = u.mark
    BY <1>1
  <2>2. PICK d \in Int : d = u.due
    BY <1>1
  <2>3. d > 0 - Sync /\ d - m <= Delay + Byte + 2 * Loop + 1
    BY <1>1, <2>1, <2>2, Positive DEF InTime
  <2>4. m + Sync + Delay + Byte + 2 * Loop + 1 > 0
    BY <2>3, Positive
  <2> QED BY <2>1, <2>4
<1>3. E!Elapse(u, n).mark = u.mark - n
  BY <1>2, Unclipped
<1>4. E!Elapse(u, n).due = u.due - n
  <2>1. E!Elapse(u, n).due = (IF Len(u.tx) = 0 THEN u.due ELSE u.due - n)
    BY ElapsedFields
  <2>2. Len(u.tx) # 0
    BY <1>1
  <2> QED BY <2>1, <2>2
<1>5. (u.due - n) - (u.mark - n) = u.due - u.mark
  BY <1>1
<1> QED BY <1>3, <1>4, <1>5

\* A spin (one tick, not twice in a row unless it waits for the FIFO) and a sleep (Loop
\* ticks, not on a byte that is there) leave a request in its phase.
Spinning(u, f) == \/ ~f.spun
                  \/ f.at = "send" /\ Len(u.tx) = Depth
                  \/ f.at = "drain" /\ u.tx # <<>>
Sleeping(u, f) == \/ f.at = "listen" /\ E!ServiceSerial(u).rx = 0
                  \/ f.at = "wait" /\ f.wait > 0
LEMMA TickPhase ==
    ASSUME NEW u \in Uart, NEW f \in Fw, NEW g \in Fw, NEW n \in Nat, ~u.first, Phase(u, f),
           u.lag <= Sync, Len(u.tx) > 0 => u.due > 0 - u.lag,
           g.at = f.at, g.count = f.count, g.wait = E!Less(f.wait, n),
           \/ n = 1 /\ g.spun /\ Spinning(u, f)
           \/ n = Loop /\ ~g.spun /\ Sleeping(u, f)
    PROVE  Phase(E!Elapse(u, n), g)
<1>t. PICK T \in Nat : T = Len(u.tx)
  BY DEF Uart
<1>l. PICK L \in Nat : L = Len(u.wire)
  BY DEF Uart
<1>3. PICK e : e = E!Elapse(u, n)
  OBVIOUS
<1>4. /\ e \in Uart /\ Len(e.tx) = T /\ Len(e.wire) = L /\ e.rx = u.rx
      /\ \A i \in 1..L : e.wire[i] = u.wire[i] - n
  BY <1>t, <1>l, <1>3, ElapsedFields
<1>5. PICK m \in Int : m = u.mark
  BY DEF Uart
<1>6. PICK c \in Nat : c = f.count
  BY DEF Fw
<1>7. /\ n <= Loop /\ n > 0
      /\ n = 1 \/ n = Loop
  BY Positive
<1>8. m + Sync + Delay + Byte + 2 * Loop + 1 > 0 => e.mark = m - n
  BY <1>3, <1>5, <1>7, Unclipped
<1>n. PICK N \in Nat : N = FrameLen /\ N > 0
  BY Positive
<1>s. PICK x \in Int : x = Spun(f) /\ x \in {0, 1} /\ (f.spun <=> x = 1)
  BY DEF Spun, Fw
<1>g. PICK y \in Int : y = Spun(g) /\ (n = 1 /\ g.spun => y = 1) /\ y \in {0, 1}
                     /\ (g.spun <=> y = 1)
  BY DEF Spun, Fw
<1>a. Alone(u, f) => Alone(e, g)
  BY <1>4, <1>l DEF Alone
<1>9. CASE Lost(u, f)
  BY <1>3, <1>4, <1>t, <1>l, <1>9 DEF Lost, Phase
<1>10. CASE Arriving(u, f)
  <2>1. T = 0 /\ f.at = "listen" /\ c < N /\ u.rx >= 0 /\ c + u.rx + L = N /\ Spaced(u)
    BY <1>t, <1>l, <1>6, <1>n, <1>10 DEF Arriving
  <2>2. PICK k \in Int : k = (N - c - 1) * Byte /\ k >= 0
    <3>1. PICK d \in Int : d = N - c - 1 /\ 0 <= d
      BY <2>1
    <3>2. d * Byte >= 0 /\ d * Byte \in Int
      BY <3>1, ByteTimes
    <3> QED BY <3>1, <3>2
  <2>3. m - k >= 1 - Loop - x
    BY <1>5, <1>6, <1>n, <1>s, <1>10, <2>2 DEF Arriving
  <2>4. e.mark = m - n
    BY <1>8, <1>s, <2>2, <2>3, Positive, SMTT(60)
  <2>5. ASSUME NEW i \in 1..L PROVE e.wire[i] = e.mark - (L - i) * Byte
    <3>1. u.wire[i] = m - (L - i) * Byte
      BY <1>l, <1>5, <2>1 DEF Spaced
    <3>2. (L - i) * Byte \in Int
      BY ByteTimes
    <3> QED BY <1>4, <2>4, <3>1, <3>2, SMTT(60)
  <2>6. L < N => e.mark <= L * Byte
    <3>1. L < N => m <= L * Byte
      BY <1>l, <1>5, <1>n, <2>1 DEF Spaced
    <3>2. L * Byte \in Int
      BY ByteTimes
    <3> QED BY <2>4, <3>1, <3>2
  <2>7. Spaced(e)
    BY <1>4, <1>n, <2>5, <2>6 DEF Spaced
  <2>8. (m - n) - k >= 1 - Loop - y
    <3>1. CASE n = 1 /\ g.spun /\ Spinning(u, f)
      <4>1. ~f.spun
        BY <2>1, <3>1 DEF Spinning
      <4> QED BY <1>s, <1>g, <2>2, <2>3, <3>1, <4>1, Positive
    <3>2. CASE n = Loop /\ ~g.spun /\ Sleeping(u, f)
      <4>1. E!ServiceSerial(u).rx = 0
        BY <2>1, <3>2 DEF Sleeping
      <4>2. PICK j \in 0..L : j = E!Arrived(u)
        BY <1>l, ArrivedBounded
      <4>3. E!ServiceSerial(u).rx = (IF u.rx + j <= Depth THEN u.rx + j ELSE Depth)
        <5>1. PICK q \in 0..Len(u.tx) : q = E!Ended(u)
          BY EndedCount
        <5> QED BY <1>l, <4>2, <5>1, ServedFields
      <4>4. u.rx = 0 /\ j = 0
        <5>1. PICK r \in Int : r = u.rx
          BY DEF Uart
        <5> QED BY <2>1, <4>1, <4>2, <4>3, <5>1, Positive, SMTT(30)
      <4>5. 1 \in 1..L /\ L - 1 = N - c - 1
        BY <1>l, <2>1, <4>4
      <4>6. ~(u.wire[1] <= 0)
        <5>1. \A i \in 1..L : i <= j <=> u.wire[i] <= 0
          BY <1>l, <2>1, <4>2, ArrivedFirst
        <5>2. ~(1 <= j)
          BY <4>4
        <5> QED BY <4>5, <5>1, <5>2
      <4>7. u.wire[1] = m - k
        BY <1>l, <1>5, <2>1, <2>2, <4>5 DEF Spaced
      <4>8. m - k > 0
        BY <2>2, <4>6, <4>7
      <4> QED BY <1>g, <2>2, <3>2, <4>8, Positive
    <3> QED BY <3>1, <3>2
  <2>9. e.mark - (FrameLen - g.count - 1) * Byte >= 1 - Loop - Spun(g)
    BY <1>6, <1>n, <1>g, <2>2, <2>4, <2>8
  <2>10. Arriving(e, g)
    BY <1>4, <1>6, <1>n, <2>1, <2>7, <2>9 DEF Arriving
  <2> QED BY <1>3, <2>10 DEF Phase
<1>11. CASE Waiting(u, f)
  <2>1. T = 0 /\ f.at = "wait" /\ Alone(e, g)
    BY <1>t, <1>a, <1>11 DEF Waiting
  <2>2. PICK w \in Nat : w = f.wait
    BY DEF Fw
  <2>3. /\ w > 0 => 0 <= w - m - Delay /\ w - m - Delay <= Loop
        /\ w = 0 => 0 <= 0 - m - Delay /\ 0 - m - Delay <= 2 * Loop - 1 + x
    BY <1>5, <1>s, <1>11, <2>2 DEF Waiting
  <2>4. e.mark = m - n
    BY <1>8, <1>s, <2>3, Positive
  <2>5. g.wait = (IF w > n THEN w - n ELSE 0)
    BY <2>2 DEF E!Less
  <2>6. w = 0 => n = 1 /\ x = 0 /\ y = 1
    BY <1>s, <1>g, <2>1, <2>2 DEF Sleeping, Spinning
  <2>7. PICK v \in Nat : v = g.wait
    BY DEF Fw
  <2>8. /\ v > 0 => 0 <= v - (m - n) - Delay /\ v - (m - n) - Delay <= Loop
        /\ v = 0 => 0 <= 0 - (m - n) - Delay /\ 0 - (m - n) - Delay <= 2 * Loop - 1 + y
    <3>1. CASE w > n
      BY <2>3, <2>5, <2>7, <3>1
    <3>2. CASE w = 0
      BY <2>3, <2>5, <2>6, <2>7, <3>2, Positive
    <3>3. CASE w > 0 /\ w <= n
      <4>1. v = 0
        BY <2>5, <2>7, <3>3
      <4>2. 0 <= 0 - (m - n) - Delay
        BY <2>3, <3>3, Positive
      <4>3. CASE n = Loop
        BY <1>g, <2>3, <3>3, <4>1, <4>2, <4>3, Positive
      <4>4. CASE n = 1
        BY <1>g, <2>3, <3>3, <4>1, <4>2, <4>4, Positive
      <4> QED BY <1>7, <4>3, <4>4
    <3> QED BY <3>1, <3>2, <3>3
  <2>9. Waiting(e, g)
    BY <1>4, <1>g, <2>1, <2>4, <2>7, <2>8 DEF Waiting
  <2> QED BY <1>3, <2>9 DEF Phase
<1>12. CASE Driving(u, f)
  <2>1. T = 0 /\ f.at = "send" /\ Alone(e, g)
    BY <1>t, <1>a, <1>12 DEF Driving
  <2>2. 0 <= 0 - m - Delay /\ 0 - m - Delay <= 2 * Loop + x
    BY <1>5, <1>s, <1>12 DEF Driving
  <2>3. e.mark = m - n
    BY <1>8, <1>s, <2>2, Positive
  <2>4. n = 1 /\ x = 0 /\ y = 1
    <3>1. T # Depth
      BY <2>1, Positive
    <3> QED BY <1>t, <1>s, <1>g, <2>1, <3>1 DEF Sleeping, Spinning
  <2>5. 0 <= 0 - (m - n) - Delay /\ 0 - (m - n) - Delay <= 2 * Loop + y
    BY <2>2, <2>4, Positive
  <2>6. Driving(e, g)
    BY <1>4, <1>g, <2>1, <2>3, <2>5 DEF Driving
  <2> QED BY <1>3, <2>6 DEF Phase
<1>13. CASE Sending(u, f)
  <2>1. InTime(e.due - e.mark)
    BY <1>3, <1>7, <1>13, InTimeElapses DEF Sending
  <2>2. Sending(e, g)
    BY <1>4, <1>t, <1>a, <1>13, <2>1 DEF Sending
  <2> QED BY <1>3, <2>2 DEF Phase
<1> QED BY <1>9, <1>10, <1>11, <1>12, <1>13 DEF Phase

\* What is recorded is in time if the first byte has ended in time.
LEMMA RecordedOK ==
    ASSUME mixed \in BOOLEAN, LatOK(lat), NEW u \in Uart,
           u.first = uart.first, u.written = uart.written,
           Owed(mixed, uart) /\ E!Ended(u) > 0 => InTime(u.due - u.mark)
    PROVE  LatOK(E!Recorded(u))
<1>1. CASE E!Ended(u) > 0 /\ ~u.first /\ u.written
  <2>1. E!Recorded(u) = [us |-> u.due - u.mark, mixed |-> mixed]
    BY <1>1 DEF E!Recorded
  <2>2. u.due \in Int /\ u.mark \in Int
    BY DEF Uart
  <2>3. PICK d \in Int : d = u.due - u.mark
    BY <2>2
  <2>4. E!Recorded(u).us = d /\ E!Recorded(u).mixed = mixed
    BY <2>1, <2>3
  <2>5. ~mixed => InTime(d)
    BY <1>1, <2>3 DEF Owed
  <2> QED BY <2>4, <2>5 DEF LatOK
<1>2. CASE ~(E!Ended(u) > 0 /\ ~u.first /\ u.written)
  BY <1>2 DEF E!Recorded
<1> QED BY <1>1, <1>2

\* A phase depends on these fields alone.
LEMMA PhaseOf ==
    ASSUME NEW u, NEW v, NEW f, v.tx = u.tx, v.wire = u.wire, v.rx = u.rx, v.due = u.due,
           v.mark = u.mark
    PROVE  Phase(u, f) => Phase(v, f)
BY DEF Phase, Lost, Arriving, Spaced, Waiting, Driving, Sending, Alone

\* The service keeps the invariant of the latency but for the caller.
LEMMA ServiceLat ==
    ASSUME EmuInv, LatInv
    PROVE  /\ LatOK(E!Recorded(uart)) /\ UartOK(E!ServiceSerial(uart))
           /\ Owed(mixed, E!ServiceSerial(uart)) => Owed(mixed, uart)
                                                  /\ Phase(E!ServiceSerial(uart), fw)
<1>1. PICK n \in 0..Len(uart.tx) : n = E!Ended(uart)
  BY EndedCount DEF EmuInv
<1>2. PICK j \in 0..Len(uart.wire) : j = E!Arrived(uart)
  BY ArrivedBounded DEF EmuInv
<1>3. PICK s : s = E!ServiceSerial(uart)
  OBVIOUS
<1>4. /\ s \in Uart /\ E!Ended(s) = 0 /\ s.first = (uart.first \/ n > 0)
      /\ s.written = uart.written /\ s.lag = uart.lag
  BY <1>1, <1>2, <1>3, ServedFields DEF EmuInv
<1>5. UartOK(s)
  <2>1. Len(s.tx) > 0 => s.due > 0
    BY <1>4, ToEnd
  <2>2. s.lag \in Nat /\ s.due \in Int
    BY <1>4 DEF Uart
  <2> QED BY <1>4, <2>1, <2>2 DEF UartOK, LatInv
<1>6. uart \in Uart /\ fw \in Fw /\ uart.first \in BOOLEAN /\ s.first \in BOOLEAN
  BY <1>4 DEF EmuInv, Uart
<1>7. Owed(mixed, s) => Owed(mixed, uart)
  BY <1>4, <1>6 DEF Owed
<1>8. Owed(mixed, uart) =>
         (s.first \/ Phase(s, fw)) /\ (E!Ended(uart) > 0 => InTime(uart.due - uart.mark))
  BY <1>3, <1>6, ServePhase DEF LatInv, Owed
<1>9. Owed(mixed, s) => Phase(s, fw)
  BY <1>7, <1>8 DEF Owed
<1>10. LatOK(E!Recorded(uart))
  BY <1>6, <1>8, RecordedOK DEF LatInv
<1> QED BY <1>3, <1>5, <1>7, <1>9, <1>10

\* Time that passes records a latency in time, if one is recorded.
LEMMA ClockLat ==
    ASSUME EmuInv, LatInv, NEW n \in Nat, n <= Loop \/ n <= Gap, NEW b \in BOOLEAN,
           NEW lag \in Nat, lag <= Sync, ~b => lag = uart.lag + n, E!Clock(n, b, lag)
    PROVE  LatOK(lat') /\ UartOK(uart')
<1>1. PICK e \in Uart : e = E!Elapse(uart, n)
  BY Elapsed DEF EmuInv
<1>2. /\ e.tx = uart.tx /\ e.first = uart.first /\ e.written = uart.written
      /\ e.due = (IF Len(uart.tx) = 0 THEN uart.due ELSE uart.due - n)
  BY <1>1, ElapsedFields DEF EmuInv
<1>3. uart \in Uart /\ uart.lag \in Nat /\ uart.due \in Int /\ Len(uart.tx) \in Nat
      /\ fw \in Fw
  BY DEF EmuInv, Uart
<1>4. CASE b
  <2>1. PICK s \in Uart : s = E!ServiceSerial(e) /\ E!Ended(s) = 0
    <3>1. PICK k \in 0..Len(e.tx) : k = E!Ended(e)
      BY EndedCount
    <3> QED BY <3>1, Serviced
  <2>2. uart' = [s EXCEPT !.lag = lag] /\ lat' = E!Recorded(e)
    BY <1>1, <1>4, <2>1 DEF E!Clock
  <2>3. uart'.lag = lag /\ uart'.tx = s.tx /\ uart'.due = s.due
    BY <2>2 DEF Uart
  <2>4. UartOK(uart')
    <3>1. Len(s.tx) > 0 => s.due > 0
      BY <2>1, ToEnd
    <3>2. s.due \in Int
      BY DEF Uart
    <3> QED BY <2>3, <3>1, <3>2 DEF UartOK
  <2>5. ASSUME Owed(mixed, uart), E!Ended(e) > 0 PROVE InTime(e.due - e.mark)
    <3>1. Len(uart.tx) > 0
      <4>1. E!Ended(e) \in 0..Len(e.tx)
        BY EndedCount
      <4> QED BY <1>2, <1>3, <2>5, <4>1
    <3>2. Sending(uart, fw)
      BY <2>5, <3>1 DEF LatInv, Phase, Lost, Arriving, Waiting, Driving
    <3> QED BY <1>1, <1>3, <3>1, <3>2, InTimeElapses DEF Sending, LatInv, UartOK
  <2>6. LatOK(lat')
    BY <1>2, <2>2, <2>5, RecordedOK DEF LatInv
  <2> QED BY <2>4, <2>6
<1>5. CASE ~b
  <2>1. uart' = [e EXCEPT !.lag = lag] /\ lat' = lat
    BY <1>1, <1>5 DEF E!Clock
  <2>2. uart'.lag = lag /\ uart'.tx = e.tx /\ uart'.due = e.due
    BY <2>1 DEF Uart
  <2>3. UartOK(uart')
    BY <1>2, <1>3, <1>5, <2>2 DEF UartOK, LatInv
  <2> QED BY <2>1, <2>3 DEF LatInv
<1> QED BY <1>4, <1>5

\* What is owed after it was owed before, and is in the phase that the time left it in.
LEMMA ClockPhase ==
    ASSUME EmuInv, NEW n \in Nat, NEW b \in BOOLEAN, NEW lag \in Nat, E!Clock(n, b, lag),
           NEW m \in BOOLEAN, NEW f \in Fw,
           Owed(m, uart) => Phase(E!Elapse(uart, n), f)
    PROVE  Owed(m, uart') => Phase(uart', f)
<1>1. PICK e \in Uart : e = E!Elapse(uart, n)
  BY Elapsed DEF EmuInv
<1>2. e.first = uart.first /\ e.written = uart.written
  BY <1>1, ElapsedFields DEF EmuInv
<1>3. CASE b
  <2>1. PICK k \in 0..Len(e.tx) : k = E!Ended(e)
    BY EndedCount
  <2>2. PICK j \in 0..Len(e.wire) : j = E!Arrived(e)
    BY ArrivedBounded
  <2>3. PICK s \in Uart : /\ s = E!ServiceSerial(e) /\ s.first = (e.first \/ k > 0)
                         /\ s.written = e.written
    BY <2>1, <2>2, ServedFields
  <2>4. uart' = [s EXCEPT !.lag = lag]
    BY <1>1, <1>3, <2>3 DEF E!Clock
  <2>5. /\ uart'.tx = s.tx /\ uart'.wire = s.wire /\ uart'.rx = s.rx /\ uart'.due = s.due
        /\ uart'.mark = s.mark /\ uart'.first = s.first /\ uart'.written = s.written
    BY <2>4 DEF Uart
  <2>6. e.first \in BOOLEAN
    BY DEF Uart
  <2>7. Owed(m, uart') => Owed(m, uart) /\ ~e.first /\ ~s.first
    BY <1>2, <2>3, <2>5, <2>6 DEF Owed
  <2>8. Phase(e, f) /\ ~e.first => s.first \/ Phase(s, f)
    BY <2>3, ServePhase
  <2>9. Phase(s, f) => Phase(uart', f)
    BY <2>5, PhaseOf
  <2> QED BY <1>1, <2>7, <2>8, <2>9
<1>4. CASE ~b
  <2>1. uart' = [e EXCEPT !.lag = lag]
    BY <1>1, <1>4 DEF E!Clock
  <2>2. /\ uart'.tx = e.tx /\ uart'.wire = e.wire /\ uart'.rx = e.rx /\ uart'.due = e.due
        /\ uart'.mark = e.mark /\ uart'.first = e.first /\ uart'.written = e.written
    BY <2>1 DEF Uart
  <2>3. Owed(m, uart') => Owed(m, uart)
    BY <1>2, <2>2 DEF Owed
  <2>4. Phase(e, f) => Phase(uart', f)
    BY <2>2, PhaseOf
  <2> QED BY <1>1, <2>3, <2>4
<1> QED BY <1>3, <1>4

\* Every step of the emulator keeps the invariant of the latency.
LEMMA LatStep == EmuInv /\ EmuInv' /\ LatInv /\ [E!Next]_emuVars => LatInv'
<1> SUFFICES ASSUME EmuInv, EmuInv', LatInv, [E!Next]_emuVars PROVE LatInv'
  OBVIOUS
<1>t. /\ uart \in Uart /\ uart' \in Uart /\ fw \in Fw /\ fw' \in Fw
      /\ caller \in Caller /\ caller' \in Caller
  BY DEF EmuInv
<1>l. /\ mixed \in BOOLEAN /\ LatOK(lat) /\ UartOK(uart)
      /\ (caller.at \in {"settle", "extra", "skip"} => caller.left <= Gap)
      /\ (Owed(mixed, uart) => Phase(uart, fw))
  BY DEF LatInv
<1>s. PICK s : /\ s = E!ServiceSerial(uart) /\ s \in Uart /\ UartOK(s)
              /\ (Owed(mixed, s) => Owed(mixed, uart) /\ Phase(s, fw))
  BY ServiceLat, ServicedNow
<1>r. LatOK(E!Recorded(uart))
  BY ServiceLat
<1>n. FrameLen \in Nat /\ FrameLen > 0 /\ Gap \in Nat /\ Depth > 0 /\ Loop \in Nat /\ Sync \in Nat
  BY Positive
\* the firmware's time
<1>b. ASSUME NEW n \in Nat, n = 1 \/ n = Loop, NEW b \in BOOLEAN, NEW lag \in Nat, lag <= Sync,
             ~b => lag = uart.lag + n, E!Clock(n, b, lag), UNCHANGED mixed,
             fw'.at = fw.at, fw'.count = fw.count, fw'.wait = E!Less(fw.wait, n),
             \/ n = 1 /\ fw'.spun /\ Spinning(uart, fw)
             \/ n = Loop /\ ~fw'.spun /\ Sleeping(uart, fw),
             caller' = [caller EXCEPT !.left = E!Less(caller.left, n)]
      PROVE  LatInv'
  <2>1. n <= Loop
    BY <1>b, Positive
  <2>2. LatOK(lat') /\ UartOK(uart')
    BY <1>b, <2>1, ClockLat
  <2>3. Owed(mixed, uart) => Phase(E!Elapse(uart, n), fw')
    BY <1>b, <1>t, <1>l, TickPhase DEF Owed, UartOK
  <2>4. Owed(mixed', uart') => Phase(uart', fw')
    BY <1>b, <1>t, <1>l, <2>3, ClockPhase
  <2>5. caller'.at = caller.at /\ caller'.left <= caller.left /\ caller.left \in Nat
    <3>1. caller.left \in Nat /\ caller'.left \in Nat
      BY <1>t DEF Caller
    <3>2. caller'.at = caller.at /\ caller'.left = E!Less(caller.left, n)
      BY <1>t, <1>b DEF Caller
    <3> QED BY <1>b, <3>1, <3>2 DEF E!Less
  <2>6. caller'.at \in {"settle", "extra", "skip"} => caller'.left <= Gap
    <3>1. caller'.left \in Nat
      BY <1>t DEF Caller
    <3> QED BY <1>l, <1>n, <2>5, <3>1
  <2>7. mixed' \in BOOLEAN
    BY <1>b, <1>l
  <2> QED BY <2>2, <2>4, <2>6, <2>7 DEF LatInv
\* a register or a reading of the clock after the service
<1>c. ASSUME lat' = E!Recorded(uart), UNCHANGED <<caller, mixed>>, UartOK(uart'),
             Owed(mixed, uart') => Phase(uart', fw')
      PROVE  LatInv'
  BY <1>c, <1>l, <1>r DEF LatInv
<1>1. CASE E!Spin
  <2>1. /\ fw' = [fw EXCEPT !.wait = E!Less(fw.wait, 1), !.spun = TRUE]
        /\ caller' = [caller EXCEPT !.left = E!Less(caller.left, 1)]
        /\ UNCHANGED mixed /\ Spinning(uart, fw)
    BY <1>1 DEF E!Spin, Spinning
  <2>2. fw'.at = fw.at /\ fw'.count = fw.count /\ fw'.wait = E!Less(fw.wait, 1) /\ fw'.spun
    BY <1>t, <2>1 DEF Fw
  <2>3. uart.lag \in Nat
    BY <1>t DEF Uart
  <2>4. CASE uart.lag + 1 >= Sync
    <3>1. E!Clock(1, TRUE, 0)
      BY <1>1, <2>4 DEF E!Spin
    <3>2. PICK lag \in Nat : lag = 0 /\ lag <= Sync
      BY <1>n
    <3>3. E!Clock(1, TRUE, lag)
      BY <3>1, <3>2
    <3> QED BY <1>b, <2>1, <2>2, <3>2, <3>3
  <2>5. CASE ~(uart.lag + 1 >= Sync)
    <3>1. E!Clock(1, FALSE, uart.lag + 1)
      BY <1>1, <2>5 DEF E!Spin
    <3>2. PICK lag \in Nat : lag = uart.lag + 1 /\ lag <= Sync
      BY <1>n, <2>3, <2>5
    <3> QED BY <1>b, <2>1, <2>2, <3>1, <3>2
  <2> QED BY <2>4, <2>5
<1>2. CASE E!Sleep
  <2>1. /\ fw' = [fw EXCEPT !.wait = E!Less(fw.wait, Loop), !.spun = FALSE]
        /\ caller' = [caller EXCEPT !.left = E!Less(caller.left, Loop)]
        /\ UNCHANGED mixed /\ Sleeping(uart, fw) /\ E!Clock(Loop, TRUE, E!Later(Loop))
    BY <1>2 DEF E!Sleep, Sleeping
  <2>2. fw'.at = fw.at /\ fw'.count = fw.count /\ fw'.wait = E!Less(fw.wait, Loop) /\ ~fw'.spun
    BY <1>t, <2>1 DEF Fw
  <2>3. PICK lag \in Nat : lag = E!Later(Loop) /\ lag <= Sync
    <3>1. E!Later(Loop) \in Nat
      BY <1>t, <1>n, LaterNat
    <3>2. E!Later(Loop) <= Sync
      <4>1. uart.lag \in Nat
        BY <1>t DEF Uart
      <4> QED BY <1>n, <4>1 DEF E!Later
    <3> QED BY <3>1, <3>2
  <2> QED BY <1>b, <1>n, <2>1, <2>2, <2>3
<1>3. CASE E!Take
  <2>1. PICK r \in Int : r = s.rx /\ r > 0
    BY <1>3, <1>s DEF E!Take, E!Accessed, Uart
  <2>2. uart' = [s EXCEPT !.rx = r - 1]
    BY <1>3, <1>s, <2>1 DEF E!Take, E!Touch, E!ReadFifo, E!Accessed
  <2>3. /\ fw.at = "listen" /\ lat' = E!Recorded(uart) /\ UNCHANGED <<caller, mixed>>
        /\ fw' = [(IF fw.count + 1 < FrameLen THEN [fw EXCEPT !.count = @ + 1]
                  ELSE [fw EXCEPT !.at = "wait", !.count = 0, !.wait = Delay]) EXCEPT !.spun = FALSE]
    BY <1>3 DEF E!Take, E!Touch
  <2>4. /\ uart'.tx = s.tx /\ uart'.due = s.due /\ uart'.wire = s.wire /\ uart'.rx = r - 1
        /\ uart'.mark = s.mark /\ uart'.first = s.first /\ uart'.written = s.written
        /\ uart'.lag = s.lag
    BY <1>s, <2>2 DEF Uart
  <2>5. UartOK(uart')
    BY <1>s, <2>4 DEF UartOK
  <2>6. ASSUME Owed(mixed, uart') PROVE Phase(uart', fw')
    <3>1. Phase(s, fw)
      BY <1>s, <2>4, <2>6 DEF Owed
    <3>2. PICK c \in Nat : c = fw.count
      BY <1>t DEF Fw
    <3>3. PICK L \in Nat : L = Len(s.wire)
      BY <1>s DEF Uart
    <3>4. PICK m \in Int : m = s.mark
      BY <1>s DEF Uart
    <3>5. CASE Lost(s, fw)
      <4>1. c + r + L < FrameLen /\ Len(s.tx) = 0
        BY <2>1, <3>2, <3>3, <3>5 DEF Lost
      <4>2. c + 1 < FrameLen
        BY <1>n, <2>1, <4>1
      <4>3. fw'.at = "listen" /\ fw'.count = c + 1
        BY <1>t, <2>3, <3>2, <4>2 DEF Fw
      <4>4. c + 1 + (r - 1) + L < FrameLen
        BY <2>1, <4>1, <1>n, SMTT(30)
      <4> QED BY <2>4, <3>3, <4>1, <4>3, <4>4 DEF Phase, Lost
    <3>6. CASE Arriving(s, fw)
      <4>1. c + r + L = FrameLen /\ Len(s.tx) = 0 /\ Spaced(s)
        BY <2>1, <3>2, <3>3, <3>6 DEF Arriving
      <4>2. PICK k \in Int : k = (FrameLen - c - 1) * Byte
        <5>1. PICK d \in Int : d = FrameLen - c - 1
          BY <1>n
        <5>2. d * Byte \in Int
          BY <5>1, ByteTimes
        <5> QED BY <5>1, <5>2
      <4>3. m - k >= 1 - Loop - Spun(fw)
        BY <3>2, <3>4, <3>6, <4>2 DEF Arriving
      <4>4. Spun(fw) \in {0, 1} /\ Spun(fw') = 0
        <5>1. fw.spun \in BOOLEAN /\ fw'.spun = FALSE
          BY <1>t, <2>3 DEF Fw
        <5> QED BY <5>1 DEF Spun
      <4>5. Spaced(uart')
        BY <2>4, <4>1 DEF Spaced
      <4>6. CASE c + 1 < FrameLen
        <5>1. fw'.at = "listen" /\ fw'.count = c + 1
          BY <1>t, <2>3, <3>2, <4>6 DEF Fw
        <5>2. (FrameLen - (c + 1) - 1) * Byte = k - Byte
          <6>1. PICK d \in Int : d = FrameLen - c - 1
            BY <1>n
          <6>2. (d - 1) * Byte = d * Byte - 1 * Byte /\ 1 * Byte = Byte
            BY <6>1, ByteTimes
          <6>3. d - 1 = FrameLen - (c + 1) - 1
            BY <1>n, <6>1
          <6> QED BY <4>2, <6>1, <6>2, <6>3
        <5>3. m - (k - Byte) >= 1 - Loop - 0
          BY <4>2, <4>3, <4>4, Positive
        <5>4. c + 1 + (r - 1) + L = FrameLen /\ r - 1 >= 0
          BY <2>1, <4>1
        <5>5. Arriving(uart', fw')
          BY <2>4, <3>3, <3>4, <4>1, <4>4, <4>5, <4>6, <5>1, <5>2, <5>3, <5>4 DEF Arriving
        <5> QED BY <5>5 DEF Phase
      <4>7. CASE ~(c + 1 < FrameLen)
        <5>1. c + 1 = FrameLen /\ r = 1 /\ L = 0
          BY <1>n, <2>1, <4>1, <4>7
        <5>2. fw'.at = "wait" /\ fw'.count = 0 /\ fw'.wait = Delay
          BY <1>t, <2>3, <3>2, <4>7 DEF Fw
        <5>3. k = 0
          <6>1. FrameLen - c - 1 = 0 /\ 0 * Byte = 0
            BY <1>n, <5>1, ByteTimes
          <6> QED BY <4>2, <6>1
        <5>4. m <= 0
          <6>1. m <= L * Byte
            BY <1>n, <3>3, <3>4, <4>1, <5>1 DEF Spaced
          <6>2. L * Byte = 0
            BY <5>1, ByteTimes
          <6> QED BY <6>1, <6>2
        <5>5. 0 <= Delay - m - Delay /\ Delay - m - Delay <= Loop /\ Delay > 0
          BY <4>3, <4>4, <5>3, <5>4, Positive
        <5>6. Alone(uart', fw')
          BY <2>1, <2>4, <3>3, <5>1, <5>2 DEF Alone
        <5>7. Waiting(uart', fw')
          BY <2>4, <3>4, <4>1, <5>2, <5>5, <5>6 DEF Waiting
        <5> QED BY <5>7 DEF Phase
      <4> QED BY <4>6, <4>7
    <3>7. ~Waiting(s, fw) /\ ~Driving(s, fw)
      BY <2>3 DEF Waiting, Driving
    <3>8. ~Sending(s, fw)
      BY <2>1 DEF Sending, Alone
    <3> QED BY <3>1, <3>5, <3>6, <3>7, <3>8 DEF Phase
  <2> QED BY <1>c, <2>3, <2>5, <2>6
<1>4. CASE E!DriveOn
  <2>1. /\ uart' = [s EXCEPT !.de = TRUE] /\ fw.at = "wait" /\ fw.wait = 0
        /\ fw' = [[fw EXCEPT !.at = "send", !.left = 1] EXCEPT !.spun = FALSE]
        /\ lat' = E!Recorded(uart) /\ UNCHANGED <<caller, mixed>>
    BY <1>4, <1>s DEF E!DriveOn, E!Touch, E!SetDe, E!Accessed
  <2>2. /\ uart'.tx = s.tx /\ uart'.due = s.due /\ uart'.wire = s.wire /\ uart'.rx = s.rx
        /\ uart'.mark = s.mark /\ uart'.first = s.first /\ uart'.written = s.written
        /\ uart'.lag = s.lag
    BY <1>s, <2>1 DEF Uart
  <2>3. UartOK(uart')
    BY <1>s, <2>2 DEF UartOK
  <2>4. fw'.at = "send" /\ fw'.count = fw.count /\ fw'.spun = FALSE
    BY <1>t, <2>1 DEF Fw
  <2>5. ASSUME Owed(mixed, uart') PROVE Phase(uart', fw')
    <3>1. Phase(s, fw)
      BY <1>s, <2>2, <2>5 DEF Owed
    <3>2. Waiting(s, fw)
      BY <2>1, <3>1 DEF Phase, Lost, Arriving, Driving, Sending
    <3>3. PICK m \in Int : m = s.mark
      BY <1>s DEF Uart
    <3>4. 0 <= 0 - m - Delay /\ 0 - m - Delay <= 2 * Loop - 1 + Spun(fw)
      BY <2>1, <3>2, <3>3 DEF Waiting
    <3>5. Spun(fw) \in {0, 1} /\ Spun(fw') = 0
      <4>1. fw.spun \in BOOLEAN
        BY <1>t DEF Fw
      <4> QED BY <2>4, <4>1 DEF Spun
    <3>6. 0 - m - Delay <= 2 * Loop + 0
      BY <3>4, <3>5, Positive
    <3>7. Driving(uart', fw')
      BY <2>2, <2>4, <3>2, <3>3, <3>4, <3>5, <3>6 DEF Waiting, Driving, Alone
    <3> QED BY <3>7 DEF Phase
  <2> QED BY <1>c, <2>1, <2>3, <2>5
<1>5. CASE E!Push
  <2>1. PICK t : t = Append(s.tx, E!Reply[fw.left])
    OBVIOUS
  <2>2. PICK due : due = IF s.tx = <<>> THEN Byte ELSE s.due
    OBVIOUS
  <2>3. Len(s.tx) < Depth
    BY <1>5, <1>s DEF E!Push, E!Accessed
  <2>4. Len(s.tx) \in Nat /\ Depth \in Nat
    BY <1>s, Positive DEF Uart
  <2>5. uart' = [s EXCEPT !.tx = t, !.due = due]
    BY <1>5, <1>s, <2>1, <2>2, <2>3, <2>4 DEF E!Push, E!Touch, E!WriteFifo, E!Accessed
  <2>6. /\ uart'.tx = t /\ uart'.due = due /\ uart'.wire = s.wire /\ uart'.rx = s.rx
        /\ uart'.mark = s.mark /\ uart'.first = s.first /\ uart'.written = s.written
        /\ uart'.lag = s.lag
    BY <1>s, <2>5 DEF Uart
  <2>7. /\ fw.at = "send" /\ lat' = E!Recorded(uart) /\ UNCHANGED <<caller, mixed>>
        /\ fw' = [(IF fw.left < ReplyLen THEN [fw EXCEPT !.left = @ + 1]
                  ELSE [fw EXCEPT !.at = "drain"]) EXCEPT !.spun = FALSE]
    BY <1>5 DEF E!Push, E!Touch
  <2>8. fw'.at # "wait" /\ fw'.count = fw.count
    BY <1>t, <2>7 DEF Fw
  <2>9. Len(t) > 0
    <3>1. t \in Seq(Nat)
      BY <1>t, <2>6 DEF Uart
    <3>2. t # <<>>
      <4>1. s.tx \in Seq(Nat)
        BY <1>s DEF Uart
      <4>2. E!Reply[fw.left] \in Nat
        BY <1>t, Numbers DEF E!Reply, Fw
      <4>3. Len(t) = Len(s.tx) + 1
        BY <2>1, <4>1, <4>2, Appended
      <4>4. Len(t) # 0
        BY <2>4, <4>3
      <4> QED BY <4>4
    <3> QED BY <3>1, <3>2
  <2>10. Len(s.tx) = 0 <=> s.tx = <<>>
    BY <1>s DEF Uart
  <2>11. s.due \in Int /\ s.lag \in Nat /\ s.mark \in Int
    BY <1>s DEF Uart
  <2>12. UartOK(uart')
    <3>1. CASE s.tx = <<>>
      <4>1. due = Byte
        BY <2>2, <3>1
      <4> QED BY <1>s, <2>6, <2>11, <4>1, Positive DEF UartOK
    <3>2. CASE s.tx # <<>>
      <4>1. due = s.due /\ Len(s.tx) > 0
        BY <2>2, <2>4, <2>10, <3>2
      <4> QED BY <1>s, <2>6, <4>1 DEF UartOK
    <3> QED BY <3>1, <3>2
  <2>13. ASSUME Owed(mixed, uart') PROVE Phase(uart', fw')
    <3>1. Phase(s, fw)
      BY <1>s, <2>6, <2>13 DEF Owed
    <3>2. PICK m \in Int : m = s.mark
      BY <2>11
    <3>3. CASE Driving(s, fw)
      <4>1. due = Byte
        BY <2>2, <2>10, <3>3 DEF Driving
      <4>2. 0 <= 0 - m - Delay /\ 0 - m - Delay <= 2 * Loop + Spun(fw)
        BY <3>2, <3>3 DEF Driving
      <4>3. Spun(fw) \in {0, 1}
        BY DEF Spun
      <4>4. Delay + Byte <= Byte - m /\ Byte - m <= Delay + Byte + 2 * Loop + 1
        BY <4>2, <4>3, Positive
      <4>5. InTime(uart'.due - uart'.mark)
        BY <2>6, <3>2, <4>1, <4>4 DEF InTime
      <4>6. Sending(uart', fw')
        BY <2>6, <2>8, <2>9, <3>3, <4>5 DEF Driving, Sending, Alone
      <4> QED BY <4>6 DEF Phase
    <3>4. CASE Sending(s, fw)
      <4>1. due = s.due
        BY <2>2, <2>4, <2>10, <3>4 DEF Sending
      <4>2. Sending(uart', fw')
        BY <2>6, <2>8, <2>9, <3>4, <4>1 DEF Sending, Alone
      <4> QED BY <4>2 DEF Phase
    <3>5. ~Lost(s, fw) /\ ~Arriving(s, fw) /\ ~Waiting(s, fw)
      BY <2>7 DEF Lost, Arriving, Waiting
    <3> QED BY <3>1, <3>3, <3>4, <3>5 DEF Phase
  <2> QED BY <1>c, <2>7, <2>12, <2>13
\* the driver is released, by the firmware or by its deadman
<1>d. ASSUME uart' = E!Released(uart), lat' = E!Recorded(uart), UNCHANGED <<caller, mixed>>,
             fw.at \in {"send", "drain"},
             fw' = [[fw EXCEPT !.at = "listen"] EXCEPT !.spun = FALSE]
      PROVE  LatInv'
  <2>1. uart' = [[s EXCEPT !.de = FALSE] EXCEPT !.rx = 0]
    BY <1>d, <1>s DEF E!Released, E!SetDe, E!Accessed
  <2>2. /\ uart'.tx = s.tx /\ uart'.due = s.due /\ uart'.wire = s.wire /\ uart'.rx = 0
        /\ uart'.mark = s.mark /\ uart'.first = s.first /\ uart'.written = s.written
        /\ uart'.lag = s.lag
    BY <1>s, <2>1 DEF Uart
  <2>3. fw'.at = "listen" /\ fw'.count = fw.count
    BY <1>t, <1>d DEF Fw
  <2>4. UartOK(uart')
    BY <1>s, <2>2 DEF UartOK
  <2>5. ASSUME Owed(mixed, uart') PROVE Phase(uart', fw')
    <3>1. Phase(s, fw)
      BY <1>s, <2>2, <2>5 DEF Owed
    <3>2. CASE Driving(s, fw)
      <4>1. fw.count = 0 /\ Len(s.wire) = 0 /\ Len(s.tx) = 0
        BY <3>2 DEF Driving, Alone
      <4>2. fw'.count + uart'.rx + Len(uart'.wire) < FrameLen
        BY <1>n, <2>2, <2>3, <4>1
      <4>3. Lost(uart', fw')
        BY <2>2, <2>3, <4>1, <4>2 DEF Lost
      <4> QED BY <4>3 DEF Phase
    <3>3. CASE Sending(s, fw)
      <4>1. Sending(uart', fw')
        BY <2>2, <2>3, <3>3 DEF Sending, Alone
      <4> QED BY <4>1 DEF Phase
    <3>4. ~Lost(s, fw) /\ ~Arriving(s, fw) /\ ~Waiting(s, fw)
      BY <1>d DEF Lost, Arriving, Waiting
    <3> QED BY <3>1, <3>2, <3>3, <3>4 DEF Phase
  <2> QED BY <1>c, <1>d, <2>4, <2>5
<1>6. CASE E!DriveOff
  BY <1>d, <1>6 DEF E!DriveOff, E!Touch
<1>7. CASE E!GiveUp
  BY <1>d, <1>7 DEF E!GiveUp, E!Touch
<1>8. CASE E!Write
  <2>1. PICK f \in Int : f = E!FirstDue(uart) /\ (uart.wire = <<>> => f = 0)
    <3>1. uart.wire # <<>> => uart.wire[Len(uart.wire)] \in Int
      BY <1>t, SMTT(30) DEF Uart
    <3> QED BY <3>1 DEF E!FirstDue, E!Last
  <2>2. PICK dues : dues = [i \in 1..FrameLen |-> f + i * Byte]
    OBVIOUS
  <2>3. dues \in Seq(Int) /\ Len(dues) = FrameLen /\ E!Last(dues) = f + FrameLen * Byte
    <3>1. \A i \in 1..FrameLen : f + i * Byte \in Int
      <4>1. \A i \in Int : i * Byte \in Int
        BY ByteTimes
      <4> QED BY <1>n, <4>1
    <3>2. dues \in [1..FrameLen -> Int] /\ \A i \in 1..FrameLen : dues[i] = f + i * Byte
      BY <2>2, <3>1
    <3>3. Len(dues) = FrameLen /\ dues \in Seq(Int)
      BY <1>n, <3>2
    <3>4. dues[FrameLen] = f + FrameLen * Byte
      BY <1>n, <3>2
    <3> QED BY <3>3, <3>4 DEF E!Last
  <2>4. PICK mark \in Int : mark = E!Last(dues) /\ mark = f + FrameLen * Byte
    <3>1. FrameLen * Byte \in Int
      BY <1>n, ByteTimes
    <3>2. f + FrameLen * Byte \in Int
      BY <2>1, <3>1
    <3> QED BY <2>3, <3>2
  <2>w. PICK w \in Seq(Int) : w = uart.wire \o dues
    <3>1. uart.wire \in Seq(Int)
      BY <1>t DEF Uart
    <3> QED BY <2>3, <3>1, Joined
  <2>5. uart' = [uart EXCEPT !.wire = w, !.first = FALSE, !.written = TRUE, !.mark = mark]
    BY <1>8, <2>1, <2>2, <2>4, <2>w DEF E!Write
  <2>6. /\ uart'.tx = uart.tx /\ uart'.due = uart.due /\ uart'.wire = w /\ uart'.rx = uart.rx
        /\ uart'.mark = mark /\ uart'.lag = uart.lag
    BY <1>t, <2>5 DEF Uart
  <2>7. UNCHANGED <<fw, caller>> /\ lat' = E!NoLatency /\ mixed' = ~E!Silent
    BY <1>8 DEF E!Write
  <2>8. UartOK(uart') /\ mixed' \in BOOLEAN
    BY <1>l, <2>6, <2>7 DEF UartOK
  <2>9. LatOK(lat')
    BY <2>7 DEF E!NoLatency, LatOK
  <2>10. ASSUME ~mixed' PROVE Phase(uart', fw')
    <3>1. /\ uart.wire = <<>> /\ uart.rx = 0 /\ uart.tx = <<>>
          /\ fw.at = "listen" /\ fw.count = 0
      BY <2>7, <2>10 DEF E!Silent
    <3>2. f = 0 /\ w = dues /\ Len(uart.tx) = 0
      BY <2>1, <2>3, <2>w, <3>1
    <3>3. Len(w) = FrameLen /\ \A i \in 1..FrameLen : w[i] = 0 + i * Byte
      BY <2>2, <2>3, <3>2
    <3>4. PICK M \in Int : M = FrameLen * Byte /\ mark = M
      <4>1. FrameLen * Byte \in Int
        BY <1>n, ByteTimes
      <4> QED BY <2>4, <3>2, <4>1
    <3>5. \A i \in 1..FrameLen : w[i] = mark - (FrameLen - i) * Byte
      <4>1. TAKE i \in 1..FrameLen
      <4>2. (FrameLen - i) * Byte = FrameLen * Byte - i * Byte
        BY <1>n, ByteTimes
      <4>3. i * Byte \in Int
        BY <1>n, ByteTimes
      <4> QED BY <3>3, <3>4, <4>2, <4>3
    <3>6. mark - (FrameLen - 0 - 1) * Byte = Byte
      <4>1. FrameLen - 0 - 1 = FrameLen - 1
        BY <1>n
      <4>2. (FrameLen - 1) * Byte = FrameLen * Byte - 1 * Byte /\ 1 * Byte = Byte
        BY <1>n, ByteTimes
      <4> QED BY <3>4, <4>1, <4>2, Positive
    <3>7. Spun(fw) \in {0, 1}
      BY DEF Spun
    <3>8. Byte >= 1 - Loop - Spun(fw)
      BY <3>7, Positive
    <3>9. Spaced(uart')
      BY <1>n, <2>6, <3>3, <3>5 DEF Spaced
    <3>10. Arriving(uart', fw')
      BY <1>n, <2>6, <2>7, <3>1, <3>2, <3>3, <3>6, <3>8, <3>9 DEF Arriving, Spun
    <3> QED BY <3>10 DEF Phase
  <2> QED BY <1>l, <2>7, <2>8, <2>9, <2>10 DEF LatInv, Owed
<1>9. CASE E!Read
  <2>1. UNCHANGED <<uart, fw, lat, mixed>> /\ caller'.at = "read"
    BY <1>9 DEF E!Read
  <2> QED BY <1>l, <2>1 DEF LatInv
\* the caller looks at what there is
<1>e. ASSUME lat' = E!Recorded(uart), UNCHANGED <<fw, mixed>>,
             uart'.tx = s.tx, uart'.wire = s.wire, uart'.rx = s.rx, uart'.due = s.due,
             uart'.mark = s.mark, uart'.first = s.first, uart'.written = s.written,
             uart'.lag = s.lag,
             caller'.at \in {"settle", "extra", "skip"} => caller'.left <= Gap
      PROVE  LatInv'
  <2>1. UartOK(uart')
    BY <1>e, <1>s DEF UartOK
  <2>2. Owed(mixed, uart') => Phase(s, fw)
    BY <1>e, <1>s DEF Owed
  <2>3. Phase(s, fw) => Phase(uart', fw)
    BY <1>e, PhaseOf
  <2>4. Owed(mixed', uart') => Phase(uart', fw')
    BY <1>e, <2>2, <2>3
  <2> QED BY <1>e, <1>l, <1>r, <2>1, <2>4 DEF LatInv
<1>10. CASE E!ReadReturns
  <2>1. /\ uart' = [s EXCEPT !.out = <<>>] /\ lat' = E!Recorded(uart)
        /\ caller'.at = "idle" /\ UNCHANGED <<fw, mixed>>
    BY <1>10, <1>s, Zenon DEF E!ReadReturns
  <2>2. /\ uart'.tx = s.tx /\ uart'.due = s.due /\ uart'.wire = s.wire /\ uart'.rx = s.rx
        /\ uart'.mark = s.mark /\ uart'.first = s.first /\ uart'.written = s.written
        /\ uart'.lag = s.lag
    BY <1>s, <2>1 DEF Uart
  <2> QED BY <1>e, <2>1, <2>2
<1>11. CASE E!AdvanceTime
  <2>1. /\ UNCHANGED <<fw, mixed>> /\ uart' = s /\ lat' = E!Recorded(uart) /\ caller'.left = Gap
    BY <1>11, <1>s DEF E!AdvanceTime
  <2> QED BY <1>e, <1>n, <2>1
<1>12. CASE E!Settled
  <2>1. /\ UNCHANGED <<fw, mixed>> /\ uart' = s /\ lat' = E!Recorded(uart)
        /\ caller.at = "settle" /\ caller' = [caller EXCEPT !.at = "extra"]
    BY <1>12, <1>s DEF E!Settled
  <2>2. caller'.left = caller.left
    BY <1>t, <2>1 DEF Caller
  <2> QED BY <1>e, <1>l, <2>1, <2>2
<1>13. CASE E!RunEnds
  <2>1. /\ UNCHANGED <<fw, mixed>> /\ uart' = s /\ lat' = E!Recorded(uart)
        /\ caller.at = "extra" /\ caller' = [caller EXCEPT !.at = "skip"]
    BY <1>13, <1>s DEF E!RunEnds
  <2>2. caller'.left = caller.left
    BY <1>t, <2>1 DEF Caller
  <2> QED BY <1>e, <1>l, <2>1, <2>2
<1>14. CASE E!Skip
  <2>1. PICK n \in Nat : n = caller.left
    BY <1>t DEF Caller
  <2>2. /\ E!Clock(n, TRUE, E!Later(n)) /\ n <= Gap
        /\ fw' = [fw EXCEPT !.wait = E!Less(fw.wait, n)]
        /\ caller'.at = "idle" /\ mixed' = (mixed \/ ~E!Silent)
    BY <1>14, <1>l, <2>1 DEF E!Skip
  <2>3. PICK lag \in Nat : lag = E!Later(n) /\ lag <= Sync
    <3>1. E!Later(n) \in Nat
      BY <1>t, LaterNat
    <3>2. E!Later(n) <= Sync
      <4>1. uart.lag \in Nat
        BY <1>t DEF Uart
      <4> QED BY <1>n, <4>1 DEF E!Later
    <3> QED BY <3>1, <3>2
  <2>4. LatOK(lat') /\ UartOK(uart')
    BY <2>2, <2>3, ClockLat
  <2>5. ASSUME ~mixed' PROVE Owed(mixed', uart') => Phase(uart', fw')
    <3>1. /\ uart.wire = <<>> /\ uart.rx = 0 /\ uart.tx = <<>>
          /\ fw.at = "listen" /\ fw.count = 0
      BY <2>2, <2>5 DEF E!Silent
    <3>2. fw'.at = "listen" /\ fw'.count = 0
      BY <1>t, <2>2, <3>1 DEF Fw
    <3>3. PICK e : e = E!Elapse(uart, n)
      OBVIOUS
    <3>4. Len(e.wire) = 0 /\ e.rx = 0 /\ Len(e.tx) = 0
      BY <1>t, <3>1, <3>3, ElapsedFields
    <3>5. Lost(e, fw')
      BY <1>n, <3>2, <3>4 DEF Lost
    <3>6. PICK m \in BOOLEAN : m = mixed'
      <4>1. mixed' = FALSE
        BY <1>l, <2>2, <2>5, Zenon
      <4> QED BY <4>1
    <3>7. Owed(m, uart) => Phase(E!Elapse(uart, n), fw')
      BY <3>3, <3>5 DEF Phase
    <3>8. Owed(m, uart') => Phase(uart', fw')
      BY <1>t, <2>2, <2>3, <3>7, ClockPhase
    <3> QED BY <3>6, <3>8
  <2>6. mixed' \in BOOLEAN
    BY <1>l, <2>2
  <2>7. Owed(mixed', uart') => Phase(uart', fw')
    BY <2>5 DEF Owed
  <2> QED BY <2>2, <2>4, <2>6, <2>7 DEF LatInv
<1>15. CASE E!LpReset
  <2>1. /\ caller.at = "idle" /\ UNCHANGED <<caller, lat>> /\ mixed' = (mixed \/ ~E!Silent)
        /\ uart' = E!ServiceSerial([uart EXCEPT !.tx = <<>>, !.due = Byte,
                                               !.first = FALSE, !.de = FALSE])
        /\ fw' = [fw EXCEPT !.at = "listen", !.count = 0, !.wait = 0, !.spun = FALSE]
    BY <1>15 DEF E!LpReset
  <2>2. PICK v : v = [uart EXCEPT !.tx = <<>>, !.due = Byte, !.first = FALSE, !.de = FALSE]
    OBVIOUS
  <2>3. v \in Uart
    BY <1>t, <2>2, UartReset, Zenon
  <2>4. v.tx = <<>> /\ v.wire = uart.wire /\ v.rx = uart.rx /\ v.first = FALSE /\ v.lag = uart.lag
    BY <1>t, <2>2 DEF Uart
  <2>5. uart' = E!ServiceSerial(v)
    BY <2>1, <2>2
  <2>6. PICK k \in 0..Len(v.tx) : k = E!Ended(v)
    BY <2>3, EndedCount
  <2>7. PICK j \in 0..Len(v.wire) : j = E!Arrived(v)
    BY <2>3, ArrivedBounded
  <2>8. uart' \in Uart /\ E!Ended(uart') = 0 /\ uart'.lag = uart.lag
    BY <2>3, <2>4, <2>5, <2>6, <2>7, ServedFields
  <2>9. UartOK(uart')
    <3>1. Len(uart'.tx) > 0 => uart'.due > 0
      BY <2>8, ToEnd
    <3>2. uart'.due \in Int /\ uart'.lag \in Nat
      BY <2>8 DEF Uart
    <3> QED BY <1>l, <2>8, <3>1, <3>2 DEF UartOK
  <2>10. ASSUME ~mixed', Owed(mixed', uart') PROVE Phase(uart', fw')
    <3>1. uart.wire = <<>> /\ uart.rx = 0
      BY <2>1, <2>10 DEF E!Silent
    <3>2. fw'.at = "listen" /\ fw'.count = 0
      BY <1>t, <2>1 DEF Fw
    <3>3. Len(v.wire) = 0 /\ v.rx = 0 /\ Len(v.tx) = 0
      BY <2>4, <3>1
    <3>4. Phase(v, fw')
      BY <1>n, <3>2, <3>3 DEF Lost, Phase
    <3>5. uart'.first \/ Phase(uart', fw')
      BY <1>t, <2>3, <2>4, <2>5, <3>4, ServePhase
    <3> QED BY <2>10, <3>5 DEF Owed
  <2>11. mixed' \in BOOLEAN
    BY <1>l, <2>1
  <2>12. Owed(mixed', uart') => Phase(uart', fw')
    BY <2>10 DEF Owed
  <2> QED BY <1>l, <2>1, <2>9, <2>11, <2>12 DEF LatInv
<1>16. CASE UNCHANGED emuVars
  BY <1>16, <1>l DEF emuVars, LatInv
<1> QED BY <1>1, <1>2, <1>3, <1>4, <1>5, <1>6, <1>7, <1>8, <1>9, <1>10, <1>11, <1>12, <1>13,
           <1>14, <1>15, <1>16 DEF E!Next

\* The latency that is recorded is the firmware's response delay and a byte, and at most
\* two of its sleeps and a tick more, for any UART, firmware delay and interval of the
\* service, unless requests overlapped or time was skipped with a reply owed (write_uart,
\* _drain_tx, advance_time_us).
THEOREM LatencyInTime == SimulatorsSpec => []LatencyIsTheFirmwares
<1>1. E!Init => LatInv
  <2> SUFFICES ASSUME E!Init PROVE LatInv
    OBVIOUS
  <2>1. /\ uart.written = FALSE /\ uart.lag = 0 /\ uart.tx = <<>> /\ caller.at = "idle"
        /\ mixed = FALSE /\ lat = E!NoLatency
    BY DEF E!Init
  <2>2. ~Owed(mixed, uart) /\ mixed \in BOOLEAN
    BY <2>1 DEF Owed
  <2>3. UartOK(uart)
    <3>1. Len(uart.tx) = 0
      BY <2>1
    <3> QED BY <2>1, <3>1, Positive DEF UartOK
  <2>4. LatOK(lat)
    BY <2>1 DEF E!NoLatency, LatOK
  <2> QED BY <2>1, <2>2, <2>3, <2>4 DEF LatInv
<1>2. SimulatorsInit => LatInv
  BY <1>1 DEF SimulatorsInit
<1>3. EmuInv /\ EmuInv' /\ LatInv /\ [SimulatorsNext]_allVars => LatInv'
  <2>1. [SimulatorsNext]_allVars => [E!Next]_emuVars
    BY DEF SimulatorsNext, Simulator, Emulator, allVars
  <2> QED BY <2>1, LatStep
<1>4. LatInv => LatencyIsTheFirmwares
  <2> SUFFICES ASSUME LatInv, ~lat.mixed PROVE lat.us \in (Delay + Byte)..(Delay + Byte + 2 * Loop + 1)
    BY DEF LatencyIsTheFirmwares, E!LatencyIsTheFirmwares
  <2>1. lat.us \in Int /\ InTime(lat.us)
    BY DEF LatInv, LatOK
  <2> QED BY <2>1, Positive DEF InTime
<1> QED BY <1>2, <1>3, <1>4, EmuAlways, PTL DEF SimulatorsSpec
=============================================================================
