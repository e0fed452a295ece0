------------------------------ MODULE DoorModel ------------------------------
(***************************************************************************)
(* The behavioural door of tools/supramatic_sim/door_model.py: a position   *)
(* integrator that is ticked once per bus cycle and commanded by buttons.   *)
(* The class holds no reference to anything else, so it is modelled as a    *)
(* record and one operator per method; the simulator owns the record.       *)
(* The drive parameters are the dataclass fields a run never assigns.       *)
(***************************************************************************)
EXTENDS Integers

CONSTANTS PositionOpen,      \* POSITION_OPEN (200 raw ticks in the code)
          HalfPosition,      \* half_position
          VentPosition,      \* vent_position
          TravelStep,        \* max(1, round(POSITION_OPEN / travel_cycles))
          OvershootTicks,    \* overshoot_raw_ticks
          StopLatency,       \* stop_latency_cycles
          ReverseDwell,      \* reverse_dwell_cycles
          ObstructionCycle,  \* obstruction_cycle, 0 for None
          ObstructionReverses

ASSUME DoorConstants ==
    /\ PositionOpen \in Nat \ {0}
    /\ HalfPosition \in 0 .. PositionOpen
    /\ VentPosition \in 0 .. PositionOpen
    /\ TravelStep \in Nat \ {0}
    /\ OvershootTicks \in Nat
    /\ StopLatency \in Nat
    /\ ReverseDwell \in Nat
    /\ ObstructionCycle \in Nat
    /\ ObstructionReverses \in BOOLEAN

PositionClosed == 0
Positions == PositionClosed .. PositionOpen

Profiles == {"stop_then_reverse", "immediate_reverse", "ignore_until_stop"}
Moving == {"opening", "closing", "moving_half", "moving_vent"}
Resting == {"stopped", "open", "closed", "half", "vent"}
Directions == {"open", "close"}
Buttons == Directions \cup {"stop", "half", "vent", "light"}

Larger(a, b) == IF a > b THEN a ELSE b
Smaller(a, b) == IF a < b THEN a ELSE b

\* The fields that change: pendingReverse is "none" for None.
Door == [position : Positions, target : Positions, state : Moving \cup Resting,
         light : {"on", "off"}, profile : Profiles, pendingStop : Nat,
         pendingReverse : Directions \cup {"none"}, reverseWait : Nat,
         cycle : Nat, incomplete : Nat]

DoorAt(p, s, prof) ==
    [position |-> p, target |-> p, state |-> s, light |-> "on", profile |-> prof,
     pendingStop |-> 0, pendingReverse |-> "none", reverseWait |-> 0,
     cycle |-> 0, incomplete |-> 0]
ClosedDoor(prof) == DoorAt(PositionClosed, "closed", prof)
OpenDoor(prof) == DoorAt(PositionOpen, "open", prof)

----------------------------------------------------------------------------
\* mutants: a stop that leaves the target where it was; a travel that is not clamped;
\* an expired stop that lets the door go on; a button that never opposes.
MutStopped(d) == [d EXCEPT !.state = "stopped"]
MutNextPosition(d, overshoot) ==
    LET size == IF overshoot THEN Larger(TravelStep, OvershootTicks) ELSE TravelStep
    IN  IF d.position < d.target THEN d.position + size ELSE d.position - size
MutCoast(d) == [d EXCEPT !.pendingStop = d.pendingStop - 1]
MutOpposes(d, b) == d.state = "closing" /\ b = "open"

\* _move_to: a new target drops a stop and a reversal that are pending.
MoveTo(d, target, moving, done) ==
    [d EXCEPT !.target = target, !.pendingStop = 0, !.pendingReverse = "none",
              !.reverseWait = 0,
              !.state = IF d.position = target THEN done ELSE moving]

\* _stop: the target follows; what is pending stays as it is.
Stopped(d) == [d EXCEPT !.target = d.position, !.state = "stopped"]

\* _is_opposite_motion: only the two full travels oppose one another.
Opposes(d, b) == \/ d.state = "opening" /\ b = "close"
                 \/ d.state = "closing" /\ b = "open"

\* _direction_command
Travel(d, b) == IF b = "open" THEN MoveTo(d, PositionOpen, "opening", "open")
                              ELSE MoveTo(d, PositionClosed, "closing", "closed")
Direction(d, b) ==
    IF ~Opposes(d, b) \/ d.profile = "immediate_reverse" THEN Travel(d, b)
    ELSE IF d.profile = "ignore_until_stop" THEN d
    ELSE [Stopped(d) EXCEPT !.pendingReverse = b,
                            !.reverseWait = Larger(1, ReverseDwell)]

\* command
Command(d, b) ==
    CASE b \in Directions -> Direction(d, b)
      [] b = "stop"  -> IF StopLatency = 0 THEN [Stopped(d) EXCEPT !.pendingStop = 0]
                        ELSE [d EXCEPT !.pendingStop = StopLatency]
      [] b = "half"  -> MoveTo(d, HalfPosition, "moving_half", "half")
      [] b = "vent"  -> MoveTo(d, VentPosition, "moving_vent", "vent")
      [] b = "light" -> [d EXCEPT !.light = IF d.light = "on" THEN "off" ELSE "on"]

----------------------------------------------------------------------------
\* _arrive: the ends win over a half or vent position that coincides.
ArrivedState(t) == IF t = PositionClosed THEN "closed"
                   ELSE IF t = PositionOpen THEN "open"
                   ELSE IF t = HalfPosition THEN "half"
                   ELSE IF t = VentPosition THEN "vent" ELSE "stopped"

StepSize(overshoot) == IF overshoot THEN Larger(TravelStep, OvershootTicks) ELSE TravelStep
NextPosition(d, overshoot) ==
    IF d.position < d.target THEN Smaller(d.target, d.position + StepSize(overshoot))
                             ELSE Larger(d.target, d.position - StepSize(overshoot))

\* _move_one_step: an overshoot that reaches the target does not arrive.
MoveOneStep(d, overshoot) ==
    IF d.state \notin Moving THEN d
    ELSE IF d.position = d.target THEN [d EXCEPT !.state = ArrivedState(d.target)]
    ELSE LET p == NextPosition(d, overshoot)
         IN  [d EXCEPT !.position = p,
                       !.state = IF p = d.target /\ ~overshoot
                                 THEN ArrivedState(d.target) ELSE d.state]

\* _maybe_inject_obstruction
Obstructed(d) ==
    IF ObstructionCycle = 0 \/ d.cycle # ObstructionCycle \/ d.state # "closing" THEN d
    ELSE LET hit == [d EXCEPT !.incomplete = d.incomplete + 1]
         IN  IF ObstructionReverses THEN MoveTo(hit, PositionOpen, "opening", "open")
                                    ELSE Stopped(hit)

\* tick, after the cycle count and the obstruction.
Coast(d) == LET m == MoveOneStep([d EXCEPT !.pendingStop = d.pendingStop - 1], TRUE)
            IN  IF m.pendingStop = 0 THEN Stopped(m) ELSE m
Dwell(d) == LET w == [d EXCEPT !.reverseWait = d.reverseWait - 1]
            IN  IF w.reverseWait = 0 /\ w.pendingReverse # "none"
                THEN Direction([w EXCEPT !.pendingReverse = "none"], w.pendingReverse)
                ELSE w
Advance(d) == IF d.pendingStop > 0 THEN Coast(d)
              ELSE IF d.reverseWait > 0 THEN Dwell(d)
              ELSE MoveOneStep(d, FALSE)
Tick(d) == Advance(Obstructed([d EXCEPT !.cycle = d.cycle + 1]))

----------------------------------------------------------------------------
\* A resting state names the place the door is at, and a door that rests aims
\* at where it stands (_arrive, _stop, _move_to).
RestsInPlace(d) ==
    /\ d.state \in Resting => d.target = d.position
    /\ d.state = "open" => d.position = PositionOpen
    /\ d.state = "closed" => d.position = PositionClosed
    /\ d.state = "half" => d.position = HalfPosition
    /\ d.state = "vent" => d.position = VentPosition
\* A travelling door aims at the end its state names (_move_to).
AimsWhereItGoes(d) ==
    /\ d.state = "opening" => d.target = PositionOpen
    /\ d.state = "closing" => d.target = PositionClosed
    /\ d.state = "moving_half" => d.target = HalfPosition
    /\ d.state = "moving_vent" => d.target = VentPosition
\* The dwell of a reversal is armed and disarmed as a whole, and the door
\* stands still in it (_direction_command, _move_to, tick).
DwellIsWhole(d) ==
    /\ d.reverseWait > 0 <=> d.pendingReverse # "none"
    /\ d.reverseWait > 0 => d.state = "stopped" /\ d.profile = "stop_then_reverse"
\* The two pending counters never exceed what a command sets.
PendingBounded(d) == /\ d.pendingStop <= StopLatency
                     /\ d.reverseWait <= Larger(1, ReverseDwell)
DoorOK(d) == /\ d \in Door
             /\ RestsInPlace(d)
             /\ AimsWhereItGoes(d)
             /\ DwellIsWhole(d)
             /\ PendingBounded(d)
=============================================================================
