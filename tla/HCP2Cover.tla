----------------------------- MODULE HCP2Cover -----------------------------
(***************************************************************************)
(* The cover of the HCP2 bridge: open, close, stop, half and moves to a    *)
(* position, which it makes of direction and stop commands from what the   *)
(* LP core last reported.                                                  *)
(*                                                                         *)
(*   main loop     HCP2BridgeCover::control, service_pending_direction_,   *)
(*                 service_goto_                                           *)
(*   supervisor    update_state_from_mailbox_                              *)
(*   LP core       the mailbox command and the stop trigger, each in one   *)
(*                 step here (HCP2Command, HCP2StopTrigger), the button    *)
(*                 being shown to the drive (HCP2Engine)                   *)
(*   drive         moves the door and broadcasts where it is               *)
(*                                                                         *)
(* A handler of the main loop is one step: between two of its reads the    *)
(* view may change in the code, which here it does between two handlers.   *)
(* Positions are few; times are ticks since the time stamp was taken,      *)
(* stopped at the last one that is compared with.                          *)
(***************************************************************************)
EXTENDS Integers

CONSTANTS
    MaxPos,         \* the door is at 0 (closed) .. MaxPos (open)
    HalfPos,        \* where the drive's half position is
    GotoTargets,    \* positions that are not end or half positions
    Tol,            \* HCP2_GOTO_TOLERANCE
    SettleTicks,    \* HCP2_REVERSE_SETTLE_MS
    ReverseTicks,   \* HCP2_REVERSE_TIMEOUT_MS
    IntervalTicks,  \* HCP2_GOTO_COMMAND_INTERVAL_MS
    GotoTicks,      \* HCP2_GOTO_TIMEOUT_MS, also the trigger's time to live
    MaxControls,    \* bound: calls of control
    MaxRemote,      \* bound: uses of the drive's other controls
    MaxLpResets     \* bound: resets of the LP core

ASSUME CoverAssumption ==
    /\ MaxPos \in Nat /\ HalfPos \in 0..MaxPos
    /\ GotoTargets \subseteq 1..(MaxPos - 1)
    /\ Tol \in Nat
    /\ SettleTicks \in Nat /\ ReverseTicks \in Nat /\ IntervalTicks \in Nat
    /\ GotoTicks \in Nat
    /\ SettleTicks < ReverseTicks /\ ReverseTicks < GotoTicks
    /\ MaxControls \in Nat /\ MaxRemote \in Nat /\ MaxLpResets \in Nat

VARIABLES
    \* the cover
    loopAt,         \* what the main loop does next, "pending" or "goto"
    goto,           \* goto_active_, "yes" or "no"
    target,         \* goto_target_
    gotoClock,      \* since goto_started_ms_
    cmdClock,       \* since last_goto_command_ms_
    pending,        \* pending_direction_, "none", "open" or "close"
    pendGoto,       \* pending_direction_for_goto_
    pendClock,      \* since pending_direction_since_ms_
    \* the bridge
    ready,          \* backend_ready_
    valid, vMove, vPos,     \* valid_broadcast_ and the drive status
    \* the mailbox
    mail,           \* a command the LP core has not taken
    armed, trigTarget, trigClock,
    \* the LP core
    lMove, lPos,    \* the drive status of the engine
    btn, shown,     \* the button being pressed; has the drive seen it?
    lpResets,
    \* the drive
    dMove, dPos, remote,
    \* history
    request,        \* the last call of control
    controls,
    mover           \* who set the door going, or stopped it: "cover" or "other"

clocks    == <<gotoClock, cmdClock, pendClock>>
coverVars == <<loopAt, goto, target, clocks, pending, pendGoto>>
viewVars  == <<valid, vMove, vPos>>
trigVars  == <<armed, trigTarget, trigClock>>
lpVars    == <<lMove, lPos, btn, shown, lpResets>>
driveVars == <<dMove, dPos, remote>>
vars == <<coverVars, ready, viewVars, mail, trigVars, lpVars, driveVars, request,
          controls, mover>>

Positions == 0..MaxPos
Directions == {"open", "close"}
Buttons == {"open", "close", "stop", "half"}
Moves == {"idle", "opening", "closing", "half"}

\* hcp2_cover_operation: on its way to the half position a door counts as
\* opening, also when it comes from above.
Operation(move) == IF move = "half" THEN "opening" ELSE move

Desired(button) == IF button = "open" THEN "opening" ELSE "closing"

Near(p, q) == p - q <= Tol /\ q - p <= Tol

\* hcp2_direction_button_for_target
DirectionFor(pos, tgt) ==
    IF Near(pos, tgt) THEN "none" ELSE IF tgt > pos THEN "open" ELSE "close"

\* hcp2_should_stop_at_target
AtTarget(tgt, pos, op) ==
    CASE op = "opening" -> pos + Tol >= tgt
      [] op = "closing" -> pos <= tgt + Tol
      [] op = "idle"    -> Near(pos, tgt)

Init ==
    /\ loopAt = "pending" /\ goto = "no" /\ target = 0
    /\ gotoClock = 0 /\ cmdClock = 0
    /\ pending = "none" /\ pendGoto = "no" /\ pendClock = 0
    /\ ready \in {"yes", "no"}
    /\ valid = "no" /\ vMove = "idle" /\ vPos = 0
    /\ mail = "none" /\ armed = "no" /\ trigTarget = 0 /\ trigClock = 0
    /\ lMove = "idle" /\ lPos = 0 /\ btn = "none" /\ shown = "no" /\ lpResets = 0
    /\ dMove = "idle" /\ dPos \in {0, MaxPos} /\ remote = 0
    /\ request = "none" /\ controls = 0 /\ mover = "other"

----------------------------------------------------------------------------
(* What the handlers are made of                                           *)

\* Mutant: a command leaves the stop trigger as it is.
SendCommandKeeps(button) ==
    /\ mail' = button
    /\ UNCHANGED trigVars

\* HCP2Bridge::action_*: a new command takes the place of one that was not
\* taken, and the stop trigger down.
SendCommand(button) ==
    /\ mail' = button
    /\ armed' = "no"
    /\ UNCHANGED <<trigTarget, trigClock>>

NoCommand == UNCHANGED <<mail, trigVars>>

DisarmTrigger == armed' = "no" /\ UNCHANGED <<mail, trigTarget, trigClock>>

\* A direction command of a goto, and the trigger for where it goes.
SendAndArm(button, tgt) ==
    /\ mail' = button
    /\ armed' = "yes" /\ trigTarget' = tgt /\ trigClock' = 0

ClearPending == pending' = "none" /\ pendGoto' = "no" /\ pendClock' = 0
KeepPending  == UNCHANGED <<pending, pendGoto, pendClock>>

\* request_direction_ when the door moves the other way: stop it first.
MustStop(button) ==
    Operation(vMove) # "idle" /\ Operation(vMove) # Desired(button)

\* Mutant: what is remembered is what was sent.
StopAndWaitForStop(button, forGoto) ==
    /\ SendCommand("stop")
    /\ pending' = "stop" /\ pendGoto' = forGoto /\ pendClock' = 0

StopAndWait(button, forGoto) ==
    /\ SendCommand("stop")
    /\ pending' = button /\ pendGoto' = forGoto /\ pendClock' = 0

----------------------------------------------------------------------------
(* control                                                                 *)

Control(what) ==
    /\ loopAt = "pending"
    /\ controls < MaxControls
    /\ controls' = controls + 1
    /\ request' = what
    /\ UNCHANGED <<loopAt, ready, viewVars, lpVars, driveVars, mover>>

\* Mutant: the direction that waits for the door to stop is not forgotten.
ControlStopKeepsPending ==
    /\ Control("stop")
    /\ goto' = "no"
    /\ KeepPending
    /\ IF ready = "yes" THEN SendCommand("stop") ELSE NoCommand
    /\ UNCHANGED <<target, gotoClock, cmdClock>>

ControlStop ==
    /\ Control("stop")
    /\ goto' = "no"
    /\ ClearPending
    /\ IF ready = "yes" THEN SendCommand("stop") ELSE NoCommand
    /\ UNCHANGED <<target, gotoClock, cmdClock>>

ControlHalf ==
    /\ Control("half")
    /\ goto' = "no"
    /\ ClearPending
    /\ IF ready = "yes" THEN SendCommand("half") ELSE NoCommand
    /\ UNCHANGED <<target, gotoClock, cmdClock>>

\* HCP2_BUTTON_OPEN and HCP2_BUTTON_CLOSE
ControlDirection ==
    \E b \in Directions :
        /\ Control(b)
        /\ goto' = "no"
        /\ \/ /\ ready = "no"
              /\ NoCommand
              /\ ClearPending
           \/ /\ ready = "yes" /\ MustStop(b)
              /\ StopAndWait(b, "no")
           \/ /\ ready = "yes" /\ ~MustStop(b)
              /\ SendCommand(b)
              /\ ClearPending
        /\ UNCHANGED <<target, gotoClock, cmdClock>>

\* start_goto_ does nothing before there is a valid broadcast.
GotoBlind ==
    /\ \E t \in GotoTargets : Control("goto")
    /\ valid = "no"
    /\ NoCommand
    /\ KeepPending
    /\ UNCHANGED <<goto, target, gotoClock, cmdClock>>

\* start_goto_ for where the door is: there is no goto, and what was waiting
\* or armed stays.
GotoHere ==
    /\ \E t \in GotoTargets : DirectionFor(vPos, t) = "none"
    /\ Control("here")
    /\ valid = "yes"
    /\ goto' = "no"
    /\ NoCommand
    /\ KeepPending
    /\ UNCHANGED <<target, gotoClock, cmdClock>>

\* Mutant: the trigger is armed for the target of the goto before.
GotoThereArmsOld ==
    /\ Control("goto")
    /\ valid = "yes"
    /\ goto' = "yes"
    /\ gotoClock' = 0 /\ cmdClock' = 0
    /\ \E t \in GotoTargets :
        LET b == DirectionFor(vPos, t)
        IN  /\ b # "none"
            /\ target' = t
            /\ \/ MustStop(b) /\ StopAndWait(b, "yes")
               \/ ~MustStop(b) /\ SendAndArm(b, target) /\ ClearPending

\* start_goto_.  A valid state comes from a mailbox that is ready, so the
\* command cannot fail.
GotoThere ==
    /\ Control("goto")
    /\ valid = "yes"
    /\ goto' = "yes"
    /\ gotoClock' = 0 /\ cmdClock' = 0
    /\ \E t \in GotoTargets :
        LET b == DirectionFor(vPos, t)
        IN  /\ b # "none"
            /\ target' = t
            /\ \/ MustStop(b) /\ StopAndWait(b, "yes")
               \/ ~MustStop(b) /\ SendAndArm(b, t) /\ ClearPending

Controls == ControlStop \/ ControlHalf \/ ControlDirection \/ GotoBlind \/ GotoHere
            \/ GotoThere

----------------------------------------------------------------------------
(* loop                                                                    *)

LoopStep(from, to) ==
    /\ loopAt = from
    /\ loopAt' = to
    /\ UNCHANGED <<ready, viewVars, lpVars, driveVars, request, controls, mover>>

\* service_pending_direction_: nothing to do, or not yet.
PendingWait ==
    /\ LoopStep("pending", "goto")
    /\ \/ pending = "none"
       \/ pendClock < SettleTicks
       \/ pendClock < ReverseTicks /\ valid = "yes" /\ Operation(vMove) # "idle"
    /\ NoCommand
    /\ KeepPending
    /\ UNCHANGED <<goto, target, gotoClock, cmdClock>>

PendingTimeout ==
    /\ LoopStep("pending", "goto")
    /\ pending # "none" /\ pendClock >= ReverseTicks
    /\ ClearPending
    /\ goto' = "no"
    /\ DisarmTrigger
    /\ UNCHANGED <<target, gotoClock, cmdClock>>

PendingSend ==
    /\ LoopStep("pending", "goto")
    /\ pending # "none"
    /\ SettleTicks <= pendClock /\ pendClock < ReverseTicks
    /\ valid = "no" \/ Operation(vMove) = "idle"
    /\ \/ pendGoto = "yes" /\ SendAndArm(pending, target) /\ cmdClock' = 0
       \/ pendGoto = "no" /\ SendCommand(pending) /\ UNCHANGED cmdClock
    /\ ClearPending
    /\ UNCHANGED <<goto, target, gotoClock>>

Going == goto = "yes" /\ pending = "none"

\* service_goto_: nothing to do, or the door is on its way, or the command
\* before was sent a moment ago.
GotoWait ==
    /\ LoopStep("goto", "pending")
    /\ \/ ~Going
       \/ /\ gotoClock < GotoTicks
          /\ \/ valid = "no"
             \/ LET b  == DirectionFor(vPos, target)
                    op == Operation(vMove)
                IN  /\ ~AtTarget(target, vPos, op)
                    /\ b # "none"
                    /\ op = Desired(b) \/ (op = "idle" /\ cmdClock < IntervalTicks)
    /\ NoCommand
    /\ KeepPending
    /\ UNCHANGED <<goto, target, gotoClock, cmdClock>>

\* Mutant: the timeout does not end the goto.
GotoTimeoutStays ==
    /\ LoopStep("goto", "pending")
    /\ Going /\ gotoClock >= GotoTicks
    /\ SendCommand("stop")
    /\ KeepPending
    /\ UNCHANGED <<goto, target, gotoClock, cmdClock>>

GotoTimeout ==
    /\ LoopStep("goto", "pending")
    /\ Going /\ gotoClock >= GotoTicks
    /\ goto' = "no"
    /\ SendCommand("stop")
    /\ KeepPending
    /\ UNCHANGED <<target, gotoClock, cmdClock>>

\* At the target: stop the door if it moves.
GotoArrive ==
    /\ LoopStep("goto", "pending")
    /\ Going /\ gotoClock < GotoTicks /\ valid = "yes"
    /\ AtTarget(target, vPos, Operation(vMove)) \/ DirectionFor(vPos, target) = "none"
    /\ goto' = "no"
    /\ IF AtTarget(target, vPos, Operation(vMove)) /\ Operation(vMove) # "idle"
       THEN SendCommand("stop") ELSE NoCommand
    /\ KeepPending
    /\ UNCHANGED <<target, gotoClock, cmdClock>>

\* The door moves the wrong way, or stands: stop it, or send it again.
GotoCommand ==
    /\ LoopStep("goto", "pending")
    /\ Going /\ gotoClock < GotoTicks /\ valid = "yes"
    /\ ~AtTarget(target, vPos, Operation(vMove))
    /\ LET b == DirectionFor(vPos, target)
       IN  /\ b # "none"
           /\ \/ MustStop(b) /\ StopAndWait(b, "yes") /\ UNCHANGED cmdClock
              \/ /\ Operation(vMove) = "idle" /\ cmdClock >= IntervalTicks
                 /\ SendAndArm(b, target) /\ KeepPending
                 /\ cmdClock' = 0
    /\ UNCHANGED <<goto, target, gotoClock>>

Loop == PendingWait \/ PendingTimeout \/ PendingSend
        \/ GotoWait \/ GotoTimeout \/ GotoArrive \/ GotoCommand

----------------------------------------------------------------------------
(* Bridge and LP core                                                      *)

\* update_state_from_mailbox_: the LP core publishes from its first pass on,
\* with a time stamp, and that is all valid_broadcast_ asks for.
HpUpdate ==
    /\ ready = "yes"
    /\ valid' = "yes" /\ vMove' = lMove /\ vPos' = lPos
    /\ UNCHANGED <<coverVars, ready, mail, trigVars, lpVars, driveVars, request,
                   controls, mover>>

\* A command is pressed, or lost when another button is.
LpTake ==
    /\ mail # "none"
    /\ mail' = "none"
    /\ IF btn = "none" THEN btn' = mail /\ shown' = "no" ELSE UNCHANGED <<btn, shown>>
    /\ UNCHANGED <<coverVars, ready, viewVars, trigVars, lMove, lPos, lpResets,
                   driveVars, request, controls, mover>>

\* stop_trigger_crossed_
Crossed ==
    \/ Operation(lMove) = "opening" /\ lPos >= trigTarget
    \/ Operation(lMove) = "closing" /\ lPos <= trigTarget

LpTrigger ==
    /\ armed = "yes"
    /\ \/ trigClock >= GotoTicks /\ UNCHANGED <<btn, shown>>
       \/ trigClock < GotoTicks /\ Crossed /\ btn = "none" /\ btn' = "stop" /\ shown' = "no"
    /\ armed' = "no"
    /\ UNCHANGED <<coverVars, ready, viewVars, mail, trigTarget, trigClock, lMove, lPos,
                   lpResets, driveVars, request, controls, mover>>

\* The watchdog resets the LP core: no button, no drive status, and a command
\* that was not taken is expired.
LpReset ==
    /\ lpResets < MaxLpResets
    /\ lpResets' = lpResets + 1
    /\ lMove' = "idle" /\ lPos' = 0
    /\ btn' = "none" /\ shown' = "no"
    /\ mail' = "none"
    /\ UNCHANGED <<coverVars, ready, viewVars, trigVars, driveVars, request, controls,
                   mover>>

Release ==
    /\ btn # "none" /\ shown = "yes"
    /\ btn' = "none" /\ shown' = "no"
    /\ UNCHANGED <<coverVars, ready, viewVars, mail, trigVars, lMove, lPos, lpResets,
                   driveVars, request, controls, mover>>

----------------------------------------------------------------------------
(* The drive                                                               *)

MoveFor(button) ==
    CASE button = "open"  -> IF dPos < MaxPos THEN "opening" ELSE "idle"
      [] button = "close" -> IF dPos > 0 THEN "closing" ELSE "idle"
      [] button = "half"  -> IF dPos # HalfPos THEN "half" ELSE "idle"
      [] button = "stop"  -> "idle"

DriveSees ==
    /\ btn # "none" /\ shown = "no"
    /\ shown' = "yes"
    /\ dMove' = MoveFor(btn)
    /\ mover' = "cover"
    /\ UNCHANGED <<coverVars, ready, viewVars, mail, trigVars, lMove, lPos, btn,
                   lpResets, dPos, remote, request, controls>>

\* Another remote control, or the button on the wall.
Remote ==
    /\ remote < MaxRemote
    /\ remote' = remote + 1
    /\ \E b \in Buttons : dMove' = MoveFor(b)
    /\ mover' = "other"
    /\ UNCHANGED <<coverVars, ready, viewVars, mail, trigVars, lpVars, dPos, request,
                   controls>>

DoorGoes(p, end) ==
    /\ dPos' = p
    /\ dMove' = IF p = end THEN "idle" ELSE dMove
    /\ UNCHANGED <<coverVars, ready, viewVars, mail, trigVars, lpVars, remote, request,
                   controls, mover>>

DoorMoves ==
    \/ dMove = "opening" /\ DoorGoes(dPos + 1, MaxPos)
    \/ dMove = "closing" /\ DoorGoes(dPos - 1, 0)
    \/ dMove = "half" /\ DoorGoes(IF dPos < HalfPos THEN dPos + 1 ELSE dPos - 1, HalfPos)

Broadcast ==
    /\ lMove' = dMove /\ lPos' = dPos
    /\ UNCHANGED <<coverVars, ready, viewVars, mail, trigVars, btn, shown, lpResets,
                   driveVars, request, controls, mover>>

----------------------------------------------------------------------------

Until(clock, last) == IF clock < last THEN clock + 1 ELSE clock

\* A clock that nobody looks at stands.
Tick ==
    /\ gotoClock' = IF goto = "yes" THEN Until(gotoClock, GotoTicks) ELSE gotoClock
    /\ cmdClock' = IF goto = "yes" THEN Until(cmdClock, IntervalTicks) ELSE cmdClock
    /\ pendClock' = IF pending # "none" THEN Until(pendClock, ReverseTicks) ELSE pendClock
    /\ trigClock' = IF armed = "yes" THEN Until(trigClock, GotoTicks) ELSE trigClock
    /\ UNCHANGED <<loopAt, goto, target, pending, pendGoto, ready, viewVars, mail, armed,
                   trigTarget, lpVars, driveVars, request, controls, mover>>

Next == Controls \/ Loop \/ HpUpdate \/ LpTake \/ LpTrigger \/ LpReset \/ Release
        \/ DriveSees \/ Remote \/ DoorMoves \/ Broadcast \/ Tick

Spec == Init /\ [][Next]_vars

\* The main loop and the LP core run, the drive polls, time passes.
FairSpec == Spec /\ WF_vars(Loop) /\ WF_vars(LpTake) /\ WF_vars(DriveSees)
                 /\ WF_vars(Release) /\ WF_vars(Tick)

----------------------------------------------------------------------------
(* Properties                                                              *)

\* The door only moves where there is somewhere to go.
DoorOK ==
    /\ dMove = "opening" => dPos < MaxPos
    /\ dMove = "closing" => dPos > 0
    /\ dMove = "half" => dPos # HalfPos

TypeOK ==
    /\ DoorOK
    /\ loopAt \in {"pending", "goto"} /\ goto \in {"yes", "no"}
    /\ target \in {0} \cup GotoTargets
    /\ gotoClock \in 0..GotoTicks /\ cmdClock \in 0..IntervalTicks
    /\ pendClock \in 0..ReverseTicks
    /\ pending \in Directions \cup {"none"} /\ pendGoto \in {"yes", "no"}
    /\ ready \in {"yes", "no"}
    /\ valid \in {"yes", "no"} /\ vMove \in Moves /\ vPos \in Positions
    /\ mail \in Buttons \cup {"none"}
    /\ armed \in {"yes", "no"} /\ trigTarget \in {0} \cup GotoTargets
    /\ trigClock \in 0..GotoTicks
    /\ lMove \in Moves /\ lPos \in Positions
    /\ btn \in Buttons \cup {"none"} /\ shown \in {"yes", "no"}
    /\ lpResets \in 0..MaxLpResets
    /\ dMove \in Moves /\ dPos \in Positions /\ remote \in 0..MaxRemote
    /\ request \in Buttons \cup {"none", "goto", "here"}
    /\ controls \in 0..MaxControls
    /\ mover \in {"cover", "other"}

\* The cover sends the door somewhere only for the last thing that was asked
\* of it: never after a stop, and never the other way.  (A goto for where the
\* door already is leaves what was asked before it in force.)
LastRequestWins ==
    [][Loop /\ mail' \in Directions /\ (mail' # mail \/ armed' # armed) =>
           request \in {mail', "goto", "here"}]_vars

\* The stop trigger is armed only by a goto that runs, always for the target of
\* the last goto, it is down once something else was asked for, and a goto that
\* ends takes it down.  Two exceptions leave it armed with no goto running: the
\* goto ended with the door, as it was last seen, standing at the target; or
\* the last request was a goto for where the door was, which ends the goto
\* before it, but neither its trigger nor its direction that waits to be sent
\* and to arm it.  (What the trigger does to a door then is StopOnlyForGoto.)
TriggerIsTheGotos ==
    [][/\ armed = "no" /\ armed' = "yes" => goto' = "yes" \/ request = "here"
       /\ armed' = "yes" => trigTarget' = target' /\ request' \in {"goto", "here"}
       /\ goto = "yes" /\ goto' = "no" /\ armed' = "yes" =>
              \/ Operation(vMove) = "idle" /\ Near(vPos, target)
              \/ request' = "here"]_vars

\* Every goto comes to its end, by arriving or by its timeout, whatever the
\* door does.
GotoEnds == []<>(goto = "no")

\* The LP core presses stop by itself only to end what a goto began: it is the
\* safeguard of one whose HP CPU died.  A door that somebody set going at the
\* drive when no goto runs is none of its business.
StopOnlyForGoto ==
    [][LpTrigger /\ btn' # btn => goto = "yes" \/ mover = "cover"]_vars

\* A stop that was asked for while the door opens is pressed, unless something
\* else is asked for.
StopIsPressed ==
    mail = "stop" /\ request = "stop" /\ dMove = "opening"
        ~> btn = "stop" \/ request # "stop"

(* The invariant behind LastRequestWins and TriggerIsTheGotos *)

\* The trigger is down while a direction waits, and a goto, or a direction that
\* waits for one, was the last thing asked for.  A direction waits for a goto
\* that runs or that one for where the door is has ended.  Before the first
\* broadcast, and without the LP core, nothing is armed, waits or goes.
CoverInv ==
    /\ armed = "yes" => request \in {"goto", "here"} /\ pending = "none"
    /\ armed = "yes" => trigTarget = target
    /\ goto = "yes" => request = "goto"
    /\ pending # "none" => request \in {pending, "goto", "here"}
    /\ pending # "none" /\ pendGoto = "yes" => goto = "yes" \/ request = "here"
    /\ valid # "yes" =>
           vMove = "idle" /\ armed = "no" /\ goto = "no" /\ pending = "none"
    /\ ready # "yes" => valid = "no"
=============================================================================
