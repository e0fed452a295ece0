-------------------------- MODULE HCP2StopTrigger --------------------------
(***************************************************************************)
(* The stop trigger of the HCP2 mailbox.  Before a move to a position the  *)
(* HP CPU arms it with the target and a deadline; the LP core, which hears *)
(* the drive's broadcasts, presses stop when the door passes the target.   *)
(* It is there for the case that the HP CPU dies during the move.          *)
(*                                                                         *)
(*   main task        hcp2_hp_supervisor_arm_stop_trigger,                 *)
(*                    hcp2_lp_mailbox_disarm_stop_trigger (also first      *)
(*                    thing in hcp2_lp_mailbox_send_command)               *)
(*   supervisor task  hcp2_hp_supervisor_begin_session, load_and_start_lp_ *)
(*   LP core          hcp2_responder_runtime_handle_stop_trigger           *)
(*                                                                         *)
(* Every store to and load from the block is a step.  The supervisor task  *)
(* preempts the main task, which may be in the middle of arming, and runs  *)
(* its stores without the main task in between; a reload is one step, as   *)
(* the LP core is stopped.                                                 *)
(*                                                                         *)
(* Data: armings are numbered; target and deadline fields hold the number  *)
(* of the arming that wrote them.  Where the door is and what time it is   *)
(* are the sets of armings whose target is passed, in a moving state that  *)
(* counts, and whose deadline is reached.  command_sequence is "zero",     *)
(* "new" or, once it is the LP core's last_command_sequence, "taken"; of a *)
(* command it matters here only that it may occupy the button.             *)
(***************************************************************************)
EXTENDS Naturals

CONSTANTS
    MaxArms,        \* bound: armings
    MaxSessions,    \* bound: epochs the HP CPU draws
    MaxResets       \* bound: resets of the HP CPU and of the LP core together

ASSUME BoundsAssumption ==
    /\ MaxArms \in Nat /\ MaxSessions \in Nat
    /\ MaxResets \in Nat

VARIABLES
    \* the mailbox
    tArmed,         \* stop_trigger_armed, "yes" or "no"
    tEpoch, tTarget, tDeadline,
    fireCount,      \* stop_trigger_fire_count
    mEpoch,         \* command_epoch
    mSeq,           \* command_sequence, "zero", "new" or "taken"
    \* HP
    hEpoch,         \* the supervisor's epoch, 0 before the first session
    aPc, aNum, aEpoch,  \* main task: where in arming, which one, its epoch
    bPc,            \* supervisor task: "boot", "run" or in begin_session
    sessions, hpResets,
    \* LP
    lActive, lPc, lEpoch, lDeadline, lTarget, btn, lpResets,
    \* the world
    crossed, reached,
    \* history
    pressed,        \* armings for which stop was pressed, but for one whose press
                    \* a reset of the LP core kept from being marked
    inForce         \* <<epoch, target>>: what was in the block, with the flag
                    \* up, since the handler began

mbVars == <<tArmed, tEpoch, tTarget, tDeadline, fireCount, mEpoch, mSeq>>
hpVars == <<hEpoch, aPc, aNum, aEpoch, bPc, sessions, hpResets>>
lpVars == <<lActive, lPc, lEpoch, lDeadline, lTarget, btn, lpResets>>
worldVars == <<crossed, reached>>
history == <<pressed, inForce>>
vars == <<mbVars, hpVars, lpVars, worldVars, history>>

\* The LP core runs, the HP CPU is about to look for it; nothing was armed.
Init ==
    /\ tArmed = "no" /\ tEpoch = 0 /\ tTarget = 0 /\ tDeadline = 0
    /\ fireCount = 0 /\ mEpoch = 0 /\ mSeq = "zero"
    /\ hEpoch = 0 /\ aPc = "idle" /\ aNum = 0 /\ aEpoch = 0
    /\ bPc = "boot" /\ sessions = 0 /\ hpResets = 0
    /\ lActive = 0 /\ lPc = "trigger" /\ lEpoch = 0 /\ lDeadline = 0
    /\ lTarget = 0 /\ btn = "none" /\ lpResets = 0
    /\ crossed = {} /\ reached = {}
    /\ pressed = {} /\ inForce = {}

----------------------------------------------------------------------------
(* HP main task                                                            *)

\* The main task only runs while the supervisor task is between two sessions.
MainStep(from, to) ==
    /\ bPc = "run"
    /\ aPc = from
    /\ aPc' = to
    /\ UNCHANGED <<fireCount, mEpoch, hEpoch, bPc, sessions, hpResets, lpVars,
                   worldVars, pressed>>

ArmCall ==
    /\ hEpoch # 0
    /\ aNum < MaxArms
    /\ aNum' = aNum + 1
    /\ aEpoch' = hEpoch
    /\ MainStep("idle", "off")
    /\ UNCHANGED <<tArmed, tEpoch, tTarget, tDeadline, mSeq, inForce>>

ArmOff ==
    /\ MainStep("off", "epoch")
    /\ tArmed' = "no"
    /\ UNCHANGED <<tEpoch, tTarget, tDeadline, mSeq, aNum, aEpoch, inForce>>

ArmEpoch ==
    /\ MainStep("epoch", "target")
    /\ tEpoch' = aEpoch
    /\ UNCHANGED <<tArmed, tTarget, tDeadline, mSeq, aNum, aEpoch, inForce>>

\* Mutant of ArmTarget: the target of another arming
ArmTargetNext ==
    /\ MainStep("target", "deadline")
    /\ tTarget' = aNum + 1
    /\ UNCHANGED <<tArmed, tEpoch, tDeadline, mSeq, aNum, aEpoch, inForce>>

ArmTarget ==
    /\ MainStep("target", "deadline")
    /\ tTarget' = aNum
    /\ UNCHANGED <<tArmed, tEpoch, tDeadline, mSeq, aNum, aEpoch, inForce>>

ArmDeadline ==
    /\ MainStep("deadline", "on")
    /\ tDeadline' = aNum
    /\ UNCHANGED <<tArmed, tEpoch, tTarget, mSeq, aNum, aEpoch, inForce>>

ArmOn ==
    /\ MainStep("on", "idle")
    /\ tArmed' = "yes"
    /\ inForce' = inForce \cup {<<tEpoch, tTarget>>}
    /\ UNCHANGED <<tEpoch, tTarget, tDeadline, mSeq, aNum, aEpoch>>

\* disarm_stop_trigger, by itself.
Disarm ==
    /\ MainStep("idle", "idle")
    /\ tArmed' = "no"
    /\ UNCHANGED <<tEpoch, tTarget, tDeadline, mSeq, aNum, aEpoch, inForce>>

\* hcp2_lp_mailbox_send_command: disarms first, ends with the sequence.
SendDisarm ==
    /\ MainStep("idle", "send")
    /\ tArmed' = "no"
    /\ UNCHANGED <<tEpoch, tTarget, tDeadline, mSeq, aNum, aEpoch, inForce>>

SendSeq ==
    /\ MainStep("send", "idle")
    /\ mSeq' = "new"
    /\ UNCHANGED <<tArmed, tEpoch, tTarget, tDeadline, aNum, aEpoch, inForce>>

Arm  == ArmCall \/ ArmOff \/ ArmEpoch \/ ArmTarget \/ ArmDeadline \/ ArmOn
Main == Arm \/ Disarm \/ SendDisarm \/ SendSeq

----------------------------------------------------------------------------
(* HP supervisor task                                                      *)

\* start_or_skip_lp_ finds the LP core alive; begin_session.
SessionZero ==
    /\ bPc = "boot"
    /\ sessions < MaxSessions
    /\ sessions' = sessions + 1
    /\ hEpoch' = sessions + 1
    /\ mSeq' = "zero"
    /\ bPc' = "disarm"
    /\ UNCHANGED <<tArmed, tEpoch, tTarget, tDeadline, fireCount, mEpoch, aPc, aNum,
                   aEpoch, hpResets, lpVars, worldVars, history>>

\* Mutant of SessionDisarm: the trigger of the session before stays up
SessionDisarmSkipped ==
    /\ bPc = "disarm"
    /\ bPc' = "epoch"
    /\ UNCHANGED <<mbVars, hEpoch, aPc, aNum, aEpoch, sessions, hpResets, lpVars,
                   worldVars, history>>

SessionDisarm ==
    /\ bPc = "disarm"
    /\ tArmed' = "no"
    /\ bPc' = "epoch"
    /\ UNCHANGED <<tEpoch, tTarget, tDeadline, fireCount, mEpoch, mSeq, hEpoch, aPc,
                   aNum, aEpoch, sessions, hpResets, lpVars, worldVars, history>>

SessionEpoch ==
    /\ bPc = "epoch"
    /\ mEpoch' = hEpoch
    /\ bPc' = "ready"
    /\ UNCHANGED <<tArmed, tEpoch, tTarget, tDeadline, fireCount, mSeq, hEpoch, aPc,
                   aNum, aEpoch, sessions, hpResets, lpVars, worldVars, history>>

\* The rest of start-up takes longer than one pass of the LP main loop.
Ready ==
    /\ bPc = "ready"
    /\ lActive = hEpoch
    /\ bPc' = "run"
    /\ UNCHANGED <<mbVars, hEpoch, aPc, aNum, aEpoch, sessions, hpResets, lpVars,
                   worldVars, history>>

\* load_and_start_lp_, in setup or because the heartbeat stood still, which may
\* be found between any two stores of the main task.
Reload ==
    /\ bPc \in {"boot", "run"}
    /\ sessions < MaxSessions
    /\ sessions' = sessions + 1
    /\ hEpoch' = sessions + 1
    /\ tArmed' = "no" /\ tEpoch' = 0 /\ tTarget' = 0 /\ tDeadline' = 0
    /\ fireCount' = 0 /\ mEpoch' = sessions + 1 /\ mSeq' = "zero"
    /\ lActive' = sessions + 1 /\ lPc' = "trigger" /\ btn' = "none"
    /\ bPc' = "run"
    /\ inForce' = {}
    /\ UNCHANGED <<aPc, aNum, aEpoch, hpResets, lEpoch, lDeadline, lTarget, lpResets,
                   worldVars, pressed>>

\* The HP CPU dies and starts again.
HpReset ==
    /\ hpResets + lpResets < MaxResets
    /\ hpResets' = hpResets + 1
    /\ hEpoch' = 0
    /\ aPc' = "idle" /\ aEpoch' = 0
    /\ bPc' = "boot"
    /\ UNCHANGED <<mbVars, aNum, sessions, lpVars, worldVars, history>>

Supervisor == SessionZero \/ SessionDisarm \/ SessionEpoch \/ Ready \/ Reload

----------------------------------------------------------------------------
(* LP core: handle_stop_trigger, then the command handler, then again      *)

LpStep(from, to) ==
    /\ lPc = from
    /\ lPc' = to
    /\ UNCHANGED <<tEpoch, tTarget, tDeadline, mEpoch, hpVars, lpResets, worldVars>>

\* Mutant of ReadArmed: goes on when the flag is down
ReadArmedSwapped ==
    /\ LpStep("trigger", IF tArmed = "no" THEN "epoch" ELSE "command")
    /\ inForce' = IF tArmed = "no" THEN {<<tEpoch, tTarget>>} ELSE {}
    /\ UNCHANGED <<mSeq, tArmed, fireCount, lActive, lEpoch, lDeadline, lTarget, btn, pressed>>

\* hcp2_lp_mailbox_read_stop_trigger
ReadArmed ==
    /\ LpStep("trigger", IF tArmed = "yes" THEN "epoch" ELSE "command")
    /\ inForce' = IF tArmed = "yes" THEN {<<tEpoch, tTarget>>} ELSE {}
    /\ UNCHANGED <<mSeq, tArmed, fireCount, lActive, lEpoch, lDeadline, lTarget, btn, pressed>>

ReadEpoch ==
    /\ LpStep("epoch", "deadline")
    /\ lEpoch' = tEpoch
    /\ UNCHANGED <<mSeq, tArmed, fireCount, lActive, lDeadline, lTarget, btn, history>>

ReadDeadline ==
    /\ LpStep("deadline", "target")
    /\ lDeadline' = tDeadline
    /\ UNCHANGED <<mSeq, tArmed, fireCount, lActive, lEpoch, lTarget, btn, history>>

ReadTarget ==
    /\ LpStep("target", "again")
    /\ lTarget' = tTarget
    /\ UNCHANGED <<mSeq, tArmed, fireCount, lActive, lEpoch, lDeadline, btn, history>>

\* Mutant of ReadArmedAgain: trusts the first look at the flag
ReadArmedOnce ==
    /\ LpStep("again", "decide")
    /\ UNCHANGED <<mSeq, tArmed, fireCount, lActive, lEpoch, lDeadline, lTarget, btn, history>>

ReadArmedAgain ==
    /\ LpStep("again", IF tArmed = "yes" THEN "decide" ELSE "command")
    /\ UNCHANGED <<mSeq, tArmed, fireCount, lActive, lEpoch, lDeadline, lTarget, btn, history>>

\* Wrong session or too late: disarm.
DecideDrop ==
    /\ lEpoch # lActive \/ lDeadline \in reached
    /\ LpStep("decide", "command")
    /\ tArmed' = "no"
    /\ UNCHANGED <<mSeq, fireCount, lActive, lEpoch, lDeadline, lTarget, btn, history>>

\* Not passed yet, or the engine is busy with another button: next time.
DecideWait ==
    /\ lEpoch = lActive /\ lDeadline \notin reached
    /\ lTarget \notin crossed \/ btn # "none"
    /\ LpStep("decide", "command")
    /\ UNCHANGED <<mSeq, tArmed, fireCount, lActive, lEpoch, lDeadline, lTarget, btn, history>>

DecidePress ==
    /\ lEpoch = lActive /\ lDeadline \notin reached
    /\ lTarget \in crossed /\ btn = "none"
    /\ LpStep("decide", "fired")
    /\ btn' = "stop"
    /\ pressed' = pressed \cup {lTarget}
    /\ UNCHANGED <<mSeq, tArmed, fireCount, lActive, lEpoch, lDeadline, lTarget, inForce>>

\* Mutant of MarkFired: counts and leaves the trigger up
MarkFiredOnly ==
    /\ LpStep("fired", "command")
    /\ fireCount' = fireCount + 1
    /\ UNCHANGED <<mSeq, tArmed, lActive, lEpoch, lDeadline, lTarget, btn, history>>

\* hcp2_lp_mailbox_mark_stop_trigger_fired
MarkFired ==
    /\ LpStep("fired", "command")
    /\ fireCount' = fireCount + 1
    /\ tArmed' = "no"
    /\ UNCHANGED <<mSeq, lActive, lEpoch, lDeadline, lTarget, btn, history>>

\* The command handler adopts the epoch of a new session; it takes a command
\* of its session when that has settled, which occupies the button unless the
\* button is not free, or the command is expired or not known (HCP2Command).
HandleCommand ==
    /\ LpStep("command", "trigger")
    /\ \/ mSeq = "zero" /\ lActive' = mEpoch /\ UNCHANGED <<mSeq, btn>>
       \/ /\ mSeq = "new" /\ mEpoch = lActive /\ mSeq' = "taken"
          /\ btn' \in IF btn = "none" THEN {"none", "other"} ELSE {btn}
          /\ UNCHANGED lActive
       \/ mSeq # "zero" /\ UNCHANGED <<mSeq, lActive, btn>>
    /\ UNCHANGED <<tArmed, fireCount, lEpoch, lDeadline, lTarget, history>>

\* The drive has polled the press and the release (HCP2Engine).
Release ==
    /\ btn # "none"
    /\ btn' = "none"
    /\ UNCHANGED <<mbVars, hpVars, lActive, lPc, lEpoch, lDeadline, lTarget, lpResets,
                   worldVars, history>>

\* A watchdog reset; begin_from_mailbox keeps the trigger as it is and never
\* takes a command that was sent before.
LpReset ==
    /\ hpResets + lpResets < MaxResets
    /\ lpResets' = lpResets + 1
    /\ lPc' = "trigger"
    /\ lActive' = mEpoch
    /\ btn' = "none"
    /\ mSeq' = IF mSeq = "zero" THEN "zero" ELSE "taken"
    /\ inForce' = {}
    /\ pressed' = IF lPc = "fired" THEN pressed \ {lTarget} ELSE pressed
    /\ UNCHANGED <<tArmed, tEpoch, tTarget, tDeadline, fireCount, mEpoch, hpVars,
                   lEpoch, lDeadline, lTarget, worldVars>>

Trigger == ReadArmed \/ ReadEpoch \/ ReadDeadline \/ ReadTarget \/ ReadArmedAgain
           \/ DecideDrop \/ DecideWait \/ DecidePress \/ MarkFired
Lp == Trigger \/ HandleCommand

----------------------------------------------------------------------------
(* The world                                                               *)

\* The door passes the target of an arming, or turns back or stops; 0 is the
\* blank target field, which an opening door always passes.
Door ==
    \E a \in 0..aNum :
        /\ crossed' = IF a \in crossed THEN crossed \ {a} ELSE crossed \cup {a}
        /\ UNCHANGED <<mbVars, hpVars, lpVars, reached, history>>

Deadline ==
    \E a \in (1..aNum) \ reached :
        /\ reached' = reached \cup {a}
        /\ UNCHANGED <<mbVars, hpVars, lpVars, crossed, history>>

Next == Main \/ Supervisor \/ HpReset \/ Lp \/ Release \/ LpReset \/ Door \/ Deadline

Spec == Init /\ [][Next]_vars

FairSpec == Spec /\ WF_vars(Lp) /\ WF_vars(Release)

----------------------------------------------------------------------------
(* Properties                                                              *)

TypeOK ==
    /\ tArmed \in {"yes", "no"}
    /\ tEpoch \in Nat /\ tTarget \in 0..aNum /\ tDeadline \in 0..aNum
    /\ fireCount \in Nat /\ mEpoch \in Nat /\ mSeq \in {"zero", "new", "taken"}
    /\ hEpoch \in Nat /\ aNum \in 0..MaxArms /\ aEpoch \in Nat
    /\ aPc \in {"idle", "off", "epoch", "target", "deadline", "on", "send"}
    /\ bPc \in {"boot", "run", "disarm", "epoch", "ready"}
    /\ sessions \in Nat /\ hpResets \in 0..MaxResets
    /\ lActive \in Nat
    /\ lPc \in {"trigger", "epoch", "deadline", "target", "again", "decide",
                "fired", "command"}
    /\ lEpoch \in Nat /\ lDeadline \in 0..aNum /\ lTarget \in 0..aNum
    /\ btn \in {"none", "stop", "other"} /\ lpResets \in 0..MaxResets
    /\ crossed \subseteq 0..aNum /\ reached \subseteq 1..aNum
    /\ pressed \subseteq 0..aNum
    /\ inForce \subseteq Nat \X (0..aNum)

\* Stop is pressed only for a target that was in the block with the flag up at
\* some moment since the handler began to look, and only if an arming of the LP
\* core's session was so too, although the main task may write the next arming,
\* die doing so or be cut by a reload that blanks the block, while the LP core
\* reads epoch, target and deadline one by one.  A blank target that a reload
\* leaves armed has no session: it is pressed for only if the next arming
\* comes into force during this very look.
Epochs  == {f[1] : f \in inForce}
Targets == {f[2] : f \in inForce}
Pressing == DecidePress
PressedInForce ==
    [][Pressing => lTarget \in Targets /\ lActive \in Epochs]_vars

\* Stop is pressed at most once for each arming, except when the LP core is
\* reset between the press and taking the trigger down.  (The blank target 0
\* is no arming.)
PressedOnce == [][Pressing /\ lTarget # 0 => lTarget \notin pressed]_vars

(* The invariant behind them *)

Arming  == aPc \in {"off", "epoch", "target", "deadline", "on"}
Reading == lPc \in {"epoch", "deadline", "target"}

\* The main task may arm now, or may once the LP core is where it is.
Live == bPc = "run" \/ (bPc = "ready" /\ lActive = hEpoch)

\* The flag is down while an arming is written and while a session begins.
FlagInv ==
    /\ aPc \in {"epoch", "target", "deadline", "on"} => tArmed = "no"
    /\ aPc \in {"deadline", "on"} => tTarget \in {0, aNum}
    /\ aPc \in {"off", "epoch", "target"} => tTarget # aNum
    /\ Arming => aNum \notin pressed \cup {0} /\ aNum \notin Targets
    /\ bPc \in {"epoch", "ready"} => tArmed = "no"
    /\ bPc # "run" => aPc = "idle"

\* The epoch of a session that begins is new to the mailbox and the LP core.
EpochInv ==
    /\ hEpoch <= sessions /\ mEpoch <= sessions /\ lActive <= sessions
    /\ bPc \in {"disarm", "epoch"} => mEpoch < hEpoch /\ lActive < hEpoch

\* The target that is read, or will be, was in force or will be by the time the
\* flag is up.
TargetReadInv ==
    /\ Reading /\ tArmed = "yes" => tTarget \in Targets
    /\ Reading /\ Live => tTarget \in Targets \/ aPc \in {"deadline", "on"}
    /\ lPc = "again" /\ tArmed = "yes" => lTarget \in Targets
    /\ lPc = "again" /\ Live =>
           lTarget \in Targets \/ (aPc \in {"deadline", "on"} /\ lTarget = tTarget)
    /\ lPc = "decide" => lTarget \in Targets

\* So it is with the epoch, which is read first.
EpochReadInv ==
    /\ lPc = "epoch" /\ tArmed = "yes" => tEpoch \in Epochs
    /\ lPc = "epoch" /\ Live => tEpoch \in Epochs \/ aPc \in {"target", "deadline", "on"}
    /\ lPc \in {"deadline", "target", "again"} /\ tArmed = "yes" => lEpoch \in Epochs
    /\ lPc \in {"deadline", "target", "again"} /\ Live =>
           lEpoch \in Epochs \/ (aPc \in {"target", "deadline", "on"} /\ lEpoch = tEpoch)
    /\ lPc = "decide" => lEpoch \in Epochs

\* What is read, or will be, has not been pressed for, or is the blank target.
OnceInv ==
    /\ tArmed = "yes" =>
           \/ tTarget \notin pressed \/ tTarget = 0
           \/ lPc = "fired" /\ tTarget = lTarget
    /\ Reading => tTarget \notin pressed \/ tTarget = 0
    /\ lPc \in {"again", "decide"} => lTarget \notin pressed \/ lTarget = 0

\* The five together, which every step keeps.
TriggerInv == FlagInv /\ EpochInv /\ TargetReadInv /\ EpochReadInv /\ OnceInv

\* When the HP CPU died during a move, its coming back to an LP core that runs
\* does not take the trigger down before the LP core has pressed stop for it
\* or the deadline is reached.
SurvivesHpDeath ==
    [][hpResets > 0 /\ bPc # "run" /\ ~Reload /\ tArmed = "yes" /\ tArmed' = "no" =>
           \/ tTarget \in pressed
           \/ tDeadline \in reached]_vars

\* A trigger whose target stays passed does not stay armed: stop is pressed
\* as soon as the engine has released the button before it.
Served ==
    \A a \in 1..MaxArms : []<>~(tArmed = "yes" /\ tTarget = a /\ a \in crossed)
=============================================================================
