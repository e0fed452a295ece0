---------------------------- MODULE HCP2Command ----------------------------
(***************************************************************************)
(* The command channel of the HCP2 mailbox: how a button the HP CPU asks   *)
(* for reaches the responder on the LP core, at most once, although either *)
(* CPU may be reset at any time and neither waits for the other.           *)
(*                                                                         *)
(*   main task        queue_button_ -> hcp2_hp_supervisor_send_command     *)
(*   supervisor task  start_or_skip_lp_, load_and_start_lp_,               *)
(*                    hcp2_hp_supervisor_begin_session                     *)
(*   LP core          hcp2_responder_runtime_begin_from_mailbox,           *)
(*                    hcp2_responder_runtime_handle_mailbox_command        *)
(*                                                                         *)
(* Every store to and load from the mailbox is a step, except the four     *)
(* loads that compare and record the pending command, which are folded:    *)
(* they only decide when the settle time starts again.  The supervisor     *)
(* task has the higher priority on the single HP core and does not block   *)
(* inside begin_session, so the main task does not run in the middle of    *)
(* it, but it preempts the main task anywhere in the middle of a send.     *)
(*                                                                         *)
(* Data: commands are numbered in the order the main task sends them.  The *)
(* id and deadline fields hold the number of the command that wrote them,  *)
(* 0 for HCP2_LP_COMMAND_NONE and "no deadline"; queue_button_ only sends  *)
(* known ids, always with a deadline.  Time is a set of deadlines that     *)
(* have passed and a flag that the settle time has elapsed.                *)
(***************************************************************************)
EXTENDS Naturals

CONSTANTS
    MaxSends,       \* bound: commands the main task sends
    MaxSessions,    \* bound: epochs the HP CPU draws
    MaxHpResets,    \* bound: resets of the HP CPU
    MaxLpResets,    \* bound: watchdog resets of the LP core
    PreemptSend,    \* TRUE: the supervisor task may reload in the middle of a send
    LpIsPrompt      \* TRUE: after a new session the HP CPU's start-up takes
                    \* longer than one pass of the LP main loop; the code checks
                    \* nothing, so only Answered is checked with TRUE

ASSUME BoundsAssumption ==
    /\ MaxSends \in Nat /\ MaxSessions \in Nat
    /\ MaxHpResets \in Nat /\ MaxLpResets \in Nat
ASSUME TimingAssumption == PreemptSend \in BOOLEAN /\ LpIsPrompt \in BOOLEAN

Commands == 1..MaxSends
StopButton == MaxSends + 1      \* btn, when the stop trigger pressed it
Results  == {"none", "executed", "expired", "unknown", "busy"}

VARIABLES
    \* the mailbox
    mEpoch, mSeq, mId, mDeadline, mAckSeq, mAckResult,
    mBy, mAckBy,    \* ghosts: the commands whose sequences mSeq and mAckSeq last were
    \* HP: the supervisor object
    hEpoch, hNext,
    \* HP: main task, inside send_command
    sPc, sCmd, sSeq, sEpoch,
    \* HP: supervisor task
    bPc, bCaller, sessions, hpResets,
    \* history: the commands that are over and done with since the last session
    \* began: fully sent, or cut off by a reset, before it, and not taken then
    over,
    \* LP: the responder runtime and the engine's active button
    lActive, lLast, lPendEpoch, lPendSeq, lPendTime, btn,
    \* LP: locals of the handler
    lPc, lSeq, lBy, lId, lResult, lpResets,
    \* time
    expired,
    \* history: presses as <<command taken, command whose id was pressed>>
    presses

mbVars   == <<mEpoch, mSeq, mId, mDeadline, mAckSeq, mAckResult, mBy, mAckBy>>
hpVars   == <<hEpoch, hNext>>
sendVars == <<sPc, sCmd, sSeq, sEpoch>>
sessVars == <<bPc, bCaller, sessions, hpResets, over>>
rtVars   == <<lActive, lLast, lPendEpoch, lPendSeq, lPendTime>>
locVars  == <<lSeq, lBy, lId, lResult>>
lpVars   == <<rtVars, locVars, btn, lPc, lpResets>>
vars == <<mbVars, hpVars, sendVars, sessVars, lpVars, expired, presses>>

\* Power-on: the mailbox RAM does not hold a valid header, the LP is stopped.
Init ==
    /\ mEpoch = 0 /\ mSeq = 0 /\ mId = 0 /\ mDeadline = 0
    /\ mAckSeq = 0 /\ mAckResult = "none" /\ mBy = 0 /\ mAckBy = 0
    /\ hEpoch = 0 /\ hNext = 0
    /\ sPc = "idle" /\ sCmd = 0 /\ sSeq = 0 /\ sEpoch = 0
    /\ bPc = "boot" /\ bCaller = "setup" /\ sessions = 0 /\ hpResets = 0
    /\ over = {}
    /\ lActive = 0 /\ lLast = 0 /\ lPendEpoch = 0 /\ lPendSeq = 0
    /\ lPendTime = "settling" /\ btn = 0
    /\ lPc = "off" /\ lSeq = 0 /\ lBy = 0 /\ lId = 0 /\ lResult = "none"
    /\ lpResets = 0
    /\ expired = {}
    /\ presses = {}

----------------------------------------------------------------------------
(* HP main task: hcp2_hp_supervisor_send_command -> hcp2_lp_mailbox_send_command *)

\* The step `from` -> `to` of the send; the supervisor task is not running.
SendStep(from, to) ==
    /\ bPc = "run"
    /\ sPc = from
    /\ sPc' = to
    /\ UNCHANGED <<mBy, mAckBy, sCmd, sessVars, lpVars, expired, presses>>

SendCall ==
    /\ bPc = "run"
    /\ sPc = "idle"
    /\ sCmd < MaxSends
    /\ sCmd' = sCmd + 1
    /\ sSeq' = hNext + 1
    /\ sPc' = "next"
    /\ UNCHANGED <<mbVars, hpVars, sEpoch, sessVars, lpVars, expired, presses>>

SendNext ==
    /\ SendStep("next", "getEpoch")
    /\ hNext' = sSeq
    /\ UNCHANGED <<mEpoch, mSeq, mId, mDeadline, mAckSeq, mAckResult, hEpoch, sSeq, sEpoch>>

SendGetEpoch ==
    /\ SendStep("getEpoch", "epoch")
    /\ sEpoch' = hEpoch
    /\ UNCHANGED <<mEpoch, mSeq, mId, mDeadline, mAckSeq, mAckResult, hpVars, sSeq>>

\* Mutant: the sequence is stored first, not last.
SendEpochSeqFirst ==
    /\ bPc = "run" /\ sPc = "epoch"
    /\ sPc' = "id"
    /\ mEpoch' = sEpoch
    /\ mSeq' = sSeq /\ mBy' = sCmd
    /\ UNCHANGED <<mAckBy, mId, mDeadline, mAckSeq, mAckResult, hpVars, sCmd, sSeq, sEpoch,
                   sessVars, lpVars, expired, presses>>

SendEpoch ==
    /\ SendStep("epoch", "id")
    /\ mEpoch' = sEpoch
    /\ UNCHANGED <<mSeq, mId, mDeadline, mAckSeq, mAckResult, hpVars, sSeq, sEpoch>>

SendId ==
    /\ SendStep("id", "deadline")
    /\ mId' = sCmd
    /\ UNCHANGED <<mEpoch, mSeq, mDeadline, mAckSeq, mAckResult, hpVars, sSeq, sEpoch>>

SendDeadline ==
    /\ SendStep("deadline", "result")
    /\ mDeadline' = sCmd
    /\ UNCHANGED <<mEpoch, mSeq, mId, mAckSeq, mAckResult, hpVars, sSeq, sEpoch>>

SendResult ==
    /\ SendStep("result", "seq")
    /\ mAckResult' = "none"
    /\ UNCHANGED <<mEpoch, mSeq, mId, mDeadline, mAckSeq, hpVars, sSeq, sEpoch>>

SendSeq ==
    /\ bPc = "run"
    /\ sPc = "seq"
    /\ sPc' = "idle"
    /\ mSeq' = sSeq
    /\ mBy' = sCmd
    /\ UNCHANGED <<mAckBy, mEpoch, mId, mDeadline, mAckSeq, mAckResult, hpVars,
                   sCmd, sSeq, sEpoch, sessVars, lpVars, expired, presses>>

Send == SendCall \/ SendNext \/ SendGetEpoch \/ SendEpoch \/ SendId
        \/ SendDeadline \/ SendResult \/ SendSeq

----------------------------------------------------------------------------
(* HP supervisor task                                                      *)

\* start_or_skip_lp_ found the LP alive (SKIP or DEFER): only a new session.
KeepLp ==
    /\ bPc = "boot"
    /\ lPc # "off"
    /\ sessions < MaxSessions
    /\ bPc' = "zero"
    /\ bCaller' = "setup"
    /\ UNCHANGED <<mbVars, hpVars, sendVars, sessions, hpResets, over, lpVars, expired, presses>>

\* load_and_start_lp_, at start or because the heartbeat stood still.
StopLp ==
    /\ bPc \in {"boot", "run"}
    /\ PreemptSend \/ sPc = "idle"
    /\ sessions < MaxSessions
    /\ lPc' = "off"
    /\ btn' = 0
    /\ bPc' = "load"
    /\ bCaller' = IF bPc = "run" THEN "loop" ELSE "setup"
    /\ UNCHANGED <<mbVars, hpVars, sendVars, sessions, hpResets, over, rtVars, locVars,
                   lpResets, expired, presses>>

\* An error on the way: LP stays stopped.  In setup the backend never gets
\* ready; the supervisor task goes on and finds no heartbeat next time.
LoadError ==
    /\ bPc \in {"load", "start"}
    /\ bPc' = IF bCaller = "loop" THEN "run" ELSE "failed"
    /\ UNCHANGED <<mbVars, hpVars, sendVars, bCaller, sessions, hpResets, over, lpVars,
                   expired, presses>>

\* hcp2_lp_mailbox_init; nobody else touches the mailbox meanwhile.
ClearMailbox ==
    /\ bPc = "load"
    /\ bPc' = "zero"
    /\ mEpoch' = 0 /\ mSeq' = 0 /\ mId' = 0 /\ mDeadline' = 0
    /\ mAckSeq' = 0 /\ mAckResult' = "none"
    /\ UNCHANGED <<mBy, mAckBy, hpVars, sendVars, bCaller, sessions, hpResets, over, lpVars,
                   expired, presses>>

\* The step `from` -> `to` of hcp2_hp_supervisor_begin_session.
SessionStep(from, to) ==
    /\ bPc = from
    /\ bPc' = to
    /\ UNCHANGED <<mBy, mAckBy, sendVars, bCaller, hpResets, lpVars, expired, presses>>

\* Every command is over but the one whose send is still going on and the one
\* whose sequence the LP core has taken, but not pressed yet.
OverNow ==
    {c \in 1..sCmd : /\ sPc # "idle" => c # sCmd
                     /\ lPc \in {"takeId", "takeDeadline", "press"} => c # lBy}

\* Mutant: the sequence of the last session is left in the mailbox.
SessionZeroKeepsSeq ==
    /\ SessionStep("zero", "id")
    /\ sessions' = sessions + 1
    /\ hEpoch' = sessions + 1
    /\ hNext' = 0
    /\ over' = OverNow
    /\ UNCHANGED <<mSeq, mEpoch, mId, mDeadline, mAckSeq, mAckResult>>

\* fresh_epoch_ draws a random number; that it is a new one is assumed.
SessionZero ==
    /\ SessionStep("zero", "id")
    /\ sessions' = sessions + 1
    /\ hEpoch' = sessions + 1
    /\ hNext' = 0
    /\ mSeq' = 0
    /\ over' = OverNow
    /\ UNCHANGED <<mEpoch, mId, mDeadline, mAckSeq, mAckResult>>

SessionId ==
    /\ SessionStep("id", "ackSeq")
    /\ mId' = 0
    /\ UNCHANGED <<mEpoch, mSeq, mDeadline, mAckSeq, mAckResult, hpVars, sessions, over>>

SessionAckSeq ==
    /\ SessionStep("ackSeq", "ackResult")
    /\ mAckSeq' = 0
    /\ UNCHANGED <<mEpoch, mSeq, mId, mDeadline, mAckResult, hpVars, sessions, over>>

SessionAckResult ==
    /\ SessionStep("ackResult", "deadline")
    /\ mAckResult' = "none"
    /\ UNCHANGED <<mEpoch, mSeq, mId, mDeadline, mAckSeq, hpVars, sessions, over>>

SessionDeadline ==
    /\ SessionStep("deadline", "epoch")
    /\ mDeadline' = 0
    /\ UNCHANGED <<mEpoch, mSeq, mId, mAckSeq, mAckResult, hpVars, sessions, over>>

SessionEpoch ==
    /\ SessionStep("epoch", IF lPc = "off" THEN "start" ELSE "ready")
    /\ mEpoch' = hEpoch
    /\ UNCHANGED <<mSeq, mId, mDeadline, mAckSeq, mAckResult, hpVars, sessions, over>>

\* ulp_lp_core_run
StartLp ==
    /\ bPc = "start"
    /\ bPc' = "run"
    /\ lPc' = "bootSeq"
    /\ UNCHANGED <<mbVars, hpVars, sendVars, bCaller, sessions, hpResets, over, rtVars,
                   locVars, btn, lpResets, expired, presses>>

\* start_or_skip_lp_ returned with the LP running; the main loop begins.  With
\* LpIsPrompt a pass of the LP core is through by then: it found the sequence
\* zero and adopted the epoch.
Ready ==
    /\ bPc = "ready"
    /\ LpIsPrompt => lPc = "loop" /\ lActive = hEpoch
    /\ bPc' = "run"
    /\ UNCHANGED <<mbVars, hpVars, sendVars, bCaller, sessions, hpResets, over, lpVars,
                   expired, presses>>

BeginSession == SessionZero \/ SessionId \/ SessionAckSeq \/ SessionAckResult
                \/ SessionDeadline \/ SessionEpoch

Supervise == KeepLp \/ StopLp \/ LoadError \/ ClearMailbox \/ BeginSession \/ StartLp \/ Ready

\* The HP CPU is reset: its RAM is lost, the mailbox and the LP core are not.
HpReset ==
    /\ hpResets < MaxHpResets
    /\ hpResets' = hpResets + 1
    /\ bPc' = "boot" /\ bCaller' = "setup"
    /\ sPc' = "idle" /\ sSeq' = 0 /\ sEpoch' = 0
    /\ hEpoch' = 0 /\ hNext' = 0
    /\ UNCHANGED <<mbVars, sCmd, sessions, over, lpVars, expired, presses>>

----------------------------------------------------------------------------
(* LP core: start, hcp2_responder_runtime_begin_from_mailbox               *)

\* The step `from` -> `to` of the LP core; the HP side is left alone.
LpStep(from, to) ==
    /\ lPc = from
    /\ lPc' = to
    /\ UNCHANGED <<mEpoch, mSeq, mId, mDeadline, mBy, hpVars, sendVars, sessVars,
                   lpResets, expired>>

\* The watchdog resets the LP core: registers and LP-only RAM state are lost,
\* the engine forgets the active button, the mailbox is kept.
LpReset ==
    /\ lPc # "off"
    /\ lpResets < MaxLpResets
    /\ lpResets' = lpResets + 1
    /\ lPc' = "bootSeq"
    /\ btn' = 0
    /\ UNCHANGED <<mbVars, hpVars, sendVars, sessVars, rtVars, locVars, expired, presses>>

NoPending ==
    lPendEpoch' = 0 /\ lPendSeq' = 0 /\ lPendTime' = "settling"

BootSeq ==
    /\ LpStep("bootSeq", "bootEpoch")
    /\ lSeq' = mSeq
    /\ lBy' = mBy
    /\ UNCHANGED <<mAckSeq, mAckBy, mAckResult, rtVars, btn, lId, lResult, presses>>

\* Mutant: a reset LP core forgets which sequence it has handled.
BootEpochForgets ==
    /\ LpStep("bootEpoch", "bootAck")
    /\ lActive' = mEpoch
    /\ lLast' = 0
    /\ NoPending
    /\ UNCHANGED <<mAckSeq, mAckBy, mAckResult, btn, locVars, presses>>

BootEpoch ==
    /\ LpStep("bootEpoch", "bootAck")
    /\ lActive' = mEpoch
    /\ lLast' = lSeq
    /\ NoPending
    /\ UNCHANGED <<mAckSeq, mAckBy, mAckResult, btn, locVars, presses>>

\* A command nobody answered before the reset is answered "expired".
BootAck ==
    /\ LpStep("bootAck", IF lSeq # 0 /\ mAckSeq # lSeq THEN "ackResult" ELSE "loop")
    /\ lResult' = "expired"
    /\ UNCHANGED <<mAckSeq, mAckBy, mAckResult, rtVars, btn, lSeq, lBy, lId, presses>>

----------------------------------------------------------------------------
(* LP core: hcp2_responder_runtime_handle_mailbox_command                  *)

HandleSeq ==
    /\ LpStep("loop", IF mSeq = 0 THEN "adopt" ELSE "epoch")
    /\ UNCHANGED <<mAckSeq, mAckBy, mAckResult, rtVars, btn, locVars, presses>>

HandleAdopt ==
    /\ LpStep("adopt", "loop")
    /\ lActive' = mEpoch
    /\ lLast' = 0
    /\ NoPending
    /\ UNCHANGED <<mAckSeq, mAckBy, mAckResult, btn, locVars, presses>>

HandleEpoch ==
    /\ \/ /\ mEpoch # lActive
          /\ LpStep("epoch", "loop")
          /\ NoPending
       \/ /\ mEpoch = lActive
          /\ LpStep("epoch", "last")
          /\ UNCHANGED <<lPendEpoch, lPendSeq, lPendTime>>
    /\ UNCHANGED <<mAckSeq, mAckBy, mAckResult, lActive, lLast, btn, locVars, presses>>

HandleLast ==
    /\ \/ /\ mSeq = lLast
          /\ LpStep("last", "loop")
          /\ NoPending
       \/ /\ mSeq # lLast
          /\ LpStep("last", "pending")
          /\ UNCHANGED <<lPendEpoch, lPendSeq, lPendTime>>
    /\ UNCHANGED <<mAckSeq, mAckBy, mAckResult, lActive, lLast, btn, locVars, presses>>

\* A new (epoch, sequence) starts the settle time, a settled one is taken.
HandlePending ==
    /\ \/ /\ <<mEpoch, mSeq>> # <<lPendEpoch, lPendSeq>>
          /\ LpStep("pending", "loop")
          /\ lPendEpoch' = mEpoch /\ lPendSeq' = mSeq /\ lPendTime' = "settling"
       \/ /\ <<mEpoch, mSeq>> = <<lPendEpoch, lPendSeq>>
          /\ LpStep("pending", IF lPendTime = "settled" THEN "takeEpoch" ELSE "loop")
          /\ UNCHANGED <<lPendEpoch, lPendSeq, lPendTime>>
    /\ UNCHANGED <<mAckSeq, mAckBy, mAckResult, lActive, lLast, btn, locVars, presses>>

\* Mutant: a command is taken if it is not of the session.
TakeEpochSwapped ==
    /\ LpStep("takeEpoch", IF mEpoch = lActive THEN "loop" ELSE "takeSeq")
    /\ UNCHANGED <<mAckSeq, mAckBy, mAckResult, rtVars, btn, locVars, presses>>

TakeEpoch ==
    /\ LpStep("takeEpoch", IF mEpoch = lActive THEN "takeSeq" ELSE "loop")
    /\ UNCHANGED <<mAckSeq, mAckBy, mAckResult, rtVars, btn, locVars, presses>>

TakeSeq ==
    /\ LpStep("takeSeq", IF mSeq = 0 \/ mSeq = lLast THEN "loop" ELSE "takeId")
    /\ lSeq' = mSeq
    /\ lBy' = mBy
    /\ UNCHANGED <<mAckSeq, mAckBy, mAckResult, rtVars, btn, lId, lResult, presses>>

\* Mutant: HCP2_LP_COMMAND_NONE is taken like any other id.
TakeIdAny ==
    /\ LpStep("takeId", "takeDeadline")
    /\ lId' = mId
    /\ UNCHANGED <<mAckSeq, mAckBy, mAckResult, rtVars, btn, lSeq, lBy, lResult, presses>>

\* A session that begins just now may have blanked the id: "unknown".
TakeId ==
    /\ LpStep("takeId", IF mId = 0 THEN "ackResult" ELSE "takeDeadline")
    /\ lId' = mId
    /\ lResult' = "unknown"
    /\ UNCHANGED <<mAckSeq, mAckBy, mAckResult, rtVars, btn, lSeq, lBy, presses>>

TakeDeadline ==
    /\ \/ /\ mDeadline \in expired
          /\ LpStep("takeDeadline", "ackResult")
          /\ lResult' = "expired"
          /\ UNCHANGED rtVars
       \/ /\ mDeadline \notin expired
          /\ LpStep("takeDeadline", "press")
          /\ lLast' = lSeq
          /\ NoPending
          /\ UNCHANGED <<lActive, lResult>>
    /\ UNCHANGED <<mAckSeq, mAckBy, mAckResult, btn, lSeq, lBy, lId, presses>>

\* Mutant: the engine's refusal is not looked at.
PressUnchecked ==
    /\ LpStep("press", "ackResult")
    /\ lResult' = "executed"
    /\ \/ btn = 0 /\ btn' = lId /\ presses' = presses \cup {<<lBy, lId>>}
       \/ btn # 0 /\ UNCHANGED <<btn, presses>>
    /\ UNCHANGED <<mAckSeq, mAckBy, mAckResult, rtVars, lSeq, lBy, lId>>

\* hcp2_engine_press_button refuses while another button is active.
Press ==
    /\ LpStep("press", "ackResult")
    /\ \/ /\ btn = 0
          /\ btn' = lId
          /\ presses' = presses \cup {<<lBy, lId>>}
          /\ lResult' = "executed"
       \/ /\ btn # 0
          /\ lResult' = "busy"
          /\ UNCHANGED <<btn, presses>>
    /\ UNCHANGED <<mAckSeq, mAckBy, mAckResult, rtVars, lSeq, lBy, lId>>

\* hcp2_lp_mailbox_ack_command; take_command sets last_sequence after it.
AckResult ==
    /\ LpStep("ackResult", "ackSeq")
    /\ mAckResult' = lResult
    /\ UNCHANGED <<mAckSeq, mAckBy, rtVars, btn, locVars, presses>>

AckSeq ==
    /\ LpStep("ackSeq", "loop")
    /\ mAckSeq' = lSeq
    /\ mAckBy' = lBy
    /\ lLast' = lSeq
    /\ UNCHANGED <<mAckResult, lActive, lPendEpoch, lPendSeq, lPendTime, btn,
                   locVars, presses>>

Boot   == BootSeq \/ BootEpoch \/ BootAck
Handle == HandleSeq \/ HandleAdopt \/ HandleEpoch \/ HandleLast \/ HandlePending
          \/ TakeEpoch \/ TakeSeq \/ TakeId \/ TakeDeadline \/ Press
          \/ AckResult \/ AckSeq

----------------------------------------------------------------------------
(* Time and the bus                                                        *)

\* HCP2_RESPONDER_COMMAND_SETTLE_US have passed since the command was seen.
Settle ==
    /\ lPendSeq # 0
    /\ lPendTime = "settling"
    /\ lPendTime' = "settled"
    /\ UNCHANGED <<mbVars, hpVars, sendVars, sessVars, lActive, lLast, lPendEpoch,
                   lPendSeq, locVars, btn, lPc, lpResets, expired, presses>>

\* The deadline of a command that was sent passes.
Expire ==
    \E c \in (1..sCmd) \ expired :
        /\ expired' = expired \cup {c}
        /\ UNCHANGED <<mbVars, hpVars, sendVars, sessVars, lpVars, presses>>

\* handle_stop_trigger runs in the same loop, before the command handler, and
\* may take the engine's one button; when it does is the matter of
\* HCP2StopTrigger.
TriggerStop ==
    /\ lPc = "loop"
    /\ btn = 0
    /\ btn' = StopButton
    /\ UNCHANGED <<mbVars, hpVars, sendVars, sessVars, rtVars, locVars, lPc,
                   lpResets, expired, presses>>

\* The drive has polled the press and then the release (see HCP2Engine).
Release ==
    /\ lPc = "loop"
    /\ btn # 0
    /\ btn' = 0
    /\ UNCHANGED <<mbVars, hpVars, sendVars, sessVars, rtVars, locVars, lPc,
                   lpResets, expired, presses>>

Next == Send \/ Supervise \/ HpReset \/ Boot \/ Handle \/ LpReset
        \/ Settle \/ Expire \/ TriggerStop \/ Release

Spec == Init /\ [][Next]_vars

FairSpec == Spec /\ WF_vars(Boot \/ Handle) /\ WF_vars(Settle) /\ WF_vars(Send)
                 /\ WF_vars(BeginSession \/ StartLp \/ Ready)

----------------------------------------------------------------------------
(* Properties                                                              *)

TypeOK ==
    /\ mEpoch \in Nat /\ mSeq \in Nat /\ mAckSeq \in Nat
    /\ mId \in 0..sCmd /\ mDeadline \in 0..sCmd /\ mBy \in 0..sCmd /\ mAckBy \in 0..sCmd
    /\ mAckResult \in Results
    /\ hEpoch \in Nat /\ hNext \in Nat
    /\ sPc \in {"idle", "next", "getEpoch", "epoch", "id", "deadline", "result", "seq"}
    /\ sCmd \in 0..MaxSends /\ sSeq \in Nat /\ sEpoch \in Nat
    /\ bPc \in {"boot", "run", "failed", "load", "zero", "id", "ackSeq",
                "ackResult", "deadline", "epoch", "start", "ready"}
    /\ bCaller \in {"setup", "loop"} /\ sessions \in Nat
    /\ hpResets \in 0..MaxHpResets /\ over \subseteq 1..sCmd
    /\ lActive \in Nat /\ lLast \in Nat
    /\ lPendEpoch \in Nat /\ lPendSeq \in Nat /\ lPendTime \in {"settling", "settled"}
    /\ btn \in 0..StopButton
    /\ lPc \in {"off", "bootSeq", "bootEpoch", "bootAck", "loop", "adopt",
                "epoch", "last", "pending", "takeEpoch", "takeSeq", "takeId",
                "takeDeadline", "press", "ackResult", "ackSeq"}
    /\ lSeq \in Nat /\ lBy \in 0..sCmd /\ lId \in 0..sCmd /\ lResult \in Results
    /\ lpResets \in 0..MaxLpResets
    /\ expired \subseteq 1..sCmd
    /\ presses \subseteq (1..sCmd) \X (1..sCmd)

\* The channel implements the ordered, at-most-once service.
Service == INSTANCE HCP2CommandService WITH sent <- sCmd, done <- presses
ImplementsService == Service!Spec

\* Commands are pressed in the order they were sent and each at most once,
\* through resets of either CPU and new sessions that reuse sequence numbers.
Pressing == lPc = "press" /\ lPc' = "ackResult" /\ btn' # btn
PressedInOrder == [][Pressing => \A p \in presses : p[1] < lBy]_vars

\* The id pressed for a command is its own or that of a later one that is
\* overwriting it, never that of an earlier command.
NeverAnOlderId == \A p \in presses : p[2] >= p[1]

\* The inductive invariant behind the two properties above.  A command is
\* published under a number larger than all before; a sequence that the LP
\* core is prepared to take belongs to a command later than every press.
PressedBelow(c)  == \A p \in presses : p[1] < c
PressedUpTo(c)   == \A p \in presses : p[1] <= c
\* The handler's copy (lSeq, lBy) is the published command or an older one.
CopyInv == lBy <= mBy /\ (lBy = mBy /\ mSeq # 0 => mSeq = lSeq)

PublishInv ==
    /\ sPc # "idle" => mBy < sCmd
    /\ mSeq # 0 => mBy # 0
    /\ mId # 0 => mId >= mBy
    /\ sPc \in {"deadline", "result", "seq"} => mId \in {0, sCmd}
HandlerInv ==
    /\ PressedUpTo(mBy)
    /\ lPc \in {"loop", "epoch", "last", "pending", "takeEpoch", "takeSeq"} =>
           (mSeq # 0 /\ mSeq # lLast => PressedBelow(mBy))
    /\ lPc = "adopt" => (mSeq # 0 => PressedBelow(mBy))
    /\ lPc \in {"bootEpoch", "bootAck", "ackResult", "ackSeq"} =>
           CopyInv /\ PressedUpTo(lBy)
    /\ lPc = "bootAck" => lLast = lSeq
    /\ lPc \in {"takeId", "takeDeadline", "press"} =>
           CopyInv /\ PressedBelow(lBy) /\ lBy # 0 /\ (mId # 0 => mId >= lBy)
    /\ lPc \in {"takeDeadline", "press"} => lId >= lBy
CommandInv == TypeOK /\ PublishInv /\ HandlerInv /\ NeverAnOlderId

\* What ack_result tells the HP CPU: "executed" for the outstanding sequence
\* only if that command was pressed, provided the acknowledgement is that
\* command's own.  It may be one that the LP core was about to write when its
\* session ended (AckIsOfTheSession).
ExecutedMeansPressed ==
    mSeq # 0 /\ mAckSeq = mSeq /\ mAckBy = mBy /\ mAckResult = "executed"
        => \E p \in presses : p[1] = mBy

\* Nothing is acknowledged in a session before a command was sent in it.  This
\* is what run_mailbox_suite of dual_iss.py checks; it fails when the HP CPU is
\* reset while the LP core is between handling a command and acknowledging it.
AckIsOfTheSession == bPc = "run" /\ hNext = 0 => mAckSeq = 0

\* What was sent before the current session began is not pressed any more: a
\* command that was fully sent, or was cut off in the middle by a reset of the
\* HP CPU, before begin_session zeroed the sequence.  The one exception is a
\* command whose sequence the LP core had taken by then.
OldCommandsIgnored == [][Pressing => lBy \notin over]_vars

\* The invariant behind OldCommandsIgnored: neither the sequence in the mailbox,
\* nor the one the LP core has taken, nor the one being sent is an old one's.
OverInv ==
    /\ mSeq # 0 => mBy \notin over
    /\ lPc \in {"takeId", "takeDeadline", "press"} => lBy \notin over
    /\ sPc # "idle" => sCmd \notin over

\* The invariant behind ExecutedMeansPressed: what is acknowledged is never
\* newer than what the LP core has at hand, and "executed" is only written
\* after the press.
IsPressed(c) == \E p \in presses : p[1] = c
AckInv ==
    /\ lBy <= mBy /\ mAckBy <= lBy
    /\ lPc \in {"ackResult", "ackSeq"} /\ lResult = "executed" => IsPressed(lBy)
    /\ lPc = "ackSeq" => mAckResult \in {lResult, "none"}
    /\ mAckBy = mBy /\ mBy # 0 /\ mAckResult = "executed" => IsPressed(mBy)

\* A published command is answered, unless it is superseded, its session
\* ends or the LP core is stopped: the LP core never gets stuck on an epoch
\* that the HP CPU has left.
Outstanding(c) == mBy = c /\ mSeq # 0 /\ mAckSeq # mSeq /\ lPc # "off"
Answered == \A c \in Commands : []<>~Outstanding(c)
=============================================================================
