----------------------------- MODULE HCP2Engine -----------------------------
(***************************************************************************)
(* The HCP2 protocol engine (hcp2_engine.c): one button that is shown to   *)
(* the drive first pressed, then released, in the responses to its status  *)
(* polls, and one slot for the response that is due next.                  *)
(*                                                                         *)
(* A response is scheduled when the drive's frame is received, claimed     *)
(* when it is due, and occupies the slot until its last byte is out; a     *)
(* frame that arrives meanwhile gets no response.  The steps are those of  *)
(* both users: hcp2_engine_poll on the LP core and in the HP fallback task *)
(* runs claim, start and done in one go, the ESP32 real-time backend runs  *)
(* them in the timer and UART interrupts with frames received in between.  *)
(*                                                                         *)
(* Data: a button is the number of the press that was accepted.  Frames    *)
(* arrive whole; a frame that is damaged or for somebody else leaves this  *)
(* state alone, and so does a broadcast.  The clock is the free running    *)
(* counter of HCP2_PORT now_us in ticks, with 2 * HalfRange values for the *)
(* 2^32 of the code; of each due time only its distance from now is kept.  *)
(***************************************************************************)
EXTENDS Naturals

CONSTANTS
    HalfRange,      \* 2^31 in the code: differences below it are "reached"
    PressTicks,     \* config.button_press_us
    DelayTicks,     \* config.response_delay_us
    MaxLate,        \* a due response is claimed at most so many ticks late
    MaxQuiet,       \* most ticks between two status polls that get through
    MaxPresses,     \* bound on the presses accepted
    MaxResets       \* bound on the resets of the engine's CPU

ASSUME ClockAssumption ==
    /\ HalfRange \in Nat /\ PressTicks \in Nat /\ DelayTicks \in Nat
    /\ 0 < PressTicks /\ PressTicks < HalfRange
    /\ DelayTicks < HalfRange
ASSUME EnvironmentAssumption ==
    MaxLate \in Nat /\ MaxQuiet \in Nat
ASSUME BoundsAssumption == MaxPresses \in Nat /\ MaxResets \in Nat

VARIABLES
    active,         \* active_button: a press, 0 for HCP2_BUTTON_NONE
    releasePending, \* release_pending, "yes" or "no"
    pressClock,     \* now_us - press_until_us
    slot,           \* pending_tx_ready/_claimed/_started as one of "free",
                    \* "ready", "claimed", "started"
    txPress,        \* pending_tx: the press it shows, 0 for none
    txPhase,        \* pending_tx: "press", "release", "idle" or "other"
    txClock,        \* now_us - pending_tx_due_us
    \* the environment
    quiet,          \* ticks since the last status poll that got through
    \* history
    presses,        \* presses accepted so far
    age,            \* ticks since the last of them (at most PressTicks + 1)
    open,           \* the press the drive was shown, and not yet its release
    released,       \* the last press whose release the drive was shown
    excused,        \* "yes": a phase of the last press was lost, see below
    resets

buttonVars == <<active, releasePending, pressClock>>
slotVars   == <<slot, txPress, txPhase, txClock>>
historyVars == <<presses, age, open, released, excused, resets>>
vars == <<buttonVars, slotVars, quiet, historyVars>>

Clock == 0..(2 * HalfRange - 1)

\* Mutant: a due time is only reached when it is past.
ReachedLate(c) == c > 0 /\ c < HalfRange

\* ((int32_t) (now - due)) >= 0
Reached(c) == c < HalfRange
\* Mutant: the difference is computed wider than 32 bits.
AdvanceWide(c) == c + 1

\* now_us advances by one
Advance(c) == IF c = 2 * HalfRange - 1 THEN 0 ELSE c + 1
\* now_us - (now_us + d)
Before(d) == IF d = 0 THEN 0 ELSE 2 * HalfRange - d

Init ==
    /\ active = 0 /\ releasePending = "no" /\ pressClock = 0
    /\ slot = "free" /\ txPress = 0 /\ txPhase = "idle" /\ txClock = 0
    /\ quiet = 0
    /\ presses = 0 /\ age = 0 /\ open = 0 /\ released = 0
    /\ excused = "no" /\ resets = 0

----------------------------------------------------------------------------
(* hcp2_engine_press_button                                                *)

\* The history starts afresh with a press, unless an older one is on its way.
PressButton ==
    /\ active = 0
    /\ presses < MaxPresses
    /\ presses' = presses + 1
    /\ active' = presses + 1
    /\ releasePending' = "yes"
    /\ pressClock' = Before(PressTicks)
    /\ age' = 0
    /\ excused' = IF slot = "free" /\ open = 0 THEN "no" ELSE excused
    /\ UNCHANGED <<slotVars, quiet, open, released, resets>>

----------------------------------------------------------------------------
(* handle_decoded_                                                         *)

\* Mutant: a new response overwrites the one in the slot.
ScheduleTxAlways(press, phase) ==
    /\ slot' = "ready"
    /\ txPress' = press
    /\ txPhase' = phase
    /\ txClock' = Before(DelayTicks)
    /\ UNCHANGED excused

\* schedule_tx_: the response is dropped while the slot is occupied.
ScheduleTx(press, phase) ==
    \/ /\ slot = "free"
       /\ slot' = "ready"
       /\ txPress' = press
       /\ txPhase' = phase
       /\ txClock' = Before(DelayTicks)
       /\ UNCHANGED excused
    \/ /\ slot # "free"
       /\ excused' = IF phase \in {"press", "release"} THEN "yes" ELSE excused
       /\ UNCHANGED slotVars

\* HCP2_FRAME_BUS_SCAN and HCP2_FRAME_COMMAND_ARG.
RxRequest ==
    /\ ScheduleTx(0, "other")
    /\ UNCHANGED <<buttonVars, quiet, presses, age, open, released, resets>>

\* Mutant: the press time is not waited for.
ButtonPhaseAtOnce ==
    IF active = 0 THEN "idle" ELSE IF releasePending = "yes" THEN "release" ELSE "press"

\* current_button_phase_ forgets the button when it returns the release.
ButtonPhase ==
    IF active = 0 THEN "idle"
    ELSE IF ~Reached(pressClock) THEN "press"
    ELSE IF releasePending = "yes" THEN "release" ELSE "idle"

\* Mutant: the button is not forgotten.
RxStatusPollKeeps ==
    /\ ScheduleTx(IF ButtonPhase = "idle" THEN 0 ELSE active, ButtonPhase)
    /\ releasePending' = IF ButtonPhase = "release" THEN "no" ELSE releasePending
    /\ quiet' = 0
    /\ UNCHANGED <<active, pressClock, presses, age, open, released, resets>>

RxStatusPoll ==
    /\ ScheduleTx(IF ButtonPhase = "idle" THEN 0 ELSE active, ButtonPhase)
    /\ active' = IF ButtonPhase = "press" THEN active ELSE 0
    /\ releasePending' = IF ButtonPhase = "release" THEN "no" ELSE releasePending
    /\ quiet' = 0
    /\ UNCHANGED <<pressClock, presses, age, open, released, resets>>

----------------------------------------------------------------------------
(* The response                                                            *)

\* hcp2_engine_claim_due_tx
ClaimDueTx ==
    /\ slot = "ready"
    /\ Reached(txClock)
    /\ slot' = "claimed"
    /\ UNCHANGED <<buttonVars, txPress, txPhase, txClock, quiet, historyVars>>

\* hcp2_engine_mark_tx_started
MarkTxStarted ==
    /\ slot = "claimed"
    /\ slot' = "started"
    /\ UNCHANGED <<buttonVars, txPress, txPhase, txClock, quiet, historyVars>>

\* What the drive was shown after it received the response in the slot.
Shown ==
    /\ open' = CASE txPhase = "press" -> txPress
                 [] txPhase \in {"release", "idle"} -> 0
                 [] OTHER -> open
    /\ released' = IF txPhase = "release" THEN txPress ELSE released
    /\ UNCHANGED excused

\* hcp2_engine_mark_tx_done frees the slot, whether the port sent the
\* response, aborted it, or did not even start.
FreeSlot ==
    /\ slot' = "free"
    /\ txPress' = 0 /\ txPhase' = "idle" /\ txClock' = 0

TxSent ==
    /\ slot = "started"
    /\ FreeSlot
    /\ Shown
    /\ UNCHANGED <<buttonVars, quiet, presses, age, resets>>

TxAborted ==
    /\ slot \in {"claimed", "started"}
    /\ FreeSlot
    /\ excused' = IF txPhase \in {"press", "release"} THEN "yes" ELSE excused
    /\ UNCHANGED <<buttonVars, quiet, presses, age, open, released, resets>>

----------------------------------------------------------------------------
(* The CPU and the clock                                                   *)

\* hcp2_engine_init after a reset.
Reset ==
    /\ resets < MaxResets
    /\ resets' = resets + 1
    /\ active' = 0 /\ releasePending' = "no" /\ pressClock' = 0
    /\ FreeSlot
    /\ excused' = "yes"
    /\ UNCHANGED <<quiet, presses, age, open, released>>

\* The clock of an idle button and of an empty slot is of no interest.
Tick ==
    /\ quiet < MaxQuiet
    /\ slot = "ready" /\ Reached(txClock) => txClock < MaxLate
    /\ pressClock' = IF active # 0 THEN Advance(pressClock) ELSE pressClock
    /\ txClock' = IF slot = "ready" THEN Advance(txClock) ELSE txClock
    /\ quiet' = quiet + 1
    /\ age' = IF age <= PressTicks THEN age + 1 ELSE age
    /\ UNCHANGED <<active, releasePending, slot, txPress, txPhase, presses, open,
                   released, excused, resets>>

Next == PressButton \/ RxRequest \/ RxStatusPoll \/ ClaimDueTx \/ MarkTxStarted
        \/ TxSent \/ TxAborted \/ Reset \/ Tick

Spec == Init /\ [][Next]_vars

\* The drive keeps polling, time passes, the responder keeps running.
FairSpec == Spec /\ WF_vars(RxStatusPoll) /\ WF_vars(Tick)
                 /\ WF_vars(ClaimDueTx \/ MarkTxStarted \/ TxSent)

----------------------------------------------------------------------------
(* Properties                                                              *)

TypeOK ==
    /\ active \in 0..presses
    /\ releasePending \in {"yes", "no"}
    /\ pressClock \in Clock
    /\ slot \in {"free", "ready", "claimed", "started"}
    /\ txPress \in 0..presses
    /\ txPhase \in {"press", "release", "idle", "other"}
    /\ txClock \in Clock
    /\ quiet \in 0..MaxQuiet
    /\ presses \in 0..MaxPresses
    /\ age \in 0..(PressTicks + 1)
    /\ open \in 0..presses
    /\ released \in 0..presses
    /\ excused \in {"yes", "no"}
    /\ resets \in 0..MaxResets

\* The drive is shown each press as press, ..., press, release: no release
\* without its press, no idle response and no other press before the release.
\* The excuse is a phase that was dropped, aborted or lost in a reset.  It
\* needs polls closer together than a press lasts.
Handshake ==
    [][TxSent /\ excused = "no" =>
           CASE txPhase = "press"   -> open \in {0, txPress}
             [] txPhase = "release" -> open = txPress
             [] txPhase = "idle"    -> open = 0
             [] OTHER               -> TRUE]_vars

\* A press is only shown for as long as config.button_press_us says.
PressInTime == [][RxStatusPoll /\ ButtonPhase = "press" => age < PressTicks]_vars

\* The inductive invariant behind the two: while a button is active either its
\* press time is still running, or it ran out after the last poll; and as long
\* as nothing was lost, what the drive was shown and what is in the slot agree.
ClockInv ==
    \/ /\ pressClock >= 2 * HalfRange - PressTicks
       /\ age = pressClock - (2 * HalfRange - PressTicks)
    \/ pressClock <= quiet /\ age >= PressTicks

Unshown == active # 0 /\ open # active /\ (txPhase = "press" => txPress # active)

ShownInv ==
    /\ txPhase = "press" => txPress # 0 /\ active = txPress /\ open \in {0, txPress}
    /\ txPhase = "release" => txPress # 0 /\ open = txPress /\ active # txPress
    /\ txPhase = "idle" /\ slot # "free" => open = 0
    /\ open # 0 => active = open \/ (txPhase = "release" /\ txPress = open)
    /\ Unshown => age <= quiet

EngineInv ==
    /\ TypeOK
    /\ releasePending = "yes" <=> active # 0
    /\ active # 0 => active = presses /\ ClockInv
    /\ slot = "free" => txPress = 0 /\ txPhase = "idle"
    /\ excused = "no" => ShownInv

\* From the claim until the last byte is out, nothing touches the response.
ClaimedIsKept ==
    [][(slot \in {"claimed", "started"} /\ slot' # "free")
           => UNCHANGED <<txPress, txPhase>>]_vars

\* Every press that is accepted is shown released, unless a phase was lost;
\* in any case the button is free again.
Completes ==
    \A p \in 1..MaxPresses :
        active = p ~> active # p /\ (released >= p \/ excused = "yes")
=============================================================================
