------------------------------- MODULE UAPBus -------------------------------
(***************************************************************************)
(* The bridge of the HCP1 bus (uapbridge_esp): one queued command, the     *)
(* door state decoded from the drive's broadcasts, and the gates between   *)
(* what is asked and what is sent.                                         *)
(*                                                                         *)
(*   main loop   the calls of the entities (action_*, set_command), then   *)
(*               loop: callbacks, loop_slow, state callbacks               *)
(*   bus task    loop_fast: the frames received, expire_pending_command,   *)
(*               expire_valid_broadcast                                    *)
(*                                                                         *)
(* The two share their variables, and only the queued command and the two  *)
(* callback counters are guarded; what one reads the other may change at   *)
(* the next step.  A broadcast is abstracted to the state it decodes to    *)
(* and to whether it carries error or prewarn.  A tick is as long as the   *)
(* period of loop_slow; ages stop one after the last that is told apart.   *)
(***************************************************************************)
EXTENDS Integers

CONSTANTS
    Heard,              \* broadcasts: what they decode to, with error or prewarn?
    Asked,              \* commands that entities ask for, but stop
    CommandTicks,       \* command_timeout_ms
    MovingTicks,        \* STOP_FALLBACK_MOVING_TIMEOUT_MS
    BroadcastTicks,     \* valid_broadcast_timeout_ms
    AllowClose,         \* allow_remote_close
    AllowImpulse,       \* allow_remote_impulse
    UseRawStop,         \* use_unverified_stop_command
    MaxCalls            \* bound: calls of an entity

States == {"open", "closed", "opening", "closing", "venting", "stopped", "unknown"}

Commands == {"open", "close", "venting", "impulse", "light", "stop"}

ASSUME BusAssumption ==
    /\ Heard \subseteq States \X {"yes", "no"} /\ Asked \subseteq Commands \ {"stop"}
    /\ CommandTicks \in Nat /\ MovingTicks \in Nat /\ BroadcastTicks \in Nat
    /\ AllowClose \in BOOLEAN /\ AllowImpulse \in BOOLEAN /\ UseRawStop \in BOOLEAN
    /\ MaxCalls \in Nat

VARIABLES
    \* the queued command
    slot,               \* next_action
    setAge,             \* since command_set_at
    slotId,             \* ghost: the call that queued it
    \* the door
    valid,              \* valid_broadcast, "yes" or "no"
    status, alarm,      \* broadcast_status
    bcAge, mvAge,       \* since last_valid_broadcast_ms, last_moving_broadcast_ms
    state,              \* state
    obstruction,        \* obstruction_state
    \* callbacks
    changed,            \* data_has_changed or pending_state_callbacks_
    moves,              \* pending_movement_command_callbacks_
    view,               \* the state that the entities last saw
    \* the main loop
    mPc, mAction, mBypass, mNeeded,
    mStatus,            \* the argument of apply_broadcast_status
    calls,
    \* the bus task
    bPc, bAction, bId,
    \* history
    outcome,            \* what became of the command of each call
    owed,               \* movements that were sent and not yet reported
    heardAge            \* since the last broadcast of a moving door

slotVars == <<slot, setAge, slotId>>
seenVars == <<valid, status, alarm, bcAge>>
doorVars == <<mvAge, state, obstruction>>
askVars  == <<mAction, mBypass, mNeeded, calls>>
mainVars == <<mPc, askVars, mStatus, view>>
busVars  == <<bPc, bAction, bId, heardAge>>
moveVars == <<moves, owed>>
vars == <<slotVars, seenVars, doorVars, changed, moveVars, mainVars, busVars, outcome>>

Calls    == 1..MaxCalls
Moving   == {"opening", "closing"}

\* is_movement_command
Movements == Commands \ {"light"}

\* The commands whose transmission is reported to the entities.
Reported == Movements \ {"stop"}

Outcomes == {"none", "queued", "sent", "expired", "cancelled", "dropped"}
Final    == Outcomes \ {"none", "queued"}

Past(last) == last + 1

Init ==
    /\ slot = "none" /\ setAge = 0 /\ slotId = 0
    /\ valid = "no" /\ status = "stopped" /\ alarm = "no"
    /\ bcAge = Past(BroadcastTicks) /\ mvAge = Past(MovingTicks)
    /\ state = "stopped" /\ obstruction = "no"
    /\ changed = "no" /\ moves = 0 /\ view = "stopped"
    /\ mPc = "calls" /\ mAction = "none" /\ mBypass = "no" /\ mNeeded = "no"
    /\ mStatus = "stopped" /\ calls = 0
    /\ bPc = "rx" /\ bAction = "none" /\ bId = 0
    /\ outcome = [c \in Calls |-> "none"]
    /\ owed = 0 /\ heardAge = Past(MovingTicks)

\* bus_state_is_fresh, moving_state_is_fresh
Fresh       == valid = "yes" /\ bcAge <= BroadcastTicks
MovingFresh == Fresh /\ mvAge <= MovingTicks

SlotFree == slot' = "none" /\ setAge' = 0 /\ slotId' = 0

Ends(what) == outcome' = [outcome EXCEPT ![slotId] = what]

----------------------------------------------------------------------------
(* The calls of the entities                                               *)

MainStep(from, to) ==
    /\ mPc = from
    /\ mPc' = to
    /\ UNCHANGED <<seenVars, mvAge, state, moveVars, mStatus, view, busVars>>

AskEnds == mAction' = "none" /\ mBypass' = "no" /\ mNeeded' = "no" /\ UNCHANGED calls

\* On with what is asked, or back to the entity with FALSE
Check(from, ok, to) ==
    /\ MainStep(from, IF ok THEN to ELSE "calls")
    /\ IF ok THEN UNCHANGED askVars ELSE AskEnds

Call(command, bypass, needed) ==
    /\ calls < MaxCalls
    /\ calls' = calls + 1
    /\ mAction' = command /\ mBypass' = bypass
    /\ mNeeded' = IF needed THEN "yes" ELSE "no"

\* action_open, action_close (also from an estimated position), action_venting,
\* action_toggle_light, action_impulse: a door that is there already needs no command.
There == [open |-> "open", close |-> "closed", venting |-> "venting"]

ActionCommand ==
    /\ MainStep("calls", "fresh")
    /\ \E command \in Asked, bypass \in {"no", "unsafe"} :
          /\ bypass = "unsafe" => command \in {"open", "close"}
          /\ Call(command, bypass, command \in DOMAIN There => state # There[command])
    /\ UNCHANGED <<slotVars, obstruction, changed, outcome>>

\* action_stop: take back a command that was not fetched yet, whatever it is.
ActionStopCancel ==
    /\ MainStep("calls", "calls")
    /\ slot # "none"
    /\ calls < MaxCalls /\ calls' = calls + 1
    /\ Ends("cancelled")
    /\ SlotFree
    /\ UNCHANGED <<mAction, mBypass, mNeeded, obstruction, changed>>

ActionStop ==
    /\ MainStep("calls", IF UseRawStop THEN "fresh" ELSE "fallback")
    /\ slot = "none"
    /\ IF UseRawStop THEN Call("stop", "no", TRUE) ELSE Call("impulse", "impulse", TRUE)
    /\ UNCHANGED <<slotVars, obstruction, changed, outcome>>

\* An impulse stops a door that moves, and sets one going that does not.
StopFallback ==
    /\ Check("fallback", MovingFresh /\ state \in Moving, "fresh")
    /\ UNCHANGED <<slotVars, obstruction, changed, outcome>>

\* The first gates of command_allowed
Enabled ==
    /\ mAction = "close" => AllowClose
    /\ mAction = "impulse" => AllowImpulse \/ mBypass = "impulse"
    /\ mAction = "stop" => UseRawStop

CheckFresh ==
    /\ Check("fresh", Enabled /\ Fresh, "gates")
    /\ UNCHANGED <<slotVars, obstruction, changed, outcome>>

Recovers == mAction = "open" /\ obstruction = "yes"

\* Mutant: the obstruction is not looked at.
BlockedNoObstruction ==
    \/ mAction = "venting" /\ ~AllowClose /\ status = "open"
    \/ /\ mAction \in Movements /\ ~Recovers
       /\ \/ mBypass # "unsafe" /\ mAction # "stop" /\ status \in {"unknown", "stopped"}
          \/ alarm = "yes"

\* The last gates of command_allowed
Blocked ==
    \/ mAction = "venting" /\ ~AllowClose /\ status = "open"
    \/ /\ obstruction = "yes"
       /\ mAction \in {"close", "venting"} \/ (mAction = "impulse" /\ mBypass # "impulse")
    \/ /\ mAction \in Movements /\ ~Recovers
       /\ \/ mBypass # "unsafe" /\ mAction # "stop" /\ status \in {"unknown", "stopped"}
          \/ alarm = "yes"

CheckGates ==
    /\ Check("gates", ~Blocked, IF mNeeded = "yes" THEN "queue" ELSE "skip")
    /\ UNCHANGED <<slotVars, obstruction, changed, outcome>>

\* set_command when the door already is where it is asked to go
Skip ==
    /\ MainStep("skip", "calls") /\ AskEnds
    /\ IF Recovers /\ state = "open"
       THEN obstruction' = "no" /\ changed' = "yes"
       ELSE UNCHANGED <<obstruction, changed>>
    /\ UNCHANGED <<slotVars, outcome>>

\* Mutant: a new command takes the place of the one before.
QueueReplaces ==
    /\ Check("queue", TRUE, "queued")
    /\ slot' = mAction /\ setAge' = 0 /\ slotId' = calls
    /\ outcome' = [outcome EXCEPT ![calls] = "queued"]
    /\ UNCHANGED <<obstruction, changed>>

Queue ==
    /\ Check("queue", slot = "none", "queued")
    /\ IF slot = "none"
       THEN /\ slot' = mAction /\ setAge' = 0 /\ slotId' = calls
            /\ outcome' = [outcome EXCEPT ![calls] = "queued"]
       ELSE UNCHANGED <<slotVars, outcome>>
    /\ UNCHANGED <<obstruction, changed>>

\* An opening that was queued takes the obstruction latch down.
Queued ==
    /\ MainStep("queued", "calls") /\ AskEnds
    /\ IF Recovers
       THEN obstruction' = "no" /\ changed' = "yes"
       ELSE UNCHANGED <<obstruction, changed>>
    /\ UNCHANGED <<slotVars, outcome>>

\* latch_close_obstruction_ of the cover
Latch ==
    /\ MainStep("calls", "calls")
    /\ state # "closed" /\ obstruction = "no"
    /\ obstruction' = "yes" /\ changed' = "yes"
    /\ UNCHANGED <<slotVars, outcome, askVars>>

Entities == ActionCommand \/ ActionStopCancel \/ ActionStop \/ StopFallback
            \/ CheckFresh \/ CheckGates \/ Skip \/ Queue \/ Queued \/ Latch

----------------------------------------------------------------------------
(* The loop of the component                                               *)

LoopStep(from, to) ==
    /\ mPc = from
    /\ mPc' = to
    /\ UNCHANGED <<slotVars, seenVars, askVars, busVars, outcome>>

\* Mutant: the loop over the pending callbacks runs once when there are none.
TellMovesAtLeastOne ==
    /\ LoopStep("calls", "slow")
    /\ moves' = (IF moves = 0 THEN -1 ELSE 0) /\ owed' = owed - moves
    /\ UNCHANGED <<doorVars, changed, mStatus, view>>

\* process_pending_movement_command_callbacks_
TellMoves ==
    /\ LoopStep("calls", "slow")
    /\ owed' = owed - moves /\ moves' = 0
    /\ UNCHANGED <<doorVars, changed, mStatus, view>>

\* loop_slow, when its period is over: what it applies is what it read, whatever
\* the bus task hears since.
SlowRead ==
    /\ \/ LoopStep("slow", "notify") /\ UNCHANGED mStatus
       \/ valid = "yes" /\ LoopStep("slow", "slow1") /\ mStatus' = status
    /\ UNCHANGED <<doorVars, changed, moveVars, view>>

\* apply_broadcast_status, in both tasks: the time stamp and the obstruction, the
\* state, the mark.
ApplyDoor(s) ==
    /\ mvAge' = IF s \in Moving THEN 0 ELSE mvAge
    /\ IF s = "closed" /\ obstruction = "yes"
       THEN obstruction' = "no" /\ changed' = "yes"
       ELSE UNCHANGED <<obstruction, changed>>
    /\ UNCHANGED state

SlowDoor ==
    /\ LoopStep("slow1", IF mStatus = state THEN "notify" ELSE "slow2")
    /\ ApplyDoor(mStatus)
    /\ mStatus' = IF mStatus = state THEN "stopped" ELSE mStatus
    /\ UNCHANGED <<moveVars, view>>

SlowState ==
    /\ LoopStep("slow2", "notify")
    /\ state' = mStatus /\ changed' = "yes"
    /\ mStatus' = "stopped"
    /\ UNCHANGED <<mvAge, obstruction, moveVars, view>>

\* Mutant: the change is taken and nobody is told.
TakeChangedForgets ==
    /\ LoopStep("notify", "calls")
    /\ changed' = "no"
    /\ UNCHANGED <<doorVars, moveVars, mStatus, view>>

\* take_data_changed_
TakeChanged ==
    /\ LoopStep("notify", IF changed = "yes" THEN "view" ELSE "calls")
    /\ changed' = "no"
    /\ UNCHANGED <<doorVars, moveVars, mStatus, view>>

\* The state callbacks read the state for themselves.
StateCallback ==
    /\ LoopStep("view", "calls")
    /\ view' = state
    /\ UNCHANGED <<doorVars, changed, moveVars, mStatus>>

Loop == TellMoves \/ SlowRead \/ SlowDoor \/ SlowState \/ TakeChanged \/ StateCallback

----------------------------------------------------------------------------
(* The bus task                                                            *)

BusStep(from, to) ==
    /\ bPc = from
    /\ bPc' = to
    /\ UNCHANGED mainVars

\* A pass takes 1 ms and hears one frame at most.
RxNothing ==
    /\ BusStep("rx", "expire")
    /\ UNCHANGED <<slotVars, seenVars, doorVars, changed, moveVars, bAction, bId, heardAge, outcome>>

RxBroadcast ==
    /\ BusStep("rx", "apply1")
    /\ \E b \in Heard : status' = b[1] /\ alarm' = b[2]
    /\ UNCHANGED <<slotVars, valid, bcAge, doorVars, changed, moveVars, bAction, bId, heardAge,
                   outcome>>

\* Mutant: a state is applied when it is the one that is known.
RxDoorSwapped ==
    /\ BusStep("apply1", IF status = state THEN "apply2" ELSE "apply3")
    /\ ApplyDoor(status)
    /\ heardAge' = IF status \in Moving THEN 0 ELSE heardAge
    /\ UNCHANGED <<slotVars, seenVars, moveVars, bAction, bId, outcome>>

RxDoor ==
    /\ BusStep("apply1", IF status = state THEN "apply3" ELSE "apply2")
    /\ ApplyDoor(status)
    /\ heardAge' = IF status \in Moving THEN 0 ELSE heardAge
    /\ UNCHANGED <<slotVars, seenVars, moveVars, bAction, bId, outcome>>

RxState ==
    /\ BusStep("apply2", "apply3")
    /\ state' = status /\ changed' = "yes"
    /\ UNCHANGED <<slotVars, seenVars, mvAge, obstruction, moveVars, bAction, bId, heardAge, outcome>>

RxFresh ==
    /\ BusStep("apply3", "expire")
    /\ bcAge' = 0 /\ valid' = "yes"
    /\ changed' = IF valid = "no" THEN "yes" ELSE changed
    /\ UNCHANGED <<slotVars, status, alarm, doorVars, moveVars, bAction, bId, heardAge, outcome>>

\* Mutant: the command stays queued until it has been sent.
RxRequestPeeks ==
    /\ BusStep("rx", IF slot = "none" THEN "expire" ELSE "answer")
    /\ bAction' = slot /\ bId' = slotId
    /\ UNCHANGED <<slotVars, seenVars, doorVars, changed, moveVars, heardAge, outcome>>

\* A status request: fetch_queued_action_
RxRequest ==
    /\ BusStep("rx", IF slot = "none" THEN "expire" ELSE "answer")
    /\ bAction' = slot /\ bId' = slotId
    /\ SlotFree
    /\ UNCHANGED <<seenVars, doorVars, changed, moveVars, heardAge, outcome>>

\* Mutant: whether a movement was sent is a flag.
AnswerFlags ==
    /\ BusStep("answer", "expire")
    /\ outcome' = [outcome EXCEPT ![bId] = "sent"]
    /\ IF bAction \in Reported
       THEN moves' = 1 /\ owed' = owed + 1
       ELSE UNCHANGED moveVars
    /\ bAction' = "none" /\ bId' = 0
    /\ UNCHANGED <<slotVars, seenVars, doorVars, changed, heardAge>>

Answer ==
    /\ BusStep("answer", "expire")
    /\ outcome' = [outcome EXCEPT ![bId] = "sent"]
    /\ IF bAction \in Reported
       THEN moves' = moves + 1 /\ owed' = owed + 1
       ELSE UNCHANGED moveVars
    /\ bAction' = "none" /\ bId' = 0
    /\ UNCHANGED <<slotVars, seenVars, doorVars, changed, heardAge>>

\* Mutant: a queued command does not expire.
ExpireNot ==
    /\ BusStep("expire", "stale")
    /\ UNCHANGED <<slotVars, outcome, seenVars, doorVars, changed, moveVars, bAction, bId, heardAge>>

\* expire_pending_command
Expire ==
    /\ BusStep("expire", "stale")
    /\ IF slot # "none" /\ setAge > CommandTicks
       THEN Ends("expired") /\ SlotFree
       ELSE UNCHANGED <<slotVars, outcome>>
    /\ UNCHANGED <<seenVars, doorVars, changed, moveVars, bAction, bId, heardAge>>

\* expire_valid_broadcast: what is known of the door, the queued command, the state.
Stale ==
    /\ bPc = "stale"
    /\ UNCHANGED <<mainVars, slotVars, bcAge, state, obstruction, changed, moveVars, bAction, bId, heardAge, outcome>>
    /\ IF valid = "yes" /\ bcAge > BroadcastTicks
       THEN /\ bPc' = "drop"
            /\ valid' = "no" /\ status' = "stopped" /\ alarm' = "no"
            /\ mvAge' = Past(MovingTicks)
       ELSE /\ bPc' = "rx"
            /\ UNCHANGED <<valid, status, alarm, mvAge>>

Drop ==
    /\ BusStep("drop", "lost")
    /\ IF slot # "none" THEN Ends("dropped") /\ SlotFree ELSE UNCHANGED <<slotVars, outcome>>
    /\ UNCHANGED <<seenVars, doorVars, changed, moveVars, bAction, bId, heardAge>>

LostState ==
    /\ BusStep("lost", "rx")
    /\ state' = "unknown" /\ changed' = "yes"
    /\ UNCHANGED <<slotVars, seenVars, mvAge, obstruction, moveVars, bAction, bId, heardAge, outcome>>

Bus == RxNothing \/ RxBroadcast \/ RxDoor \/ RxState \/ RxFresh \/ RxRequest \/ Answer
       \/ Expire \/ Stale \/ Drop \/ LostState

----------------------------------------------------------------------------
(* Time passes; nothing says how often the tasks run in a tick.            *)

Older(age, last) == IF age <= last THEN age + 1 ELSE age

Tick ==
    /\ setAge'   = IF slot = "none" THEN 0 ELSE Older(setAge, CommandTicks)
    /\ bcAge'    = Older(bcAge, BroadcastTicks)
    /\ mvAge'    = Older(mvAge, MovingTicks)
    /\ heardAge' = Older(heardAge, MovingTicks)
    /\ UNCHANGED <<slot, slotId, valid, status, alarm, state, obstruction, changed, moveVars, mPc,
                   askVars, mStatus, view, bPc, bAction, bId, outcome>>

Next == Entities \/ Loop \/ Bus \/ Tick

Spec == Init /\ [][Next]_vars

\* What the main loop has begun goes on, the loop comes round when no entity has
\* anything to ask, the bus task is never blocked and time passes.
GoOn == StopFallback \/ CheckFresh \/ CheckGates \/ Skip \/ Queue \/ Queued \/ Loop

FairSpec == Spec /\ WF_vars(GoOn) /\ WF_vars(Bus) /\ WF_vars(Tick)

----------------------------------------------------------------------------
(* Properties                                                              *)

TypeOK ==
    /\ slot \in Commands \cup {"none"} /\ setAge \in 0..(CommandTicks + 1)
    /\ slotId \in Calls \cup {0}
    /\ valid \in {"yes", "no"} /\ status \in States /\ alarm \in {"yes", "no"}
    /\ bcAge \in 0..Past(BroadcastTicks) /\ mvAge \in 0..Past(MovingTicks)
    /\ state \in States /\ obstruction \in {"yes", "no"}
    /\ changed \in {"yes", "no"} /\ moves \in Nat /\ view \in States
    /\ mPc \in {"calls", "fallback", "fresh", "gates", "skip", "queue", "queued",
                "slow", "slow1", "slow2", "notify", "view"}
    /\ mAction \in Commands \cup {"none"} /\ mBypass \in {"no", "unsafe", "impulse"}
    /\ mNeeded \in {"yes", "no"}
    /\ mStatus \in States /\ calls \in 0..MaxCalls
    /\ bPc \in {"rx", "apply1", "apply2", "apply3", "answer", "expire",
                "stale", "drop", "lost"}
    /\ bAction \in Commands \cup {"none"} /\ bId \in Calls \cup {0}
    /\ outcome \in [Calls -> Outcomes]
    /\ owed \in Int
    /\ heardAge \in 0..Past(MovingTicks)

\* The commands that are still on their way are the one in the slot and the one
\* that the bus task has fetched, and they are two.
OneInFlight ==
    /\ \A c \in Calls : outcome[c] = "queued" <=>
            \/ slot # "none" /\ slotId = c
            \/ bPc = "answer" /\ bId = c
    /\ bPc = "answer" /\ slot # "none" => bId # slotId

Asking == {"fallback", "fresh", "gates", "skip", "queue"}

\* Inductive, and what the action properties below rest on: a call that is being
\* decided has no fate yet, and a closing movement that passed the gates meets no
\* obstruction at the queue.
BusInv ==
    /\ OneInFlight
    /\ slot # "none" => slotId \in Calls
    /\ bPc = "answer" => bId \in Calls
    /\ mPc \in Asking => calls \in Calls /\ outcome[calls] = "none" /\ mAction # "none"
    /\ \A c \in Calls : c > calls => outcome[c] = "none"
    /\ mPc = "queue" /\ mAction \in {"close", "venting"} => obstruction = "no"

\* A call has one fate: what was sent is not taken back, dropped or expired as
\* well, and what was taken back is not sent (set_command, action_stop,
\* fetch_queued_action_, expire_pending_command, expire_valid_broadcast).
OneFate ==
    [][\A c \in Calls : outcome[c] \in Final => outcome'[c] = outcome[c]]_outcome

\* No movement towards closed is queued while an obstruction is latched, although
\* the bus task applies broadcasts between the gate and the queue (command_allowed).
ObstructionHolds ==
    [][(slot' # slot /\ slot' \in {"close", "venting"} => obstruction = "no")]_<<slot, obstruction>>

\* Every command that was queued ends: it is sent, taken back, expired or dropped.
Ended ==
    \A c \in Calls : outcome[c] = "queued" ~> outcome[c] \in Final

\* Each movement that was sent is reported to the entities, once
\* (process_pending_movement_command_callbacks_).
MovesTold == <>[](owed = 0)

\* While broadcasts keep coming and say the same, the state is what they say, even
\* when loop_slow has overwritten it with an older one.
Settles ==
    \A b \in Heard : <>[](valid = "yes" /\ status = b[1]) => <>[](state = b[1])

\* The entities catch up with the state: no callback is lost between the two tasks
\* (mark_data_changed_, take_data_changed_).
Told == []<>(view = state)

\* What the documentation says of the stop fallback: the impulse that stands for a
\* stop needs a recent broadcast of a moving door.
FallbackHeardMoving ==
    [][(StopFallback /\ mPc' = "fresh" => heardAge <= MovingTicks)]_vars
=============================================================================
