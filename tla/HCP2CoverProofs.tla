--------------------------- MODULE HCP2CoverProofs ---------------------------
(***************************************************************************)
(* Proofs about HCP2Cover, for every door, tolerance, set of targets and   *)
(* timing, and any number of calls and resets.                             *)
(***************************************************************************)
EXTENDS HCP2Cover, TLAPS

USE CoverAssumption

LEMMA MoveType ==
    ASSUME dPos \in Positions, NEW b \in Buttons
    PROVE  MoveFor(b) \in Moves
BY DEF MoveFor, Positions, Buttons, Moves

LEMMA TypeStep == TypeOK /\ [Next]_vars => TypeOK'
<1> SUFFICES ASSUME TypeOK, [Next]_vars PROVE TypeOK'
    OBVIOUS
<1> USE DEF TypeOK, coverVars, clocks, viewVars, trigVars, lpVars, driveVars,
            Directions, Buttons, Moves, Positions,
            SendCommand, NoCommand, DisarmTrigger, SendAndArm, ClearPending, KeepPending,
            StopAndWait, DoorOK
<1>1. CASE Controls
    <2> USE DEF Control
    <2>1. CASE ControlStop
        BY <2>1 DEF ControlStop
    <2>2. CASE ControlHalf
        BY <2>2 DEF ControlHalf
    <2>3. CASE ControlDirection
        BY <2>3 DEF ControlDirection
    <2>4. CASE GotoBlind
        BY <2>4 DEF GotoBlind
    <2>5. CASE GotoHere
        BY <2>5 DEF GotoHere
    <2>6. CASE GotoThere
        BY <2>6 DEF GotoThere, DirectionFor
    <2> QED
        BY <1>1, <2>1, <2>2, <2>3, <2>4, <2>5, <2>6 DEF Controls
<1>2. CASE Loop
    <2> USE DEF LoopStep
    <2>1. CASE PendingWait
        BY <2>1 DEF PendingWait
    <2>2. CASE PendingTimeout
        BY <2>2 DEF PendingTimeout
    <2>3. CASE PendingSend
        BY <2>3 DEF PendingSend
    <2>4. CASE GotoWait
        BY <2>4 DEF GotoWait
    <2>5. CASE GotoTimeout
        BY <2>5 DEF GotoTimeout
    <2>6. CASE GotoArrive
        BY <2>6 DEF GotoArrive
    <2>7. CASE GotoCommand
        BY <2>7 DEF GotoCommand, DirectionFor
    <2> QED
        BY <1>2, <2>1, <2>2, <2>3, <2>4, <2>5, <2>6, <2>7 DEF Loop
<1>3. CASE HpUpdate
    BY <1>3 DEF HpUpdate, DoorOK
<1>4. CASE LpTake
    BY <1>4 DEF LpTake
<1>5. CASE LpTrigger
    BY <1>5 DEF LpTrigger
<1>6. CASE LpReset
    BY <1>6 DEF LpReset
<1>7. CASE Release
    BY <1>7 DEF Release
<1>8. CASE DriveSees
    BY <1>8 DEF DriveSees, MoveFor
<1>9. CASE Remote
    BY <1>9 DEF Remote, MoveFor
<1>10. CASE DoorMoves
    BY <1>10 DEF DoorMoves, DoorGoes, DoorOK
<1>11. CASE Broadcast
    BY <1>11 DEF Broadcast
<1>12. CASE Tick
    BY <1>12 DEF Tick, Until
<1>13. CASE UNCHANGED vars
    BY <1>13 DEF vars
<1> QED
    BY <1>1, <1>2, <1>3, <1>4, <1>5, <1>6, <1>7, <1>8,
       <1>9, <1>10, <1>11, <1>12, <1>13 DEF Next

\* The state variables stay in their types.
THEOREM TypeCorrect == Spec => []TypeOK
<1>1. Init => TypeOK
    BY DEF Init, TypeOK, DoorOK, Directions, Buttons, Moves, Positions
<1> QED
    BY <1>1, TypeStep, PTL DEF Spec

----------------------------------------------------------------------------
(* The invariant                                                           *)

LEMMA InvStep == CoverInv /\ [Next]_vars => CoverInv'
<1> SUFFICES ASSUME CoverInv, [Next]_vars PROVE CoverInv'
    OBVIOUS
<1> USE DEF CoverInv, coverVars, clocks, viewVars, trigVars, lpVars, driveVars,
            SendCommand, NoCommand, DisarmTrigger, SendAndArm, ClearPending, KeepPending,
            StopAndWait, Directions
<1>1. CASE Controls
    <2> USE DEF Control
    <2>1. CASE ControlStop
        BY <2>1 DEF ControlStop
    <2>2. CASE ControlHalf
        BY <2>2 DEF ControlHalf
    <2>3. CASE ControlDirection
        BY <2>3 DEF ControlDirection, MustStop, Operation
    <2>4. CASE GotoBlind
        BY <2>4 DEF GotoBlind
    <2>5. CASE GotoHere
        BY <2>5 DEF GotoHere
    <2>6. CASE GotoThere
        BY <2>6 DEF GotoThere
    <2> QED
        BY <1>1, <2>1, <2>2, <2>3, <2>4, <2>5, <2>6 DEF Controls
<1>2. CASE Loop
    <2> USE DEF LoopStep
    <2>1. CASE PendingWait
        BY <2>1 DEF PendingWait
    <2>2. CASE PendingTimeout
        BY <2>2 DEF PendingTimeout
    <2>3. CASE PendingSend
        BY <2>3 DEF PendingSend
    <2>4. CASE GotoWait
        BY <2>4 DEF GotoWait
    <2>5. CASE GotoTimeout
        BY <2>5 DEF GotoTimeout, Going
    <2>6. CASE GotoArrive
        BY <2>6 DEF GotoArrive, Going
    <2>7. CASE GotoCommand
        BY <2>7 DEF GotoCommand, Going
    <2> QED
        BY <1>2, <2>1, <2>2, <2>3, <2>4, <2>5, <2>6, <2>7 DEF Loop
<1>3. CASE HpUpdate
    BY <1>3 DEF HpUpdate
<1>4. CASE LpTake
    BY <1>4 DEF LpTake
<1>5. CASE LpTrigger
    BY <1>5 DEF LpTrigger
<1>6. CASE LpReset
    BY <1>6 DEF LpReset
<1>7. CASE Release
    BY <1>7 DEF Release
<1>8. CASE DriveSees
    BY <1>8 DEF DriveSees
<1>9. CASE Remote
    BY <1>9 DEF Remote
<1>10. CASE DoorMoves
    BY <1>10 DEF DoorMoves, DoorGoes
<1>11. CASE Broadcast
    BY <1>11 DEF Broadcast
<1>12. CASE Tick
    BY <1>12 DEF Tick
<1>13. CASE UNCHANGED vars
    BY <1>13 DEF vars
<1> QED
    BY <1>1, <1>2, <1>3, <1>4, <1>5, <1>6, <1>7, <1>8,
       <1>9, <1>10, <1>11, <1>12, <1>13 DEF Next

\* What is armed, waits or goes is what was asked for last.
THEOREM InvCorrect == Spec => []CoverInv
<1>1. Init => CoverInv
    BY DEF Init, CoverInv
<1> QED
    BY <1>1, InvStep, PTL DEF Spec

\* A goto only arrives without a stop command where the door stands at the
\* target: a door that moves is stopped, whether it is there or has passed.
LEMMA GoalReached ==
    ASSUME TypeOK,
           AtTarget(target, vPos, Operation(vMove)) \/ DirectionFor(vPos, target) = "none",
           ~(AtTarget(target, vPos, Operation(vMove)) /\ Operation(vMove) # "idle")
    PROVE  Operation(vMove) = "idle" /\ Near(vPos, target)
<1>1. Operation(vMove) \in {"idle", "opening", "closing"}
    BY DEF TypeOK, Moves, Operation
<1>2. Tol \in Nat /\ vPos \in Int /\ target \in Int
    BY CoverAssumption DEF TypeOK, Positions
<1>3. CASE Operation(vMove) = "idle"
    BY <1>2, <1>3 DEF AtTarget, DirectionFor
<1>4. CASE Operation(vMove) = "opening"
    BY <1>2, <1>4 DEF AtTarget, DirectionFor, Near
<1>5. CASE Operation(vMove) = "closing"
    BY <1>2, <1>5 DEF AtTarget, DirectionFor, Near
<1> QED
    BY <1>1, <1>3, <1>4, <1>5

\* What a step may do to the trigger, action by action.
LEMMA TriggerStep ==
    ASSUME TypeOK, CoverInv, CoverInv', Next
    PROVE  /\ armed = "no" /\ armed' = "yes" => goto' = "yes" \/ request = "here"
           /\ goto = "yes" /\ goto' = "no" /\ armed' = "yes" =>
                  \/ Operation(vMove) = "idle" /\ Near(vPos, target)
                  \/ request' = "here"
<1> USE DEF CoverInv, SendCommand, NoCommand, DisarmTrigger, SendAndArm, StopAndWait,
            coverVars, trigVars
<1>1. CASE Controls
    <2> USE DEF Control
    <2>1. CASE ControlStop
        BY <2>1 DEF ControlStop
    <2>2. CASE ControlHalf
        BY <2>2 DEF ControlHalf
    <2>3. CASE ControlDirection
        BY <2>3 DEF ControlDirection
    <2>4. CASE GotoBlind
        BY <2>4 DEF GotoBlind
    <2>5. CASE GotoHere
        BY <2>5 DEF GotoHere
    <2>6. CASE GotoThere
        BY <2>6 DEF GotoThere
    <2> QED
        BY <1>1, <2>1, <2>2, <2>3, <2>4, <2>5, <2>6 DEF Controls
<1>2. CASE Loop
    <2> USE DEF LoopStep
    <2>1. CASE PendingWait
        BY <2>1 DEF PendingWait
    <2>2. CASE PendingTimeout
        BY <2>2 DEF PendingTimeout
    <2>3. CASE PendingSend
        BY <2>3 DEF PendingSend
    <2>4. CASE GotoWait
        BY <2>4 DEF GotoWait
    <2>5. CASE GotoTimeout
        BY <2>5 DEF GotoTimeout
    <2>6. CASE GotoArrive
        BY <2>6, GoalReached DEF GotoArrive
    <2>7. CASE GotoCommand
        BY <2>7 DEF GotoCommand, Going
    <2> QED
        BY <1>2, <2>1, <2>2, <2>3, <2>4, <2>5, <2>6, <2>7 DEF Loop
<1>3. CASE ~(Controls \/ Loop)
    <2>1. goto' = goto /\ (armed' = armed \/ armed' = "no")
        BY <1>3 DEF Next, HpUpdate, LpTake, LpTrigger, LpReset, Release, DriveSees,
           Remote, DoorMoves, DoorGoes, Broadcast, Tick
    <2> QED
        BY <2>1
<1> QED
    BY <1>1, <1>2, <1>3

\* The trigger is armed by a goto that runs, for its target, and down once
\* something else was asked for or the goto has ended, with the two exceptions
\* that TriggerIsTheGotos names.
THEOREM TriggersAreTheGotos == Spec => TriggerIsTheGotos
<1>1. TypeOK /\ CoverInv /\ CoverInv' /\ [Next]_vars
        => [/\ armed = "no" /\ armed' = "yes" => goto' = "yes" \/ request = "here"
            /\ armed' = "yes" => trigTarget' = target' /\ request' \in {"goto", "here"}
            /\ goto = "yes" /\ goto' = "no" /\ armed' = "yes" =>
                   \/ Operation(vMove) = "idle" /\ Near(vPos, target)
                   \/ request' = "here"]_vars
    <2>1. CoverInv' => (armed' = "yes" => trigTarget' = target'
                                          /\ request' \in {"goto", "here"})
        BY DEF CoverInv
    <2> QED
        BY <2>1, TriggerStep
<1> QED
    BY <1>1, TypeCorrect, InvCorrect, PTL DEF Spec, TriggerIsTheGotos

\* The cover sends the door somewhere only for the last thing asked of it.
THEOREM LastRequestDecides == Spec => LastRequestWins
<1>1. TypeOK /\ CoverInv /\ [Next]_vars
        => [Loop /\ mail' \in Directions /\ (mail' # mail \/ armed' # armed) =>
                request \in {mail', "goto", "here"}]_vars
    <2> SUFFICES ASSUME armed \in {"yes", "no"}, CoverInv, Loop, mail' \in Directions,
                        mail' # mail \/ armed' # armed
                 PROVE  request \in {mail', "goto", "here"}
        BY DEF TypeOK
    <2> USE DEF CoverInv, SendCommand, NoCommand, DisarmTrigger, SendAndArm, StopAndWait,
                Directions, trigVars
    <2>1. CASE PendingSend
        BY <2>1 DEF PendingSend
    <2>2. CASE GotoCommand
        BY <2>2 DEF GotoCommand, Going, KeepPending
    <2>3. CASE PendingWait
        BY <2>3 DEF PendingWait
    <2>4. CASE PendingTimeout
        BY <2>4 DEF PendingTimeout
    <2>5. CASE GotoWait \/ GotoTimeout \/ GotoArrive
        BY <2>5 DEF GotoWait, GotoTimeout, GotoArrive
    <2> QED
        BY <2>1, <2>2, <2>3, <2>4, <2>5 DEF Loop
<1> QED
    BY <1>1, TypeCorrect, InvCorrect, PTL DEF Spec, LastRequestWins
=============================================================================
