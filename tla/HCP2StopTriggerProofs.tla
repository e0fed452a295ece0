----------------------- MODULE HCP2StopTriggerProofs -----------------------
(***************************************************************************)
(* Proofs about HCP2StopTrigger, for every number of armings, sessions and *)
(* resets, wherever they come: the types, what stop is pressed for, and    *)
(* how often.                                                              *)
(***************************************************************************)
EXTENDS HCP2StopTrigger, TLAPS

USE BoundsAssumption

LEMMA TypeInit == Init => TypeOK
BY DEF Init, TypeOK

LEMMA TypeStep == TypeOK /\ [Next]_vars => TypeOK'
<1> SUFFICES ASSUME TypeOK, [Next]_vars PROVE TypeOK'
    OBVIOUS
<1> USE DEF TypeOK, mbVars, hpVars, lpVars, worldVars, history
<1>1. CASE Main
    <2> USE DEF MainStep
    <2>1. CASE ArmCall
        BY <2>1 DEF ArmCall
    <2>2. CASE ArmOff
        BY <2>2 DEF ArmOff
    <2>3. CASE ArmEpoch
        BY <2>3 DEF ArmEpoch
    <2>4. CASE ArmTarget
        BY <2>4 DEF ArmTarget
    <2>5. CASE ArmDeadline
        BY <2>5 DEF ArmDeadline
    <2>6. CASE ArmOn
        BY <2>6 DEF ArmOn
    <2>7. CASE Disarm
        BY <2>7 DEF Disarm
    <2>8. CASE SendDisarm
        BY <2>8 DEF SendDisarm
    <2>9. CASE SendSeq
        BY <2>9 DEF SendSeq
    <2> QED
        BY <1>1, <2>1, <2>2, <2>3, <2>4, <2>5, <2>6, <2>7, <2>8, <2>9 DEF Main, Arm
<1>2. CASE Supervisor
    <2>1. CASE SessionZero
        BY <2>1 DEF SessionZero
    <2>2. CASE SessionDisarm
        BY <2>2 DEF SessionDisarm
    <2>3. CASE SessionEpoch
        BY <2>3 DEF SessionEpoch
    <2>4. CASE Ready
        BY <2>4 DEF Ready
    <2>5. CASE Reload
        BY <2>5 DEF Reload
    <2> QED
        BY <1>2, <2>1, <2>2, <2>3, <2>4, <2>5 DEF Supervisor
<1>3. CASE HpReset
    BY <1>3 DEF HpReset
<1>4. CASE Lp
    <2> USE DEF LpStep
    <2>1. CASE ReadArmed
        BY <2>1 DEF ReadArmed
    <2>2. CASE ReadEpoch
        BY <2>2 DEF ReadEpoch
    <2>3. CASE ReadDeadline
        BY <2>3 DEF ReadDeadline
    <2>4. CASE ReadTarget
        BY <2>4 DEF ReadTarget
    <2>5. CASE ReadArmedAgain
        BY <2>5 DEF ReadArmedAgain
    <2>6. CASE DecideDrop
        BY <2>6 DEF DecideDrop
    <2>7. CASE DecideWait
        BY <2>7 DEF DecideWait
    <2>8. CASE DecidePress
        BY <2>8 DEF DecidePress
    <2>9. CASE MarkFired
        BY <2>9 DEF MarkFired
    <2>10. CASE HandleCommand
        BY <2>10 DEF HandleCommand
    <2> QED
        BY <1>4, <2>1, <2>2, <2>3, <2>4, <2>5, <2>6, <2>7, <2>8, <2>9, <2>10
           DEF Lp, Trigger
<1>5. CASE Release
    BY <1>5 DEF Release
<1>6. CASE LpReset
    BY <1>6 DEF LpReset
<1>7. CASE Door
    BY <1>7 DEF Door
<1>8. CASE Deadline
    BY <1>8 DEF Deadline
<1>9. CASE UNCHANGED vars
    BY <1>9 DEF vars
<1> QED
    BY <1>1, <1>2, <1>3, <1>4, <1>5, <1>6, <1>7, <1>8, <1>9 DEF Next

\* The state variables stay in their types.
THEOREM TypeCorrect == Spec => []TypeOK
BY TypeInit, TypeStep, PTL DEF Spec

----------------------------------------------------------------------------
(* The invariant                                                           *)

LEMMA InvInit == Init => TriggerInv
BY DEF Init, TriggerInv, FlagInv, EpochInv, TargetReadInv, EpochReadInv, OnceInv, Arming, Reading, Live,
       Epochs, Targets

\* What becomes of the epochs and targets in force when the block is added.
LEMMA BlockAdded ==
    ASSUME inForce' = inForce \cup {<<tEpoch, tTarget>>}
    PROVE  Epochs' = Epochs \cup {tEpoch} /\ Targets' = Targets \cup {tTarget}
<1>1. <<tEpoch, tTarget>>[1] = tEpoch /\ <<tEpoch, tTarget>>[2] = tTarget
    OBVIOUS
<1>2. Epochs' = Epochs \cup {tEpoch}
    BY <1>1, ZenonT(30) DEF Epochs
<1>3. Targets' = Targets \cup {tTarget}
    BY <1>1, ZenonT(30) DEF Targets
<1> QED
    BY <1>2, <1>3

LEMMA BlockOnly ==
    ASSUME inForce' = {<<tEpoch, tTarget>>}
    PROVE  Epochs' = {tEpoch} /\ Targets' = {tTarget}
BY DEF Epochs, Targets

\* Every step keeps all five parts; each action disturbs the parts that read
\* the variables it changes.
LEMMA InvStep ==
    ASSUME TypeOK, TriggerInv, [Next]_vars
    PROVE  TriggerInv'
<1> USE DEF TypeOK, TriggerInv, FlagInv, EpochInv, TargetReadInv, EpochReadInv, OnceInv,
            Arming, Reading, Live, Epochs, Targets,
            mbVars, hpVars, lpVars, worldVars, history
<1>1. CASE Main
    <2> USE DEF MainStep
    <2>1. CASE ArmCall
        BY <2>1 DEF ArmCall
    <2>2. CASE ArmOff
        BY <2>2 DEF ArmOff
    <2>3. CASE ArmEpoch
        BY <2>3 DEF ArmEpoch
    <2>4. CASE ArmTarget
        BY <2>4 DEF ArmTarget
    <2>5. CASE ArmDeadline
        BY <2>5 DEF ArmDeadline
    <2>6. CASE ArmOn
        <3>1. inForce' = inForce \cup {<<tEpoch, tTarget>>}
            BY <2>6 DEF ArmOn
        <3>2. Epochs' = Epochs \cup {tEpoch} /\ Targets' = Targets \cup {tTarget}
            BY <3>1, BlockAdded
        <3> HIDE DEF Epochs, Targets
        <3> QED
            BY <2>6, <3>2 DEF ArmOn
    <2>7. CASE Disarm
        BY <2>7 DEF Disarm
    <2>8. CASE SendDisarm
        BY <2>8 DEF SendDisarm
    <2>9. CASE SendSeq
        BY <2>9 DEF SendSeq
    <2> QED
        BY <1>1, <2>1, <2>2, <2>3, <2>4, <2>5, <2>6, <2>7, <2>8, <2>9 DEF Main, Arm
<1>2. CASE Supervisor
    <2>1. CASE SessionZero
        BY <2>1 DEF SessionZero
    <2>2. CASE SessionDisarm
        BY <2>2 DEF SessionDisarm
    <2>3. CASE SessionEpoch
        BY <2>3 DEF SessionEpoch
    <2>4. CASE Ready
        BY <2>4 DEF Ready
    <2>5. CASE Reload
        BY <2>5 DEF Reload
    <2> QED
        BY <1>2, <2>1, <2>2, <2>3, <2>4, <2>5 DEF Supervisor
<1>3. CASE HpReset
    BY <1>3 DEF HpReset
<1>4. CASE Lp
    <2> USE DEF LpStep
    <2>1. CASE ReadArmed
        <3>1. CASE tArmed = "yes"
            <4>1. inForce' = {<<tEpoch, tTarget>>}
                BY <2>1, <3>1 DEF ReadArmed
            <4>2. Epochs' = {tEpoch} /\ Targets' = {tTarget}
                BY <4>1, BlockOnly
            <4> HIDE DEF Epochs, Targets
            <4> QED
                BY <2>1, <3>1, <4>2 DEF ReadArmed
        <3>2. CASE tArmed # "yes"
            <4>1. Epochs' = {} /\ Targets' = {}
                BY <2>1, <3>2 DEF ReadArmed
            <4> HIDE DEF Epochs, Targets
            <4> QED
                BY <2>1, <3>2, <4>1 DEF ReadArmed
        <3> QED
            BY <3>1, <3>2
    <2>2. CASE ReadEpoch
        BY <2>2 DEF ReadEpoch
    <2>3. CASE ReadDeadline
        BY <2>3 DEF ReadDeadline
    <2>4. CASE ReadTarget
        BY <2>4 DEF ReadTarget
    <2>5. CASE ReadArmedAgain
        BY <2>5 DEF ReadArmedAgain
    <2>6. CASE DecideDrop
        BY <2>6 DEF DecideDrop
    <2>7. CASE DecideWait
        BY <2>7 DEF DecideWait
    <2>8. CASE DecidePress
        BY <2>8 DEF DecidePress
    <2>9. CASE MarkFired
        BY <2>9 DEF MarkFired
    <2>10. CASE HandleCommand
        BY <2>10 DEF HandleCommand
    <2> QED
        BY <1>4, <2>1, <2>2, <2>3, <2>4, <2>5, <2>6, <2>7, <2>8, <2>9, <2>10
           DEF Lp, Trigger
<1>5. CASE Release
    BY <1>5 DEF Release
<1>6. CASE LpReset
    BY <1>6 DEF LpReset
<1>7. CASE Door
    BY <1>7 DEF Door
<1>8. CASE Deadline
    BY <1>8 DEF Deadline
<1>9. CASE UNCHANGED vars
    BY <1>9 DEF vars
<1> QED
    BY <1>1, <1>2, <1>3, <1>4, <1>5, <1>6, <1>7, <1>8, <1>9 DEF Next

\* The invariant of the trigger.
THEOREM InvCorrect == Spec => []TriggerInv
<1>1. TypeOK /\ TriggerInv /\ [Next]_vars => TriggerInv'
    BY InvStep
<1> QED
    BY <1>1, InvInit, TypeCorrect, PTL DEF Spec

\* Stop is pressed only for a target that was in the block with the flag up,
\* and in a session whose arming was so too, while the handler looked.
THEOREM PressesInForce == Spec => PressedInForce
<1>1. TriggerInv /\ [Next]_vars
          => [Pressing => lTarget \in Targets /\ lActive \in Epochs]_vars
    BY DEF Pressing, DecidePress, LpStep, TriggerInv, TargetReadInv, EpochReadInv
<1> QED
    BY <1>1, InvCorrect, PTL DEF Spec, PressedInForce

\* Stop is pressed at most once for an arming, unless the LP core is reset
\* before it has marked the press.
THEOREM PressesOnce == Spec => PressedOnce
<1>1. TriggerInv /\ [Next]_vars => [Pressing /\ lTarget # 0 => lTarget \notin pressed]_vars
    BY DEF Pressing, DecidePress, LpStep, TriggerInv, OnceInv
<1> QED
    BY <1>1, InvCorrect, PTL DEF Spec, PressedOnce
=============================================================================
