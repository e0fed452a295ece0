-------------------------- MODULE HCP2CommandProofs --------------------------
(***************************************************************************)
(* Proofs about HCP2Command, for every bound on commands, sessions and     *)
(* resets, and wherever a reload or a reset cuts a send: the types, that no *)
(* press ever uses an older command's id, that presses follow the order of *)
(* sending without repetition, that the channel implements                 *)
(* HCP2CommandService, what "executed" means, and that commands from       *)
(* before the session are not pressed.                                     *)
(***************************************************************************)
EXTENDS HCP2Command, TLAPS

USE BoundsAssumption, TimingAssumption

\* Every step keeps the state variables in their types.  HandlerInv is only
\* needed for Press: the command taken and the id pressed are real ones.
LEMMA TypeStep == TypeOK /\ HandlerInv /\ [Next]_vars => TypeOK'
<1> SUFFICES ASSUME TypeOK, HandlerInv, [Next]_vars PROVE TypeOK'
    OBVIOUS
<1> USE DEF TypeOK, Results, StopButton, mbVars, hpVars, sendVars, sessVars, rtVars, locVars, lpVars
<1>1. CASE SendCall
    BY <1>1 DEF SendCall
<1>2. CASE SendNext
    BY <1>2 DEF SendNext, SendStep
<1>3. CASE SendGetEpoch
    BY <1>3 DEF SendGetEpoch, SendStep
<1>4. CASE SendEpoch
    BY <1>4 DEF SendEpoch, SendStep
<1>5. CASE SendId
    BY <1>5 DEF SendId, SendStep
<1>6. CASE SendDeadline
    BY <1>6 DEF SendDeadline, SendStep
<1>7. CASE SendResult
    BY <1>7 DEF SendResult, SendStep
<1>8. CASE SendSeq
    BY <1>8 DEF SendSeq
<1>9. CASE KeepLp
    BY <1>9 DEF KeepLp
<1>10. CASE StopLp
    BY <1>10 DEF StopLp
<1>11. CASE LoadError
    BY <1>11 DEF LoadError
<1>12. CASE ClearMailbox
    BY <1>12 DEF ClearMailbox
<1>13. CASE SessionZero
    BY <1>13 DEF SessionZero, SessionStep, OverNow
<1>14. CASE SessionId
    BY <1>14 DEF SessionId, SessionStep
<1>15. CASE SessionAckSeq
    BY <1>15 DEF SessionAckSeq, SessionStep
<1>16. CASE SessionAckResult
    BY <1>16 DEF SessionAckResult, SessionStep
<1>17. CASE SessionDeadline
    BY <1>17 DEF SessionDeadline, SessionStep
<1>18. CASE SessionEpoch
    BY <1>18 DEF SessionEpoch, SessionStep
<1>19. CASE StartLp
    BY <1>19 DEF StartLp
<1>20. CASE Ready
    BY <1>20 DEF Ready
<1>21. CASE HpReset
    BY <1>21 DEF HpReset
<1>22. CASE BootSeq
    BY <1>22 DEF BootSeq, LpStep
<1>23. CASE BootEpoch
    BY <1>23 DEF BootEpoch, LpStep, NoPending
<1>24. CASE BootAck
    BY <1>24 DEF BootAck, LpStep
<1>25. CASE HandleSeq
    BY <1>25 DEF HandleSeq, LpStep
<1>26. CASE HandleAdopt
    BY <1>26 DEF HandleAdopt, LpStep, NoPending
<1>27. CASE HandleEpoch
    <2>1. CASE mEpoch = lActive
        BY <1>27, <2>1, ZenonT(60) DEF HandleEpoch, LpStep
    <2>2. CASE mEpoch # lActive
        <3>1. NoPending /\ LpStep("epoch", "loop")
            BY <1>27, <2>2 DEF HandleEpoch
        <3> QED
            BY <1>27, <3>1 DEF HandleEpoch, LpStep, NoPending
    <2> QED
        BY <2>1, <2>2
<1>28. CASE HandleLast
    <2>1. CASE mSeq = lLast
        <3>1. NoPending /\ LpStep("last", "loop")
            BY <1>28, <2>1 DEF HandleLast
        <3> QED
            BY <1>28, <3>1 DEF HandleLast, LpStep, NoPending
    <2>2. CASE mSeq # lLast
        BY <1>28, <2>2, ZenonT(60) DEF HandleLast, LpStep
    <2> QED
        BY <2>1, <2>2
<1>29. CASE HandlePending
    BY <1>29, ZenonT(60) DEF HandlePending, LpStep
<1>30. CASE TakeEpoch
    BY <1>30 DEF TakeEpoch, LpStep
<1>31. CASE TakeSeq
    BY <1>31 DEF TakeSeq, LpStep
<1>32. CASE TakeId
    BY <1>32 DEF TakeId, LpStep
<1>33. CASE TakeDeadline
    <2>1. CASE mDeadline \in expired
        BY <1>33, <2>1 DEF TakeDeadline, LpStep
    <2>2. CASE mDeadline \notin expired
        <3>1. /\ NoPending /\ LpStep("takeDeadline", "press")
              /\ lLast' = lSeq /\ UNCHANGED <<lActive, lResult>>
            BY <1>33, <2>2 DEF TakeDeadline
        <3> QED
            BY <1>33, <3>1 DEF TakeDeadline, LpStep, NoPending
    <2> QED
        BY <2>1, <2>2
<1>34. CASE Press
    <2>1. CASE btn = 0
        <3>1. lBy \in 1..sCmd /\ lId \in 1..sCmd
            BY <1>34 DEF Press, LpStep, HandlerInv
        <3> QED
            BY <1>34, <2>1, <3>1 DEF Press, LpStep
    <2>2. CASE btn # 0
        BY <1>34, <2>2 DEF Press, LpStep
    <2> QED
        BY <2>1, <2>2
<1>35. CASE AckResult
    BY <1>35 DEF AckResult, LpStep
<1>36. CASE AckSeq
    BY <1>36 DEF AckSeq, LpStep
<1>37. CASE LpReset
    BY <1>37 DEF LpReset
<1>38. CASE Settle
    BY <1>38 DEF Settle
<1>39. CASE Expire
    BY <1>39 DEF Expire
<1>40. CASE TriggerStop \/ Release
    <2>1. CASE TriggerStop
        BY <2>1 DEF TriggerStop
    <2>2. CASE Release
        BY <2>2 DEF Release
    <2> QED
        BY <1>40, <2>1, <2>2
<1>41. CASE UNCHANGED vars
    BY <1>41 DEF vars
<1> QED
    BY <1>1, <1>2, <1>3, <1>4, <1>5, <1>6, <1>7, <1>8, <1>9, <1>10, <1>11, <1>12,
       <1>13, <1>14, <1>15, <1>16, <1>17, <1>18, <1>19, <1>20, <1>21, <1>22, <1>23,
       <1>24, <1>25, <1>26, <1>27, <1>28, <1>29, <1>30, <1>31, <1>32, <1>33, <1>34,
       <1>35, <1>36, <1>37, <1>38, <1>39, <1>40, <1>41
    DEF Next, Send, Supervise, BeginSession, Boot, Handle

\* Only the main task publishes, under a number larger than every earlier one,
\* and it stores the id before the sequence.
LEMMA PublishStep == TypeOK /\ PublishInv /\ [Next]_vars => PublishInv'
<1> SUFFICES ASSUME TypeOK, PublishInv, [Next]_vars PROVE PublishInv'
    OBVIOUS
<1> USE DEF TypeOK, PublishInv, mbVars, hpVars, sendVars, sessVars
<1>1. CASE SendCall
    BY <1>1 DEF SendCall
<1>2. CASE SendNext
    BY <1>2 DEF SendNext, SendStep
<1>3. CASE SendGetEpoch
    BY <1>3 DEF SendGetEpoch, SendStep
<1>4. CASE SendEpoch
    BY <1>4 DEF SendEpoch, SendStep
<1>5. CASE SendId
    BY <1>5 DEF SendId, SendStep
<1>6. CASE SendDeadline
    BY <1>6 DEF SendDeadline, SendStep
<1>7. CASE SendResult
    BY <1>7 DEF SendResult, SendStep
<1>8. CASE SendSeq
    BY <1>8 DEF SendSeq
<1>9. CASE KeepLp
    BY <1>9 DEF KeepLp
<1>10. CASE StopLp
    BY <1>10 DEF StopLp
<1>11. CASE LoadError
    BY <1>11 DEF LoadError
<1>12. CASE ClearMailbox
    BY <1>12 DEF ClearMailbox
<1>13. CASE SessionZero
    BY <1>13 DEF SessionZero, SessionStep, OverNow
<1>14. CASE SessionId
    BY <1>14 DEF SessionId, SessionStep
<1>15. CASE SessionAckSeq
    BY <1>15 DEF SessionAckSeq, SessionStep
<1>16. CASE SessionAckResult
    BY <1>16 DEF SessionAckResult, SessionStep
<1>17. CASE SessionDeadline
    BY <1>17 DEF SessionDeadline, SessionStep
<1>18. CASE SessionEpoch
    BY <1>18 DEF SessionEpoch, SessionStep
<1>19. CASE StartLp
    BY <1>19 DEF StartLp
<1>20. CASE Ready
    BY <1>20 DEF Ready
<1>21. CASE HpReset
    BY <1>21 DEF HpReset
<1>22. CASE LpReset
    BY <1>22 DEF LpReset
<1>23. CASE Settle
    BY <1>23 DEF Settle
<1>24. CASE Expire
    BY <1>24 DEF Expire
<1>25. CASE TriggerStop \/ Release
    BY <1>25 DEF TriggerStop, Release
<1>26. CASE Boot \/ Handle
    <2>1. UNCHANGED <<mSeq, mId, mBy, sendVars>>
        BY <1>26 DEF Boot, Handle, LpStep, BootSeq, BootEpoch, BootAck, HandleSeq,
       HandleAdopt, HandleEpoch, HandleLast, HandlePending,
                    TakeEpoch, TakeSeq, TakeId, TakeDeadline, Press, AckResult, AckSeq
    <2> QED
        BY <2>1
<1>27. CASE UNCHANGED vars
    BY <1>27, SMTT(60) DEF vars
<1> QED
    BY <1>1, <1>2, <1>3, <1>4, <1>5, <1>6, <1>7, <1>8, <1>9, <1>10, <1>11, <1>12,
       <1>13, <1>14, <1>15, <1>16, <1>17, <1>18, <1>19, <1>20, <1>21, <1>22, <1>23,
       <1>24, <1>25, <1>26, <1>27
    DEF Next, Send, Supervise, BeginSession

\* The handler's half.  The steps that publish or zero the sequence keep it
\* because the command number grows; those of the LP core because it marks
\* what it takes before it can see it again, and marks at boot what it finds.
LEMMA HandlerStep ==
    TypeOK /\ PublishInv /\ HandlerInv /\ [Next]_vars => HandlerInv'
<1> SUFFICES ASSUME TypeOK, PublishInv, HandlerInv, [Next]_vars PROVE HandlerInv'
    OBVIOUS
<1> USE DEF TypeOK, PublishInv, HandlerInv, CopyInv, PressedBelow, PressedUpTo,
            mbVars, hpVars, sendVars, sessVars, rtVars, locVars, lpVars
<1>1. CASE SendCall
    BY <1>1 DEF SendCall
<1>2. CASE SendNext
    BY <1>2 DEF SendNext, SendStep
<1>3. CASE SendGetEpoch
    BY <1>3 DEF SendGetEpoch, SendStep
<1>4. CASE SendEpoch
    BY <1>4 DEF SendEpoch, SendStep
<1>5. CASE SendId
    BY <1>5 DEF SendId, SendStep
<1>6. CASE SendDeadline
    BY <1>6 DEF SendDeadline, SendStep
<1>7. CASE SendResult
    BY <1>7 DEF SendResult, SendStep
<1>8. CASE SendSeq
    BY <1>8 DEF SendSeq
<1>9. CASE KeepLp
    BY <1>9 DEF KeepLp
<1>10. CASE StopLp
    BY <1>10 DEF StopLp
<1>11. CASE LoadError
    BY <1>11 DEF LoadError
<1>12. CASE ClearMailbox
    BY <1>12 DEF ClearMailbox
<1>13. CASE SessionZero
    BY <1>13 DEF SessionZero, SessionStep, OverNow
<1>14. CASE SessionId
    BY <1>14 DEF SessionId, SessionStep
<1>15. CASE SessionAckSeq
    BY <1>15 DEF SessionAckSeq, SessionStep
<1>16. CASE SessionAckResult
    BY <1>16 DEF SessionAckResult, SessionStep
<1>17. CASE SessionDeadline
    BY <1>17 DEF SessionDeadline, SessionStep
<1>18. CASE SessionEpoch
    BY <1>18 DEF SessionEpoch, SessionStep
<1>19. CASE StartLp
    BY <1>19 DEF StartLp
<1>20. CASE Ready
    BY <1>20 DEF Ready
<1>21. CASE HpReset
    BY <1>21 DEF HpReset
<1>22. CASE BootSeq
    BY <1>22 DEF BootSeq, LpStep
<1>23. CASE BootEpoch
    BY <1>23 DEF BootEpoch, LpStep, NoPending
<1>24. CASE BootAck
    BY <1>24 DEF BootAck, LpStep
<1>25. CASE HandleSeq
    BY <1>25 DEF HandleSeq, LpStep
<1>26. CASE HandleAdopt
    BY <1>26 DEF HandleAdopt, LpStep, NoPending
<1>27. CASE HandleEpoch
    BY <1>27 DEF HandleEpoch, LpStep, NoPending
<1>28. CASE HandleLast
    BY <1>28 DEF HandleLast, LpStep, NoPending
<1>29. CASE HandlePending
    BY <1>29 DEF HandlePending, LpStep
<1>30. CASE TakeEpoch
    BY <1>30 DEF TakeEpoch, LpStep
<1>31. CASE TakeSeq
    BY <1>31 DEF TakeSeq, LpStep
<1>32. CASE TakeId
    BY <1>32 DEF TakeId, LpStep
<1>33. CASE TakeDeadline
    BY <1>33 DEF TakeDeadline, LpStep, NoPending
<1>34. CASE Press
    BY <1>34 DEF Press, LpStep
<1>35. CASE AckResult
    BY <1>35 DEF AckResult, LpStep
<1>36. CASE AckSeq
    BY <1>36 DEF AckSeq, LpStep
<1>37. CASE LpReset
    BY <1>37 DEF LpReset
<1>38. CASE Settle
    BY <1>38 DEF Settle
<1>39. CASE Expire
    BY <1>39 DEF Expire
<1>40. CASE TriggerStop \/ Release
    BY <1>40 DEF TriggerStop, Release
<1>41. CASE UNCHANGED vars
    BY <1>41 DEF vars
<1> QED
    BY <1>1, <1>2, <1>3, <1>4, <1>5, <1>6, <1>7, <1>8, <1>9, <1>10, <1>11, <1>12,
       <1>13, <1>14, <1>15, <1>16, <1>17, <1>18, <1>19, <1>20, <1>21, <1>22, <1>23,
       <1>24, <1>25, <1>26, <1>27, <1>28, <1>29, <1>30, <1>31, <1>32, <1>33, <1>34,
       <1>35, <1>36, <1>37, <1>38, <1>39, <1>40, <1>41
    DEF Next, Send, Supervise, BeginSession, Boot, Handle

\* Only Press changes the history, and what it adds.
LEMMA PressesStep ==
    ASSUME TypeOK, HandlerInv, [Next]_vars
    PROVE  \/ presses' = presses
           \/ /\ presses' = presses \cup {<<lBy, lId>>}
              /\ lBy \in 1..sCmd /\ lId \in lBy..sCmd
              /\ PressedBelow(lBy)
              /\ sCmd' = sCmd
<1>1. CASE Press
    <2>1. lPc = "press"
        BY <1>1 DEF Press, LpStep
    <2>2. lBy \in 1..sCmd /\ lId \in lBy..sCmd /\ PressedBelow(lBy)
        BY <2>1 DEF TypeOK, HandlerInv
    <2> QED
        BY <1>1, <2>2 DEF Press, LpStep, sendVars
<1>2. CASE ~Press
    BY <1>2 DEF Next, Send, Supervise, BeginSession, Boot, Handle,
       SendStep, SessionStep, LpStep,
       SendCall, SendNext, SendGetEpoch, SendEpoch, SendId, SendDeadline,
       SendResult, SendSeq, KeepLp, StopLp, LoadError, ClearMailbox,
       SessionZero, SessionId, SessionAckSeq, SessionAckResult, SessionDeadline,
       SessionEpoch, StartLp, Ready, HpReset, BootSeq, BootEpoch, BootAck,
       HandleSeq, HandleAdopt, HandleEpoch, HandleLast, HandlePending,
       TakeEpoch, TakeSeq, TakeId, TakeDeadline, AckResult, AckSeq, LpReset,
       Settle, Expire, TriggerStop, Release,
       vars, mbVars, hpVars, sendVars, sessVars, rtVars, locVars, lpVars
<1> QED
    BY <1>1, <1>2

LEMMA OlderIdStep ==
    TypeOK /\ HandlerInv /\ NeverAnOlderId /\ [Next]_vars => NeverAnOlderId'
<1> SUFFICES ASSUME TypeOK, HandlerInv, NeverAnOlderId, [Next]_vars
             PROVE  NeverAnOlderId'
    OBVIOUS
<1>1. CASE presses' = presses
    BY <1>1 DEF NeverAnOlderId
<1>2. CASE /\ presses' = presses \cup {<<lBy, lId>>}
           /\ lBy \in 1..sCmd /\ lId \in lBy..sCmd
    BY <1>2 DEF NeverAnOlderId, TypeOK
<1> QED
    BY <1>1, <1>2, PressesStep

\* CommandInv is inductive.
LEMMA InvInit == Init => CommandInv
BY DEF Init, CommandInv, TypeOK, StopButton, PublishInv, HandlerInv, NeverAnOlderId, Results,
       PressedUpTo, PressedBelow, CopyInv

LEMMA InvStep == CommandInv /\ [Next]_vars => CommandInv'
BY TypeStep, PublishStep, HandlerStep, OlderIdStep DEF CommandInv

THEOREM InvCorrect == Spec => []CommandInv
BY InvInit, InvStep, PTL DEF Spec

\* The state variables stay in their types.
THEOREM TypeCorrect == Spec => []TypeOK
<1>1. CommandInv => TypeOK
    BY DEF CommandInv
<1> QED
    BY <1>1, InvCorrect, PTL

\* No press uses the id of a command older than the one it is for.
THEOREM NeverOlder == Spec => []NeverAnOlderId
<1>1. CommandInv => NeverAnOlderId
    BY DEF CommandInv
<1> QED
    BY <1>1, InvCorrect, PTL

\* Commands are pressed in the order they were sent, each at most once.
THEOREM OrderedOnce == Spec => PressedInOrder
<1>1. CommandInv /\ [Next]_vars
          => [Pressing => \A p \in presses : p[1] < lBy]_vars
    BY DEF CommandInv, HandlerInv, Pressing, PressedBelow
<1> QED
    BY <1>1, InvCorrect, PTL DEF Spec, PressedInOrder

\* Every step of the channel is a step of the service it implements, or leaves
\* the service's state alone.
THEOREM Implements == Spec => ImplementsService
<1>1. Init => Service!Init
    BY DEF Init, Service!Init
<1>2. CommandInv /\ [Next]_vars => [Service!Next]_<<sCmd, presses>>
    <2> SUFFICES ASSUME CommandInv, [Next]_vars
                 PROVE  [Service!Next]_<<sCmd, presses>>
        OBVIOUS
    <2>0. TypeOK /\ HandlerInv
        BY DEF CommandInv
    <2>1. CASE SendCall
        BY <2>1 DEF SendCall, lpVars, Service!Next, Service!Send
    <2>2. CASE ~SendCall
        <3>1. sCmd' = sCmd
            BY <2>2 DEF Next, Send, Supervise, BeginSession, Boot, Handle,
               SendStep, SessionStep, LpStep,
               SendNext, SendGetEpoch, SendEpoch, SendId, SendDeadline,
               SendResult, SendSeq, KeepLp, StopLp, LoadError, ClearMailbox,
               SessionZero, SessionId, SessionAckSeq, SessionAckResult,
               SessionDeadline, SessionEpoch, StartLp, Ready, HpReset, BootSeq,
               BootEpoch, BootAck, HandleSeq, HandleAdopt, HandleEpoch,
               HandleLast, HandlePending, TakeEpoch, TakeSeq, TakeId,
               TakeDeadline, Press, AckResult, AckSeq, LpReset, Settle, Expire,
               TriggerStop, Release,
               vars, mbVars, hpVars, sendVars, sessVars, rtVars, locVars, lpVars
        <3>2. CASE presses' = presses
            BY <3>1, <3>2
        <3>3. CASE /\ presses' = presses \cup {<<lBy, lId>>}
                   /\ lBy \in 1..sCmd /\ lId \in lBy..sCmd
                   /\ PressedBelow(lBy)
            <4>1. Service!Perform(lBy, lId)
                BY <3>1, <3>3 DEF Service!Perform, PressedBelow
            <4> QED
                BY <3>3, <4>1 DEF Service!Next
        <3> QED
            BY <2>0, <3>2, <3>3, PressesStep
    <2> QED
        BY <2>1, <2>2
<1> QED
    BY <1>1, <1>2, InvCorrect, PTL DEF Spec, ImplementsService, Service!Spec
----------------------------------------------------------------------------
(* What an acknowledgement says                                            *)

\* What the LP core has at hand never gets older, and it writes "executed"
\* only after the press: the steps that matter are SendSeq, which publishes a
\* number above every one acknowledged, BootSeq and TakeSeq, which take the
\* published one, and Press, AckResult and AckSeq.
LEMMA AckStep ==
    TypeOK /\ PublishInv /\ AckInv /\ [Next]_vars => AckInv'
<1> SUFFICES ASSUME TypeOK, PublishInv, AckInv, [Next]_vars PROVE AckInv'
    OBVIOUS
<1> USE DEF TypeOK, AckInv, IsPressed, mbVars, hpVars, sendVars, sessVars, rtVars, locVars, lpVars
<1>1. CASE SendCall
    BY <1>1 DEF SendCall
<1>2. CASE SendNext
    BY <1>2 DEF SendNext, SendStep
<1>3. CASE SendGetEpoch
    BY <1>3 DEF SendGetEpoch, SendStep
<1>4. CASE SendEpoch
    BY <1>4 DEF SendEpoch, SendStep
<1>5. CASE SendId
    BY <1>5 DEF SendId, SendStep
<1>6. CASE SendDeadline
    BY <1>6 DEF SendDeadline, SendStep
<1>7. CASE SendResult
    BY <1>7 DEF SendResult, SendStep
<1>8. CASE SendSeq
    BY <1>8 DEF SendSeq, PublishInv
<1>9. CASE KeepLp
    BY <1>9 DEF KeepLp
<1>10. CASE StopLp
    BY <1>10 DEF StopLp
<1>11. CASE LoadError
    BY <1>11 DEF LoadError
<1>12. CASE ClearMailbox
    BY <1>12 DEF ClearMailbox
<1>13. CASE SessionZero
    BY <1>13 DEF SessionZero, SessionStep, OverNow
<1>14. CASE SessionId
    BY <1>14 DEF SessionId, SessionStep
<1>15. CASE SessionAckSeq
    BY <1>15 DEF SessionAckSeq, SessionStep
<1>16. CASE SessionAckResult
    BY <1>16 DEF SessionAckResult, SessionStep
<1>17. CASE SessionDeadline
    BY <1>17 DEF SessionDeadline, SessionStep
<1>18. CASE SessionEpoch
    BY <1>18 DEF SessionEpoch, SessionStep
<1>19. CASE StartLp
    BY <1>19 DEF StartLp
<1>20. CASE Ready
    BY <1>20 DEF Ready
<1>21. CASE HpReset
    BY <1>21 DEF HpReset
<1>22. CASE BootSeq
    BY <1>22 DEF BootSeq, LpStep
<1>23. CASE BootEpoch
    BY <1>23 DEF BootEpoch, LpStep, NoPending
<1>24. CASE BootAck
    BY <1>24 DEF BootAck, LpStep
<1>25. CASE HandleSeq
    BY <1>25 DEF HandleSeq, LpStep
<1>26. CASE HandleAdopt
    BY <1>26 DEF HandleAdopt, LpStep, NoPending
<1>27. CASE HandleEpoch
    BY <1>27 DEF HandleEpoch, LpStep, NoPending
<1>28. CASE HandleLast
    BY <1>28 DEF HandleLast, LpStep, NoPending
<1>29. CASE HandlePending
    BY <1>29 DEF HandlePending, LpStep
<1>30. CASE TakeEpoch
    BY <1>30 DEF TakeEpoch, LpStep
<1>31. CASE TakeSeq
    BY <1>31 DEF TakeSeq, LpStep
<1>32. CASE TakeId
    BY <1>32 DEF TakeId, LpStep
<1>33. CASE TakeDeadline
    BY <1>33 DEF TakeDeadline, LpStep, NoPending
<1>34. CASE Press
    <2>1. \A c \in Nat : IsPressed(c) => IsPressed(c)'
        BY <1>34 DEF Press
    <2>2. lResult' = "executed" => IsPressed(lBy)'
        <3>1. CASE btn = 0
            <4>1. <<lBy, lId>> \in presses' /\ <<lBy, lId>>[1] = lBy /\ lBy' = lBy
                BY <1>34, <3>1 DEF Press
            <4> QED
                BY <4>1
        <3>2. CASE btn # 0
            BY <1>34, <3>2 DEF Press
        <3> QED
            BY <3>1, <3>2
    <2>3. /\ UNCHANGED <<lBy, mBy, mAckBy, mAckResult>>
          /\ lPc' = "ackResult"
        BY <1>34 DEF Press, LpStep
    <2> HIDE DEF IsPressed
    <2> QED
        BY <2>1, <2>2, <2>3
<1>35. CASE AckResult
    BY <1>35 DEF AckResult, LpStep
<1>36. CASE AckSeq
    BY <1>36 DEF AckSeq, LpStep
<1>37. CASE LpReset
    BY <1>37 DEF LpReset
<1>38. CASE Settle
    BY <1>38 DEF Settle
<1>39. CASE Expire
    BY <1>39 DEF Expire
<1>40. CASE TriggerStop \/ Release
    BY <1>40 DEF TriggerStop, Release
<1>41. CASE UNCHANGED vars
    BY <1>41 DEF vars
<1> QED
    BY <1>1, <1>2, <1>3, <1>4, <1>5, <1>6, <1>7, <1>8, <1>9, <1>10, <1>11,
       <1>12, <1>13, <1>14, <1>15, <1>16, <1>17, <1>18, <1>19, <1>20, <1>21,
       <1>22, <1>23, <1>24, <1>25, <1>26, <1>27, <1>28, <1>29, <1>30, <1>31,
       <1>32, <1>33, <1>34, <1>35, <1>36, <1>37, <1>38, <1>39, <1>40, <1>41
    DEF Next, Send, Supervise, BeginSession, Boot, Handle

\* "executed" for the outstanding command, acknowledged for that command, means
\* that it was pressed: for every bound and both timing assumptions.
THEOREM ExecutedIsPressed == Spec => []ExecutedMeansPressed
<1>1. Init => AckInv
    BY DEF Init, AckInv
<1>2. CommandInv /\ AckInv /\ [Next]_vars => AckInv'
    BY AckStep DEF CommandInv
<1>3. CommandInv /\ AckInv => ExecutedMeansPressed
    BY DEF CommandInv, PublishInv, AckInv, IsPressed, ExecutedMeansPressed
<1> QED
    BY <1>1, <1>2, <1>3, InvCorrect, PTL DEF Spec

----------------------------------------------------------------------------
(* Commands from before the session                                        *)

\* The begin of a session is the only step at which commands become old ones;
\* it zeroes the sequence, and leaves out the command being sent and the one
\* the LP core has taken.  Afterwards the LP core only finds what is published
\* later.
LEMMA OverStep ==
    TypeOK /\ PublishInv /\ OverInv /\ [Next]_vars => OverInv'
<1> SUFFICES ASSUME TypeOK, PublishInv, OverInv, [Next]_vars PROVE OverInv'
    OBVIOUS
<1> USE DEF TypeOK, PublishInv, OverInv, mbVars, hpVars, sendVars, sessVars, rtVars, locVars, lpVars
<1>1. CASE SendCall
    BY <1>1 DEF SendCall
<1>2. CASE SendNext
    BY <1>2 DEF SendNext, SendStep
<1>3. CASE SendGetEpoch
    BY <1>3 DEF SendGetEpoch, SendStep
<1>4. CASE SendEpoch
    BY <1>4 DEF SendEpoch, SendStep
<1>5. CASE SendId
    BY <1>5 DEF SendId, SendStep
<1>6. CASE SendDeadline
    BY <1>6 DEF SendDeadline, SendStep
<1>7. CASE SendResult
    BY <1>7 DEF SendResult, SendStep
<1>8. CASE SendSeq
    BY <1>8 DEF SendSeq
<1>9. CASE KeepLp
    BY <1>9 DEF KeepLp
<1>10. CASE StopLp
    BY <1>10 DEF StopLp
<1>11. CASE LoadError
    BY <1>11 DEF LoadError
<1>12. CASE ClearMailbox
    BY <1>12 DEF ClearMailbox
<1>13. CASE SessionZero
    BY <1>13 DEF SessionZero, SessionStep, OverNow
<1>14. CASE SessionId
    BY <1>14 DEF SessionId, SessionStep
<1>15. CASE SessionAckSeq
    BY <1>15 DEF SessionAckSeq, SessionStep
<1>16. CASE SessionAckResult
    BY <1>16 DEF SessionAckResult, SessionStep
<1>17. CASE SessionDeadline
    BY <1>17 DEF SessionDeadline, SessionStep
<1>18. CASE SessionEpoch
    BY <1>18 DEF SessionEpoch, SessionStep
<1>19. CASE StartLp
    BY <1>19 DEF StartLp
<1>20. CASE Ready
    BY <1>20 DEF Ready
<1>21. CASE HpReset
    BY <1>21 DEF HpReset
<1>22. CASE BootSeq
    BY <1>22 DEF BootSeq, LpStep
<1>23. CASE BootEpoch
    BY <1>23 DEF BootEpoch, LpStep, NoPending
<1>24. CASE BootAck
    BY <1>24 DEF BootAck, LpStep
<1>25. CASE HandleSeq
    BY <1>25 DEF HandleSeq, LpStep
<1>26. CASE HandleAdopt
    BY <1>26 DEF HandleAdopt, LpStep, NoPending
<1>27. CASE HandleEpoch
    BY <1>27 DEF HandleEpoch, LpStep, NoPending
<1>28. CASE HandleLast
    BY <1>28 DEF HandleLast, LpStep, NoPending
<1>29. CASE HandlePending
    BY <1>29 DEF HandlePending, LpStep
<1>30. CASE TakeEpoch
    BY <1>30 DEF TakeEpoch, LpStep
<1>31. CASE TakeSeq
    BY <1>31 DEF TakeSeq, LpStep
<1>32. CASE TakeId
    BY <1>32 DEF TakeId, LpStep
<1>33. CASE TakeDeadline
    BY <1>33 DEF TakeDeadline, LpStep, NoPending
<1>34. CASE Press
    BY <1>34 DEF Press, LpStep
<1>35. CASE AckResult
    BY <1>35 DEF AckResult, LpStep
<1>36. CASE AckSeq
    BY <1>36 DEF AckSeq, LpStep
<1>37. CASE LpReset
    BY <1>37 DEF LpReset
<1>38. CASE Settle
    BY <1>38 DEF Settle
<1>39. CASE Expire
    BY <1>39 DEF Expire
<1>40. CASE TriggerStop \/ Release
    BY <1>40 DEF TriggerStop, Release
<1>41. CASE UNCHANGED vars
    BY <1>41 DEF vars
<1> QED
    BY <1>1, <1>2, <1>3, <1>4, <1>5, <1>6, <1>7, <1>8, <1>9, <1>10, <1>11,
       <1>12, <1>13, <1>14, <1>15, <1>16, <1>17, <1>18, <1>19, <1>20, <1>21,
       <1>22, <1>23, <1>24, <1>25, <1>26, <1>27, <1>28, <1>29, <1>30, <1>31,
       <1>32, <1>33, <1>34, <1>35, <1>36, <1>37, <1>38, <1>39, <1>40, <1>41
    DEF Next, Send, Supervise, BeginSession, Boot, Handle

\* What was sent before the current session began, and not taken by then, is
\* never pressed: for every bound and both timing assumptions.
THEOREM OldIgnored == Spec => OldCommandsIgnored
<1>1. Init => OverInv
    BY DEF Init, OverInv
<1>2. CommandInv /\ OverInv /\ [Next]_vars => OverInv'
    BY OverStep DEF CommandInv
<1>3. OverInv /\ [Next]_vars => [Pressing => lBy \notin over]_vars
    BY DEF OverInv, Pressing
<1> QED
    BY <1>1, <1>2, <1>3, InvCorrect, PTL DEF Spec, OldCommandsIgnored
==============================================================================
