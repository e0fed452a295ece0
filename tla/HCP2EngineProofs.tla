-------------------------- MODULE HCP2EngineProofs --------------------------
(***************************************************************************)
(* Proofs about HCP2Engine, for every press time, response delay, clock    *)
(* width and bound.  What needs status polls to get through often enough   *)
(* says so in its assumption; TypeCorrect and KeptWhileClaimed need        *)
(* nothing of the kind.                                                    *)
(* The second part is about the other end of the same wire: LaVerify, the  *)
(* logic analyser's verifier of what the engine puts on the bus, for every *)
(* counter range, cycle, driver and receiver limit, number of polls and    *)
(* cut.  The two parts share no state and no lemma but those on numbers.   *)
(***************************************************************************)
EXTENDS HCP2Engine, MCAnalyser, TLAPS, SequenceTheorems, WellFoundedInduction

USE ClockAssumption, EnvironmentAssumption, BoundsAssumption

\* The clock stays in its range, and a due time ahead is not reached.
LEMMA ClockFacts ==
    /\ \A c \in Clock : Advance(c) \in Clock
    /\ \A d \in Nat : d < HalfRange => Before(d) \in Clock
BY DEF Clock, Advance, Before

\* The button is in one of three phases, and in none but the last without a press.
LEMMA PhaseFacts ==
    /\ ButtonPhase \in {"press", "release", "idle"}
    /\ ButtonPhase # "idle" => active # 0
BY DEF ButtonPhase

\* Every step keeps the variables in their sets.
LEMMA TypeStep == TypeOK /\ [Next]_vars => TypeOK'
<1> SUFFICES ASSUME TypeOK, [Next]_vars PROVE TypeOK'
    OBVIOUS
<1> USE DEF TypeOK, buttonVars, slotVars, historyVars
<1>1. CASE PressButton
    <2>1. Before(PressTicks) \in Clock
        BY ClockFacts
    <2> QED
        BY <1>1, <2>1 DEF PressButton
<1>2. CASE RxRequest
    <2>1. Before(DelayTicks) \in Clock
        BY ClockFacts
    <2> QED
        BY <1>2, <2>1 DEF RxRequest, ScheduleTx
<1>3. CASE RxStatusPoll
    <2>1. Before(DelayTicks) \in Clock
        BY ClockFacts
    <2> QED
        BY <1>3, <2>1, PhaseFacts DEF RxStatusPoll, ScheduleTx
<1>4. CASE ClaimDueTx
    BY <1>4 DEF ClaimDueTx
<1>5. CASE MarkTxStarted
    BY <1>5 DEF MarkTxStarted
<1>6. CASE TxSent
    BY <1>6 DEF TxSent, FreeSlot, Shown, Clock
<1>7. CASE TxAborted
    BY <1>7 DEF TxAborted, FreeSlot, Clock
<1>8. CASE Reset
    BY <1>8 DEF Reset, FreeSlot, Clock
<1>9. CASE Tick
    <2>1. Advance(pressClock) \in Clock /\ Advance(txClock) \in Clock
        BY ClockFacts
    <2> QED
        BY <1>9, <2>1 DEF Tick
<1>10. CASE UNCHANGED vars
    BY <1>10 DEF vars
<1> QED
    BY <1>1, <1>2, <1>3, <1>4, <1>5, <1>6, <1>7, <1>8, <1>9, <1>10 DEF Next

\* The state variables stay in their types.
THEOREM TypeCorrect == Spec => []TypeOK
<1>1. Init => TypeOK
    BY DEF Init, TypeOK, Clock
<1> QED
    BY <1>1, TypeStep, PTL DEF Spec

\* From its claim until it is out, a response is not touched.
THEOREM KeptWhileClaimed == Spec => ClaimedIsKept
<1>1. TypeOK /\ [Next]_vars
        => [(slot \in {"claimed", "started"} /\ slot' # "free")
               => UNCHANGED <<txPress, txPhase>>]_vars
    BY DEF Next, PressButton, RxRequest, RxStatusPoll, ScheduleTx, ClaimDueTx,
           MarkTxStarted, TxSent, TxAborted, FreeSlot, Reset, Tick, vars, slotVars
<1> QED
    BY <1>1, TypeCorrect, PTL DEF Spec, ClaimedIsKept

\* The engine starts in its invariant.
LEMMA InvInit == Init => EngineInv
BY DEF Init, EngineInv, TypeOK, Clock, ShownInv, Unshown

\* EngineInv is inductive, if a status poll gets through more often than a
\* press lasts.
LEMMA InvStep ==
    ASSUME MaxQuiet < PressTicks
    PROVE  EngineInv /\ [Next]_vars => EngineInv'
<1> SUFFICES ASSUME EngineInv, [Next]_vars PROVE EngineInv'
    OBVIOUS
<1> USE DEF EngineInv
<1>0. TypeOK /\ TypeOK'
    BY TypeStep
<1>1. CASE PressButton
    <2>1. ClockInv'
        BY <1>0, <1>1 DEF PressButton, ClockInv, Before, TypeOK, slotVars
    <2>2. ShownInv \/ excused = "yes"
        BY <1>0 DEF TypeOK
    <2>3. excused' = "no" => ShownInv'
        BY <1>0, <1>1, <2>2 DEF PressButton, ShownInv, Unshown, TypeOK, slotVars
    <2> QED
        BY <1>0, <1>1, <2>1, <2>3 DEF PressButton, TypeOK, slotVars
<1>2. CASE RxRequest
    BY <1>0, <1>2 DEF RxRequest, ScheduleTx, ClockInv, ShownInv, Unshown, TypeOK,
                      buttonVars, slotVars
<1>3. CASE RxStatusPoll
    <2>1. active # 0 /\ Reached(pressClock) => ButtonPhase = "release"
        BY DEF ButtonPhase
    <2>2. active # 0 /\ ~Reached(pressClock) => ButtonPhase = "press"
        BY DEF ButtonPhase
    <2>3. active = 0 => ButtonPhase = "idle"
        BY DEF ButtonPhase
    <2>4. active' # 0 => ClockInv'
        BY <1>0, <1>3, <2>1, <2>2, <2>3
        DEF RxStatusPoll, ClockInv, Reached, TypeOK, Clock
    <2>5. excused' = "no" => ShownInv'
        <3>1. CASE ButtonPhase = "press"
            BY <1>0, <1>3, <2>1, <2>2, <2>3, <3>1
            DEF RxStatusPoll, ScheduleTx, ShownInv, Unshown, TypeOK, slotVars
        <3>2. CASE ButtonPhase = "release"
            <4>1. excused = "no" => open = active \/ txPhase = "press"
                BY <1>0, <2>2, <2>3, <3>2
                DEF ShownInv, Unshown, ClockInv, Reached, TypeOK, Clock
            <4> QED
                BY <1>0, <1>3, <3>2, <4>1, <2>2, <2>3
                DEF RxStatusPoll, ScheduleTx, ShownInv, Unshown, TypeOK, slotVars
        <3>3. CASE ButtonPhase = "idle"
            BY <1>0, <1>3, <2>1, <2>2, <3>3
            DEF RxStatusPoll, ScheduleTx, ShownInv, Unshown, TypeOK, slotVars
        <3> QED
            BY <3>1, <3>2, <3>3, PhaseFacts
    <2> QED
        BY <1>0, <1>3, <2>1, <2>2, <2>3, <2>4, <2>5
        DEF RxStatusPoll, ScheduleTx, slotVars, TypeOK
<1>4. CASE ClaimDueTx \/ MarkTxStarted
    BY <1>0, <1>4 DEF ClaimDueTx, MarkTxStarted, ClockInv, ShownInv, Unshown, TypeOK,
                      buttonVars, historyVars
<1>5. CASE TxSent
    <2>1. UNCHANGED <<buttonVars, quiet, presses, age, excused>> /\ slot' = "free"
          /\ txPress' = 0 /\ txPhase' = "idle"
        BY <1>5 DEF TxSent, FreeSlot, Shown
    <2>2. ASSUME excused = "no" PROVE ShownInv'
        <3>1. CASE txPhase = "press"
            BY <1>0, <1>5, <2>1, <2>2, <3>1
            DEF TxSent, Shown, ShownInv, Unshown, TypeOK, buttonVars
        <3>2. CASE txPhase \in {"release", "idle"}
            BY <1>0, <1>5, <2>1, <2>2, <3>2
            DEF TxSent, Shown, ShownInv, Unshown, TypeOK, buttonVars
        <3>3. CASE txPhase = "other"
            BY <1>0, <1>5, <2>1, <2>2, <3>3
            DEF TxSent, Shown, ShownInv, Unshown, TypeOK, buttonVars
        <3> QED
            BY <1>0, <3>1, <3>2, <3>3 DEF TypeOK
    <2> QED
        BY <1>0, <2>1, <2>2 DEF ClockInv, buttonVars
<1>6. CASE TxAborted
    BY <1>0, <1>6 DEF TxAborted, FreeSlot, ClockInv, ShownInv, Unshown, TypeOK, buttonVars
<1>7. CASE Reset
    BY <1>0, <1>7 DEF Reset, FreeSlot
<1>8. CASE Tick
    <2>1. active # 0 => ClockInv'
        BY <1>0, <1>8 DEF Tick, ClockInv, Advance, TypeOK, Clock
    <2>2. excused = "no" => ShownInv'
        BY <1>0, <1>8 DEF Tick, ShownInv, Unshown, TypeOK
    <2> QED
        BY <1>0, <1>8, <2>1, <2>2 DEF Tick
<1>9. CASE UNCHANGED vars
    BY <1>0, <1>9 DEF vars, ClockInv, ShownInv, Unshown, buttonVars, slotVars, historyVars
<1> QED
    BY <1>1, <1>2, <1>3, <1>4, <1>5, <1>6, <1>7, <1>8, <1>9 DEF Next

\* So the invariant holds throughout.
THEOREM InvCorrect ==
    ASSUME MaxQuiet < PressTicks
    PROVE  Spec => []EngineInv
BY InvInit, InvStep, PTL DEF Spec

\* While the drive polls at least once within every press time, it is shown
\* every press first pressed and then released, until a phase is lost.
THEOREM HandshakeCorrect ==
    ASSUME MaxQuiet < PressTicks
    PROVE  Spec => Handshake
<1>1. EngineInv /\ [Next]_vars
        => [TxSent /\ excused = "no" =>
               CASE txPhase = "press"   -> open \in {0, txPress}
                 [] txPhase = "release" -> open = txPress
                 [] txPhase = "idle"    -> open = 0
                 [] OTHER               -> TRUE]_vars
    BY DEF EngineInv, ShownInv, TxSent, TypeOK
<1> QED
    BY <1>1, InvCorrect, PTL DEF Spec, Handshake

\* Under the same assumption no press is shown for longer than it lasts.
THEOREM NeverTooLong ==
    ASSUME MaxQuiet < PressTicks
    PROVE  Spec => PressInTime
<1>1. EngineInv /\ [Next]_vars
        => [RxStatusPoll /\ ButtonPhase = "press" => age < PressTicks]_vars
    BY DEF EngineInv, ClockInv, ButtonPhase, Reached, TypeOK, Clock
<1> QED
    BY <1>1, InvCorrect, PTL DEF Spec, PressInTime
-----------------------------------------------------------------------------
(* The judge of that exchange on the wire: the logic analyser's verifier.  The  *)
(* capture is a sequence of frames; its heads stand in cycles, each cycle's     *)
(* poll and answer are where LaInv says, and what the verifier decodes of a cut *)
(* capture is read off from them, fault by fault.                               *)
HIDE ClockAssumption
HIDE EnvironmentAssumption
HIDE BoundsAssumption


\* A set of numbers that is not empty has a least one.
LEMMA Least ==
    ASSUME NEW ns, ns \subseteq Nat, ns # {}
    PROVE  \E m \in ns : \A k \in ns : m <= k
<1>1. PICK R : R = OpToRel(<, Nat)
  OBVIOUS
<1>2. IsWellFoundedOn(R, Nat)
  BY <1>1, NatLessThanWellFounded
<1>3. PICK m \in ns : \A k \in ns : <<k, m>> \notin R
  BY <1>2, WFMin
<1>4. \A k \in ns : ~(k < m)
  BY <1>1, <1>3 DEF OpToRel
<1> QED BY <1>4

\* A window of the driver enable is high up to its end.
LEMMA WindowFacts ==
    ASSUME NEW s \in Seq(L!Sample), NEW i \in L!Rises(s)
    PROVE  /\ i \in 1..Len(s) /\ s[i].de /\ (i = 1 \/ ~s[i - 1].de)
           /\ L!WindowEnd(s, i) \in i..Len(s)
           /\ \A m \in i..(L!WindowEnd(s, i) - 1) : s[m].de
           /\ L!WindowEnd(s, i) = Len(s) \/ ~s[L!WindowEnd(s, i)].de
<1> PICK n \in Nat : n = Len(s)
  OBVIOUS
<1> PICK lows : lows = {j \in i..n : ~s[j].de}
  OBVIOUS
<1>1. i \in 1..n /\ s[i].de /\ (i = 1 \/ ~s[i - 1].de)
  BY DEF L!Rises
<1>2. L!WindowEnd(s, i) = IF lows = {} THEN n ELSE CHOOSE j \in lows : \A k \in lows : j <= k
  BY DEF L!WindowEnd
<1>3. CASE lows = {}
  BY <1>1, <1>2, <1>3
<1>4. CASE lows # {}
  <2>1. \E j \in lows : \A k \in lows : j <= k
    <3>1. lows \subseteq Nat
      BY <1>1
    <3> QED BY <1>4, <3>1, Least
  <2>2. PICK w : w = L!WindowEnd(s, i)
    OBVIOUS
  <2>3. w \in lows /\ \A k \in lows : w <= k
    BY <1>2, <1>4, <2>1, <2>2
  <2>4. w \in i..n /\ ~s[w].de /\ \A m \in i..(w - 1) : s[m].de
    BY <1>1, <2>3
  <2> QED BY <1>1, <2>2, <2>4
<1> QED BY <1>3, <1>4

\* The end of a window is not before a low sample after its rise.
LEMMA WindowReaches ==
    ASSUME NEW s \in Seq(L!Sample), NEW i \in L!Rises(s), NEW e \in i..Len(s),
           \A m \in i..(e - 1) : s[m].de
    PROVE  L!WindowEnd(s, i) >= e
<1>1. CASE L!WindowEnd(s, i) = Len(s)
  BY <1>1, WindowFacts
<1>2. CASE L!WindowEnd(s, i) # Len(s)
  <2>1. ~s[L!WindowEnd(s, i)].de /\ L!WindowEnd(s, i) \in i..Len(s)
    BY <1>2, WindowFacts
  <2> QED BY <2>1
<1> QED BY <1>1, <1>2

\* A driver that stays on too long fails (analyze_samples).
LEMMA StuckFails ==
    ASSUME NEW s \in Seq(L!Sample), NEW a, NEW i \in L!Rises(s), NEW e \in i..Len(s),
           e - i > MaxDeHigh, MaxDeHigh \in Nat, \A m \in i..e : s[m].de
    PROVE  L!ElectricalFails(s, a)
<1>1. L!WindowEnd(s, i) >= e
  BY WindowReaches
<1>2. i \in Nat /\ L!WindowEnd(s, i) \in Nat
  BY WindowFacts
<1> QED BY <1>1, <1>2 DEF L!ElectricalFails, L!Longer

\* A byte that is sent while the driver is off, and was off, fails.
LEMMA StrayFails ==
    ASSUME NEW s \in Seq(L!Sample), NEW a, NEW t \in 2..Len(s), s[t].tx # L!Idle,
           ~s[t].de, ~s[t - 1].de
    PROVE  L!ElectricalFails(s, a)
<1>1. ASSUME NEW i \in L!Rises(s), t \in L!Window(s, i) PROVE FALSE
  <2>1. i \in 1..Len(s) /\ s[i].de /\ L!WindowEnd(s, i) \in i..Len(s) /\ t \in i..L!WindowEnd(s, i)
    BY <1>1, WindowFacts DEF L!Window
  <2>2. t - 1 \in i..(L!WindowEnd(s, i) - 1)
    BY <2>1
  <2> QED BY <2>2, WindowFacts
<1>2. t \in L!TxOutside(s)
  BY <1>1 DEF L!TxOutside, L!Activity, L!Inside
<1> QED BY <1>2 DEF L!ElectricalFails

\* A driver that is enabled for nothing fails, if anything is sent at all.
LEMMA GhostFails ==
    ASSUME NEW s \in Seq(L!Sample), NEW a, NEW i \in L!Rises(s), i # 1, L!Bytes(s, i) = {},
           L!Activity(s) # {}
    PROVE  L!ElectricalFails(s, a)
<1>1. L!Window(s, i) \cap L!Activity(s) = {}
  BY DEF L!Bytes, L!Activity
<1>2. i \in L!DeWithoutTx(s, a)
  BY <1>1 DEF L!DeWithoutTx
<1> QED BY <1>2 DEF L!ElectricalFails

\* A receiver that stays off away from every window fails.
LEMMA ReceiverFails ==
    ASSUME NEW s \in Seq(L!Sample), NEW a, NEW t \in 1..Len(s), s[t].re, ~s[t].de,
           ReSkew \in Nat,
           \A m \in 1..Len(s) : s[m].de => t < m - ReSkew \/ (m < t /\ t > m + 1 + ReSkew)
    PROVE  L!ElectricalFails(s, a)
<1>1. ASSUME NEW i \in L!Rises(s)
      PROVE  t < i - ReSkew \/ t > L!WindowEnd(s, i) + ReSkew
  <2> PICK w : w = L!WindowEnd(s, i)
    OBVIOUS
  <2>1. /\ i \in 1..Len(s) /\ s[i].de /\ w \in i..Len(s) /\ (\A m \in i..(w - 1) : s[m].de)
    BY WindowFacts
  <2> SUFFICES ASSUME i < t PROVE t > w + ReSkew
    BY <2>1
  <2>2. w <= t
    <3> SUFFICES ASSUME w > t PROVE FALSE
      BY <2>1
    <3>1. t \in i..(w - 1)
      BY <2>1
    <3> QED BY <2>1, <3>1
  <2>3. CASE w = i
    BY <2>1, <2>3
  <2>4. CASE w # i
    <3>1. w - 1 \in i..(w - 1) /\ w - 1 \in 1..Len(s)
      BY <2>1, <2>4
    <3>2. s[w - 1].de
      BY <2>1, <3>1
    <3>3. t < (w - 1) - ReSkew \/ t > (w - 1) + 1 + ReSkew
      BY <3>1, <3>2
    <3> QED BY <2>1, <2>2, <3>3
  <2> QED BY <2>3, <2>4
<1>2. t \in L!ReHighOutside(s)
  BY <1>1 DEF L!ReHighOutside
<1> QED BY <1>2 DEF L!ElectricalFails

\* A byte that is neither a head nor a counter fails its window.
LEMMA BrokenFails ==
    ASSUME NEW s \in Seq(L!Sample), NEW i \in L!Rises(s), NEW t \in L!Bytes(s, i),
           s[t].tx # L!Sof, s[t].tx \notin 1..Counters
    PROVE  L!UartFails(s)
<1>1. ~L!CrcOk(s, i)
  BY DEF L!CrcOk
<1>2. i \in L!Decoded(s)
  BY DEF L!Decoded
<1> QED BY <1>1, <1>2 DEF L!UartFails, L!Statuses

\* A head and a counter are a status, with that counter.
LEMMA AnswerIsStatus ==
    ASSUME NEW s \in Seq(L!Sample), NEW i \in L!Rises(s), NEW h, NEW l,
           h < l, L!Bytes(s, i) = {h, l}, s[h].tx = L!Sof, s[l].tx \in 1..Counters
    PROVE  i \in L!Statuses(s) /\ L!ResponseCounter(s, i) = s[l].tx
<1>1. L!CrcOk(s, i)
  BY DEF L!CrcOk
<1>2. i \in L!Statuses(s)
  BY <1>1 DEF L!Statuses, L!Decoded
<1>3. h \in Int /\ l \in Int
  <2>1. i \in Int /\ L!WindowEnd(s, i) \in Int
    BY WindowFacts
  <2> QED BY <2>1 DEF L!Bytes, L!Window
<1>4. (CHOOSE last \in L!Bytes(s, i) : \A t \in L!Bytes(s, i) : t <= last) = l
  <2> PICK b : b = L!Bytes(s, i)
    OBVIOUS
  <2>1. l \in b /\ \A t \in b : t <= l
    BY <1>3
  <2>2. \A x \in b : (\A t \in b : t <= x) => x = l
    BY <1>3
  <2> QED BY <2>1, <2>2
<1> QED BY <1>2, <1>4 DEF L!ResponseCounter

\* The other way round.
LEMMA StatusIsAnswer ==
    ASSUME NEW s \in Seq(L!Sample), NEW i \in L!Statuses(s)
    PROVE  /\ i \in L!Rises(s)
           /\ \E h, l \in L!Window(s, i) :
                /\ h < l /\ L!Bytes(s, i) = {h, l} /\ s[h].tx = L!Sof /\ s[l].tx \in 1..Counters
                /\ L!ResponseCounter(s, i) = s[l].tx
<1>1. i \in L!Rises(s) /\ L!CrcOk(s, i)
  BY DEF L!Statuses, L!Decoded
<1>2. PICK h, l \in L!Bytes(s, i) :
        h < l /\ L!Bytes(s, i) = {h, l} /\ s[h].tx = L!Sof /\ s[l].tx \in 1..Counters
  BY <1>1 DEF L!CrcOk
<1>3. L!ResponseCounter(s, i) = s[l].tx
  BY <1>1, <1>2, AnswerIsStatus
<1>4. h \in L!Window(s, i) /\ l \in L!Window(s, i)
  BY DEF L!Bytes
<1> QED BY <1>1, <1>2, <1>3, <1>4

\* Two statuses with none between that do not count on fail.
LEMMA GapFails ==
    ASSUME NEW s, NEW i \in L!Statuses(s), NEW j \in L!Statuses(s), i < j,
           \A m \in L!Statuses(s) : m <= i \/ j <= m,
           L!ResponseCounter(s, j) # L!NextCounter(L!ResponseCounter(s, i))
    PROVE  L!UartFails(s)
BY DEF L!UartFails, L!HasGap, L!IsGap

\* Polls without any answer that belongs to one fail.
LEMMA UnansweredFails ==
    ASSUME NEW s, NEW p \in L!StatusPolls(s), NEW a, L!Pairs(s) = {}
    PROVE  L!Verdict(s, a) = "fail"
BY DEF L!Verdict

\* With two counters or more, no counter is its own successor, nor its successor's.
LEMMA CountersDiffer ==
    ASSUME L!LaConstants, NEW c \in 1..Counters
    PROVE  /\ L!NextCounter(c) \in 1..Counters /\ L!NextCounter(c) # c
           /\ L!NextCounter(L!NextCounter(c)) # L!NextCounter(c)
BY DEF L!NextCounter, L!LaConstants

\* A function defined by its value at 0 and a step exists: a least range for which it
\* does not would follow one for which it does.
Recursion(f, n, x, step) ==
    f = [i \in 0..n |-> IF i = 0 THEN x ELSE step[<<i, f[i - 1]>>]]

\* By a least range that had none, a function is there for every range.
LEMMA CanRecurse ==
    ASSUME NEW n \in Nat, NEW x, NEW step
    PROVE  \E f : Recursion(f, n, x, step)
<1> DEFINE Bad == {k \in Nat : ~\E f : Recursion(f, k, x, step)}
<1> SUFFICES ASSUME Bad # {} PROVE FALSE
  OBVIOUS
<1>1. PICK m \in Bad : \A k \in Bad : m <= k
  BY Least
<1>2. CASE m = 0
  <2>1. [i \in 0..0 |-> x] = [i \in 0..0 |-> IF i = 0 THEN x ELSE step[<<i, [k \in 0..0 |-> x][i - 1]>>]]
    OBVIOUS
  <2>2. Recursion([i \in 0..0 |-> x], 0, x, step)
    BY <2>1 DEF Recursion
  <2> QED BY <1>2, <2>2
<1>3. CASE m # 0
  <2>1. m - 1 \in Nat /\ m - 1 \notin Bad
    BY <1>1, <1>3
  <2>2. PICK f : Recursion(f, m - 1, x, step)
    BY <2>1
  <2> PICK g : g = [i \in 0..m |-> IF i < m THEN f[i] ELSE step[<<i, f[i - 1]>>]]
    OBVIOUS
  <2>3. ASSUME NEW i \in 0..m
        PROVE  g[i] = IF i = 0 THEN x ELSE step[<<i, g[i - 1]>>]
    <3>1. CASE i < m
      <4>1. i \in 0..(m - 1) /\ g[i] = f[i]
        BY <3>1
      <4>2. f[i] = IF i = 0 THEN x ELSE step[<<i, f[i - 1]>>]
        BY <2>2, <4>1 DEF Recursion
      <4>3. i # 0 => g[i - 1] = f[i - 1]
        BY <3>1
      <4> QED BY <4>1, <4>2, <4>3
    <3>2. CASE i = m
      <4>1. i - 1 \in 0..m /\ i - 1 < m /\ ~(i < m) /\ i # 0
        BY <1>1, <1>3, <3>2
      <4>2. g[i - 1] = f[i - 1]
        BY <4>1
      <4>3. g[i] = step[<<i, f[i - 1]>>]
        BY <4>1
      <4> QED BY <4>1, <4>2, <4>3
    <3> QED BY <3>1, <3>2
  <2>4. g = [i \in 0..m |-> IF i = 0 THEN x ELSE step[<<i, g[i - 1]>>]]
    BY <2>3, ZenonT(60)
  <2>5. Recursion(g, m, x, step)
    BY <2>4 DEF Recursion
  <2> QED BY <2>5
<1> QED BY <1>2, <1>3

\* Each of its values is a step from the one before it.
LEMMA RecursionAt ==
    ASSUME NEW f, NEW n \in Nat, NEW x, NEW step, Recursion(f, n, x, step), NEW i \in 1..n
    PROVE  f[i] = step[<<i, f[i - 1]>>]
BY DEF Recursion

\* The same, as facts.
Steps(f, n, x, step) ==
    f = [i \in 0..n |-> f[i]] /\ f[0] = x /\ \A i \in 1..n : f[i] = step[<<i, f[i - 1]>>]
\* Such a function is there, with these facts.
LEMMA CanRecur ==
    ASSUME NEW n \in Nat, NEW x, NEW step
    PROVE  \E f : Steps(f, n, x, step)
<1>1. PICK f : Recursion(f, n, x, step)
  BY CanRecurse
<1>2. f[0] = x /\ f = [i \in 0..n |-> f[i]]
  BY <1>1 DEF Recursion
<1>3. Steps(f, n, x, step)
  BY <1>1, <1>2, RecursionAt DEF Steps
<1> QED BY <1>3

\* What the buffer holds after each byte.
LEMMA BufferFacts ==
    ASSUME NEW s \in Seq(L!Sample)
    PROVE  /\ L!Buffered(s)[0] = 0
           /\ \A i \in 1..Len(s) : L!Buffered(s)[i] = L!AddByte(L!Buffered(s)[i - 1], s[i].rx)
<1> PICK n \in Nat : n = Len(s)
  OBVIOUS
<1> DEFINE Is(b) == b = [i \in 0..Len(s) |-> IF i = 0 THEN 0 ELSE L!AddByte(b[i - 1], s[i].rx)]
<1>1. \E b : Is(b)
  <2> PICK step : step = [p \in (1..n) \X {0, 1} |-> L!AddByte(p[2], s[p[1]].rx)]
    OBVIOUS
  <2>1. PICK f : Steps(f, n, 0, step)
    BY CanRecur
  <2>2. ASSUME NEW i \in 1..n, f[i - 1] \in {0, 1}
        PROVE  f[i] = L!AddByte(f[i - 1], s[i].rx) /\ f[i] \in {0, 1}
    <3>1. f[i] = step[<<i, f[i - 1]>>]
      BY <2>1 DEF Steps
    <3>2. <<i, f[i - 1]>> \in (1..n) \X {0, 1}
      BY <2>2
    <3>3. step[<<i, f[i - 1]>>] = L!AddByte(f[i - 1], s[i].rx)
      BY <3>2
    <3>4. L!AddByte(f[i - 1], s[i].rx) \in {0, 1}
      BY <2>2 DEF L!AddByte
    <3> QED BY <3>1, <3>3, <3>4
  <2>3. f[0] = 0
    BY <2>1 DEF Steps
  <2>4. \A i \in 0..n : f[i] \in {0, 1}
    <3> DEFINE Bad == {k \in 0..n : f[k] \notin {0, 1}}
    <3> SUFFICES ASSUME Bad # {} PROVE FALSE
      OBVIOUS
    <3>1. PICK m \in Bad : \A k \in Bad : m <= k
      <4>1. Bad \subseteq Nat
        OBVIOUS
      <4> QED BY <4>1, Least
    <3>2. m # 0
      BY <2>3
    <3>3. m - 1 \in 0..n /\ m - 1 \notin Bad /\ m \in 1..n
      BY <3>1, <3>2
    <3> QED BY <2>2, <3>3
  <2>5. \A i \in 0..n : f[i] = IF i = 0 THEN 0 ELSE L!AddByte(f[i - 1], s[i].rx)
    <3> TAKE i \in 0..n
    <3>1. CASE i = 0
      BY <2>3, <3>1
    <3>2. CASE i # 0
      <4>1. i \in 1..n /\ i - 1 \in 0..n
        BY <3>2
      <4> QED BY <2>2, <2>4, <3>2, <4>1
    <3> QED BY <3>1, <3>2
  <2>6. f = [i \in 0..n |-> f[i]]
    BY <2>1 DEF Steps
  <2>7. f = [i \in 0..n |-> IF i = 0 THEN 0 ELSE L!AddByte(f[i - 1], s[i].rx)]
    BY <2>5, <2>6, ZenonT(60)
  <2>8. Is(f)
    BY <2>7
  <2> QED BY <2>8
<1>2. Is(CHOOSE b : Is(b))
  <2> HIDE DEF Is
  <2> QED BY <1>1, Zenon
<1>3. Is(L!Buffered(s))
  BY <1>2, Zenon DEF L!Buffered
<1> QED BY <1>3

\* The polls without an answer after each sample.
LEMMA PendingFacts ==
    ASSUME NEW s \in Seq(L!Sample)
    PROVE  /\ L!Pending(s)[0] = L!StatusPolls(s)
           /\ \A t \in 1..Len(s) : L!Pending(s)[t] =
                IF t \in L!Statuses(s) THEN L!Remaining(s, L!Pending(s)[t - 1], t)
                ELSE L!Pending(s)[t - 1]
<1> PICK n \in Nat : n = Len(s)
  OBVIOUS
<1> DEFINE Is(b) == b = [t \in 0..Len(s) |->
        IF t = 0 THEN L!StatusPolls(s)
        ELSE IF t \in L!Statuses(s) THEN L!Remaining(s, b[t - 1], t) ELSE b[t - 1]]
<1>1. \E b : Is(b)
  <2> PICK P : P = L!StatusPolls(s)
    OBVIOUS
  <2> PICK R : R = L!Statuses(s)
    OBVIOUS
  <2> PICK step : step = [p \in (1..n) \X SUBSET P |->
                            IF p[1] \in R THEN L!Remaining(s, p[2], p[1]) ELSE p[2]]
    OBVIOUS
  <2>1. PICK f : Steps(f, n, P, step)
    BY CanRecur
  <2>2. ASSUME NEW i \in 1..n, f[i - 1] \in SUBSET P
        PROVE  /\ f[i] = IF i \in R THEN L!Remaining(s, f[i - 1], i) ELSE f[i - 1]
               /\ f[i] \in SUBSET P
    <3>1. f[i] = step[<<i, f[i - 1]>>]
      BY <2>1 DEF Steps
    <3>2. <<i, f[i - 1]>> \in (1..n) \X SUBSET P
      BY <2>2
    <3>3. step[<<i, f[i - 1]>>] = IF i \in R THEN L!Remaining(s, f[i - 1], i) ELSE f[i - 1]
      BY <3>2
    <3>4. L!Remaining(s, f[i - 1], i) \in SUBSET P
      BY <2>2 DEF L!Remaining
    <3> QED BY <2>2, <3>1, <3>3, <3>4
  <2>3. f[0] = P
    BY <2>1 DEF Steps
  <2>4. \A i \in 0..n : f[i] \in SUBSET P
    <3> DEFINE Bad == {k \in 0..n : f[k] \notin SUBSET P}
    <3> SUFFICES ASSUME Bad # {} PROVE FALSE
      OBVIOUS
    <3>1. PICK m \in Bad : \A k \in Bad : m <= k
      <4>1. Bad \subseteq Nat
        OBVIOUS
      <4> QED BY <4>1, Least
    <3>2. m # 0
      BY <2>3
    <3>3. m - 1 \in 0..n /\ m - 1 \notin Bad /\ m \in 1..n
      BY <3>1, <3>2
    <3> QED BY <2>2, <3>3
  <2>5. \A t \in 0..n : f[t] = IF t = 0 THEN P
                ELSE IF t \in R THEN L!Remaining(s, f[t - 1], t) ELSE f[t - 1]
    <3> TAKE t \in 0..n
    <3>1. CASE t = 0
      BY <2>3, <3>1
    <3>2. CASE t # 0
      <4>1. t \in 1..n /\ t - 1 \in 0..n
        BY <3>2
      <4> QED BY <2>2, <2>4, <3>2, <4>1
    <3> QED BY <3>1, <3>2
  <2>6. f = [i \in 0..n |-> f[i]]
    BY <2>1 DEF Steps
  <2>7. f = [t \in 0..n |-> IF t = 0 THEN P
                ELSE IF t \in R THEN L!Remaining(s, f[t - 1], t) ELSE f[t - 1]]
    BY <2>5, <2>6, ZenonT(60)
  <2>8. Is(f)
    BY <2>7
  <2> QED BY <2>8
<1>2. Is(CHOOSE b : Is(b))
  <2> HIDE DEF Is
  <2> QED BY <1>1, Zenon
<1>3. Is(L!Pending(s))
  BY <1>2, Zenon DEF L!Pending
<1> QED BY <1>3, SMTT(60)

\* The bytes of the master come in pairs, a head and what follows it, but for a first
\* one cut off from its head.
Paired(s) == \A i \in 1..Len(s) :
    /\ s[i].rx = L!Sof /\ i < Len(s) => s[i + 1].rx \notin {L!Idle, L!Sof}
    /\ s[i].rx \notin {L!Idle, L!Sof} /\ i > 1 => s[i - 1].rx = L!Sof

\* So the polls that are decoded are the counters that follow a head.
LEMMA PollsAre ==
    ASSUME NEW s \in Seq(L!Sample), Paired(s)
    PROVE  L!StatusPolls(s) = {i \in 2..Len(s) : s[i - 1].rx = L!Sof /\ s[i].rx \in 1..Counters}
<1> PICK n \in Nat : n = Len(s)
  OBVIOUS
<1> PICK b : b = L!Buffered(s)
  OBVIOUS
<1>1. b[0] = 0 /\ \A i \in 1..n : b[i] = L!AddByte(b[i - 1], s[i].rx)
  BY BufferFacts
<1> DEFINE Bad == {i \in 1..n : b[i] # IF s[i].rx = L!Sof THEN 1 ELSE 0}
<1>2. Bad = {}
  <2> SUFFICES ASSUME Bad # {} PROVE FALSE
    OBVIOUS
  <2>1. PICK m \in Bad : \A k \in Bad : m <= k
    <3>1. Bad \subseteq Nat
      OBVIOUS
    <3> QED BY <3>1, Least
  <2>2. b[m] = L!AddByte(b[m - 1], s[m].rx)
    BY <1>1
  <2>3. CASE m = 1
    BY <1>1, <2>1, <2>2, <2>3 DEF L!AddByte, L!Sof, L!Idle
  <2>4. CASE m # 1
    <3>1. m - 1 \in 1..n /\ m - 1 \notin Bad /\ m > 1
      BY <2>1, <2>4
    <3>2. b[m - 1] = IF s[m - 1].rx = L!Sof THEN 1 ELSE 0
      BY <3>1
    <3>3. CASE s[m - 1].rx = L!Sof
      <4>1. s[m].rx \notin {L!Idle, L!Sof}
        BY <3>1, <3>3 DEF Paired
      <4> QED BY <2>1, <2>2, <3>2, <3>3, <4>1 DEF L!AddByte
    <3>4. CASE s[m - 1].rx # L!Sof
      <4>1. s[m].rx \in {L!Idle, L!Sof}
        BY <3>1, <3>4 DEF Paired
      <4> QED BY <2>1, <2>2, <3>2, <3>4, <4>1 DEF L!AddByte, L!Sof, L!Idle
    <3> QED BY <3>3, <3>4
  <2> QED BY <2>3, <2>4
<1>3. L!StatusPolls(s) = {i \in 1..n : s[i].rx \in 1..Counters /\ b[i - 1] = 1}
  BY DEF L!StatusPolls
<1>4. ASSUME NEW i \in 1..n
      PROVE  b[i - 1] = 1 <=> i \in 2..n /\ s[i - 1].rx = L!Sof
  <2>1. CASE i = 1
    BY <1>1, <2>1
  <2>2. CASE i # 1
    <3>1. i - 1 \in 1..n /\ i \in 2..n
      BY <2>2
    <3>2. b[i - 1] = IF s[i - 1].rx = L!Sof THEN 1 ELSE 0
      BY <1>2, <3>1
    <3> QED BY <3>1, <3>2
  <2> QED BY <2>1, <2>2
<1> QED BY <1>3, <1>4

\* A poll and the status it belongs to: the last poll that had ended, with its counter.
Regular(s, p, t) ==
    /\ p \in L!StatusPolls(s) /\ p + 1 <= t /\ s[p].rx = L!ResponseCounter(s, t)
    /\ \A q \in L!StatusPolls(s) : q + 1 <= t => q <= p
Orderly(s) ==
    /\ \A t, u \in L!Statuses(s) : \A p : Regular(s, p, t) /\ Regular(s, p, u) => t = u
    /\ \A t \in L!Statuses(s) :
          \/ \E p : Regular(s, p, t)
          \/ \A p \in L!StatusPolls(s) : p + 1 <= t /\ s[p].rx = L!ResponseCounter(s, t)
                => \E u \in L!Statuses(s) : u < t /\ Regular(s, p, u)

\* The polls that have no answer yet are those whose status has not come.
Unmet(s, t) == {p \in L!StatusPolls(s) : ~\E u \in L!Statuses(s) : u <= t /\ Regular(s, p, u)}

\* What a status is matched with, when the polls before it are as they should be.
LEMMA MatchedIs ==
    ASSUME NEW s \in Seq(L!Sample), Orderly(s), NEW t \in L!Statuses(s), t \in 1..Len(s)
    PROVE  /\ \A p : Regular(s, p, t) =>
                 /\ L!Eligible(s, Unmet(s, t - 1), t) # {}
                 /\ L!Match(L!Eligible(s, Unmet(s, t - 1), t)) = p
           /\ (~\E p : Regular(s, p, t)) => L!Eligible(s, Unmet(s, t - 1), t) = {}
<1> PICK E : E = L!Eligible(s, Unmet(s, t - 1), t)
  OBVIOUS
<1>0. L!StatusPolls(s) \subseteq Int /\ L!Statuses(s) \subseteq Int
  BY DEF L!StatusPolls, L!Statuses, L!Decoded, L!Rises
<1>1. E = {p \in Unmet(s, t - 1) : s[p].rx = L!ResponseCounter(s, t) /\ p + 1 <= t}
  BY DEF L!Eligible
<1>2. ASSUME NEW p, Regular(s, p, t) PROVE E # {} /\ L!Match(E) = p
  <2>1. p \in L!StatusPolls(s) /\ p + 1 <= t /\ s[p].rx = L!ResponseCounter(s, t)
    BY <1>2 DEF Regular
  <2>2. ASSUME NEW u \in L!Statuses(s), u <= t - 1, Regular(s, p, u) PROVE FALSE
    <3>1. u = t
      BY <1>2, <2>2 DEF Orderly
    <3> QED BY <1>0, <2>2, <3>1
  <2>3. p \in E
    BY <1>1, <2>1, <2>2 DEF Unmet
  <2>4. \A q \in E : q <= p
    BY <1>1, <1>2 DEF Unmet, Regular
  <2>5. \A q \in E : (\A r \in E : r <= q) => q = p
    <3>1. E \subseteq Int
      BY <1>0, <1>1 DEF Unmet
    <3> QED BY <2>3, <2>4, <3>1
  <2> QED BY <2>3, <2>4, <2>5 DEF L!Match
<1>3. ASSUME ~\E p : Regular(s, p, t), NEW q \in E PROVE FALSE
  <2>1. q \in L!StatusPolls(s) /\ q \in Unmet(s, t - 1) /\ q + 1 <= t
        /\ s[q].rx = L!ResponseCounter(s, t)
    BY <1>1 DEF Unmet
  <2>2. PICK u \in L!Statuses(s) : u < t /\ Regular(s, q, u)
    BY <1>3, <2>1 DEF Orderly
  <2>3. u <= t - 1
    BY <1>0, <2>2
  <2> QED BY <2>1, <2>2, <2>3 DEF Unmet
<1> QED BY <1>2, <1>3

\* So a status takes its own poll and no other, one after the other.
LEMMA PendingIs ==
    ASSUME NEW s \in Seq(L!Sample), Orderly(s), NEW t \in 0..Len(s)
    PROVE  L!Pending(s)[t] = Unmet(s, t)
<1> PICK n \in Nat : n = Len(s)
  OBVIOUS
<1>0. L!Statuses(s) \subseteq 1..n
  BY DEF L!Statuses, L!Decoded, L!Rises
<1> DEFINE Bad == {k \in 0..n : L!Pending(s)[k] # Unmet(s, k)}
<1> SUFFICES ASSUME Bad # {} PROVE FALSE
  OBVIOUS
<1>1. PICK m \in Bad : \A k \in Bad : m <= k
  <2>1. Bad \subseteq Nat
    OBVIOUS
  <2> QED BY <2>1, Least
<1>2. CASE m = 0
  <2>1. Unmet(s, 0) = L!StatusPolls(s)
    BY <1>0 DEF Unmet
  <2> QED BY <1>2, <2>1, PendingFacts
<1>3. CASE m # 0
  <2>1. m - 1 \in 0..n /\ m - 1 \notin Bad /\ m \in 1..n
    BY <1>1, <1>3
  <2>2. L!Pending(s)[m - 1] = Unmet(s, m - 1)
    BY <2>1
  <2>3. L!Pending(s)[m] = IF m \in L!Statuses(s) THEN L!Remaining(s, Unmet(s, m - 1), m)
                          ELSE Unmet(s, m - 1)
    BY <2>1, <2>2, PendingFacts
  <2>4. \A u \in L!Statuses(s) : u <= m <=> u <= m - 1 \/ u = m
    BY <1>0
  <2>5. Unmet(s, m) = IF m \in L!Statuses(s) THEN {p \in Unmet(s, m - 1) : ~Regular(s, p, m)}
                      ELSE Unmet(s, m - 1)
    BY <2>4 DEF Unmet
  <2>6. CASE m \notin L!Statuses(s)
    BY <2>3, <2>5, <2>6
  <2>7. CASE m \in L!Statuses(s)
    <3> PICK E : E = L!Eligible(s, Unmet(s, m - 1), m)
      OBVIOUS
    <3>1. L!Pending(s)[m] = IF E = {} THEN Unmet(s, m - 1) ELSE Unmet(s, m - 1) \ {L!Match(E)}
      BY <2>3, <2>7 DEF L!Remaining
    <3>2. CASE \E p : Regular(s, p, m)
      <4>1. PICK p : Regular(s, p, m)
        BY <3>2
      <4>2. E # {} /\ L!Match(E) = p
        BY <2>1, <2>7, <4>1, MatchedIs
      <4>3. \A q : Regular(s, q, m) => q = p
        BY <2>1, <2>7, MatchedIs, <4>2
      <4> QED BY <1>1, <2>5, <2>7, <3>1, <4>1, <4>2, <4>3
    <3>3. CASE ~\E p : Regular(s, p, m)
      <4>1. E = {}
        BY <2>1, <2>7, <3>3, MatchedIs
      <4> QED BY <1>1, <2>5, <2>7, <3>1, <3>3, <4>1
    <3> QED BY <3>2, <3>3
  <2> QED BY <2>6, <2>7
<1> QED BY <1>2, <1>3

\* The pairs reported are each status with its own poll.
LEMMA PairsAre ==
    ASSUME NEW s \in Seq(L!Sample), Orderly(s), NEW x \in L!Pairs(s)
    PROVE  \E t \in L!Statuses(s), p \in L!StatusPolls(s) : Regular(s, p, t) /\ x = <<p + 1, t>>
<1> PICK n \in Nat : n = Len(s)
  OBVIOUS
<1>0. L!Statuses(s) \subseteq 1..n
  BY DEF L!Statuses, L!Decoded, L!Rises
<1> DEFINE E(t) == L!Eligible(s, L!Pending(s)[t - 1], t)
<1>1. PICK t \in L!Statuses(s) : E(t) # {} /\ x = <<L!Match(E(t)) + 1, t>>
  BY DEF L!Pairs
<1>2. t \in 1..n /\ t - 1 \in 0..n
  BY <1>0
<1>3. E(t) = L!Eligible(s, Unmet(s, t - 1), t)
  BY <1>2, PendingIs
<1>4. PICK p : Regular(s, p, t)
  BY <1>1, <1>2, <1>3, MatchedIs
<1>5. L!Match(E(t)) = p
  BY <1>2, <1>3, <1>4, MatchedIs
<1>6. p \in L!StatusPolls(s)
  BY <1>4 DEF Regular
<1> QED BY <1>1, <1>4, <1>5, <1>6

-----------------------------------------------------------------------------
\* The bus, as it is and as the accessory is about to drive it.
Driven == [de : BOOLEAN, re : BOOLEAN, tx : L!Symbols]
Out(i) ==
    IF i <= Len(laCap) THEN [de |-> laCap[i].de, re |-> laCap[i].re, tx |-> laCap[i].tx]
    ELSE IF i - Len(laCap) <= Len(laPlay) THEN laPlay[i - Len(laCap)] ELSE L!Quiet
Line == [i \in Nat \ {0} |-> Out(i)]

\* A poll is named by its head; it has a block of Cycle samples.
HeadsOf(c) == {h \in 1..Len(c) : c[h].rx = L!Sof}
Heads == HeadsOf(laCap)
PolledOf(c) == {h \in HeadsOf(c) : h + 1 <= Len(c)}
Block(h) == h..(h + Cycle - 1)
\* The block in which something went wrong (f is the fault).
Wrongs(f, h) == f.from = h + 1
\* The counter the master meant to send.
Meant(c, f, h) == IF Wrongs(f, h) THEN f.counter ELSE c[h + 1].rx
Preceding(b) == IF b = 1 THEN Counters ELSE b - 1

\* On the line o the driver is on from a to z in the block, and off otherwise.
On(o, h, a, z) == \A i \in Block(h) : o[i].de <=> i \in a..z
\* It is on from a on, for a head, the byte b and m samples more.
Sends(o, h, a, m, b) ==
    /\ On(o, h, a, a + 2 + m)
    /\ o[a].tx = L!Idle /\ o[a + 1].tx = L!Sof /\ o[a + 2].tx = b
    /\ \A i \in (a + 3)..(a + 3 + m) : o[i].tx = L!Idle
Gives(o, tr, h, a, m, b) == Sends(o, h, a, m, b) /\ <<h + 2, a>> \in tr

\* What the block of the counter b looks like.
Sound(o, tr, h, b) ==
    b \in 1..Counters /\ \E late \in 0..1 : Gives(o, tr, h, h + 2 + late, 0, b)
Unsound(o, tr, f, h, b) ==
    /\ b = IF f.kind = "poll" THEN L!Broken ELSE f.counter
    /\ f.kind \notin {"silent", "poll"} => f.to >= h + 4
    /\ f.kind \in {"silent", "poll"} => \A i \in Block(h) : ~o[i].de
    /\ f.kind = "crc" => Sends(o, h, h + 3, 0, L!Broken)
    /\ f.kind = "parity" => Sends(o, h, h + 3, 0, L!Parity)
    /\ f.kind = "stuck" => Gives(o, tr, h, h + 2, MaxDeHigh, b)
    /\ f.kind = "early" => On(o, h, h + 4, h + 4) /\ o[h + 3].tx = L!Sof /\ o[h + 5].tx = L!Idle
    /\ f.kind = "stray" => Gives(o, tr, h, h + 4, 0, b) /\ o[h + 2].tx = L!Sof
    /\ f.kind = "ghost" => On(o, h, h + 3, h + 4) /\ \A i \in (h + 3)..(h + 5) : o[i].tx = L!Idle
    /\ f.kind = "re" => Gives(o, tr, h, h + 2, 0, b) /\ o[h + 6 + ReSkew].re
                        /\ f.to >= h + 6 + ReSkew
    /\ f.kind = "stale" => Sends(o, h, h + 3, 0, Preceding(b))
    /\ f.kind = "repeat" => Gives(o, tr, h, h + 2, 0, b)
BlockIs(o, tr, f, h, b) == IF Wrongs(f, h) THEN Unsound(o, tr, f, h, b) ELSE Sound(o, tr, h, b)
Blocks(c, o, tr, f) == \A h \in PolledOf(c) : BlockIs(o, tr, f, h, c[h + 1].rx)

\* Where the polls are: a block long each, one after the other, from the first sample.
Base == Len(laCap) - L!Phase
Spaced ==
    /\ \A h \in Heads : h <= Base + 1 /\ (h <= Base => h + Cycle <= Base + 1)
    /\ L!Phase >= 1 => Base + 1 \in Heads
    /\ Base > 0 => Base + 1 - Cycle \in Heads
    /\ \A g, h \in Heads : g < h => g + Cycle <= h
    /\ \A h \in Heads : h = 1 \/ h - Cycle \in Heads
    /\ \A i \in 1..Len(laCap) : \E h \in Heads : i \in Block(h)
\* What the master sends.
Framed(c) ==
    /\ \A i \in 1..Len(c) : c[i].rx \notin {L!Idle, L!Sof} => i > 1 /\ c[i - 1].rx = L!Sof
    /\ \A h \in PolledOf(c) : c[h + 1].rx \in 1..Counters \cup {L!Broken}
InSequence(c, f) ==
    /\ \A h \in PolledOf(c) : Meant(c, f, h) \in 1..Counters
    /\ \A g, h \in PolledOf(c) : h = g + Cycle =>
          Meant(c, f, h) = IF Wrongs(f, h) /\ f.kind = "repeat" THEN Meant(c, f, g)
                           ELSE L!NextCounter(Meant(c, f, g))
LastIs(c, f, k) ==
    \A h \in PolledOf(c) : (\A g \in PolledOf(c) : g <= h) => k = Meant(c, f, h)
\* A head is sent while the accessory is silent.
Hushed(c) == \A h \in HeadsOf(c) : ~c[h].de
\* The answers on record are answers to polls.
Traced(c, tr) == \A x \in tr : \E h \in PolledOf(c), late \in 0..2 : x = <<h + 2, h + 2 + late>>

FaultKinds == L!Kinds \cup {"poll", "repeat"}
LaTypes ==
    /\ laCap \in Seq(L!Sample) /\ laPlay \in Seq(Driven) /\ laCounter \in 1..Counters
    /\ laFault \in [kind : FaultKinds \cup {"none"}, from : Nat, to : Nat, counter : 0..Counters]
    /\ laFault.kind = "none" <=> laFault = L!NoFault
    /\ laFault # L!NoFault => laFault.from - 1 \in PolledOf(laCap) /\ laFault.to >= laFault.from
    /\ L!Phase \in {0, 1} => laPlay = << >>
    /\ L!Phase >= 2 => Len(laPlay) + L!Phase <= Cycle
LaInv ==
    /\ LaTypes /\ Spaced /\ Framed(laCap) /\ InSequence(laCap, laFault)
    /\ LastIs(laCap, laFault, laCounter) /\ Hushed(laCap) /\ Traced(laCap, laTruth)
    /\ Blocks(laCap, Line, laTruth, laFault)

\* What the constants must be, as numbers.
LEMMA LaNumbers ==
    /\ Cycle \in Nat /\ Cycle >= 7 /\ ReSkew \in Nat /\ MaxDeHigh \in Nat /\ MaxDeHigh >= 1
    /\ Cycle >= MaxDeHigh + ReSkew + 5 /\ Cycle >= 2 * ReSkew + 7 /\ Counters \in Nat
    /\ Counters >= 2 /\ Polls \in Nat /\ MaxIgnore \in Nat
BY AnalyserConstants DEF L!LaConstants

\* Counting on to the next sample.
LEMMA Divided ==
    ASSUME NEW c \in Nat \ {0}, NEW n \in Nat
    PROVE  n = c * (n \div c) + (n % c) /\ n \div c \in Nat /\ n % c \in 0..(c - 1)
OBVIOUS

\* The rest of a division is one number.
LEMMA RestIsOne ==
    ASSUME NEW c \in Nat \ {0}, NEW q \in Int, NEW p \in Int,
           NEW r \in 0..(c - 1), NEW t \in 0..(c - 1), c * q + r = c * p + t
    PROVE  r = t
<1>1. c * (q - p) = t - r
  OBVIOUS
<1>2. ~(q - p >= 1)
  <2> SUFFICES ASSUME q - p >= 1 PROVE FALSE
    OBVIOUS
  <2>1. c * (q - p) >= c * 1
    OBVIOUS
  <2> QED BY <1>1, <2>1
<1>3. ~(p - q >= 1)
  <2> SUFFICES ASSUME p - q >= 1 PROVE FALSE
    OBVIOUS
  <2>1. c * (p - q) >= c * 1
    OBVIOUS
  <2>2. c * (p - q) = r - t
    OBVIOUS
  <2> QED BY <2>1, <2>2
<1>4. q = p
  BY <1>2, <1>3
<1> QED BY <1>4

\* The rest of the next number.
LEMMA NextRest ==
    ASSUME NEW c \in Nat \ {0}, NEW n \in Nat
    PROVE  (n + 1) % c = IF n % c = c - 1 THEN 0 ELSE (n % c) + 1
<1> PICK q \in Nat : q = n \div c
  OBVIOUS
<1> PICK r \in 0..(c - 1) : r = n % c
  OBVIOUS
<1> PICK p \in Nat : p = (n + 1) \div c
  OBVIOUS
<1> PICK t \in 0..(c - 1) : t = (n + 1) % c
  OBVIOUS
<1>1. n = c * q + r /\ n + 1 = c * p + t
  BY Divided
<1>2. CASE r = c - 1
  <2> PICK u \in Int : u = q + 1
    OBVIOUS
  <2> PICK o \in 0..(c - 1) : o = 0
    OBVIOUS
  <2>1. c * u = c * q + c
    OBVIOUS
  <2>2. c * u + o = c * p + t
    BY <1>1, <1>2, <2>1
  <2>3. o = t
    BY <2>2, RestIsOne, SMTT(60)
  <2> QED BY <1>2, <2>3
<1>3. CASE r # c - 1
  <2>1. c * q + (r + 1) = c * p + t
    BY <1>1
  <2> PICK v \in 0..(c - 1) : v = r + 1
    BY <1>3
  <2>2. v = t
    BY <2>1, RestIsOne
  <2> QED BY <1>3, <2>2
<1> QED BY <1>2, <1>3

\* One more sample: how the capture, the phase and the base go on.
LEMMA OneMore ==
    ASSUME laCap \in Seq(L!Sample), NEW v \in L!Sample, laCap' = Append(laCap, v)
    PROVE  /\ Len(laCap) \in Nat /\ Len(laCap') = Len(laCap) + 1 /\ laCap' \in Seq(L!Sample)
           /\ laCap'[Len(laCap) + 1] = v /\ \A i \in 1..Len(laCap) : laCap'[i] = laCap[i]
           /\ L!Phase \in 0..(Cycle - 1) /\ Base \in 0..Len(laCap)
           /\ L!Phase' = IF L!Phase = Cycle - 1 THEN 0 ELSE L!Phase + 1
           /\ Base' = IF L!Phase = Cycle - 1 THEN Base + Cycle ELSE Base
<1> PICK n \in Nat : n = Len(laCap)
  OBVIOUS
<1>1. /\ Len(laCap') = n + 1 /\ laCap' \in Seq(L!Sample)
      /\ laCap'[n + 1] = v /\ \A i \in 1..n : laCap'[i] = laCap[i]
  OBVIOUS
<1>2. L!Phase = n % Cycle /\ L!Phase' = (n + 1) % Cycle
  BY <1>1 DEF L!Phase
<1>3. Cycle \in Nat \ {0}
  BY LaNumbers
<1>4. /\ L!Phase \in 0..(Cycle - 1)
      /\ L!Phase' = IF L!Phase = Cycle - 1 THEN 0 ELSE L!Phase + 1
  BY <1>2, <1>3, Divided, NextRest
<1>5. n = Cycle * (n \div Cycle) + (n % Cycle) /\ n \div Cycle \in Nat
  BY <1>3, Divided
<1>6. L!Phase <= n
  <2> PICK q \in Nat : q = n \div Cycle
    BY <1>5
  <2> PICK r \in Nat : r = n % Cycle
    BY <1>2, <1>4
  <2>1. Cycle * q \in Nat /\ n = Cycle * q + r
    BY <1>3, <1>5
  <2> QED BY <1>2, <2>1, SMTT(60)
<1> QED BY <1>1, <1>3, <1>4, <1>6 DEF Base

\* A head that is a cycle from the last poll's stays so with one poll more.
LEMMA FurtherOn ==
    ASSUME Cycle \in Nat, Cycle >= 7, NEW n \in Nat, NEW b \in 0..n, NEW d \in Nat,
           NEW h \in 1..n, h <= b + 1, h <= b => h + Cycle <= b + 1, d = b \/ d = b + Cycle
    PROVE  h <= d + 1 /\ (h <= d => h + Cycle <= d + 1)
OBVIOUS

\* The heads stay a cycle apart.
LEMMA SpacedStep ==
    ASSUME laCap \in Seq(L!Sample), Spaced, NEW v \in L!Sample, laCap' = Append(laCap, v),
           v.rx = L!Sof <=> L!Phase = 0
    PROVE  Spaced'
<1> PICK n \in Nat : n = Len(laCap)
  OBVIOUS
<1> PICK p \in 0..(Cycle - 1) : p = L!Phase
  BY OneMore
<1> PICK b \in 0..n : b = Base
  BY OneMore
<1> PICK H : H = Heads
  OBVIOUS
<1>1. /\ Len(laCap') = n + 1 /\ laCap'[n + 1] = v /\ \A i \in 1..n : laCap'[i] = laCap[i]
      /\ L!Phase' = IF p = Cycle - 1 THEN 0 ELSE p + 1
      /\ Base' = IF p = Cycle - 1 THEN b + Cycle ELSE b
  BY OneMore
<1>2. n = b + p /\ Cycle \in Nat /\ Cycle >= 7
  BY LaNumbers DEF Base
<1>3. Heads' = IF p = 0 THEN H \cup {n + 1} ELSE H
  BY <1>1 DEF Heads, HeadsOf
<1>4. H \subseteq 1..n
  BY DEF Heads, HeadsOf
<1>5. /\ \A h \in H : h <= b + 1 /\ (h <= b => h + Cycle <= b + 1)
      /\ p >= 1 => b + 1 \in H
      /\ b > 0 => b + 1 - Cycle \in H
      /\ \A g, h \in H : g < h => g + Cycle <= h
      /\ \A h \in H : h = 1 \/ h - Cycle \in H
      /\ \A i \in 1..n : \E h \in H : i \in Block(h)
  BY DEF Spaced
<1>6. CASE p = 0
  <2>1. Heads' = H \cup {n + 1} /\ n = b /\ Base' = b /\ L!Phase' = 1
    BY <1>1, <1>2, <1>3, <1>6
  <2>2. \A h \in Heads' : h <= b + 1 /\ (h <= b => h + Cycle <= b + 1)
    BY <1>2, <1>4, <1>5, <2>1
  <2>3. b > 0 => b + 1 - Cycle \in Heads'
    BY <1>5, <2>1
  <2>4. \A g, h \in Heads' : g < h => g + Cycle <= h
    <3>1. \A g \in H : g <= n /\ g + Cycle <= n + 1
      BY <1>2, <1>4, <1>5, <2>1
    <3> TAKE g, h \in Heads'
    <3>2. CASE g \in H /\ h \in H
      BY <1>5, <3>2
    <3>3. CASE g \in H /\ h = n + 1
      BY <3>1, <3>3
    <3>4. CASE g = n + 1
      <4>1. h <= n + 1
        BY <1>4, <2>1
      <4> QED BY <1>4, <2>1, <3>4, <4>1
    <3> QED BY <2>1, <3>2, <3>3, <3>4
  <2>5. \A h \in Heads' : h = 1 \/ h - Cycle \in Heads'
    BY <1>2, <1>4, <1>5, <2>1
  <2>6. \A i \in 1..(n + 1) : \E h \in Heads' : i \in Block(h)
    <3>1. n + 1 \in Block(n + 1)
      BY <1>2 DEF Block
    <3>2. \A i \in 1..(n + 1) : i \in 1..n \/ i = n + 1
      OBVIOUS
    <3> QED BY <1>5, <2>1, <3>1, <3>2
  <2> QED BY <1>1, <2>1, <2>2, <2>3, <2>4, <2>5, <2>6 DEF Spaced, Block
<1>7. CASE p # 0
  <2>1. Heads' = H /\ b + 1 \in H
    BY <1>3, <1>5, <1>7
  <2> PICK d \in Nat : d = Base'
    BY <1>1, <1>2
  <2>2. \A h \in H : h <= d + 1 /\ (h <= d => h + Cycle <= d + 1)
    <3> TAKE h \in H
    <3>1. h \in 1..n /\ h <= b + 1 /\ (h <= b => h + Cycle <= b + 1)
      BY <1>4, <1>5
    <3>2. d = b \/ d = b + Cycle
      BY <1>1
    <3> QED BY <1>2, <3>1, <3>2, FurtherOn
  <2>3. (L!Phase' >= 1 => Base' + 1 \in H) /\ (Base' > 0 => Base' + 1 - Cycle \in H)
    BY <1>1, <1>2, <1>5, <2>1
  <2>4. \A i \in 1..(n + 1) : \E h \in H : i \in Block(h)
    <3>1. n + 1 \in Block(b + 1)
      BY <1>2, <1>7 DEF Block
    <3> QED BY <1>5, <2>1, <3>1
  <2> QED BY <1>1, <1>5, <2>1, <2>2, <2>3, <2>4 DEF Spaced, Block
<1> QED BY <1>6, <1>7

\* The bus goes on as the accessory was about to drive it.
LEMMA OutGoesOn ==
    ASSUME laCap \in Seq(L!Sample), laPlay \in Seq(Driven), NEW v \in L!Sample,
           laCap' = Append(laCap, v), v.de = L!Sounds.de, v.re = L!Sounds.re,
           v.tx = L!Sounds.tx, laPlay' = L!Rested, NEW i \in Nat \ {0}
    PROVE  Out(i)' = Out(i)
<1> PICK n \in Nat : n = Len(laCap)
  OBVIOUS
<1> PICK m \in Nat : m = Len(laPlay)
  OBVIOUS
<1>1. Len(laCap') = n + 1 /\ laCap'[n + 1] = v /\ \A j \in 1..n : laCap'[j] = laCap[j]
  BY OneMore
<1>2. /\ Out(i) = IF i <= n THEN [de |-> laCap[i].de, re |-> laCap[i].re, tx |-> laCap[i].tx]
                  ELSE IF i - n <= m THEN laPlay[i - n] ELSE L!Quiet
      /\ Out(i)' = IF i <= n + 1
                   THEN [de |-> laCap'[i].de, re |-> laCap'[i].re, tx |-> laCap'[i].tx]
                   ELSE IF i - (n + 1) <= Len(laPlay') THEN laPlay'[i - (n + 1)] ELSE L!Quiet
  BY <1>1 DEF Out, L!Quiet, L!Idle
<1>3. CASE i <= n
  BY <1>1, <1>2, <1>3
<1>4. CASE i = n + 1
  <2>1. Out(i)' = [de |-> v.de, re |-> v.re, tx |-> v.tx]
    BY <1>1, <1>2, <1>4
  <2>2. CASE laPlay = << >>
    <3>1. L!Sounds = L!Quiet /\ Out(i) = L!Quiet
      BY <1>2, <1>4, <2>2 DEF L!Sounds
    <3> QED BY <2>1, <3>1 DEF L!Quiet
  <2>3. CASE laPlay # << >>
    <3>1. m >= 1 /\ laPlay[1] \in Driven /\ L!Sounds = laPlay[1]
      BY <2>3 DEF L!Sounds
    <3>2. Out(i) = laPlay[1]
      BY <1>2, <1>4, <3>1
    <3> QED BY <2>1, <3>1, <3>2 DEF Driven
  <2> QED BY <2>2, <2>3
<1>5. CASE i > n + 1
  <2>1. CASE laPlay = << >>
    <3>1. Len(laPlay') = 0 /\ m = 0
      BY <2>1 DEF L!Rested
    <3> QED BY <1>2, <1>5, <3>1
  <2>2. CASE laPlay # << >>
    <3>1. laPlay' = Tail(laPlay) /\ m >= 1
      BY <2>2 DEF L!Rested
    <3>2. Len(laPlay') = m - 1 /\ \A j \in 1..(m - 1) : laPlay'[j] = laPlay[j + 1]
      BY <3>1
    <3> QED BY <1>2, <1>5, <3>1, <3>2
  <2> QED BY <2>1, <2>2
<1> QED BY <1>3, <1>4, <1>5

\* At the counter of a poll the accessory begins anew.
LEMMA OutAnew ==
    ASSUME laCap \in Seq(L!Sample), laPlay = << >>, NEW v \in L!Sample,
           laCap' = Append(laCap, v), v.de = L!Sounds.de, v.re = L!Sounds.re,
           v.tx = L!Sounds.tx, NEW q \in Seq(Driven), laPlay' = q
    PROVE  /\ \A i \in 1..(Len(laCap) + 1) : Out(i)' = Out(i)
           /\ \A i \in Nat : i > Len(laCap) + 1 =>
                 Out(i)' = IF i - (Len(laCap) + 1) <= Len(q) THEN q[i - (Len(laCap) + 1)]
                           ELSE L!Quiet
           /\ Out(Len(laCap) + 1) = L!Quiet
<1> PICK n \in Nat : n = Len(laCap)
  OBVIOUS
<1>1. Len(laCap') = n + 1 /\ laCap'[n + 1] = v /\ \A j \in 1..n : laCap'[j] = laCap[j]
  BY OneMore
<1>2. ASSUME NEW i \in Nat \ {0}
      PROVE
      /\ Out(i) = IF i <= n THEN [de |-> laCap[i].de, re |-> laCap[i].re, tx |-> laCap[i].tx]
                  ELSE L!Quiet
      /\ Out(i)' = IF i <= n + 1
                   THEN [de |-> laCap'[i].de, re |-> laCap'[i].re, tx |-> laCap'[i].tx]
                   ELSE IF i - (n + 1) <= Len(q) THEN q[i - (n + 1)] ELSE L!Quiet
  BY <1>1 DEF Out, L!Quiet, L!Idle
<1>3. ASSUME NEW i \in Nat, i = n + 1
      PROVE  Out(i)' = L!Quiet /\ Out(i) = L!Quiet
  <2>1. L!Sounds = L!Quiet
    BY DEF L!Sounds
  <2>2. Out(i)' = [de |-> v.de, re |-> v.re, tx |-> v.tx] /\ Out(i) = L!Quiet
    BY <1>1, <1>2, <1>3
  <2> QED BY <2>1, <2>2 DEF L!Quiet
<1>4. \A i \in 1..(n + 1) : Out(i)' = Out(i)
  <2> TAKE i \in 1..(n + 1)
  <2>1. i = n + 1 => Out(i)' = Out(i)
    BY <1>3
  <2>2. ASSUME i <= n PROVE Out(i)' = Out(i)
    <3>1. i \in Nat \ {0} /\ laCap'[i] = laCap[i] /\ i <= n + 1
      BY <1>1, <2>2
    <3>2. Out(i)' = [de |-> laCap'[i].de, re |-> laCap'[i].re, tx |-> laCap'[i].tx]
      BY <1>2, <3>1
    <3>3. Out(i) = [de |-> laCap[i].de, re |-> laCap[i].re, tx |-> laCap[i].tx]
      BY <1>2, <2>2, <3>1
    <3> QED BY <3>1, <3>2, <3>3
  <2> QED BY <2>1, <2>2
<1>5. ASSUME NEW i \in Nat, i > n + 1
      PROVE  Out(i)' = IF i - (n + 1) <= Len(q) THEN q[i - (n + 1)] ELSE L!Quiet
  <2>1. i \in Nat \ {0} /\ ~(i <= n + 1)
    BY <1>5
  <2> QED BY <1>2, <2>1
<1>6. Out(n + 1) = L!Quiet
  BY <1>3
<1> QED BY <1>4, <1>5, <1>6


\* An answer, sample by sample.
LEMMA AnswerShape ==
    ASSUME NEW c \in L!Symbols, NEW late \in Nat, NEW tail \in Nat, ReSkew \in Nat
    PROVE  /\ L!Answer(c, late, tail) \in Seq(Driven)
           /\ Len(L!Answer(c, late, tail)) = late + 3 + tail + ReSkew
           /\ \A j \in 1..Len(L!Answer(c, late, tail)) :
                /\ L!Answer(c, late, tail)[j].de <=> j > late /\ j <= late + 3 + tail
                /\ L!Answer(c, late, tail)[j].tx =
                     IF j = late + 2 THEN L!Sof ELSE IF j = late + 3 THEN c ELSE L!Idle
<1> DEFINE high == [L!Quiet EXCEPT !.re = TRUE]
           q1 == L!Reps(late, L!Quiet)
           q2 == <<L!Drive(L!Idle), L!Drive(L!Sof), L!Drive(c)>>
           q3 == L!Reps(tail, L!Drive(L!Idle))
           q4 == L!Reps(ReSkew, high)
           q == L!Answer(c, late, tail)
<1>0. /\ L!Quiet \in Driven /\ high \in Driven
      /\ \A x \in L!Symbols : L!Drive(x) \in Driven
      /\ L!Idle \in L!Symbols /\ L!Sof \in L!Symbols
  BY DEF L!Quiet, L!Drive, Driven, L!Symbols
<1> HIDE DEF high
<1>1. q1 \in Seq(Driven) /\ Len(q1) = late /\ \A j \in 1..late : q1[j] = L!Quiet
  BY <1>0 DEF L!Reps
<1>2. q2 \in Seq(Driven) /\ Len(q2) = 3 /\ q2[1] = L!Drive(L!Idle) /\ q2[2] = L!Drive(L!Sof)
      /\ q2[3] = L!Drive(c)
  BY <1>0
<1>3. q3 \in Seq(Driven) /\ Len(q3) = tail /\ \A j \in 1..tail : q3[j] = L!Drive(L!Idle)
  BY <1>0 DEF L!Reps
<1>4. q4 \in Seq(Driven) /\ Len(q4) = ReSkew /\ \A j \in 1..ReSkew : q4[j] = high
  BY <1>0 DEF L!Reps
<1>s. q1 \in Seq(Driven) /\ q2 \in Seq(Driven) /\ q3 \in Seq(Driven) /\ q4 \in Seq(Driven)
  BY <1>1, <1>2, <1>3, <1>4
<1>5. q = ((q1 \o q2) \o q3) \o q4
  BY DEF L!Answer, high
<1> HIDE DEF q1, q2, q3, q4, q
<1> DEFINE q12 == q1 \o q2
           q123 == q12 \o q3
<1>6. /\ q12 \in Seq(Driven) /\ Len(q12) = late + 3
      /\ \A j \in 1..late : q12[j] = q1[j]
      /\ \A j \in 1..3 : q12[late + j] = q2[j]
  <2>1. /\ q12 \in Seq(Driven) /\ Len(q12) = Len(q1) + Len(q2)
        /\ \A j \in 1..Len(q1) : q12[j] = q1[j]
        /\ \A j \in 1..Len(q2) : q12[Len(q1) + j] = q2[j]
    BY <1>s
  <2> QED BY <1>1, <1>2, <2>1
<1> HIDE DEF q12
<1>u. q12 \in Seq(Driven)
  BY <1>6
<1>7. /\ q123 \in Seq(Driven) /\ Len(q123) = late + 3 + tail
      /\ \A j \in 1..(late + 3) : q123[j] = q12[j]
      /\ \A j \in 1..tail : q123[late + 3 + j] = q3[j]
  <2>1. /\ q123 \in Seq(Driven) /\ Len(q123) = Len(q12) + Len(q3)
        /\ \A j \in 1..Len(q12) : q123[j] = q12[j]
        /\ \A j \in 1..Len(q3) : q123[Len(q12) + j] = q3[j]
    BY <1>s, <1>u
  <2> QED BY <1>3, <1>6, <2>1
<1> HIDE DEF q123
<1>t. q123 \in Seq(Driven)
  BY <1>7
<1>8. q = q123 \o q4
  BY <1>5 DEF q12, q123
<1>9. /\ q \in Seq(Driven) /\ Len(q) = late + 3 + tail + ReSkew
      /\ \A j \in 1..(late + 3 + tail) : q[j] = q123[j]
      /\ \A j \in 1..ReSkew : q[late + 3 + tail + j] = q4[j]
  <2>1. /\ q \in Seq(Driven) /\ Len(q) = Len(q123) + Len(q4)
        /\ \A j \in 1..Len(q123) : q[j] = q123[j]
        /\ \A j \in 1..Len(q4) : q[Len(q123) + j] = q4[j]
    BY <1>s, <1>t, <1>8
  <2> QED BY <1>4, <1>7, <2>1
<1>10. ASSUME NEW j \in 1..Len(q)
      PROVE  /\ q[j].de <=> j > late /\ j <= late + 3 + tail
             /\ q[j].tx = IF j = late + 2 THEN L!Sof ELSE IF j = late + 3 THEN c ELSE L!Idle
  <2>1. CASE j <= late
    <3>1. q[j] = L!Quiet
      BY <1>1, <1>6, <1>7, <1>9, <2>1
    <3> QED BY <2>1, <3>1 DEF L!Quiet
  <2>2. CASE j > late /\ j <= late + 3
    <3>1. PICK k \in 1..3 : j = late + k
      <4>1. j - late \in 1..3 /\ j = late + (j - late)
        BY <2>2
      <4> QED BY <4>1
    <3>2. q[j] = q2[k]
      BY <1>6, <1>7, <1>9, <3>1, SMTT(60)
    <3> QED BY <1>2, <3>1, <3>2 DEF L!Drive
  <2>3. CASE j > late + 3 /\ j <= late + 3 + tail
    <3>1. PICK k \in 1..tail : j = late + 3 + k
      <4>1. j - (late + 3) \in 1..tail /\ j = late + 3 + (j - (late + 3))
        BY <2>3
      <4> QED BY <4>1
    <3>2. q[j] = L!Drive(L!Idle)
      <4>1. j \in 1..(late + 3 + tail) /\ q[j] = q123[j]
        BY <1>9, <2>3
      <4>2. q123[j] = q3[k]
        BY <1>7, <3>1
      <4> QED BY <1>3, <4>1, <4>2
    <3> QED BY <2>3, <3>2 DEF L!Drive
  <2>4. CASE j > late + 3 + tail
    <3>1. PICK k \in 1..ReSkew : j = late + 3 + tail + k
      <4>1. j - (late + 3 + tail) \in 1..ReSkew /\ j = late + 3 + tail + (j - (late + 3 + tail))
        BY <1>9, <2>4
      <4> QED BY <4>1
    <3>2. q[j] = high
      BY <1>4, <1>9, <3>1
    <3> QED BY <2>4, <3>2, SMTT(60) DEF high, L!Quiet
  <2> QED BY <2>1, <2>2, <2>3, <2>4
<1> QED BY <1>9, <1>10 DEF q


\* A poll has been sent one sample after its head.
LEMMA PolledStep ==
    ASSUME laCap \in Seq(L!Sample), Spaced, NEW v \in L!Sample, laCap' = Append(laCap, v),
           v.rx = L!Sof <=> L!Phase = 0
    PROVE  /\ PolledOf(laCap') = PolledOf(laCap)
                                 \cup (IF L!Phase = 1 THEN {Len(laCap)} ELSE {})
           /\ L!Phase = 1 => /\ Len(laCap) \in Heads \ PolledOf(laCap)
                             /\ \A h \in PolledOf(laCap) : h + Cycle <= Len(laCap)
                             /\ Len(laCap) - Cycle \in PolledOf(laCap) \/ Len(laCap) = 1
           /\ \A h \in PolledOf(laCap) : h \in 1..Len(laCap) /\ h + 1 \in 1..Len(laCap)
<1> PICK n \in Nat : n = Len(laCap)
  OBVIOUS
<1> PICK p \in 0..(Cycle - 1) : p = L!Phase
  BY OneMore
<1> PICK b \in 0..n : b = Base
  BY OneMore
<1> PICK H : H = Heads
  OBVIOUS
<1>1. /\ Len(laCap') = n + 1 /\ laCap'[n + 1] = v /\ \A i \in 1..n : laCap'[i] = laCap[i]
  BY OneMore
<1>2. n = b + p /\ Cycle \in Nat /\ Cycle >= 7
  BY LaNumbers DEF Base
<1>3. HeadsOf(laCap') = IF p = 0 THEN H \cup {n + 1} ELSE H
  BY <1>1 DEF Heads, HeadsOf
<1>4. H \subseteq 1..n
  BY DEF Heads, HeadsOf
<1>5. /\ \A h \in H : h <= b + 1 /\ (h <= b => h + Cycle <= b + 1)
      /\ p >= 1 => b + 1 \in H
      /\ \A h \in H : h = 1 \/ h - Cycle \in H
  BY DEF Spaced
<1> PICK H2 : H2 = HeadsOf(laCap')
  OBVIOUS
<1>6. PolledOf(laCap) = {h \in H : h + 1 <= n}
  BY DEF PolledOf, Heads
<1>7. PolledOf(laCap') = {h \in H2 : h + 1 <= n + 1}
  BY <1>1 DEF PolledOf
<1>8. CASE p = 1
  <2>1. n \in H /\ \A h \in H : h = n \/ h + Cycle <= n
    BY <1>2, <1>4, <1>5, <1>8
  <2>2. H2 = H
    BY <1>3, <1>8
  <2>3. \A h \in H : h \in 1..n /\ (h = n \/ h + 1 <= n)
    BY <1>2, <1>4, <2>1
  <2>4. {h \in H2 : h + 1 <= n + 1} = H
    BY <2>2, <2>3
  <2>5. {h \in H : h + 1 <= n} = H \ {n}
    BY <2>3
  <2>6. n = 1 \/ n - Cycle \in H \ {n}
    BY <1>2, <1>5, <2>1
  <2>7. \A h \in H \ {n} : h \in 1..n /\ h + 1 \in 1..n
    BY <2>3
  <2>8. PolledOf(laCap') = PolledOf(laCap) \cup {n} /\ PolledOf(laCap) = H \ {n}
    BY <1>6, <1>7, <2>1, <2>4, <2>5
  <2> QED BY <1>8, <2>1, <2>6, <2>7, <2>8
<1>9. CASE p # 1
  <2>1. \A h \in H : h \in 1..n /\ h + 1 <= n
    <3> TAKE h \in H
    <3>1. h \in 1..n /\ h <= b + 1 /\ (h <= b => h + Cycle <= b + 1)
      BY <1>4, <1>5
    <3>2. p = 0 \/ p >= 2
      BY <1>9
    <3> QED BY <1>2, <3>1, <3>2
  <2>2. {h \in H2 : h + 1 <= n + 1} = H
    BY <1>3, <2>1
  <2>3. {h \in H : h + 1 <= n} = H
    BY <2>1
  <2>4. PolledOf(laCap') = PolledOf(laCap) /\ PolledOf(laCap) = H
    BY <1>6, <1>7, <2>2, <2>3
  <2>5. \A h \in H : h \in 1..n /\ h + 1 \in 1..n
    BY <2>1
  <2> QED BY <1>9, <2>4, <2>5
<1> QED BY <1>8, <1>9

\* What is on the line is in the capture, and goes on as the accessory drives it.
LEMMA LineIs ==
    ASSUME laCap \in Seq(L!Sample), laPlay \in Seq(Driven)
    PROVE  /\ \A i \in Nat \ {0} : Line[i] = Out(i)
           /\ \A i \in 1..Len(laCap) : /\ Line[i].de = laCap[i].de /\ Line[i].re = laCap[i].re
                                       /\ Line[i].tx = laCap[i].tx
           /\ \A i \in Nat \ {0} : Line[i].tx \in L!Symbols
<1>1. \A i \in Nat \ {0} : Line[i] = Out(i)
  BY DEF Line
<1>2. \A i \in 1..Len(laCap) : Out(i) = [de |-> laCap[i].de, re |-> laCap[i].re, tx |-> laCap[i].tx]
  BY DEF Out
<1>3. ASSUME NEW i \in Nat \ {0} PROVE Out(i).tx \in L!Symbols
  <2>1. CASE i <= Len(laCap)
    <3>1. laCap[i] \in L!Sample
      BY <2>1
    <3> QED BY <1>2, <2>1, <3>1 DEF L!Sample
  <2>2. CASE i > Len(laCap) /\ i - Len(laCap) <= Len(laPlay)
    <3>1. Out(i) = laPlay[i - Len(laCap)] /\ laPlay[i - Len(laCap)] \in Driven
      BY <2>2 DEF Out
    <3> QED BY <3>1 DEF Driven
  <2>3. CASE i > Len(laCap) /\ i - Len(laCap) > Len(laPlay)
    BY <2>3 DEF Out, L!Quiet, L!Symbols
  <2> QED BY <2>1, <2>2, <2>3
<1> QED BY <1>1, <1>2, <1>3

\* A block is as it was when the line is, up to the next one.
LEMMA BlockKept ==
    ASSUME NEW o, NEW o2, NEW tr, NEW tr2, NEW f, NEW f2, NEW h \in Nat \ {0}, NEW b,
           \A i \in 1..(h + Cycle) : o2[i] = o[i], tr \subseteq tr2,
           Wrongs(f2, h) <=> Wrongs(f, h), Wrongs(f, h) => f2 = f,
           BlockIs(o, tr, f, h, b)
    PROVE  BlockIs(o2, tr2, f2, h, b)
<1>0. /\ Cycle \in Nat /\ Cycle >= 7 /\ ReSkew \in Nat /\ MaxDeHigh \in Nat /\ MaxDeHigh >= 1
      /\ Cycle >= MaxDeHigh + ReSkew + 5 /\ Cycle >= 2 * ReSkew + 7
  BY LaNumbers
<1>1. ASSUME NEW a \in Nat, NEW z \in Nat, On(o, h, a, z) PROVE On(o2, h, a, z)
  BY <1>0, <1>1 DEF On, Block
<1>2. ASSUME NEW a \in h..(h + 4), NEW m \in Nat, NEW x, a + 3 + m <= h + Cycle,
             Sends(o, h, a, m, x)
      PROVE  Sends(o2, h, a, m, x)
  <2>1. On(o2, h, a, a + 2 + m)
    BY <1>1, <1>2 DEF Sends
  <2>2. \A i \in a..(a + 3 + m) : o2[i] = o[i]
    BY <1>0, <1>2
  <2> QED BY <1>2, <2>1, <2>2 DEF Sends
<1>3. ASSUME NEW a \in h..(h + 4), NEW m \in Nat, NEW x, a + 3 + m <= h + Cycle,
             Gives(o, tr, h, a, m, x)
      PROVE  Gives(o2, tr2, h, a, m, x)
  BY <1>2, <1>3 DEF Gives
<1>4. CASE ~Wrongs(f, h)
  <2>1. b \in 1..Counters /\ \E late \in 0..1 : Gives(o, tr, h, h + 2 + late, 0, b)
    BY <1>4 DEF BlockIs, Sound
  <2>2. PICK late \in 0..1 : Gives(o, tr, h, h + 2 + late, 0, b)
    BY <2>1
  <2>3. Gives(o2, tr2, h, h + 2 + late, 0, b)
    BY <1>0, <1>3, <2>2
  <2> QED BY <1>4, <2>1, <2>3 DEF BlockIs, Sound
<1>5. CASE Wrongs(f, h)
  <2>1. Unsound(o, tr, f, h, b) /\ f2 = f
    BY <1>5 DEF BlockIs
  <2>2. Unsound(o2, tr2, f, h, b)
    <3> USE DEF Unsound
    <3>1. f.kind \in {"silent", "poll"} => \A i \in Block(h) : ~o2[i].de
      BY <1>0, <2>1 DEF Block
    <3>2. /\ f.kind = "crc" => Sends(o2, h, h + 3, 0, L!Broken)
          /\ f.kind = "parity" => Sends(o2, h, h + 3, 0, L!Parity)
          /\ f.kind = "stale" => Sends(o2, h, h + 3, 0, Preceding(b))
      BY <1>0, <1>2, <2>1
    <3>3. f.kind = "stuck" => Gives(o2, tr2, h, h + 2, MaxDeHigh, b)
      BY <1>0, <1>3, <2>1
    <3>4. f.kind = "early" => On(o2, h, h + 4, h + 4) /\ o2[h + 3].tx = L!Sof /\ o2[h + 5].tx = L!Idle
      BY <1>0, <1>1, <2>1
    <3>5. f.kind = "stray" => Gives(o2, tr2, h, h + 4, 0, b) /\ o2[h + 2].tx = L!Sof
      BY <1>0, <1>3, <2>1
    <3>6. f.kind = "ghost" => On(o2, h, h + 3, h + 4) /\ \A i \in (h + 3)..(h + 5) : o2[i].tx = L!Idle
      BY <1>0, <1>1, <2>1
    <3>7. f.kind = "re" => Gives(o2, tr2, h, h + 2, 0, b) /\ o2[h + 6 + ReSkew].re
      BY <1>0, <1>3, <2>1
    <3>8. f.kind = "repeat" => Gives(o2, tr2, h, h + 2, 0, b)
      BY <1>0, <1>3, <2>1
    <3>9. /\ b = IF f.kind = "poll" THEN L!Broken ELSE f.counter
          /\ f.kind \notin {"silent", "poll"} => f.to >= h + 4
          /\ f.kind = "re" => f.to >= h + 6 + ReSkew
      BY <2>1
    <3> QED BY <3>1, <3>2, <3>3, <3>4, <3>5, <3>6, <3>7, <3>8, <3>9
  <2> QED BY <1>5, <2>1, <2>2 DEF BlockIs
<1> QED BY <1>4, <1>5


\* What the accessory drives from the sample after the counter of a poll on.
Begins(o, h, q) ==
    /\ ~o[h].de /\ o[h + 1] = L!Quiet
    /\ \A i \in Nat : i > h + 1 =>
          o[i] = IF i - (h + 1) <= Len(q) THEN q[i - (h + 1)] ELSE L!Quiet
\* An answer with the byte b, whatever goes before it.
Shaped(q, late, m, b) ==
    /\ q \in Seq(Driven) /\ Len(q) >= late + 3 + m
    /\ \A j \in 1..Len(q) :
         /\ q[j].de <=> j > late /\ j <= late + 3 + m
         /\ j > late => q[j].tx = IF j = late + 2 THEN L!Sof
                                  ELSE IF j = late + 3 THEN b ELSE L!Idle

\* What is played with the shape of an answer is an answer on the bus.
LEMMA ShapedSends ==
    ASSUME NEW o, NEW h \in Nat \ {0}, NEW q, NEW late \in Nat, NEW m \in Nat, NEW b,
           Begins(o, h, q), Shaped(q, late, m, b)
    PROVE  Sends(o, h, h + 2 + late, m, b)
<1> PICK n \in Nat : n = Len(q)
  BY DEF Shaped
<1>1. ASSUME NEW i \in Nat, i > h + 1
      PROVE  o[i] = IF i - (h + 1) <= n THEN q[i - (h + 1)] ELSE L!Quiet
  BY <1>1 DEF Begins
<1>2. n >= late + 3 + m
  BY DEF Shaped
<1>3. ASSUME NEW j \in 1..n
      PROVE  /\ q[j].de <=> j > late /\ j <= late + 3 + m
             /\ j > late => q[j].tx = IF j = late + 2 THEN L!Sof
                                      ELSE IF j = late + 3 THEN b ELSE L!Idle
  BY DEF Shaped
<1>4. ~L!Quiet.de /\ L!Quiet.tx = L!Idle
  BY DEF L!Quiet
<1>5. ASSUME NEW i \in Nat, i > h + 1
      PROVE  /\ o[i].de <=> i > h + 1 + late /\ i <= h + 1 + late + 3 + m
             /\ i > h + 1 + late =>
                  o[i].tx = IF i = h + 1 + late + 2 THEN L!Sof
                            ELSE IF i = h + 1 + late + 3 THEN b ELSE L!Idle
  <2>1. CASE i - (h + 1) <= n
    <3> PICK j : j = i - (h + 1)
      OBVIOUS
    <3>1. j \in 1..n /\ o[i] = q[j] /\ i = h + 1 + j
      BY <1>1, <1>5, <2>1
    <3>2. /\ q[j].de <=> j > late /\ j <= late + 3 + m
          /\ j > late => q[j].tx = IF j = late + 2 THEN L!Sof
                                   ELSE IF j = late + 3 THEN b ELSE L!Idle
      BY <1>3, <3>1
    <3>3. /\ i > h + 1 + late <=> j > late
          /\ i <= h + 1 + late + 3 + m <=> j <= late + 3 + m
          /\ i = h + 1 + late + 2 <=> j = late + 2
          /\ i = h + 1 + late + 3 <=> j = late + 3
      BY <3>1
    <3>4. o[i].de <=> i > h + 1 + late /\ i <= h + 1 + late + 3 + m
      BY <3>1, <3>2, <3>3
    <3>5. i > h + 1 + late => o[i].tx = IF i = h + 1 + late + 2 THEN L!Sof
                                        ELSE IF i = h + 1 + late + 3 THEN b ELSE L!Idle
      BY <3>1, <3>2, <3>3
    <3> QED BY <3>1, <3>4, <3>5
  <2>2. CASE i - (h + 1) > n
    BY <1>1, <1>2, <1>4, <1>5, <2>2, SMTT(60)
  <2> QED BY <2>1, <2>2
<1>6. On(o, h, h + 2 + late, h + 2 + late + 2 + m)
  <2> SUFFICES ASSUME NEW i \in Block(h)
               PROVE  o[i].de <=> i \in (h + 2 + late)..(h + 2 + late + 2 + m)
    BY DEF On
  <2>1. i \in Nat /\ i >= h
    BY LaNumbers DEF Block
  <2>2. ~o[h].de /\ ~o[h + 1].de
    BY <1>4 DEF Begins
  <2>3. i = h \/ i = h + 1 => ~o[i].de
    BY <2>2
  <2>4. i > h + 1 => (o[i].de <=> i > h + 1 + late /\ i <= h + 1 + late + 3 + m)
    BY <1>5, <2>1
  <2> QED BY <2>1, <2>3, <2>4
<1>7. o[h + 2 + late].tx = L!Idle /\ o[h + 2 + late + 1].tx = L!Sof /\ o[h + 2 + late + 2].tx = b
  BY <1>5
<1>8. \A i \in (h + 2 + late + 3)..(h + 2 + late + 3 + m) : o[i].tx = L!Idle
  BY <1>5
<1> QED BY <1>6, <1>7, <1>8 DEF Sends

\* An answer has that shape.
LEMMA AnswerShaped ==
    ASSUME NEW b \in L!Symbols, NEW late \in Nat, NEW m \in Nat
    PROVE  /\ Shaped(L!Answer(b, late, m), late, m, b)
           /\ Len(L!Answer(b, late, m)) = late + 3 + m + ReSkew
<1>1. ReSkew \in Nat
  BY LaNumbers
<1> QED BY <1>1, AnswerShape DEF Shaped

\* An answer after one more sample, and one before more of them, in which the driver is off.
LEMMA ShapedLater ==
    ASSUME NEW q, NEW late \in Nat, NEW m \in Nat, NEW b, Shaped(q, late, m, b),
           NEW x \in Driven, ~x.de
    PROVE  /\ Shaped(<<x>> \o q, late + 1, m, b) /\ Len(<<x>> \o q) = Len(q) + 1
           /\ (<<x>> \o q)[1] = x
<1>1. q \in Seq(Driven) /\ <<x>> \in Seq(Driven) /\ Len(<<x>>) = 1
  BY DEF Shaped
<1> PICK n \in Nat : n = Len(q)
  BY <1>1
<1> DEFINE r == <<x>> \o q
<1>2. r \in Seq(Driven) /\ Len(r) = n + 1 /\ r[1] = x /\ \A j \in 2..(n + 1) : r[j] = q[j - 1]
  BY <1>1
<1> HIDE DEF r
<1>3. ASSUME NEW j \in 1..Len(r)
      PROVE  /\ r[j].de <=> j > late + 1 /\ j <= late + 1 + 3 + m
             /\ j > late + 1 => r[j].tx = IF j = late + 1 + 2 THEN L!Sof
                                          ELSE IF j = late + 1 + 3 THEN b ELSE L!Idle
  <2>1. CASE j = 1
    BY <1>2, <2>1
  <2>2. CASE j # 1
    <3> PICK k \in 1..n : k = j - 1
      BY <1>2, <2>2
    <3>1. r[j] = q[k] /\ j = k + 1
      BY <1>2, <2>2
    <3>2. /\ q[k].de <=> k > late /\ k <= late + 3 + m
          /\ k > late => q[k].tx = IF k = late + 2 THEN L!Sof
                                   ELSE IF k = late + 3 THEN b ELSE L!Idle
      BY DEF Shaped
    <3> QED BY <3>1, <3>2
  <2> QED BY <2>1, <2>2
<1>4. n >= late + 3 + m
  BY DEF Shaped
<1> QED BY <1>2, <1>3, <1>4 DEF Shaped, r

\* It keeps it when samples with the driver off follow.
LEMMA ShapedLonger ==
    ASSUME NEW q, NEW late \in Nat, NEW m \in Nat, NEW b, Shaped(q, late, m, b),
           NEW x \in Driven, ~x.de, x.tx = L!Idle, NEW k \in Nat
    PROVE  /\ Shaped(q \o L!Reps(k, x), late, m, b) /\ Len(q \o L!Reps(k, x)) = Len(q) + k
           /\ \A j \in 1..k : (q \o L!Reps(k, x))[Len(q) + j] = x
<1> DEFINE e == L!Reps(k, x)
<1>1. q \in Seq(Driven)
  BY DEF Shaped
<1>2. e \in Seq(Driven) /\ Len(e) = k /\ \A j \in 1..k : e[j] = x
  BY DEF L!Reps
<1> HIDE DEF e
<1> PICK n \in Nat : n = Len(q)
  BY <1>1
<1> DEFINE r == q \o e
<1>3. e \in Seq(Driven)
  BY <1>2
<1>4. /\ r \in Seq(Driven) /\ Len(r) = n + Len(e)
      /\ \A j \in 1..n : r[j] = q[j]
      /\ \A j \in 1..Len(e) : r[n + j] = e[j]
  BY <1>1, <1>3
<1> HIDE DEF r
<1>5. /\ Len(r) = n + k /\ \A j \in 1..k : r[n + j] = x
  BY <1>2, <1>4, ZenonT(60)
<1>6. n >= late + 3 + m
  BY DEF Shaped
<1>7. ASSUME NEW j \in 1..Len(r)
      PROVE  /\ r[j].de <=> j > late /\ j <= late + 3 + m
             /\ j > late => r[j].tx = IF j = late + 2 THEN L!Sof
                                      ELSE IF j = late + 3 THEN b ELSE L!Idle
  <2>1. CASE j <= n
    <3>1. j \in 1..n /\ r[j] = q[j]
      BY <1>4, <2>1
    <3> QED BY <3>1 DEF Shaped
  <2>2. CASE j > n
    <3>1. PICK i \in 1..k : j = n + i
      <4>1. j - n \in 1..k /\ j = n + (j - n)
        BY <1>5, <2>2
      <4> QED BY <4>1
    <3>2. r[j] = x
      BY <1>5, <3>1
    <3> QED BY <1>6, <2>2, <3>2
  <2> QED BY <2>1, <2>2
<1>8. Shaped(r, late, m, b)
  BY <1>4, <1>5, <1>6, <1>7 DEF Shaped
<1> QED BY <1>5, <1>8 DEF r, e


\* The wrong answers, sample by sample.
LEMMA WrongShapes ==
    ASSUME NEW b \in 1..Counters
    PROVE  /\ \A kind \in L!Kinds : L!Wrong(b, kind) \in Seq(Driven)
                                    /\ Len(L!Wrong(b, kind)) + 2 <= Cycle
           /\ L!Wrong(b, "silent") = << >>
           /\ Shaped(L!Wrong(b, "crc"), 1, 0, L!Broken) /\ Len(L!Wrong(b, "crc")) >= 4
           /\ Shaped(L!Wrong(b, "parity"), 1, 0, L!Parity) /\ Len(L!Wrong(b, "parity")) >= 4
           /\ Shaped(L!Wrong(b, "stuck"), 0, MaxDeHigh, b) /\ Len(L!Wrong(b, "stuck")) >= 4
           /\ /\ Len(L!Wrong(b, "early")) = 3 /\ ~L!Wrong(b, "early")[1].de
              /\ ~L!Wrong(b, "early")[2].de /\ L!Wrong(b, "early")[3].de
              /\ L!Wrong(b, "early")[2].tx = L!Sof
           /\ Shaped(L!Wrong(b, "stray"), 2, 0, b) /\ Len(L!Wrong(b, "stray")) >= 4
           /\ L!Wrong(b, "stray")[1].tx = L!Sof
           /\ /\ Len(L!Wrong(b, "ghost")) = 3 /\ ~L!Wrong(b, "ghost")[1].de
              /\ \A j \in 2..3 : L!Wrong(b, "ghost")[j] = L!Drive(L!Idle)
           /\ Shaped(L!Wrong(b, "re"), 0, 0, b) /\ Len(L!Wrong(b, "re")) = 5 + ReSkew
           /\ L!Wrong(b, "re")[5 + ReSkew].re
           /\ Shaped(L!Wrong(b, "stale"), 1, 0, Preceding(b)) /\ Len(L!Wrong(b, "stale")) >= 4
<1>0. /\ Cycle \in Nat /\ Cycle >= 7 /\ ReSkew \in Nat /\ MaxDeHigh \in Nat /\ MaxDeHigh >= 1
      /\ Cycle >= MaxDeHigh + ReSkew + 5 /\ Cycle >= 2 * ReSkew + 7
      /\ Counters \in Nat /\ Counters >= 2
  BY LaNumbers
<1> DEFINE head == [L!Quiet EXCEPT !.tx = L!Sof]
           high == [L!Quiet EXCEPT !.re = TRUE]
<1>1. /\ L!Quiet \in Driven /\ head \in Driven /\ high \in Driven
      /\ ~L!Quiet.de /\ ~head.de /\ head.tx = L!Sof /\ ~high.de /\ high.re /\ high.tx = L!Idle
      /\ \A x \in L!Symbols : L!Drive(x) \in Driven /\ L!Drive(x).de
  BY DEF L!Quiet, L!Drive, Driven, L!Symbols
<1>2. /\ b \in L!Symbols /\ L!Broken \in L!Symbols /\ L!Parity \in L!Symbols
      /\ L!Idle \in L!Symbols /\ Preceding(b) \in L!Symbols
  BY <1>0 DEF L!Symbols, Preceding
<1>3. L!Wrong(b, "silent") = << >>
  BY DEF L!Wrong
<1>4. L!Wrong(b, "crc") = L!Answer(L!Broken, 1, 0) /\ L!Wrong(b, "parity") = L!Answer(L!Parity, 1, 0)
  BY DEF L!Wrong
<1>5. /\ Shaped(L!Wrong(b, "crc"), 1, 0, L!Broken) /\ Len(L!Wrong(b, "crc")) = 4 + ReSkew
      /\ Shaped(L!Wrong(b, "parity"), 1, 0, L!Parity) /\ Len(L!Wrong(b, "parity")) = 4 + ReSkew
  BY <1>0, <1>2, <1>4, AnswerShaped
<1>6. L!Wrong(b, "stuck") = L!Answer(b, 0, MaxDeHigh)
  BY DEF L!Wrong
<1>7. Shaped(L!Wrong(b, "stuck"), 0, MaxDeHigh, b) /\ Len(L!Wrong(b, "stuck")) = 3 + MaxDeHigh + ReSkew
  BY <1>0, <1>2, <1>6, AnswerShaped
<1>8. L!Wrong(b, "early") = <<L!Quiet, head, L!Drive(b)>>
  BY DEF L!Wrong
<1>9. L!Wrong(b, "stray") = <<head>> \o L!Answer(b, 1, 0)
  BY DEF L!Wrong
<1>10. L!Wrong(b, "ghost") = <<L!Quiet, L!Drive(L!Idle), L!Drive(L!Idle)>>
  BY DEF L!Wrong
<1>11. L!Wrong(b, "re") = L!Answer(b, 0, 0) \o L!Reps(2, high)
  BY DEF L!Wrong
<1>12. L!Wrong(b, "stale") = L!Answer(Preceding(b), 1, 0)
  BY DEF L!Wrong, Preceding
<1>a. ASSUME NEW x \in L!Symbols, NEW late \in 0..1
      PROVE  Shaped(L!Answer(x, late, 0), late, 0, x) /\ Len(L!Answer(x, late, 0)) = late + 3 + ReSkew
  <2>1. Shaped(L!Answer(x, late, 0), late, 0, x) /\ Len(L!Answer(x, late, 0)) = late + 3 + 0 + ReSkew
    <3>1. late \in Nat /\ 0 \in Nat
      OBVIOUS
    <3> QED BY <3>1, AnswerShaped, Zenon
  <2> QED BY <1>0, <2>1
<1>b. L!Drive(L!Idle) \in Driven /\ L!Drive(b) \in Driven
  BY <1>1, <1>2
<1>c. L!Quiet \in Driven /\ head \in Driven
  BY <1>1
<1>13. Shaped(L!Wrong(b, "stale"), 1, 0, Preceding(b)) /\ Len(L!Wrong(b, "stale")) = 4 + ReSkew
  <2>1. /\ Shaped(L!Answer(Preceding(b), 1, 0), 1, 0, Preceding(b))
        /\ Len(L!Answer(Preceding(b), 1, 0)) = 1 + 3 + ReSkew
    <3>1. 1 \in 0..1
      OBVIOUS
    <3> QED BY <1>2, <1>a, <3>1, Zenon
  <2> QED BY <1>0, <1>12, <2>1
<1> HIDE DEF head, high
<1>14. /\ Shaped(L!Wrong(b, "stray"), 2, 0, b) /\ Len(L!Wrong(b, "stray")) = 5 + ReSkew
       /\ L!Wrong(b, "stray")[1].tx = L!Sof
  <2>1. Shaped(L!Answer(b, 1, 0), 1, 0, b) /\ Len(L!Answer(b, 1, 0)) = 4 + ReSkew
    BY <1>0, <1>2, <1>a
  <2>2. /\ Shaped(<<head>> \o L!Answer(b, 1, 0), 1 + 1, 0, b)
        /\ Len(<<head>> \o L!Answer(b, 1, 0)) = Len(L!Answer(b, 1, 0)) + 1
        /\ (<<head>> \o L!Answer(b, 1, 0))[1] = head
    BY <1>1, <2>1, ShapedLater
  <2>3. head.tx = L!Sof
    BY <1>1
  <2>4. /\ Shaped(L!Wrong(b, "stray"), 1 + 1, 0, b)
        /\ Len(L!Wrong(b, "stray")) = Len(L!Answer(b, 1, 0)) + 1
        /\ L!Wrong(b, "stray")[1] = head
    BY <1>9, <2>2, Zenon
  <2>5. 1 + 1 = 2 /\ 4 + ReSkew + 1 = 5 + ReSkew
    BY <1>0
  <2> QED BY <2>1, <2>3, <2>4, <2>5
<1>15. /\ Shaped(L!Wrong(b, "re"), 0, 0, b) /\ Len(L!Wrong(b, "re")) = 5 + ReSkew
       /\ L!Wrong(b, "re")[5 + ReSkew].re
  <2>1. Shaped(L!Answer(b, 0, 0), 0, 0, b) /\ Len(L!Answer(b, 0, 0)) = 3 + ReSkew
    BY <1>0, <1>2, <1>a
  <2> DEFINE r == L!Answer(b, 0, 0) \o L!Reps(2, high)
  <2>2. /\ Shaped(r, 0, 0, b) /\ Len(r) = Len(L!Answer(b, 0, 0)) + 2
        /\ \A j \in 1..2 : r[Len(L!Answer(b, 0, 0)) + j] = high
    BY <1>1, <2>1, ShapedLonger
  <2> HIDE DEF r
  <2>3. r[3 + ReSkew + 2] = high
    BY <2>1, <2>2
  <2>4. 3 + ReSkew + 2 = 5 + ReSkew
    BY <1>0
  <2> QED BY <1>0, <1>1, <1>11, <2>1, <2>2, <2>3, <2>4 DEF r
<1>16. /\ L!Wrong(b, "early") \in Seq(Driven) /\ Len(L!Wrong(b, "early")) = 3
       /\ L!Wrong(b, "early")[1] = L!Quiet /\ L!Wrong(b, "early")[2] = head
       /\ L!Wrong(b, "early")[3] = L!Drive(b)
  <2> DEFINE q == <<L!Quiet, head, L!Drive(b)>>
  <2>1. q \in Seq(Driven) /\ Len(q) = 3 /\ q[1] = L!Quiet /\ q[2] = head /\ q[3] = L!Drive(b)
    BY <1>b, <1>c
  <2> HIDE DEF q
  <2>2. L!Wrong(b, "early") = q
    BY <1>8 DEF q
  <2> QED BY <2>1, <2>2
<1>17. /\ L!Wrong(b, "ghost") \in Seq(Driven) /\ Len(L!Wrong(b, "ghost")) = 3
       /\ L!Wrong(b, "ghost")[1] = L!Quiet
       /\ \A j \in 2..3 : L!Wrong(b, "ghost")[j] = L!Drive(L!Idle)
  <2> DEFINE q == <<L!Quiet, L!Drive(L!Idle), L!Drive(L!Idle)>>
  <2>1. /\ q \in Seq(Driven) /\ Len(q) = 3 /\ q[1] = L!Quiet
        /\ \A j \in 2..3 : q[j] = L!Drive(L!Idle)
    BY <1>b, <1>c
  <2> HIDE DEF q
  <2>2. L!Wrong(b, "ghost") = q
    BY <1>10 DEF q
  <2> QED BY <2>1, <2>2
<1>18. ASSUME NEW kind \in L!Kinds
       PROVE  L!Wrong(b, kind) \in Seq(Driven) /\ Len(L!Wrong(b, kind)) + 2 <= Cycle
  <2>1. \A q, late, m, x : Shaped(q, late, m, x) => q \in Seq(Driven)
    BY DEF Shaped
  <2>2. << >> \in Seq(Driven) /\ Len(<< >>) = 0
    OBVIOUS
  <2>3. CASE kind = "silent"
    <3>1. L!Wrong(b, kind) \in Seq(Driven) /\ Len(L!Wrong(b, kind)) = 0
      BY <1>3, <2>2, <2>3, Zenon
    <3> QED BY <1>0, <3>1
  <2>6. CASE kind \in {"early", "ghost"}
    <3>1. L!Wrong(b, kind) \in Seq(Driven) /\ Len(L!Wrong(b, kind)) = 3
      BY <1>16, <1>17, <2>6, Zenon
    <3> QED BY <1>0, <3>1
  <2>4. CASE kind \in {"crc", "parity", "stale"}
    BY <1>0, <1>5, <1>13, <2>1, <2>4
  <2>5. CASE kind \in {"stuck", "stray", "re"}
    BY <1>0, <1>7, <1>14, <1>15, <2>1, <2>5
  <2> QED BY <2>3, <2>4, <2>5, <2>6 DEF L!Kinds
<1>19. /\ ~L!Wrong(b, "early")[1].de /\ ~L!Wrong(b, "early")[2].de /\ L!Wrong(b, "early")[3].de
       /\ L!Wrong(b, "early")[2].tx = L!Sof
  BY <1>1, <1>2, <1>16
<1>20. ~L!Wrong(b, "ghost")[1].de
  BY <1>1, <1>17
<1>21. /\ Len(L!Wrong(b, "crc")) >= 4 /\ Len(L!Wrong(b, "parity")) >= 4
       /\ Len(L!Wrong(b, "stuck")) >= 4 /\ Len(L!Wrong(b, "stray")) >= 4
       /\ Len(L!Wrong(b, "stale")) >= 4
  BY <1>0, <1>5, <1>7, <1>13, <1>14
<1> QED BY <1>3, <1>5, <1>7, <1>13, <1>14, <1>15, <1>16, <1>17, <1>18, <1>19, <1>20, <1>21

\* So the block of a wrong answer is as its kind says.
LEMMA WrongBegins ==
    ASSUME NEW o, NEW h \in Nat \ {0}, NEW b \in 1..Counters, NEW kind \in L!Kinds,
           Begins(o, h, L!Wrong(b, kind)), NEW tr, NEW f,
           f.kind = kind, f.counter = b, f.to = h + 1 + Len(L!Wrong(b, kind)),
           kind \in {"stuck", "re"} => <<h + 2, h + 2>> \in tr,
           kind = "stray" => <<h + 2, h + 4>> \in tr
    PROVE  Unsound(o, tr, f, h, b)
<1> PICK q \in Seq(Driven) : q = L!Wrong(b, kind)
  BY WrongShapes
<1>0. Cycle \in Nat /\ ReSkew \in Nat /\ MaxDeHigh \in Nat
  BY LaNumbers
<1>1. Begins(o, h, q) /\ f.to = h + 1 + Len(q) /\ kind # "poll" /\ kind # "repeat"
  BY DEF L!Kinds
<1>2. \A i \in Nat : i > h + 1 =>
         o[i] = IF i - (h + 1) <= Len(q) THEN q[i - (h + 1)] ELSE L!Quiet
  BY <1>1 DEF Begins
<1>3. ~L!Quiet.de /\ L!Quiet.tx = L!Idle /\ ~o[h].de /\ ~o[h + 1].de
  BY <1>1 DEF L!Quiet, Begins
<1>4. CASE kind = "silent"
  <2>1. Len(q) = 0
    BY <1>4, WrongShapes
  <2>2. \A i \in Block(h) : ~o[i].de
    <3> TAKE i \in Block(h)
    <3>1. i \in Nat /\ i >= h
      BY <1>0 DEF Block
    <3>2. i = h \/ i = h + 1 => ~o[i].de
      BY <1>3
    <3>3. i > h + 1 => ~o[i].de
      BY <1>2, <1>3, <2>1, <3>1
    <3> QED BY <3>1, <3>2, <3>3
  <2> QED BY <1>1, <1>4, <2>2 DEF Unsound
<1>5. CASE kind = "crc"
  <2>1. Shaped(q, 1, 0, L!Broken) /\ Len(q) >= 4
    BY <1>5, WrongShapes
  <2>2. Sends(o, h, h + 2 + 1, 0, L!Broken)
    BY <1>1, <2>1, ShapedSends
  <2> QED BY <1>1, <1>5, <2>1, <2>2 DEF Unsound
<1>6. CASE kind = "parity"
  <2>1. Shaped(q, 1, 0, L!Parity) /\ Len(q) >= 4
    BY <1>6, WrongShapes
  <2>2. Sends(o, h, h + 2 + 1, 0, L!Parity)
    BY <1>1, <2>1, ShapedSends
  <2> QED BY <1>1, <1>6, <2>1, <2>2 DEF Unsound
<1>7. CASE kind = "stuck"
  <2>1. Shaped(q, 0, MaxDeHigh, b) /\ Len(q) >= 4
    BY <1>7, WrongShapes
  <2>2. Sends(o, h, h + 2 + 0, MaxDeHigh, b)
    BY <1>0, <1>1, <2>1, ShapedSends
  <2> QED BY <1>1, <1>7, <2>1, <2>2 DEF Unsound, Gives
<1>8. CASE kind = "early"
  <2>1. Len(q) = 3 /\ ~q[1].de /\ ~q[2].de /\ q[3].de /\ q[2].tx = L!Sof
    BY <1>8, WrongShapes
  <2>2. o[h + 2] = q[1] /\ o[h + 3] = q[2] /\ o[h + 4] = q[3] /\ o[h + 5] = L!Quiet
    BY <1>2, <2>1
  <2>3. On(o, h, h + 4, h + 4)
    <3> SUFFICES ASSUME NEW i \in Block(h) PROVE o[i].de <=> i \in (h + 4)..(h + 4)
      BY DEF On
    <3>1. i \in Nat /\ i >= h
      BY <1>0 DEF Block
    <3>2. i > h + 4 => ~o[i].de
      BY <1>2, <1>3, <2>1, <3>1, SMTT(60)
    <3>3. ~o[h].de /\ ~o[h + 1].de /\ ~o[h + 2].de /\ ~o[h + 3].de /\ o[h + 4].de
      BY <1>3, <2>1, <2>2
    <3>4. i = h \/ i = h + 1 \/ i = h + 2 \/ i = h + 3 \/ i = h + 4 \/ i > h + 4
      BY <3>1
    <3> QED BY <3>2, <3>3, <3>4
  <2> QED BY <1>1, <1>3, <1>8, <2>1, <2>2, <2>3, SMTT(60) DEF Unsound
<1>9. CASE kind = "stray"
  <2>1. Shaped(q, 2, 0, b) /\ Len(q) >= 4 /\ q[1].tx = L!Sof
    BY <1>9, WrongShapes
  <2>2. Sends(o, h, h + 2 + 2, 0, b)
    BY <1>1, <2>1, ShapedSends
  <2>3. o[h + 2] = q[1]
    BY <1>2, <2>1, SMTT(60)
  <2> QED BY <1>1, <1>9, <2>1, <2>2, <2>3 DEF Unsound, Gives
<1>10. CASE kind = "ghost"
  <2>1. Len(q) = 3 /\ ~q[1].de /\ q[2] = L!Drive(L!Idle) /\ q[3] = L!Drive(L!Idle)
    BY <1>10, WrongShapes
  <2>2. o[h + 2] = q[1] /\ o[h + 3] = q[2] /\ o[h + 4] = q[3] /\ o[h + 5] = L!Quiet
    BY <1>2, <2>1
  <2>3. L!Drive(L!Idle).de /\ L!Drive(L!Idle).tx = L!Idle
    BY DEF L!Drive
  <2>4. On(o, h, h + 3, h + 4)
    <3> SUFFICES ASSUME NEW i \in Block(h) PROVE o[i].de <=> i \in (h + 3)..(h + 4)
      BY DEF On
    <3>1. i \in Nat /\ i >= h
      BY <1>0 DEF Block
    <3>2. i > h + 4 => ~o[i].de
      BY <1>2, <1>3, <2>1, <3>1, SMTT(60)
    <3>3. ~o[h].de /\ ~o[h + 1].de /\ ~o[h + 2].de /\ o[h + 3].de /\ o[h + 4].de
      BY <1>3, <2>1, <2>2, <2>3
    <3>4. i = h \/ i = h + 1 \/ i = h + 2 \/ i = h + 3 \/ i = h + 4 \/ i > h + 4
      BY <3>1
    <3> QED BY <3>2, <3>3, <3>4, SMTT(60)
  <2>5. \A i \in (h + 3)..(h + 5) : o[i].tx = L!Idle
    <3> TAKE i \in (h + 3)..(h + 5)
    <3>1. i = h + 3 \/ i = h + 4 \/ i = h + 5
      OBVIOUS
    <3> QED BY <1>3, <2>1, <2>2, <2>3, <3>1, SMTT(60)
  <2> QED BY <1>1, <1>10, <2>1, <2>4, <2>5 DEF Unsound
<1>11. CASE kind = "re"
  <2>1. Shaped(q, 0, 0, b) /\ Len(q) = 5 + ReSkew /\ q[5 + ReSkew].re
    BY <1>11, WrongShapes
  <2>2. Sends(o, h, h + 2 + 0, 0, b)
    BY <1>0, <1>1, <2>1, ShapedSends
  <2>3. o[h + 6 + ReSkew].re
    <3> PICK i \in Nat : i = h + 6 + ReSkew
      BY <1>0
    <3>1. i > h + 1 /\ i - (h + 1) = 5 + ReSkew
      BY <1>0
    <3>2. o[i] = q[5 + ReSkew]
      BY <1>2, <2>1, <3>1
    <3> QED BY <2>1, <3>2
  <2> QED BY <1>0, <1>1, <1>11, <2>1, <2>2, <2>3 DEF Unsound, Gives
<1>12. CASE kind = "stale"
  <2>1. Shaped(q, 1, 0, Preceding(b)) /\ Len(q) >= 4
    BY <1>12, WrongShapes
  <2>2. Sends(o, h, h + 2 + 1, 0, Preceding(b))
    BY <1>1, <2>1, ShapedSends
  <2> QED BY <1>1, <1>12, <2>1, <2>2 DEF Unsound
<1> QED BY <1>4, <1>5, <1>6, <1>7, <1>8, <1>9, <1>10, <1>11, <1>12 DEF L!Kinds


\* What the accessory goes on to drive.
LEMMA RestedIs ==
    ASSUME laPlay \in Seq(Driven)
    PROVE  /\ L!Sounds \in Driven /\ L!Rested \in Seq(Driven)
           /\ laPlay = << >> => L!Rested = << >>
           /\ laPlay # << >> => Len(L!Rested) = Len(laPlay) - 1
           /\ Len(L!Rested) = 0 <=> L!Rested = << >>
<1>1. CASE laPlay = << >>
  <2>1. L!Sounds = L!Quiet /\ L!Rested = << >>
    BY <1>1 DEF L!Sounds, L!Rested
  <2>2. L!Quiet \in Driven
    BY DEF L!Quiet, Driven, L!Symbols
  <2> QED BY <1>1, <2>1, <2>2
<1>2. CASE laPlay # << >>
  <2>1. L!Sounds = laPlay[1] /\ L!Rested = Tail(laPlay)
    BY <1>2 DEF L!Sounds, L!Rested
  <2>2. laPlay[1] \in Driven /\ Tail(laPlay) \in Seq(Driven) /\ Len(Tail(laPlay)) = Len(laPlay) - 1
    BY <1>2
  <2>3. Tail(laPlay) = << >> <=> Len(Tail(laPlay)) = 0
    BY <2>2, EmptySeq
  <2> QED BY <1>2, <2>1, <2>2, <2>3
<1> QED BY <1>1, <1>2

\* The line goes on with a sample that is no counter.
LEMMA SameLine ==
    ASSUME laCap \in Seq(L!Sample), laPlay \in Seq(Driven), NEW v \in L!Sample,
           laCap' = Append(laCap, v), v.de = L!Sounds.de, v.re = L!Sounds.re,
           v.tx = L!Sounds.tx, laPlay' = L!Rested
    PROVE  \A i \in Nat \ {0} : Line'[i] = Line[i]
<1> TAKE i \in Nat \ {0}
<1>1. Out(i)' = Out(i)
  BY OutGoesOn
<1>2. Line[i] = Out(i)
  BY DEF Line
<1>3. Line'[i] = Out(i)'
  BY DEF Line
<1> QED BY <1>1, <1>2, <1>3

\* And at a counter it begins anew.
LEMMA NewLine ==
    ASSUME laCap \in Seq(L!Sample), laPlay = << >>, NEW v \in L!Sample,
           laCap' = Append(laCap, v), v.de = L!Sounds.de, v.re = L!Sounds.re,
           v.tx = L!Sounds.tx, NEW q \in Seq(Driven), laPlay' = q,
           NEW h \in Nat \ {0}, h = Len(laCap), ~laCap[h].de
    PROVE  (\A i \in 1..h : Line'[i] = Line[i]) /\ Begins(Line', h, q)
<1>1. \A i \in 1..(h + 1) : Out(i)' = Out(i)
  BY OutAnew
<1>2. \A i \in Nat : i > h + 1 =>
         Out(i)' = IF i - (h + 1) <= Len(q) THEN q[i - (h + 1)] ELSE L!Quiet
  BY OutAnew
<1>3. Out(h + 1) = L!Quiet
  BY OutAnew
<1>4. \A i \in Nat \ {0} : Line[i] = Out(i) /\ Line'[i] = Out(i)'
  BY DEF Line
<1>5. \A i \in 1..(h + 1) : Line'[i] = Line[i]
  <2> TAKE i \in 1..(h + 1)
  <2>1. Out(i)' = Out(i) /\ i \in Nat \ {0}
    BY <1>1
  <2> QED BY <1>4, <2>1
<1>6. ~Line[h].de
  <2>1. Line[h].de = laCap[h].de
    BY LineIs
  <2> QED BY <2>1
<1>7. Line[h + 1] = L!Quiet
  BY <1>3, <1>4, SMTT(60)
<1>8. ASSUME NEW i \in Nat, i > h + 1
      PROVE  Line'[i] = IF i - (h + 1) <= Len(q) THEN q[i - (h + 1)] ELSE L!Quiet
  <2>1. Out(i)' = IF i - (h + 1) <= Len(q) THEN q[i - (h + 1)] ELSE L!Quiet
    BY <1>2, <1>8
  <2> QED BY <1>4, <1>8, <2>1
<1> QED BY <1>5, <1>6, <1>7, <1>8 DEF Begins

\* What was said of the polls stays true when no other is added.
LEMMA OrderKept ==
    ASSUME NEW c, NEW c2, NEW f, NEW k, NEW tr, PolledOf(c2) = PolledOf(c),
           \A h \in PolledOf(c) : c2[h + 1] = c[h + 1],
           InSequence(c, f), LastIs(c, f, k), Traced(c, tr)
    PROVE  InSequence(c2, f) /\ LastIs(c2, f, k) /\ Traced(c2, tr)
<1>1. \A h \in PolledOf(c) : Meant(c2, f, h) = Meant(c, f, h)
  BY DEF Meant
<1> QED BY <1>1 DEF InSequence, LastIs, Traced

\* A byte time in which the bus only goes on keeps the invariant.
LEMMA GoesOn ==
    ASSUME LaInv, NEW v \in L!Sample, laCap' = Append(laCap, v), v.de = L!Sounds.de,
           v.re = L!Sounds.re, v.tx = L!Sounds.tx, v.rx \in {L!Sof, L!Idle},
           v.rx = L!Sof <=> L!Phase = 0, L!Phase # 1, laPlay' = L!Rested,
           UNCHANGED <<laCounter, laFault, laTruth>>
    PROVE  LaInv'
<1> PICK n \in Nat : n = Len(laCap)
  BY DEF LaInv, LaTypes
<1>0. laCap \in Seq(L!Sample) /\ laPlay \in Seq(Driven) /\ Cycle \in Nat /\ Cycle >= 7
  BY LaNumbers DEF LaInv, LaTypes
<1>1. /\ Len(laCap') = n + 1 /\ laCap' \in Seq(L!Sample)
      /\ laCap'[n + 1] = v /\ \A i \in 1..n : laCap'[i] = laCap[i]
      /\ L!Phase \in 0..(Cycle - 1)
      /\ L!Phase' = IF L!Phase = Cycle - 1 THEN 0 ELSE L!Phase + 1
  BY <1>0, OneMore
<1>2. /\ PolledOf(laCap') = PolledOf(laCap)
      /\ \A h \in PolledOf(laCap) : h \in 1..n /\ h + 1 \in 1..n
  BY <1>0, PolledStep DEF LaInv
<1>3. \A h \in PolledOf(laCap) : laCap'[h + 1] = laCap[h + 1]
  BY <1>1, <1>2
<1>4. Spaced'
  BY <1>0, SpacedStep DEF LaInv
<1>5. InSequence(laCap, laFault)' /\ LastIs(laCap, laFault, laCounter)' /\ Traced(laCap, laTruth)'
  <2>1. /\ InSequence(laCap', laFault) /\ LastIs(laCap', laFault, laCounter)
        /\ Traced(laCap', laTruth)
    BY <1>2, <1>3, OrderKept DEF LaInv
  <2> QED BY <2>1
<1>6. Framed(laCap)'
  <2>1. \A i \in 1..n : laCap[i].rx \notin {L!Idle, L!Sof} => i > 1 /\ laCap[i - 1].rx = L!Sof
    BY DEF LaInv, Framed
  <2>2. \A h \in PolledOf(laCap) : laCap[h + 1].rx \in 1..Counters \cup {L!Broken}
    BY DEF LaInv, Framed
  <2>3. ASSUME NEW i \in 1..(n + 1), laCap'[i].rx \notin {L!Idle, L!Sof}
        PROVE  i > 1 /\ laCap'[i - 1].rx = L!Sof
    <3>1. i # n + 1
      BY <1>1, <2>3
    <3>2. i \in 1..n /\ laCap'[i] = laCap[i]
      BY <1>1, <3>1
    <3>3. i > 1 /\ laCap[i - 1].rx = L!Sof
      BY <2>1, <2>3, <3>2
    <3>4. i - 1 \in 1..n
      BY <3>2, <3>3
    <3> QED BY <1>1, <3>3, <3>4
  <2>4. \A h \in PolledOf(laCap') : laCap'[h + 1].rx \in 1..Counters \cup {L!Broken}
    BY <1>2, <1>3, <2>2
  <2> QED BY <1>1, <2>3, <2>4 DEF Framed
<1>7. Hushed(laCap)'
  <2>1. \A h \in HeadsOf(laCap) : ~laCap[h].de
    BY DEF LaInv, Hushed
  <2>2. ASSUME NEW h \in 1..(n + 1), laCap'[h].rx = L!Sof PROVE ~laCap'[h].de
    <3>1. CASE h = n + 1
      <4>1. laPlay = << >>
        BY <1>1, <2>2, <3>1 DEF LaInv, LaTypes
      <4>2. L!Sounds = L!Quiet
        BY <4>1 DEF L!Sounds
      <4> QED BY <1>1, <3>1, <4>2 DEF L!Quiet
    <3>2. CASE h # n + 1
      <4>1. h \in 1..n /\ laCap'[h] = laCap[h]
        BY <1>1, <3>2
      <4> QED BY <2>1, <2>2, <4>1 DEF HeadsOf
    <3> QED BY <3>1, <3>2
  <2> QED BY <1>1, <2>2 DEF Hushed, HeadsOf
<1>8. Blocks(laCap, Line, laTruth, laFault)'
  <2>1. \A i \in Nat \ {0} : Line'[i] = Line[i]
    BY <1>0, SameLine
  <2>2. ASSUME NEW h \in PolledOf(laCap)
        PROVE  BlockIs(Line', laTruth, laFault, h, laCap[h + 1].rx)
    <3>1. BlockIs(Line, laTruth, laFault, h, laCap[h + 1].rx)
      BY DEF LaInv, Blocks
    <3>2. h \in Nat \ {0}
      BY <1>2
    <3>3. \A i \in 1..(h + Cycle) : Line'[i] = Line[i]
      BY <1>0, <2>1, <3>2
    <3> QED BY <3>1, <3>2, <3>3, BlockKept
  <2>3. \A h \in PolledOf(laCap') : BlockIs(Line', laTruth, laFault, h, laCap'[h + 1].rx)
    BY <1>2, <1>3, <2>2
  <2> QED BY <2>3 DEF Blocks
<1>9. LaTypes'
  <2>1. /\ laCounter \in 1..Counters
        /\ laFault \in [kind : FaultKinds \cup {"none"}, from : Nat, to : Nat, counter : 0..Counters]
        /\ laFault.kind = "none" <=> laFault = L!NoFault
        /\ laFault # L!NoFault => laFault.from - 1 \in PolledOf(laCap) /\ laFault.to >= laFault.from
    BY DEF LaInv, LaTypes
  <2>2. /\ L!Phase = 0 => laPlay = << >>
        /\ L!Phase >= 2 => Len(laPlay) + L!Phase <= Cycle
    BY DEF LaInv, LaTypes
  <2>3. /\ laPlay' \in Seq(Driven)
        /\ laPlay = << >> => laPlay' = << >>
        /\ laPlay # << >> => Len(laPlay') = Len(laPlay) - 1
        /\ Len(laPlay') = 0 <=> laPlay' = << >>
    BY <1>0, RestedIs
  <2>4. L!Phase' \in {0, 1} => laPlay' = << >>
    <3>1. CASE L!Phase = 0
      BY <2>2, <2>3, <3>1
    <3>2. CASE L!Phase >= 2
      <4>1. L!Phase' \in {0, 1} => L!Phase = Cycle - 1
        BY <1>0, <1>1, <3>2
      <4>2. CASE laPlay = << >>
        BY <2>3, <4>2
      <4>3. CASE laPlay # << >>
        BY <1>0, <2>2, <2>3, <3>2, <4>1, <4>3
      <4> QED BY <4>2, <4>3
    <3> QED BY <1>1, <3>1, <3>2
  <2>5. L!Phase' >= 2 => Len(laPlay') + L!Phase' <= Cycle
    <3>1. CASE L!Phase = 0
      BY <1>0, <1>1, <3>1
    <3>2. CASE L!Phase >= 2
      <4>1. CASE laPlay = << >>
        <5>1. Len(laPlay') = 0
          BY <2>3, <4>1
        <5> QED BY <1>0, <1>1, <5>1
      <4>2. CASE laPlay # << >>
        BY <1>0, <1>1, <2>2, <2>3, <3>2, <4>2
      <4> QED BY <4>1, <4>2
    <3> QED BY <1>1, <3>1, <3>2
  <2> QED BY <1>1, <1>2, <2>1, <2>3, <2>4, <2>5 DEF LaTypes
<1> QED BY <1>4, <1>5, <1>6, <1>7, <1>8, <1>9 DEF LaInv

\* No counter is one of the other meanings of a byte.
LEMMA CountersAre ==
    /\ L!Sof \notin 1..Counters /\ L!Idle \notin 1..Counters
    /\ L!Broken \notin {L!Sof, L!Idle} /\ L!Broken \notin 1..Counters
    /\ L!Parity \notin 1..Counters /\ L!Parity # L!Sof /\ L!Sof # L!Idle
BY LaNumbers DEF L!Sof, L!Idle, L!Broken, L!Parity

\* The counters meant, when a poll is added after all others.
LEMMA OrderGoesOn ==
    ASSUME NEW c, NEW c2, NEW f, NEW f2, NEW k, NEW k2 \in 1..Counters, NEW h \in Nat \ {0},
           PolledOf(c2) = PolledOf(c) \cup {h}, \A g \in PolledOf(c) : g \in Nat /\ g + Cycle <= h,
           \A g \in PolledOf(c) : c2[g + 1] = c[g + 1],
           \A g \in PolledOf(c) : Wrongs(f2, g) <=> Wrongs(f, g),
           \A g \in PolledOf(c) : Wrongs(f, g) => f2 = f,
           InSequence(c, f), LastIs(c, f, k), Meant(c2, f2, h) = k2,
           k2 = IF Wrongs(f2, h) /\ f2.kind = "repeat" THEN k ELSE L!NextCounter(k)
    PROVE  InSequence(c2, f2) /\ LastIs(c2, f2, k2)
<1> PICK P : P = PolledOf(c)
  OBVIOUS
<1>0. Cycle \in Nat /\ Cycle >= 7
  BY LaNumbers
<1>1. \A g \in P : Meant(c2, f2, g) = Meant(c, f, g)
  BY DEF Meant
<1>2. PolledOf(c2) = P \cup {h} /\ h \notin P /\ \A g \in P : g \in Nat /\ g + Cycle <= h
  BY <1>0
<1>3. \A g \in PolledOf(c2) : Meant(c2, f2, g) \in 1..Counters
  BY <1>1, <1>2 DEF InSequence
<1>4. ASSUME NEW g \in PolledOf(c2), NEW i \in PolledOf(c2), i = g + Cycle
      PROVE  Meant(c2, f2, i) = IF Wrongs(f2, i) /\ f2.kind = "repeat" THEN Meant(c2, f2, g)
                                ELSE L!NextCounter(Meant(c2, f2, g))
  <2>1. g \in P
    BY <1>0, <1>2, <1>4
  <2>2. CASE i \in P
    <3>1. Meant(c, f, i) = IF Wrongs(f, i) /\ f.kind = "repeat" THEN Meant(c, f, g)
                           ELSE L!NextCounter(Meant(c, f, g))
      BY <1>4, <2>1, <2>2 DEF InSequence
    <3>2. (Wrongs(f2, i) <=> Wrongs(f, i)) /\ (Wrongs(f, i) => f2 = f)
      BY <2>2
    <3> QED BY <1>1, <2>1, <2>2, <3>1, <3>2
  <2>3. CASE i = h
    <3>1. \A j \in P : j <= g
      BY <1>0, <1>2, <1>4, <2>1, <2>3
    <3>2. k = Meant(c, f, g)
      BY <2>1, <3>1 DEF LastIs
    <3> QED BY <1>1, <2>1, <2>3, <3>2
  <2> QED BY <1>2, <2>2, <2>3
<1>5. ASSUME NEW g \in PolledOf(c2), \A j \in PolledOf(c2) : j <= g
      PROVE  k2 = Meant(c2, f2, g)
  <2>1. h <= g
    BY <1>2, <1>5
  <2>2. g = h
    BY <1>0, <1>2, <2>1
  <2> QED BY <2>2
<1> QED BY <1>3, <1>4, <1>5 DEF InSequence, LastIs

\* The counter byte of a poll keeps the invariant, whatever the accessory is to
\* answer.
LEMMA Asks ==
    ASSUME LaInv, NEW v \in L!Sample, laCap' = Append(laCap, v), v.de = L!Sounds.de,
           v.re = L!Sounds.re, v.tx = L!Sounds.tx, L!Phase = 1,
           NEW h \in Nat \ {0}, h = Len(laCap), v.rx \in 1..Counters \cup {L!Broken},
           NEW q \in Seq(Driven), laPlay' = q, Len(q) + 2 <= Cycle,
           laCounter' \in 1..Counters, laTruth \subseteq laTruth',
           \A x \in laTruth' \ laTruth : \E late \in 0..2 : x = <<h + 2, h + 2 + late>>,
           \/ laFault' = laFault /\ v.rx = laCounter' /\ laCounter' = L!NextCounter(laCounter)
           \/ /\ laFault = L!NoFault
              /\ laFault' \in [kind : FaultKinds, from : Nat, to : Nat, counter : 0..Counters]
              /\ laFault'.from = h + 1 /\ laFault'.to >= h + 1 /\ laFault'.counter = laCounter'
              /\ laCounter' = IF laFault'.kind = "repeat" THEN laCounter
                              ELSE L!NextCounter(laCounter),
           Begins(Line', h, q) => BlockIs(Line', laTruth', laFault', h, v.rx)
    PROVE  LaInv'
<1>0. laCap \in Seq(L!Sample) /\ laPlay = << >> /\ laPlay \in Seq(Driven)
      /\ Cycle \in Nat /\ Cycle >= 7
  BY LaNumbers DEF LaInv, LaTypes
<1>1. /\ Len(laCap') = h + 1 /\ laCap' \in Seq(L!Sample)
      /\ laCap'[h + 1] = v /\ \A i \in 1..h : laCap'[i] = laCap[i]
      /\ L!Phase' = 2
  BY <1>0, OneMore
<1>a. v.rx # L!Sof /\ v.rx # L!Idle
  BY CountersAre
<1> PICK P : P = PolledOf(laCap)
  OBVIOUS
<1>2. /\ PolledOf(laCap') = P \cup {h} /\ h \in Heads /\ h \notin P
      /\ \A g \in P : g + Cycle <= h /\ g \in 1..h /\ g + 1 \in 1..h
  BY <1>0, <1>a, PolledStep DEF LaInv
<1>3. \A g \in P : laCap'[g + 1] = laCap[g + 1]
  BY <1>1, <1>2
<1>4. Spaced'
  BY <1>0, <1>a, SpacedStep DEF LaInv
<1>5. laCap[h].rx = L!Sof /\ ~laCap[h].de
  BY <1>2 DEF LaInv, Hushed, Heads, HeadsOf
<1>6. /\ laFault = L!NoFault => laFault.from = 0
      /\ laFault # L!NoFault => laFault.from - 1 \in P
      /\ laFault.from \in Nat
  BY DEF LaInv, LaTypes, L!NoFault
<1>7. ASSUME NEW g \in P
      PROVE  (Wrongs(laFault', g) <=> Wrongs(laFault, g)) /\ (Wrongs(laFault, g) => laFault' = laFault)
  BY <1>2, <1>6 DEF Wrongs
<1>8. laFault' = laFault => ~Wrongs(laFault', h)
  BY <1>2, <1>6 DEF Wrongs
<1>9. laFault' # laFault => Wrongs(laFault', h)
  BY DEF Wrongs
<1>10. Meant(laCap', laFault', h) = laCounter'
  BY <1>1, <1>8 DEF Meant, Wrongs
<1>11. InSequence(laCap', laFault') /\ LastIs(laCap', laFault', laCounter')
  <2>1. laCounter' = IF Wrongs(laFault', h) /\ laFault'.kind = "repeat" THEN laCounter
                     ELSE L!NextCounter(laCounter)
    BY <1>8 DEF Wrongs
  <2>2. InSequence(laCap, laFault) /\ LastIs(laCap, laFault, laCounter)
    BY DEF LaInv
  <2>3. \A g \in P : g \in Nat /\ g + Cycle <= h
    BY <1>2
  <2> QED BY <1>2, <1>3, <1>7, <1>10, <2>1, <2>2, <2>3, OrderGoesOn, ZenonT(60)
<1>12. Traced(laCap, laTruth)'
  <2>1. \A x \in laTruth : \E g \in P, late \in 0..2 : x = <<g + 2, g + 2 + late>>
    BY DEF LaInv, Traced
  <2>2. \A x \in laTruth' : \E g \in P \cup {h}, late \in 0..2 : x = <<g + 2, g + 2 + late>>
    <3> TAKE x \in laTruth'
    <3>1. CASE x \in laTruth
      BY <2>1, <3>1
    <3>2. CASE x \notin laTruth
      <4>1. \E late \in 0..2 : x = <<h + 2, h + 2 + late>>
        BY <3>2
      <4> QED BY <4>1
    <3> QED BY <3>1, <3>2
  <2> QED BY <1>2, <2>2 DEF Traced
<1>13. Framed(laCap)'
  <2>1. \A i \in 1..h : laCap[i].rx \notin {L!Idle, L!Sof} => i > 1 /\ laCap[i - 1].rx = L!Sof
    BY DEF LaInv, Framed
  <2>2. \A g \in P : laCap[g + 1].rx \in 1..Counters \cup {L!Broken}
    BY DEF LaInv, Framed
  <2>3. ASSUME NEW i \in 1..(h + 1), laCap'[i].rx \notin {L!Idle, L!Sof}
        PROVE  i > 1 /\ laCap'[i - 1].rx = L!Sof
    <3>1. CASE i = h + 1
      BY <1>1, <1>5, <3>1
    <3>2. CASE i # h + 1
      <4>1. i \in 1..h /\ laCap'[i] = laCap[i]
        BY <1>1, <3>2
      <4>2. i > 1 /\ laCap[i - 1].rx = L!Sof
        BY <2>1, <2>3, <4>1
      <4>3. i - 1 \in 1..h
        BY <4>1, <4>2
      <4> QED BY <1>1, <4>2, <4>3
    <3> QED BY <3>1, <3>2
  <2>4. \A g \in PolledOf(laCap') : laCap'[g + 1].rx \in 1..Counters \cup {L!Broken}
    BY <1>1, <1>2, <1>3, <2>2
  <2> QED BY <1>1, <2>3, <2>4 DEF Framed
<1>14. Hushed(laCap)'
  <2>1. \A g \in HeadsOf(laCap) : ~laCap[g].de
    BY DEF LaInv, Hushed
  <2>2. ASSUME NEW g \in 1..(h + 1), laCap'[g].rx = L!Sof PROVE ~laCap'[g].de
    <3>1. g # h + 1
      BY <1>1, <1>a, <2>2
    <3>2. g \in 1..h /\ laCap'[g] = laCap[g]
      BY <1>1, <3>1
    <3> QED BY <2>1, <2>2, <3>2 DEF HeadsOf
  <2> QED BY <1>1, <2>2 DEF Hushed, HeadsOf
<1>15. Blocks(laCap, Line, laTruth, laFault)'
  <2>1. (\A i \in 1..h : Line'[i] = Line[i]) /\ Begins(Line', h, q)
    BY <1>0, <1>5, NewLine
  <2>2. ASSUME NEW g \in P
        PROVE  BlockIs(Line', laTruth', laFault', g, laCap[g + 1].rx)
    <3>1. BlockIs(Line, laTruth, laFault, g, laCap[g + 1].rx)
      BY DEF LaInv, Blocks
    <3>2. g \in Nat \ {0}
      BY <1>2
    <3>3. \A i \in 1..(g + Cycle) : Line'[i] = Line[i]
      BY <1>0, <1>2, <2>1, <3>2
    <3> QED BY <1>7, <3>1, <3>2, <3>3, BlockKept
  <2>3. BlockIs(Line', laTruth', laFault', h, laCap'[h + 1].rx)
    BY <1>1, <2>1
  <2>4. \A g \in PolledOf(laCap') : BlockIs(Line', laTruth', laFault', g, laCap'[g + 1].rx)
    BY <1>2, <1>3, <2>2, <2>3
  <2> QED BY <2>4 DEF Blocks
<1>16. LaTypes'
  <2>1. /\ laFault \in [kind : FaultKinds \cup {"none"}, from : Nat, to : Nat, counter : 0..Counters]
        /\ laFault.kind = "none" <=> laFault = L!NoFault
        /\ laFault # L!NoFault => laFault.from - 1 \in P /\ laFault.to >= laFault.from
    BY DEF LaInv, LaTypes
  <2>2. CASE laFault' = laFault
    BY <1>0, <1>1, <1>2, <2>1, <2>2 DEF LaTypes
  <2>3. CASE laFault' # laFault
    <3>1. /\ laFault' \in [kind : FaultKinds, from : Nat, to : Nat, counter : 0..Counters]
          /\ laFault'.from = h + 1 /\ laFault'.to >= h + 1
      BY <2>3
    <3>2. laFault'.kind # "none" /\ laFault' # L!NoFault
      BY <3>1 DEF FaultKinds, L!Kinds, L!NoFault
    <3>3. laFault' \in [kind : FaultKinds \cup {"none"}, from : Nat, to : Nat, counter : 0..Counters]
      BY <3>1
    <3>4. laFault'.from - 1 \in PolledOf(laCap') /\ laFault'.to >= laFault'.from
      BY <1>2, <3>1
    <3> QED BY <1>0, <1>1, <3>2, <3>3, <3>4 DEF LaTypes
  <2> QED BY <2>2, <2>3
<1> QED BY <1>4, <1>11, <1>12, <1>13, <1>14, <1>15, <1>16 DEF LaInv


\* An answer as it should be, or one to a repeated counter.
LEMMA AnswerBegins ==
    ASSUME NEW o, NEW h \in Nat \ {0}, NEW b \in 1..Counters, NEW late \in 0..1,
           Begins(o, h, L!Answer(b, late, 0)), NEW tr, <<h + 2, h + 2 + late>> \in tr
    PROVE  /\ L!Answer(b, late, 0) \in Seq(Driven) /\ Len(L!Answer(b, late, 0)) = late + 3 + ReSkew
           /\ Gives(o, tr, h, h + 2 + late, 0, b)
<1>1. b \in L!Symbols /\ late \in Nat /\ 0 \in Nat /\ ReSkew \in Nat
  BY LaNumbers DEF L!Symbols
<1>2. /\ Shaped(L!Answer(b, late, 0), late, 0, b)
      /\ Len(L!Answer(b, late, 0)) = late + 3 + 0 + ReSkew
  BY <1>1, AnswerShaped, Zenon
<1>3. Sends(o, h, h + 2 + late, 0, b)
  BY <1>1, <1>2, ShapedSends
<1> QED BY <1>1, <1>2, <1>3 DEF Gives, Shaped

\* An answer is a sequence of samples, of this length.
LEMMA AnswerTyped ==
    ASSUME NEW b \in 1..Counters, NEW late \in 0..1
    PROVE  L!Answer(b, late, 0) \in Seq(Driven) /\ Len(L!Answer(b, late, 0)) = late + 3 + ReSkew
<1>1. b \in L!Symbols /\ late \in Nat /\ 0 \in Nat /\ ReSkew \in Nat
  BY LaNumbers DEF L!Symbols
<1>2. /\ Shaped(L!Answer(b, late, 0), late, 0, b)
      /\ Len(L!Answer(b, late, 0)) = late + 3 + 0 + ReSkew
  BY <1>1, AnswerShaped, Zenon
<1> QED BY <1>1, <1>2 DEF Shaped

\* One byte time of the bus.
LEMMA LaTick ==
    ASSUME LaInv, L!Tick
    PROVE  LaInv'
<1>0. /\ laCap \in Seq(L!Sample) /\ laPlay \in Seq(Driven) /\ laCounter \in 1..Counters
      /\ Cycle \in Nat /\ Cycle >= 7 /\ Cycle >= 2 * ReSkew + 7 /\ ReSkew \in Nat
      /\ Counters \in Nat /\ Counters >= 2
      /\ L!Phase \in 0..(Cycle - 1)
  <2>1. laCap \in Seq(L!Sample) /\ laPlay \in Seq(Driven) /\ laCounter \in 1..Counters
    BY DEF LaInv, LaTypes
  <2>2. Cycle \in Nat \ {0} /\ Len(laCap) \in Nat
    BY <2>1, LaNumbers
  <2>3. L!Phase \in 0..(Cycle - 1)
    BY <2>2, Divided DEF L!Phase
  <2> QED BY <2>1, <2>3, LaNumbers
<1> DEFINE v(rx) == [de |-> L!Sounds.de, re |-> L!Sounds.re, tx |-> L!Sounds.tx, rx |-> rx]
<1>1. ASSUME NEW rx \in L!Symbols
      PROVE  /\ v(rx) \in L!Sample /\ v(rx).de = L!Sounds.de /\ v(rx).re = L!Sounds.re
             /\ v(rx).tx = L!Sounds.tx /\ v(rx).rx = rx
             /\ L!Put(rx) => laCap' = Append(laCap, v(rx))
  <2>1. L!Sounds \in Driven
    BY <1>0, RestedIs
  <2> QED BY <2>1 DEF Driven, L!Sample, L!Put
<1> HIDE DEF v
<1>2. /\ L!Sof \in L!Symbols /\ L!Idle \in L!Symbols /\ L!Broken \in L!Symbols
      /\ 1..Counters \subseteq L!Symbols
  BY DEF L!Symbols
<1>3. CASE L!Phase = 0
  <2>1. L!Put(L!Sof) /\ laPlay' = L!Rested /\ UNCHANGED <<laCounter, laFault, laTruth>>
    BY <1>3 DEF L!Tick
  <2> QED BY <1>1, <1>2, <1>3, <2>1, GoesOn
<1>4. CASE L!Phase # 0 /\ L!Phase # 1
  <2>1. L!Put(L!Idle) /\ laPlay' = L!Rested /\ UNCHANGED <<laCounter, laFault, laTruth>>
    BY <1>4 DEF L!Tick
  <2>2. L!Idle # L!Sof
    BY CountersAre
  <2> QED BY <1>1, <1>2, <1>4, <2>1, <2>2, GoesOn
<1>5. CASE L!Phase = 1
  <2> PICK h \in Nat \ {0} : h = Len(laCap)
    <3>1. Len(laCap) # 0
      <4> SUFFICES ASSUME Len(laCap) = 0 PROVE FALSE
        OBVIOUS
      <4>1. 0 % Cycle = 0
        <5>1. 0 % Cycle \in 0..(Cycle - 1)
          BY <1>0
        <5>2. 0 = Cycle * (0 \div Cycle) + (0 % Cycle) /\ 0 \div Cycle \in Nat
          BY <1>0, Divided
        <5> PICK x \in Nat : x = 0 \div Cycle
          BY <5>2
        <5>3. Cycle * x \in Nat
          BY <1>0
        <5> QED BY <5>1, <5>2, <5>3
      <4> QED BY <1>5, <4>1 DEF L!Phase
    <3> QED BY <1>0, <3>1
  <2>0. L!Now = h + 1
    BY DEF L!Now
  <2>1. ASSUME NEW rx \in 1..Counters \cup {L!Broken}, L!Put(rx), NEW q \in Seq(Driven),
               laPlay' = q, Len(q) + 2 <= Cycle, laCounter' \in 1..Counters,
               laTruth \subseteq laTruth',
               \A x \in laTruth' \ laTruth : \E late \in 0..2 : x = <<h + 2, h + 2 + late>>,
               \/ laFault' = laFault /\ rx = laCounter' /\ laCounter' = L!NextCounter(laCounter)
               \/ /\ laFault = L!NoFault
                  /\ laFault' \in [kind : FaultKinds, from : Nat, to : Nat, counter : 0..Counters]
                  /\ laFault'.from = h + 1 /\ laFault'.to >= h + 1 /\ laFault'.counter = laCounter'
                  /\ laCounter' = IF laFault'.kind = "repeat" THEN laCounter
                                  ELSE L!NextCounter(laCounter),
               Begins(Line', h, q) => BlockIs(Line', laTruth', laFault', h, rx)
        PROVE  LaInv'
    <3>1. rx \in L!Symbols
      BY <1>2
    <3> QED BY <1>1, <1>5, <2>1, <3>1, Asks, ZenonT(60)
  <2>2. laFault.from # h + 1
    <3>1. h \notin PolledOf(laCap)
      BY DEF PolledOf
    <3>2. h # 0
      OBVIOUS
    <3>3. laFault.from - 1 # h
      BY <3>1, <3>2 DEF LaInv, LaTypes, L!NoFault
    <3>4. laFault.from \in Nat
      BY DEF LaInv, LaTypes
    <3> QED BY <3>3, <3>4
  <2>3. L!NextCounter(laCounter) \in 1..Counters
    BY <1>0 DEF L!NextCounter
  <2>4. ASSUME NEW kind, L!Blame(kind), kind \in FaultKinds, laCounter' \in 1..Counters,
               laPlay' \in Seq(Driven)
        PROVE  /\ laFault = L!NoFault
               /\ laFault' \in [kind : FaultKinds, from : Nat, to : Nat, counter : 0..Counters]
               /\ laFault'.kind = kind
               /\ laFault'.from = h + 1 /\ laFault'.to >= h + 1 /\ laFault'.counter = laCounter'
               /\ laFault'.to = h + 1 + Len(laPlay')
    <3>1. laFault = L!NoFault /\ laFault' = [kind |-> kind, from |-> h + 1,
                                             to |-> h + 1 + Len(laPlay'), counter |-> laCounter']
      BY <2>0, <2>4 DEF L!Blame
    <3>2. Len(laPlay') \in Nat
      BY <2>4
    <3> QED BY <2>4, <3>1, <3>2
  <2>5. CASE \E late \in 0..1 :
               /\ laCounter' = L!NextCounter(laCounter) /\ L!Put(laCounter')
               /\ laPlay' = L!Answer(laCounter', late, 0)
               /\ laTruth' = laTruth \cup {<<h + 2, h + 2 + late>>}
               /\ UNCHANGED laFault
    <3> PICK late \in 0..1 :
               /\ laCounter' = L!NextCounter(laCounter) /\ L!Put(laCounter')
               /\ laPlay' = L!Answer(laCounter', late, 0)
               /\ laTruth' = laTruth \cup {<<h + 2, h + 2 + late>>}
               /\ UNCHANGED laFault
      BY <2>5
    <3> PICK b \in 1..Counters : b = laCounter'
      BY <2>3
    <3>1. laPlay' \in Seq(Driven) /\ Len(laPlay') + 2 <= Cycle
      <4>1. L!Answer(b, late, 0) \in Seq(Driven) /\ Len(L!Answer(b, late, 0)) = late + 3 + ReSkew
        BY AnswerTyped
      <4> QED BY <1>0, <4>1
    <3>2. ASSUME Begins(Line', h, laPlay') PROVE BlockIs(Line', laTruth', laFault', h, b)
      <4>1. Gives(Line', laTruth', h, h + 2 + late, 0, b)
        BY <3>2, AnswerBegins
      <4>2. ~Wrongs(laFault', h)
        BY <2>2 DEF Wrongs
      <4> QED BY <4>1, <4>2 DEF BlockIs, Sound
    <3>3. \A x \in laTruth' \ laTruth : \E l \in 0..2 : x = <<h + 2, h + 2 + l>>
      OBVIOUS
    <3> QED BY <2>1, <3>1, <3>2, <3>3
  <2>6. CASE \E kind \in L!Kinds :
               /\ laCounter' = L!NextCounter(laCounter) /\ L!Put(laCounter')
               /\ laPlay' = L!Wrong(laCounter', kind) /\ L!Blame(kind)
               /\ laTruth' = IF kind \in {"stuck", "re", "stray"}
                            THEN laTruth \cup {<<h + 2, h + 2 + IF kind = "stray" THEN 2 ELSE 0>>}
                            ELSE laTruth
    <3> PICK kind \in L!Kinds :
               /\ laCounter' = L!NextCounter(laCounter) /\ L!Put(laCounter')
               /\ laPlay' = L!Wrong(laCounter', kind) /\ L!Blame(kind)
               /\ laTruth' = IF kind \in {"stuck", "re", "stray"}
                            THEN laTruth \cup {<<h + 2, h + 2 + IF kind = "stray" THEN 2 ELSE 0>>}
                            ELSE laTruth
      BY <2>6
    <3> PICK b \in 1..Counters : b = laCounter'
      BY <2>3
    <3>1. laPlay' \in Seq(Driven) /\ Len(laPlay') + 2 <= Cycle
      BY WrongShapes
    <3>2. kind \in FaultKinds /\ kind # "repeat"
      BY DEF FaultKinds, L!Kinds
    <3>3. /\ laFault = L!NoFault
          /\ laFault' \in [kind : FaultKinds, from : Nat, to : Nat, counter : 0..Counters]
          /\ laFault'.kind = kind
          /\ laFault'.from = h + 1 /\ laFault'.to >= h + 1 /\ laFault'.counter = laCounter'
          /\ laFault'.to = h + 1 + Len(laPlay')
      BY <2>4, <3>1, <3>2
    <3>4. ASSUME Begins(Line', h, laPlay') PROVE BlockIs(Line', laTruth', laFault', h, b)
      <4>1. kind \in {"stuck", "re"} => <<h + 2, h + 2>> \in laTruth'
        OBVIOUS
      <4>2. kind = "stray" => <<h + 2, h + 4>> \in laTruth'
        OBVIOUS
      <4>3. Unsound(Line', laTruth', laFault', h, b)
        BY <3>3, <3>4, <4>1, <4>2, WrongBegins
      <4>4. Wrongs(laFault', h)
        BY <3>3 DEF Wrongs
      <4> QED BY <4>3, <4>4 DEF BlockIs
    <3>5. \A x \in laTruth' \ laTruth : \E l \in 0..2 : x = <<h + 2, h + 2 + l>>
      OBVIOUS
    <3>6. laTruth \subseteq laTruth'
      OBVIOUS
    <3> QED BY <2>1, <3>1, <3>2, <3>3, <3>4, <3>5, <3>6
  <2>7. CASE /\ laCounter' = L!NextCounter(laCounter) /\ L!Put(L!Broken)
             /\ laPlay' = << >> /\ L!Blame("poll") /\ UNCHANGED laTruth
    <3>1. laPlay' \in Seq(Driven) /\ Len(laPlay') = 0
      BY <2>7
    <3>2. "poll" \in FaultKinds
      BY DEF FaultKinds
    <3>3. /\ laFault = L!NoFault
          /\ laFault' \in [kind : FaultKinds, from : Nat, to : Nat, counter : 0..Counters]
          /\ laFault'.kind = "poll"
          /\ laFault'.from = h + 1 /\ laFault'.to >= h + 1 /\ laFault'.counter = laCounter'
      BY <2>3, <2>4, <2>7, <3>1, <3>2
    <3>4. ASSUME Begins(Line', h, laPlay') PROVE BlockIs(Line', laTruth', laFault', h, L!Broken)
      <4>1. \A i \in Block(h) : ~Line'[i].de
        <5> TAKE i \in Block(h)
        <5>1. i \in Nat /\ i >= h
          BY <1>0 DEF Block
        <5>2. i = h \/ i = h + 1 => ~Line'[i].de
          BY <3>4 DEF Begins, L!Quiet
        <5>3. i > h + 1 => Line'[i] = L!Quiet
          BY <3>1, <3>4, <5>1 DEF Begins
        <5> QED BY <5>1, <5>2, <5>3 DEF L!Quiet
      <4>2. Wrongs(laFault', h)
        BY <3>3 DEF Wrongs
      <4> QED BY <3>3, <4>1, <4>2 DEF BlockIs, Unsound
    <3>5. /\ laTruth \subseteq laTruth'
          /\ \A x \in laTruth' \ laTruth : \E l \in 0..2 : x = <<h + 2, h + 2 + l>>
      BY <2>7
    <3>6. /\ L!Broken \in 1..Counters \cup {L!Broken} /\ L!Put(L!Broken)
          /\ laCounter' = L!NextCounter(laCounter) /\ laCounter' \in 1..Counters
          /\ Len(laPlay') + 2 <= Cycle
      BY <1>0, <2>3, <2>7, <3>1
    <3>7. laFault'.kind # "repeat"
      BY <3>3
    <3> QED BY <2>1, <3>1, <3>3, <3>4, <3>5, <3>6, <3>7
  <2>8. CASE /\ UNCHANGED laCounter /\ L!Put(laCounter)
             /\ laPlay' = L!Answer(laCounter, 0, 0) /\ L!Blame("repeat")
             /\ laTruth' = laTruth \cup {<<h + 2, h + 2>>}
    <3> PICK b \in 1..Counters : b = laCounter
      BY <1>0
    <3>1. laPlay' \in Seq(Driven) /\ Len(laPlay') + 2 <= Cycle /\ Len(laPlay') >= 3
      <4>0. 0 \in 0..1
        OBVIOUS
      <4>1. L!Answer(b, 0, 0) \in Seq(Driven) /\ Len(L!Answer(b, 0, 0)) = 0 + 3 + ReSkew
        BY <4>0, AnswerTyped, Zenon
      <4> QED BY <1>0, <2>8, <4>1
    <3>2. "repeat" \in FaultKinds
      BY DEF FaultKinds
    <3>3. /\ laFault = L!NoFault
          /\ laFault' \in [kind : FaultKinds, from : Nat, to : Nat, counter : 0..Counters]
          /\ laFault'.kind = "repeat"
          /\ laFault'.from = h + 1 /\ laFault'.to >= h + 1 /\ laFault'.counter = laCounter'
          /\ laFault'.to = h + 1 + Len(laPlay')
      BY <1>0, <2>4, <2>8, <3>1, <3>2
    <3>4. ASSUME Begins(Line', h, laPlay') PROVE BlockIs(Line', laTruth', laFault', h, b)
      <4>1. Gives(Line', laTruth', h, h + 2, 0, b)
        <5>1. 0 \in 0..1 /\ h + 2 + 0 = h + 2
          OBVIOUS
        <5>2. <<h + 2, h + 2 + 0>> \in laTruth'
          BY <2>8, <5>1
        <5>3. Gives(Line', laTruth', h, h + 2 + 0, 0, b)
          BY <2>8, <3>4, <5>1, <5>2, AnswerBegins
        <5> QED BY <5>1, <5>3
      <4>2. Wrongs(laFault', h)
        BY <3>3 DEF Wrongs
      <4>3. laFault'.to >= h + 4 /\ laFault'.counter = b
        BY <2>8, <3>1, <3>3
      <4> QED BY <3>3, <4>1, <4>2, <4>3 DEF BlockIs, Unsound
    <3>5. \A x \in laTruth' \ laTruth : \E l \in 0..2 : x = <<h + 2, h + 2 + l>>
      <4>1. \A x \in laTruth' \ laTruth : x = <<h + 2, h + 2 + 0>>
        BY <2>8
      <4> QED BY <4>1
    <3>6. laTruth \subseteq laTruth'
      BY <2>8
    <3> QED BY <1>0, <2>1, <2>8, <3>1, <3>3, <3>4, <3>5, <3>6
  <2>9. \/ \E late \in 0..1 :
               /\ laCounter' = L!NextCounter(laCounter) /\ L!Put(laCounter')
               /\ laPlay' = L!Answer(laCounter', late, 0)
               /\ laTruth' = laTruth \cup {<<h + 2, h + 2 + late>>}
               /\ UNCHANGED laFault
        \/ \E kind \in L!Kinds :
               /\ laCounter' = L!NextCounter(laCounter) /\ L!Put(laCounter')
               /\ laPlay' = L!Wrong(laCounter', kind) /\ L!Blame(kind)
               /\ laTruth' = IF kind \in {"stuck", "re", "stray"}
                            THEN laTruth \cup {<<h + 2, h + 2 + IF kind = "stray" THEN 2 ELSE 0>>}
                            ELSE laTruth
        \/ /\ laCounter' = L!NextCounter(laCounter) /\ L!Put(L!Broken)
           /\ laPlay' = << >> /\ L!Blame("poll") /\ UNCHANGED laTruth
        \/ /\ UNCHANGED laCounter /\ L!Put(laCounter)
           /\ laPlay' = L!Answer(laCounter, 0, 0) /\ L!Blame("repeat")
           /\ laTruth' = laTruth \cup {<<h + 2, h + 2>>}
    <3>1. L!Now + 1 = h + 2
      BY <2>0
    <3>2. 1 # 0 /\ L!Phase # 0
      BY <1>5
    <3> QED BY <1>5, <3>1, <3>2 DEF L!Tick
  <2> QED BY <2>5, <2>6, <2>7, <2>8, <2>9
<1> QED BY <1>3, <1>4, <1>5


-----------------------------------------------------------------------------
\* What the invariant says of the capture c, the line o, the answers on record and the
\* fault, and what the verifier sees of it when k samples are cut off.
Bus(c, o, tr, f) ==
    /\ c \in Seq(L!Sample)
    /\ \A i \in 1..Len(c) : o[i].de = c[i].de /\ o[i].re = c[i].re /\ o[i].tx = c[i].tx
    /\ \A g, h \in HeadsOf(c) : g < h => g + Cycle <= h
    /\ \A h \in HeadsOf(c) : h = 1 \/ h - Cycle \in HeadsOf(c)
    /\ \A i \in 1..Len(c) : \E h \in HeadsOf(c) : i \in Block(h)
    /\ Framed(c) /\ InSequence(c, f) /\ Hushed(c) /\ Traced(c, tr) /\ Blocks(c, o, tr, f)
    /\ f \in [kind : FaultKinds \cup {"none"}, from : Nat, to : Nat, counter : 0..Counters]
    /\ f # L!NoFault => f.from - 1 \in PolledOf(c) /\ f.kind \in FaultKinds
Seen(c, o, tr, f, k, s) ==
    /\ Bus(c, o, tr, f) /\ k \in Nat /\ k < Len(c)
    /\ s \in Seq(L!Sample) /\ Len(s) = Len(c) - k /\ \A i \in 1..Len(s) : s[i] = c[i + k]

\* The invariant says of the bus what the statements about captures need.
LEMMA BusIs ==
    ASSUME LaInv
    PROVE  Bus(laCap, Line, laTruth, laFault)
<1>1. laCap \in Seq(L!Sample) /\ laPlay \in Seq(Driven)
  BY DEF LaInv, LaTypes
<1>2. \A i \in 1..Len(laCap) : /\ Line[i].de = laCap[i].de /\ Line[i].re = laCap[i].re
                               /\ Line[i].tx = laCap[i].tx
  BY <1>1, LineIs
<1>3. /\ \A g, h \in HeadsOf(laCap) : g < h => g + Cycle <= h
      /\ \A h \in HeadsOf(laCap) : h = 1 \/ h - Cycle \in HeadsOf(laCap)
      /\ \A i \in 1..Len(laCap) : \E h \in HeadsOf(laCap) : i \in Block(h)
  BY DEF LaInv, Spaced, Heads
<1>4. /\ laFault \in [kind : FaultKinds \cup {"none"}, from : Nat, to : Nat, counter : 0..Counters]
      /\ laFault # L!NoFault => laFault.from - 1 \in PolledOf(laCap) /\ laFault.kind \in FaultKinds
  BY DEF LaInv, LaTypes
<1> QED BY <1>1, <1>2, <1>3, <1>4 DEF Bus, LaInv

\* The part of the capture that is judged.
LEMMA SeenIs ==
    ASSUME NEW c, NEW o, NEW tr, NEW f, Bus(c, o, tr, f), NEW k \in Nat, k < Len(c)
    PROVE  Seen(c, o, tr, f, k, L!Crop(c, k))
<1>1. c \in Seq(L!Sample)
  BY DEF Bus
<1> PICK n \in Nat : n = Len(c)
  BY <1>1
<1> DEFINE s == SubSeq(c, k + 1, n)
<1>2. s \in Seq(L!Sample) /\ Len(s) = n - k /\ \A i \in 1..(n - k) : s[i] = c[i + k]
  BY <1>1
<1>3. L!Crop(c, k) = s
  BY DEF L!Crop
<1> QED BY <1>2, <1>3 DEF Seen

\* A sample as it was on the line, from either side.
LEMMA SeenFacts ==
    ASSUME NEW c, NEW o, NEW tr, NEW f, NEW k, NEW s, Seen(c, o, tr, f, k, s)
    PROVE  /\ Bus(c, o, tr, f) /\ c \in Seq(L!Sample) /\ Len(c) \in Nat /\ k \in Nat
           /\ k < Len(c) /\ s \in Seq(L!Sample) /\ Len(s) = Len(c) - k
BY DEF Seen, Bus

\* A sample of the part is one of the capture ...
LEMMA SampleTo ==
    ASSUME NEW c, NEW o, NEW tr, NEW f, NEW k, NEW s, Seen(c, o, tr, f, k, s),
           NEW i \in 1..Len(s)
    PROVE  /\ i + k \in (k + 1)..Len(c) /\ s[i].rx = c[i + k].rx
           /\ s[i].de = o[i + k].de /\ s[i].re = o[i + k].re /\ s[i].tx = o[i + k].tx
<1>0. /\ c \in Seq(L!Sample) /\ k \in Nat /\ k < Len(c)
      /\ s \in Seq(L!Sample) /\ Len(s) = Len(c) - k
      /\ \A m \in 1..Len(s) : s[m] = c[m + k]
      /\ \A m \in 1..Len(c) : o[m].de = c[m].de /\ o[m].re = c[m].re /\ o[m].tx = c[m].tx
  BY DEF Seen, Bus
<1> PICK n \in Nat : n = Len(c)
  BY <1>0
<1> PICK j : j = i + k
  OBVIOUS
<1>1. k \in Nat /\ Len(s) = n - k
  BY <1>0
<1>2. j \in 1..n /\ j \in (k + 1)..n
  BY <1>1
<1>3. s[i] = c[j]
  BY <1>0
<1>4. o[j].de = c[j].de /\ o[j].re = c[j].re /\ o[j].tx = c[j].tx
  BY <1>0, <1>2
<1> QED BY <1>2, <1>3, <1>4

\* ... and one of the capture after the cut is one of the part.
LEMMA SampleFrom ==
    ASSUME NEW c, NEW o, NEW tr, NEW f, NEW k, NEW s, Seen(c, o, tr, f, k, s),
           NEW j \in (k + 1)..Len(c)
    PROVE  /\ j - k \in 1..Len(s) /\ s[j - k].de = o[j].de /\ s[j - k].rx = c[j].rx
           /\ s[j - k].re = o[j].re /\ s[j - k].tx = o[j].tx
<1>0. /\ c \in Seq(L!Sample) /\ k \in Nat /\ k < Len(c)
      /\ s \in Seq(L!Sample) /\ Len(s) = Len(c) - k
      /\ \A i \in 1..Len(s) : s[i] = c[i + k]
      /\ \A i \in 1..Len(c) : o[i].de = c[i].de /\ o[i].re = c[i].re /\ o[i].tx = c[i].tx
  BY DEF Seen, Bus
<1> PICK n \in Nat : n = Len(c)
  BY <1>0
<1> PICK i : i = j - k
  OBVIOUS
<1>1. i \in 1..Len(s) /\ i + k = j /\ j \in 1..n
  BY <1>0
<1>2. s[i] = c[j]
  BY <1>0, <1>1
<1> QED BY <1>0, <1>1, <1>2

\* The driver is on at most once in a block, and not while it is polled.
LEMMA BlockOn ==
    ASSUME NEW c, NEW o, NEW tr, NEW f, Bus(c, o, tr, f), NEW h \in PolledOf(c)
    PROVE  /\ h \in Nat \ {0} /\ h + 1 \in 1..Len(c) /\ h \in HeadsOf(c)
           /\ \E a \in (h + 2)..(h + 4), z \in Nat : On(o, h, a, z)
<1>0. Cycle \in Nat /\ ReSkew \in Nat /\ MaxDeHigh \in Nat
  BY LaNumbers
<1> PICK b : b = c[h + 1].rx
  OBVIOUS
<1>1. h \in Nat \ {0} /\ h + 1 \in 1..Len(c) /\ h \in HeadsOf(c)
  BY DEF PolledOf, HeadsOf
<1>2. BlockIs(o, tr, f, h, b)
  BY DEF Bus, Blocks
<1>3. CASE ~Wrongs(f, h)
  <2>1. PICK late \in 0..1 : Gives(o, tr, h, h + 2 + late, 0, b)
    BY <1>2, <1>3 DEF BlockIs, Sound
  <2>2. On(o, h, h + 2 + late, h + 2 + late + 2 + 0)
    BY <2>1 DEF Gives, Sends
  <2>3. h + 2 + late \in (h + 2)..(h + 4) /\ h + 2 + late + 2 + 0 \in Nat
    BY <1>1
  <2> QED BY <1>1, <2>2, <2>3
<1>4. CASE Wrongs(f, h)
  <2>1. Unsound(o, tr, f, h, b)
    BY <1>2, <1>4 DEF BlockIs
  <2>2. f.kind \in FaultKinds
    BY <1>1, <1>4 DEF Bus, Wrongs, L!NoFault
  <2>3. CASE f.kind \in {"silent", "poll"}
    <3>1. On(o, h, h + 2, h + 1)
      BY <1>1, <2>1, <2>3 DEF Unsound, On
    <3>2. h + 2 \in (h + 2)..(h + 4) /\ h + 1 \in Nat
      BY <1>1
    <3> QED BY <1>1, <3>1, <3>2
  <2>4. CASE f.kind \in {"crc", "parity", "stale"}
    <3>1. On(o, h, h + 3, h + 3 + 2 + 0)
      BY <2>1, <2>4 DEF Unsound, Sends
    <3>2. h + 3 \in (h + 2)..(h + 4) /\ h + 3 + 2 + 0 \in Nat
      BY <1>1
    <3> QED BY <1>1, <3>1, <3>2
  <2>5. CASE f.kind = "stuck"
    <3>1. On(o, h, h + 2, h + 2 + 2 + MaxDeHigh)
      BY <2>1, <2>5 DEF Unsound, Sends, Gives
    <3>2. h + 2 \in (h + 2)..(h + 4) /\ h + 2 + 2 + MaxDeHigh \in Nat
      BY <1>0, <1>1
    <3> QED BY <1>1, <3>1, <3>2
  <2>6. CASE f.kind \in {"re", "repeat"}
    <3>1. On(o, h, h + 2, h + 2 + 2 + 0)
      BY <2>1, <2>6 DEF Unsound, Sends, Gives
    <3>2. h + 2 \in (h + 2)..(h + 4) /\ h + 2 + 2 + 0 \in Nat
      BY <1>1
    <3> QED BY <1>1, <3>1, <3>2
  <2>7. CASE f.kind = "stray"
    <3>1. On(o, h, h + 4, h + 4 + 2 + 0)
      BY <2>1, <2>7 DEF Unsound, Sends, Gives
    <3>2. h + 4 \in (h + 2)..(h + 4) /\ h + 4 + 2 + 0 \in Nat
      BY <1>1
    <3> QED BY <1>1, <3>1, <3>2
  <2>8. CASE f.kind = "early"
    <3>1. On(o, h, h + 4, h + 4)
      BY <2>1, <2>8 DEF Unsound
    <3>2. h + 4 \in (h + 2)..(h + 4) /\ h + 4 \in Nat
      BY <1>1
    <3> QED BY <1>1, <3>1, <3>2
  <2>9. CASE f.kind = "ghost"
    <3>1. On(o, h, h + 3, h + 4)
      BY <2>1, <2>9 DEF Unsound
    <3>2. h + 3 \in (h + 2)..(h + 4) /\ h + 4 \in Nat
      BY <1>1
    <3> QED BY <1>1, <3>1, <3>2
  <2> QED BY <2>2, <2>3, <2>4, <2>5, <2>6, <2>7, <2>8, <2>9 DEF FaultKinds, L!Kinds
<1> QED BY <1>3, <1>4

\* A sample with the driver on belongs to an answer.
LEMMA OnWhere ==
    ASSUME NEW c, NEW o, NEW tr, NEW f, Bus(c, o, tr, f), NEW j \in 1..Len(c), o[j].de
    PROVE  \E h \in PolledOf(c) : j \in Block(h) /\ h + 2 <= j
<1>0. Cycle \in Nat
  BY LaNumbers
<1>1. PICK h \in HeadsOf(c) : j \in Block(h)
  BY DEF Bus
<1>a. Len(c) \in Nat
  BY DEF Bus
<1>b. h \in 1..Len(c)
  BY DEF HeadsOf
<1>2. h \in 1..Len(c) /\ ~c[h].de /\ o[h].de = c[h].de /\ Len(c) \in Nat
  BY <1>a, <1>b DEF Bus, Hushed
<1>3. j # h /\ h <= j
  BY <1>0, <1>1, <1>2 DEF Block
<1>4. h \in PolledOf(c)
  BY <1>2, <1>3 DEF PolledOf
<1>5. PICK a \in (h + 2)..(h + 4), z \in Nat : On(o, h, a, z)
  BY <1>4, BlockOn
<1>6. j \in a..z
  BY <1>1, <1>5 DEF On
<1> QED BY <1>1, <1>2, <1>4, <1>6


\* A rise that the cut has not made is the beginning of an answer, and each is one.
LEMMA RiseIs ==
    ASSUME NEW c, NEW o, NEW tr, NEW f, NEW k, NEW s, Seen(c, o, tr, f, k, s),
           NEW t \in L!Rises(s), t # 1
    PROVE  /\ t \in 2..Len(s) /\ t + k \in (k + 2)..Len(c)
           /\ \E h \in PolledOf(c) :
                /\ t + k \in Block(h)
                /\ \A a, z \in Nat : On(o, h, a, z) /\ h + 2 <= a => t + k = a
<1>0. Cycle \in Nat /\ k \in Nat /\ s \in Seq(L!Sample) /\ Bus(c, o, tr, f) /\ Len(c) \in Nat
  BY LaNumbers, SeenFacts
<1>1. t \in 2..Len(s) /\ s[t].de /\ ~s[t - 1].de
  BY DEF L!Rises
<1> PICK j \in Nat : j = t + k
  BY <1>0, <1>1
<1>2. t - 1 \in 1..Len(s) /\ t \in 1..Len(s)
  BY <1>1
<1>3. s[t].de = o[t + k].de /\ s[t - 1].de = o[t - 1 + k].de /\ t + k \in (k + 1)..Len(c)
      /\ t - 1 + k \in (k + 1)..Len(c)
  <2> PICK i \in 1..Len(s) : i = t - 1
    BY <1>2
  <2>1. s[t].de = o[t + k].de /\ t + k \in (k + 1)..Len(c)
    BY <1>2, SampleTo
  <2>2. s[i].de = o[i + k].de /\ i + k \in (k + 1)..Len(c)
    BY SampleTo
  <2> QED BY <2>1, <2>2
<1>4. t - 1 + k = j - 1 /\ j \in 1..Len(c)
  BY <1>0, <1>1, <1>3, SMTT(60)
<1>5. o[j].de /\ ~o[j - 1].de
  BY <1>1, <1>3, <1>4
<1>6. PICK h \in PolledOf(c) : j \in Block(h) /\ h + 2 <= j
  BY <1>0, <1>4, <1>5, OnWhere
<1>7. h \in Nat
  BY <1>0, BlockOn
<1>8. ASSUME NEW a \in Nat, NEW z \in Nat, On(o, h, a, z), h + 2 <= a
      PROVE  j = a
  <2>1. j \in a..z
    BY <1>5, <1>6, <1>8 DEF On
  <2>2. j - 1 \in Block(h)
    BY <1>0, <1>6, <1>7 DEF Block
  <2>3. j - 1 \notin a..z
    BY <1>5, <1>8, <2>2 DEF On
  <2> QED BY <1>8, <2>1, <2>3
<1> QED BY <1>0, <1>1, <1>3, <1>6, <1>8

\* A window of the bus that begins in the part begins one of its windows.
LEMMA RiseAt ==
    ASSUME NEW c, NEW o, NEW tr, NEW f, NEW k, NEW s, Seen(c, o, tr, f, k, s),
           NEW h \in PolledOf(c), NEW a \in Nat, NEW z \in Nat, On(o, h, a, z),
           h + 2 <= a, a <= z, a \in Block(h), a \in (k + 1)..Len(c)
    PROVE  a - k \in L!Rises(s)
<1>0. Cycle \in Nat /\ k \in Nat /\ s \in Seq(L!Sample) /\ Bus(c, o, tr, f) /\ Len(c) \in Nat
  BY LaNumbers, SeenFacts
<1>1. h \in Nat \ {0}
  BY <1>0, BlockOn
<1>2. o[a].de
  BY DEF On
<1>3. a - k \in 1..Len(s) /\ s[a - k].de = o[a].de
  BY SampleFrom
<1>4. a - k = 1 \/ ~s[a - k - 1].de
  <2> SUFFICES ASSUME a - k # 1 PROVE ~s[a - k - 1].de
    OBVIOUS
  <2> PICK j \in Nat : j = a - 1
    BY <1>1
  <2>1. j \in (k + 1)..Len(c) /\ j - k = a - k - 1
    BY <1>0, <1>3
  <2>2. s[j - k].de = o[j].de
    BY <2>1, SampleFrom
  <2>3. j \in Block(h) /\ j \notin a..z
    BY <1>0, <1>1 DEF Block
  <2>4. ~o[j].de
    BY <2>3 DEF On
  <2> QED BY <2>1, <2>2, <2>4
<1> QED BY <1>2, <1>3, <1>4 DEF L!Rises

\* The window of an answer ends with the sample after it.
LEMMA EndIs ==
    ASSUME NEW c, NEW o, NEW tr, NEW f, NEW k, NEW s, Seen(c, o, tr, f, k, s),
           NEW h \in PolledOf(c), NEW a \in Nat, NEW z \in Nat, On(o, h, a, z),
           h + 2 <= a, a <= z, z \in Block(h), a \in (k + 1)..Len(c)
    PROVE  /\ L!WindowEnd(s, a - k) \in (a - k)..Len(s) /\ L!WindowEnd(s, a - k) <= z + 1 - k
           /\ z + 1 <= Len(c) => L!WindowEnd(s, a - k) = z + 1 - k
<1>0. Cycle \in Nat /\ k \in Nat /\ s \in Seq(L!Sample) /\ Bus(c, o, tr, f)
      /\ Len(c) \in Nat /\ Len(s) = Len(c) - k
  BY LaNumbers, SeenFacts
<1>1. h \in Nat \ {0} /\ h \in HeadsOf(c)
  BY <1>0, BlockOn
<1>2. a \in Block(h)
  BY <1>0, <1>1 DEF Block
<1> PICK i : i = a - k
  OBVIOUS
<1>3. i \in L!Rises(s)
  BY <1>2, RiseAt
<1> PICK e : e = L!WindowEnd(s, i)
  OBVIOUS
<1>4. e \in i..Len(s) /\ \A m \in i..(e - 1) : s[m].de
  BY <1>0, <1>3, WindowFacts
<1>5. i \in 1..Len(s)
  BY <1>0, <1>3, WindowFacts
<1>6. z + 1 <= Len(c) => ~o[z + 1].de
  <2> SUFFICES ASSUME z + 1 <= Len(c), o[z + 1].de PROVE FALSE
    OBVIOUS
  <2>1. z + 1 \in 1..Len(c)
    BY <1>0
  <2> PICK j \in 1..Len(c) : j = z + 1
    BY <2>1
  <2>2. PICK g \in PolledOf(c) : j \in Block(g) /\ g + 2 <= j
    BY <1>0, OnWhere
  <2>3. g \in Nat \ {0} /\ g \in HeadsOf(c)
    BY <1>0, BlockOn
  <2>4. (g < h => g + Cycle <= h) /\ (h < g => h + Cycle <= g)
    BY <1>1, <2>3 DEF Seen, Bus
  <2>5. j <= g + Cycle - 1 /\ z <= h + Cycle - 1 /\ h <= z
    BY <1>0, <1>1, <2>2, <2>3 DEF Block
  <2>6. g = h
    BY <1>0, <1>1, <2>2, <2>3, <2>4, <2>5
  <2>7. j \notin a..z
    OBVIOUS
  <2> QED BY <2>2, <2>6, <2>7 DEF On
<1>7. e <= z + 1 - k
  <2> SUFFICES ASSUME e > z + 1 - k PROVE FALSE
    BY <1>0, <1>4, <1>5
  <2> PICK j \in Nat : j = z + 1
    OBVIOUS
  <2>1. j \in (k + 1)..Len(c)
    BY <1>0, <1>4, <1>5
  <2>2. j - k \in i..(e - 1)
    BY <1>0, <1>4, <1>5
  <2>3. s[j - k].de = o[j].de
    BY <2>1, SampleFrom
  <2>4. ~o[j].de
    BY <1>0, <1>6, <2>1
  <2> QED BY <1>4, <2>2, <2>3, <2>4
<1>8. ASSUME z + 1 <= Len(c) PROVE e >= z + 1 - k
  <2> PICK x \in Nat : x = z + 1 - k
    BY <1>0
  <2>1. x \in i..Len(s)
    BY <1>0, <1>5, <1>8
  <2>2. ASSUME NEW m \in i..(x - 1) PROVE s[m].de
    <3>1. m \in 1..Len(s)
      BY <1>0, <1>5, <2>1
    <3>2. s[m].de = o[m + k].de
      BY <3>1, SampleTo
    <3>3. m + k \in Block(h) /\ m + k \in a..z
      BY <1>0, <1>1, <1>5 DEF Block
    <3> QED BY <3>2, <3>3 DEF On
  <2> QED BY <1>0, <1>3, <2>1, <2>2, WindowReaches
<1>9. e \in Nat /\ z + 1 - k \in Int
  BY <1>0, <1>4, <1>5
<1>10. z + 1 <= Len(c) => e = z + 1 - k
  BY <1>7, <1>8, <1>9
<1>11. e \in i..Len(s)
  BY <1>4
<1> QED BY <1>7, <1>10, <1>11

\* The samples of an answer, one by one.
LEMMA FourOn ==
    ASSUME NEW i \in Nat, NEW m \in Nat
    PROVE  /\ \A t \in i..(i + 3 + m) : t = i \/ t = i + 1 \/ t = i + 2 \/ t \in (i + 3)..(i + 3 + m)
           /\ i + 1 \in i..(i + 3 + m) /\ i + 2 \in i..(i + 3 + m)
OBVIOUS

\* An answer that is all there is a status.
LEMMA StatusAt ==
    ASSUME NEW c, NEW o, NEW tr, NEW f, NEW k, NEW s, Seen(c, o, tr, f, k, s),
           NEW h \in PolledOf(c), NEW a \in Nat, NEW m \in Nat, NEW b \in 1..Counters,
           Sends(o, h, a, m, b), h + 2 <= a, a + 2 + m \in Block(h), k + 1 <= a,
           a + 3 + m <= Len(c)
    PROVE  a - k \in L!Statuses(s) /\ L!ResponseCounter(s, a - k) = b
<1>0. Cycle \in Nat /\ k \in Nat /\ s \in Seq(L!Sample) /\ Bus(c, o, tr, f)
      /\ Len(c) \in Nat /\ Len(s) = Len(c) - k
  BY LaNumbers, SeenFacts
<1>1. h \in Nat \ {0}
  BY <1>0, BlockOn
<1> PICK z \in Nat : z = a + 2 + m
  OBVIOUS
<1>2. /\ On(o, h, a, z) /\ o[a].tx = L!Idle /\ o[a + 1].tx = L!Sof /\ o[a + 2].tx = b
      /\ \A i \in (a + 3)..(a + 3 + m) : o[i].tx = L!Idle
  BY DEF Sends
<1>3. a \in Block(h) /\ z \in Block(h) /\ a <= z /\ a \in (k + 1)..Len(c) /\ z + 1 <= Len(c)
  BY <1>0, <1>1 DEF Block
<1>4. a - k \in L!Rises(s)
  BY <1>2, <1>3, RiseAt
<1>5. L!WindowEnd(s, a - k) = z + 1 - k
  BY <1>2, <1>3, EndIs
<1> PICK i \in 1..Len(s) : i = a - k
  BY <1>4, WindowFacts, <1>0
<1>6. L!Window(s, i) = i..(i + 3 + m)
  <2>1. z + 1 - k = i + 3 + m
    BY <1>0
  <2> QED BY <1>5, <2>1 DEF L!Window
<1>7. /\ s[i].tx = L!Idle /\ s[i + 1].tx = L!Sof /\ s[i + 2].tx = b
      /\ \A t \in (i + 3)..(i + 3 + m) : s[t].tx = L!Idle
  <2> PICK i1 \in 1..Len(s) : i1 = i + 1
    BY <1>0, <1>3
  <2> PICK i2 \in 1..Len(s) : i2 = i + 2
    BY <1>0, <1>3
  <2>1. i + k = a /\ i1 + k = a + 1 /\ i2 + k = a + 2
    BY <1>0
  <2>2. s[i].tx = o[i + k].tx
    BY SampleTo
  <2>3. s[i1].tx = o[i1 + k].tx
    BY SampleTo
  <2>4. s[i2].tx = o[i2 + k].tx
    BY SampleTo
  <2>5. ASSUME NEW t \in (i + 3)..(i + 3 + m) PROVE s[t].tx = L!Idle
    <3>1. t \in 1..Len(s) /\ t + k \in (a + 3)..(a + 3 + m)
      BY <1>0, <1>3
    <3>2. s[t].tx = o[t + k].tx
      BY <3>1, SampleTo, SMTT(60)
    <3> QED BY <1>2, <3>1, <3>2
  <2> QED BY <1>2, <2>1, <2>2, <2>3, <2>4, <2>5
<1>8. L!Bytes(s, i) = {i + 1, i + 2}
  <2>0. i \in Nat
    BY <1>0
  <2>1. L!Sof # L!Idle /\ b # L!Idle
    BY CountersAre
  <2>2. ASSUME NEW t \in i..(i + 3 + m)
        PROVE  t = i \/ t = i + 1 \/ t = i + 2 \/ t \in (i + 3)..(i + 3 + m)
    BY <2>0, FourOn
  <2>3. i + 1 \in i..(i + 3 + m) /\ i + 2 \in i..(i + 3 + m)
    BY <2>0, FourOn
  <2> QED BY <1>6, <1>7, <2>1, <2>2, <2>3, ZenonT(60) DEF L!Bytes
<1>9. i + 1 < i + 2
  OBVIOUS
<1>10. i \in L!Statuses(s) /\ L!ResponseCounter(s, i) = s[i + 2].tx
  BY <1>0, <1>4, <1>7, <1>8, <1>9, AnswerIsStatus, ZenonT(60)
<1> QED BY <1>7, <1>10

\* What begins in a capture that ends at rest ends in it.
LEMMA RestAfter ==
    ASSUME NEW c, NEW o, NEW tr, NEW f, Bus(c, o, tr, f), ~c[Len(c)].de,
           NEW h \in PolledOf(c), NEW a \in Nat, NEW z \in Nat, On(o, h, a, z),
           h <= a, z \in Block(h), a <= Len(c)
    PROVE  z + 1 <= Len(c)
<1>0. Cycle \in Nat /\ Len(c) \in Nat
  BY LaNumbers DEF Bus
<1>1. h \in Nat \ {0}
  BY BlockOn
<1>2. SUFFICES ASSUME Len(c) <= z PROVE FALSE
  BY <1>0
<1>3. Len(c) \in Block(h) /\ Len(c) \in a..z /\ Len(c) \in 1..Len(c)
  BY <1>0, <1>1, <1>2 DEF Block
<1>4. o[Len(c)].de = c[Len(c)].de
  BY <1>3 DEF Bus
<1>5. o[Len(c)].de
  BY <1>3 DEF On
<1> QED BY <1>4, <1>5

\* The polls the verifier decodes are the counters after the heads.
LEMMA PollsSeen ==
    ASSUME NEW c, NEW o, NEW tr, NEW f, NEW k, NEW s, Seen(c, o, tr, f, k, s)
    PROVE  /\ \A p \in L!StatusPolls(s) :
                /\ p \in 2..Len(s) /\ p + k - 1 \in PolledOf(c) /\ p + k - 1 > k
                /\ s[p].rx = c[p + k].rx /\ c[p + k].rx \in 1..Counters
           /\ \A g \in PolledOf(c) : g > k /\ c[g + 1].rx \in 1..Counters =>
                g + 1 - k \in L!StatusPolls(s) /\ s[g + 1 - k].rx = c[g + 1].rx
<1>0. /\ k \in Nat /\ s \in Seq(L!Sample) /\ Bus(c, o, tr, f) /\ Framed(c)
      /\ Len(c) \in Nat /\ Len(s) = Len(c) - k /\ k < Len(c)
  BY SeenFacts, SMTT(60) DEF Bus
<1>1. \A i \in 1..Len(s) : i + k \in (k + 1)..Len(c) /\ s[i].rx = c[i + k].rx
  BY SampleTo
<1>2. Paired(s)
  <2> SUFFICES ASSUME NEW i \in 1..Len(s)
               PROVE  /\ s[i].rx = L!Sof /\ i < Len(s) => s[i + 1].rx \notin {L!Idle, L!Sof}
                      /\ s[i].rx \notin {L!Idle, L!Sof} /\ i > 1 => s[i - 1].rx = L!Sof
    BY DEF Paired
  <2> PICK j \in 1..Len(c) : j = i + k
    BY <1>0, <1>1
  <2>1. s[i].rx = c[j].rx
    BY <1>1
  <2>2. ASSUME c[j].rx = L!Sof, i < Len(s) PROVE s[i + 1].rx \notin {L!Idle, L!Sof}
    <3>1. i + 1 \in 1..Len(s) /\ i + 1 + k = j + 1 /\ j + 1 <= Len(c)
      BY <1>0, <2>2
    <3>2. j \in PolledOf(c)
      BY <2>2, <3>1 DEF PolledOf, HeadsOf
    <3>3. c[j + 1].rx \in 1..Counters \cup {L!Broken}
      BY <1>0, <3>2 DEF Framed
    <3>4. s[i + 1].rx = c[j + 1].rx
      BY <1>1, <3>1
    <3> QED BY <3>3, <3>4, CountersAre
  <2>3. ASSUME c[j].rx \notin {L!Idle, L!Sof}, i > 1 PROVE s[i - 1].rx = L!Sof
    <3>1. i - 1 \in 1..Len(s) /\ i - 1 + k = j - 1
      BY <1>0, <2>3
    <3>2. c[j - 1].rx = L!Sof
      BY <1>0, <2>3 DEF Framed
    <3> QED BY <1>1, <3>1, <3>2
  <2> QED BY <2>1, <2>2, <2>3
<1>3. L!StatusPolls(s) = {i \in 2..Len(s) : s[i - 1].rx = L!Sof /\ s[i].rx \in 1..Counters}
  BY <1>0, <1>2, PollsAre
<1>4. ASSUME NEW p \in L!StatusPolls(s)
      PROVE  /\ p \in 2..Len(s) /\ p + k - 1 \in PolledOf(c) /\ p + k - 1 > k
             /\ s[p].rx = c[p + k].rx /\ c[p + k].rx \in 1..Counters
  <2>1. p \in 2..Len(s) /\ s[p - 1].rx = L!Sof /\ s[p].rx \in 1..Counters
    BY <1>3
  <2>2. p - 1 \in 1..Len(s) /\ p \in 1..Len(s) /\ p - 1 + k = p + k - 1
    BY <1>0, <2>1, SMTT(60)
  <2>3. s[p - 1].rx = c[p - 1 + k].rx /\ s[p].rx = c[p + k].rx
    BY <1>1, <2>2
  <2> PICK g \in Nat : g = p + k - 1
    BY <1>0, <2>1
  <2>4. g \in 1..Len(c) /\ g + 1 <= Len(c) /\ g > k
    BY <1>0, <2>1
  <2>5. c[g].rx = L!Sof
    BY <2>1, <2>2, <2>3
  <2>6. g \in PolledOf(c)
    BY <2>4, <2>5 DEF PolledOf, HeadsOf
  <2> QED BY <2>1, <2>3, <2>4, <2>6
<1>5. ASSUME NEW g \in PolledOf(c), g > k, c[g + 1].rx \in 1..Counters
      PROVE  g + 1 - k \in L!StatusPolls(s) /\ s[g + 1 - k].rx = c[g + 1].rx
  <2>1. g \in Nat \ {0} /\ g + 1 \in 1..Len(c) /\ g \in HeadsOf(c)
    BY <1>0, BlockOn
  <2>2. c[g].rx = L!Sof
    BY <2>1 DEF HeadsOf
  <2> PICK p \in Nat : p = g + 1 - k
    BY <1>0, <1>5, <2>1
  <2>3. p \in 2..Len(s) /\ p \in 1..Len(s) /\ p - 1 \in 1..Len(s)
    BY <1>0, <1>5, <2>1
  <2>4. p + k = g + 1 /\ p - 1 + k = g
    BY <1>0, <2>1
  <2>5. s[p].rx = c[g + 1].rx /\ s[p - 1].rx = c[g].rx
    BY <1>1, <2>3, <2>4
  <2> QED BY <1>3, <1>5, <2>2, <2>3, <2>5
<1> QED BY <1>4, <1>5


\* A status: the two bytes of a window that lies in a block.
LEMMA StatusIn ==
    ASSUME NEW c, NEW o, NEW tr, NEW f, NEW k, NEW s, Seen(c, o, tr, f, k, s),
           NEW t \in L!Statuses(s), t # 1, NEW h \in PolledOf(c), NEW a \in Nat, NEW z \in Nat,
           t + k = a, On(o, h, a, z), h + 2 <= a, a <= z, z \in Block(h)
    PROVE  \E x, y \in a..(z + 1) : /\ x < y /\ o[x].tx = L!Sof /\ o[y].tx \in 1..Counters
                                    /\ L!ResponseCounter(s, t) = o[y].tx
<1>0. Cycle \in Nat /\ k \in Nat /\ s \in Seq(L!Sample) /\ Bus(c, o, tr, f)
      /\ Len(c) \in Nat /\ Len(s) = Len(c) - k
  BY LaNumbers, SeenFacts
<1>1. t \in L!Rises(s)
  BY <1>0, StatusIsAnswer
<1>2. PICK x, y \in L!Window(s, t) :
        /\ x < y /\ L!Bytes(s, t) = {x, y} /\ s[x].tx = L!Sof /\ s[y].tx \in 1..Counters
        /\ L!ResponseCounter(s, t) = s[y].tx
  BY <1>0, StatusIsAnswer
<1>3. t \in 2..Len(s) /\ t + k \in (k + 2)..Len(c)
  BY <1>1, RiseIs
<1>4. a \in (k + 1)..Len(c) /\ a - k = t
  BY <1>0, <1>3
<1>5. L!WindowEnd(s, t) \in t..Len(s) /\ L!WindowEnd(s, t) <= z + 1 - k
  BY <1>4, EndIs
<1>6. ASSUME NEW w \in L!Window(s, t)
      PROVE  w \in 1..Len(s) /\ w + k \in a..(z + 1) /\ s[w].tx = o[w + k].tx
  <2> PICK e \in t..Len(s) : e = L!WindowEnd(s, t)
    BY <1>5
  <2>1. w \in t..e /\ e <= z + 1 - k
    BY <1>5 DEF L!Window
  <2>2. w \in 1..Len(s) /\ w + k \in a..(z + 1)
    BY <1>0, <1>3, <2>1, SMTT(60)
  <2> QED BY <2>2, SampleTo
<1>7. x + k \in a..(z + 1) /\ s[x].tx = o[x + k].tx /\ x \in 1..Len(s)
  BY <1>6
<1>8. y + k \in a..(z + 1) /\ s[y].tx = o[y + k].tx /\ y \in 1..Len(s)
  BY <1>6
<1>9. x + k < y + k
  BY <1>0, <1>2, <1>7, <1>8
<1> QED BY <1>2, <1>7, <1>8, <1>9

\* A status in the part has the counter that was sent.
LEMMA StatusSent ==
    ASSUME NEW c, NEW o, NEW tr, NEW f, NEW k, NEW s, Seen(c, o, tr, f, k, s),
           NEW t \in L!Statuses(s), t # 1, NEW h \in PolledOf(c), NEW a \in Nat, NEW m \in Nat,
           NEW b, t + k = a, Sends(o, h, a, m, b), h + 2 <= a, a + 2 + m \in Block(h)
    PROVE  L!ResponseCounter(s, t) = b /\ b \in 1..Counters
<1> PICK z \in Nat : z = a + 2 + m
  OBVIOUS
<1>1. /\ On(o, h, a, z) /\ o[a].tx = L!Idle /\ o[a + 1].tx = L!Sof /\ o[a + 2].tx = b
      /\ \A i \in (a + 3)..(a + 3 + m) : o[i].tx = L!Idle
  BY DEF Sends
<1>2. z \in Block(h) /\ a <= z
  OBVIOUS
<1>3. PICK x, y \in a..(z + 1) : /\ x < y /\ o[x].tx = L!Sof /\ o[y].tx \in 1..Counters
                                 /\ L!ResponseCounter(s, t) = o[y].tx
  BY <1>1, <1>2, StatusIn, SMTT(60)
<1>4. ASSUME NEW w \in a..(z + 1), o[w].tx # L!Idle PROVE w = a + 1 \/ w = a + 2
  <2>1. w = a \/ w = a + 1 \/ w = a + 2 \/ w \in (a + 3)..(a + 3 + m)
    OBVIOUS
  <2> QED BY <1>1, <1>4, <2>1
<1>5. x = a + 1 \/ x = a + 2
  BY <1>3, <1>4, CountersAre
<1>6. y = a + 1 \/ y = a + 2
  BY <1>3, <1>4, CountersAre
<1>7. y = a + 2
  BY <1>3, <1>5, <1>6
<1> QED BY <1>1, <1>3, <1>7

\* Every status is the answer to the poll of its block, but for a stale one.
LEMMA StatusIs ==
    ASSUME NEW c, NEW o, NEW tr, NEW f, NEW k, NEW s, Seen(c, o, tr, f, k, s),
           NEW t \in L!Statuses(s), t # 1
    PROVE  /\ t \in 2..Len(s) /\ t + k \in Nat
           /\ \E h \in PolledOf(c) :
                /\ t + k \in (h + 2)..(h + 4) /\ c[h + 1].rx \in 1..Counters
                /\ \A a, z \in Nat : On(o, h, a, z) /\ h + 2 <= a => t + k = a
                /\ \/ <<h + 2, t + k>> \in tr /\ L!ResponseCounter(s, t) = c[h + 1].rx
                   \/ /\ Wrongs(f, h) /\ f.kind = "stale"
                      /\ L!ResponseCounter(s, t) = Preceding(c[h + 1].rx)
<1>0. /\ Cycle \in Nat /\ Cycle >= 7 /\ ReSkew \in Nat /\ MaxDeHigh \in Nat
      /\ Cycle >= MaxDeHigh + ReSkew + 5
      /\ k \in Nat /\ s \in Seq(L!Sample) /\ Bus(c, o, tr, f) /\ Len(c) \in Nat
  BY LaNumbers, SeenFacts
<1>1. t \in L!Rises(s)
  BY <1>0, StatusIsAnswer
<1>2. t \in 2..Len(s) /\ t + k \in (k + 2)..Len(c)
  BY <1>1, RiseIs
<1>3. PICK h \in PolledOf(c) : /\ t + k \in Block(h)
                               /\ \A a, z \in Nat : On(o, h, a, z) /\ h + 2 <= a => t + k = a
  BY <1>1, RiseIs
<1>4. h \in Nat \ {0}
  BY <1>0, BlockOn
<1> PICK j \in Nat : j = t + k
  BY <1>0, <1>2
<1> PICK b : b = c[h + 1].rx
  OBVIOUS
<1>5. BlockIs(o, tr, f, h, b)
  BY <1>0 DEF Bus, Blocks
<1>6. o[j].de
  <2>1. s[t].de /\ t \in 1..Len(s)
    BY <1>0, <1>1, WindowFacts
  <2>2. o[t + k].de
    BY <2>1, SampleTo
  <2> QED BY <2>2
<1>7. ASSUME NEW a \in h..(h + 4), h + 2 <= a, NEW m \in Nat, m <= MaxDeHigh, NEW x,
             m = 0 \/ a = h + 2, Sends(o, h, a, m, x)
      PROVE  j = a /\ L!ResponseCounter(s, t) = x /\ x \in 1..Counters
  <2>1. a \in Nat /\ a + 2 + m \in Nat /\ a + 2 + m \in Block(h)
    BY <1>0, <1>4, <1>7 DEF Block
  <2>2. On(o, h, a, a + 2 + m)
    BY <1>7 DEF Sends
  <2>3. t + k = a
    BY <1>3, <1>7, <2>1, <2>2
  <2> QED BY <1>7, <2>1, <2>3, StatusSent
<1>8. ASSUME NEW a \in h..(h + 4), h + 2 <= a, NEW m \in Nat, m <= MaxDeHigh,
             m = 0 \/ a = h + 2, Gives(o, tr, h, a, m, b)
      PROVE  /\ j \in (h + 2)..(h + 4) /\ b \in 1..Counters
             /\ <<h + 2, j>> \in tr /\ L!ResponseCounter(s, t) = b
  <2>1. Sends(o, h, a, m, b) /\ <<h + 2, a>> \in tr
    BY <1>8 DEF Gives
  <2>2. j = a /\ L!ResponseCounter(s, t) = b /\ b \in 1..Counters
    BY <1>7, <1>8, <2>1
  <2> QED BY <1>4, <1>8, <2>1, <2>2
<1>9. \/ /\ j \in (h + 2)..(h + 4) /\ b \in 1..Counters
         /\ <<h + 2, j>> \in tr /\ L!ResponseCounter(s, t) = b
      \/ /\ j \in (h + 2)..(h + 4) /\ b \in 1..Counters
         /\ Wrongs(f, h) /\ f.kind = "stale" /\ L!ResponseCounter(s, t) = Preceding(b)
  <2>1. CASE ~Wrongs(f, h)
    <3>1. PICK late \in 0..1 : Gives(o, tr, h, h + 2 + late, 0, b)
      BY <1>5, <2>1 DEF BlockIs, Sound
    <3> PICK a \in h..(h + 4), m \in Nat : a = h + 2 + late /\ m = 0
      BY <1>4
    <3>2. Gives(o, tr, h, a, m, b) /\ h + 2 <= a /\ m <= MaxDeHigh
      BY <1>0, <1>4, <3>1
    <3> QED BY <1>8, <3>2
  <2>2. CASE Wrongs(f, h)
    <3>1. Unsound(o, tr, f, h, b)
      BY <1>5, <2>2 DEF BlockIs
    <3>2. f.kind \in FaultKinds
      BY <1>0, <1>4, <2>2 DEF Bus, Wrongs, L!NoFault
    <3>3. CASE f.kind \in {"silent", "poll"}
      <4>1. ~o[j].de
        BY <1>3, <3>1, <3>3 DEF Unsound
      <4> QED BY <1>6, <4>1
    <3>4. CASE f.kind = "crc"
      <4>1. Sends(o, h, h + 3, 0, L!Broken)
        BY <3>1, <3>4 DEF Unsound
      <4>2. h + 3 \in h..(h + 4) /\ h + 2 <= h + 3
        BY <1>4
      <4>3. L!Broken \in 1..Counters
        BY <1>0, <1>7, <4>1, <4>2
      <4> QED BY <4>3, CountersAre
    <3>5. CASE f.kind = "parity"
      <4>1. Sends(o, h, h + 3, 0, L!Parity)
        BY <3>1, <3>5 DEF Unsound
      <4>2. h + 3 \in h..(h + 4) /\ h + 2 <= h + 3
        BY <1>4
      <4>3. L!Parity \in 1..Counters
        BY <1>0, <1>7, <4>1, <4>2
      <4> QED BY <4>3, CountersAre
    <3>6. CASE f.kind = "stale"
      <4>1. Sends(o, h, h + 3, 0, Preceding(b)) /\ b = f.counter
        BY <3>1, <3>6 DEF Unsound
      <4>2. h + 3 \in h..(h + 4) /\ h + 2 <= h + 3
        BY <1>4
      <4>3. j = h + 3 /\ L!ResponseCounter(s, t) = Preceding(b)
        BY <1>0, <1>7, <4>1, <4>2, SMTT(60)
      <4>4. b \in 1..Counters
        <5>1. Meant(c, f, h) \in 1..Counters
          BY <1>0 DEF Bus, InSequence
        <5> QED BY <2>2, <4>1, <5>1 DEF Meant
      <4> QED BY <1>4, <2>2, <3>6, <4>3, <4>4
    <3>7. CASE f.kind = "stuck"
      <4> PICK a \in h..(h + 4), m \in Nat : a = h + 2 /\ m = MaxDeHigh
        BY <1>0, <1>4
      <4>1. Gives(o, tr, h, a, m, b)
        BY <3>1, <3>7 DEF Unsound
      <4>2. h + 2 <= a /\ m <= MaxDeHigh
        BY <1>0, <1>4
      <4> QED BY <1>8, <4>1, <4>2
    <3>8. CASE f.kind \in {"re", "repeat"}
      <4> PICK a \in h..(h + 4), m \in Nat : a = h + 2 /\ m = 0
        BY <1>0, <1>4
      <4>1. Gives(o, tr, h, a, m, b)
        BY <3>1, <3>8 DEF Unsound
      <4>2. h + 2 <= a /\ m <= MaxDeHigh
        BY <1>0, <1>4
      <4> QED BY <1>8, <4>1, <4>2
    <3>9. CASE f.kind = "stray"
      <4> PICK a \in h..(h + 4), m \in Nat : a = h + 4 /\ m = 0
        BY <1>0, <1>4
      <4>1. Gives(o, tr, h, a, m, b)
        BY <3>1, <3>9 DEF Unsound
      <4>2. h + 2 <= a /\ m <= MaxDeHigh
        BY <1>0, <1>4
      <4> QED BY <1>8, <4>1, <4>2
    <3>10. CASE f.kind = "early"
      <4>1. On(o, h, h + 4, h + 4) /\ o[h + 5].tx = L!Idle
        BY <3>1, <3>10 DEF Unsound
      <4> PICK a \in Nat : a = h + 4
        BY <1>4
      <4>2. t + k = a /\ a \in Block(h) /\ h + 2 <= a
        BY <1>0, <1>3, <1>4, <4>1 DEF Block
      <4>3. PICK x, y \in a..(a + 1) : x < y /\ o[x].tx = L!Sof /\ o[y].tx \in 1..Counters
        BY <4>1, <4>2, StatusIn
      <4>4. y = h + 5
        BY <1>4, <4>3
      <4> QED BY <4>1, <4>3, <4>4, CountersAre
    <3>11. CASE f.kind = "ghost"
      <4>1. On(o, h, h + 3, h + 4) /\ \A i \in (h + 3)..(h + 5) : o[i].tx = L!Idle
        BY <3>1, <3>11 DEF Unsound
      <4> PICK a \in Nat : a = h + 3
        BY <1>4
      <4> PICK z \in Nat : z = h + 4
        BY <1>4
      <4>2. t + k = a /\ z \in Block(h) /\ h + 2 <= a /\ a <= z /\ On(o, h, a, z)
        BY <1>0, <1>3, <1>4, <4>1 DEF Block
      <4>3. PICK x, y \in a..(z + 1) : x < y /\ o[x].tx = L!Sof /\ o[y].tx \in 1..Counters
        BY <4>2, StatusIn
      <4>4. x \in (h + 3)..(h + 5)
        BY <1>4, <4>3
      <4> QED BY <4>1, <4>3, <4>4, CountersAre
    <3> QED BY <3>2, <3>3, <3>4, <3>5, <3>6, <3>7, <3>8, <3>9, <3>10, <3>11 DEF FaultKinds, L!Kinds
  <2> QED BY <2>1, <2>2
<1> QED BY <1>2, <1>3, <1>9

\* The counter before a counter is another one, and goes on to it.
LEMMA PrecedingIs ==
    ASSUME NEW b \in 1..Counters
    PROVE  /\ Preceding(b) \in 1..Counters /\ Preceding(b) # b
           /\ L!NextCounter(Preceding(b)) = b
           /\ L!NextCounter(b) \in 1..Counters /\ L!NextCounter(b) # b
           /\ Preceding(L!NextCounter(b)) = b /\ L!NextCounter(L!NextCounter(b)) # L!NextCounter(b)
BY LaNumbers DEF Preceding, L!NextCounter

\* Two polls are a block apart.
LEMMA PollsApart ==
    ASSUME NEW c, NEW o, NEW tr, NEW f, Bus(c, o, tr, f), NEW g \in PolledOf(c),
           NEW h \in PolledOf(c)
    PROVE  /\ g \in Nat \ {0} /\ h \in Nat \ {0} /\ g + 1 <= Len(c) /\ h + 1 <= Len(c)
           /\ Cycle \in Nat /\ Cycle >= 7
           /\ g = h \/ g + Cycle <= h \/ h + Cycle <= g
<1>1. /\ g \in Nat \ {0} /\ g + 1 \in 1..Len(c) /\ g \in HeadsOf(c)
      /\ h \in Nat \ {0} /\ h + 1 \in 1..Len(c) /\ h \in HeadsOf(c)
  BY BlockOn
<1>2. (g < h => g + Cycle <= h) /\ (h < g => h + Cycle <= g)
  BY <1>1 DEF Bus
<1> QED BY <1>1, <1>2, LaNumbers

\* A good answer to the poll of g, from a on.
Answering(c, o, k, s, g, a) ==
    /\ a \in Nat /\ On(o, g, a, a + 2) /\ a + 2 \in Block(g)
    /\ k + 1 <= a /\ a + 3 <= Len(c) =>
         a - k \in L!Statuses(s) /\ L!ResponseCounter(s, a - k) = c[g + 1].rx
\* A sound block has its answer, and a status of it when that is not cut.
LEMMA SoundSeen ==
    ASSUME NEW c, NEW o, NEW tr, NEW f, NEW k, NEW s, Seen(c, o, tr, f, k, s),
           NEW g \in PolledOf(c), ~Wrongs(f, g)
    PROVE  /\ c[g + 1].rx \in 1..Counters
           /\ \E a \in (g + 2)..(g + 3) : Answering(c, o, k, s, g, a)
<1>0. Bus(c, o, tr, f) /\ Cycle \in Nat /\ Cycle >= 7
  BY LaNumbers DEF Seen
<1>1. g \in Nat \ {0}
  BY <1>0, BlockOn
<1> PICK b : b = c[g + 1].rx
  OBVIOUS
<1>2. Sound(o, tr, g, b)
  BY <1>0 DEF Bus, Blocks, BlockIs
<1>3. PICK late \in 0..1 : Gives(o, tr, g, g + 2 + late, 0, b)
  BY <1>2 DEF Sound
<1>4. b \in 1..Counters
  BY <1>2 DEF Sound
<1> PICK a \in (g + 2)..(g + 3) : a = g + 2 + late
  BY <1>1
<1>5. Sends(o, g, a, 0, b)
  BY <1>3 DEF Gives
<1>6. a \in Nat /\ g + 2 <= a /\ a + 2 + 0 = a + 2 /\ a + 3 + 0 = a + 3 /\ a + 2 \in Block(g)
  BY <1>0, <1>1 DEF Block
<1>7. On(o, g, a, a + 2)
  BY <1>5, <1>6 DEF Sends
<1>8. ASSUME k + 1 <= a, a + 3 <= Len(c)
      PROVE  a - k \in L!Statuses(s) /\ L!ResponseCounter(s, a - k) = b
  <2>1. a + 2 + 0 \in Block(g) /\ a + 3 + 0 <= Len(c) /\ 0 \in Nat
    BY <1>6, <1>8
  <2> QED BY <1>4, <1>5, <1>6, <1>8, <2>1, StatusAt, SMTT(60)
<1>9. Answering(c, o, k, s, g, a)
  BY <1>6, <1>7, <1>8 DEF Answering
<1> QED BY <1>4, <1>9

\* A status and the poll before it are of one block.
Follows(c, o, tr, f, h, u, b) ==
    /\ c[h + 1].rx \in 1..Counters
    /\ \A a, z \in Nat : On(o, h, a, z) /\ h + 2 <= a => u = a
    /\ \/ <<h + 2, u>> \in tr /\ b = c[h + 1].rx
       \/ Wrongs(f, h) /\ f.kind = "stale" /\ b = Preceding(c[h + 1].rx)

\* A status that has a poll before it answers that poll, rightly or with a stale
\* counter.
LEMMA RegularIs ==
    ASSUME NEW c, NEW o, NEW tr, NEW f, NEW k, NEW s, Seen(c, o, tr, f, k, s),
           NEW t \in L!Statuses(s), NEW p, Regular(s, p, t)
    PROVE  /\ t # 1 /\ t \in Nat /\ p \in Nat /\ k \in Nat
           /\ \E h \in PolledOf(c) : h = p + k - 1 /\ s[p].rx = c[h + 1].rx
           /\ \A h \in PolledOf(c) : h = p + k - 1 => Follows(c, o, tr, f, h, t + k, L!ResponseCounter(s, t))
<1>0. Bus(c, o, tr, f) /\ k \in Nat
  BY SeenFacts
<1>1. /\ p \in L!StatusPolls(s) /\ p + 1 <= t
      /\ \A q \in L!StatusPolls(s) : q + 1 <= t => q <= p
  BY DEF Regular
<1>2. /\ p \in 2..Len(s) /\ p + k - 1 \in PolledOf(c) /\ p + k - 1 > k /\ s[p].rx = c[p + k].rx
  BY <1>1, PollsSeen
<1>3. t # 1
  BY <1>1, <1>2
<1>4. t \in 2..Len(s) /\ t + k \in Nat
  BY <1>3, StatusIs
<1>5. PICK h \in PolledOf(c) :
        /\ t + k \in (h + 2)..(h + 4) /\ c[h + 1].rx \in 1..Counters
        /\ Follows(c, o, tr, f, h, t + k, L!ResponseCounter(s, t))
  <2> DEFINE b == L!ResponseCounter(s, t)
  <2>1. PICK h \in PolledOf(c) :
          /\ t + k \in (h + 2)..(h + 4) /\ c[h + 1].rx \in 1..Counters
          /\ \A a, z \in Nat : On(o, h, a, z) /\ h + 2 <= a => t + k = a
          /\ \/ <<h + 2, t + k>> \in tr /\ b = c[h + 1].rx
             \/ /\ Wrongs(f, h) /\ f.kind = "stale"
                /\ b = Preceding(c[h + 1].rx)
    BY <1>3, StatusIs
  <2>2. Follows(c, o, tr, f, h, t + k, b)
    BY <2>1 DEF Follows
  <2> QED BY <2>1, <2>2
<1> PICK g \in PolledOf(c) : g = p + k - 1
  BY <1>2
<1>6. /\ g \in Nat \ {0} /\ h \in Nat \ {0} /\ Cycle \in Nat /\ Cycle >= 7
      /\ g = h \/ g + Cycle <= h \/ h + Cycle <= g
  BY <1>0, PollsApart
<1>7. g <= h
  BY <1>0, <1>1, <1>2, <1>4, <1>5, <1>6
<1>8. ~(g < h)
  <2> SUFFICES ASSUME g < h PROVE FALSE
    OBVIOUS
  <2>1. h > k
    BY <1>0, <1>2, <1>6
  <2>2. h + 1 - k \in L!StatusPolls(s)
    BY <1>5, <2>1, PollsSeen
  <2>3. h + 1 - k + 1 <= t
    BY <1>0, <1>4, <1>5, <1>6
  <2>4. h + 1 - k <= p
    BY <1>1, <2>2, <2>3
  <2> QED BY <1>0, <1>2, <1>6, <2>4, SMTT(60)
<1>9. g = h
  BY <1>6, <1>7, <1>8
<1>10. Follows(c, o, tr, f, g, t + k, L!ResponseCounter(s, t))
  BY <1>5, <1>9
<1>11. p + k = g + 1 /\ t \in Nat /\ p \in Nat
  BY <1>0, <1>2, <1>4
<1>12. s[p].rx = c[g + 1].rx
  BY <1>2, <1>11
<1> QED BY <1>0, <1>3, <1>10, <1>11, <1>12

\* What is seen of the bus is in order.
LEMMA SeenOrderly ==
    ASSUME NEW c, NEW o, NEW tr, NEW f, NEW k, NEW s, Seen(c, o, tr, f, k, s)
    PROVE  Orderly(s)
<1>0. Bus(c, o, tr, f) /\ k \in Nat /\ Len(c) \in Nat
  BY SeenFacts
<1>1. ASSUME NEW t \in L!Statuses(s), NEW u \in L!Statuses(s), NEW p,
             Regular(s, p, t), Regular(s, p, u)
      PROVE  t = u
  <2>1. PICK h \in PolledOf(c) : h = p + k - 1
    BY <1>1, RegularIs
  <2>2. /\ Follows(c, o, tr, f, h, t + k, L!ResponseCounter(s, t))
        /\ Follows(c, o, tr, f, h, u + k, L!ResponseCounter(s, u))
    BY <1>1, <2>1, RegularIs
  <2>3. PICK a \in (h + 2)..(h + 4), z \in Nat : On(o, h, a, z)
    BY <1>0, BlockOn
  <2>4. h \in Nat \ {0}
    BY <1>0, BlockOn
  <2>5. a \in Nat /\ h + 2 <= a
    BY <2>4
  <2>6. t + k = a /\ u + k = a
    BY <2>2, <2>3, <2>5 DEF Follows
  <2>7. t \in Nat /\ u \in Nat
    BY <1>1, RegularIs
  <2> QED BY <1>0, <2>6, <2>7
<1>2. ASSUME NEW t \in L!Statuses(s), NEW p \in L!StatusPolls(s), p + 1 <= t,
             s[p].rx = L!ResponseCounter(s, t)
      PROVE  \/ \E q : Regular(s, q, t)
             \/ \E u \in L!Statuses(s) : u < t /\ Regular(s, p, u)
  <2>1. /\ p \in 2..Len(s) /\ p + k - 1 \in PolledOf(c) /\ p + k - 1 > k
        /\ s[p].rx = c[p + k].rx
    BY PollsSeen
  <2>2. t # 1
    BY <1>2, <2>1
  <2>3. t \in 2..Len(s) /\ t + k \in Nat
    BY <2>2, StatusIs
  <2>4. PICK h \in PolledOf(c) :
          /\ t + k \in (h + 2)..(h + 4) /\ c[h + 1].rx \in 1..Counters
          /\ \/ <<h + 2, t + k>> \in tr /\ L!ResponseCounter(s, t) = c[h + 1].rx
             \/ /\ Wrongs(f, h) /\ f.kind = "stale"
                /\ L!ResponseCounter(s, t) = Preceding(c[h + 1].rx)
    BY <2>2, StatusIs
  <2> PICK g \in PolledOf(c) : g = p + k - 1
    BY <2>1
  <2>5. ASSUME NEW q \in L!StatusPolls(s), NEW i \in PolledOf(c), NEW w \in Nat,
               q + 1 <= w, w + k <= i + 4
        PROVE  q + k - 1 <= i /\ q \in Nat
    <3>1. q \in 2..Len(s) /\ q + k - 1 \in PolledOf(c)
      BY PollsSeen
    <3> PICK e \in PolledOf(c) : e = q + k - 1
      BY <3>1
    <3>2. /\ e \in Nat /\ i \in Nat /\ Cycle \in Nat /\ Cycle >= 7
          /\ e = i \/ e + Cycle <= i \/ i + Cycle <= e
      BY <1>0, PollsApart, SMTT(60)
    <3> QED BY <1>0, <2>5, <3>1, <3>2
  <2>6. /\ g \in Nat \ {0} /\ h \in Nat \ {0} /\ Cycle \in Nat /\ Cycle >= 7
        /\ g = h \/ g + Cycle <= h \/ h + Cycle <= g
        /\ h + 1 <= Len(c)
    BY <1>0, PollsApart
  <2>7. g <= h
    BY <1>0, <1>2, <2>1, <2>3, <2>4, <2>6
  <2>8. CASE L!ResponseCounter(s, t) = c[h + 1].rx
    <3>1. h > k
      BY <1>0, <2>1, <2>6, <2>7
    <3>5. c[h + 1].rx \in 1..Counters
      BY <2>4
    <3>0. h + 1 - k \in L!StatusPolls(s) /\ s[h + 1 - k].rx = c[h + 1].rx
      <4>1. \A i \in PolledOf(c) : i > k /\ c[i + 1].rx \in 1..Counters =>
              i + 1 - k \in L!StatusPolls(s) /\ s[i + 1 - k].rx = c[i + 1].rx
        BY PollsSeen
      <4> QED BY <3>1, <3>5, <4>1
    <3> PICK q \in L!StatusPolls(s) : q = h + 1 - k /\ s[q].rx = c[h + 1].rx
      BY <3>0
    <3>2. q + 1 <= t
      BY <1>0, <2>3, <2>4, <2>6
    <3>3. ASSUME NEW r \in L!StatusPolls(s), r + 1 <= t PROVE r <= q
      <4>1. t \in Nat /\ t + k <= h + 4
        BY <2>3, <2>4, <2>6
      <4>2. r + k - 1 <= h /\ r \in Nat
        BY <2>5, <3>3, <4>1
      <4> QED BY <1>0, <2>6, <4>2
    <3>4. Regular(s, q, t)
      BY <2>8, <3>2, <3>3 DEF Regular
    <3> QED BY <3>4
  <2>9. CASE Wrongs(f, h) /\ f.kind = "stale" /\ L!ResponseCounter(s, t) = Preceding(c[h + 1].rx)
    <3>1. p + k = g + 1
      BY <1>0, <2>1
    <3>2. g # h
      <4> SUFFICES ASSUME g = h PROVE FALSE
        OBVIOUS
      <4>1. L!ResponseCounter(s, t) = c[h + 1].rx
        BY <1>2, <2>1, <3>1
      <4> QED BY <2>4, <2>9, <4>1, PrecedingIs
    <3>3. ~Wrongs(f, g)
      BY <2>6, <2>9, <3>2 DEF Wrongs
    <3>4. PICK a \in (g + 2)..(g + 3) : Answering(c, o, k, s, g, a)
      BY <3>3, SoundSeen
    <3>9. g + 7 <= h
      BY <2>6, <2>7, <3>2, SMTT(60)
    <3>10. g > k /\ a \in Nat /\ g + 2 <= a /\ a <= g + 3
      BY <1>0, <2>1, <2>6
    <3>5. k + 1 <= a /\ a + 3 <= Len(c)
      BY <1>0, <2>6, <3>9, <3>10, SMTT(60)
    <3> PICK u \in L!Statuses(s) : u = a - k /\ L!ResponseCounter(s, u) = c[g + 1].rx
      BY <3>4, <3>5 DEF Answering
    <3>11. u = a - k /\ u \in Nat /\ t \in Nat /\ t + k >= h + 2
      BY <1>0, <2>3, <2>4, <2>6, <3>5, <3>10
    <3>6. u < t /\ p + 1 <= u /\ u \in Nat /\ u + k <= g + 4
      <4>1. u + k = a /\ g + 2 <= a /\ a <= g + 3 /\ a < t + k
        BY <1>0, <2>6, <3>9, <3>10, <3>11, SMTT(60)
      <4>2. p \in Nat
        BY <2>1
      <4>3. p + 1 <= u
        BY <1>0, <2>6, <3>1, <3>11, <4>1, <4>2
      <4> QED BY <1>0, <2>6, <3>11, <4>1, <4>3, SMTT(60)
    <3>7. ASSUME NEW r \in L!StatusPolls(s), r + 1 <= u PROVE r <= p
      <4>1. r + k - 1 <= g /\ r \in Nat
        BY <2>5, <3>6, <3>7
      <4> QED BY <1>0, <2>1, <4>1
    <3>8. Regular(s, p, u)
      BY <2>1, <3>1, <3>6, <3>7 DEF Regular
    <3> QED BY <3>6, <3>8
  <2> QED BY <2>4, <2>8, <2>9
<1> QED BY <1>1, <1>2 DEF Orderly

\* So the pairs reported are polls and their answers.
LEMMA PairsReal ==
    ASSUME NEW c, NEW o, NEW tr, NEW f, NEW k, NEW s, Seen(c, o, tr, f, k, s),
           NEW x \in L!Pairs(s)
    PROVE  <<x[1] + k, x[2] + k>> \in tr
<1>0. s \in Seq(L!Sample) /\ k \in Nat
  BY SeenFacts
<1>1. PICK t \in L!Statuses(s), p \in L!StatusPolls(s) : Regular(s, p, t) /\ x = <<p + 1, t>>
  BY <1>0, SeenOrderly, PairsAre
<1>2. t \in Nat /\ p \in Nat
  BY <1>1, RegularIs
<1>3. PICK h \in PolledOf(c) : h = p + k - 1 /\ s[p].rx = c[h + 1].rx
  BY <1>1, RegularIs
<1>7. Follows(c, o, tr, f, h, t + k, L!ResponseCounter(s, t))
  BY <1>1, <1>3, RegularIs
<1>4. s[p].rx = L!ResponseCounter(s, t)
  BY <1>1 DEF Regular
<1>5. <<h + 2, t + k>> \in tr
  BY <1>3, <1>4, <1>7, PrecedingIs DEF Follows
<1>6. h + 2 = p + 1 + k
  BY <1>0, <1>2, <1>3
<1> QED BY <1>1, <1>5, <1>6


\* What went wrong in the block of h is in the part s of the capture.
Caught(c, o, tr, f, k, s, h) ==
    /\ Seen(c, o, tr, f, k, s) /\ h \in PolledOf(c) /\ Wrongs(f, h)
    /\ k + 2 <= h /\ f.to <= Len(c) /\ ~c[Len(c)].de

\* What follows from it.
LEMMA CaughtFacts ==
    ASSUME NEW c, NEW o, NEW tr, NEW f, NEW k, NEW s, NEW h, Caught(c, o, tr, f, k, s, h)
    PROVE  /\ Bus(c, o, tr, f) /\ Seen(c, o, tr, f, k, s) /\ s \in Seq(L!Sample)
           /\ h \in PolledOf(c) /\ Wrongs(f, h)
           /\ h \in Nat \ {0} /\ k \in Nat /\ Len(c) \in Nat /\ k + 2 <= h /\ h + 1 <= Len(c)
           /\ ~c[Len(c)].de /\ Unsound(o, tr, f, h, c[h + 1].rx)
           /\ f.kind \notin {"silent", "poll"} => h + 4 <= Len(c)
<1>1. Bus(c, o, tr, f) /\ Seen(c, o, tr, f, k, s) /\ h \in PolledOf(c)
  BY DEF Caught, Seen
<1>2. s \in Seq(L!Sample) /\ k \in Nat /\ Len(c) \in Nat
  BY <1>1, SeenFacts
<1>3. h \in Nat \ {0} /\ h + 1 <= Len(c)
  BY <1>1, BlockOn, <1>2
<1>4. Unsound(o, tr, f, h, c[h + 1].rx)
  BY <1>1 DEF Bus, Blocks, BlockIs, Caught
<1>5. f.to \in Nat
  BY <1>1 DEF Bus
<1>6. f.kind \notin {"silent", "poll"} => f.to >= h + 4
  BY <1>4 DEF Unsound
<1> QED BY <1>1, <1>2, <1>3, <1>4, <1>5, <1>6 DEF Caught

\* A driver that stays on is found by its length (analyze_samples).
LEMMA StuckFound ==
    ASSUME NEW c, NEW o, NEW tr, NEW f, NEW k, NEW s, NEW h, Caught(c, o, tr, f, k, s, h),
           NEW b, f.kind = "stuck"
    PROVE  L!ElectricalFails(s, b)
<1>0. /\ Bus(c, o, tr, f) /\ Seen(c, o, tr, f, k, s) /\ s \in Seq(L!Sample)
      /\ h \in PolledOf(c) /\ h \in Nat \ {0} /\ k \in Nat /\ Len(c) \in Nat /\ k + 2 <= h
      /\ ~c[Len(c)].de /\ h + 4 <= Len(c) /\ Unsound(o, tr, f, h, c[h + 1].rx)
  BY CaughtFacts
<1> PICK a \in Nat, z \in Nat : a = h + 2 /\ z = h + 4 + MaxDeHigh
  BY <1>0, LaNumbers
<1>1. On(o, h, a, z)
  <2>1. Sends(o, h, h + 2, MaxDeHigh, c[h + 1].rx)
    BY <1>0 DEF Unsound, Gives
  <2>2. h + 2 + 2 + MaxDeHigh = h + 4 + MaxDeHigh
    BY <1>0, LaNumbers
  <2> QED BY <2>1, <2>2 DEF Sends
<1>2. h <= a /\ h + 2 <= a /\ a <= z /\ z \in Block(h) /\ a \in Block(h) /\ a <= Len(c)
  BY <1>0, LaNumbers DEF Block
<1>3. z + 1 <= Len(c)
  BY <1>0, <1>1, <1>2, RestAfter
<1>4. a - k \in L!Rises(s)
  <2>1. a \in (k + 1)..Len(c)
    BY <1>0, <1>2
  <2> QED BY <1>0, <1>1, <1>2, <2>1, RiseAt
<1>5. /\ Len(s) = Len(c) - k
      /\ \A j \in (k + 1)..Len(c) : j - k \in 1..Len(s) /\ s[j - k].de = o[j].de
  <2>1. Len(s) = Len(c) - k
    BY <1>0 DEF Seen
  <2>2. \A j \in (k + 1)..Len(c) : j - k \in 1..Len(s) /\ s[j - k].de = o[j].de
    BY <1>0, SampleFrom, SMTT(60)
  <2> QED BY <2>1, <2>2
<1>6. z - k \in (a - k)..Len(s) /\ (z - k) - (a - k) > MaxDeHigh /\ MaxDeHigh \in Nat
  <2>1. MaxDeHigh \in Nat
    BY LaNumbers
  <2>2. a <= z /\ z + 1 <= Len(c) /\ Len(s) = Len(c) - k
    BY <1>2, <1>3, <1>5
  <2> QED BY <1>0, <2>1, <2>2
<1>7. ASSUME NEW m \in (a - k)..(z - k) PROVE s[m].de
  <2> PICK j \in Int : j = m + k
    BY <1>0
  <2>1. j \in a..z /\ j \in (k + 1)..Len(c) /\ j \in Block(h) /\ j - k = m
    BY <1>0, <1>2, <1>3, LaNumbers DEF Block
  <2>2. o[j].de
    BY <1>1, <2>1 DEF On
  <2>3. s[j - k].de = o[j].de
    BY <1>5, <2>1
  <2> QED BY <2>1, <2>2, <2>3
<1> QED BY <1>0, <1>4, <1>6, <1>7, StuckFails

\* A byte sent with the driver off is a failure ...
LEMMA StrayThere ==
    ASSUME NEW c, NEW o, NEW tr, NEW f, NEW k, NEW s, Seen(c, o, tr, f, k, s),
           NEW t \in (k + 2)..Len(c), o[t].tx # L!Idle, ~o[t].de, ~o[t - 1].de, NEW b
    PROVE  L!ElectricalFails(s, b)
<1>0. s \in Seq(L!Sample) /\ k \in Nat /\ Len(c) \in Nat /\ Len(s) = Len(c) - k
  BY SeenFacts
<1>1. t \in (k + 1)..Len(c)
  BY <1>0
<1>2. s[t - k].tx = o[t].tx /\ s[t - k].de = o[t].de
  BY <1>1, SampleFrom
<1> PICK r \in (k + 1)..Len(c) : r = t - 1
  BY <1>0
<1>3. s[r - k].de = o[r].de
  BY SampleFrom
<1>4. t - k \in 2..Len(s) /\ r - k = (t - k) - 1
  BY <1>0
<1> QED BY <1>0, <1>2, <1>3, <1>4, StrayFails

\* ... and so a byte before the driver is on is found, and one that has nothing to
\* do there.
LEMMA StrayFound ==
    ASSUME NEW c, NEW o, NEW tr, NEW f, NEW k, NEW s, NEW h, Caught(c, o, tr, f, k, s, h),
           NEW b, f.kind \in {"early", "stray"}
    PROVE  L!ElectricalFails(s, b)
<1>0. /\ Bus(c, o, tr, f) /\ Seen(c, o, tr, f, k, s) /\ s \in Seq(L!Sample)
      /\ h \in PolledOf(c) /\ h \in Nat \ {0} /\ k \in Nat /\ Len(c) \in Nat /\ k + 2 <= h
      /\ h + 4 <= Len(c) /\ Unsound(o, tr, f, h, c[h + 1].rx) /\ Cycle \in Nat /\ Cycle >= 7
  BY CaughtFacts, LaNumbers
<1>1. PICK t \in (h + 2)..(h + 3) : o[t].tx = L!Sof /\ ~o[t].de /\ ~o[t - 1].de
  <2>1. h + 1 \in Block(h) /\ h + 2 \in Block(h) /\ h + 3 \in Block(h)
    BY <1>0 DEF Block
  <2>2. CASE f.kind = "early"
    <3>1. On(o, h, h + 4, h + 4) /\ o[h + 3].tx = L!Sof
      BY <1>0, <2>2 DEF Unsound
    <3>2. h + 3 \notin (h + 4)..(h + 4) /\ h + 2 \notin (h + 4)..(h + 4)
      BY <1>0
    <3>3. ~o[h + 3].de /\ ~o[h + 2].de
      BY <2>1, <3>1, <3>2 DEF On
    <3>4. h + 3 \in (h + 2)..(h + 3) /\ (h + 3) - 1 = h + 2
      BY <1>0
    <3> QED BY <3>1, <3>3, <3>4
  <2>3. CASE f.kind = "stray"
    <3>1. On(o, h, h + 4, h + 4 + 2 + 0) /\ o[h + 2].tx = L!Sof
      BY <1>0, <2>3 DEF Unsound, Gives, Sends
    <3>2. h + 2 \notin (h + 4)..(h + 4 + 2 + 0) /\ h + 1 \notin (h + 4)..(h + 4 + 2 + 0)
      BY <1>0
    <3>3. ~o[h + 2].de /\ ~o[h + 1].de
      BY <2>1, <3>1, <3>2 DEF On
    <3>4. h + 2 \in (h + 2)..(h + 3) /\ (h + 2) - 1 = h + 1
      BY <1>0
    <3> QED BY <3>1, <3>3, <3>4
  <2> QED BY <2>2, <2>3
<1>2. t \in (k + 2)..Len(c) /\ o[t].tx # L!Idle
  BY <1>0, <1>1, CountersAre
<1> QED BY <1>0, <1>1, <1>2, StrayThere

\* A driver that is on without a byte is found, if some byte was sent.
LEMMA GhostFound ==
    ASSUME NEW c, NEW o, NEW tr, NEW f, NEW k, NEW s, NEW h, Caught(c, o, tr, f, k, s, h),
           NEW b, f.kind = "ghost", L!Activity(s) # {}
    PROVE  L!ElectricalFails(s, b)
<1>0. /\ Bus(c, o, tr, f) /\ Seen(c, o, tr, f, k, s) /\ s \in Seq(L!Sample)
      /\ h \in PolledOf(c) /\ h \in Nat \ {0} /\ k \in Nat /\ Len(c) \in Nat /\ k + 2 <= h
      /\ h + 4 <= Len(c) /\ Unsound(o, tr, f, h, c[h + 1].rx) /\ Cycle \in Nat /\ Cycle >= 7
  BY CaughtFacts, LaNumbers
<1>1. On(o, h, h + 3, h + 4) /\ \A i \in (h + 3)..(h + 5) : o[i].tx = L!Idle
  BY <1>0 DEF Unsound
<1> PICK a \in Nat, z \in Nat : a = h + 3 /\ z = h + 4
  BY <1>0
<1>2. /\ h + 2 <= a /\ a <= z /\ z \in Block(h) /\ a \in Block(h) /\ a \in (k + 1)..Len(c)
      /\ a - k # 1
  BY <1>0 DEF Block
<1>3. On(o, h, a, z)
  BY <1>1
<1>4. a - k \in L!Rises(s)
  BY <1>0, <1>2, <1>3, RiseAt
<1>5. L!WindowEnd(s, a - k) \in (a - k)..Len(s) /\ L!WindowEnd(s, a - k) <= z + 1 - k
  BY <1>0, <1>2, <1>3, EndIs
<1>6. L!Bytes(s, a - k) = {}
  <2> SUFFICES ASSUME NEW t \in L!Window(s, a - k) PROVE s[t].tx = L!Idle
    BY DEF L!Bytes
  <2>1. t \in (a - k)..L!WindowEnd(s, a - k)
    BY DEF L!Window
  <2>2. t \in 1..Len(s) /\ t + k \in (h + 3)..(h + 5)
    <3>1. Len(s) \in Nat
      BY <1>0
    <3> QED BY <1>0, <1>2, <1>5, <2>1, <3>1
  <2>3. s[t].tx = o[t + k].tx
    <3> QED BY <1>0, <2>2, SampleTo
  <2> QED BY <1>1, <2>2, <2>3
<1> QED BY <1>0, <1>2, <1>4, <1>6, GhostFails

\* A receiver enable that stays high is found (high_sample_counts).
LEMMA ReceiverFound ==
    ASSUME NEW c, NEW o, NEW tr, NEW f, NEW k, NEW s, NEW h, Caught(c, o, tr, f, k, s, h),
           NEW b, f.kind = "re"
    PROVE  L!ElectricalFails(s, b)
<1>0. /\ Bus(c, o, tr, f) /\ Seen(c, o, tr, f, k, s) /\ s \in Seq(L!Sample)
      /\ h \in PolledOf(c) /\ h \in Nat \ {0} /\ k \in Nat /\ Len(c) \in Nat /\ k + 2 <= h
      /\ Unsound(o, tr, f, h, c[h + 1].rx) /\ Cycle \in Nat /\ Cycle >= 2 * ReSkew + 7
      /\ ReSkew \in Nat
  BY CaughtFacts, LaNumbers
<1>1. /\ On(o, h, h + 2, h + 2 + 2 + 0) /\ o[h + 6 + ReSkew].re /\ f.to >= h + 6 + ReSkew
  BY <1>0 DEF Unsound, Gives, Sends
<1>2. f.to \in Nat /\ f.to <= Len(c)
  BY <1>0 DEF Bus, Caught
<1> PICK t \in Nat : t = h + 6 + ReSkew
  BY <1>0
<1>3. t \in Block(h) /\ t \in (k + 1)..Len(c) /\ t \notin (h + 2)..(h + 2 + 2 + 0)
  BY <1>0, <1>1, <1>2 DEF Block
<1>4. ~o[t].de /\ o[t].re
  BY <1>1, <1>3 DEF On
<1>5. t - k \in 1..Len(s) /\ ~s[t - k].de /\ s[t - k].re
  <2>1. t - k \in 1..Len(s) /\ s[t - k].de = o[t].de /\ s[t - k].re = o[t].re
    BY <1>0, <1>3, SampleFrom, SMTT(60)
  <2> QED BY <1>4, <2>1
<1>6. ASSUME NEW m \in 1..Len(s), s[m].de
      PROVE  t - k < m - ReSkew \/ (m < t - k /\ t - k > m + 1 + ReSkew)
  <2>0. m + k \in (k + 1)..Len(c) /\ s[m].de = o[m + k].de
    BY <1>0, SampleTo, SMTT(60)
  <2>1. m + k \in (k + 1)..Len(c) /\ o[m + k].de
    BY <1>6, <2>0
  <2> PICK j \in 1..Len(c) : j = m + k
    BY <1>0, <2>1
  <2>2. PICK g \in PolledOf(c) : j \in Block(g) /\ g + 2 <= j
    BY <1>0, <2>1, OnWhere
  <2>3. /\ g \in Nat \ {0} /\ (g = h \/ g + Cycle <= h \/ h + Cycle <= g)
    BY <1>0, PollsApart
  <2>4. g = h => j <= h + 4
    BY <1>0, <1>1, <2>1, <2>2 DEF On
  <2>5. j <= g + Cycle - 1
    BY <1>0, <2>2, <2>3 DEF Block
  <2> QED BY <1>0, <2>2, <2>3, <2>4, <2>5
<1> QED BY <1>0, <1>5, <1>6, ReceiverFails

\* A frame that is not what was sent is found by its CRC or parity.
LEMMA BrokenFound ==
    ASSUME NEW c, NEW o, NEW tr, NEW f, NEW k, NEW s, NEW h, Caught(c, o, tr, f, k, s, h),
           f.kind \in {"crc", "parity"}
    PROVE  L!UartFails(s)
<1>0. /\ Bus(c, o, tr, f) /\ Seen(c, o, tr, f, k, s) /\ s \in Seq(L!Sample)
      /\ h \in PolledOf(c) /\ h \in Nat \ {0} /\ k \in Nat /\ Len(c) \in Nat /\ k + 2 <= h
      /\ h + 4 <= Len(c) /\ Unsound(o, tr, f, h, c[h + 1].rx) /\ Cycle \in Nat /\ Cycle >= 7
      /\ ~c[Len(c)].de
  BY CaughtFacts, LaNumbers
<1>1. PICK b \in {L!Broken, L!Parity} : Sends(o, h, h + 3, 0, b)
  BY <1>0 DEF Unsound
<1> PICK a \in Nat, z \in Nat : a = h + 3 /\ z = h + 5
  BY <1>0
<1>2. On(o, h, a, z) /\ o[z].tx = b
  <2>1. h + 3 + 2 + 0 = h + 5 /\ h + 3 + 2 = h + 5
    BY <1>0
  <2> QED BY <1>1, <2>1 DEF Sends
<1>3. /\ h <= a /\ h + 2 <= a /\ a <= z /\ z \in Block(h) /\ a \in Block(h)
      /\ a \in (k + 1)..Len(c) /\ a <= Len(c)
  BY <1>0 DEF Block
<1>4. z + 1 <= Len(c)
  BY <1>0, <1>2, <1>3, RestAfter
<1>5. a - k \in L!Rises(s)
  BY <1>0, <1>2, <1>3, RiseAt
<1>6. L!WindowEnd(s, a - k) = z + 1 - k
  BY <1>0, <1>2, <1>3, <1>4, EndIs, SMTT(60)
<1>7. z - k \in L!Window(s, a - k) /\ z \in (k + 1)..Len(c)
  BY <1>0, <1>3, <1>4, <1>6 DEF L!Window
<1>8. s[z - k].tx = b
  <2>0. Seen(c, o, tr, f, k, s) /\ z \in (k + 1)..Len(c)
    BY <1>0, <1>7
  <2>1. s[z - k].tx = o[z].tx
    BY <2>0, SampleFrom
  <2> QED BY <1>2, <2>1
<1>9. b # L!Idle /\ b # L!Sof /\ b \notin 1..Counters
  BY LaNumbers DEF L!Broken, L!Parity, L!Idle, L!Sof
<1>10. z - k \in L!Bytes(s, a - k)
  BY <1>7, <1>8, <1>9 DEF L!Bytes
<1> QED BY <1>0, <1>5, <1>8, <1>9, <1>10, BrokenFails


\* The head after one is a block on.
LEMMA NextHead ==
    ASSUME NEW c, NEW o, NEW tr, NEW f, Bus(c, o, tr, f), NEW h \in HeadsOf(c),
           h + Cycle <= Len(c)
    PROVE  h + Cycle \in HeadsOf(c)
<1>1. /\ h \in 1..Len(c) /\ Cycle \in Nat /\ Cycle >= 7 /\ Len(c) \in Nat
      /\ \A g \in HeadsOf(c) : g \in 1..Len(c)
  <2>1. Len(c) \in Nat
    BY DEF Bus
  <2> QED BY <2>1, LaNumbers DEF HeadsOf
<1>2. h + Cycle \in 1..Len(c)
  BY <1>1
<1>3. PICK g \in HeadsOf(c) : h + Cycle \in Block(g)
  BY <1>2 DEF Bus
<1>4. g > h
  BY <1>1, <1>3 DEF Block
<1>5. h + Cycle <= g
  BY <1>4 DEF Bus
<1> QED BY <1>1, <1>3, <1>5 DEF Block

\* A status that is not cut off belongs to a poll.
LEMMA StatusFollows ==
    ASSUME NEW c, NEW o, NEW tr, NEW f, NEW k, NEW s, Seen(c, o, tr, f, k, s),
           NEW t \in L!Statuses(s), t # 1
    PROVE  /\ t \in 2..Len(s) /\ t + k \in Nat
           /\ \E h \in PolledOf(c) :
                /\ t + k \in (h + 2)..(h + 4)
                /\ Follows(c, o, tr, f, h, t + k, L!ResponseCounter(s, t))
<1> DEFINE b == L!ResponseCounter(s, t)
<1>1. PICK h \in PolledOf(c) :
        /\ t + k \in (h + 2)..(h + 4) /\ c[h + 1].rx \in 1..Counters
        /\ \A a, z \in Nat : On(o, h, a, z) /\ h + 2 <= a => t + k = a
        /\ \/ <<h + 2, t + k>> \in tr /\ b = c[h + 1].rx
           \/ /\ Wrongs(f, h) /\ f.kind = "stale"
              /\ b = Preceding(c[h + 1].rx)
  BY StatusIs
<1>2. Follows(c, o, tr, f, h, t + k, b)
  BY <1>1 DEF Follows
<1> QED BY <1>1, <1>2, StatusIs

\* Two answers with a wrong counter and none between them.
LEMMA GapFound ==
    ASSUME NEW c, NEW o, NEW tr, NEW f, NEW k, NEW s, Seen(c, o, tr, f, k, s),
           NEW g \in PolledOf(c), NEW h \in PolledOf(c), g < h,
           NEW a \in (g + 2)..(g + 4), NEW y \in Nat, On(o, g, a, y),
           NEW d \in (h + 2)..(h + 4), NEW z \in Nat, On(o, h, d, z),
           a - k \in L!Statuses(s), d - k \in L!Statuses(s),
           \A e \in PolledOf(c) : g < e /\ e < h => \A i \in Block(e) : ~o[i].de,
           L!ResponseCounter(s, d - k) # L!NextCounter(L!ResponseCounter(s, a - k))
    PROVE  L!UartFails(s)
<1>0. /\ Bus(c, o, tr, f) /\ s \in Seq(L!Sample) /\ k \in Nat
  BY SeenFacts
<1>1. /\ g \in Nat \ {0} /\ h \in Nat \ {0} /\ Cycle \in Nat /\ Cycle >= 7 /\ g + Cycle <= h
      /\ a \in Nat /\ d \in Nat
  <2>1. /\ g \in Nat \ {0} /\ h \in Nat \ {0} /\ Cycle \in Nat /\ Cycle >= 7
        /\ g = h \/ g + Cycle <= h \/ h + Cycle <= g
    BY <1>0, PollsApart
  <2> QED BY <2>1
<1>2. ASSUME NEW m \in L!Statuses(s) PROVE m <= a - k \/ d - k <= m
  <2>1. m \in 1..Len(s) /\ s[m].de /\ a - k \in 1..Len(s)
    <3>1. m \in L!Rises(s) /\ a - k \in L!Rises(s)
      BY <1>0, StatusIsAnswer
    <3> QED BY <1>0, <3>1, WindowFacts
  <2>2. CASE m = 1
    BY <2>1, <2>2
  <2>3. CASE m # 1
    <3>1. PICK e \in PolledOf(c) :
            /\ m + k \in (e + 2)..(e + 4)
            /\ Follows(c, o, tr, f, e, m + k, L!ResponseCounter(s, m))
      BY <2>3, StatusFollows
    <3>2. /\ e \in Nat \ {0}
          /\ g = e \/ g + Cycle <= e \/ e + Cycle <= g
      BY <1>0, PollsApart
    <3>3. h = e \/ h + Cycle <= e \/ e + Cycle <= h
      BY <1>0, PollsApart
    <3>4. m \in Nat /\ m + k \in Block(e)
      BY <1>0, <1>1, <2>1, <3>1, <3>2 DEF Block
    <3>5. o[m + k].de
      BY <2>1, SampleTo, SMTT(60)
    <3>6. ~(g < e /\ e < h)
      BY <3>4, <3>5
    <3>7. e = g => m + k = a
      BY <1>1, <3>1 DEF Follows
    <3>8. e = h => m + k = d
      BY <1>1, <3>1 DEF Follows
    <3> QED BY <1>0, <1>1, <3>1, <3>2, <3>3, <3>4, <3>6, <3>7, <3>8, SMTT(60)
  <2> QED BY <2>2, <2>3
<1>3. a - k < d - k
  BY <1>0, <1>1
<1> QED BY <1>2, <1>3, GapFails

\* An answer on record is one to a poll.
LEMMA TracedIs ==
    ASSUME NEW c, NEW o, NEW tr, NEW f, Bus(c, o, tr, f), NEW x \in tr
    PROVE  \E g \in PolledOf(c), late \in 0..2 : x[1] = g + 2 /\ x[2] = g + 2 + late
<1>1. PICK g \in PolledOf(c), late \in 0..2 : x = <<g + 2, g + 2 + late>>
  BY DEF Bus, Traced
<1> QED BY <1>1

\* A poll before another one has one a block before it.
LEMMA PollBefore ==
    ASSUME NEW c, NEW o, NEW tr, NEW f, Bus(c, o, tr, f), NEW h \in PolledOf(c), h > 1
    PROVE  /\ h - Cycle \in PolledOf(c) /\ h - Cycle \in Nat \ {0}
           /\ h \in Nat \ {0} /\ Cycle \in Nat /\ Cycle >= 7
           /\ Wrongs(f, h) => ~Wrongs(f, h - Cycle)
<1>1. h \in Nat \ {0} /\ h + 1 \in 1..Len(c) /\ h \in HeadsOf(c) /\ Cycle \in Nat /\ Cycle >= 7
  BY BlockOn, LaNumbers
<1>2. h - Cycle \in HeadsOf(c)
  BY <1>1 DEF Bus
<1>3. h - Cycle \in 1..Len(c)
  BY <1>2 DEF HeadsOf
<1>4. h - Cycle + 1 <= Len(c)
  BY <1>1, <1>3
<1>5. h - Cycle \in PolledOf(c)
  BY <1>2, <1>4 DEF PolledOf
<1>6. Wrongs(f, h) => ~Wrongs(f, h - Cycle)
  BY <1>1 DEF Wrongs
<1> QED BY <1>1, <1>3, <1>5, <1>6


\* A sound poll has the counter the master meant, a wrong one that of the fault.
LEMMA MeantSound ==
    ASSUME NEW c, NEW o, NEW tr, NEW f, Bus(c, o, tr, f), NEW g \in PolledOf(c), ~Wrongs(f, g)
    PROVE  Meant(c, f, g) = c[g + 1].rx /\ c[g + 1].rx \in 1..Counters
BY DEF Bus, InSequence, Meant

\* A poll that goes wrong means the counter of the fault.
LEMMA MeantWrong ==
    ASSUME NEW c, NEW o, NEW tr, NEW f, Bus(c, o, tr, f), NEW g \in PolledOf(c), Wrongs(f, g)
    PROVE  Meant(c, f, g) = f.counter /\ f.counter \in 1..Counters
BY DEF Bus, InSequence, Meant

\* A repeated poll means the counter of the poll before it.
LEMMA MeantAgain ==
    ASSUME NEW c, NEW o, NEW tr, NEW f, Bus(c, o, tr, f), NEW g \in PolledOf(c),
           NEW h \in PolledOf(c), h = g + Cycle, Wrongs(f, h), f.kind = "repeat"
    PROVE  Meant(c, f, h) = Meant(c, f, g)
BY DEF Bus, InSequence

\* The counter goes on from poll to poll.
LEMMA MeantNext ==
    ASSUME NEW c, NEW o, NEW tr, NEW f, Bus(c, o, tr, f), NEW g \in PolledOf(c),
           NEW h \in PolledOf(c), h = g + Cycle, ~Wrongs(f, h) \/ f.kind # "repeat"
    PROVE  Meant(c, f, h) = L!NextCounter(Meant(c, f, g))
BY DEF Bus, InSequence

\* A good answer to the poll of g, from a on.
Replies(c, o, k, s, g, a) ==
    /\ On(o, g, a, a + 2) /\ a \in Nat /\ a + 2 \in Nat
    /\ a - k \in L!Statuses(s) /\ L!ResponseCounter(s, a - k) = c[g + 1].rx
\* An answer with a counter that has begun before the bus is at rest is all there.
LEMMA AnswerAt ==
    ASSUME NEW c, NEW o, NEW tr, NEW f, NEW k, NEW s, Seen(c, o, tr, f, k, s),
           NEW h \in PolledOf(c), NEW a \in Nat, NEW b \in 1..Counters, Sends(o, h, a, 0, b),
           h + 2 <= a, a <= h + 3, k + 1 <= a, a <= Len(c), ~c[Len(c)].de
    PROVE  /\ On(o, h, a, a + 2) /\ a + 2 \in Nat
           /\ a - k \in L!Statuses(s) /\ L!ResponseCounter(s, a - k) = b
<1>0. Bus(c, o, tr, f) /\ k \in Nat /\ Len(c) \in Nat /\ Cycle \in Nat /\ Cycle >= 7
  BY SeenFacts, LaNumbers
<1>1. h \in Nat \ {0}
  BY <1>0, BlockOn
<1>2. a + 2 + 0 = a + 2 /\ a + 3 + 0 = a + 3 /\ a + 2 \in Nat /\ a + 2 \in Block(h) /\ h <= a
  BY <1>0, <1>1 DEF Block
<1>3. On(o, h, a, a + 2)
  BY <1>2 DEF Sends
<1>4. a + 3 <= Len(c)
  <2>1. (a + 2) + 1 <= Len(c)
    BY <1>0, <1>2, <1>3, RestAfter
  <2> QED BY <1>0, <2>1
<1>5. a + 2 + 0 \in Block(h) /\ a + 3 + 0 <= Len(c) /\ 0 \in Nat
  BY <1>2, <1>4
<1> QED BY <1>2, <1>3, <1>5, StatusAt

\* The answer of a sound block that is all there.
LEMMA AnswerSeen ==
    ASSUME NEW c, NEW o, NEW tr, NEW f, NEW k, NEW s, Seen(c, o, tr, f, k, s),
           NEW g \in PolledOf(c), ~Wrongs(f, g), k <= g, ~c[Len(c)].de, g + 3 <= Len(c)
    PROVE  /\ c[g + 1].rx \in 1..Counters
           /\ \E a \in (g + 2)..(g + 3) : Replies(c, o, k, s, g, a)
<1>0. Bus(c, o, tr, f) /\ k \in Nat /\ Len(c) \in Nat
  BY SeenFacts
<1>1. g \in Nat \ {0}
  BY <1>0, BlockOn
<1>2. PICK a \in (g + 2)..(g + 3) : Answering(c, o, k, s, g, a)
  BY SoundSeen
<1>a. a \in Nat /\ On(o, g, a, a + 2) /\ a + 2 \in Block(g) /\ a + 2 \in Nat
  BY <1>2 DEF Answering
<1> PICK z \in Nat : z = a + 2
  BY <1>a
<1>3. z + 1 <= Len(c)
  <2>1. g <= a /\ a <= Len(c) /\ On(o, g, a, z) /\ z \in Block(g) /\ a \in Nat
    BY <1>0, <1>1, <1>a
  <2> QED BY <1>0, <2>1, RestAfter
<1>4. k + 1 <= a /\ a + 3 <= Len(c)
  BY <1>0, <1>1, <1>a, <1>3
<1>5. c[g + 1].rx \in 1..Counters
  BY SoundSeen
<1>6. Replies(c, o, k, s, g, a)
  BY <1>2, <1>4, <1>a DEF Replies, Answering
<1> QED BY <1>5, <1>6

\* A poll without an answer leaves a gap between the answers around it.
LEMMA SilentFound ==
    ASSUME NEW c, NEW o, NEW tr, NEW f, NEW k, NEW s, NEW h, Caught(c, o, tr, f, k, s, h),
           f.kind \in {"silent", "poll"},
           NEW e \in PolledOf(c), k <= e, e < h,
           NEW r \in PolledOf(c), h < r, r + 3 <= Len(c)
    PROVE  L!UartFails(s)
<1>0. /\ Bus(c, o, tr, f) /\ Seen(c, o, tr, f, k, s)
      /\ h \in PolledOf(c) /\ Wrongs(f, h) /\ h \in Nat \ {0} /\ k \in Nat /\ Len(c) \in Nat
      /\ ~c[Len(c)].de /\ Unsound(o, tr, f, h, c[h + 1].rx) /\ Cycle \in Nat /\ Cycle >= 7
  BY CaughtFacts, LaNumbers
<1>1. e \in Nat \ {0} /\ e + Cycle <= h
  <2>1. e \in Nat \ {0} /\ (e = h \/ e + Cycle <= h \/ h + Cycle <= e)
    BY <1>0, PollsApart
  <2> QED BY <1>0, <2>1
<1>2. r \in Nat \ {0} /\ h + Cycle <= r
  <2>1. r \in Nat \ {0} /\ (r = h \/ r + Cycle <= h \/ h + Cycle <= r)
    BY <1>0, PollsApart
  <2> QED BY <1>0, <2>1
<1> PICK g \in PolledOf(c) : g = h - Cycle
  BY <1>0, <1>1, PollBefore
<1> PICK q \in PolledOf(c) : q = h + Cycle
  <2>1. h \in HeadsOf(c) /\ h + Cycle <= Len(c) /\ h + Cycle + 1 <= Len(c)
    BY <1>0, <1>2 DEF PolledOf
  <2>2. h + Cycle \in HeadsOf(c)
    BY <1>0, <2>1, NextHead
  <2> QED BY <2>1, <2>2 DEF PolledOf
<1>3. /\ g \in Nat /\ q \in Nat /\ g + Cycle = h /\ ~Wrongs(f, g) /\ ~Wrongs(f, q)
      /\ k <= g /\ k <= q /\ g + 3 <= Len(c) /\ q + 3 <= Len(c) /\ g < q
  BY <1>0, <1>1, <1>2 DEF Wrongs
<1>4. PICK a \in (g + 2)..(g + 3) : Replies(c, o, k, s, g, a)
  BY <1>0, <1>3, AnswerSeen
<1>5. PICK d \in (q + 2)..(q + 3) : Replies(c, o, k, s, q, d)
  BY <1>0, <1>3, AnswerSeen
<1>6. c[g + 1].rx \in 1..Counters
      /\ c[q + 1].rx = L!NextCounter(L!NextCounter(c[g + 1].rx))
  <2>1. Meant(c, f, g) = c[g + 1].rx /\ c[g + 1].rx \in 1..Counters
    BY <1>0, <1>3, MeantSound, ZenonT(60)
  <2>2. Meant(c, f, h) = L!NextCounter(Meant(c, f, g))
    BY <1>0, <1>3, MeantNext
  <2>3. Meant(c, f, q) = c[q + 1].rx
    BY <1>0, <1>3, MeantSound, ZenonT(60)
  <2>4. Meant(c, f, q) = L!NextCounter(Meant(c, f, h))
    <3>1. q = h + Cycle
      OBVIOUS
    <3> QED BY <1>0, <1>3, <3>1, MeantNext
  <2> QED BY <2>1, <2>2, <2>3, <2>4
<1>7. c[q + 1].rx # L!NextCounter(c[g + 1].rx)
  BY <1>6, PrecedingIs
<1>8. ASSUME NEW p \in PolledOf(c), g < p, p < q PROVE \A i \in Block(p) : ~o[i].de
  <2>1. p \in Nat \ {0} /\ (p = h \/ p + Cycle <= h \/ h + Cycle <= p)
    BY <1>0, PollsApart
  <2>2. p = g \/ p + Cycle <= g \/ g + Cycle <= p
    BY <1>0, PollsApart
  <2>3. p = h
    BY <1>0, <1>3, <1>8, <2>1, <2>2
  <2> QED BY <1>0, <2>3 DEF Unsound
<1>9. a \in (g + 2)..(g + 4) /\ d \in (q + 2)..(q + 4)
  <2>1. g \in Nat /\ q \in Nat
    BY <1>3
  <2> QED BY <2>1, SMTT(60)
<1> QED BY <1>0, <1>3, <1>4, <1>5, <1>7, <1>8, <1>9, GapFound DEF Replies

\* A poll with the counter of the one before it is answered with it.
LEMMA RepeatFound ==
    ASSUME NEW c, NEW o, NEW tr, NEW f, NEW k, NEW s, NEW h, Caught(c, o, tr, f, k, s, h),
           f.kind = "repeat", NEW e \in PolledOf(c), k <= e, e < h
    PROVE  L!UartFails(s)
<1>0. /\ Bus(c, o, tr, f) /\ Seen(c, o, tr, f, k, s)
      /\ h \in PolledOf(c) /\ Wrongs(f, h) /\ h \in Nat \ {0} /\ k \in Nat /\ Len(c) \in Nat
      /\ k + 2 <= h /\ h + 4 <= Len(c)
      /\ ~c[Len(c)].de /\ Unsound(o, tr, f, h, c[h + 1].rx) /\ Cycle \in Nat /\ Cycle >= 7
  BY CaughtFacts, LaNumbers
<1>1. e \in Nat \ {0} /\ e + Cycle <= h
  <2>1. e \in Nat \ {0} /\ (e = h \/ e + Cycle <= h \/ h + Cycle <= e)
    BY <1>0, PollsApart
  <2> QED BY <1>0, <2>1
<1> PICK g \in PolledOf(c) : g = h - Cycle
  BY <1>0, <1>1, PollBefore
<1>3. /\ g \in Nat /\ g + Cycle = h /\ ~Wrongs(f, g) /\ k <= g /\ g + 3 <= Len(c) /\ g < h
  BY <1>0, <1>1 DEF Wrongs
<1>4. PICK a \in (g + 2)..(g + 3) : Replies(c, o, k, s, g, a)
  BY <1>0, <1>3, AnswerSeen
<1>5. Sends(o, h, h + 2, 0, f.counter)
  BY <1>0 DEF Unsound, Gives
<1>6. f.counter = c[g + 1].rx /\ f.counter \in 1..Counters
  <2>1. Meant(c, f, g) = c[g + 1].rx
    BY <1>0, <1>3, MeantSound, ZenonT(60)
  <2>2. Meant(c, f, h) = Meant(c, f, g)
    BY <1>0, <1>3, MeantAgain
  <2>3. Meant(c, f, h) = f.counter /\ f.counter \in 1..Counters
    BY <1>0, MeantWrong
  <2> QED BY <2>1, <2>2, <2>3
<1> PICK d \in Nat : d = h + 2
  BY <1>0
<1> PICK b \in 1..Counters : b = f.counter
  BY <1>6
<1>7. /\ Sends(o, h, d, 0, b) /\ h + 2 <= d /\ d <= h + 3 /\ k + 1 <= d /\ d <= Len(c)
  BY <1>0, <1>5
<1>8. /\ On(o, h, d, d + 2) /\ d + 2 \in Nat
      /\ d - k \in L!Statuses(s) /\ L!ResponseCounter(s, d - k) = b
  BY <1>0, <1>7, AnswerAt, SMTT(60)
<1>10. b # L!NextCounter(c[g + 1].rx)
  BY <1>6, PrecedingIs
<1>11. \A p \in PolledOf(c) : g < p /\ p < h => \A i \in Block(p) : ~o[i].de
  <2> SUFFICES ASSUME NEW p \in PolledOf(c), g < p, p < h PROVE FALSE
    OBVIOUS
  <2>1. p \in Nat \ {0} /\ (p = h \/ p + Cycle <= h \/ h + Cycle <= p)
    BY <1>0, PollsApart
  <2>2. p = g \/ p + Cycle <= g \/ g + Cycle <= p
    BY <1>0, PollsApart
  <2> QED BY <1>0, <1>3, <2>1, <2>2
<1>12. a \in (g + 2)..(g + 4) /\ d \in (h + 2)..(h + 4)
  BY <1>0, <1>3
<1> QED BY <1>0, <1>3, <1>4, <1>8, <1>10, <1>11, <1>12, GapFound DEF Replies


\* The answer of a sound block, when it begins in the part seen.
LEMMA AnswerThere ==
    ASSUME NEW c, NEW o, NEW tr, NEW f, NEW k, NEW s, Seen(c, o, tr, f, k, s),
           NEW g \in PolledOf(c), ~Wrongs(f, g), ~c[Len(c)].de
    PROVE  \E a \in (g + 2)..(g + 3) :
                /\ On(o, g, a, a + 2) /\ a \in Nat /\ a + 2 \in Nat
                /\ k + 1 <= a /\ a <= Len(c) => Replies(c, o, k, s, g, a)
<1>0. Bus(c, o, tr, f) /\ k \in Nat /\ Len(c) \in Nat
  BY SeenFacts
<1>1. g \in Nat \ {0}
  BY <1>0, BlockOn
<1>2. PICK a \in (g + 2)..(g + 3) : Answering(c, o, k, s, g, a)
  BY SoundSeen
<1>a. a \in Nat /\ On(o, g, a, a + 2) /\ a + 2 \in Block(g) /\ a + 2 \in Nat
  BY <1>2 DEF Answering
<1> PICK z \in Nat : z = a + 2
  BY <1>a
<1>3. ASSUME k + 1 <= a, a <= Len(c) PROVE Replies(c, o, k, s, g, a)
  <2>1. g <= a /\ a <= Len(c) /\ On(o, g, a, z) /\ z \in Block(g) /\ a \in Nat
    BY <1>0, <1>1, <1>a, <1>3
  <2>2. z + 1 <= Len(c)
    BY <1>0, <2>1, RestAfter
  <2>3. a + 3 <= Len(c)
    BY <1>0, <1>a, <2>2
  <2> QED BY <1>2, <1>3, <1>a, <2>3 DEF Replies, Answering
<1> QED BY <1>a, <1>3

\* The head of a poll one block on, when there is a later one.
LEMMA PollAfter ==
    ASSUME NEW c, NEW o, NEW tr, NEW f, Bus(c, o, tr, f), NEW h \in PolledOf(c),
           NEW e \in PolledOf(c), h < e
    PROVE  h + Cycle \in PolledOf(c) /\ h + Cycle <= e
<1>1. /\ h \in Nat \ {0} /\ e \in Nat \ {0} /\ e + 1 <= Len(c) /\ Len(c) \in Nat
      /\ h \in HeadsOf(c) /\ Cycle \in Nat /\ Cycle >= 7
  BY BlockOn, LaNumbers, SMTT(60) DEF Bus
<1>2. h + Cycle <= e
  <2>1. h = e \/ h + Cycle <= e \/ e + Cycle <= h
    BY PollsApart
  <2> QED BY <1>1, <2>1
<1>3. h + Cycle <= Len(c) /\ h + Cycle + 1 <= Len(c)
  BY <1>1, <1>2
<1>4. h + Cycle \in HeadsOf(c)
  BY <1>1, <1>3, NextHead
<1> QED BY <1>2, <1>3, <1>4 DEF PolledOf

\* Between two polls a block apart the driver is off.
LEMMA NoneBetween ==
    ASSUME NEW c, NEW o, NEW tr, NEW f, Bus(c, o, tr, f), NEW g \in PolledOf(c),
           NEW h \in PolledOf(c), h = g + Cycle
    PROVE  \A p \in PolledOf(c) : g < p /\ p < h => \A i \in Block(p) : ~o[i].de
<1> SUFFICES ASSUME NEW p \in PolledOf(c), g < p, p < h PROVE FALSE
  OBVIOUS
<1>1. /\ p \in Nat \ {0} /\ (p = h \/ p + Cycle <= h \/ h + Cycle <= p)
      /\ h \in Nat \ {0} /\ Cycle \in Nat /\ Cycle >= 7
  BY PollsApart
<1>2. g \in Nat \ {0} /\ (p = g \/ p + Cycle <= g \/ g + Cycle <= p)
  BY PollsApart
<1> QED BY <1>1, <1>2

\* The stale answer, and what the poll before it and after it had as their counters.
LEMMA StaleIs ==
    ASSUME NEW c, NEW o, NEW tr, NEW f, NEW k, NEW s, NEW h, Caught(c, o, tr, f, k, s, h),
           f.kind = "stale"
    PROVE  /\ c[h + 1].rx \in 1..Counters
           /\ \E d \in Nat : /\ d = h + 3 /\ On(o, h, d, d + 2) /\ d + 2 \in Nat
                             /\ d - k \in L!Statuses(s)
                             /\ L!ResponseCounter(s, d - k) = Preceding(c[h + 1].rx)
           /\ \A g \in PolledOf(c) : h = g + Cycle => c[g + 1].rx = Preceding(c[h + 1].rx)
           /\ \A g \in PolledOf(c) : g = h + Cycle => c[g + 1].rx = L!NextCounter(c[h + 1].rx)
<1>0. /\ Bus(c, o, tr, f) /\ Seen(c, o, tr, f, k, s)
      /\ h \in PolledOf(c) /\ Wrongs(f, h) /\ h \in Nat \ {0} /\ k \in Nat /\ Len(c) \in Nat
      /\ k + 2 <= h /\ h + 4 <= Len(c)
      /\ ~c[Len(c)].de /\ Unsound(o, tr, f, h, c[h + 1].rx) /\ Cycle \in Nat /\ Cycle >= 7
  BY CaughtFacts, LaNumbers
<1> PICK b : b = c[h + 1].rx
  OBVIOUS
<1>1. b = f.counter /\ Sends(o, h, h + 3, 0, Preceding(b))
  BY <1>0 DEF Unsound
<1>2. b \in 1..Counters /\ Meant(c, f, h) = b
  BY <1>0, <1>1, MeantWrong
<1>3. Preceding(b) \in 1..Counters
  BY <1>2, PrecedingIs
<1> PICK d \in Nat : d = h + 3
  BY <1>0
<1>4. Sends(o, h, d, 0, Preceding(b)) /\ h + 2 <= d /\ d <= h + 3 /\ k + 1 <= d /\ d <= Len(c)
  BY <1>0, <1>1
<1>5. /\ On(o, h, d, d + 2) /\ d + 2 \in Nat
      /\ d - k \in L!Statuses(s) /\ L!ResponseCounter(s, d - k) = Preceding(b)
  BY <1>0, <1>3, <1>4, AnswerAt
<1>6. ASSUME NEW g \in PolledOf(c), h = g + Cycle PROVE c[g + 1].rx = Preceding(b)
  <2>1. g \in Nat \ {0}
    BY <1>0, BlockOn
  <2>2. ~Wrongs(f, g)
    BY <1>0, <1>6, <2>1 DEF Wrongs
  <2>3. Meant(c, f, g) = c[g + 1].rx /\ c[g + 1].rx \in 1..Counters
    BY <1>0, <2>2, MeantSound
  <2>4. b = L!NextCounter(c[g + 1].rx)
    <3>1. Meant(c, f, h) = L!NextCounter(Meant(c, f, g))
      BY <1>0, <1>6, MeantNext
    <3> QED BY <1>2, <2>3, <3>1
  <2> QED BY <2>3, <2>4, PrecedingIs
<1>7. ASSUME NEW g \in PolledOf(c), g = h + Cycle PROVE c[g + 1].rx = L!NextCounter(b)
  <2>1. ~Wrongs(f, g)
    BY <1>0, <1>7 DEF Wrongs
  <2>2. Meant(c, f, g) = c[g + 1].rx
    BY <1>0, <2>1, MeantSound
  <2> QED BY <1>0, <1>2, <1>7, <2>1, <2>2, MeantNext
<1> QED BY <1>2, <1>5, <1>6, <1>7

\* A status begins where the driver is switched on.
LEMMA FollowsIs ==
    ASSUME NEW c, NEW o, NEW tr, NEW f, NEW h, NEW u, NEW b, Follows(c, o, tr, f, h, u, b),
           NEW a \in Nat, NEW z \in Nat, On(o, h, a, z), h + 2 <= a
    PROVE  u = a
BY DEF Follows

\* When an answer before it is seen, the stale answer does not count on from it.
LEMMA StaleAfter ==
    ASSUME NEW c, NEW o, NEW tr, NEW f, NEW k, NEW s, NEW h, Caught(c, o, tr, f, k, s, h),
           f.kind = "stale", NEW t \in L!Statuses(s), t # 1, t + k < h
    PROVE  L!UartFails(s)
<1>0. /\ Bus(c, o, tr, f) /\ Seen(c, o, tr, f, k, s)
      /\ h \in PolledOf(c) /\ Wrongs(f, h) /\ h \in Nat \ {0} /\ k \in Nat /\ Len(c) \in Nat
      /\ h + 1 <= Len(c) /\ ~c[Len(c)].de /\ Cycle \in Nat /\ Cycle >= 7
  BY CaughtFacts, LaNumbers
<1>1. PICK e \in PolledOf(c) :
        /\ t + k \in (e + 2)..(e + 4)
        /\ Follows(c, o, tr, f, e, t + k, L!ResponseCounter(s, t))
  BY <1>0, StatusFollows
<1>2. t \in 2..Len(s) /\ t \in Nat
  BY <1>0, StatusFollows, SMTT(60)
<1>3. e \in Nat \ {0} /\ e + Cycle <= h
  <2>1. e \in Nat \ {0} /\ (e = h \/ e + Cycle <= h \/ h + Cycle <= e)
    BY <1>0, PollsApart
  <2> QED BY <1>0, <1>1, <1>2, <2>1
<1> PICK g \in PolledOf(c) : g = h - Cycle
  BY <1>0, <1>3, PollBefore
<1>4. g \in Nat /\ h = g + Cycle /\ ~Wrongs(f, g) /\ g < h /\ e <= g
  BY <1>0, <1>3 DEF Wrongs
<1>5. PICK a \in (g + 2)..(g + 3) :
        /\ On(o, g, a, a + 2) /\ a \in Nat /\ a + 2 \in Nat
        /\ k + 1 <= a /\ a <= Len(c) => Replies(c, o, k, s, g, a)
  BY <1>0, <1>4, AnswerThere
<1>6. k + 1 <= a /\ a <= Len(c)
  <2>1. e = g => t + k = a
    <3> SUFFICES ASSUME e = g PROVE t + k = a
      OBVIOUS
    <3>1. Follows(c, o, tr, f, g, t + k, L!ResponseCounter(s, t))
      BY <1>1
    <3>2. g + 2 <= a
      BY <1>4, <1>5
    <3> QED BY <1>5, <3>1, <3>2, FollowsIs
  <2>2. e = g \/ e + Cycle <= g
    <3>1. e = g \/ e + Cycle <= g \/ g + Cycle <= e
      BY <1>0, PollsApart
    <3> QED BY <1>0, <1>3, <1>4, <3>1
  <2> QED BY <1>0, <1>1, <1>2, <1>3, <1>4, <1>5, <2>1, <2>2
<1>7. Replies(c, o, k, s, g, a)
  BY <1>5, <1>6
<1>8. PICK d \in Nat :
        /\ d = h + 3 /\ On(o, h, d, d + 2) /\ d + 2 \in Nat /\ d - k \in L!Statuses(s)
        /\ L!ResponseCounter(s, d - k) = Preceding(c[h + 1].rx)
  BY StaleIs
<1>9. c[g + 1].rx = Preceding(c[h + 1].rx) /\ c[h + 1].rx \in 1..Counters
  BY <1>4, StaleIs
<1>10. Preceding(c[h + 1].rx) # L!NextCounter(c[g + 1].rx)
  BY <1>9, PrecedingIs
<1>11. \A p \in PolledOf(c) : g < p /\ p < h => \A i \in Block(p) : ~o[i].de
  BY <1>0, <1>4, NoneBetween
<1>12. a \in (g + 2)..(g + 4) /\ d \in (h + 2)..(h + 4)
  BY <1>0, <1>4, <1>8
<1> QED BY <1>0, <1>4, <1>5, <1>7, <1>8, <1>10, <1>11, <1>12, GapFound DEF Replies

\* Nor does an answer after it from the stale one.
LEMMA StaleBefore ==
    ASSUME NEW c, NEW o, NEW tr, NEW f, NEW k, NEW s, NEW h, Caught(c, o, tr, f, k, s, h),
           f.kind = "stale", NEW t \in L!Statuses(s), t # 1, t + k > h + 4
    PROVE  L!UartFails(s)
<1>0. /\ Bus(c, o, tr, f) /\ Seen(c, o, tr, f, k, s)
      /\ h \in PolledOf(c) /\ Wrongs(f, h) /\ h \in Nat \ {0} /\ k \in Nat /\ Len(c) \in Nat
      /\ k + 2 <= h /\ ~c[Len(c)].de /\ Cycle \in Nat /\ Cycle >= 7
  BY CaughtFacts, LaNumbers
<1>1. PICK e \in PolledOf(c) :
        /\ t + k \in (e + 2)..(e + 4)
        /\ Follows(c, o, tr, f, e, t + k, L!ResponseCounter(s, t))
  BY <1>0, StatusFollows
<1>2. t \in 2..Len(s) /\ t \in Nat /\ t + k <= Len(c)
  <2>1. t \in 2..Len(s)
    BY <1>0, StatusFollows
  <2>2. Len(s) = Len(c) - k
    BY <1>0 DEF Seen
  <2> QED BY <1>0, <2>1, <2>2
<1>3. e \in Nat \ {0} /\ h + Cycle <= e
  <2>1. e \in Nat \ {0} /\ (e = h \/ e + Cycle <= h \/ h + Cycle <= e)
    BY <1>0, PollsApart
  <2> QED BY <1>0, <1>1, <1>2, <2>1
<1> PICK g \in PolledOf(c) : g = h + Cycle
  <2>1. h < e
    BY <1>0, <1>3
  <2> QED BY <1>0, <2>1, PollAfter
<1>4. g \in Nat /\ g = h + Cycle /\ ~Wrongs(f, g) /\ h < g /\ g <= e
  BY <1>0, <1>3 DEF Wrongs
<1>5. PICK a \in (g + 2)..(g + 3) :
        /\ On(o, g, a, a + 2) /\ a \in Nat /\ a + 2 \in Nat
        /\ k + 1 <= a /\ a <= Len(c) => Replies(c, o, k, s, g, a)
  BY <1>0, <1>4, AnswerThere
<1>6. k + 1 <= a /\ a <= Len(c)
  <2>1. e = g => t + k = a
    <3> SUFFICES ASSUME e = g PROVE t + k = a
      OBVIOUS
    <3>1. Follows(c, o, tr, f, g, t + k, L!ResponseCounter(s, t))
      BY <1>1
    <3>2. g + 2 <= a
      BY <1>4, <1>5
    <3> QED BY <1>5, <3>1, <3>2, FollowsIs
  <2>2. e = g \/ g + Cycle <= e
    <3>1. e = g \/ e + Cycle <= g \/ g + Cycle <= e
      BY <1>0, PollsApart
    <3> QED BY <1>0, <1>3, <1>4, <3>1
  <2> QED BY <1>0, <1>1, <1>2, <1>3, <1>4, <1>5, <2>1, <2>2
<1>7. Replies(c, o, k, s, g, a)
  BY <1>5, <1>6
<1>8. PICK d \in Nat :
        /\ d = h + 3 /\ On(o, h, d, d + 2) /\ d + 2 \in Nat /\ d - k \in L!Statuses(s)
        /\ L!ResponseCounter(s, d - k) = Preceding(c[h + 1].rx)
  BY StaleIs
<1>9. c[g + 1].rx = L!NextCounter(c[h + 1].rx) /\ c[h + 1].rx \in 1..Counters
  BY <1>4, StaleIs
<1>10. c[g + 1].rx # L!NextCounter(Preceding(c[h + 1].rx))
  BY <1>9, PrecedingIs
<1>11. \A p \in PolledOf(c) : h < p /\ p < g => \A i \in Block(p) : ~o[i].de
  BY <1>0, <1>4, NoneBetween
<1>12. a \in (g + 2)..(g + 4) /\ d \in (h + 2)..(h + 4)
  BY <1>0, <1>4, <1>8
<1> QED BY <1>0, <1>4, <1>5, <1>7, <1>8, <1>10, <1>11, <1>12, GapFound DEF Replies

\* And alone it leaves the poll without an answer.
LEMMA StaleFound ==
    ASSUME NEW c, NEW o, NEW tr, NEW f, NEW k, NEW s, NEW h, Caught(c, o, tr, f, k, s, h),
           f.kind = "stale", ~s[1].de, NEW v
    PROVE  L!Verdict(s, v) = "fail"
<1>0. /\ Bus(c, o, tr, f) /\ Seen(c, o, tr, f, k, s) /\ s \in Seq(L!Sample)
      /\ h \in PolledOf(c) /\ Wrongs(f, h) /\ h \in Nat \ {0} /\ k \in Nat /\ Len(c) \in Nat
      /\ k + 2 <= h /\ ~c[Len(c)].de /\ Cycle \in Nat /\ Cycle >= 7
  BY CaughtFacts, LaNumbers
<1>1. \A t \in L!Statuses(s) : t # 1 /\ t \in Nat
  <2> SUFFICES ASSUME NEW t \in L!Statuses(s) PROVE t # 1 /\ t \in Nat
    OBVIOUS
  <2>1. t \in L!Rises(s)
    BY <1>0, StatusIsAnswer
  <2> QED BY <1>0, <2>1, WindowFacts
<1>2. CASE \E t \in L!Statuses(s) : t + k < h
  BY <1>1, <1>2, StaleAfter DEF L!Verdict
<1>3. CASE \E t \in L!Statuses(s) : t + k > h + 4
  BY <1>1, <1>3, StaleBefore DEF L!Verdict
<1>4. CASE \A t \in L!Statuses(s) : ~(t + k < h) /\ ~(t + k > h + 4)
  <2>1. PICK d \in Nat :
          /\ d = h + 3 /\ On(o, h, d, d + 2) /\ d + 2 \in Nat
          /\ L!ResponseCounter(s, d - k) = Preceding(c[h + 1].rx)
    BY StaleIs
  <2>2. c[h + 1].rx \in 1..Counters
    BY StaleIs
  <2>3. L!Pairs(s) = {}
    <3> SUFFICES ASSUME NEW x \in L!Pairs(s) PROVE FALSE
      OBVIOUS
    <3>1. PICK t \in L!Statuses(s), p \in L!StatusPolls(s) : Regular(s, p, t)
      BY <1>0, SeenOrderly, PairsAre
    <3>2. t \in Nat /\ p \in Nat
      BY <1>0, <3>1, RegularIs
    <3>3. PICK e \in PolledOf(c) : e = p + k - 1 /\ s[p].rx = c[e + 1].rx
      BY <1>0, <3>1, RegularIs
    <3>4. Follows(c, o, tr, f, e, t + k, L!ResponseCounter(s, t))
      BY <1>0, <3>1, <3>3, RegularIs
    <3>5. PICK a \in (e + 2)..(e + 4), z \in Nat : On(o, e, a, z)
      BY <1>0, BlockOn
    <3>6. e \in Nat \ {0} /\ (e = h \/ e + Cycle <= h \/ h + Cycle <= e)
      BY <1>0, PollsApart
    <3>7. a \in Nat /\ e + 2 <= a
      BY <3>6
    <3>8. t + k = a
      BY <3>4, <3>5, <3>7 DEF Follows
    <3>9. e = h
      <4>1. ~(t + k < h) /\ ~(t + k > h + 4)
        BY <1>4
      <4> QED BY <1>0, <3>2, <3>6, <3>7, <3>8, <4>1
    <3>10. h + 2 <= d
      BY <1>0, <2>1
    <3>11. t + k = d
      BY <2>1, <3>4, <3>9, <3>10 DEF Follows
    <3>12. t = d - k
      BY <1>0, <3>2, <3>11
    <3>13. L!ResponseCounter(s, t) = c[h + 1].rx
      BY <3>1, <3>3, <3>9 DEF Regular
    <3> QED BY <2>1, <2>2, <3>12, <3>13, PrecedingIs
  <2>4. h + 1 - k \in L!StatusPolls(s)
    <3>1. \A i \in PolledOf(c) : i > k /\ c[i + 1].rx \in 1..Counters =>
            i + 1 - k \in L!StatusPolls(s)
      BY <1>0, PollsSeen
    <3>2. h > k
      BY <1>0
    <3> QED BY <1>0, <2>2, <3>1, <3>2
  <2> QED BY <2>3, <2>4, UnansweredFails
<1> QED BY <1>2, <1>3, <1>4


\* What LaVerify!Shows says of the part seen.
Visible(c, tr, f, k, s) ==
    /\ f.kind \in {"silent", "poll", "repeat"} => \E x \in tr : k < x[1] - 2 /\ x[2] < f.from
    /\ f.kind \in {"silent", "poll"} => \E x \in tr : x[1] > f.from + 1 /\ x[2] + 3 <= Len(c)
    /\ f.kind = "ghost" => L!Activity(s) # {}

\* A fault that is all in the part seen, and shows, fails the capture.
LEMMA FaultFails ==
    ASSUME NEW c, NEW o, NEW tr, NEW f, NEW k, NEW s, Seen(c, o, tr, f, k, s),
           f # L!NoFault, k < f.from - 2, f.to <= Len(c), ~s[1].de, ~c[Len(c)].de,
           Visible(c, tr, f, k, s), NEW v
    PROVE  L!Verdict(s, v) = "fail"
<1>0. Bus(c, o, tr, f) /\ k \in Nat /\ Len(c) \in Nat /\ f.from \in Nat
  <2>1. Bus(c, o, tr, f) /\ k \in Nat /\ Len(c) \in Nat
    BY SeenFacts
  <2> QED BY <2>1 DEF Bus
<1> PICK h \in PolledOf(c) : h = f.from - 1
  BY <1>0 DEF Bus
<1>1. f.kind \in FaultKinds
  BY <1>0 DEF Bus
<1>2. h \in Nat \ {0} /\ f.from = h + 1
  BY <1>0, BlockOn, SMTT(60)
<1>3. Caught(c, o, tr, f, k, s, h)
  <2>1. k + 2 <= h
    BY <1>0, <1>2
  <2> QED BY <1>2, <2>1 DEF Caught, Wrongs
<1>4. ASSUME f.kind \in {"silent", "poll", "repeat"}
      PROVE  \E e \in PolledOf(c) : k <= e /\ e < h
  <2>1. PICK x \in tr : k < x[1] - 2 /\ x[2] < f.from
    BY <1>4 DEF Visible
  <2>2. PICK g \in PolledOf(c), late \in 0..2 : x[1] = g + 2 /\ x[2] = g + 2 + late
    BY <1>0, TracedIs
  <2>3. g \in Nat \ {0}
    BY <1>0, BlockOn
  <2>4. k <= g /\ g < h
    BY <1>0, <1>2, <2>1, <2>2, <2>3, SMTT(60)
  <2> QED BY <2>4
<1>5. ASSUME f.kind \in {"silent", "poll"}
      PROVE  \E e \in PolledOf(c) : h < e /\ e + 3 <= Len(c)
  <2>1. PICK x \in tr : x[1] > f.from + 1 /\ x[2] + 3 <= Len(c)
    BY <1>5 DEF Visible
  <2>2. PICK g \in PolledOf(c), late \in 0..2 : x[1] = g + 2 /\ x[2] = g + 2 + late
    BY <1>0, TracedIs
  <2>3. g \in Nat \ {0}
    BY <1>0, BlockOn
  <2>5. g + 2 > h + 1 + 1 /\ g + 2 + late + 3 <= Len(c)
    BY <1>2, <2>1, <2>2
  <2>6. h \in Nat /\ g \in Nat /\ Len(c) \in Nat /\ late \in Nat
    BY <1>0, <1>2, <2>2, <2>3
  <2>4. h < g /\ g + 3 <= Len(c)
    BY <2>5, <2>6
  <2> QED BY <2>4
<1>6. CASE f.kind \in {"silent", "poll"}
  <2>1. PICK e \in PolledOf(c) : k <= e /\ e < h
    BY <1>4, <1>6
  <2>2. PICK r \in PolledOf(c) : h < r /\ r + 3 <= Len(c)
    BY <1>5, <1>6
  <2> QED BY <1>3, <1>6, <2>1, <2>2, SilentFound DEF L!Verdict
<1>7. CASE f.kind = "repeat"
  <2>1. PICK e \in PolledOf(c) : k <= e /\ e < h
    BY <1>4, <1>7
  <2> QED BY <1>3, <1>7, <2>1, RepeatFound DEF L!Verdict
<1>8. CASE f.kind \in {"crc", "parity"}
  BY <1>3, <1>8, BrokenFound DEF L!Verdict
<1>9. CASE f.kind = "stuck"
  BY <1>3, <1>9, StuckFound DEF L!Verdict
<1>10. CASE f.kind \in {"early", "stray"}
  BY <1>3, <1>10, StrayFound DEF L!Verdict
<1>11. CASE f.kind = "ghost"
  <2>1. L!Activity(s) # {}
    BY <1>11 DEF Visible
  <2> QED BY <1>3, <1>11, <2>1, GhostFound DEF L!Verdict
<1>12. CASE f.kind = "re"
  BY <1>3, <1>12, ReceiverFound DEF L!Verdict
<1>13. CASE f.kind = "stale"
  BY <1>3, <1>13, StaleFound
<1> QED BY <1>1, <1>6, <1>7, <1>8, <1>9, <1>10, <1>11, <1>12, <1>13 DEF FaultKinds, L!Kinds

\* The report is of the capture as it is.
Reported ==
    laReport # L!NoReport =>
        /\ laIgnored \in 0..MaxIgnore /\ Len(laCap) > MaxIgnore
        /\ \E v \in BOOLEAN : laReport.verdict = L!Verdict(L!Crop(laCap, laIgnored), v)
        /\ laReport.pairs = {<<p[1] + laIgnored, p[2] + laIgnored>> :
                                p \in L!Pairs(L!Crop(laCap, laIgnored))}

\* The invariant holds of an empty capture.
LEMMA LaInvFirst ==
    ASSUME L!Init
    PROVE  LaInv /\ Reported
<1>1. /\ laCap = << >> /\ laPlay = << >> /\ laCounter \in 1..Counters /\ laFault = L!NoFault
      /\ laTruth = {} /\ laReport = L!NoReport
  BY DEF L!Init
<1>2. /\ Len(laCap) = 0 /\ L!Phase = 0 /\ Base = 0 /\ laCap \in Seq(L!Sample)
      /\ laPlay \in Seq(Driven)
  <2>1. laCap \in Seq(L!Sample) /\ laPlay \in Seq(Driven) /\ Len(laCap) = 0
    BY <1>1
  <2>2. L!Phase = 0
    BY <2>1, LaNumbers DEF L!Phase
  <2> QED BY <2>1, <2>2 DEF Base
<1>3. Heads = {} /\ HeadsOf(laCap) = {} /\ PolledOf(laCap) = {}
  BY <1>2 DEF Heads, HeadsOf, PolledOf
<1>4. LaTypes
  <2>1. laFault \in [kind : FaultKinds \cup {"none"}, from : Nat, to : Nat, counter : 0..Counters]
    BY <1>1, LaNumbers DEF L!NoFault
  <2>2. laFault.kind = "none"
    BY <1>1 DEF L!NoFault
  <2> QED BY <1>1, <1>2, <2>1, <2>2 DEF LaTypes
<1>5. Spaced
  BY <1>2, <1>3 DEF Spaced
<1>6. Framed(laCap) /\ InSequence(laCap, laFault)
  BY <1>2, <1>3 DEF Framed, InSequence
<1>7. LastIs(laCap, laFault, laCounter) /\ Hushed(laCap) /\ Traced(laCap, laTruth)
  BY <1>1, <1>3 DEF LastIs, Hushed, Traced
<1>8. Blocks(laCap, Line, laTruth, laFault)
  BY <1>3 DEF Blocks
<1> QED BY <1>1, <1>4, <1>5, <1>6, <1>7, <1>8 DEF LaInv, Reported

\* It depends on nothing that the verifier writes.
LEMMA LaInvStays ==
    ASSUME LaInv, UNCHANGED <<laCap, laPlay, laCounter, laFault, laTruth>>
    PROVE  LaInv'
<1>1. /\ laCap' = laCap /\ laPlay' = laPlay /\ laCounter' = laCounter /\ laFault' = laFault
      /\ laTruth' = laTruth
  OBVIOUS
<1>2. LaTypes' /\ Spaced'
  BY <1>1 DEF LaInv, LaTypes, Spaced, Heads, Base, L!Phase
<1>3. \A i \in Nat \ {0} : Out(i)' = Out(i)
  BY <1>1 DEF Out
<1>4. Line' = Line
  BY <1>3 DEF Line
<1> QED BY <1>1, <1>2, <1>4 DEF LaInv

\* The bus keeps it with every byte time, the verifier with every report.
LEMMA LaInvNext ==
    ASSUME LaInv, Reported, [L!Next]_laVars
    PROVE  LaInv' /\ Reported'
<1>1. CASE UNCHANGED laVars
  <2>1. laCap' = laCap /\ laReport' = laReport /\ laIgnored' = laIgnored
    BY <1>1 DEF laVars
  <2>2. UNCHANGED <<laCap, laPlay, laCounter, laFault, laTruth>>
    BY <1>1 DEF laVars
  <2> QED BY <2>1, <2>2, LaInvStays DEF Reported
<1>2. CASE L!Tick
  <2>1. laReport' = L!NoReport
    BY <1>2 DEF L!Tick
  <2> QED BY <1>2, <2>1, LaTick DEF Reported
<1>3. CASE L!Verify
  <2>1. /\ laCap' = laCap /\ laPlay' = laPlay /\ laCounter' = laCounter /\ laFault' = laFault
        /\ laTruth' = laTruth /\ Len(laCap) > MaxIgnore
    BY <1>3 DEF L!Verify
  <2>2. PICK k \in 0..MaxIgnore, v \in BOOLEAN :
          /\ laIgnored' = k
          /\ laReport'.verdict = L!Verdict(L!Crop(laCap, k), v)
          /\ laReport'.pairs = {<<p[1] + k, p[2] + k>> : p \in L!Pairs(L!Crop(laCap, k))}
    BY <1>3 DEF L!Verify
  <2>3. Reported'
    BY <2>1, <2>2 DEF Reported
  <2> QED BY <2>1, <2>3, LaInvStays
<1> QED BY <1>1, <1>2, <1>3 DEF L!Next

\* The bus, the capture and the report, in every reachable state.
THEOREM BusHolds == AnalyserSpec => [](LaInv /\ Reported)
BY LaInvFirst, LaInvNext, PTL DEF AnalyserSpec

\* The pairs reported are those of real answers.
LEMMA PairsOfReport ==
    ASSUME LaInv, Reported
    PROVE  PairsAreReal
<1> SUFFICES ASSUME laReport # L!NoReport, NEW y \in laReport.pairs PROVE y \in laTruth
  BY DEF PairsAreReal, L!PairsAreReal, L!Done
<1>1. laIgnored \in 0..MaxIgnore /\ Len(laCap) > MaxIgnore
  BY DEF Reported
<1>2. PICK x \in L!Pairs(L!Crop(laCap, laIgnored)) : y = <<x[1] + laIgnored, x[2] + laIgnored>>
  BY DEF Reported
<1>3. Bus(laCap, Line, laTruth, laFault)
  BY BusIs
<1>4. laIgnored \in Nat /\ laIgnored < Len(laCap)
  <2>1. Len(laCap) \in Nat
    BY DEF LaInv, LaTypes
  <2> QED BY <1>1, <2>1, LaNumbers
<1>5. Seen(laCap, Line, laTruth, laFault, laIgnored, L!Crop(laCap, laIgnored))
  BY <1>3, <1>4, SeenIs
<1> QED BY <1>2, <1>5, PairsReal

\* A report of a capture that shows a fault fails.
LEMMA FaultOfReport ==
    ASSUME LaInv, Reported
    PROVE  FaultIsFound
<1> SUFFICES ASSUME L!CutAtRest, laFault # L!NoFault,
                    L!Holds(laFault.from - 2, laFault.to), L!Shows
             PROVE  laReport.verdict = "fail"
  BY DEF FaultIsFound, L!FaultIsFound
<1>1. /\ laReport # L!NoReport /\ L!Rest(laIgnored + 1) /\ L!Rest(Len(laCap))
  BY DEF L!CutAtRest, L!Done
<1>2. laIgnored \in 0..MaxIgnore /\ Len(laCap) > MaxIgnore
  BY <1>1 DEF Reported
<1>3. Bus(laCap, Line, laTruth, laFault)
  BY BusIs
<1>4. laIgnored \in Nat /\ laIgnored < Len(laCap) /\ Len(laCap) \in Nat
  <2>1. Len(laCap) \in Nat
    BY DEF LaInv, LaTypes
  <2> QED BY <1>2, <2>1, LaNumbers
<1> PICK s : s = L!Crop(laCap, laIgnored)
  OBVIOUS
<1>5. Seen(laCap, Line, laTruth, laFault, laIgnored, s)
  BY <1>3, <1>4, SeenIs
<1>6. PICK v \in BOOLEAN : laReport.verdict = L!Verdict(s, v)
  BY <1>1 DEF Reported
<1>7. laIgnored < laFault.from - 2 /\ laFault.to <= Len(laCap)
  BY DEF L!Holds
<1>8. ~laCap[Len(laCap)].de /\ ~s[1].de
  <2>1. ~laCap[Len(laCap)].de /\ ~laCap[laIgnored + 1].de
    BY <1>1 DEF L!Rest
  <2>2. 1 \in 1..Len(s) /\ s[1] = laCap[1 + laIgnored]
    BY <1>4, <1>5 DEF Seen
  <2> QED BY <1>4, <2>1, <2>2
<1>9. Visible(laCap, laTruth, laFault, laIgnored, s)
  <2>1. ASSUME laFault.kind \in {"silent", "poll", "repeat"}
        PROVE  \E x \in laTruth : laIgnored < x[1] - 2 /\ x[2] < laFault.from
    BY <2>1 DEF L!Shows, L!Between, L!Answered, L!Holds
  <2>2. ASSUME laFault.kind \in {"silent", "poll"}
        PROVE  \E x \in laTruth : x[1] > laFault.from + 1 /\ x[2] + 3 <= Len(laCap)
    BY <2>2 DEF L!Shows, L!Between, L!Holds
  <2>3. ASSUME laFault.kind = "ghost" PROVE L!Activity(s) # {}
    BY <2>3 DEF L!Shows
  <2> QED BY <2>1, <2>2, <2>3 DEF Visible
<1> QED BY <1>5, <1>6, <1>7, <1>8, <1>9, FaultFails

\* A capture that is cut at rest and holds a fault of the bus, with what the fault is
\* told from, is never passed (summarize_decoded_uart, analyze_samples, verify_samples):
\* for every cycle, counter range, limit and cut.
THEOREM FaultsFound == AnalyserSpec => []FaultIsFound
BY BusHolds, FaultOfReport, PTL

\* Each latency reported is that of a poll and of the answer the accessory gave to it,
\* wherever the capture is cut (the pairing in summarize_decoded_uart).
THEOREM PairsReported == AnalyserSpec => []PairsAreReal
BY BusHolds, PairsOfReport, PTL
=============================================================================
