------------------------------ MODULE LaVerify ------------------------------
(***************************************************************************)
(* tools/hcp2_hil_la.py: the logic analyzer's verdict on a capture of the    *)
(* bus, the judge of the hardware tests.  A bus (master, accessory, driver   *)
(* enable, receiver enable) writes the capture, one sample a byte time; the  *)
(* capture is cut anywhere, and verify_samples judges what is left.          *)
(* A byte on a line is its meaning: the head of a frame, a counter, or a     *)
(* byte that breaks the CRC or the parity.  A frame is a head and a counter. *)
(***************************************************************************)
EXTENDS Integers, Sequences, FiniteSets

CONSTANTS Counters,     \* the status counter runs 1 .. Counters and wraps to 1
          Polls,        \* bound: polls on the bus
          Cycle,        \* byte times from poll to poll
          MaxDeHigh,    \* max_de_high_us
          ReSkew,       \* re_skew_us
          MaxIgnore     \* bound: samples cut off in front (ignore_before_us)

\* What the constants must be (assumed by the modules that give them values).
LaConstants ==
    /\ Counters \in Nat \ {0, 1}
    /\ {Polls, Cycle, MaxDeHigh} \subseteq Nat \ {0} /\ {ReSkew, MaxIgnore} \subseteq Nat
    \* An answer, whatever is wrong with it, is over before the next poll.
    /\ Cycle >= MaxDeHigh + ReSkew + 5 /\ Cycle >= 2 * ReSkew + 7

Idle == 0
Sof == -1            \* the head of a frame
Broken == -2         \* a byte that is not what was sent: the CRC fails
Parity == -3         \* a byte with a parity or framing error
Symbols == {Idle, Sof, Broken, Parity} \cup 1 .. Counters
Sample == [de : BOOLEAN, re : BOOLEAN, tx : Symbols, rx : Symbols]

VARIABLES
    cap,                 \* the samples so far
    counter,             \* of the last poll
    play,                \* what the accessory is about to put on the bus
    fault,               \* history: what went wrong on the bus, when, and at which counter
    truth,               \* history: <<end of poll, DE up>> of every answer
    ignored, report      \* the cut in front, and the verifier's report

vars == <<cap, counter, play, fault, truth, ignored, report>>

NoFault == [kind |-> "none", from |-> 0, to |-> 0, counter |-> 0]
NoReport == [verdict |-> "pending", pairs |-> {}, polls |-> 0]
Init ==
    /\ cap = <<>> /\ play = <<>> /\ counter \in 1 .. Counters
    /\ fault = NoFault /\ truth = {} /\ ignored = 0 /\ report = NoReport

----------------------------------------------------------------------------
\* The capture as the verifier reads it: times are indices of samples.

\* high_windows: a window of DE begins at a rise and ends at the first low sample
\* after it, which still belongs to it, or with the capture.
Rises(s) == {i \in 1 .. Len(s) : s[i].de /\ (i = 1 \/ ~s[i - 1].de)}
WindowEnd(s, i) == LET lows == {j \in i .. Len(s) : ~s[j].de}
                   IN IF lows = {} THEN Len(s) ELSE CHOOSE j \in lows : \A k \in lows : j <= k
Window(s, i) == i .. WindowEnd(s, i)
Inside(s, t) == \E i \in Rises(s) : t \in Window(s, i)
Longer(s, i) == WindowEnd(s, i) - i > MaxDeHigh

\* transition_times of TX.
Activity(s) == {i \in 1 .. Len(s) : s[i].tx # Idle}

\* expand_windows and high_sample_counts.
ReHighOutside(s) ==
    {t \in 1 .. Len(s) : s[t].re /\ \A i \in Rises(s) : t < i - ReSkew \/ t > WindowEnd(s, i) + ReSkew}

\* analyze_samples, with /RE allowed to be high while DE is (allowInitial:
\* --allow-initial-de-high).
DeWithoutTx(s, allowInitial) ==
    {i \in Rises(s) : Window(s, i) \cap Activity(s) = {} /\ ~(allowInitial /\ i = 1)}
\* Mutant: TX is looked at only where DE is high.
MutTxOutside(s) == {}
TxOutside(s) == {t \in Activity(s) : ~Inside(s, t)}
ElectricalFails(s, allowInitial) ==
    \/ ~allowInitial /\ s[1].de
    \/ \E i \in Rises(s) : Longer(s, i)
    \/ TxOutside(s) # {}
    \/ Activity(s) # {} /\ DeWithoutTx(s, allowInitial) # {}
    \/ ReHighOutside(s) # {}

----------------------------------------------------------------------------
\* decode_uart_windows: the bytes of a window are one frame.  A window is named by
\* the rise it begins with.
Bytes(s, i) == {t \in Window(s, i) : s[t].tx # Idle}
CrcOk(s, i) ==
    LET bytes == Bytes(s, i)
    IN \E head, last \in bytes : /\ head < last /\ bytes = {head, last}
                                 /\ s[head].tx = Sof /\ s[last].tx \in 1 .. Counters
ResponseCounter(s, i) ==
    LET bytes == Bytes(s, i) IN s[CHOOSE last \in bytes : \A t \in bytes : t <= last].tx
Decoded(s) == {i \in Rises(s) : Bytes(s, i) # {}}
Statuses(s) == {i \in Decoded(s) : CrcOk(s, i)}

\* status_counter_gaps: a status that does not count on from the one before it.
NextCounter(c) == IF c = Counters THEN 1 ELSE c + 1
IsGap(previous, current) == current # NextCounter(previous)
HasGap(s) ==
    LET statuses == Statuses(s)
    IN \E i, j \in statuses :
           /\ i < j /\ \A m \in statuses : m <= i \/ j <= m
           /\ IsGap(ResponseCounter(s, i), ResponseCounter(s, j))

\* summarize_decoded_uart.
UartFails(s) == Statuses(s) # Decoded(s) \/ HasGap(s)

\* decode_uart_stream: a byte that starts no frame is dropped, and the search
\* goes on with the next one; the byte after a head ends the frame.
AddByte(buffered, b) ==
    IF b = Idle THEN buffered ELSE IF buffered = 0 /\ b = Sof THEN 1 ELSE 0
\* The bytes in the buffer after each sample.
Buffered(s) ==
    LET buffered[i \in 0 .. Len(s)] == IF i = 0 THEN 0 ELSE AddByte(buffered[i - 1], s[i].rx)
    IN buffered
\* A status poll, named by the byte of its counter; it has ended one sample later.
StatusPolls(s) ==
    LET buffered == Buffered(s)
    IN {i \in 1 .. Len(s) : s[i].rx \in 1 .. Counters /\ buffered[i - 1] = 1}

\* summarize_response_latencies: an answer belongs to the last poll with its
\* counter that had ended before DE went up and has no answer yet.
Eligible(s, free, response) ==
    {i \in free : s[i].rx = ResponseCounter(s, response) /\ i + 1 <= response}
\* Mutant: to the first one.
MutMatch(candidates) == CHOOSE i \in candidates : \A j \in candidates : i <= j
Match(candidates) == CHOOSE i \in candidates : \A j \in candidates : j <= i
\* The polls without an answer after the responses among the first t samples.
Remaining(s, free, t) ==
    LET candidates == Eligible(s, free, t)
    IN IF candidates = {} THEN free ELSE free \ {Match(candidates)}
Pending(s) ==
    LET statuses == Statuses(s)
        free[t \in 0 .. Len(s)] ==
            IF t = 0 THEN StatusPolls(s)
            ELSE IF t \in statuses THEN Remaining(s, free[t - 1], t) ELSE free[t - 1]
    IN free
Pairs(s) ==
    LET free == Pending(s)
    IN {<<Match(Eligible(s, free[t - 1], t)) + 1, t>> :
            t \in {r \in Statuses(s) : Eligible(s, free[r - 1], r) # {}}}

\* verify_samples.
Verdict(s, allowInitial) ==
    IF \/ ElectricalFails(s, allowInitial) \/ UartFails(s)
       \/ StatusPolls(s) # {} /\ Pairs(s) = {}
    THEN "fail" ELSE "ok"

\* cmd_verify on what crop_samples leaves.
Crop(s, k) == SubSeq(s, k + 1, Len(s))
Verify ==
    /\ report = NoReport /\ Len(cap) > MaxIgnore
    /\ \E k \in 0 .. MaxIgnore, allowInitial \in BOOLEAN :
         LET s == Crop(cap, k) IN
         /\ ignored' = k
         /\ report' = [verdict |-> Verdict(s, allowInitial),
                       pairs |-> {<<p[1] + k, p[2] + k>> : p \in Pairs(s)},
                       polls |-> Cardinality(StatusPolls(s))]
    /\ UNCHANGED <<cap, counter, play, fault, truth>>

----------------------------------------------------------------------------
\* The bus.  The accessory answers a poll after a latency, drives DE before, during
\* and after its bytes, and the receiver enable follows DE.
Quiet == [de |-> FALSE, re |-> FALSE, tx |-> Idle]
Drive(b) == [de |-> TRUE, re |-> TRUE, tx |-> b]
Reps(n, x) == [i \in 1 .. n |-> x]
Answer(c, late, tail) ==
    Reps(late, Quiet) \o <<Drive(Idle), Drive(Sof), Drive(c)>> \o Reps(tail, Drive(Idle))
    \o Reps(ReSkew, [Quiet EXCEPT !.re = TRUE])
\* The answers that are wrong, by kind.
Wrong(c, kind) ==
    CASE kind = "silent" -> <<>>
      [] kind = "crc" -> Answer(Broken, 1, 0)
      [] kind = "parity" -> Answer(Parity, 1, 0)
      [] kind = "stuck" -> Answer(c, 0, MaxDeHigh)
      [] kind = "early" -> <<Quiet, [Quiet EXCEPT !.tx = Sof], Drive(c)>>
      [] kind = "stray" -> <<[Quiet EXCEPT !.tx = Sof]>> \o Answer(c, 1, 0)
      [] kind = "ghost" -> <<Quiet, Drive(Idle), Drive(Idle)>>
      [] kind = "re" -> Answer(c, 0, 0) \o Reps(2, [Quiet EXCEPT !.re = TRUE])
      [] kind = "stale" -> Answer(IF c = 1 THEN Counters ELSE c - 1, 1, 0)
Kinds == {"silent", "crc", "parity", "stuck", "early", "stray", "ghost", "re", "stale"}

\* External: one byte time of the bus.  At most one thing goes wrong on it: the
\* accessory answers wrongly, the counter byte of a poll is destroyed, or the master
\* repeats a counter.
Phase == Len(cap) % Cycle
Now == Len(cap) + 1
Sounds == IF play = <<>> THEN Quiet ELSE Head(play)
Rested == IF play = <<>> THEN <<>> ELSE Tail(play)
Put(rx) == cap' = Append(cap, [de |-> Sounds.de, re |-> Sounds.re, tx |-> Sounds.tx, rx |-> rx])
Blame(kind) == /\ fault = NoFault
               /\ fault' = [kind |-> kind, from |-> Now, to |-> Now + Len(play'), counter |-> counter']
Tick ==
    /\ report = NoReport /\ Len(cap) < Polls * Cycle
    /\ CASE Phase = 0 ->
              Put(Sof) /\ play' = Rested /\ UNCHANGED <<counter, fault, truth>>
         [] Phase = 1 ->
              \/ /\ counter' = NextCounter(counter) /\ Put(counter')
                 /\ \/ \E late \in 0 .. 1 :
                         /\ play' = Answer(counter', late, 0)
                         /\ truth' = truth \cup {<<Now + 1, Now + 1 + late>>}
                         /\ UNCHANGED fault
                    \/ \E kind \in Kinds :
                         /\ play' = Wrong(counter', kind) /\ Blame(kind)
                         /\ truth' = IF kind \in {"stuck", "re", "stray"}
                                    THEN truth \cup {<<Now + 1, Now + 1 + IF kind = "stray" THEN 2 ELSE 0>>}
                                    ELSE truth
              \/ /\ counter' = NextCounter(counter) /\ Put(Broken)
                 /\ play' = <<>> /\ Blame("poll") /\ UNCHANGED truth
              \/ /\ Len(cap) > Cycle /\ UNCHANGED counter /\ Put(counter)
                 /\ play' = Answer(counter, 0, 0) /\ Blame("repeat")
                 /\ truth' = truth \cup {<<Now + 1, Now + 1>>}
         [] OTHER ->
              Put(Idle) /\ play' = Rested /\ UNCHANGED <<counter, fault, truth>>
    /\ UNCHANGED <<ignored, report>>

Next == Tick \/ Verify
Spec == Init /\ [][Next]_vars

----------------------------------------------------------------------------
\* Every variable keeps to its set.
TypeOK ==
    /\ \A i \in 1 .. Len(cap) : cap[i] \in Sample
    /\ counter \in 1 .. Counters /\ ignored \in 0 .. MaxIgnore
    /\ report.verdict \in {"pending", "ok", "fail"}
    /\ report.polls <= Polls /\ Cardinality(report.pairs) <= report.polls

Done == report # NoReport
\* The part judged begins and ends with a bus at rest.
Rest(i) == ~cap[i].de /\ ~cap[i].re /\ cap[i].tx = Idle
CutAtRest == Done /\ Rest(ignored + 1) /\ Rest(Len(cap))
Holds(from, to) == ignored < from /\ to <= Len(cap)
Clean == fault = NoFault \/ fault.to <= ignored
Answered == {a \in truth : Holds(a[1] - 2, a[2] + 3)}

\* A capture of a bus without a fault passes, wherever it is cut as long as the bus
\* is at rest there, if it holds an answered poll (verify_samples).
CleanCapturePasses == CutAtRest /\ Clean /\ Answered # {} => report.verdict = "ok"

\* A fault that is in the capture is found.  A poll that stays without a good answer
\* shows only between two answers, a repeated one only after one, and a driver that
\* is enabled without a byte only if some byte was sent.
Between == /\ \E a \in truth : Holds(a[1] - 2, a[2]) /\ a[2] < fault.from
           /\ \E a \in truth : a[1] > fault.from + 1 /\ Holds(a[1], a[2] + 3)
Shows == CASE fault.kind \in {"silent", "poll"} -> Between
           [] fault.kind = "repeat" -> \E a \in Answered : a[2] < fault.from
           [] fault.kind = "ghost" -> Activity(Crop(cap, ignored)) # {}
           [] OTHER -> TRUE
FaultIsFound ==
    CutAtRest /\ fault # NoFault /\ Holds(fault.from - 2, fault.to) /\ Shows => report.verdict = "fail"

\* The latencies reported are those of real answers (summarize_response_latencies).
PairsAreReal == Done => report.pairs \subseteq truth

\* On a clean bus every answer has its latency (summarize_response_latencies).
AllMeasured == CutAtRest /\ Clean => Answered \subseteq report.pairs

\* A clipped final response is tolerated, as the help of --require-final-de-low says.
\* It is not: the part of it that is there fails its CRC (summarize_decoded_uart).
ClippedIsTolerated ==
    /\ Done /\ fault = NoFault /\ Rest(ignored + 1) /\ Answered # {} /\ cap[Len(cap)].de
    => report.verdict = "ok"
=============================================================================
