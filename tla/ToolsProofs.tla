------------------------------ MODULE ToolsProofs ------------------------------
(***************************************************************************)
(* Theorems about the tools that watch the device and the door.              *)
(*   The device's health: the judgement is monotone, for every payload that  *)
(* hil_load may fetch, at any moment of a suite (by cases of what it fails   *)
(* for), under the invariant that a device is a payload or none.             *)
(*   A run of the suites: no failure the programs look at is lost on the way *)
(* to exit code 0, and no load is left running without an exception.         *)
(*   The stand-in for the debug server: one browser is fed, no gap goes by   *)
(* without a takeover, and a failure it shows has its cause.                 *)
(*   The phone capture: one step under way, and none after a cancel or exit; *)
(* a step is left when the door has been where it sends it.                  *)
(*   The calibration: what is analysed was recorded, move by move.           *)
(***************************************************************************)
EXTENDS MCObservers, MCSessions, TLAPS, SequenceTheorems

\* What blocks a payload blocks a worse one (classify_device_health).
LEMMA BrokenStays ==
    ASSUME NEW p \in Payload, NEW q \in OneWorse(p), Broken(p)
    PROVE Broken(q)
BY DEF Payload, OneWorse, Broken

\* A payload worse than one the firmware does not call good is not called good
\* either, once a reason was given for it (legacy_ota_only).
LEMMA NotOkStays ==
    ASSUME NEW p \in Payload, NEW q \in OneWorse(p), ~FirmwareOk(p), ~Unexplained(p)
    PROVE ~FirmwareOk(q)
BY DEF Payload, OneWorse, FirmwareOk, LegacyOtaOnly, Unexplained

\* The lost polls of a payload are not excused in a worse one.
LEMMA PollsLostStays ==
    ASSUME NEW p \in Payload, NEW q \in OneWorse(p), PollsLost(p),
           ~Unexplained(p)
    PROVE PollsLost(q)
<1>1. CASE Broken(p)
  BY <1>1, BrokenStays DEF PollsLost
<1>2. CASE p.stale
  <2>1. q.stale
    BY <1>2 DEF Payload, OneWorse
  <2> QED BY <2>1 DEF PollsLost
<1>3. CASE p.raw # 0 /\ ~PollExcused(p) /\ ~Broken(p)
  <2>1. q.raw # 0 /\ (q.raw = 1 => p.raw = 1) /\ q.pending = p.pending
    BY <1>3 DEF Payload, OneWorse
  <2>2. CASE p.raw # 1
    BY <2>1, <2>2 DEF PollsLost, PollExcused
  <2>3. CASE ~p.pending
    BY <2>1, <2>3 DEF PollsLost, PollExcused
  <2>4. CASE ~FirmwareOk(p)
    BY <2>1, <2>4, NotOkStays DEF PollsLost, PollExcused
  <2> QED BY <1>3, <2>2, <2>3, <2>4 DEF PollExcused
<1> QED BY <1>1, <1>2, <1>3 DEF PollsLost

\* The same of the sticky counters.
LEMMA StickyStays ==
    ASSUME NEW p \in Payload, NEW q \in OneWorse(p), StickyBlocks(p),
           ~Unexplained(p)
    PROVE StickyBlocks(q)
<1>1. q.sticky
  BY DEF Payload, OneWorse, StickyBlocks
<1>2. CASE ~FirmwareOk(p)
  BY <1>1, <1>2, NotOkStays DEF StickyBlocks
<1>3. CASE PollsLost(p)
  BY <1>1, <1>3, PollsLostStays DEF StickyBlocks
<1> QED BY <1>2, <1>3 DEF StickyBlocks

\* The same of the starvations.
LEMMA StarvedStays ==
    ASSUME NEW p \in Payload, NEW q \in OneWorse(p), NEW f \in BOOLEAN, StarvedBlocks(p, f),
           ~Unexplained(p)
    PROVE StarvedBlocks(q, f)
<1>1. q.starved
  BY DEF Payload, OneWorse, StarvedBlocks
<1>2. CASE ~FirmwareOk(p) /\ ~f
  BY <1>1, <1>2, NotOkStays DEF StarvedBlocks
<1>3. CASE PollsLost(p)
  BY <1>1, <1>3, PollsLostStays DEF StarvedBlocks
<1>4. CASE StickyBlocks(p)
  BY <1>1, <1>4, StickyStays DEF StarvedBlocks
<1> QED BY <1>2, <1>3, <1>4 DEF StarvedBlocks

\* The same of the firmware's reasons.
LEMMA ReasonStays ==
    ASSUME NEW p \in Payload, NEW q \in OneWorse(p), NEW f \in BOOLEAN, ReasonBlocks(p, f),
           ~Unexplained(p)
    PROVE ReasonBlocks(q, f)
<1>1. p.reasons \subseteq q.reasons
  BY DEF Payload, OneWorse
<1>2. CASE f
  BY <1>1, <1>2 DEF ReasonBlocks
<1>3. CASE ~f /\ FirmwareOk(p)
  BY <1>1, <1>3 DEF ReasonBlocks
<1>4. CASE ~f /\ ~FirmwareOk(p)
  BY <1>1, <1>4, NotOkStays DEF ReasonBlocks
<1> QED BY <1>2, <1>3, <1>4

\* A payload that fails, and not for want of a reason, fails when it is worse.
THEOREM WorseFails ==
    ASSUME NEW p \in Payload, NEW q \in OneWorse(p), NEW f \in BOOLEAN,
           Classify(p, f) = "fail", ~Unexplained(p)
    PROVE Classify(q, f) = "fail"
<1>1. Blocked(p, f)
  BY DEF Classify, Fails
<1>2. Blocked(q, f)
  BY <1>1, PollsLostStays, StickyStays, StarvedStays, ReasonStays DEF Blocked
<1> QED BY <1>2 DEF Classify, Fails
-----------------------------------------------------------------------------
\* What is judged is a payload, and whether faults were asked for is known.
Fetched == (device = NoDevice \/ device \in Payload) /\ opts.faulty \in BOOLEAN

\* The invariant the judgement is applied under, of every session of every suite
\* (run_session, fetch_device_health).
THEOREM OnlyPayloads == Spec => []Fetched
<1>1. Init => Fetched
  BY DEF Init, Fresh, Fetched, NoOpts
<1>2. Fetched /\ [Next]_vars => Fetched'
  <2> SUFFICES ASSUME Fetched, [Next]_vars PROVE Fetched'
    OBVIOUS
  <2>1. CASE CheckArgs
    <3>1. device' = device
      BY <2>1 DEF CheckArgs, session
    <3>2. CASE tool = "hil_load"
      <4>1. (\E a \in Arguments : opts'.faulty = a.faulty) \/ opts' = opts
        BY <2>1, <3>2 DEF CheckArgs
      <4> QED BY <3>1, <4>1 DEF Fetched, Arguments
    <3>3. CASE tool # "hil_load"
      <4>1. opts'.faulty = FALSE \/ opts' = opts
        BY <2>1, <3>3 DEF CheckArgs, NoOpts
      <4> QED BY <3>1, <4>1 DEF Fetched
    <3> QED BY <3>2, <3>3, SMTT(60)
  <2>2. CASE Begin
    BY <2>2 DEF Begin, Fetched
  <2>3. CASE RunPre
    BY <2>3 DEF RunPre, Fetched, sender
  <2>4. CASE StartLoad
    BY <2>4 DEF StartLoad, Fetched, sender
  <2>5. CASE StartDuring
    BY <2>5 DEF StartDuring, Fetched, sender
  <2>6. CASE StartSender
    BY <2>6 DEF StartSender, Fetched
  <2>7. CASE WaitReady
    BY <2>7 DEF WaitReady, Fetched, sender
  <2>8. CASE Open
    BY <2>8 DEF Open, Fetched, sender
  <2>9. CASE SimEnds
    BY <2>9 DEF SimEnds, Fetched, sender
  <2>10. CASE Close
    BY <2>10 DEF Close, Fetched, sender
  <2>11. CASE StopSender
    BY <2>11 DEF StopSender, Fetched
  <2>12. CASE Join
    BY <2>12 DEF Join, Fetched, session
  <2>13. CASE StopLoad
    BY <2>13 DEF StopLoad, Fetched, sender
  <2>14. CASE Raise
    BY <2>14 DEF Raise, Fetched, session
  <2>15. CASE Judge
    BY <2>15 DEF Judge, Fetched, sender
  <2>16. CASE RunPost
    BY <2>16 DEF RunPost, Fetched, sender
  <2>17. CASE FetchHealth
    BY <2>17, HilConstants DEF FetchHealth, Fetched, sender
  <2>18. CASE AnalyzeLogic
    BY <2>18 DEF AnalyzeLogic, Fetched, sender
  <2>19. CASE EndSession
    BY <2>19 DEF EndSession, Fetched, session
  <2>20. CASE WorkerReady
    BY <2>20 DEF WorkerReady, Fetched
  <2>21. CASE Press
    BY <2>21 DEF Press, Fetched
  <2>22. CASE RecordDone
    BY <2>22 DEF RecordDone, Fetched
  <2>23. CASE WorkerGone
    BY <2>23 DEF WorkerGone, Fetched
  <2>24. CASE LoadExits
    BY <2>24 DEF LoadExits, Fetched, sender
  <2>25. CASE DuringEnds
    BY <2>25 DEF DuringEnds, Fetched, sender
  <2>26. CASE UNCHANGED vars
    BY <2>26 DEF vars, session, Fetched
  <2> QED
    BY <2>1, <2>2, <2>3, <2>4, <2>5, <2>6, <2>7, <2>8, <2>9, <2>10, <2>11, <2>12, <2>13, <2>14, <2>15, <2>16, <2>17, <2>18, <2>19, <2>20, <2>21, <2>22, <2>23, <2>24, <2>25, <2>26
    DEF Next, Main
<1> QED BY <1>1, <1>2, PTL DEF Spec

\* Whatever hil_load fetches, a device with more trouble is not judged better
\* (classify_device_health).
THEOREM WorseIsNeverBetter == Spec => []WorseIsNotBetter
<1>1. Fetched => WorseIsNotBetter
  BY WorseFails DEF Fetched, WorseIsNotBetter
<1> QED BY <1>1, OnlyPayloads, PTL

\* A device that passes is polled: linked, not stale, and no poll is missing but
\* the one in flight (classify_device_health).
THEOREM PassingIsPolled == Spec => []PassMeansPolled
<1>1. PassMeansPolled
  BY DEF PassMeansPolled, Classify, Fails, Blocked, PollsLost, PollExcused, Broken
<1> QED BY <1>1, PTL
-----------------------------------------------------------------------------
\* Where a background process may still run: from its start to the end of the
\* clean-up, or after a clean-up that raised.
Settled == {"args", "begin", "pre", "raise", "judge", "post", "health", "logic", "end", "over"}
Swept ==
    /\ load \in [Slots -> {None, "up", "ok", "bad", "term", "kill"}]
    /\ at \in Settled /\ raised \notin {"cleanup", "closed_loop", "start"} =>
           \A i \in Slots : load[i] # "up"

\* However many loads there are and however they end, none outlives a session whose
\* clean-up did not raise (the finally blocks, stop_load).
THEOREM NoLoadIsLeft == Spec => []LoadsStopped
<1>1. Init => Swept
  BY DEF Init, Fresh, Swept, None
<1>2. Swept /\ [Next]_vars => Swept'
  <2> SUFFICES ASSUME Swept, [Next]_vars PROVE Swept'
    OBVIOUS
  <2>1. CASE CheckArgs
    BY <2>1 DEF CheckArgs, Swept, Settled, session, sender
  <2>2. CASE Begin
    BY <2>2 DEF Begin, None, Swept, Settled, session, sender
  <2>3. CASE RunPre
    BY <2>3 DEF RunPre, Swept, Settled, session, sender
  <2>4. CASE StartLoad
    BY <2>4 DEF StartLoad, AfterStart, NextStart, None, Swept, Settled, session, sender
  <2>5. CASE StartDuring
    BY <2>5 DEF StartDuring, Swept, Settled, session, sender
  <2>6. CASE StartSender
    BY <2>6 DEF StartSender, Swept, Settled, session, sender
  <2>7. CASE WaitReady
    BY <2>7 DEF WaitReady, Swept, Settled, session, sender
  <2>8. CASE Open
    BY <2>8 DEF Open, Swept, Settled, session, sender
  <2>9. CASE SimEnds
    BY <2>9 DEF SimEnds, Swept, Settled, session, sender
  <2>10. CASE Close
    BY <2>10 DEF Close, AfterClose, Swept, Settled, session, sender
  <2>11. CASE StopSender
    BY <2>11 DEF StopSender, Swept, Settled, session, sender
  <2>12. CASE Join
    BY <2>12 DEF Join, Swept, Settled, session, sender
  <2>13. CASE StopLoad
    <3>1. CASE Stopping = {}
      BY <2>13, <3>1 DEF StopLoad, Stopping, Swept
    <3>2. CASE Stopping # {}
      BY <2>13, <3>2 DEF StopLoad, Swept, Settled
    <3> QED BY <3>1, <3>2
  <2>14. CASE Raise
    BY <2>14 DEF Raise, Swept, Settled, session, sender
  <2>15. CASE Judge
    BY <2>15 DEF Judge, Swept, Settled, session, sender
  <2>16. CASE RunPost
    BY <2>16 DEF RunPost, Swept, Settled, session, sender
  <2>17. CASE FetchHealth
    BY <2>17 DEF FetchHealth, Swept, Settled, session, sender
  <2>18. CASE AnalyzeLogic
    BY <2>18 DEF AnalyzeLogic, Swept, Settled, session, sender
  <2>19. CASE EndSession
    BY <2>19 DEF EndSession, Swept, Settled, session, sender
  <2>20. CASE WorkerReady
    BY <2>20 DEF WorkerReady, Swept, Settled, session, sender
  <2>21. CASE Press
    BY <2>21 DEF Press, Swept, Settled, session, sender
  <2>22. CASE RecordDone
    BY <2>22 DEF RecordDone, Swept, Settled, session, sender
  <2>23. CASE WorkerGone
    BY <2>23 DEF WorkerGone, Swept, Settled, session, sender
  <2>24. CASE LoadExits
    BY <2>24 DEF LoadExits, Swept, Settled, session, sender
  <2>25. CASE DuringEnds
    BY <2>25 DEF DuringEnds, Swept, Settled, session, sender
  <2>26. CASE UNCHANGED vars
    BY <2>26 DEF vars, Swept, Settled, session, sender
  <2> QED
    BY <2>1, <2>2, <2>3, <2>4, <2>5, <2>6, <2>7, <2>8, <2>9, <2>10, <2>11, <2>12, <2>13, <2>14,
       <2>15, <2>16, <2>17, <2>18, <2>19, <2>20, <2>21, <2>22, <2>23, <2>24, <2>25, <2>26
    DEF Next, Main
<1>3. Swept => LoadsStopped
  BY DEF Swept, Settled, LoadsStopped
<1> QED BY <1>1, <1>2, <1>3, PTL DEF Spec

-----------------------------------------------------------------------------
\* A verdict is only still "ok" if the step that looked for a failure saw none.
LEMMA OneFailure ==
    ASSUME NEW v, NEW name, name # "ok", NEW s \in {<<>>, <<name>>}, Named(v, s) = "ok"
    PROVE v = "ok" /\ s = <<>>
<1>1. CASE s = <<name>>
  <2>1. s # <<>> /\ Head(s) = name
    BY <1>1
  <2> QED BY <2>1 DEF Named
<1>2. CASE s = <<>>
  BY <1>2 DEF Named
<1> QED BY <1>1, <1>2

\* The same of the four that closeout looks for after its clean-up (Judge).
LEMMA FourFailures ==
    ASSUME NEW v,
           NEW a \in {<<>>, <<"capture">>}, NEW b \in {<<>>, <<"verify">>},
           NEW c \in {<<>>, <<"during">>}, NEW d \in {<<>>, <<"load">>},
           Named(v, a \o b \o c \o d) = "ok"
    PROVE v = "ok" /\ a = <<>> /\ b = <<>> /\ c = <<>> /\ d = <<>>
<1> DEFINE s == a \o b \o c \o d
<1>1. v = "ok" /\ (s = <<>> \/ Head(s) = "ok")
  BY DEF Named
<1>2. CASE a # <<>>
  <2>1. s # <<>> /\ Head(s) = "capture"
    BY <1>2
  <2> QED BY <1>1, <2>1
<1>3. CASE a = <<>> /\ b # <<>>
  <2>1. s # <<>> /\ Head(s) = "verify"
    BY <1>3
  <2> QED BY <1>1, <2>1
<1>4. CASE a = <<>> /\ b = <<>> /\ c # <<>>
  <2>1. s # <<>> /\ Head(s) = "during"
    BY <1>4
  <2> QED BY <1>1, <2>1
<1>5. CASE a = <<>> /\ b = <<>> /\ c = <<>> /\ d # <<>>
  <2>1. s # <<>> /\ Head(s) = "load"
    BY <1>5
  <2> QED BY <1>1, <2>1
<1> QED BY <1>1, <1>2, <1>3, <1>4, <1>5

\* Before the simulation is over nothing is judged, and only the sender can have
\* failed; hil_load knows of what failed by then.
Early == {"pre", "loads", "during", "sender", "ready", "open", "simulate"}
Unjudged == at \in Early => verdict = "not-run" /\ found \subseteq {"api", "late"}
Sender ==
    /\ "api" \in found => errors
    /\ tool = "closeout" =>
         /\ at \notin {"sender", "ready", "health", "logic"} /\ worker = None
         /\ at \in Early => found = {}
    /\ tool = "hil_load" => at \notin {"judge", "during"}
\* A session that is still "ok" has found nothing the program looks at, a run that is
\* still "ok" has lost nothing, and exit code 0 is only given to such a run.
Kept ==
    /\ verdict = "ok" => found \subseteq Unseen
    /\ report = "ok" => slipped \subseteq Unseen
    /\ exit = "0" => report = "ok"
    /\ at # "over" => exit = None
    /\ tool \in {"hil_load", "closeout"}
Honest == Unjudged /\ Sender /\ Kept

\* For any number of loads and sessions and whatever fails when: exit code 0 leaves
\* out no failure but those the programs do not look at (run_session,
\* run_simulation_step, run_suite, run_plan).
THEOREM ZeroIsEarned == Spec => []ZeroMeansClean
<1>1. Init => Honest
  BY DEF Init, Fresh, Honest, Unjudged, Sender, Kept, Early, None
<1>2. Honest /\ [Next]_vars => Honest'
  <2> SUFFICES ASSUME Honest, [Next]_vars PROVE Honest'
    OBVIOUS
  <2>1. CASE CheckArgs
    <3>1. /\ at = "args" /\ at' \in {"begin", "over"} /\ exit' \in {exit, "1", "2"}
          /\ UNCHANGED <<tool, report, slipped, session>>
      BY <2>1, ZenonT(60) DEF CheckArgs
    <3>2. at' # "over" => exit' = exit
      BY <2>1 DEF CheckArgs
    <3> QED BY <3>1, <3>2, SMTT(60) DEF Honest, Unjudged, Sender, Kept, Early, Unseen, None, session, sender
  <2>2. CASE Begin
    BY <2>2 DEF Begin, Honest, Unjudged, Sender, Kept, Early, Unseen, None, session, sender
  <2>3. CASE RunPre
    BY <2>3 DEF RunPre, Honest, Unjudged, Sender, Kept, Early, Unseen, None, session, sender
  <2>4. CASE StartLoad
    BY <2>4 DEF StartLoad, AfterStart, Honest, Unjudged, Sender, Kept, Early, Unseen, None, session, sender
  <2>5. CASE StartDuring
    BY <2>5 DEF StartDuring, Honest, Unjudged, Sender, Kept, Early, Unseen, None, session, sender
  <2>6. CASE StartSender
    BY <2>6 DEF StartSender, Honest, Unjudged, Sender, Kept, Early, Unseen, None, session, sender
  <2>7. CASE WaitReady
    BY <2>7 DEF WaitReady, Honest, Unjudged, Sender, Kept, Early, Unseen, None, session, sender
  <2>8. CASE Open
    BY <2>8 DEF Open, Honest, Unjudged, Sender, Kept, Early, Unseen, None, session, sender
  <2>9. CASE SimEnds
    <3>1. at = "simulate" /\ at' = "close" /\ UNCHANGED <<tool, report, exit, slipped, sender>>
      BY <2>9 DEF SimEnds
    <3>2. verdict = "not-run" /\ found \subseteq {"api", "late"} /\ (tool = "closeout" => found = {})
      BY <3>1 DEF Honest, Unjudged, Sender, Early
    <3>3. verdict' = "ok" => found' = found /\ (tool = "hil_load" => ~errors)
      BY <2>9, <3>2 DEF SimEnds, SimVerdict
    <3>4. "api" \in found' => "api" \in found
      BY <2>9 DEF SimEnds
    <3>5. Unjudged' /\ Sender'
      BY <3>1, <3>4 DEF Honest, Unjudged, Sender, Early, sender
    <3>6. Kept'
      BY <3>1, <3>2, <3>3 DEF Honest, Sender, Kept, Unseen, sender
    <3> QED BY <3>5, <3>6 DEF Honest
  <2>10. CASE Close
    BY <2>10 DEF Close, AfterClose, Honest, Unjudged, Sender, Kept, Early, Unseen, None, session, sender
  <2>11. CASE StopSender
    BY <2>11 DEF StopSender, Honest, Unjudged, Sender, Kept, Early, Unseen, None, session, sender
  <2>12. CASE Join
    BY <2>12 DEF Join, Honest, Unjudged, Sender, Kept, Early, Unseen, None, session, sender
  <2>13. CASE StopLoad
    BY <2>13 DEF StopLoad, AfterStop, Honest, Unjudged, Sender, Kept, Early, Unseen, None, session, sender
  <2>14. CASE Raise
    BY <2>14 DEF Raise, Honest, Unjudged, Sender, Kept, Early, Unseen, None, session, sender
  <2>15. CASE Judge
    <3>1. /\ at = "judge" /\ at' = "post" /\ UNCHANGED <<tool, report, exit, slipped, sender>>
          /\ "api" \in found' => "api" \in found
      BY <2>15 DEF Judge
    <3>2. verdict' = "ok" => verdict = "ok" /\ found' \subseteq found \cup {"unjoined"}
      <4> SUFFICES ASSUME verdict' = "ok" PROVE verdict = "ok" /\ found' \subseteq found \cup {"unjoined"}
        OBVIOUS
      <4>1. PICK verified \in Verifier :
               /\ verdict' = Named(verdict, If(CaptureFailed, "capture") \o If(~verified, "verify")
                                      \o If(during = "bad", "during") \o If(Counted, "load"))
               /\ found' = found \cup {r \in {"capture"} : CaptureFailed} \cup {r \in {"verify"} : ~verified}
                                 \cup {r \in {"during"} : during = "bad"} \cup {r \in {"load"} : LoadFailed}
                                 \cup {r \in {"unjoined"} : during = "running"}
        BY <2>15 DEF Judge
      <4>2. /\ If(CaptureFailed, "capture") = IF CaptureFailed THEN <<"capture">> ELSE <<>>
            /\ If(~verified, "verify") = IF ~verified THEN <<"verify">> ELSE <<>>
            /\ If(during = "bad", "during") = IF during = "bad" THEN <<"during">> ELSE <<>>
            /\ If(Counted, "load") = IF Counted THEN <<"load">> ELSE <<>>
        BY DEF If
      <4>3. /\ verdict = "ok" /\ If(CaptureFailed, "capture") = <<>> /\ If(~verified, "verify") = <<>>
            /\ If(during = "bad", "during") = <<>> /\ If(Counted, "load") = <<>>
        <5>1. PICK a : a = If(CaptureFailed, "capture")
          OBVIOUS
        <5>2. PICK b : b = If(~verified, "verify")
          OBVIOUS
        <5>3. PICK c : c = If(during = "bad", "during")
          OBVIOUS
        <5>4. PICK d : d = If(Counted, "load")
          OBVIOUS
        <5>5. Named(verdict, a \o b \o c \o d) = "ok"
          BY <4>1, <5>1, <5>2, <5>3, <5>4
        <5>6. /\ a \in {<<>>, <<"capture">>} /\ b \in {<<>>, <<"verify">>}
              /\ c \in {<<>>, <<"during">>} /\ d \in {<<>>, <<"load">>}
          BY <4>2, <5>1, <5>2, <5>3, <5>4
        <5>7. verdict = "ok" /\ a = <<>> /\ b = <<>> /\ c = <<>> /\ d = <<>>
          BY <5>5, <5>6, FourFailures, ZenonT(60)
        <5> QED BY <5>1, <5>2, <5>3, <5>4, <5>7
      <4>4. ~CaptureFailed /\ verified /\ during # "bad" /\ ~Counted
        BY <4>2, <4>3
      <4> QED BY <4>1, <4>3, <4>4 DEF Counted
    <3>3. tool = "closeout"
      BY <3>1 DEF Honest, Sender, Kept
    <3> QED BY <3>1, <3>2, <3>3 DEF Honest, Unjudged, Sender, Kept, Early, Unseen, None, sender
  <2>16. CASE RunPost
    <3>1. PICK failed \in BOOLEAN :
             /\ verdict' = Named(verdict, If(failed, "post"))
             /\ found' = found \cup {r \in {"post"} : failed}
                               \cup {r \in {"load"} : tool = "hil_load" /\ LoadFailed}
      BY <2>16 DEF RunPost
    <3>2. verdict' = "ok" => verdict = "ok" /\ ~failed
      <4>1. If(failed, "post") = IF failed THEN <<"post">> ELSE <<>>
        BY DEF If
      <4>2. verdict' = "ok" => verdict = "ok" /\ If(failed, "post") = <<>>
        BY <3>1, <4>1, OneFailure
      <4> QED BY <3>1, <4>1, <4>2
    <3>3. verdict' = "ok" => verdict = "ok" /\ found' \subseteq found \cup {r \in {"load"} : tool = "hil_load"}
      BY <3>1, <3>2
    <3>4. "api" \in found' => "api" \in found
      BY <3>1
    <3>5. /\ at = "post" /\ at' = IF tool = "hil_load" THEN "health" ELSE "end"
          /\ UNCHANGED <<tool, report, exit, slipped, sender>>
      BY <2>16 DEF RunPost
    <3> QED BY <3>3, <3>4, <3>5 DEF Honest, Unjudged, Sender, Kept, Early, Unseen, None, sender
  <2>17. CASE FetchHealth
    <3>1. at = "health" /\ at' = "logic" /\ UNCHANGED <<tool, report, exit, slipped, sender>>
      BY <2>17 DEF FetchHealth
    <3>2. tool = "hil_load"
      BY <3>1 DEF Honest, Sender, Kept
    <3>3. verdict' = "ok" => verdict = "ok" /\ found' \subseteq found \cup {"unasked"}
      <4>1. CASE UNCHANGED verdict /\ found' \subseteq found \cup {"unasked"}
        BY <4>1
      <4>2. ASSUME NEW p \in Answers,
                   verdict' = Named(verdict, If(Classify(p, opts.faulty) = "fail", "health")),
                   found' = found \cup {r \in {"health"} : Classify(p, opts.faulty) = "fail"}
            PROVE verdict' = "ok" => verdict = "ok" /\ found' \subseteq found \cup {"unasked"}
        <5>1. PICK s : s = If(Classify(p, opts.faulty) = "fail", "health")
          OBVIOUS
        <5>2. s = IF Classify(p, opts.faulty) = "fail" THEN <<"health">> ELSE <<>>
          BY <5>1 DEF If
        <5>3. verdict' = Named(verdict, s)
          BY <4>2, <5>1
        <5>4. verdict' = "ok" => verdict = "ok" /\ s = <<>>
          BY <5>2, <5>3, OneFailure
        <5> QED BY <4>2, <5>2, <5>4
      <4>3. ASSUME verdict' = Named(verdict, If(Unavailable # {}, "health")),
                   found' = found \cup {r \in {"health"} : opts.health = "require"}
            PROVE verdict' = "ok" => verdict = "ok" /\ found' \subseteq found \cup {"unasked"}
        <5>1. verdict' = "ok" => verdict = "ok" /\ Unavailable = {}
          <6>1. If(Unavailable # {}, "health") = IF Unavailable # {} THEN <<"health">> ELSE <<>>
            BY DEF If
          <6>2. verdict' = "ok" => verdict = "ok" /\ If(Unavailable # {}, "health") = <<>>
            BY <4>3, <6>1, OneFailure
          <6> QED BY <6>1, <6>2, SMTT(60)
        <5> QED BY <4>3, <5>1 DEF Unavailable
      <4> QED BY <2>17, <4>1, <4>2, <4>3 DEF FetchHealth
    <3>4. "api" \in found' => "api" \in found
      BY <2>17 DEF FetchHealth
    <3> QED BY <3>1, <3>2, <3>3, <3>4 DEF Honest, Unjudged, Sender, Kept, Early, Unseen, None, sender
  <2>18. CASE AnalyzeLogic
    <3>1. PICK failed \in BOOLEAN :
             /\ verdict' = Named(verdict, If(failed, "logic"))
             /\ found' = found \cup {r \in {"logic"} : failed}
      BY <2>18 DEF AnalyzeLogic
    <3>2. verdict' = "ok" => verdict = "ok" /\ found' = found
      <4>1. If(failed, "logic") = IF failed THEN <<"logic">> ELSE <<>>
        BY DEF If
      <4>2. verdict' = "ok" => verdict = "ok" /\ If(failed, "logic") = <<>>
        BY <3>1, <4>1, OneFailure
      <4> QED BY <3>1, <4>1, <4>2
    <3>3. "api" \in found' => "api" \in found
      BY <3>1
    <3>4. at = "logic" /\ at' = "end" /\ UNCHANGED <<tool, report, exit, slipped, sender>>
      BY <2>18 DEF AnalyzeLogic
    <3> QED BY <3>2, <3>3, <3>4 DEF Honest, Unjudged, Sender, Kept, Early, Unseen, None, sender
  <2>19. CASE EndSession
    <3>1. /\ at = "end" /\ at' \in {"over", "begin"} /\ report' = Overall /\ UNCHANGED <<tool, session>>
          /\ slipped' = slipped \cup (IF verdict = "ok" THEN found ELSE {"failed"})
          /\ (at' = "over" /\ exit' = ExitCode) \/ (at' = "begin" /\ exit' = exit)
      BY <2>19 DEF EndSession
    <3>2. Unjudged' /\ Sender'
      BY <3>1 DEF Honest, Unjudged, Sender, Early, session, sender
    <3>3. report' = "ok" => report = "ok" /\ verdict = "ok"
      BY <3>1 DEF Overall
    <3>4. exit' = "0" => report' = "ok"
      BY <3>1 DEF Honest, Kept, Overall, ExitCode, None
    <3>5. Unseen' = Unseen
      BY <3>1 DEF Unseen
    <3> QED BY <3>1, <3>2, <3>3, <3>4, <3>5 DEF Honest, Kept, session
  <2>20. CASE WorkerReady
    BY <2>20 DEF WorkerReady, Honest, Unjudged, Sender, Kept, Early, Unseen, None, session, sender
  <2>21. CASE Press
    BY <2>21 DEF Press, Honest, Unjudged, Sender, Kept, Early, Unseen, None, session, sender
  <2>22. CASE RecordDone
    BY <2>22 DEF RecordDone, PressFailed, Honest, Unjudged, Sender, Kept, Early, Unseen, None, session, sender
  <2>23. CASE WorkerGone
    BY <2>23 DEF WorkerGone, PressFailed, Honest, Unjudged, Sender, Kept, Early, Unseen, None, session, sender
  <2>24. CASE LoadExits
    BY <2>24 DEF LoadExits, Honest, Unjudged, Sender, Kept, Early, Unseen, None, session, sender
  <2>25. CASE DuringEnds
    BY <2>25 DEF DuringEnds, Honest, Unjudged, Sender, Kept, Early, Unseen, None, session, sender
  <2>26. CASE UNCHANGED vars
    BY <2>26 DEF vars, Honest, Unjudged, Sender, Kept, Early, Unseen, None, session, sender
  <2> QED
    BY <2>1, <2>2, <2>3, <2>4, <2>5, <2>6, <2>7, <2>8, <2>9, <2>10, <2>11, <2>12, <2>13, <2>14,
       <2>15, <2>16, <2>17, <2>18, <2>19, <2>20, <2>21, <2>22, <2>23, <2>24, <2>25, <2>26
    DEF Next, Main
<1>3. Honest => ZeroMeansClean
  BY DEF Honest, Kept, ZeroMeansClean
<1> QED BY <1>1, <1>2, <1>3, PTL DEF Spec

-----------------------------------------------------------------------------
(* The stand-in for the debug server. *)

Pcs == {"new", "handshake", "loop", "health", "stats", "log", "generate", "send", "recv",
        "release", "gone"}
MockTypes ==
    /\ mPc \in [Clients -> Pcs] /\ mStop \in [Clients -> BOOLEAN]
    /\ mSock \in [Clients -> {"up", "shut", "lost"}] /\ mFailing \in [Clients -> BOOLEAN]
    /\ mBatch \in [Clients -> Nat] /\ mGot \in [Clients -> Nat] /\ mGap \in [Clients -> BOOLEAN]
    /\ mSeq \in Nat /\ mFaults \in Nat /\ mActive \in Clients \cup {NoClient}
    /\ mTakeovers \in BOOLEAN
\* A browser that has not asked yet was told nothing and got nothing.
Newcomers == \A c \in Clients : mPc[c] = "new" => ~mStop[c] /\ mGot[c] = 0
\* A reason that was read is still there: a fault once counted stays counted.
Founded == \A c \in Clients : mFailing[c] => mFaults > 0 \/ mScenario = "hp_fallback"
\* Without a takeover there is one loop, and what it got is the newest batch but the
\* one it is about to send.
Unbroken ==
    ~mTakeovers =>
        \A c \in Clients :
            /\ ~mGap[c] /\ ~mStop[c]
            /\ mPc[c] = "send" => mBatch[c] = mSeq
            /\ mPc[c] \notin {"new", "gone", "release"} /\ mGot[c] # 0 =>
                   mSeq = IF mPc[c] = "send" THEN mGot[c] + 1 ELSE mGot[c]
MockInv == MockTypes /\ Newcomers /\ Founded /\ Unbroken /\ OneFeed /\ FailShowsCause

\* Every step of a handler thread, a browser or a log request keeps it.
LEMMA MockStep == MockInv /\ [M!Next]_mVars => MockInv'
<1> SUFFICES ASSUME MockInv, [M!Next]_mVars PROVE MockInv'
  OBVIOUS
<1> USE ObserverConstants DEF M!MockConstants
<1> USE DEF MockInv
<1>1. ASSUME NEW c \in Clients, M!HandleWs(c) PROVE MockInv'
  <2>1. MockTypes'
    BY <1>1, ZenonT(60) DEF M!HandleWs, M!Goto, M!state, M!locals, M!history, M!Running, M!Admit, M!TakeOver, MockTypes, Pcs
  <2>2. Newcomers'
    BY <1>1 DEF M!HandleWs, M!Goto, M!state, M!locals, M!history, M!Running, M!Admit, M!TakeOver, Newcomers, MockTypes, OneFeed, M!OneFeed
  <2>3. Founded'
    BY <1>1 DEF M!HandleWs, M!Goto, M!state, M!locals, M!history, M!Running, M!Admit, M!TakeOver, Founded, MockTypes
  <2>4. Unbroken'
    BY <1>1 DEF M!HandleWs, M!Goto, M!state, M!locals, M!history, M!Running, M!Admit, M!TakeOver, Unbroken, MockTypes, Newcomers, OneFeed, M!OneFeed
  <2>5. OneFeed'
    BY <1>1 DEF M!HandleWs, M!Goto, M!state, M!locals, M!history, M!Running, M!Admit, M!TakeOver, OneFeed, M!OneFeed, MockTypes, Newcomers, Unbroken
  <2>6. FailShowsCause'
    BY <1>1 DEF M!HandleWs, M!Goto, M!state, M!locals, M!history, M!Running, M!Admit, M!TakeOver, FailShowsCause, M!FailShowsCause, MockTypes, Founded
  <2> QED BY <2>1, <2>2, <2>3, <2>4, <2>5, <2>6
<1>2. ASSUME NEW c \in Clients, M!Handshake(c) PROVE MockInv'
  <2>1. MockTypes'
    BY <1>2 DEF M!Handshake, M!Goto, M!state, M!locals, M!history, M!Running, M!Writes, MockTypes, Pcs
  <2>2. Newcomers'
    BY <1>2 DEF M!Handshake, M!Goto, M!state, M!locals, M!history, M!Running, M!Writes, Newcomers, MockTypes
  <2>3. Founded'
    BY <1>2 DEF M!Handshake, M!Goto, M!state, M!locals, M!history, M!Running, M!Writes, Founded, MockTypes
  <2>4. Unbroken'
    BY <1>2 DEF M!Handshake, M!Goto, M!state, M!locals, M!history, M!Running, M!Writes, Unbroken, MockTypes, Newcomers, OneFeed, M!OneFeed
  <2>5. OneFeed'
    BY <1>2 DEF M!Handshake, M!Goto, M!state, M!locals, M!history, M!Running, M!Writes, OneFeed, M!OneFeed, MockTypes, Newcomers, Unbroken
  <2>6. FailShowsCause'
    BY <1>2 DEF M!Handshake, M!Goto, M!state, M!locals, M!history, M!Running, M!Writes, FailShowsCause, M!FailShowsCause, MockTypes, Founded
  <2> QED BY <2>1, <2>2, <2>3, <2>4, <2>5, <2>6
<1>3. ASSUME NEW c \in Clients, M!Loop(c) PROVE MockInv'
  <2>1. MockTypes'
    BY <1>3 DEF M!Loop, M!Goto, M!state, M!locals, M!history, M!Running, M!NoHealth, MockTypes, Pcs
  <2>2. Newcomers'
    BY <1>3 DEF M!Loop, M!Goto, M!state, M!locals, M!history, M!Running, M!NoHealth, Newcomers, MockTypes
  <2>3. Founded'
    BY <1>3 DEF M!Loop, M!Goto, M!state, M!locals, M!history, M!Running, M!NoHealth, Founded, MockTypes
  <2>4. Unbroken'
    BY <1>3 DEF M!Loop, M!Goto, M!state, M!locals, M!history, M!Running, M!NoHealth, Unbroken, MockTypes, Newcomers, OneFeed, M!OneFeed
  <2>5. OneFeed'
    BY <1>3 DEF M!Loop, M!Goto, M!state, M!locals, M!history, M!Running, M!NoHealth, OneFeed, M!OneFeed, MockTypes, Newcomers, Unbroken
  <2>6. FailShowsCause'
    BY <1>3 DEF M!Loop, M!Goto, M!state, M!locals, M!history, M!Running, M!NoHealth, FailShowsCause, M!FailShowsCause, MockTypes, Founded
  <2> QED BY <2>1, <2>2, <2>3, <2>4, <2>5, <2>6
<1>4. ASSUME NEW c \in Clients, M!Reasons(c) PROVE MockInv'
  <2>1. MockTypes'
    BY <1>4 DEF M!Reasons, M!Goto, M!state, M!locals, M!history, M!Running, MockTypes, Pcs
  <2>2. Newcomers'
    BY <1>4 DEF M!Reasons, M!Goto, M!state, M!locals, M!history, M!Running, Newcomers, MockTypes
  <2>3. Founded'
    BY <1>4 DEF M!Reasons, M!Goto, M!state, M!locals, M!history, M!Running, Founded, MockTypes
  <2>4. Unbroken'
    BY <1>4 DEF M!Reasons, M!Goto, M!state, M!locals, M!history, M!Running, Unbroken, MockTypes, Newcomers, OneFeed, M!OneFeed
  <2>5. OneFeed'
    BY <1>4 DEF M!Reasons, M!Goto, M!state, M!locals, M!history, M!Running, OneFeed, M!OneFeed, MockTypes, Newcomers, Unbroken
  <2>6. FailShowsCause'
    BY <1>4 DEF M!Reasons, M!Goto, M!state, M!locals, M!history, M!Running, FailShowsCause, M!FailShowsCause, MockTypes, Founded
  <2> QED BY <2>1, <2>2, <2>3, <2>4, <2>5, <2>6
<1>5. ASSUME NEW c \in Clients, M!Stats(c) PROVE MockInv'
  <2>1. MockTypes'
    BY <1>5 DEF M!Stats, M!Goto, M!state, M!locals, M!history, M!Running, M!Writes, M!Counted, MockTypes, Pcs
  <2>2. Newcomers'
    BY <1>5 DEF M!Stats, M!Goto, M!state, M!locals, M!history, M!Running, M!Writes, M!Counted, Newcomers, MockTypes
  <2>3. Founded'
    BY <1>5 DEF M!Stats, M!Goto, M!state, M!locals, M!history, M!Running, M!Writes, M!Counted, Founded, MockTypes
  <2>4. Unbroken'
    BY <1>5 DEF M!Stats, M!Goto, M!state, M!locals, M!history, M!Running, M!Writes, M!Counted, Unbroken, MockTypes, Newcomers, OneFeed, M!OneFeed
  <2>5. OneFeed'
    BY <1>5 DEF M!Stats, M!Goto, M!state, M!locals, M!history, M!Running, M!Writes, M!Counted, OneFeed, M!OneFeed, MockTypes, Newcomers, Unbroken
  <2>6. FailShowsCause'
    BY <1>5 DEF M!Stats, M!Goto, M!state, M!locals, M!history, M!Running, M!Writes, M!Counted, FailShowsCause, M!FailShowsCause, MockTypes, Founded
  <2> QED BY <2>1, <2>2, <2>3, <2>4, <2>5, <2>6
<1>6. ASSUME NEW c \in Clients, M!LogGate(c) PROVE MockInv'
  <2>1. MockTypes'
    BY <1>6 DEF M!LogGate, M!Goto, M!state, M!locals, M!history, M!Running, MockTypes, Pcs
  <2>2. Newcomers'
    BY <1>6 DEF M!LogGate, M!Goto, M!state, M!locals, M!history, M!Running, Newcomers, MockTypes
  <2>3. Founded'
    BY <1>6 DEF M!LogGate, M!Goto, M!state, M!locals, M!history, M!Running, Founded, MockTypes
  <2>4. Unbroken'
    BY <1>6 DEF M!LogGate, M!Goto, M!state, M!locals, M!history, M!Running, Unbroken, MockTypes, Newcomers, OneFeed, M!OneFeed
  <2>5. OneFeed'
    BY <1>6 DEF M!LogGate, M!Goto, M!state, M!locals, M!history, M!Running, OneFeed, M!OneFeed, MockTypes, Newcomers, Unbroken
  <2>6. FailShowsCause'
    BY <1>6 DEF M!LogGate, M!Goto, M!state, M!locals, M!history, M!Running, FailShowsCause, M!FailShowsCause, MockTypes, Founded
  <2> QED BY <2>1, <2>2, <2>3, <2>4, <2>5, <2>6
<1>7. ASSUME NEW c \in Clients, M!Generate(c) PROVE MockInv'
  <2>1. MockTypes'
    BY <1>7 DEF M!Generate, M!Goto, M!state, M!locals, M!history, M!Running, MockTypes, Pcs
  <2>2. Newcomers'
    BY <1>7 DEF M!Generate, M!Goto, M!state, M!locals, M!history, M!Running, Newcomers, MockTypes
  <2>3. Founded'
    BY <1>7 DEF M!Generate, M!Goto, M!state, M!locals, M!history, M!Running, Founded, MockTypes
  <2>4. Unbroken'
    BY <1>7 DEF M!Generate, M!Goto, M!state, M!locals, M!history, M!Running, Unbroken, MockTypes, Newcomers, OneFeed, M!OneFeed
  <2>5. OneFeed'
    BY <1>7 DEF M!Generate, M!Goto, M!state, M!locals, M!history, M!Running, OneFeed, M!OneFeed, MockTypes, Newcomers, Unbroken
  <2>6. FailShowsCause'
    BY <1>7 DEF M!Generate, M!Goto, M!state, M!locals, M!history, M!Running, FailShowsCause, M!FailShowsCause, MockTypes, Founded
  <2> QED BY <2>1, <2>2, <2>3, <2>4, <2>5, <2>6
<1>8. ASSUME NEW c \in Clients, M!Send(c) PROVE MockInv'
  <2>1. MockTypes'
    BY <1>8, ZenonT(60) DEF M!Send, M!Goto, M!state, M!locals, M!history, M!Running, M!Writes, MockTypes, Pcs
  <2>2. Newcomers'
    BY <1>8 DEF M!Send, M!Goto, M!state, M!locals, M!history, M!Running, M!Writes, Newcomers, MockTypes
  <2>3. Founded'
    BY <1>8 DEF M!Send, M!Goto, M!state, M!locals, M!history, M!Running, M!Writes, Founded, MockTypes
  <2>4. Unbroken'
    BY <1>8 DEF M!Send, M!Goto, M!state, M!locals, M!history, M!Running, M!Writes, Unbroken, MockTypes, Newcomers, OneFeed, M!OneFeed
  <2>5. OneFeed'
    BY <1>8 DEF M!Send, M!Goto, M!state, M!locals, M!history, M!Running, M!Writes, OneFeed, M!OneFeed, MockTypes, Newcomers, Unbroken
  <2>6. FailShowsCause'
    BY <1>8 DEF M!Send, M!Goto, M!state, M!locals, M!history, M!Running, M!Writes, FailShowsCause, M!FailShowsCause, MockTypes, Founded
  <2> QED BY <2>1, <2>2, <2>3, <2>4, <2>5, <2>6
<1>9. ASSUME NEW c \in Clients, M!Recv(c) PROVE MockInv'
  <2>1. MockTypes'
    BY <1>9 DEF M!Recv, M!Goto, M!state, M!locals, M!history, M!Running, M!Closed, MockTypes, Pcs
  <2>2. Newcomers'
    BY <1>9 DEF M!Recv, M!Goto, M!state, M!locals, M!history, M!Running, M!Closed, Newcomers, MockTypes
  <2>3. Founded'
    BY <1>9 DEF M!Recv, M!Goto, M!state, M!locals, M!history, M!Running, M!Closed, Founded, MockTypes
  <2>4. Unbroken'
    BY <1>9 DEF M!Recv, M!Goto, M!state, M!locals, M!history, M!Running, M!Closed, Unbroken, MockTypes, Newcomers, OneFeed, M!OneFeed
  <2>5. OneFeed'
    BY <1>9 DEF M!Recv, M!Goto, M!state, M!locals, M!history, M!Running, M!Closed, OneFeed, M!OneFeed, MockTypes, Newcomers, Unbroken
  <2>6. FailShowsCause'
    BY <1>9 DEF M!Recv, M!Goto, M!state, M!locals, M!history, M!Running, M!Closed, FailShowsCause, M!FailShowsCause, MockTypes, Founded
  <2> QED BY <2>1, <2>2, <2>3, <2>4, <2>5, <2>6
<1>10. ASSUME NEW c \in Clients, M!Release(c) PROVE MockInv'
  <2>1. MockTypes'
    BY <1>10 DEF M!Release, M!Goto, M!state, M!locals, M!history, M!Running, M!StillMine, MockTypes, Pcs
  <2>2. Newcomers'
    BY <1>10 DEF M!Release, M!Goto, M!state, M!locals, M!history, M!Running, M!StillMine, Newcomers, MockTypes
  <2>3. Founded'
    BY <1>10 DEF M!Release, M!Goto, M!state, M!locals, M!history, M!Running, M!StillMine, Founded, MockTypes
  <2>4. Unbroken'
    BY <1>10 DEF M!Release, M!Goto, M!state, M!locals, M!history, M!Running, M!StillMine, Unbroken, MockTypes, Newcomers, OneFeed, M!OneFeed
  <2>5. OneFeed'
    BY <1>10 DEF M!Release, M!Goto, M!state, M!locals, M!history, M!Running, M!StillMine, OneFeed, M!OneFeed, MockTypes, Newcomers, Unbroken
  <2>6. FailShowsCause'
    BY <1>10 DEF M!Release, M!Goto, M!state, M!locals, M!history, M!Running, M!StillMine, FailShowsCause, M!FailShowsCause, MockTypes, Founded
  <2> QED BY <2>1, <2>2, <2>3, <2>4, <2>5, <2>6
<1>11. ASSUME NEW c \in Clients, M!BrowserCloses(c) PROVE MockInv'
  <2>1. MockTypes'
    BY <1>11 DEF M!BrowserCloses, M!Goto, M!state, M!locals, M!history, M!Running, MockTypes, Pcs
  <2>2. Newcomers'
    BY <1>11 DEF M!BrowserCloses, M!Goto, M!state, M!locals, M!history, M!Running, Newcomers, MockTypes
  <2>3. Founded'
    BY <1>11 DEF M!BrowserCloses, M!Goto, M!state, M!locals, M!history, M!Running, Founded, MockTypes
  <2>4. Unbroken'
    BY <1>11 DEF M!BrowserCloses, M!Goto, M!state, M!locals, M!history, M!Running, Unbroken, MockTypes, Newcomers, OneFeed, M!OneFeed
  <2>5. OneFeed'
    BY <1>11 DEF M!BrowserCloses, M!Goto, M!state, M!locals, M!history, M!Running, OneFeed, M!OneFeed, MockTypes, Newcomers, Unbroken
  <2>6. FailShowsCause'
    BY <1>11 DEF M!BrowserCloses, M!Goto, M!state, M!locals, M!history, M!Running, FailShowsCause, M!FailShowsCause, MockTypes, Founded
  <2> QED BY <2>1, <2>2, <2>3, <2>4, <2>5, <2>6
<1>12. ASSUME NEW c \in Clients, M!Reconnect(c) PROVE MockInv'
  <2>1. MockTypes'
    BY <1>12 DEF M!Reconnect, M!Goto, M!state, M!locals, M!history, M!Running, MockTypes, Pcs
  <2>2. Newcomers'
    BY <1>12 DEF M!Reconnect, M!Goto, M!state, M!locals, M!history, M!Running, Newcomers, MockTypes
  <2>3. Founded'
    BY <1>12 DEF M!Reconnect, M!Goto, M!state, M!locals, M!history, M!Running, Founded, MockTypes
  <2>4. Unbroken'
    BY <1>12 DEF M!Reconnect, M!Goto, M!state, M!locals, M!history, M!Running, Unbroken, MockTypes, Newcomers, OneFeed, M!OneFeed
  <2>5. OneFeed'
    BY <1>12 DEF M!Reconnect, M!Goto, M!state, M!locals, M!history, M!Running, OneFeed, M!OneFeed, MockTypes, Newcomers, Unbroken
  <2>6. FailShowsCause'
    BY <1>12 DEF M!Reconnect, M!Goto, M!state, M!locals, M!history, M!Running, FailShowsCause, M!FailShowsCause, MockTypes, Founded
  <2> QED BY <2>1, <2>2, <2>3, <2>4, <2>5, <2>6
<1>13. ASSUME M!LogRequest PROVE MockInv'
  BY <1>13 DEF M!LogRequest, M!state, M!locals, M!history, M!Running, MockTypes, Newcomers, Founded,
       Unbroken, OneFeed, M!OneFeed, FailShowsCause, M!FailShowsCause
<1>14. ASSUME UNCHANGED mVars PROVE MockInv'
  BY <1>14 DEF mVars, M!Running, MockTypes, Newcomers, Founded,
       Unbroken, OneFeed, M!OneFeed, FailShowsCause, M!FailShowsCause
<1> QED BY <1>1, <1>2, <1>3, <1>4, <1>5, <1>6, <1>7, <1>8, <1>9, <1>10, <1>11, <1>12, <1>13,
           <1>14 DEF M!Next

\* The server starts in it.
LEMMA MockInit == M!Init => MockInv
<1> SUFFICES ASSUME M!Init PROVE MockInv
  OBVIOUS
<1>1. MockTypes /\ Newcomers /\ Founded /\ Unbroken
  BY ObserverConstants DEF M!Init, M!MockConstants, MockTypes, Pcs, Newcomers, Founded, Unbroken
<1>2. OneFeed /\ FailShowsCause
  BY ObserverConstants DEF M!Init, M!MockConstants, M!Running, OneFeed, M!OneFeed, FailShowsCause,
                           M!FailShowsCause, M!NoHealth
<1> QED BY <1>1, <1>2 DEF MockInv

\* So it is one, whatever tool the behaviour is of.
LEMMA MockAlways == ObserversSpec => []MockInv
<1>1. ObserversInit => MockInv
  BY MockInit DEF ObserversInit
<1>2. MockInv /\ [ObserversNext]_allVars => MockInv'
  <2>1. [ObserversNext]_allVars => [M!Next]_mVars
    BY DEF ObserversNext, Session, Analyser, Mock, allVars
  <2> QED BY <2>1, MockStep
<1> QED BY <1>1, <1>2, PTL DEF ObserversSpec

\* However many browsers come and in whatever order their threads run: one is fed,
\* and the server remembers it (_handle_ws, _release_ws).
THEOREM OneIsFed == ObserversSpec => []OneFeed
<1>1. MockInv => OneFeed
  BY DEF MockInv
<1> QED BY <1>1, MockAlways, PTL

\* As long as no browser was replaced, none misses a batch, however often browsers
\* come back and whatever is started, stopped and cleared (_push_loop).
THEOREM NoGapUnreplaced == ObserversSpec => []GapNeedsTakeover
<1>1. MockInv => GapNeedsTakeover
  BY DEF MockInv, MockTypes, Unbroken, GapNeedsTakeover, M!GapNeedsTakeover
<1> QED BY <1>1, MockAlways, PTL

\* Reasons read before the counters are still shown by them (MockState.health).
THEOREM FailuresAreShown == ObserversSpec => []FailShowsCause
<1>1. MockInv => FailShowsCause
  BY DEF MockInv
<1> QED BY <1>1, MockAlways, PTL

\* What the logic analyser does in the observers' run is what MCAnalyser says of it, so
\* that what HCP2EngineProofs proves of AnalyserSpec (FaultsFound, PairsReported) holds
\* of this run.
THEOREM AnalyserIsThere == ObserversSpec => AnalyserSpec
<1>1. ObserversInit => L!Init
  BY DEF ObserversInit
<1>2. [ObserversNext]_allVars => [L!Next]_laVars
  BY DEF ObserversNext, Session, Analyser, Mock, allVars
<1> QED BY <1>1, <1>2, PTL DEF ObserversSpec, AnalyserSpec

-----------------------------------------------------------------------------
(* The phone-video capture. *)

PhoneTypes ==
    /\ index \in 0..Len(Steps) /\ sent \in Nat /\ left \in Nat
    /\ scheduled \in P!Actions \cup {"none"}
\* After a cancel nothing is under way, and a start is not a cancelled run's.
Halted == cancelled => scheduled = "none" /\ waiting = "none" /\ index > 0
PhoneInv == PhoneTypes /\ P!OneStepAtATime /\ Halted

\* What the sequence waits for is the name of a step.
LEMMA SequenceFacts ==
    /\ Len(Steps) \in Nat /\ Len(Steps) > 0
    /\ \A n \in 1..Len(Steps) : Steps[n] \in P!Actions /\ P!TargetOf(Steps[n]) # "none"
    /\ InitialDelay \in Nat /\ SettleDelay \in Nat
<1>1. Steps \in Seq(P!Actions) /\ Steps # <<>> /\ InitialDelay \in Nat /\ SettleDelay \in Nat
  BY SessionConstants DEF P!SyncConstants
<1>2. Len(Steps) \in Nat /\ Len(Steps) > 0 /\ \A n \in 1..Len(Steps) : Steps[n] \in P!Actions
  BY <1>1
<1>3. \A a \in P!Actions : P!TargetOf(a) # "none"
  BY DEF P!Actions, P!TargetOf
<1> QED BY <1>1, <1>2, <1>3

\* The start, and the end of a step that was sent: the next one is scheduled, or the
\* sequence is over.
LEMMA Advanced ==
    ASSUME PhoneInv, NEW delay \in Nat, P!Advance(delay), UNCHANGED <<sent, cancelled>>,
           ~cancelled, scheduled = "none", sent = index,
           waiting # "none" \/ index = 0
    PROVE  /\ (P!OneStepAtATime /\ Halted)'
           /\ index' \in 0..Len(Steps) /\ left' \in Nat /\ scheduled' \in P!Actions \cup {"none"}
<1>1. index \in Nat /\ sent \in Nat /\ left \in Nat
  BY SequenceFacts DEF PhoneInv, PhoneTypes
<1>2. CASE index = Len(Steps)
  BY <1>1, <1>2, SequenceFacts DEF P!Advance, P!schedule, PhoneInv, PhoneTypes, P!OneStepAtATime, Halted
<1>3. CASE index # Len(Steps)
  <2>1. index + 1 \in 1..Len(Steps)
    BY <1>1, <1>3, SequenceFacts DEF PhoneInv, PhoneTypes
  <2>2. scheduled' \in P!Actions /\ index' = index + 1 /\ left' = delay /\ waiting' = "none"
        /\ done' = done
    BY <1>3, <2>1, SequenceFacts DEF P!Advance, P!Schedule
  <2>3. ~done
    BY <1>1, <1>3 DEF PhoneInv, P!OneStepAtATime
  <2>4. sent' = index' - 1 /\ index' > 0
    BY <1>1, <2>2
  <2> QED BY <1>1, <2>1, <2>2, <2>3, <2>4 DEF P!OneStepAtATime, Halted, PhoneInv
<1> QED BY <1>2, <1>3

\* Every step of the capture keeps its invariant, sends nothing once a step was
\* cancelled, and after an exit only what was due.
LEMMA PhoneStep ==
    ASSUME PhoneInv, [P!Next]_phoneVars
    PROVE  /\ PhoneInv'
           /\ cancelled => sent' = sent
<1>f. /\ index \in Nat /\ sent \in Nat /\ left \in Nat
  BY SequenceFacts DEF PhoneInv, PhoneTypes
<1>1. CASE P!Space
  <2>1. CASE scheduled # "none" /\ P!Cancel /\ UNCHANGED <<P!sequence, stopEvent>>
    BY <1>1, <1>f, <2>1 DEF P!Space, P!Cancel, P!sequence, P!main, PhoneInv, PhoneTypes,
                            P!OneStepAtATime, Halted
  <2>2. CASE scheduled = "none" /\ index = 0 /\ ~done /\ P!Advance(InitialDelay)
             /\ UNCHANGED cancelled
    <3>1. ~cancelled /\ sent = index
      BY <1>f, <2>2 DEF PhoneInv, Halted, P!OneStepAtATime
    <3>2. sent' = sent
      BY <1>1 DEF P!Space
    <3>3. /\ (P!OneStepAtATime /\ Halted)'
          /\ index' \in 0..Len(Steps) /\ left' \in Nat /\ scheduled' \in P!Actions \cup {"none"}
      BY <2>2, <3>1, <3>2, SequenceFacts, Advanced
    <3> QED BY <1>f, <3>2, <3>3 DEF PhoneInv, PhoneTypes
  <2>3. CASE UNCHANGED <<P!schedule, P!sequence, stopEvent, cancelled>>
    BY <1>1, <1>f, <2>3 DEF P!Space, P!schedule, P!sequence, P!main, PhoneInv, PhoneTypes,
                            P!OneStepAtATime, Halted
  <2> QED BY <1>1, <2>1, <2>2, <2>3 DEF P!Space
<1>2. CASE P!Quit
  <2>1. UNCHANGED <<index, waiting, waited, done, sent>>
    BY <1>2 DEF P!Quit, P!main, P!sequence
  <2>2. \/ UNCHANGED <<scheduled, left, cancelled>>
        \/ scheduled # "none" /\ index > 0 /\ scheduled' = "none" /\ left' = 0 /\ cancelled' = TRUE
    BY <1>2 DEF P!Quit, P!Cancel, P!schedule
  <2> QED BY <1>f, <2>1, <2>2 DEF PhoneInv, PhoneTypes, P!OneStepAtATime, Halted
<1>3. CASE P!DrawTick
  <2>1. UNCHANGED <<index, done, left, cancelled>>
    BY <1>3 DEF P!DrawTick, P!main, P!exit
  <2>2. CASE scheduled # "none" /\ left = 0
    <3>1. scheduled' = "none" /\ sent' = sent + 1 /\ waiting' = P!TargetOf(Steps[index])
      BY <1>3, <2>2 DEF P!DrawTick, P!WaitsFor
    <3>2. index \in 1..Len(Steps) /\ sent = index - 1 /\ ~cancelled
      BY <1>f, <2>2 DEF PhoneInv, PhoneTypes, P!OneStepAtATime, Halted
    <3>3. waiting' # "none"
      BY <3>1, <3>2, SequenceFacts
    <3>4. ~done
      BY <1>f, <3>2 DEF PhoneInv, P!OneStepAtATime
    <3> QED BY <1>f, <2>1, <3>1, <3>2, <3>3, <3>4 DEF PhoneInv, PhoneTypes, P!OneStepAtATime, Halted
  <2>3. CASE ~(scheduled # "none" /\ left = 0)
    <3>1. UNCHANGED <<scheduled, sent, waiting>>
      BY <1>3, <2>3 DEF P!DrawTick
    <3> QED BY <1>f, <2>1, <3>1 DEF PhoneInv, PhoneTypes, P!OneStepAtATime, Halted
  <2> QED BY <2>2, <2>3
<1>4. CASE P!DrawWait
  <2>1. UNCHANGED <<sent, cancelled>>
    BY <1>4 DEF P!DrawWait, P!main, P!history
  <2>2. CASE waiting # "none" /\ P!Reached /\ P!Advance(SettleDelay)
    <3>1. ~cancelled /\ scheduled = "none" /\ sent = index
      BY <1>f, <2>2 DEF PhoneInv, Halted, P!OneStepAtATime
    <3>2. /\ (P!OneStepAtATime /\ Halted)'
          /\ index' \in 0..Len(Steps) /\ left' \in Nat /\ scheduled' \in P!Actions \cup {"none"}
      BY <2>1, <2>2, <3>1, SequenceFacts, Advanced
    <3> QED BY <1>f, <2>1, <3>2 DEF PhoneInv, PhoneTypes
  <2>3. CASE UNCHANGED <<P!schedule, P!sequence>>
    BY <1>f, <2>1, <2>3, <1>4 DEF P!DrawWait, P!schedule, P!sequence, PhoneInv, PhoneTypes,
                                  P!OneStepAtATime, Halted
  <2> QED BY <1>4, <2>2, <2>3 DEF P!DrawWait
<1>5. CASE P!Period
  <2>1. /\ UNCHANGED <<scheduled, index, waiting, done, sent, cancelled>>
        /\ left' \in Nat
    BY <1>5, <1>f DEF P!Period, P!Less, P!main, P!history
  <2> QED BY <1>f, <2>1 DEF PhoneInv, PhoneTypes, P!OneStepAtATime, Halted
<1>6. CASE \/ P!Unreachable \/ P!StartLog \/ P!StartWorker \/ P!Close \/ P!DrawExit \/ P!SendCover
           \/ P!Arrive \/ P!ReportText \/ P!ReportCover \/ P!FinishCover \/ P!FinishText
           \/ UNCHANGED phoneVars
  <2>1. UNCHANGED <<scheduled, left, index, waiting, done, sent, cancelled>>
    BY <1>6 DEF P!Unreachable, P!StartLog, P!StartWorker, P!Close, P!DrawExit, P!SendCover,
                P!Arrive, P!ReportText, P!ReportCover, P!FinishCover, P!FinishText, phoneVars,
                P!schedule, P!sequence, P!history
  <2> QED BY <1>f, <2>1 DEF PhoneInv, PhoneTypes, P!OneStepAtATime, Halted
<1> QED BY <1>1, <1>2, <1>3, <1>4, <1>5, <1>6 DEF P!Next

\* So it is one, whatever tool the behaviour is of.
LEMMA PhoneAlways == SessionsSpec => []PhoneInv
<1>1. SessionsInit => PhoneInv
  <2> SUFFICES ASSUME P!Init PROVE PhoneInv
    BY DEF SessionsInit
  <2>1. /\ index = 0 /\ sent = 0 /\ left = 0 /\ scheduled = "none" /\ waiting = "none"
        /\ done = FALSE /\ cancelled = FALSE
    BY DEF P!Init
  <2>2. 0 \in 0..Len(Steps)
    BY SequenceFacts
  <2> QED BY <2>1, <2>2 DEF PhoneInv, PhoneTypes, P!OneStepAtATime, Halted
<1>2. PhoneInv /\ [SessionsNext]_sessionVars => PhoneInv'
  <2>1. [SessionsNext]_sessionVars => [P!Next]_phoneVars
    BY DEF SessionsNext, Phone, Wizard, Timing, sessionVars
  <2> QED BY <2>1, PhoneStep
<1> QED BY <1>1, <1>2, PTL DEF SessionsSpec

\* Of every sequence, one step is under way at most: it is scheduled and not yet sent, or
\* sent and waited for, and the steps are sent once and in order, whatever the window, the
\* worker and the user do between taking a step, sending it and waiting for it (tick,
\* on_sequence_command_sent, advance_sequence_).
THEOREM OneStepIsUnderWay == SessionsSpec => []P!OneStepAtATime
<1>1. PhoneInv => P!OneStepAtATime
  BY DEF PhoneInv
<1> QED BY <1>1, PhoneAlways, PTL

\* A cancelled step, and every one behind it, stays unsent (cancel_scheduled,
\* start_or_cancel).
THEOREM CancelsStick == SessionsSpec => CancelSticks
<1>1. PhoneInv /\ [SessionsNext]_sessionVars => [cancelled => sent' = sent]_(P!vars)
  <2>1. [SessionsNext]_sessionVars => [P!Next]_phoneVars
    BY DEF SessionsNext, Phone, Wizard, Timing, sessionVars
  <2> QED BY <2>1, PhoneStep
<1>2. SessionsSpec => [][SessionsNext]_sessionVars
  BY PTL DEF SessionsSpec
<1> QED BY <1>1, <1>2, PhoneAlways, PTL DEF CancelSticks, P!CancelSticks

\* What an exit leaves: no draw is under way when the window is not up, and the draw that
\* is still to come finds nothing due - what was scheduled has been cancelled, and a
\* sequence started since has its initial delay before it.
ExitInv ==
    /\ pc # "idle" => phase = "ui"
    /\ stopEvent => phase \in {"ui", "closing", "done"}
    /\ (stopEvent /\ ~exitPending /\ phase = "ui" /\ pc = "idle") =>
           (scheduled = "none" \/ left > 1 \/ (left > 0 /\ ~drawn))

\* Every step of the capture keeps it, and sends nothing after an exit.
LEMMA ExitStep ==
    ASSUME PhoneInv, PhoneInv', ExitInv, InitialDelay > 1, [P!Next]_phoneVars
    PROVE  /\ ExitInv'
           /\ (stopEvent /\ ~exitPending) => sent' = sent
<1>f. index \in Nat /\ sent \in Nat /\ left \in Nat
  BY SequenceFacts DEF PhoneInv, PhoneTypes
<1>1. CASE P!Space
  <2>1. UNCHANGED <<sent, phase, pc, drawn, exitPending>> /\ phase = "ui" /\ pc = "idle"
    BY <1>1 DEF P!Space, P!main, P!ui
  <2>2. \/ scheduled' = "none" \/ left' = InitialDelay
        \/ UNCHANGED <<scheduled, left, stopEvent>>
    BY <1>1 DEF P!Space, P!Cancel, P!Advance, P!Schedule, P!schedule
  <2> QED BY <1>f, <2>1, <2>2, SequenceFacts DEF ExitInv
<1>2. CASE P!Quit
  <2>1. UNCHANGED <<sent, phase, pc, drawn>> /\ phase = "ui" /\ pc = "idle"
    BY <1>2 DEF P!Quit, P!main, P!ui
  <2>2. CASE exitPending'
    BY <1>2, <2>1, <2>2 DEF ExitInv, P!Quit
  <2>3. CASE ~exitPending'
    <3>1. /\ ~exitPending
          /\ IF index > 0 /\ ~done /\ scheduled # "none" THEN P!Cancel
                                                       ELSE UNCHANGED <<P!schedule, cancelled>>
      BY <1>2, <2>3 DEF P!Quit
    <3>2. scheduled # "none" => index > 0 /\ ~done
      BY <1>f DEF PhoneInv, PhoneTypes, P!OneStepAtATime
    <3>3. scheduled' = "none"
      BY <3>1, <3>2 DEF P!Cancel, P!schedule
    <3> QED BY <2>1, <3>3 DEF ExitInv
  <2> QED BY <2>2, <2>3
<1>3. CASE P!DrawTick
  <2>1. pc' = "wait" /\ UNCHANGED <<phase, stopEvent, exitPending>> /\ phase = "ui" /\ pc = "idle"
    BY <1>3 DEF P!DrawTick, P!main, P!exit
  <2>2. (stopEvent /\ ~exitPending) => sent' = sent
    BY <1>3, <1>f DEF P!DrawTick, ExitInv
  <2> QED BY <2>1, <2>2 DEF ExitInv
<1>4. CASE P!DrawWait
  <2>1. pc = "wait" /\ pc' = "exit" /\ UNCHANGED <<phase, sent>>
    BY <1>4 DEF P!DrawWait, P!main, P!history
  <2> QED BY <2>1 DEF ExitInv
<1>5. CASE P!DrawExit
  <2>1. /\ pc = "exit" /\ pc' = "idle" /\ UNCHANGED <<sent, exitPending>>
        /\ phase' = (IF stopEvent' THEN "closing" ELSE phase)
    BY <1>5 DEF P!DrawExit, P!history
  <2> QED BY <2>1 DEF ExitInv
<1>6. CASE P!Period
  <2>1. /\ UNCHANGED <<phase, pc, scheduled, sent, stopEvent, exitPending>>
        /\ drawn /\ drawn' = FALSE /\ left' = P!Less(left)
    BY <1>6 DEF P!Period, P!main, P!history
  <2>2. left > 1 => left' > 0
    BY <1>f, <2>1 DEF P!Less
  <2> QED BY <2>1, <2>2 DEF ExitInv
<1>7. CASE P!Unreachable \/ P!StartLog \/ P!StartWorker \/ P!Close
  <2>1. /\ UNCHANGED <<pc, sent>> /\ phase \in {"log", "worker", "closing"}
        /\ \/ phase' \in {"closing", "done"}
           \/ phase' \in {"worker", "ui"} /\ UNCHANGED stopEvent /\ phase \in {"log", "worker"}
    BY <1>7 DEF P!Unreachable, P!StartLog, P!StartWorker, P!Close, P!ui, P!exit, P!history
  <2> QED BY <2>1 DEF ExitInv
<1>8. CASE \/ P!SendCover \/ P!Arrive \/ P!ReportText \/ P!ReportCover \/ P!FinishCover
           \/ P!FinishText \/ UNCHANGED phoneVars
  <2>1. UNCHANGED <<phase, pc, drawn, scheduled, left, sent, stopEvent, exitPending>>
    BY <1>8 DEF P!SendCover, P!Arrive, P!ReportText, P!ReportCover, P!FinishCover, P!FinishText,
                phoneVars, P!main, P!ui, P!schedule, P!exit, P!history
  <2> QED BY <2>1 DEF ExitInv
<1> QED BY <1>1, <1>2, <1>3, <1>4, <1>5, <1>6, <1>7, <1>8 DEF P!Next

\* After an exit that found the door at rest, or the end of the sequence, the draw that is
\* still to come hands over no command (on_exit, tick, draw) - if a start leaves its step
\* more than a draw of time: Space is still heard between the exit and that draw.
THEOREM ExitIsQuiet ==
    ASSUME InitialDelay > 1 PROVE SessionsSpec => P!QuietAfterExit
<1>1. SessionsInit => ExitInv
  BY DEF SessionsInit, P!Init, ExitInv
<1>2. [SessionsNext]_sessionVars => [P!Next]_phoneVars
  BY DEF SessionsNext, Phone, Wizard, Timing, sessionVars
<1>3. PhoneInv /\ PhoneInv' /\ ExitInv /\ [SessionsNext]_sessionVars => ExitInv'
  BY <1>2, ExitStep
<1>4. PhoneInv /\ PhoneInv' /\ ExitInv /\ [SessionsNext]_sessionVars =>
          [(stopEvent /\ ~exitPending) => sent' = sent]_(P!vars)
  BY <1>2, ExitStep
<1>5. SessionsSpec => SessionsInit /\ [][SessionsNext]_sessionVars
  BY PTL DEF SessionsSpec
<1> QED BY <1>1, <1>3, <1>4, <1>5, PhoneAlways, PTL DEF P!QuietAfterExit

-----------------------------------------------------------------------------
(* What a step of the capture is left for. *)

RealSteps == P!Actions \ {"vent"}
\* A vent may be left before anything of it is reported.  So it is not the first step,
\* and what precedes a run of vents is not what follows it.
VentsApart ==
    /\ Steps[1] # "vent"
    /\ \A n, k \in 1..Len(Steps) :
          (n + 1 < k /\ Steps[n] # "vent" /\ \A j \in (n + 1)..(k - 1) : Steps[j] = "vent")
              => Steps[k] # Steps[n]

\* A text or a cover that a step could be left for; a report, what was heard, or either
\* of them and what is on its way.
TextNames(t, a) == t = P!TargetOf(a)
CoverNames(m, p, a) == m # TRUE /\ p = P!PlaceOf(a)
Names(s, a) == TextNames(s.text, a) \/ CoverNames(s.moving, s.pos, a)
HcpNames(a) == TextNames(hcpText, a) \/ CoverNames(hcpMoving, hcpPos, a)
Clean(a) == ~HcpNames(a) /\ \A i \in 1..Len(news) : ~Names(news[i], a)
Only(a) == \A b \in RealSteps \ {a} : Clean(b)

\* The door and a step: it is nowhere near it, it rests there and nothing else is in
\* flight, and all reports that name something name this; it has not come there yet; it
\* has, the last report says so, and the one before it that the door moves.
Left(a) == /\ place # P!PlaceOf(a) /\ goal # P!PlaceOf(a) /\ Clean(a)
           /\ \A i \in 1..Len(flight) : flight[i] # a
Stays(a) == /\ place = P!PlaceOf(a) /\ goal = "none"
            /\ \A i \in 1..Len(flight) : flight[i] \in {"stop", a}
AtRest(a) == Stays(a) /\ Only(a)
Going(a) == /\ place # P!PlaceOf(a) /\ Clean(a)
            /\ \A i, j \in 1..Len(flight) : (i < j /\ flight[i] = a) => flight[j] = "stop"
            /\ goal = P!PlaceOf(a) => \A i \in 1..Len(flight) : flight[i] = "stop"
Arrived(a) == /\ Stays(a) /\ ~HcpNames(a) /\ Len(news) > 1
              /\ news[Len(news) - 1].text = "Moving" /\ news[Len(news) - 1].moving = TRUE
              /\ \A i \in 1..(Len(news) - 1) : ~Names(news[i], a)
              /\ \A i \in 1..Len(news) : \A b \in RealSteps \ {a} : i = Len(news) => ~Names(news[i], b)

Texts == {"Moving", "Open", "Closed", "Venting", "Stopped"}
Report == [text : Texts, moving : BOOLEAN, pos : P!Places \cup {"between"}]
Carried ==
    /\ news \in Seq(Report) /\ flight \in Seq(P!Actions \cup {"stop"})
    /\ place \in P!Places \cup {"between"} /\ goal \in P!Places \cup {"none"}
    /\ half \in {"none", "text", "cover"}
\* Half of a report is heard; a moving door has said so.
HalfHeard == /\ half # "none" => news # <<>>
             /\ half = "text" => hcpText = news[1].text
             /\ half = "cover" => hcpMoving = news[1].moving /\ hcpPos = news[1].pos
MovesLast ==
    goal # "none" =>
        /\ news = <<>> => hcpText = "Moving" /\ hcpMoving = TRUE
        /\ news # <<>> => news[Len(news)].text = "Moving" /\ news[Len(news)].moving = TRUE
\* What the sequence is at.
Linked == /\ plans = {} /\ dry = FALSE
          /\ index \in Nat /\ index <= Len(Steps)
          /\ phase \in {"log", "worker"} => index = 0 /\ pc = "idle"
          /\ scheduled # "none" => index > 0 /\ scheduled = Steps[index] /\ waiting = "none"
          /\ waiting # "none" => index > 0 /\ waiting = P!TargetOf(Steps[index])
\* Before the start; the steps to come when a step is scheduled, or a vent waited for;
\* the step waited for.
Before == index = 0 => /\ goal = "none"
                       /\ \A i \in 1..Len(flight) : flight[i] = "stop"
                       /\ \A a \in RealSteps : place = P!PlaceOf(a) \/ Clean(a)
Coming(n, k) == k >= n /\ Steps[k] # "vent" /\ \A j \in n..(k - 1) : Steps[j] = "vent"
Ahead == (scheduled # "none" \/ waiting = "Venting") =>
    \A k \in 1..Len(Steps) : Coming(index, k) =>
        Left(Steps[k]) \/ (k = index /\ AtRest(Steps[k]))
Awaits(a) == Going(a) \/ (P!PlaceOf(a) \in visited /\ (AtRest(a) \/ Arrived(a)))
Awaited == (waiting # "none" /\ waiting # "Venting") =>
    \A k \in 1..Len(Steps) : k = index => Awaits(Steps[k])
RealInv == dry \/ (Carried /\ HalfHeard /\ MovesLast /\ Linked /\ Before /\ Ahead /\ Awaited)

\* Actions have places and names of their own.
LEMMA ActionFacts ==
    /\ \A a \in RealSteps : /\ a \in P!Actions /\ P!PlaceOf(a) \in {"open", "closed", "part"}
                            /\ P!TargetOf(a) \in {"Open", "Closed", "Position"}
    /\ \A a, b \in P!Actions : P!PlaceOf(a) = P!PlaceOf(b) => a = b
    /\ \A a \in P!Actions : /\ P!PlaceOf(a) \in P!Places
                            /\ P!TargetOf(a) = "Venting" <=> a = "vent"
BY ZenonT(60) DEF RealSteps, P!Actions, P!Places, P!PlaceOf, P!TargetOf

\* What is published names only where the door rests.
LEMMA PublishedFacts ==
    ASSUME NEW p \in P!Places \cup {"between"}, NEW g, NEW s \in P!Published(p, g)
    PROVE  /\ s \in Report
           /\ g # "none" => s.text = "Moving" /\ s.moving = TRUE
           /\ \A a \in RealSteps : (g # "none" \/ p # P!PlaceOf(a)) => ~Names(s, a)
<1>1. /\ s.text \in P!TextsOf(p, g) /\ s.moving \in {g # "none"}
      /\ s.pos \in {IF g # "none" THEN "between" ELSE p}
      /\ s = [text |-> s.text, moving |-> s.moving, pos |-> s.pos]
  BY DEF P!Published
<1>2. s.text \in {"Moving", "Open", "Closed", "Venting", "Stopped"}
  BY <1>1 DEF P!TextsOf
<1>3. s \in Report
  <2>1. s.moving \in BOOLEAN
    BY <1>1, Zenon
  <2>2. s.pos \in P!Places \cup {"between"}
    BY <1>1
  <2> QED BY <1>1, <1>2, <2>1, <2>2 DEF Report, Texts
<1>4. CASE g # "none"
  <2>1. s.text = "Moving" /\ s.moving = TRUE
    BY <1>1, <1>4 DEF P!TextsOf
  <2> QED BY <1>3, <1>4, <2>1, ActionFacts DEF Names, TextNames, CoverNames
<1>5. CASE g = "none"
  <2> SUFFICES ASSUME NEW a \in RealSteps, p # P!PlaceOf(a) PROVE ~Names(s, a)
    BY <1>3, <1>5
  <2>1. s.text # P!TargetOf(a)
    BY <1>1, <1>5, ActionFacts DEF P!TextsOf, RealSteps, P!Actions, P!TargetOf, P!PlaceOf
  <2> QED BY <1>1, <1>5, <2>1 DEF Names, TextNames, CoverNames
<1> QED BY <1>4, <1>5

\* What a step of the door, of the connection or of the user leaves of the door and the
\* steps: everything but what it does to the step that is waited for.
Keeps == \A a \in RealSteps : /\ Left(a) => Left(a)'
                              /\ AtRest(a) => AtRest(a)'
                              /\ Awaits(a) => Awaits(a)'

\* So the steps ahead and the step waited for stay as they are.
LEMMA StepsKept ==
    ASSUME Keeps, Ahead, Awaited, Linked, UNCHANGED <<index, waiting>>,
           scheduled' \in {scheduled, "none"}
    PROVE  Ahead' /\ Awaited'
<1>1. \A k \in 1..Len(Steps) : Steps[k] \in P!Actions
  BY SequenceFacts
<1>2. Ahead'
  <2> SUFFICES ASSUME scheduled' # "none" \/ waiting = "Venting",
                      NEW k \in 1..Len(Steps), Coming(index, k)
               PROVE  (Left(Steps[k]) \/ (k = index /\ AtRest(Steps[k])))'
    BY DEF Ahead
  <2>1. Steps[k] \in RealSteps
    BY <1>1 DEF Coming, RealSteps
  <2>2. Left(Steps[k]) \/ (k = index /\ AtRest(Steps[k]))
    BY DEF Ahead
  <2> QED BY <2>1, <2>2 DEF Keeps
<1>3. Awaited'
  <2> SUFFICES ASSUME waiting # "none", waiting # "Venting", NEW k \in 1..Len(Steps), k = index
               PROVE  Awaits(Steps[k])'
    BY DEF Awaited
  <2>1. Steps[k] \in RealSteps
    BY <1>1, ActionFacts DEF Linked, RealSteps
  <2> QED BY <2>1 DEF Awaited, Keeps
<1> QED BY <1>2, <1>3

\* Nothing at the door, or a stop or command more in flight.
LEMMA Undisturbed ==
    ASSUME Carried, UNCHANGED <<place, goal, news, half, hcpText, hcpMoving, hcpPos>>,
           visited \subseteq visited',
           flight' = flight \/ flight' = Append(flight, "stop")
    PROVE  Keeps /\ Carried'
<1>1. /\ Len(flight) \in Nat /\ Len(flight') \in Nat
      /\ \A i \in 1..Len(flight') : (i \in 1..Len(flight) /\ flight'[i] = flight[i])
                                     \/ (i > Len(flight) /\ flight'[i] = "stop")
      /\ flight' \in Seq(P!Actions \cup {"stop"})
  BY SMTT(60) DEF Carried
<1>2. ASSUME NEW a \in RealSteps
      PROVE  /\ Left(a) => Left(a)'
             /\ AtRest(a) => AtRest(a)'
             /\ Awaits(a) => Awaits(a)'
  <2>1. a # "stop"
    BY DEF RealSteps, P!Actions
  <2>2. Clean(a)' = Clean(a) /\ Only(a)' = Only(a)
    BY DEF Clean, Only, HcpNames
  <2>3. Left(a) => Left(a)'
    BY <1>1, <2>1, <2>2 DEF Left
  <2>4. Stays(a) => Stays(a)'
    BY <1>1 DEF Stays
  <2>5. Going(a) => Going(a)'
    <3> SUFFICES ASSUME Going(a) PROVE Going(a)'
      OBVIOUS
    <3>1. ASSUME NEW i \in 1..Len(flight'), NEW j \in 1..Len(flight'), i < j, flight'[i] = a
          PROVE  flight'[j] = "stop"
      BY <1>1, <2>1, <3>1 DEF Going
    <3>2. ASSUME goal = P!PlaceOf(a), NEW i \in 1..Len(flight') PROVE flight'[i] = "stop"
      BY <1>1, <3>2 DEF Going
    <3> QED BY <2>2, <3>1, <3>2 DEF Going
  <2>6. Arrived(a) => Arrived(a)'
    BY <2>4 DEF Arrived, HcpNames
  <2> QED BY <2>2, <2>3, <2>4, <2>5, <2>6 DEF AtRest, Awaits
<1> QED BY <1>1, <1>2 DEF Keeps, Carried

\* A change of the door is published behind all others.
LEMMA Appended ==
    ASSUME Carried, HalfHeard, NEW s \in Report, news' = Append(news, s),
           UNCHANGED <<half, hcpText, hcpMoving, hcpPos>>
    PROVE  /\ Len(news) \in Nat /\ news' \in Seq(Report) /\ HalfHeard' /\ news' # <<>>
           /\ Len(news') = Len(news) + 1 /\ news'[Len(news')] = s
           /\ \A i \in 1..Len(news) : news'[i] = news[i]
           /\ \A a \in RealSteps : (Clean(a) /\ ~Names(s, a)) => Clean(a)'
<1>1. /\ Len(news) \in Nat /\ news' \in Seq(Report) /\ Len(news') = Len(news) + 1
      /\ news'[Len(news')] = s /\ news' # <<>>
      /\ \A i \in 1..Len(news) : news'[i] = news[i]
  BY DEF Carried
<1>2. HalfHeard'
  <2>1. half # "none" => 1 \in 1..Len(news) /\ news # <<>>
    BY DEF Carried, HalfHeard
  <2> QED BY <1>1, <2>1 DEF HalfHeard
<1>3. ASSUME NEW a \in RealSteps, Clean(a), ~Names(s, a) PROVE Clean(a)'
  <2>1. ~HcpNames(a)'
    BY <1>3 DEF Clean, HcpNames
  <2>2. ASSUME NEW i \in 1..Len(news') PROVE ~Names(news'[i], a)
    BY <1>1, <1>3 DEF Clean
  <2> QED BY <2>1, <2>2 DEF Clean
<1> QED BY <1>1, <1>2, <1>3

\* A report is heard, whole or half.
LEMMA IsHeard ==
    ASSUME Carried, HalfHeard, P!ReportText \/ P!ReportCover
    PROVE  /\ news # <<>> /\ hcpText' \in {hcpText, news[1].text}
           /\ \/ hcpMoving' = hcpMoving /\ hcpPos' = hcpPos
              \/ hcpMoving' = news[1].moving /\ hcpPos' = news[1].pos
           /\ \/ news' = news
              \/ news' = Tail(news) /\ hcpText' = news[1].text /\ hcpMoving' = news[1].moving
                 /\ hcpPos' = news[1].pos
           /\ HalfHeard' /\ half' \in {"none", "text", "cover"}
           /\ UNCHANGED <<place, goal, flight, index, scheduled, waiting, visited, plans,
                          phase, pc, dry>>
<1>1. UNCHANGED <<place, goal, flight, index, scheduled, waiting, visited, plans, phase, pc, dry>>
  BY DEF P!ReportText, P!ReportCover, P!main, P!ui, P!schedule, P!sequence, P!door, P!history
<1>2. news # <<>> /\ Head(news) = news[1]
  BY DEF P!ReportText, P!ReportCover, Carried
<1>3. \/ /\ half # "text" /\ hcpText' = news[1].text /\ UNCHANGED <<hcpMoving, hcpPos>>
         /\ P!Heard("text")
      \/ /\ half # "cover" /\ UNCHANGED hcpText /\ hcpMoving' = news[1].moving
         /\ hcpPos' = news[1].pos /\ P!Heard("cover")
  BY <1>2 DEF P!ReportText, P!ReportCover
<1>4. CASE half = "none"
  BY <1>1, <1>2, <1>3, <1>4 DEF HalfHeard, P!Heard
<1>5. CASE half # "none"
  <2>1. news' = Tail(news) /\ half' = "none"
    BY <1>3, <1>5 DEF P!Heard
  <2>2. half \in {"text", "cover"}
    BY <1>5 DEF Carried
  <2>3. hcpText' = news[1].text /\ hcpMoving' = news[1].moving /\ hcpPos' = news[1].pos
    BY <1>3, <2>2 DEF HalfHeard
  <2> QED BY <1>1, <1>2, <2>1, <2>3 DEF HalfHeard
<1> QED BY <1>4, <1>5

\* It never brings a name that was not there, and the last one comes behind a report of
\* moving.
LEMMA ReportKeeps ==
    ASSUME Carried, HalfHeard, MovesLast, P!ReportText \/ P!ReportCover
    PROVE  Keeps /\ Carried' /\ HalfHeard' /\ MovesLast' /\ (Before => Before')
<1>1. /\ news # <<>> /\ hcpText' \in {hcpText, news[1].text}
      /\ \/ hcpMoving' = hcpMoving /\ hcpPos' = hcpPos
         \/ hcpMoving' = news[1].moving /\ hcpPos' = news[1].pos
      /\ \/ news' = news
         \/ news' = Tail(news) /\ hcpText' = news[1].text /\ hcpMoving' = news[1].moving
            /\ hcpPos' = news[1].pos
      /\ HalfHeard' /\ half' \in {"none", "text", "cover"}
      /\ UNCHANGED <<place, goal, flight, index, scheduled, waiting, visited, plans, phase, pc, dry>>
  BY IsHeard
<1>2. /\ Len(news) \in Nat /\ Len(news) > 0 /\ 1 \in 1..Len(news) /\ news \in Seq(Report)
  BY <1>1 DEF Carried
<1>5. PICK m \in Nat : m = Len(news) /\ m > 0
  BY <1>2
<1>3. CASE news' = news
  <2>1. ASSUME NEW a \in RealSteps, ~HcpNames(a), ~Names(news[1], a) PROVE ~HcpNames(a)'
    BY <1>1, <2>1 DEF HcpNames, Names, TextNames, CoverNames
  <2>2. ASSUME NEW a \in RealSteps, Clean(a) PROVE Clean(a)'
    BY <1>2, <1>3, <2>1, <2>2 DEF Clean
  <2>3. ASSUME NEW a \in RealSteps, Arrived(a) PROVE Arrived(a)'
    <3>1. ~HcpNames(a)'
      BY <1>2, <2>1, <2>3 DEF Arrived
    <3> QED BY <1>1, <1>3, <2>3, <3>1 DEF Arrived, Stays
  <2>4. Keeps
    BY <1>1, <2>2, <2>3 DEF Keeps, Left, AtRest, Awaits, Going, Stays, Only
  <2>5. MovesLast'
    BY <1>1, <1>3 DEF MovesLast
  <2>6. Before => Before'
    BY <1>1, <2>2 DEF Before
  <2> QED BY <1>1, <1>3, <2>4, <2>5, <2>6 DEF Carried
<1>4. CASE news' = Tail(news) /\ hcpText' = news[1].text /\ hcpMoving' = news[1].moving
           /\ hcpPos' = news[1].pos
  <2>1. /\ Len(news') = Len(news) - 1 /\ news' \in Seq(Report) /\ Len(news') \in Nat
        /\ \A i \in 1..Len(news') : i + 1 \in 1..Len(news) /\ news'[i] = news[i + 1]
    BY <1>2, <1>4
  <2>2. ASSUME NEW a \in RealSteps PROVE HcpNames(a)' = Names(news[1], a)
    BY <1>4 DEF HcpNames, Names
  <2>3. ASSUME NEW a \in RealSteps, Clean(a) PROVE Clean(a)'
    BY <1>2, <2>1, <2>2, <2>3 DEF Clean
  <2>4. ASSUME NEW a \in RealSteps, Arrived(a) PROVE (Arrived(a) \/ AtRest(a))'
    <3>1. Stays(a)'
      BY <1>1, <2>4 DEF Arrived, Stays
    <3>2. CASE Len(news) > 2
      <4>1. Len(news') > 1 /\ Len(news') - 1 \in 1..Len(news') /\ 1 \in 1..(Len(news) - 1)
        BY <1>2, <2>1, <3>2
      <4>2. news'[Len(news') - 1] = news[Len(news) - 1]
        BY <1>2, <2>1, <4>1
      <4>3. ~HcpNames(a)'
        BY <2>2, <2>4, <4>1 DEF Arrived
      <4>4. \A i \in 1..(Len(news') - 1) : ~Names(news'[i], a)
        <5> TAKE i \in 1..(Len(news') - 1)
        <5>1. i + 1 \in 1..(Len(news) - 1) /\ news'[i] = news[i + 1]
          BY <1>2, <2>1
        <5> QED BY <2>4, <5>1 DEF Arrived
      <4>5. \A i \in 1..Len(news') : \A b \in RealSteps \ {a} : i = Len(news') => ~Names(news'[i], b)
        <5> TAKE i \in 1..Len(news')
        <5> TAKE b \in RealSteps \ {a}
        <5>1. i = Len(news') => i + 1 = Len(news)
          BY <1>2, <2>1
        <5>2. i + 1 \in 1..Len(news) /\ news'[i] = news[i + 1]
          BY <2>1
        <5> QED BY <2>4, <5>1, <5>2 DEF Arrived
      <4> QED BY <2>4, <3>1, <4>1, <4>2, <4>3, <4>4, <4>5 DEF Arrived
    <3>3. CASE Len(news) = 2
      <4>1. news[1].text = "Moving" /\ news[1].moving = TRUE
        BY <2>4, <3>3 DEF Arrived
      <4>2. ASSUME NEW b \in RealSteps \ {a} PROVE Clean(b)'
        <5>1. ~HcpNames(b)'
          BY <2>2, <4>1, ActionFacts DEF Names, TextNames, CoverNames
        <5>2. ASSUME NEW i \in 1..Len(news') PROVE ~Names(news'[i], b)
          <6>1. i = 1 /\ news'[i] = news[2] /\ 2 \in 1..Len(news)
            BY <2>1, <3>3
          <6> QED BY <2>4, <3>3, <6>1 DEF Arrived
        <5> QED BY <5>1, <5>2 DEF Clean
      <4> QED BY <3>1, <4>2 DEF AtRest, Only
    <3>4. Len(news) = 2 \/ Len(news) > 2
      <4>1. Len(news) > 1
        BY <2>4 DEF Arrived
      <4> QED BY <1>5, <4>1
    <3> QED BY <3>2, <3>3, <3>4, Zenon
  <2>5. Keeps
    BY <1>1, <2>3, <2>4 DEF Keeps, Left, AtRest, Awaits, Going, Stays, Only
  <2>6. MovesLast'
    <3> SUFFICES ASSUME goal # "none" PROVE MovesLast'
      BY <1>1 DEF MovesLast
    <3>1. news[Len(news)].text = "Moving" /\ news[Len(news)].moving = TRUE
      BY <1>1 DEF MovesLast
    <3>2. CASE Len(news) = 1
      BY <1>4, <2>1, <3>1, <3>2 DEF MovesLast
    <3>3. CASE Len(news) > 1
      <4>1. Len(news') \in 1..Len(news') /\ news'[Len(news')] = news[Len(news)]
        BY <1>2, <2>1, <3>3
      <4> QED BY <2>1, <3>1, <4>1 DEF MovesLast
    <3>4. Len(news) = 1 \/ Len(news) > 1
      BY <1>5
    <3> QED BY <3>2, <3>3, <3>4, Zenon
  <2>7. Before => Before'
    BY <1>1, <2>3 DEF Before
  <2> QED BY <1>1, <2>1, <2>5, <2>6, <2>7 DEF Carried
<1> QED BY <1>1, <1>3, <1>4

\* The door takes a command, or loses it.
LEMMA IsSent ==
    ASSUME Carried, P!SendCover
    PROVE  /\ flight # <<>> /\ flight' = Tail(flight)
           /\ UNCHANGED <<hcpText, hcpMoving, hcpPos, index, scheduled, waiting, visited, plans, dry, half, pc>>
           /\ phase' = phase /\ phase \in {"ui", "closing"}
           /\ \/ UNCHANGED <<place, goal, news>>
              \/ /\ goal # "none" /\ place' = "between" /\ goal' = "none"
                 /\ \E s \in P!Published("between", "none") : news' = Append(news, s)
              \/ /\ flight[1] # "stop" /\ goal' = P!PlaceOf(flight[1]) /\ goal' # "none"
                 /\ place' = place
                 /\ \/ goal # "none" /\ news' = news
                    \/ /\ goal = "none" /\ place # P!PlaceOf(flight[1])
                       /\ \E s \in P!Published(place, goal') : news' = Append(news, s)
<1>1. /\ flight # <<>> /\ flight' = Tail(flight) /\ Head(flight) = flight[1]
      /\ UNCHANGED <<hcpText, hcpMoving, hcpPos, index, scheduled, waiting, visited, plans, dry, pc>>
      /\ phase' = phase /\ phase \in {"ui", "closing"}
  BY DEF P!SendCover, P!main, P!ui, P!schedule, P!sequence, P!hcp, P!history, Carried
<1>2. flight[1] \in P!Actions \cup {"stop"}
  BY <1>1 DEF Carried
<1>3. P!PlaceOf(flight[1]) # "none" \/ flight[1] = "stop"
  BY <1>2, ActionFacts DEF P!Places
<1>4. CASE UNCHANGED <<P!door, P!reports>>
  BY <1>1, <1>4 DEF P!door, P!reports
<1>5. CASE /\ IF Head(flight) = "stop"
              THEN /\ place' = (IF goal = "none" THEN place ELSE "between")
                   /\ goal' = "none"
              ELSE /\ goal' = (IF goal = "none" /\ place = P!PlaceOf(Head(flight))
                              THEN "none" ELSE P!PlaceOf(Head(flight)))
                   /\ UNCHANGED place
           /\ IF (goal = "none") = (goal' = "none") THEN UNCHANGED P!reports
              ELSE P!Publish(place', goal')
  <2>1. CASE flight[1] = "stop" /\ goal = "none"
    <3>1. UNCHANGED P!reports /\ place' = place /\ goal' = "none"
      BY <1>1, <1>5, <2>1
    <3> QED BY <1>1, <2>1, <3>1 DEF P!reports
  <2>2. CASE flight[1] = "stop" /\ goal # "none"
    <3>1. place' = "between" /\ goal' = "none"
      BY <1>1, <1>5, <2>2
    <3>2. P!Publish(place', goal')
      BY <1>5, <2>2, <3>1
    <3>3. half' = half /\ \E s \in P!Published("between", "none") : news' = Append(news, s)
      BY <3>1, <3>2 DEF P!Publish
    <3> QED BY <1>1, <2>2, <3>1, <3>3
  <2>3. CASE flight[1] # "stop" /\ goal = "none" /\ place = P!PlaceOf(flight[1])
    <3>1. UNCHANGED P!reports /\ place' = place /\ goal' = "none"
      BY <1>1, <1>5, <2>3
    <3> QED BY <1>1, <2>3, <3>1 DEF P!reports
  <2>4. CASE flight[1] # "stop" /\ goal # "none"
    <3>1. goal' = P!PlaceOf(flight[1]) /\ goal' # "none" /\ place' = place
      BY <1>1, <1>3, <1>5, <2>4
    <3>2. UNCHANGED P!reports
      BY <1>5, <2>4, <3>1
    <3> QED BY <1>1, <2>4, <3>1, <3>2 DEF P!reports
  <2>5. CASE flight[1] # "stop" /\ goal = "none" /\ place # P!PlaceOf(flight[1])
    <3>1. goal' = P!PlaceOf(flight[1]) /\ goal' # "none" /\ place' = place
      BY <1>1, <1>3, <1>5, <2>5
    <3>2. P!Publish(place', goal')
      BY <1>5, <2>5, <3>1
    <3>3. half' = half /\ \E s \in P!Published(place, goal') : news' = Append(news, s)
      BY <3>1, <3>2 DEF P!Publish
    <3> QED BY <1>1, <2>5, <3>1, <3>3
  <2> QED BY <2>1, <2>2, <2>3, <2>4, <2>5
<1> QED BY <1>1, <1>4, <1>5 DEF P!SendCover

\* A command moves the door only towards its own place.
LEMMA SendKeeps ==
    ASSUME Carried, HalfHeard, MovesLast, P!SendCover
    PROVE  Keeps /\ Carried' /\ HalfHeard' /\ MovesLast' /\ (Before => Before')
<1>1. /\ flight # <<>> /\ flight' = Tail(flight)
      /\ UNCHANGED <<hcpText, hcpMoving, hcpPos, index, scheduled, waiting, visited, plans, dry, half, pc>>
  BY IsSent
<1>2. /\ Len(flight) \in Nat /\ 1 \in 1..Len(flight) /\ Len(flight') \in Nat
      /\ flight' \in Seq(P!Actions \cup {"stop"}) /\ flight[1] \in P!Actions \cup {"stop"}
      /\ \A i \in 1..Len(flight') : /\ i + 1 \in 1..Len(flight) /\ flight'[i] = flight[i + 1]
  BY <1>1 DEF Carried
<1>3. \A i, j \in 1..Len(flight') : i < j => i + 1 < j + 1
  BY <1>2
<1>4. ASSUME NEW a \in RealSteps
      PROVE  /\ (\A i \in 1..Len(flight) : flight[i] # a) => \A i \in 1..Len(flight') : flight'[i] # a
             /\ (\A i \in 1..Len(flight) : flight[i] \in {"stop", a}) =>
                    \A i \in 1..Len(flight') : flight'[i] \in {"stop", a}
             /\ (\A i \in 1..Len(flight) : flight[i] = "stop") =>
                    \A i \in 1..Len(flight') : flight'[i] = "stop"
             /\ (\A i, j \in 1..Len(flight) : (i < j /\ flight[i] = a) => flight[j] = "stop") =>
                    \A i, j \in 1..Len(flight') : (i < j /\ flight'[i] = a) => flight'[j] = "stop"
             /\ (/\ flight[1] = a
                 /\ \A i, j \in 1..Len(flight) : (i < j /\ flight[i] = a) => flight[j] = "stop") =>
                    \A i \in 1..Len(flight') : flight'[i] = "stop"
  <2>1. \A i \in 1..Len(flight') : 1 < i + 1
    BY <1>2
  <2> QED BY <1>2, <1>3, <2>1, ZenonT(60)
<1>5. \A i \in 1..Len(flight') : flight'[i] \in P!Actions \cup {"stop"}
  BY <1>2 DEF Carried
<1>6. CASE UNCHANGED <<place, goal, news>>
  <2>1. \A a \in RealSteps : /\ Clean(a)' = Clean(a) /\ Only(a)' = Only(a) /\ HcpNames(a)' = HcpNames(a)
    BY <1>1, <1>6 DEF Clean, Only, HcpNames
  <2>2. ASSUME NEW a \in RealSteps
        PROVE  /\ Left(a) => Left(a)'
               /\ AtRest(a) => AtRest(a)'
               /\ Awaits(a) => Awaits(a)'
    <3>1. (Left(a) => Left(a)') /\ (Stays(a) => Stays(a)')
      BY <1>4, <1>6, <2>1 DEF Left, Stays
    <3>2. Going(a) => Going(a)'
      BY <1>4, <1>6, <2>1 DEF Going
    <3>3. Arrived(a) => Arrived(a)'
      BY <1>6, <2>1, <3>1 DEF Arrived
    <3> QED BY <1>1, <2>1, <3>1, <3>2, <3>3 DEF AtRest, Awaits
  <2>3. Before => Before'
    BY <1>1, <1>2, <1>6, <2>1 DEF Before
  <2> QED BY <1>1, <1>2, <1>6, <2>2, <2>3 DEF Keeps, Carried, HalfHeard, MovesLast
<1>7. CASE /\ goal # "none" /\ place' = "between" /\ goal' = "none"
           /\ \E s \in P!Published("between", "none") : news' = Append(news, s)
  <2>1. PICK s \in P!Published("between", "none") : news' = Append(news, s)
    BY <1>7
  <2>2. s \in Report /\ \A a \in RealSteps : ~Names(s, a) /\ P!PlaceOf(a) # "between" /\ P!PlaceOf(a) # "none"
    <3>1. \A a \in RealSteps : P!PlaceOf(a) # "between" /\ P!PlaceOf(a) # "none"
      BY ActionFacts
    <3>2. PICK p \in P!Places \cup {"between"} : p = "between"
      OBVIOUS
    <3>3. s \in P!Published(p, "none")
      BY <3>2
    <3> QED BY <3>1, <3>2, <3>3, PublishedFacts
  <2>3. /\ HalfHeard' /\ news' \in Seq(Report) /\ \A a \in RealSteps : Clean(a) => Clean(a)'
    BY <1>1, <2>1, <2>2, Appended
  <2>4. \A a \in RealSteps : ~Stays(a)
    BY <1>7 DEF Stays
  <2>5. ASSUME NEW a \in RealSteps PROVE (Left(a) => Left(a)') /\ (Going(a) => Going(a)')
    BY <1>4, <1>7, <2>2, <2>3 DEF Left, Going
  <2>6. Keeps
    BY <1>1, <2>4, <2>5 DEF Keeps, AtRest, Awaits, Arrived
  <2> QED BY <1>1, <1>2, <1>7, <2>3, <2>6 DEF Carried, MovesLast, Before
<1>8. CASE /\ flight[1] # "stop" /\ goal' = P!PlaceOf(flight[1]) /\ goal' # "none"
           /\ place' = place
           /\ \/ goal # "none" /\ news' = news
              \/ /\ goal = "none" /\ place # P!PlaceOf(flight[1])
                 /\ \E s \in P!Published(place, goal') : news' = Append(news, s)
  <2>1. flight[1] \in P!Actions /\ goal' \in P!Places
    BY <1>2, <1>8, ActionFacts
  <2>2. /\ HalfHeard' /\ news' \in Seq(Report) /\ MovesLast' /\ \A a \in RealSteps : Clean(a) => Clean(a)'
    <3>1. CASE goal # "none" /\ news' = news
      BY <1>1, <3>1 DEF HalfHeard, MovesLast, Clean, HcpNames, Carried
    <3>2. CASE goal = "none" /\ \E s \in P!Published(place, goal') : news' = Append(news, s)
      <4>1. PICK g \in P!Places : g = goal'
        BY <2>1
      <4>2. PICK s \in P!Published(place, g) : news' = Append(news, s)
        BY <3>2, <4>1
      <4>3. /\ s \in Report /\ s.text = "Moving" /\ s.moving = TRUE
            /\ \A a \in RealSteps : ~Names(s, a)
        <5>1. g # "none"
          BY <1>8, <4>1
        <5>2. PICK p \in P!Places \cup {"between"} : p = place
          BY DEF Carried
        <5>3. s \in P!Published(p, g)
          BY <5>2
        <5>4. s \in Report
          BY <5>2, <5>3, PublishedFacts
        <5>5. s.text = "Moving" /\ s.moving = TRUE
          <6>1. s.text \in P!TextsOf(p, g) /\ s.moving \in {g # "none"}
            BY <5>3 DEF P!Published
          <6> QED BY <5>1, <6>1 DEF P!TextsOf
        <5>6. \A a \in RealSteps : ~Names(s, a)
          BY <5>1, <5>2, <5>3, PublishedFacts, ZenonT(60)
        <5> QED BY <5>4, <5>5, <5>6
      <4>4. /\ HalfHeard' /\ news' \in Seq(Report) /\ news' # <<>> /\ news'[Len(news')] = s
            /\ \A a \in RealSteps : Clean(a) => Clean(a)'
        BY <1>1, <4>2, <4>3, Appended
      <4> QED BY <4>3, <4>4 DEF MovesLast
    <3> QED BY <1>8, <3>1, <3>2
  <2>3. ASSUME NEW a \in RealSteps PROVE Left(a) => Left(a)'
    <3>1. a \in P!Actions
      BY DEF RealSteps
    <3> QED BY <1>2, <1>4, <1>8, <2>1, <2>2, <3>1, ActionFacts DEF Left
  <2>4. ASSUME NEW a \in RealSteps PROVE Going(a) => Going(a)'
    <3>1. a \in P!Actions
      BY DEF RealSteps
    <3>2. CASE flight[1] = a
      BY <1>4, <1>8, <2>2, <3>2 DEF Going
    <3>3. CASE flight[1] # a
      <4>1. goal' # P!PlaceOf(a)
        BY <1>8, <2>1, <3>1, <3>3, ActionFacts
      <4> QED BY <1>4, <1>8, <2>2, <4>1 DEF Going
    <3> QED BY <3>2, <3>3
  <2>5. ASSUME NEW a \in RealSteps, Stays(a) PROVE FALSE
    <3>1. flight[1] = a /\ goal = "none" /\ place = P!PlaceOf(a)
      BY <1>2, <1>8, <2>5 DEF Stays
    <3> QED BY <1>8, <3>1
  <2>6. Keeps
    BY <1>1, <2>3, <2>4, <2>5 DEF Keeps, AtRest, Awaits, Arrived
  <2>7. Before => index # 0
    BY <1>2, <1>8 DEF Before
  <2> QED BY <1>1, <1>2, <1>8, <2>1, <2>2, <2>6, <2>7 DEF Carried, Before
<1> QED BY <1>6, <1>7, <1>8, IsSent

\* The door arrives.
LEMMA ArriveKeeps ==
    ASSUME Carried, HalfHeard, MovesLast, P!Arrive
    PROVE  /\ Keeps /\ Carried' /\ HalfHeard' /\ MovesLast' /\ (Before => Before')
           /\ UNCHANGED <<index, scheduled, waiting, plans, phase, pc, dry>>
<1>1. /\ goal # "none" /\ place' = goal /\ goal' = "none" /\ visited' = visited \cup {goal}
      /\ UNCHANGED <<hcpText, hcpMoving, hcpPos, half, index, scheduled, waiting, plans, phase,
                     pc, dry, flight>>
      /\ \E s \in P!Published(goal, "none") : news' = Append(news, s)
  BY DEF P!Arrive, P!main, P!ui, P!schedule, P!sequence, P!hcp, P!Publish
<1>2. goal \in P!Places
  BY <1>1 DEF Carried
<1>3. PICK s \in P!Published(goal, "none") : news' = Append(news, s)
  BY <1>1
<1>4. s \in Report /\ \A a \in RealSteps : goal # P!PlaceOf(a) => ~Names(s, a)
  BY <1>2, PublishedFacts
<1>5. /\ Len(news) \in Nat /\ news' \in Seq(Report) /\ HalfHeard' /\ news' # <<>>
      /\ Len(news') = Len(news) + 1 /\ news'[Len(news')] = s
      /\ \A i \in 1..Len(news) : news'[i] = news[i]
      /\ \A a \in RealSteps : (Clean(a) /\ ~Names(s, a)) => Clean(a)'
  BY <1>1, <1>3, <1>4, Appended
<1>6. \A a \in RealSteps : P!PlaceOf(a) # "none" /\ ~Stays(a)
  BY <1>1, ActionFacts DEF Stays
<1>7. ASSUME NEW a \in RealSteps, goal # P!PlaceOf(a)
      PROVE  (Left(a) => Left(a)') /\ (Going(a) => Going(a)')
  BY <1>1, <1>4, <1>5, <1>6, <1>7 DEF Left, Going
<1>8. ASSUME NEW a \in RealSteps, goal = P!PlaceOf(a), Going(a)
      PROVE  P!PlaceOf(a) \in visited' /\ (AtRest(a)' \/ Arrived(a)')
  <2>1. Stays(a)'
    BY <1>1, <1>8 DEF Going, Stays
  <2>2. \A b \in RealSteps \ {a} : ~Names(s, b)
    BY <1>4, <1>8, ActionFacts
  <2>3. ~HcpNames(a)' /\ \A i \in 1..Len(news) : ~Names(news'[i], a)
    BY <1>1, <1>5, <1>8 DEF Going, Clean, HcpNames
  <2>4. CASE news = <<>>
    <3>1. hcpText' = "Moving" /\ hcpMoving' = TRUE
      BY <1>1, <2>4 DEF MovesLast
    <3>2. ASSUME NEW b \in RealSteps \ {a} PROVE Clean(b)'
      <4>1. ~HcpNames(b)'
        BY <3>1, ActionFacts DEF HcpNames, TextNames, CoverNames
      <4>2. \A i \in 1..Len(news') : news'[i] = s
        BY <1>3, <2>4
      <4> QED BY <2>2, <4>1, <4>2 DEF Clean
    <3> QED BY <1>1, <1>8, <2>1, <3>2 DEF AtRest, Only
  <2>5. CASE news # <<>>
    <3>1. Len(news) \in 1..Len(news) /\ Len(news') > 1 /\ Len(news') - 1 = Len(news)
      BY <1>5, <2>5 DEF Carried
    <3>2. news'[Len(news)].text = "Moving" /\ news'[Len(news)].moving = TRUE
      BY <1>1, <1>5, <2>5, <3>1 DEF MovesLast
    <3>3. \A i \in 1..Len(news') : \A b \in RealSteps \ {a} : i = Len(news') => ~Names(news'[i], b)
      BY <1>5, <2>2
    <3> QED BY <1>1, <1>8, <2>1, <2>3, <3>1, <3>2, <3>3 DEF Arrived
  <2> QED BY <2>4, <2>5
<1>9. Keeps
  <2> SUFFICES ASSUME NEW a \in RealSteps
               PROVE  (Left(a) => Left(a)') /\ (AtRest(a) => AtRest(a)') /\ (Awaits(a) => Awaits(a)')
    BY DEF Keeps
  <2>1. ~AtRest(a) /\ ~Arrived(a)
    BY <1>6 DEF AtRest, Arrived
  <2>2. CASE goal # P!PlaceOf(a)
    BY <1>7, <2>1, <2>2 DEF Awaits
  <2>3. CASE goal = P!PlaceOf(a)
    <3>1. ~Left(a)
      BY <2>3 DEF Left
    <3> QED BY <1>8, <2>1, <2>3, <3>1 DEF Awaits
  <2> QED BY <2>2, <2>3
<1> QED BY <1>1, <1>2, <1>5, <1>9 DEF Carried, MovesLast, Before

\* The next step is scheduled: the first, the one behind a step that was reached, the one
\* behind a vent.
LEMMA Scheduled ==
    ASSUME VentsApart, Linked, Before, Ahead, Awaited, NEW d, P!Advance(d),
           scheduled = "none",
           UNCHANGED <<place, goal, news, hcpText, hcpMoving, hcpPos, flight, visited, plans,
                       phase, dry>>,
           phase \notin {"log", "worker"},
           \/ index = 0
           \/ waiting # "none" /\ P!Reached
    PROVE  Linked' /\ Before' /\ Ahead' /\ Awaited'
<1>1. waiting' = "none"
  BY DEF P!Advance
<1>2. CASE index = Len(Steps)
  <2>1. UNCHANGED <<index, scheduled>> /\ index > 0
    BY <1>2, SequenceFacts DEF P!Advance, P!schedule
  <2> QED BY <1>1, <2>1 DEF Linked, Before, Ahead, Awaited
<1>3. CASE index # Len(Steps)
  <2>1. /\ index' = index + 1 /\ index \in Nat /\ index' \in 1..Len(Steps)
        /\ scheduled' = Steps[index']
    BY <1>3, SequenceFacts DEF P!Advance, P!Schedule, Linked
  <2>2. Linked' /\ Before' /\ Awaited'
    BY <1>1, <2>1 DEF Linked, Before, Awaited
  <2>3. PICK n \in Nat : n = index
    BY <2>1
  <2>4. ASSUME NEW k \in 1..Len(Steps), Coming(n + 1, k)
        PROVE  Left(Steps[k]) \/ (k = n + 1 /\ AtRest(Steps[k]))
    <3>1. k >= n + 1 /\ Steps[k] \in RealSteps /\ \A j \in (n + 1)..(k - 1) : Steps[j] = "vent"
      BY <2>4, SequenceFacts DEF Coming, RealSteps
    <3>2. CASE n = 0
      <4>1. k = 1
        <5>1. k > 1 => 1 \in (n + 1)..(k - 1)
          BY <3>2
        <5> QED BY <3>1, <5>1 DEF VentsApart
      <4>2. goal = "none" /\ (\A i \in 1..Len(flight) : flight[i] = "stop")
            /\ \A a \in RealSteps : place = P!PlaceOf(a) \/ Clean(a)
        BY <2>3, <3>2 DEF Before
      <4>3. PICK a \in RealSteps : a = Steps[k]
        BY <3>1
      <4>4. a # "stop" /\ P!PlaceOf(a) # "none"
        BY ActionFacts DEF RealSteps, P!Actions
      <4>5. CASE place = P!PlaceOf(a)
        <5>1. \A b \in RealSteps \ {a} : place # P!PlaceOf(b)
          BY <4>5, ActionFacts
        <5> QED BY <3>2, <4>1, <4>2, <4>3, <4>5, <5>1 DEF AtRest, Stays, Only
      <4>6. CASE place # P!PlaceOf(a)
        BY <4>2, <4>3, <4>4, <4>6 DEF Left
      <4> QED BY <4>5, <4>6
    <3>3. CASE n > 0 /\ Steps[n] = "vent"
      <4>1. waiting = "Venting"
        BY <2>3, <3>3, ActionFacts DEF Linked, P!Actions, P!TargetOf
      <4>2. Coming(n, k)
        <5>1. \A j \in n..(k - 1) : j = n \/ j \in (n + 1)..(k - 1)
          BY <3>1
        <5> QED BY <3>1, <3>3, <5>1 DEF Coming, RealSteps
      <4>3. k # n
        BY <3>1
      <4> QED BY <2>3, <4>1, <4>2, <4>3 DEF Ahead
    <3>4. CASE n > 0 /\ Steps[n] # "vent"
      <4>1. n \in 1..Len(Steps) /\ Steps[n] \in RealSteps
        BY <2>1, <2>3, <3>4, SequenceFacts DEF Linked, RealSteps
      <4>2. PICK a \in RealSteps : a = Steps[n]
        BY <4>1
      <4>3. waiting = P!TargetOf(a) /\ waiting \in {"Open", "Closed", "Position"} /\ P!Reached
        BY <2>3, <3>4, <4>2, ActionFacts DEF Linked
      <4>4. Awaits(a)
        BY <2>3, <4>1, <4>2, <4>3 DEF Awaited
      <4>5. HcpNames(a)
        BY <2>3, <4>2, <4>3 DEF P!Reached, HcpNames, TextNames, CoverNames
      <4>6. AtRest(a)
        BY <4>4, <4>5 DEF Awaits, Going, Arrived, Clean
      <4>7. k > n + 1 => Steps[k] # a
        BY <2>3, <3>1, <3>4, <4>1, <4>2 DEF VentsApart
      <4>8. PICK b \in RealSteps : b = Steps[k]
        BY <3>1
      <4>9. CASE b = a
        <5>1. k = n + 1
          BY <3>1, <4>7, <4>8, <4>9
        <5> QED BY <4>6, <4>8, <4>9, <5>1
      <4>10. CASE b # a
        <5>1. P!PlaceOf(b) # P!PlaceOf(a) /\ P!PlaceOf(b) # "none" /\ b # "stop"
          BY <4>10, ActionFacts DEF RealSteps, P!Actions
        <5>2. Left(b)
          BY <4>6, <4>10, <5>1 DEF AtRest, Stays, Only, Left
        <5> QED BY <4>8, <5>2
      <4> QED BY <4>9, <4>10
    <3> QED BY <3>2, <3>3, <3>4
  <2>5. \A a : Left(a)' = Left(a) /\ AtRest(a)' = AtRest(a)
    BY DEF Left, AtRest, Stays, Only, Clean, HcpNames
  <2>6. Ahead'
    BY <2>1, <2>3, <2>4, <2>5 DEF Ahead, Coming
  <2> QED BY <2>2, <2>6
<1> QED BY <1>2, <1>3

\* What is due is handed over, and waited for.
LEMMA Handed ==
    ASSUME Carried, Linked, Ahead, Awaited, P!DrawTick, dry = FALSE
    PROVE  Carried' /\ Linked' /\ (Before => Before') /\ Ahead' /\ Awaited'
<1>1. /\ UNCHANGED <<place, goal, news, half, index, phase, dry>> /\ pc' = "wait" /\ phase = "ui"
  BY DEF P!DrawTick, P!main, P!door, P!reports
<1>2. CASE ~(scheduled # "none" /\ left = 0)
  <2>1. UNCHANGED <<scheduled, plans, hcpText, hcpMoving, hcpPos, flight, visited, waiting>>
    BY <1>2 DEF P!DrawTick, P!hcp
  <2>2. Keeps /\ Carried'
    BY <1>1, <2>1, Undisturbed
  <2> QED BY <1>1, <2>1, <2>2, StepsKept DEF Linked, Before, Clean, HcpNames
<1>3. CASE scheduled # "none" /\ left = 0
  <2>1. /\ scheduled' = "none" /\ flight' = Append(flight, scheduled)
        /\ visited' = (IF goal = "none" THEN {place} ELSE {})
        /\ UNCHANGED <<plans, hcpText, hcpMoving, hcpPos>>
        /\ waiting' = P!TargetOf(Steps[index])
    BY <1>3 DEF P!DrawTick, P!Submit, P!WaitsFor, P!hcp
  <2>2. PICK n \in 1..Len(Steps) : n = index
    BY <1>3, SequenceFacts DEF Linked
  <2>3. PICK a \in P!Actions : a = Steps[n] /\ a = scheduled
    BY <1>3, <2>2, SequenceFacts DEF Linked
  <2>4. /\ Len(flight) \in Nat /\ flight' \in Seq(P!Actions \cup {"stop"})
        /\ Len(flight') = Len(flight) + 1 /\ flight'[Len(flight) + 1] = a
        /\ \A i \in 1..Len(flight') : /\ i <= Len(flight) => i \in 1..Len(flight) /\ flight'[i] = flight[i]
                                      /\ i > Len(flight) => flight'[i] = a /\ i = Len(flight')
    BY <2>1, <2>3 DEF Carried
  <2>5. Carried' /\ Linked' /\ (Before => Before')
    BY <1>1, <1>3, <2>1, <2>2, <2>4, SequenceFacts DEF Carried, Linked, Before
  <2>6. \A b \in RealSteps : Clean(b)' = Clean(b) /\ Only(b)' = Only(b)
    BY <1>1, <2>1 DEF Clean, HcpNames, Only
  <2>7. CASE a = "vent"
    <3>1. waiting' = "Venting"
      BY <2>1, <2>2, <2>3, <2>7, ActionFacts
    <3>2. ASSUME NEW k \in 1..Len(Steps), Coming(n, k) PROVE Left(Steps[k])'
      <4>1. PICK b \in RealSteps : b = Steps[k]
        BY <3>2, SequenceFacts DEF Coming, RealSteps
      <4>2. b # a /\ k # n
        BY <2>3, <2>7, <3>2, <4>1 DEF Coming, RealSteps
      <4>3. Left(b)
        BY <1>3, <2>2, <3>2, <4>1, <4>2 DEF Ahead
      <4>4. Left(b)'
        BY <1>1, <2>4, <2>6, <4>2, <4>3 DEF Left
      <4> QED BY <4>1, <4>4
    <3>3. Ahead'
      BY <1>1, <2>2, <3>2 DEF Ahead, Coming
    <3> QED BY <2>5, <3>1, <3>3 DEF Awaited
  <2>8. CASE a # "vent"
    <3>1. a \in RealSteps /\ waiting' = P!TargetOf(a) /\ waiting' # "Venting"
      BY <2>1, <2>2, <2>3, <2>8, ActionFacts DEF RealSteps
    <3>2. Coming(n, n)
      BY <2>3, <2>8 DEF Coming
    <3>3. Left(a) \/ AtRest(a)
      BY <1>3, <2>2, <2>3, <3>2 DEF Ahead
    <3>4. Left(a) => Going(a)'
      <4> SUFFICES ASSUME Left(a) PROVE Going(a)'
        OBVIOUS
      <4>1. ASSUME NEW i \in 1..Len(flight'), NEW j \in 1..Len(flight'), i < j, flight'[i] = a
            PROVE  FALSE
        <5>1. i <= Len(flight)
          BY <2>4, <4>1
        <5> QED BY <2>4, <4>1, <5>1 DEF Left
      <4> QED BY <1>1, <2>6, <3>1, <4>1 DEF Left, Going
    <3>5. AtRest(a) => AtRest(a)' /\ P!PlaceOf(a) \in visited'
      BY <1>1, <2>1, <2>4, <2>6, <3>1 DEF AtRest, Stays
    <3>6. Awaits(a)'
      BY <3>1, <3>3, <3>4, <3>5 DEF Awaits
    <3>7. Awaited'
      BY <1>1, <2>2, <2>3, <3>6 DEF Awaited
    <3> QED BY <2>1, <2>5, <3>1, <3>7 DEF Ahead
  <2> QED BY <2>7, <2>8
<1> QED BY <1>2, <1>3

\* Every step of the capture keeps all this, and leaves a step other than a vent when it
\* was reached.
LEMMA RealStep ==
    ASSUME VentsApart, RealInv, [P!Next]_phoneVars
    PROVE  /\ RealInv'
           /\ (index > 0 /\ ~dry /\ waiting # "none" /\ waiting # "Venting" /\ waiting' = "none")
                  => P!PlaceOf(Steps[index]) \in visited
<1>0. dry' = dry
  BY DEF P!Next, P!Unreachable, P!StartLog, P!StartWorker, P!Close, P!Space, P!Quit, P!DrawTick,
         P!DrawWait, P!DrawExit, P!Period, P!SendCover, P!Arrive, P!ReportText, P!ReportCover,
         P!FinishCover, P!FinishText, P!main, phoneVars
<1> SUFFICES ASSUME ~dry
             PROVE  /\ RealInv'
                    /\ (waiting # "none" /\ waiting # "Venting" /\ waiting' = "none")
                           => P!PlaceOf(Steps[index]) \in visited
  BY <1>0 DEF RealInv
<1>i. Carried /\ HalfHeard /\ MovesLast /\ Linked /\ Before /\ Ahead /\ Awaited /\ dry = FALSE
  BY DEF RealInv, Linked
<1>1. CASE P!SendCover
  <2>1. /\ UNCHANGED <<hcpText, hcpMoving, hcpPos, index, scheduled, waiting, visited, plans, dry, half, pc>>
        /\ phase' = phase
    BY <1>1, <1>i, IsSent
  <2>2. Keeps /\ Carried' /\ HalfHeard' /\ MovesLast' /\ Before'
    BY <1>1, <1>i, SendKeeps
  <2>3. Ahead' /\ Awaited'
    BY <1>i, <2>1, <2>2, StepsKept
  <2> QED BY <1>i, <2>1, <2>2, <2>3 DEF RealInv, Linked
<1>2. CASE P!Arrive
  <2>1. /\ UNCHANGED <<index, scheduled, waiting, plans, phase, pc, dry>>
        /\ Keeps /\ Carried' /\ HalfHeard' /\ MovesLast' /\ Before'
    BY <1>2, <1>i, ArriveKeeps
  <2>2. Ahead' /\ Awaited'
    BY <1>i, <2>1, StepsKept
  <2> QED BY <1>i, <2>1, <2>2 DEF RealInv, Linked
<1>3. CASE P!ReportText \/ P!ReportCover
  <2>1. UNCHANGED <<place, goal, flight, index, scheduled, waiting, visited, plans, phase, pc, dry>>
    BY <1>3, <1>i, IsHeard
  <2>2. Keeps /\ Carried' /\ HalfHeard' /\ MovesLast' /\ Before'
    BY <1>3, <1>i, ReportKeeps
  <2>3. Ahead' /\ Awaited'
    BY <1>i, <2>1, <2>2, StepsKept
  <2> QED BY <1>i, <2>1, <2>2, <2>3 DEF RealInv, Linked
<1>4. CASE P!StartWorker
  <2>1. /\ phase = "worker" /\ phase' \in {"ui", "closing"} /\ P!Publish(place, goal)
        /\ UNCHANGED <<hcpText, hcpMoving, hcpPos, index, scheduled, waiting, visited, plans, dry,
                       flight, place, goal, pc>>
    BY <1>4, <1>i DEF P!StartWorker, P!hcp, P!ui, P!schedule, P!sequence, P!door, P!history
  <2>2. /\ index = 0 /\ goal = "none" /\ scheduled = "none" /\ waiting = "none"
        /\ \A a \in RealSteps : place = P!PlaceOf(a) \/ Clean(a)
    BY <1>i, <2>1 DEF Linked, Before
  <2>3. PICK p \in P!Places \cup {"between"} : p = place
    BY <1>i DEF Carried
  <2>4. half' = half /\ \E s \in P!Published(p, "none") : news' = Append(news, s)
    BY <2>1, <2>2, <2>3 DEF P!Publish
  <2>5. PICK s \in P!Published(p, "none") : news' = Append(news, s)
    BY <2>4
  <2>6. s \in Report /\ \A a \in RealSteps : p # P!PlaceOf(a) => ~Names(s, a)
    BY <2>5, PublishedFacts
  <2>7. /\ news' \in Seq(Report) /\ HalfHeard' /\ news' # <<>>
        /\ \A a \in RealSteps : (Clean(a) /\ ~Names(s, a)) => Clean(a)'
    BY <1>i, <2>1, <2>4, <2>5, <2>6, Appended
  <2>8. Before'
    BY <1>i, <2>1, <2>2, <2>3, <2>6, <2>7 DEF Before
  <2>9. Carried' /\ MovesLast'
    BY <1>i, <2>1, <2>2, <2>4, <2>7 DEF Carried, MovesLast
  <2>10. Linked' /\ Ahead' /\ Awaited'
    BY <1>i, <2>1, <2>2 DEF Linked, Ahead, Awaited
  <2> QED BY <2>1, <2>2, <2>7, <2>8, <2>9, <2>10 DEF RealInv
<1>5. CASE P!DrawTick
  <2>1. Carried' /\ Linked' /\ Before' /\ Ahead' /\ Awaited'
    BY <1>5, <1>i, Handed
  <2>2. UNCHANGED <<goal, news, half, hcpText, hcpMoving, hcpPos>>
    BY <1>5, <1>i DEF P!DrawTick, P!Submit, P!door, P!reports, P!hcp
  <2>3. waiting' # "none" \/ waiting' = waiting
    <3>1. CASE scheduled # "none" /\ left = 0
      <4>1. waiting' = P!TargetOf(Steps[index]) /\ index \in 1..Len(Steps)
        BY <1>5, <1>i, <3>1, SequenceFacts DEF P!DrawTick, P!WaitsFor, Linked
      <4> QED BY <4>1, SequenceFacts
    <3>2. CASE ~(scheduled # "none" /\ left = 0)
      BY <1>5, <3>2 DEF P!DrawTick
    <3> QED BY <3>1, <3>2
  <2> QED BY <1>i, <2>1, <2>2, <2>3 DEF RealInv, HalfHeard, MovesLast
<1>6. CASE P!DrawWait
  <2>1. /\ UNCHANGED <<place, goal, news, half, hcpText, hcpMoving, hcpPos, flight, visited, plans,
                       phase, dry>>
        /\ pc = "wait" /\ pc' = "exit"
    BY <1>6 DEF P!DrawWait, P!main, P!door, P!reports, P!hcp, P!history
  <2>2. phase \notin {"log", "worker"} /\ Carried' /\ HalfHeard' /\ MovesLast'
    BY <1>i, <2>1 DEF Linked, Carried, HalfHeard, MovesLast
  <2>3. CASE waiting # "none" /\ P!Reached /\ P!Advance(SettleDelay)
    <3>1. scheduled = "none"
      BY <1>i, <2>3 DEF Linked
    <3>2. Linked' /\ Before' /\ Ahead' /\ Awaited'
      BY <1>i, <2>1, <2>2, <2>3, <3>1, Scheduled
    <3>3. waiting # "Venting" => P!PlaceOf(Steps[index]) \in visited
      <4> SUFFICES ASSUME waiting # "Venting" PROVE P!PlaceOf(Steps[index]) \in visited
        OBVIOUS
      <4>1. index \in 1..Len(Steps) /\ waiting = P!TargetOf(Steps[index])
        BY <1>i, <2>3, SequenceFacts DEF Linked
      <4>2. PICK a \in RealSteps : a = Steps[index]
        BY <4>1, SequenceFacts, ActionFacts DEF RealSteps
      <4>3. Awaits(a)
        BY <1>i, <2>3, <4>1, <4>2 DEF Awaited
      <4>4. HcpNames(a)
        BY <2>3, <4>1, <4>2 DEF P!Reached, HcpNames, TextNames, CoverNames
      <4> QED BY <4>2, <4>3, <4>4 DEF Awaits, Going, Clean
    <3> QED BY <1>i, <2>1, <2>2, <3>2, <3>3 DEF RealInv
  <2>4. CASE UNCHANGED <<P!schedule, P!sequence>>
    <3>1. UNCHANGED <<index, scheduled, waiting>>
      BY <2>4 DEF P!schedule, P!sequence
    <3>2. Keeps
      BY <1>i, <2>1, Undisturbed
    <3>3. Ahead' /\ Awaited'
      BY <1>i, <3>1, <3>2, StepsKept
    <3>4. Linked' /\ Before'
      BY <1>i, <2>1, <2>2, <3>1 DEF Linked, Before, Clean, HcpNames
    <3> QED BY <1>i, <2>1, <2>2, <3>1, <3>3, <3>4 DEF RealInv
  <2> QED BY <1>6, <2>3, <2>4 DEF P!DrawWait
<1>7. CASE P!Space
  <2>1. /\ UNCHANGED <<place, goal, news, half, hcpText, hcpMoving, hcpPos, flight, visited, plans,
                       phase, dry, pc>>
        /\ phase = "ui"
    BY <1>7 DEF P!Space, P!main, P!door, P!reports, P!hcp, P!ui
  <2>2. Carried' /\ HalfHeard' /\ MovesLast'
    BY <1>i, <2>1 DEF Carried, HalfHeard, MovesLast
  <2>3. CASE scheduled = "none" /\ index = 0 /\ ~done /\ P!Advance(InitialDelay)
    <3>3. phase \notin {"log", "worker"}
      BY <2>1
    <3>1. Linked' /\ Before' /\ Ahead' /\ Awaited'
      BY <1>i, <2>1, <2>3, <3>3, Scheduled
    <3>2. waiting = "none"
      BY <1>i, <2>3 DEF Linked
    <3> QED BY <1>i, <2>1, <2>2, <3>1, <3>2 DEF RealInv
  <2>4. CASE UNCHANGED P!sequence /\ scheduled' \in {scheduled, "none"}
    <3>1. UNCHANGED <<index, waiting>>
      BY <2>4 DEF P!sequence
    <3>2. Keeps
      BY <1>i, <2>1, Undisturbed
    <3>3. Ahead' /\ Awaited'
      BY <1>i, <2>4, <3>1, <3>2, StepsKept
    <3>4. Linked' /\ Before'
      BY <1>i, <2>1, <2>4, <3>1 DEF Linked, Before, Clean, HcpNames
    <3> QED BY <1>i, <2>1, <2>2, <3>1, <3>3, <3>4 DEF RealInv
  <2> QED BY <1>7, <2>3, <2>4 DEF P!Space, P!Cancel, P!schedule
<1>10. CASE P!DrawExit
  <2>1. /\ UNCHANGED <<place, goal, news, half, hcpText, hcpMoving, hcpPos, visited, dry, index, waiting,
                       scheduled, plans, flight>>
        /\ pc = "exit" /\ phase' \in {phase, "closing"}
    BY <1>10 DEF P!DrawExit, P!door, P!reports, P!hcp, P!schedule, P!sequence, P!history
  <2>2. phase' \notin {"log", "worker"}
    BY <1>i, <2>1 DEF Linked
  <2>3. Keeps /\ Carried'
    BY <1>i, <2>1, Undisturbed
  <2>4. Ahead' /\ Awaited'
    BY <1>i, <2>1, <2>3, StepsKept
  <2> QED BY <1>i, <2>1, <2>2, <2>3, <2>4
          DEF RealInv, Linked, HalfHeard, MovesLast, Before, Clean, HcpNames
<1>8. CASE \/ P!Quit \/ P!Unreachable \/ P!StartLog \/ P!Close \/ P!Period
           \/ UNCHANGED phoneVars
  <2>1. /\ UNCHANGED <<place, goal, news, half, hcpText, hcpMoving, hcpPos, visited, dry, index, waiting>>
        /\ scheduled' \in {scheduled, "none"} /\ plans' \in {plans, {}}
        /\ (flight' = flight) \/ (flight' = Append(flight, "stop"))
        /\ phase' \in {"log", "worker"} => phase \in {"log", "worker"} /\ pc' = pc
    BY <1>8 DEF P!Quit, P!Unreachable, P!StartLog, P!Close, P!Period, phoneVars,
                P!Cancel, P!main, P!door, P!reports, P!hcp, P!ui, P!schedule, P!sequence, P!history
  <2>2. Keeps /\ Carried'
    BY <1>i, <2>1, Undisturbed
  <2>3. Ahead' /\ Awaited'
    BY <1>i, <2>1, <2>2, StepsKept
  <2>4. HalfHeard' /\ MovesLast'
    BY <1>i, <2>1 DEF HalfHeard, MovesLast
  <2>5. Before'
    <3>1. (\A i \in 1..Len(flight) : flight[i] = "stop") => \A i \in 1..Len(flight') : flight'[i] = "stop"
      BY <1>i, <2>1 DEF Carried
    <3> QED BY <1>i, <2>1, <3>1 DEF Before, Clean, HcpNames
  <2>6. Linked'
    BY <1>i, <2>1 DEF Linked
  <2> QED BY <1>i, <2>1, <2>2, <2>3, <2>4, <2>5, <2>6, SMTT(60) DEF RealInv
<1>9. CASE P!FinishCover \/ P!FinishText
  BY <1>9, <1>i DEF P!FinishCover, P!FinishText, Linked
<1> QED BY <1>1, <1>2, <1>3, <1>4, <1>5, <1>6, <1>7, <1>8, <1>9, <1>10 DEF P!Next

\* A step other than a vent is left for the next only when the door has been at its target
\* since the command was handed over, for every sequence in which vents lie between
\* different steps, however late the reports of the one connection come, which of text and
\* cover comes first, and whichever commands fail (service_sequence_wait_,
\* update_hcp_state).
THEOREM StepsHaveHappened ==
    ASSUME VentsApart PROVE SessionsSpec => StepsAreReal
<1>1. SessionsInit => RealInv
  <2> SUFFICES ASSUME P!Init, ~dry PROVE RealInv
    BY DEF SessionsInit, RealInv
  <2>1. /\ news = <<>> /\ half = "none" /\ flight = <<>> /\ plans = {} /\ goal = "none" /\ index = 0
        /\ scheduled = "none" /\ waiting = "none" /\ hcpPos = "none"
        /\ place \in {"closed", "open"} /\ phase = "log" /\ pc = "idle" /\ dry = FALSE
    BY DEF P!Init
  <2>2. Carried /\ HalfHeard /\ MovesLast
    BY <2>1 DEF Carried, HalfHeard, MovesLast, P!Places
  <2>3. Linked /\ Ahead /\ Awaited
    BY <2>1, SequenceFacts DEF Linked, Ahead, Awaited
  <2>4. \A a \in RealSteps : Clean(a)
    <3>1. hcpText \notin {"Open", "Closed", "Position"}
      BY DEF P!Init
    <3>2. \A a \in RealSteps : ~HcpNames(a)
      BY <2>1, <3>1, ActionFacts DEF HcpNames, TextNames, CoverNames
    <3> HIDE DEF P!Init
    <3> QED BY <2>1, <3>2 DEF Clean
  <2>5. Before
    BY <2>1, <2>4 DEF Before
  <2> QED BY <2>2, <2>3, <2>5 DEF RealInv
<1>2. [SessionsNext]_sessionVars => [P!Next]_phoneVars
  BY DEF SessionsNext, Phone, Wizard, Timing, sessionVars
<1>3. RealInv /\ [SessionsNext]_sessionVars => RealInv'
  BY <1>2, RealStep
<1>4. RealInv /\ [SessionsNext]_sessionVars =>
          [(index > 0 /\ ~dry /\ waiting # "none" /\ waiting # "Venting" /\ waiting' = "none")
               => P!PlaceOf(Steps[index]) \in visited]_(P!vars)
  BY <1>2, RealStep
<1>5. SessionsSpec => SessionsInit /\ [][SessionsNext]_sessionVars
  BY PTL DEF SessionsSpec
<1> QED BY <1>1, <1>3, <1>4, <1>5, PTL DEF StepsAreReal, P!StepsAreReal

-----------------------------------------------------------------------------
(* The timing calibration. *)

\* A sequence of full travels: no end is asked for twice running.
Alternates == \A n \in 1..(Len(Sequence) - 1) : Sequence[n] # Sequence[n + 1]

\* What was recorded after n steps; the first may not have had anywhere to go.
RecordedTo(n) == tSeen = SubSeq(Sequence, 1, n) \/ tSeen = SubSeq(Sequence, 2, n)
Rests == T!Ends \cup {"between"}
\* Where the door and the reports of it are in a step: it has not left, it is on its
\* way, it is there.
Still == /\ tReports = <<>> /\ tText = tPlace /\ tPlace \in Rests
         /\ tI > 1 => tPlace = Sequence[tI - 1]
OnItsWay == /\ tPlace = T!Towards[Sequence[tI]]
            /\ \/ tReports = <<tPlace>> /\ tText # Sequence[tI]
               \/ tReports = <<>> /\ tText = tPlace
There == /\ tPlace = Sequence[tI]
         /\ \/ tReports = <<T!Towards[tPlace], tPlace>> /\ tText # tPlace
            \/ tReports = <<tPlace>> /\ tText = T!Towards[tPlace]
            \/ tReports = <<>> /\ tText = tPlace
\* The inductive invariant: a report that names the end of this step cannot be one of
\* a step before.
TimingInv ==
    /\ tI \in 1..Len(Sequence)
    /\ tPc \in {"clear", "start", "connect"} =>
           tI = 1 /\ tReports = <<>> /\ tSeen = <<>> /\ tPlace \in Rests
    /\ tPc \in {"connect", "command", "wait"} => tRecording = TRUE
    /\ tPc = "command" => Still /\ RecordedTo(tI - 1)
    /\ tPc = "wait" => \/ Still /\ RecordedTo(tI - 1)
                       \/ OnItsWay /\ RecordedTo(tI - 1)
                       \/ There /\ RecordedTo(tI)
    /\ tPc \in {"stop", "json", "bin", "analyse", "done"} =>
           tPlace \in T!Ends /\ RecordedTo(Len(Sequence))

\* One more step recorded.
LEMMA Extended ==
    ASSUME NEW S, NEW s \in Seq(S), NEW n \in 0..(Len(s) - 1), NEW m \in 1..(n + 1)
    PROVE  Append(SubSeq(s, m, n), s[n + 1]) = SubSeq(s, m, n + 1)
<1>1. Len(s) \in Nat /\ \A j \in 1..Len(s) : s[j] \in S
  OBVIOUS
<1>2. /\ SubSeq(s, m, n) \in Seq(S)
      /\ Len(SubSeq(s, m, n)) = n - m + 1
      /\ \A j \in 1..(n - m + 1) : SubSeq(s, m, n)[j] = s[m + j - 1]
  BY <1>1, SubSeqProperties
<1>3. /\ SubSeq(s, m, n + 1) \in Seq(S)
      /\ Len(SubSeq(s, m, n + 1)) = n - m + 2
      /\ \A j \in 1..(n - m + 2) : SubSeq(s, m, n + 1)[j] = s[m + j - 1]
  BY <1>1, SubSeqProperties
<1>4. PICK a \in Seq(S) : a = SubSeq(s, m, n)
  BY <1>2
<1>5. PICK b \in Seq(S) : b = SubSeq(s, m, n + 1)
  BY <1>3
<1>6. PICK e \in S : e = s[n + 1]
  BY <1>1
<1>7. Append(a, e) \in Seq(S) /\ Len(Append(a, e)) = n - m + 2
  BY <1>2, <1>4
<1>8. \A j \in 1..(n - m + 2) : Append(a, e)[j] = b[j]
  BY <1>2, <1>3, <1>4, <1>5, <1>6
<1>9. Append(a, e) = b
  BY <1>3, <1>5, <1>7, <1>8, SeqEqual
<1> QED BY <1>4, <1>5, <1>6, <1>9

\* A report behind another one.
LEMMA PairAppended ==
    ASSUME NEW S, NEW w \in S, NEW e \in S PROVE Append(<<w>>, e) = <<w, e>>
<1>1. <<w>> \in Seq(S)
  OBVIOUS
<1>2. Len(<<w>>) = 1
  OBVIOUS
<1>3. <<w>>[1] = w
  OBVIOUS
<1>4. <<w, e>> \in Seq(S)
  OBVIOUS
<1>5. Len(<<w, e>>) = 2
  OBVIOUS
<1>6. <<w, e>>[1] = w /\ <<w, e>>[2] = e
  OBVIOUS
<1>7. PICK a \in Seq(S) : a = <<w>> /\ Len(a) = 1 /\ a[1] = w
  BY <1>1, <1>2, <1>3, Zenon
<1>8. PICK b \in Seq(S) : b = <<w, e>> /\ Len(b) = 2 /\ b[1] = w /\ b[2] = e
  BY <1>4, <1>5, <1>6, Zenon
<1>9. /\ Append(a, e) \in Seq(S) /\ Len(Append(a, e)) = 2
      /\ Append(a, e)[1] = w /\ Append(a, e)[2] = e
  BY <1>7, AppendProperties
<1>10. \A j \in 1..2 : j = 1 \/ j = 2
  OBVIOUS
<1>11. \A j \in 1..Len(b) : Append(a, e)[j] = b[j]
  BY <1>8, <1>9, <1>10
<1>12. Append(a, e) = b
  BY <1>8, <1>9, <1>11, SeqEqual
<1> QED BY <1>7, <1>8, <1>12

\* The steps of the sequence, and what is recorded of them.
LEMMA StepFacts ==
    /\ Sequence \in Seq({"open", "closed"}) /\ Len(Sequence) \in Nat /\ 1 <= Len(Sequence)
    /\ \A n \in 1..Len(Sequence) : Sequence[n] \in T!Ends
    /\ SubSeq(Sequence, 1, 0) = <<>> /\ SubSeq(Sequence, 2, 0) = <<>>
    /\ SubSeq(Sequence, 2, 1) = <<>>
<1>1. Sequence \in Seq({"open", "closed"}) /\ Sequence # <<>>
  BY SessionConstants DEF T!CalibrationConstants
<1>2. Len(Sequence) \in Nat /\ 1 <= Len(Sequence)
  BY <1>1
<1>3. \A n \in 1..Len(Sequence) : Sequence[n] \in T!Ends
  BY <1>1 DEF T!Ends
<1> QED BY <1>1, <1>2, <1>3, SubSeqEmpty

\* Getting to the end of the step while recording writes it down.
LEMMA RecordedStep ==
    ASSUME TimingInv, RecordedTo(tI - 1), tSeen' = Append(tSeen, Sequence[tI]), UNCHANGED tI
    PROVE  RecordedTo(tI)'
<1>1. PICK n \in Int : n = tI - 1 /\ n \in 0..(Len(Sequence) - 1)
  BY StepFacts DEF TimingInv
<1>2. CASE tSeen = SubSeq(Sequence, 1, n)
  <2>1. 1 \in 1..(n + 1)
    BY <1>1
  <2>2. Append(SubSeq(Sequence, 1, n), Sequence[n + 1]) = SubSeq(Sequence, 1, n + 1)
    BY <1>1, <2>1, StepFacts, Extended
  <2> QED BY <1>1, <1>2, <2>2 DEF RecordedTo, TimingInv
<1>3. CASE tSeen = SubSeq(Sequence, 2, n) /\ n > 0
  <2>1. 2 \in 1..(n + 1)
    BY <1>1, <1>3
  <2>2. Append(SubSeq(Sequence, 2, n), Sequence[n + 1]) = SubSeq(Sequence, 2, n + 1)
    BY <1>1, <2>1, StepFacts, Extended
  <2> QED BY <1>1, <1>3, <2>2 DEF RecordedTo, TimingInv
<1>4. CASE n = 0
  <2>1. tSeen = SubSeq(Sequence, 1, n)
    BY <1>1, <1>4, StepFacts DEF RecordedTo
  <2> QED BY <1>2, <2>1
<1>5. n > 0 \/ n = 0
  <2>1. tI \in Nat /\ tI >= 1
    BY StepFacts DEF TimingInv
  <2>2. n = tI - 1
    BY <1>1
  <2> QED BY <2>1, <2>2
<1> QED BY <1>1, <1>2, <1>3, <1>4, <1>5 DEF RecordedTo

\* Every step of the calibration keeps its invariant.
LEMMA TimingStep == Alternates /\ TimingInv /\ [T!Next]_timingVars => TimingInv'
<1> SUFFICES ASSUME Alternates, TimingInv, [T!Next]_timingVars PROVE TimingInv'
  OBVIOUS
<1>e. /\ tI \in 1..Len(Sequence) /\ tI \in Nat /\ Len(Sequence) \in Nat
      /\ Sequence[tI] \in T!Ends /\ Sequence[tI] # T!Towards[Sequence[tI]]
      /\ T!Towards[Sequence[tI]] \notin Rests
  BY StepFacts DEF TimingInv, T!Ends, T!Towards, Rests
<1>1. CASE T!Request
  <2>1. /\ tPc \in T!Requests /\ UNCHANGED <<tI, tPlace, tReports, tSeen, tText>>
        /\ tPc' \in {tPc, "failed", T!After[tPc]}
        /\ (tPc' = "connect" => tRecording' = TRUE)
    <3>1. tPc \in T!Requests /\ UNCHANGED <<tI, tPlace, tReports, tSeen, tText>>
      BY <1>1 DEF T!Request, T!Door, T!Downloads
    <3>2. /\ T!After["clear"] = "start" /\ T!After["start"] = "connect" /\ T!After["stop"] = "json"
          /\ tPc \in {"clear", "start", "stop"}
      BY <3>1 DEF T!After, T!Requests
    <3>3. CASE T!Served(tPc) /\ tPc' = T!After[tPc]
      BY <3>1, <3>2, <3>3 DEF T!Served
    <3>4. CASE tPc' = tPc
      BY <3>1, <3>2, <3>4
    <3>5. CASE tPc' = IF T!Required(tPc) THEN "failed" ELSE T!After[tPc]
      BY <3>1, <3>2, <3>5 DEF T!Required
    <3> QED BY <1>1, <3>3, <3>4, <3>5 DEF T!Request
  <2> QED BY <1>e, <2>1 DEF TimingInv, RecordedTo, T!Requests, T!After
<1>2. CASE T!Connect
  <2>1. RecordedTo(tI - 1) <=> tSeen = <<>>
    BY <1>2, <1>e, StepFacts DEF T!Connect, TimingInv, RecordedTo
  <2> QED BY <1>2, <1>e, <2>1 DEF T!Connect, TimingInv, RecordedTo, Still, T!Door, T!Downloads
<1>3. CASE T!Command
  <2>1. /\ tPc = "command" /\ tPc' = "wait" /\ Still /\ RecordedTo(tI - 1) /\ tRecording = TRUE
        /\ UNCHANGED <<tI, tText, tSeen, tRecording>>
    BY <1>3 DEF T!Command, TimingInv, T!Downloads
  <2>2. RecordedTo(tI - 1)'
    BY <2>1 DEF RecordedTo
  <2>3. Still' \/ OnItsWay'
    <3>1. CASE UNCHANGED <<tPlace, tReports>>
      BY <2>1, <3>1 DEF Still
    <3>2. CASE tPlace # Sequence[tI] /\ tPlace' = T!Towards[Sequence[tI]]
               /\ tReports' = Append(tReports, tPlace')
      <4>1. tReports' = <<tPlace'>> /\ tText' # Sequence[tI]
        BY <2>1, <3>2 DEF Still
      <4> QED BY <2>1, <3>2, <4>1 DEF OnItsWay
    <3> QED BY <1>3, <3>1, <3>2 DEF T!Command, T!Target
  <2> QED BY <1>e, <2>1, <2>2, <2>3 DEF TimingInv
<1>4. CASE T!Wait
  <2>1. /\ tPc = "wait" /\ tText = Sequence[tI]
        /\ UNCHANGED <<tPlace, tReports, tSeen, tText, tRecording>>
        /\ \/ tI < Len(Sequence) /\ tI' = tI + 1 /\ tPc' = "command"
           \/ ~(tI < Len(Sequence)) /\ tI' = tI /\ tPc' = "stop"
    BY <1>4 DEF T!Wait, T!WaitPassed, T!Target, T!Door, T!Downloads
  <2>2. tPlace = Sequence[tI] /\ tReports = <<>> /\ RecordedTo(tI)
    <3>1. CASE Still /\ RecordedTo(tI - 1)
      <4>1. tPlace = Sequence[tI] /\ tReports = <<>>
        BY <2>1, <3>1 DEF Still
      <4>2. tI = 1
        <5>1. CASE tI > 1
          <6>1. tI - 1 \in 1..(Len(Sequence) - 1) /\ (tI - 1) + 1 = tI
            BY <1>e, <5>1
          <6>2. Sequence[tI - 1] # Sequence[tI]
            BY <6>1 DEF Alternates
          <6> QED BY <3>1, <4>1, <5>1, <6>2 DEF Still
        <5> QED BY <1>e, <5>1
      <4>3. RecordedTo(tI)
        BY <3>1, <4>2, StepFacts DEF RecordedTo
      <4> QED BY <4>1, <4>3
    <3>2. CASE OnItsWay
      BY <1>e, <2>1, <3>2 DEF OnItsWay
    <3>3. CASE There /\ RecordedTo(tI)
      BY <1>e, <2>1, <3>3 DEF There
    <3> QED BY <2>1, <3>1, <3>2, <3>3 DEF TimingInv
  <2>3. CASE tI < Len(Sequence) /\ tI' = tI + 1 /\ tPc' = "command"
    <3>1. tI' \in 1..Len(Sequence) /\ tI' - 1 = tI
      BY <1>e, <2>3
    <3>2. Still' /\ RecordedTo(tI - 1)'
      BY <1>e, <2>1, <2>2, <3>1 DEF Still, RecordedTo, Rests
    <3> QED BY <2>1, <2>3, <3>1, <3>2 DEF TimingInv
  <2>4. CASE ~(tI < Len(Sequence)) /\ tI' = tI /\ tPc' = "stop"
    <3>1. tI = Len(Sequence)
      BY <1>e, <2>4
    <3>2. RecordedTo(Len(Sequence))'
      BY <2>1, <2>2, <3>1 DEF RecordedTo
    <3> QED BY <1>e, <2>1, <2>2, <2>4, <3>2 DEF TimingInv
  <2> QED BY <2>1, <2>3, <2>4
<1>5. CASE T!WaitTimesOut
  BY <1>5, <1>e DEF T!WaitTimesOut, TimingInv
<1>6. CASE T!SaveJson \/ T!SaveBin \/ T!Analyse
  <2>1. /\ UNCHANGED <<tI, tPlace, tReports, tSeen, tRecording>>
        /\ tPc \in {"json", "bin", "analyse"} /\ tPc' \in {"json", "bin", "analyse", "done", "failed"}
    BY <1>6 DEF T!SaveJson, T!SaveBin, T!Analyse, T!Door
  <2> QED BY <1>e, <2>1 DEF TimingInv, RecordedTo
<1>7. CASE T!Arrive
  <2>1. PICK e \in T!Ends : /\ tPlace = T!Towards[e] /\ tPlace' = e /\ tReports' = Append(tReports, e)
                            /\ tSeen' = (IF tRecording THEN Append(tSeen, e) ELSE tSeen)
                            /\ UNCHANGED <<tPc, tI, tRecording, tText>>
    BY <1>7 DEF T!Arrive, T!Downloads
  <2>2. tPlace \notin Rests
    BY <2>1 DEF T!Ends, T!Towards, Rests
  <2>3. tPc \notin {"clear", "start", "connect", "command", "stop", "json", "bin", "analyse", "done"}
    BY <2>2 DEF TimingInv, Still, Rests
  <2>4. CASE tPc = "wait"
    <3>1. OnItsWay /\ RecordedTo(tI - 1) /\ tRecording = TRUE
      BY <1>e, <2>2, <2>4 DEF TimingInv, Still, There, Rests
    <3>2. e = Sequence[tI]
      BY <1>e, <2>1, <3>1 DEF OnItsWay, T!Ends, T!Towards
    <3>3. RecordedTo(tI)'
      BY <2>1, <3>1, <3>2, RecordedStep
    <3>4. There'
      <4>0. tPlace' = Sequence[tI'] /\ tPlace = T!Towards[tPlace'] /\ tText' = tText
        BY <2>1, <3>2
      <4>1. CASE tReports = <<tPlace>> /\ tText # Sequence[tI]
        <5>1. PICK w : w = tPlace
          OBVIOUS
        <5>2. PICK r : r = tReports
          OBVIOUS
        <5>3. r = <<w>>
          BY <4>1, <5>1, <5>2
        <5>6. w \in {w, e} /\ e \in {w, e}
          OBVIOUS
        <5>5. Append(<<w>>, e) = <<w, e>>
          BY <5>6, PairAppended
        <5>4. tReports' = <<T!Towards[tPlace'], tPlace'>>
          BY <2>1, <4>0, <5>1, <5>2, <5>3, <5>5
        <5> QED BY <2>1, <3>2, <4>0, <4>1, <5>4 DEF There
      <4>2. CASE tReports = <<>> /\ tText = tPlace
        <5>1. tReports' = <<tPlace'>>
          BY <2>1, <4>0, <4>2
        <5> QED BY <2>1, <3>2, <4>0, <4>2, <5>1 DEF There
      <4> QED BY <3>1, <4>1, <4>2 DEF OnItsWay
    <3> QED BY <1>e, <2>1, <2>4, <3>1, <3>3, <3>4 DEF TimingInv
  <2>5. CASE tPc # "wait"
    BY <1>e, <2>1, <2>3, <2>5 DEF TimingInv
  <2> QED BY <2>4, <2>5
<1>8. CASE T!Report
  <2>1. /\ tReports # <<>> /\ tText' = Head(tReports) /\ tReports' = Tail(tReports)
        /\ UNCHANGED <<tPc, tI, tPlace, tSeen, tRecording>>
    BY <1>8 DEF T!Report, T!Downloads
  <2>2. tPc \notin {"clear", "start", "connect", "command"}
    BY <2>1 DEF TimingInv, Still
  <2>3. CASE tPc = "wait"
    <3>1. CASE OnItsWay /\ RecordedTo(tI - 1)
      <4>0. tReports = <<tPlace>>
        BY <2>1, <3>1 DEF OnItsWay
      <4>2. tReports' = <<>> /\ tText' = tPlace'
        BY <2>1, <4>0
      <4>1. OnItsWay' /\ RecordedTo(tI - 1)'
        BY <2>1, <3>1, <4>2 DEF OnItsWay, RecordedTo
      <4> QED BY <1>e, <2>1, <2>3, <4>1 DEF TimingInv
    <3>2. CASE There /\ RecordedTo(tI)
      <4>1. CASE tReports = <<T!Towards[tPlace], tPlace>>
        <5>1. tReports' = <<tPlace>> /\ tText' = T!Towards[tPlace]
          BY <2>1, <4>1
        <5>2. There' /\ RecordedTo(tI)'
          BY <2>1, <3>2, <5>1 DEF There, RecordedTo
        <5> QED BY <1>e, <2>1, <2>3, <5>2 DEF TimingInv
      <4>2. CASE tReports = <<tPlace>>
        <5>1. tReports' = <<>> /\ tText' = tPlace
          BY <2>1, <4>2
        <5>2. There' /\ RecordedTo(tI)'
          BY <2>1, <3>2, <5>1 DEF There, RecordedTo
        <5> QED BY <1>e, <2>1, <2>3, <5>2 DEF TimingInv
      <4> QED BY <2>1, <3>2, <4>1, <4>2 DEF There
    <3> QED BY <2>1, <2>3, <3>1, <3>2 DEF TimingInv, Still
  <2>4. CASE tPc # "wait"
    BY <1>e, <2>1, <2>2, <2>4 DEF TimingInv, RecordedTo
  <2> QED BY <2>3, <2>4, SMTT(60)
<1>9. CASE UNCHANGED timingVars
  BY <1>9 DEF timingVars, TimingInv, Still, OnItsWay, There, RecordedTo
<1> QED BY <1>1, <1>2, <1>3, <1>4, <1>5, <1>6, <1>7, <1>8, <1>9 DEF T!Next

\* A calibration of a sequence of full travels is only analysed with every movement
\* recorded, in order and to its end, for any number of travels, retries and lost
\* requests (run_cycle, wait_for_text_state).
THEOREM TravelsAreRecorded ==
    ASSUME Alternates PROVE SessionsSpec => []AnalysedIsRecorded
<1>1. SessionsInit => TimingInv
  <2> SUFFICES ASSUME T!Init PROVE TimingInv
    BY DEF SessionsInit
  <2>1. tPc = "clear" /\ tI = 1 /\ tReports = <<>> /\ tSeen = <<>> /\ tPlace \in Rests
    BY DEF T!Init, Rests
  <2>2. tI \in 1..Len(Sequence)
    BY <2>1, StepFacts
  <2> QED BY <2>1, <2>2 DEF TimingInv
<1>2. TimingInv /\ [SessionsNext]_sessionVars => TimingInv'
  <2>1. [SessionsNext]_sessionVars => [T!Next]_timingVars
    BY DEF SessionsNext, Phone, Wizard, Timing, sessionVars
  <2> QED BY <2>1, TimingStep
<1>3. TimingInv => AnalysedIsRecorded
  <2>1. SubSeq(Sequence, 1, Len(Sequence)) = Sequence
    BY StepFacts, SubSeqFull
  <2>2. SubSeq(Sequence, 2, Len(Sequence)) = Tail(Sequence)
    BY StepFacts, TailIsSubSeq
  <2> QED BY <2>1, <2>2 DEF TimingInv, RecordedTo, AnalysedIsRecorded, T!AnalysedIsRecorded
<1> QED BY <1>1, <1>2, <1>3, PTL DEF SessionsSpec

===============================================================================
