----------------------------- MODULE HilSession -----------------------------
(***************************************************************************)
(* The two runners of a hardware-in-the-loop test: tools/hcp2_hil_load.py    *)
(* (a suite of equal sessions that stops at the first failure) and           *)
(* tools/hcp2_closeout.py (a plan of steps).  Both run shell commands before *)
(* and after, keep background loads running, drive the simulator, and reduce *)
(* what every stage found to one verdict and an exit code.  hil_load sends   *)
(* buttons through a thread of its own; closeout runs commands in a thread   *)
(* during the simulation, and captures the bus with a logic analyzer.        *)
(* The simulator itself is SupraMaticSim; here it only returns.              *)
(***************************************************************************)
EXTENDS DeviceHealth, Sequences

CONSTANTS NLoads, Repeat,
          MaxPresses,     \* bound: buttons sent in a session
          Answers         \* payloads of /health that are tried
None == "none"
ASSUME HilConstants == /\ NLoads \in Nat /\ {Repeat, MaxPresses} \subseteq Nat \ {0}
                       /\ Answers \subseteq Payload

VARIABLES
    tool, opts,               \* which program, and what its arguments came to
    at, run,                  \* the main thread; index of the session or step
    verdict, report,          \* of this session; of the whole run
    load,                     \* background processes; 0 is the bus capture
    raised,                   \* an exception is on its way
    worker, errors, presses, pending,      \* NativeApiCommandSender
    during,                   \* the thread of the "during" command
    device,                   \* the payload fetched
    exit,
    found, slipped            \* history: what went wrong; what a verdict ok left out

sender == <<worker, errors, presses, pending>>
session == <<verdict, load, raised, sender, during, device, found>>
vars == <<tool, opts, at, run, report, exit, slipped, session>>

Slots == 0 .. NLoads
NoDevice == [verdict |-> None, safe |-> FALSE, reasons |-> {}, linked |-> FALSE, active |-> FALSE,
             raw |-> 0, pending |-> FALSE, stale |-> FALSE, sticky |-> FALSE, starved |-> FALSE]
Fresh ==
    /\ verdict = "not-run" /\ load = [i \in Slots |-> None] /\ raised = None
    /\ worker = None /\ errors = FALSE /\ presses = 0 /\ pending = 0
    /\ during = None /\ device = NoDevice /\ found = {}
NoOpts == [mode |-> None, sends |-> FALSE, health |-> None, faulty |-> FALSE,
           steps |-> <<>>, failFast |-> TRUE]
Init ==
    /\ tool \in {"hil_load", "closeout"} /\ opts = NoOpts
    /\ at = "args" /\ run = 0 /\ report = "ok" /\ exit = None /\ slipped = {}
    /\ Fresh

----------------------------------------------------------------------------
\* hil_load: the command mode, and the combinations it refuses.
ResolveMode(a) == IF a.mode # "auto" THEN a.mode
                  ELSE IF a.ids THEN "native-api" ELSE IF a.scripted THEN "emulated" ELSE None
Acceptable(a) ==
    /\ ResolveMode(a) = "native-api" => a.host /\ (a.scripted => a.ids)
    /\ ResolveMode(a) = "emulated" => ~a.expects
    /\ a.hostile => a.host
Arguments == [mode : {"auto", "native-api", "emulated"}, ids : BOOLEAN, scripted : BOOLEAN,
              host : BOOLEAN, expects : BOOLEAN, hostile : BOOLEAN,
              health : {"auto", "require", "never"}, faulty : BOOLEAN]
\* No host: /health is not asked, whatever --health-check says.
HealthOf(a) == IF a.host THEN a.health ELSE IF a.health = "require" THEN "skipped" ELSE "never"

\* closeout: the steps of a preset; "custom" is a step of a plan with everything.
StepsOf(preset) ==
    CASE preset = "basic" -> <<"plain", "plain">>
      [] preset = "la" -> <<"la">>
      [] preset = "ota-restart" -> <<"ota", "restart">>
      [] preset = "full" -> <<"plain", "plain", "la", "ota", "restart">>
      [] preset = "plan" -> <<"custom">>

CheckArgs ==
    /\ at = "args"
    /\ IF tool = "hil_load"
       THEN \E a \in Arguments :
              IF Acceptable(a)
              THEN /\ opts' = [mode |-> ResolveMode(a), sends |-> ResolveMode(a) = "native-api" /\ a.scripted, health |-> HealthOf(a),
                               faulty |-> a.faulty, steps |-> [i \in 1 .. Repeat |-> "session"], failFast |-> TRUE]
                   /\ at' = "begin" /\ UNCHANGED exit
              ELSE at' = "over" /\ exit' = "2" /\ UNCHANGED opts
       ELSE \/ \E preset \in {"basic", "la", "ota-restart", "full", "plan"}, ff \in BOOLEAN :
                 /\ opts' = [NoOpts EXCEPT !.steps = StepsOf(preset), !.failFast = ff]
                 /\ at' = "begin" /\ UNCHANGED exit
            \/ at' = "over" /\ exit' = "1" /\ UNCHANGED opts      \* preflight_plan: no sigrok-cli
    /\ UNCHANGED <<tool, run, report, slipped, session>>

Kind == opts.steps[run]
HasPre == Kind \in {"session", "ota", "custom"}
HasPost == Kind \in {"session", "custom"}
HasDuring == Kind \in {"ota", "restart", "custom"}
Started == (IF Kind \in {"la", "custom"} THEN {0} ELSE {})
           \cup (IF Kind \in {"session", "custom"} THEN 1 .. NLoads ELSE {})

Begin ==
    /\ at = "begin"
    /\ run' = run + 1 /\ at' = "pre"
    /\ verdict' = "not-run" /\ load' = [i \in Slots |-> None] /\ raised' = None
    /\ worker' = None /\ errors' = FALSE /\ presses' = 0 /\ pending' = 0
    /\ during' = None /\ device' = NoDevice /\ found' = {}
    /\ UNCHANGED <<tool, opts, report, exit, slipped>>

\* run_shell, before anything is started; a failure ends the session.
RunPre ==
    /\ at = "pre"
    /\ \/ at' = "loads" /\ UNCHANGED <<verdict, found>>
       \/ HasPre /\ at' = "end" /\ verdict' = "pre" /\ found' = {"pre"}
    /\ UNCHANGED <<tool, opts, run, report, exit, slipped, load, raised, sender, during, device>>

\* start_load, start_la_capture: in order.  hil_load starts them inside its try.
NextStart == {i \in Started : load[i] = None /\ \A j \in Started : j < i => load[j] # None}
AfterStart == IF tool = "hil_load" THEN "sender" ELSE "during"
StartLoad ==
    /\ at = "loads"
    /\ \/ /\ NextStart = {} /\ at' = AfterStart
          /\ UNCHANGED <<load, raised, exit>>
       \/ \E i \in NextStart : load' = [load EXCEPT ![i] = "up"] /\ UNCHANGED <<at, raised, exit>>
       \/ /\ NextStart # {} /\ UNCHANGED load
          /\ IF tool = "hil_load" THEN raised' = "body" /\ at' = "close" /\ UNCHANGED exit
             ELSE raised' = "start" /\ at' = "over" /\ exit' = "1"
    /\ UNCHANGED <<tool, opts, run, report, slipped, verdict, sender, during, device, found>>

\* closeout: the thread of the during command.
StartDuring ==
    /\ at = "during" /\ at' = "open"
    /\ during' = IF HasDuring THEN "running" ELSE None
    /\ UNCHANGED <<tool, opts, run, report, exit, slipped, verdict, load, raised, sender, device, found>>

----------------------------------------------------------------------------
\* hil_load: the sender and its thread.
StartSender ==
    /\ at = "sender"
    /\ IF opts.mode = "native-api" THEN worker' = "starting" /\ at' = "ready"
       ELSE at' = "open" /\ UNCHANGED worker
    /\ UNCHANGED <<tool, opts, run, report, exit, slipped, verdict, load, raised, errors, presses,
                   pending, during, device, found>>

\* _run: connects and finds the entities, or fails; either way it says ready.
WorkerReady ==
    /\ worker = "starting"
    /\ \/ worker' = "up" /\ UNCHANGED errors
       \/ worker' \in {"absent", "gone"} /\ errors' = TRUE     \* no client library; no device
    /\ UNCHANGED <<tool, opts, at, run, report, exit, slipped, verdict, load, raised, presses,
                   pending, during, device, found>>
\* start: ready in time and without errors, or it raises.
\* Mutant: ready is taken for connected.
MutWaitReady ==
    /\ at = "ready"
    /\ \/ worker # "starting" /\ at' = "open" /\ UNCHANGED raised
       \/ worker = "starting" /\ at' = "close" /\ raised' = "body"
    /\ UNCHANGED <<tool, opts, run, report, exit, slipped, verdict, load, sender, during, device, found>>
WaitReady ==
    /\ at = "ready"
    /\ \/ worker = "up" /\ at' = "open" /\ UNCHANGED raised
       \/ worker # "up" /\ at' = "close" /\ raised' = "body"
    /\ UNCHANGED <<tool, opts, run, report, exit, slipped, verdict, load, sender, during, device, found>>

\* __call__: the coroutine is handed to the thread; its end is recorded by it.
Press ==
    /\ at = "simulate" /\ opts.sends /\ presses < MaxPresses
    /\ presses' = presses + 1 /\ pending' = pending + 1
    /\ UNCHANGED <<tool, opts, at, run, report, exit, slipped, verdict, load, raised, worker, errors,
                   during, device, found>>
PressFailed == /\ errors' = TRUE
               /\ found' = found \cup {IF at = "simulate" THEN "api" ELSE "late"}
\* Mutant: a button is recorded twice.
MutRecordDone ==
    /\ presses > 0 /\ worker \in {"up", "stopping"}
    /\ pending' = pending - 1
    /\ UNCHANGED <<tool, opts, at, run, report, exit, slipped, verdict, load, raised, worker, presses,
                   errors, found, during, device>>
RecordDone ==
    /\ pending > 0 /\ worker \in {"up", "stopping"}
    /\ pending' = pending - 1
    /\ \/ UNCHANGED <<errors, found>>
       \/ PressFailed
    /\ UNCHANGED <<tool, opts, at, run, report, exit, slipped, verdict, load, raised, worker, presses,
                   during, device>>
\* The loop ends with what is left: dropped, or cancelled and recorded.
WorkerGone ==
    /\ worker = "stopping" /\ worker' = "gone"
    /\ pending' = 0
    /\ \/ UNCHANGED <<errors, found>>
       \/ pending > 0 /\ PressFailed
    /\ UNCHANGED <<tool, opts, at, run, report, exit, slipped, verdict, load, raised, presses,
                   during, device>>

----------------------------------------------------------------------------
\* SerialTransport: the port opens, or not.
Open ==
    /\ at = "open"
    /\ \/ at' = "simulate" /\ UNCHANGED raised
       \/ at' = "close" /\ raised' = "body"
    /\ UNCHANGED <<tool, opts, run, report, exit, slipped, verdict, load, sender, during, device, found>>

\* simulator.run returns or raises; hil_load then looks for errors of the sender.
\* Mutant: they are not looked for.
MutSimVerdict(ok) == IF ok THEN "ok" ELSE "sim"
SimVerdict(ok) == IF ~ok THEN "sim" ELSE IF tool = "hil_load" /\ errors THEN "api" ELSE "ok"
SimEnds ==
    /\ at = "simulate" /\ at' = "close"
    /\ \/ \E ok \in BOOLEAN :
            /\ verdict' = SimVerdict(ok)
            /\ found' = IF ok THEN found ELSE found \cup {"sim"}
            /\ UNCHANGED raised
       \/ raised' = "body" /\ UNCHANGED <<verdict, found>>
    /\ UNCHANGED <<tool, opts, run, report, exit, slipped, load, sender, during, device>>

\* finally: simulator.close, transport.close.
AfterClose == IF tool = "closeout" THEN "join" ELSE IF opts.mode = None THEN "stop" ELSE "stop_sender"
Close ==
    /\ at = "close"
    /\ \/ at' = AfterClose /\ UNCHANGED raised
       \/ at' = "raise" /\ raised' = "cleanup"
    /\ UNCHANGED <<tool, opts, run, report, exit, slipped, verdict, load, sender, during, device, found>>
\* stop wakes the loop of the thread; one that has failed has closed it, and that
\* raises: nothing after it is stopped.
StopSender ==
    /\ at = "stop_sender"
    /\ IF worker = "gone" THEN at' = "raise" /\ raised' = "closed_loop"
       ELSE at' = "join" /\ UNCHANGED raised
    /\ worker' = IF worker \in {"starting", "up"} THEN "stopping" ELSE worker
    /\ UNCHANGED <<tool, opts, run, report, exit, slipped, verdict, load, errors, presses,
                   pending, during, device, found>>
\* thread.join(timeout): over when the thread is, or when the time is.
Join ==
    /\ at = "join" /\ at' = "stop"
    /\ UNCHANGED <<tool, opts, run, report, exit, slipped, session>>

\* stop_load, in the order of the start: the code of one that is over; otherwise
\* SIGTERM, then SIGKILL; a process that outlives both, or whose output does not
\* end, raises and the rest is not stopped.  The capture is waited for.
\* Mutant: the loads are stopped only if nothing has been raised before.
MutStopping == IF raised # None THEN {} ELSE {i \in Slots : load[i] = "up"}
Stopping == {i \in Slots : load[i] = "up"}
First(S) == CHOOSE i \in S : \A j \in S : i <= j
AfterStop == IF raised # None THEN "raise" ELSE IF tool = "hil_load" THEN "post" ELSE "judge"
StopLoad ==
    /\ at = "stop"
    /\ \/ /\ Stopping = {} /\ at' = AfterStop
          /\ UNCHANGED <<load, raised>>
       \/ /\ Stopping # {}
          /\ \E code \in IF First(Stopping) = 0 THEN {"ok", "bad", "term", "kill"} ELSE {"term", "kill"} :
               load' = [load EXCEPT ![First(Stopping)] = code]
          /\ UNCHANGED <<at, raised>>
       \/ /\ Stopping # {} /\ at' = "raise" /\ raised' = "cleanup"
          /\ UNCHANGED load
    /\ UNCHANGED <<tool, opts, run, report, exit, slipped, verdict, sender, during, device, found>>

\* The exception leaves run_session: main of hil_load answers 2, closeout dies of it.
Raise ==
    /\ at = "raise" /\ at' = "over"
    /\ exit' = IF tool = "hil_load" THEN "2" ELSE "1"
    /\ UNCHANGED <<tool, opts, run, report, slipped, session>>

----------------------------------------------------------------------------
\* The first failure to be looked at names the verdict.
Named(v, failures) == IF v # "ok" \/ failures = <<>> THEN v ELSE Head(failures)
If(cond, name) == IF cond THEN <<name>> ELSE <<>>

\* closeout, after the cleanup: capture, its verifier, the during command as far
\* as it is recorded, the loads.
CaptureFailed == load[0] \notin {None, "ok"}
LoadFailed == \E i \in 1 .. NLoads : load[i] \in {"bad", "kill"}
\* Mutant: a load that had to be killed is one that was terminated.
MutCounted == \E i \in 1 .. NLoads : load[i] = "bad"
Counted == LoadFailed
\* run_la_verifier: the verifier runs on a capture that was taken, and may reject it.
Verifier == IF load[0] = "ok" THEN BOOLEAN ELSE {TRUE}
Judge ==
    /\ at = "judge" /\ at' = "post"
    /\ \E verified \in Verifier :
         /\ verdict' = Named(verdict, If(CaptureFailed, "capture") \o If(~verified, "verify")
                                      \o If(during = "bad", "during") \o If(Counted, "load"))
         /\ found' = found \cup {r \in {"capture"} : CaptureFailed} \cup {r \in {"verify"} : ~verified}
                           \cup {r \in {"during"} : during = "bad"} \cup {r \in {"load"} : LoadFailed}
                           \cup {r \in {"unjoined"} : during = "running"}
    /\ UNCHANGED <<tool, opts, run, report, exit, slipped, load, raised, sender, during, device>>

\* run_shell, after: each runs, whatever the verdict.
RunPost ==
    /\ at = "post" /\ at' = IF tool = "hil_load" THEN "health" ELSE "end"
    /\ \E failed \in IF HasPost THEN BOOLEAN ELSE {FALSE} :
         /\ verdict' = Named(verdict, If(failed, "post"))
         /\ found' = found \cup {r \in {"post"} : failed}
                           \cup {r \in {"load"} : tool = "hil_load" /\ LoadFailed}
    /\ UNCHANGED <<tool, opts, run, report, exit, slipped, load, raised, sender, during, device>>

\* fetch_device_health and what run_session makes of it.
\* Mutant: an answer that does not come is only ever recorded.
MutUnavailable == {}
Unavailable == {r \in {"health"} : opts.health = "require"}
FetchHealth ==
    /\ at = "health" /\ at' = "logic"
    /\ \/ /\ opts.health \in {"never", "skipped"}
          /\ found' = found \cup {r \in {"unasked"} : opts.health = "skipped"}
          /\ UNCHANGED <<verdict, device>>
       \/ /\ opts.health \in {"auto", "require"}
          /\ \E p \in Answers :
               /\ device' = p
               /\ LET fails == Classify(p, opts.faulty) = "fail" IN
                  /\ verdict' = Named(verdict, If(fails, "health"))
                  /\ found' = found \cup {r \in {"health"} : fails}
       \/ /\ opts.health \in {"auto", "require"}                \* no answer, or no JSON object
          /\ verdict' = Named(verdict, If(Unavailable # {}, "health"))
          /\ found' = found \cup {r \in {"health"} : opts.health = "require"}
          /\ UNCHANGED device
    /\ UNCHANGED <<tool, opts, run, report, exit, slipped, load, raised, sender, during>>

\* analyze_logic_capture: the verdict on the capture, if one was given.
AnalyzeLogic ==
    /\ at = "logic" /\ at' = "end"
    /\ \E failed \in BOOLEAN :
         /\ verdict' = Named(verdict, If(failed, "logic"))
         /\ found' = found \cup {r \in {"logic"} : failed}
    /\ device' = NoDevice
    /\ UNCHANGED <<tool, opts, run, report, exit, slipped, load, raised, sender, during>>

----------------------------------------------------------------------------
\* run_suite and aggregate_reports, run_plan, and the exit code of main.
\* Mutant: the suite goes on after a failed session.
MutLast == run = Len(opts.steps)
Last == run = Len(opts.steps) \/ (verdict # "ok" /\ opts.failFast)
\* Mutant: the verdict of the run is the last session's.
MutOverall == IF verdict = "ok" THEN "ok" ELSE "fail"
Overall == IF report = "ok" /\ verdict = "ok" THEN "ok" ELSE "fail"
ExitCode == IF Overall = "ok" THEN "0" ELSE "1"
EndSession ==
    /\ at = "end"
    /\ report' = Overall
    /\ slipped' = slipped \cup IF verdict = "ok" THEN found ELSE {"failed"}
    /\ IF Last THEN at' = "over" /\ exit' = ExitCode
       ELSE at' = "begin" /\ UNCHANGED exit
    /\ UNCHANGED <<tool, opts, run, session>>

\* External: a background load ends by itself; the during command ends.
LoadExits ==
    /\ at # "over"
    /\ \E i \in Slots, code \in {"ok", "bad"} :
         load[i] = "up" /\ load' = [load EXCEPT ![i] = code]
    /\ UNCHANGED <<tool, opts, at, run, report, exit, slipped, verdict, raised, sender, during, device, found>>
DuringEnds ==
    /\ during = "running" /\ at # "over"
    /\ during' \in {"ok", "bad"}
    /\ UNCHANGED <<tool, opts, at, run, report, exit, slipped, verdict, load, raised, sender, device, found>>

Main == \/ CheckArgs \/ Begin \/ RunPre \/ StartLoad \/ StartDuring \/ StartSender \/ WaitReady
        \/ Open \/ SimEnds \/ Close \/ StopSender \/ Join \/ StopLoad \/ Raise \/ Judge
        \/ RunPost \/ FetchHealth \/ AnalyzeLogic \/ EndSession
Next == Main \/ WorkerReady \/ Press \/ RecordDone \/ WorkerGone \/ LoadExits \/ DuringEnds

Spec == Init /\ [][Next]_vars

----------------------------------------------------------------------------
Modes == {None, "native-api", "emulated"}
\* Every variable keeps to its set.
TypeOK ==
    /\ tool \in {"hil_load", "closeout"} /\ exit \in {None, "0", "1", "2"}
    /\ opts.mode \in Modes /\ run \in 0 .. Len(opts.steps)
    /\ verdict \in {"not-run", "ok", "pre", "sim", "api", "post", "health", "logic",
                    "capture", "verify", "during", "load"}
    /\ load \in [Slots -> {None, "up", "ok", "bad", "term", "kill"}]
    /\ raised \in {None, "start", "body", "cleanup", "closed_loop"}
    /\ worker \in {None, "starting", "absent", "up", "stopping", "gone"}
    /\ presses \in 0 .. MaxPresses /\ pending \in 0 .. presses /\ errors \in BOOLEAN
    /\ device = NoDevice \/ device \in Payload

\* Exit code 0 means that no stage of any session failed, except for what the two
\* programs cannot see: hil_load does not look at how its loads ended, at a button
\* whose failure comes after the simulation, or for /health without a host;
\* closeout does not see a command that outlives its join (run_session,
\* run_simulation_step, aggregate_reports, run_plan).
Unseen == IF tool = "hil_load" THEN {"load", "late", "unasked"} ELSE {"unjoined"}
ZeroMeansClean == exit = "0" => slipped \subseteq Unseen

\* The verdict of a session names the first of its failures in the order the
\* program looks at them, whichever happened first (run_session,
\* run_simulation_step).
Order == IF tool = "hil_load" THEN <<"pre", "sim", "api", "post", "health", "logic">>
         ELSE <<"pre", "sim", "capture", "verify", "during", "load", "post">>
VerdictIsTheFirst ==
    at = "end" =>
        IF \A i \in 1 .. Len(Order) : Order[i] \notin found THEN verdict = "ok"
        ELSE \E i \in 1 .. Len(Order) :
               /\ verdict = Order[i] /\ Order[i] \in found
               /\ \A j \in 1 .. i - 1 : Order[j] \notin found

\* No load is left running, unless closing or stopping itself raised (stopping the
\* sender of a device that did not answer always does), or closeout could not start
\* one (the finally blocks, stop_load).
LoadsStopped ==
    at \in {"end", "begin", "over"} /\ raised \notin {"cleanup", "closed_loop", "start"} =>
        \A i \in Slots : load[i] # "up"

\* The loads are terminated after the simulator, as the help of --load-command says,
\* also when the device did not answer.  They are not (NativeApiCommandSender.stop).
LoadsTerminated == at = "over" /\ raised = "closed_loop" => \A i \in Slots : load[i] # "up"

\* No button goes out through a sender that never connected, and none is left
\* undecided once the thread is gone (NativeApiCommandSender.start, stop).
NoButtonIntoTheVoid == presses > 0 => worker # "starting" /\ (worker = "gone" => pending = 0)

\* A suite does not go on after a session that failed; a closeout plan does only
\* without --fail-fast (run_suite, run_plan).
StopsAtFailure == [][(run' = run + 1 => report = "ok" \/ ~opts.failFast)]_vars

\* Whatever is excused, a device whose link is down, that has lost polls other than
\* the one in flight, or whose last poll is old does not pass, and one that reports
\* more trouble never passes where one with less does not, as long as the firmware
\* names a reason when it fails (classify_device_health).
PassMeansPolled ==
    device # NoDevice /\ Classify(device, opts.faulty) # "fail" =>
        /\ device.linked /\ ~device.active /\ ~device.stale
        /\ device.raw = 0 \/ (device.raw = 1 /\ device.pending)
WorseIsNotBetter ==
    device # NoDevice /\ Classify(device, opts.faulty) = "fail" /\ ~Unexplained(device) =>
        \A q \in OneWorse(device) : Classify(q, opts.faulty) = "fail"
=============================================================================
