------------------------------ MODULE PhoneSync ------------------------------
(***************************************************************************)
(* tools/run_phone_video_sync_capture.py: a fullscreen tool that moves the  *)
(* door through a sequence of commands while a phone films it.  The window  *)
(* thread redraws every 100 ms and in each draw sends what is due and looks *)
(* whether the step it waits for is reached; a worker thread (or, in a dry  *)
(* run, timers) sends the commands and reports the state of the door, late  *)
(* and the text apart from the cover; the user starts, cancels and quits.   *)
(* Around it main starts the persistent log of the ESP and stops it again.  *)
(* Time is counted in draws.                                                *)
(***************************************************************************)
EXTENDS Integers, Sequences

CONSTANTS Steps,          \* parse_sequence: a sequence of actions
          InitialDelay, SettleDelay,             \* --initial-delay, --settle-delay
          MotionTimeout, VentTimeout, VentObserve,
          ExitGrace,                             \* --exit-stop-grace
          MaxSpace, MaxQuit,          \* bounds: what the user does
          MaxFailures                            \* bound: commands that fail

Places == {"closed", "open", "vent", "part"}     \* "part": a target position
Actions == {"open", "close", "vent", "target"}

\* What the constants must be (assumed by the modules that give them values).
SyncConstants ==
    /\ Steps \in Seq(Actions) /\ Steps # <<>>
    /\ {InitialDelay, SettleDelay, MotionTimeout, VentTimeout, VentObserve, ExitGrace,
        MaxSpace, MaxQuit, MaxFailures} \subseteq Nat

\* parse_sequence: the state text, or position, a step waits for.
TargetOf(a) == CASE a = "open" -> "Open" [] a = "close" -> "Closed"
                 [] a = "vent" -> "Venting" [] a = "target" -> "Position"
PlaceOf(a) == CASE a = "open" -> "open" [] a = "close" -> "closed"
                [] a = "vent" -> "vent" [] a = "target" -> "part"

VARIABLES
    phase, dry,                     \* main
    logOn, logStarted,              \* the log of the ESP; persistent_log_started
    pc, drawn,                      \* the window thread, and the draw of this period
    scheduled, left,                \* scheduled: its action, periods until it is due
    index, waiting, waited, done,   \* sequence_*
    exitPending, grace, stopEvent,
    hcpText, hcpMoving, hcpPos,     \* hcp: what was last reported
    news, half,                     \* door states on their way; what came of the first
    flight,                         \* commands handed to the worker
    plans,                          \* the timers of a dry run
    place, goal,                    \* external: the door
    spaces, quits, failures,
    sent, cancelled, visited             \* history

main == <<phase, dry, logOn, logStarted>>
ui == <<pc, drawn>>
sequence == <<index, waiting, waited, done>>
schedule == <<scheduled, left>>
exit == <<exitPending, grace, stopEvent>>
hcp == <<hcpText, hcpMoving, hcpPos>>
reports == <<news, half>>
door == <<place, goal>>
bounds == <<spaces, quits, failures>>
history == <<sent, cancelled, visited>>
vars == <<main, ui, schedule, sequence, exit, hcp, reports, flight, plans, door,
          bounds, history>>

Init ==
    /\ phase = "log" /\ dry \in BOOLEAN
    /\ logOn = FALSE /\ logStarted = FALSE
    /\ pc = "idle" /\ drawn = FALSE
    /\ scheduled = "none" /\ left = 0
    /\ index = 0 /\ waiting = "none" /\ waited = 0 /\ done = FALSE
    /\ exitPending = FALSE /\ grace = 0 /\ stopEvent = FALSE
    /\ hcpText = "" /\ hcpMoving = FALSE /\ hcpPos = "none"
    /\ news = <<>> /\ half = "none"
    /\ flight = <<>> /\ plans = {}
    /\ place \in {"closed", "open"} /\ goal = "none"
    /\ spaces = 0 /\ quits = 0 /\ failures = 0
    /\ sent = 0 /\ cancelled = FALSE /\ visited = {}

----------------------------------------------------------------------------
\* EspHttpClient.get and _request, after all retries: the ESP may have done what
\* was asked, and the answer (to what was done, or "busy") may have come.
Answer == [did : BOOLEAN, ok : BOOLEAN]
\* wait_for_tcp: the port never answers, and main leaves.
Unreachable ==
    /\ phase = "log" /\ ~dry
    /\ phase' = "closing"
    /\ UNCHANGED <<dry, logOn, logStarted, ui, schedule, sequence, exit, hcp, reports, flight, plans,
                   door, bounds, history>>
\* start_persistent_log: known to have started when an answer came.
StartLog ==
    /\ phase = "log"
    /\ IF dry THEN logStarted' = FALSE /\ UNCHANGED logOn
              ELSE \E a \in Answer : logOn' = a.did /\ logStarted' = a.ok
    /\ phase' = IF dry \/ logStarted' THEN "worker" ELSE "closing"
    /\ UNCHANGED <<dry, ui, schedule, sequence, exit, hcp, reports, flight, plans, door,
                   bounds, history>>

\* External: a change of the door is published in one call, as a text and as a cover,
\* and a connection keeps the order of its changes.
TextsOf(p, g) == IF g # "none" THEN {"Moving"}
                 ELSE CASE p = "open" -> {"Open"} [] p = "closed" -> {"Closed"}
                        [] p = "vent" -> {"Venting", "Stopped"} [] OTHER -> {"Stopped"}
Published(p, g) == [text : TextsOf(p, g), moving : {g # "none"},
                    pos : {IF g # "none" THEN "between" ELSE p}]
Publish(p, g) == \E s \in Published(p, g) : news' = Append(news, s) /\ UNCHANGED half

\* run, run_async: the worker may be late, or fail to connect or to find its
\* entities, and ready is never set; DryRunWorker is ready at once.
WorkerReady == IF dry THEN {TRUE} ELSE BOOLEAN
\* main waits 20 s for the worker; a dry run publishes a closed door first.
StartWorker ==
    /\ phase = "worker"
    /\ \E ready \in WorkerReady : phase' = IF ready THEN "ui" ELSE "closing"
    /\ IF dry THEN hcpText' = "Closed" /\ hcpMoving' = FALSE /\ hcpPos' = "closed" /\ UNCHANGED reports
              ELSE Publish(place, goal) /\ UNCHANGED hcp
    /\ UNCHANGED <<dry, logOn, logStarted, ui, schedule, sequence, exit, flight,
                   plans, door, bounds, history>>

\* stop_and_download: whether the stop was done is not looked at.
StopLog == \E a \in Answer : logOn' = (logOn /\ ~a.did)
\* The finally of main: the log is stopped when it is known to have started.
Close ==
    /\ phase = "closing"
    /\ phase' = "done"
    /\ stopEvent' = TRUE
    /\ IF logStarted THEN StopLog ELSE UNCHANGED logOn
    /\ plans' = {}
    /\ UNCHANGED <<dry, logStarted, ui, schedule, sequence, exitPending, grace, hcp,
                   reports, flight, door, bounds, history>>

----------------------------------------------------------------------------
\* schedule_action, called by advance_sequence_ alone.
Schedule(a, delay) == scheduled' = a /\ left' = delay

\* Mutant: the next step is not scheduled.
MutAdvanceForgets(delay) ==
    /\ waiting' = "none" /\ waited' = 0
    /\ UNCHANGED schedule
    /\ IF index = Len(Steps)
       THEN done' = TRUE /\ stopEvent' = TRUE /\ UNCHANGED index
       ELSE index' = index + 1 /\ UNCHANGED <<done, stopEvent>>
\* advance_sequence_: the next step, or the end of the sequence and of the run.
\* index counts from 1 here; 0 is the -1 of the code, not started.
Advance(delay) ==
    /\ waiting' = "none" /\ waited' = 0
    /\ IF index = Len(Steps)
       THEN done' = TRUE /\ stopEvent' = TRUE /\ UNCHANGED <<index, schedule>>
       ELSE /\ index' = index + 1
            /\ Schedule(Steps[index + 1], delay)
            /\ UNCHANGED <<done, stopEvent>>

\* Mutant: the cancelled action stays scheduled.
MutCancel == UNCHANGED schedule /\ cancelled' = TRUE
\* cancel_scheduled
Cancel == /\ scheduled' = "none" /\ left' = 0
          /\ cancelled' = TRUE

\* start_or_cancel: Space cancels what is scheduled, or starts, or marks.
Space ==
    /\ phase = "ui" /\ pc = "idle" /\ spaces < MaxSpace
    /\ spaces' = spaces + 1
    /\ \/ /\ scheduled # "none"
          /\ Cancel
          /\ UNCHANGED <<sequence, stopEvent>>
       \/ /\ scheduled = "none" /\ index = 0 /\ ~done
          /\ Advance(InitialDelay)
          /\ UNCHANGED cancelled
       \/ /\ scheduled = "none" /\ (index > 0 \/ done)
          /\ UNCHANGED <<schedule, sequence, stopEvent, cancelled>>
    /\ UNCHANGED <<main, ui, exitPending, grace, hcp, reports, flight, plans, door,
                   quits, failures, sent, visited>>

\* _simulation_plan: what a dry run will report at the end of a motion.
PlanOf(a) == [text |-> IF a = "target" THEN "Stopped" ELSE TargetOf(a), pos |-> PlaceOf(a),
              cover |-> FALSE]
\* submit_cover_command: handed to the worker's loop, or simulated.  In a dry
\* run the motion is published at once and its end is left to a timer.
Submit(a) ==
    /\ visited' = IF goal = "none" THEN {place} ELSE {}
    /\ IF dry
       THEN /\ plans' = plans \cup {PlanOf(a)}
            /\ hcpText' = "Moving" /\ hcpMoving' = TRUE /\ hcpPos' = "between"
            /\ UNCHANGED flight
       ELSE /\ flight' = Append(flight, a)
            /\ UNCHANGED <<plans, hcp>>

\* on_exit: a second Q leaves at once; with the door at rest what is scheduled
\* is cancelled; with the door moving a stop is sent and the grace begins.
Quit ==
    /\ phase = "ui" /\ pc = "idle" /\ quits < MaxQuit
    /\ quits' = quits + 1
    /\ \/ /\ exitPending
          /\ stopEvent' = TRUE
          /\ UNCHANGED <<exitPending, grace, schedule, cancelled, flight>>
       \/ /\ ~exitPending /\ (dry \/ ~hcpMoving)
          /\ IF index > 0 /\ ~done /\ scheduled # "none" THEN Cancel
                                                        ELSE UNCHANGED <<schedule, cancelled>>
          /\ stopEvent' = TRUE
          /\ UNCHANGED <<exitPending, grace, flight>>
       \/ /\ ~exitPending /\ ~dry /\ hcpMoving
          /\ exitPending' = TRUE /\ grace' = ExitGrace
          /\ flight' = Append(flight, "stop")
          /\ UNCHANGED <<stopEvent, schedule, cancelled>>
    /\ UNCHANGED <<main, ui, sequence, hcp, reports, plans, door, spaces, failures,
                   sent, visited>>

----------------------------------------------------------------------------
\* The draw of the window, in the order of its calls.
\* on_sequence_command_sent: the step waits from now on.
WaitsFor(step) == waiting' = TargetOf(step) /\ waited' = 0
\* tick: what is due is taken under the lock and submitted, and its step waits.
DrawTick ==
    /\ phase = "ui" /\ pc = "idle" /\ ~drawn
    /\ IF scheduled # "none" /\ left = 0
       THEN /\ scheduled' = "none"
            /\ Submit(scheduled)
            /\ sent' = sent + 1
            /\ WaitsFor(Steps[index])
       ELSE UNCHANGED <<scheduled, plans, hcp, flight, sent, visited, waiting, waited>>
    /\ pc' = "wait"
    /\ UNCHANGED <<main, drawn, left, index, done, exit, reports, door, bounds, cancelled>>

\* Mutant: standing still long enough counts for every step.
MutReached == hcpText = waiting \/ (~hcpMoving /\ waited >= VentObserve)
\* service_sequence_wait_
Reached ==
    \/ hcpText = waiting
    \/ waiting = "Position" /\ ~hcpMoving /\ hcpPos = PlaceOf(Steps[index])
    \/ waiting = "Venting" /\ ~hcpMoving /\ waited >= VentObserve
TimeoutOf(w) == IF w = "Venting" THEN VentTimeout ELSE MotionTimeout
TimedOut == waited > TimeoutOf(waiting)
DrawWait ==
    /\ pc = "wait"
    /\ \/ waiting # "none" /\ Reached /\ Advance(SettleDelay)
       \/ /\ waiting # "none" /\ ~Reached /\ TimedOut
          /\ stopEvent' = TRUE
          /\ UNCHANGED <<schedule, sequence>>
       \/ /\ waiting = "none" \/ (~Reached /\ ~TimedOut)
          /\ UNCHANGED <<schedule, sequence, stopEvent>>
    /\ pc' = "exit"
    /\ UNCHANGED <<main, drawn, exitPending, grace, hcp, reports, flight, plans, door, bounds, history>>

\* service_pending_exit and the end of draw.
DrawExit ==
    /\ pc = "exit"
    /\ stopEvent' = (stopEvent \/ (exitPending /\ (~hcpMoving \/ grace = 0)))
    /\ phase' = IF stopEvent' THEN "closing" ELSE phase
    /\ pc' = "idle" /\ drawn' = TRUE
    /\ UNCHANGED <<dry, logOn, logStarted, schedule, sequence, exitPending, grace, hcp,
                   reports, flight, plans, door, bounds, history>>

\* root.after: a period passes for everything that waits for a time.
MutLess(n) == n - 1                       \* mutant: no floor
Less(n) == IF n > 0 THEN n - 1 ELSE 0
Period ==
    /\ phase = "ui" /\ pc = "idle" /\ drawn
    /\ drawn' = FALSE
    /\ left' = Less(left) /\ grace' = Less(grace)
    /\ waited' = IF waiting # "none" /\ ~TimedOut THEN waited + 1 ELSE waited
    /\ UNCHANGED <<main, pc, scheduled, index, waiting, done, exitPending, stopEvent,
                   hcp, reports, flight, plans, door, bounds, history>>

----------------------------------------------------------------------------
\* send_cover_command and on_command_done; the door takes the command.
SendCover ==
    /\ phase \in {"ui", "closing"} /\ flight # <<>>
    /\ flight' = Tail(flight)
    /\ \/ /\ failures < MaxFailures
          /\ failures' = failures + 1
          /\ UNCHANGED <<door, reports>>
       \/ /\ IF Head(flight) = "stop"
             THEN /\ place' = IF goal = "none" THEN place ELSE "between"
                  /\ goal' = "none"
             ELSE /\ goal' = IF goal = "none" /\ place = PlaceOf(Head(flight))
                             THEN "none" ELSE PlaceOf(Head(flight))
                  /\ UNCHANGED place
          /\ IF (goal = "none") = (goal' = "none") THEN UNCHANGED reports
             ELSE Publish(place', goal')
          /\ UNCHANGED failures
    /\ UNCHANGED <<main, ui, schedule, sequence, exit, hcp, plans, spaces, quits,
                   history>>

\* External: the door arrives; nobody else moves it.
Arrive ==
    /\ ~dry /\ goal # "none"
    /\ place' = goal /\ goal' = "none"
    /\ visited' = visited \cup {goal}
    /\ Publish(goal, "none")
    /\ UNCHANGED <<main, ui, schedule, sequence, exit, hcp, flight, plans, bounds,
                   sent, cancelled>>

\* on_state, update_hcp_state: the text and the cover of a change come one by one, in
\* either order.
Heard(entity) ==
    IF half = "none" THEN half' = entity /\ UNCHANGED news
                       ELSE half' = "none" /\ news' = Tail(news)
ReportText ==
    /\ phase = "ui" /\ news # <<>> /\ half # "text"
    /\ hcpText' = Head(news).text
    /\ Heard("text")
    /\ UNCHANGED <<main, ui, schedule, sequence, exit, hcpMoving, hcpPos, flight,
                   plans, door, bounds, history>>
ReportCover ==
    /\ phase = "ui" /\ news # <<>> /\ half # "cover"
    /\ hcpMoving' = Head(news).moving /\ hcpPos' = Head(news).pos
    /\ Heard("cover")
    /\ UNCHANGED <<main, ui, schedule, sequence, exit, hcpText, flight, plans, door,
                   bounds, history>>

\* DryRunWorker._finish_command on a timer thread: cover first, text then.
FinishCover ==
    /\ phase = "ui"
    /\ \E p \in plans :
         /\ ~p.cover
         /\ plans' = (plans \ {p}) \cup {[p EXCEPT !.cover = TRUE]}
         /\ hcpMoving' = FALSE /\ hcpPos' = p.pos
    /\ UNCHANGED <<main, ui, schedule, sequence, exit, hcpText, reports, flight, door, bounds,
                   history>>
FinishText ==
    /\ phase = "ui"
    /\ \E p \in plans :
         /\ p.cover
         /\ plans' = plans \ {p}
         /\ hcpText' = p.text
    /\ UNCHANGED <<main, ui, schedule, sequence, exit, hcpMoving, hcpPos, reports, flight, door,
                   bounds, history>>

Draw == DrawTick \/ DrawWait \/ DrawExit
Next == \/ Unreachable \/ StartLog \/ StartWorker \/ Close \/ Space \/ Quit
        \/ DrawTick \/ DrawWait \/ DrawExit \/ Period
        \/ SendCover \/ Arrive \/ ReportText \/ ReportCover
        \/ FinishCover \/ FinishText

Spec == Init /\ [][Next]_vars
\* The window redraws itself and time passes; nothing is assumed of the door,
\* the worker or the user.
FairSpec == /\ Spec /\ WF_vars(Draw) /\ WF_vars(Period)
            /\ WF_vars(Unreachable \/ StartLog \/ StartWorker \/ Close)

----------------------------------------------------------------------------
\* Every variable keeps to its set (CaptureCoordinator, DryRunWorker).
TypeOK ==
    /\ phase \in {"log", "worker", "ui", "closing", "done"}
    /\ pc \in {"idle", "wait", "exit"}
    /\ scheduled \in Actions \cup {"none"} /\ left \in 0 .. 10
    /\ index \in 0 .. Len(Steps)
    /\ waiting \in {"none", "Open", "Closed", "Venting", "Position"}
    /\ {done, exitPending, stopEvent, hcpMoving, drawn, cancelled} \subseteq BOOLEAN
    /\ flight \in Seq(Actions \cup {"stop"})
    /\ plans \subseteq [text : STRING, pos : Places, cover : BOOLEAN]
    /\ goal \in Places \cup {"none"} /\ place \in Places \cup {"between"}
    /\ news \in Seq([text : STRING, moving : BOOLEAN, pos : Places \cup {"between"}])
    /\ half \in {"none", "text", "cover"}

\* The sequence has one thing under way: a step is either scheduled and not yet
\* sent, or sent and waited for, and each step is sent once and in order - the
\* lock is dropped between taking a step, sending it and waiting for it
\* (tick, on_sequence_command_sent, advance_sequence_).
OneStepAtATime ==
    /\ scheduled # "none" => waiting = "none" /\ index > 0 /\ sent = index - 1
    /\ waiting # "none" => sent = index
    /\ done => sent = Len(Steps)
    /\ sent <= index /\ index <= sent + 1

\* A step other than a vent is only left for the next one when the door has been
\* at the step's target since the command was handed over, although text and
\* cover report late, one without the other, and commands may fail
\* (service_sequence_wait_, update_hcp_state).
StepsAreReal ==
    [][(index > 0 /\ ~dry /\ waiting # "none" /\ waiting # "Venting"
         /\ waiting' = "none")
         => PlaceOf(Steps[index]) \in visited]_vars

\* After an exit that found the door at rest, or the end of the sequence, no
\* further command is handed over by the draw that is still to come
\* (on_exit, tick, draw).
QuietAfterExit ==
    [][(stopEvent /\ ~exitPending) => sent' = sent]_vars

\* Once the user has cancelled a step, no step is sent any more
\* (cancel_scheduled, start_or_cancel).
CancelSticks == [][cancelled => sent' = sent]_vars

\* A sequence that is not cancelled ends the run, also when commands fail, the
\* door never moves or nothing is reported (service_sequence_wait_).
EndsOnceStarted == (index > 0) ~> (phase = "done" \/ cancelled)
=============================================================================
