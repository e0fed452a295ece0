----------------------------- MODULE MCSessions -----------------------------
(* The tools that run a session at the door and record it: the phone-video     *)
(* sync capture, the garage test wizard and the timing calibration.  Each      *)
(* behaviour is one tool's, for one session; the others keep one initial state.*)
EXTENDS Integers
CONSTANTS Steps, InitialDelay, SettleDelay, MotionTimeout, VentTimeout, VentObserve,
          ExitGrace, MaxSpace, MaxQuit, MaxFailures,
          Targets, Attempts, MaxFails, Sequence, Tries, MaxMisses
VARIABLES used,
    phase, dry, logOn, logStarted, pc, drawn, scheduled, left, index, waiting, waited,
    done, exitPending, grace, stopEvent, hcpText, hcpMoving, hcpPos, news, half,
    flight, plans,
    place, goal, spaces, quits, failures, sent, cancelled, visited,
    wHa, wPart, wAt, wStage, wExit, wLog, wStops, wDoor, wLate, wRows, wDisk, wFails,
    tPc, tI, tTried, tMisses, tRecording, tPlace, tReports, tText, tJson, tBin, tSeen

P == INSTANCE PhoneSync
W == INSTANCE GarageWizard WITH ha <- wHa, part <- wPart, at <- wAt, stage <- wStage,
         exit <- wExit, log <- wLog, stops <- wStops, door <- wDoor, late <- wLate,
         rows <- wRows, disk <- wDisk, fails <- wFails
T == INSTANCE TimingCalibration WITH pc <- tPc, i <- tI, tried <- tTried,
         misses <- tMisses, recording <- tRecording, place <- tPlace,
         reports <- tReports, text <- tText, json <- tJson, bin <- tBin, seen <- tSeen
ASSUME SessionConstants ==
    P!SyncConstants /\ W!WizardConstants /\ T!CalibrationConstants

phoneVars == <<phase, dry, logOn, logStarted, pc, drawn, scheduled, left, index, waiting,
               waited, done, exitPending, grace, stopEvent, hcpText, hcpMoving, hcpPos,
               news, half, flight, plans, place, goal, spaces, quits, failures, sent, cancelled, visited>>
wizardVars == <<wHa, wPart, wAt, wStage, wExit, wLog, wStops, wDoor, wLate, wRows,
                wDisk, wFails>>
timingVars == <<tPc, tI, tTried, tMisses, tRecording, tPlace, tReports, tText, tJson,
                tBin, tSeen>>
sessionVars == <<used, phoneVars, wizardVars, timingVars>>

\* An end taken twice, a target position and a vent; two positions, the second below.
MCSteps == <<"open", "target", "open", "vent">>
MCTargets == <<"50", "25">>
MCSequence == <<"open", "closed", "open">>

SessionsInit ==
    /\ used \in {"phone", "wizard", "timing"}
    /\ P!Init /\ (used # "phone" => ~dry /\ place = "closed")
    /\ W!Init /\ (used # "wizard" => wHa /\ wLog = "off")
    /\ T!Init /\ (used # "timing" => ~tRecording /\ tPlace = "closed")

Phone == used = "phone" /\ P!Next /\ UNCHANGED <<used, wizardVars, timingVars>>
Wizard == used = "wizard" /\ W!Next /\ UNCHANGED <<used, phoneVars, timingVars>>
Timing == used = "timing" /\ T!Next /\ UNCHANGED <<used, phoneVars, wizardVars>>
SessionsNext == Phone \/ Wizard \/ Timing

\* PhoneSync's fairness, asked of the behaviours that are its.
Fairly(A) == used = "phone" /\ A
SessionsSpec ==
    /\ SessionsInit /\ [][SessionsNext]_sessionVars
    /\ WF_phoneVars(Fairly(P!Draw)) /\ WF_phoneVars(Fairly(P!Period))
    /\ WF_phoneVars(Fairly(P!Unreachable \/ P!StartLog \/ P!StartWorker \/ P!Close))

\* The tools' own properties, of the behaviours in which they are used.

\* A step other than a vent is only left for the next when the door has been at its
\* target since (PhoneSync!StepsAreReal: service_sequence_wait_, update_hcp_state).
StepsAreReal == P!StepsAreReal
\* After a cancel no step is sent (PhoneSync!CancelSticks: cancel_scheduled).
CancelSticks == P!CancelSticks
\* A sequence that is not cancelled ends the run (PhoneSync!EndsOnceStarted:
\* service_sequence_wait_).
EndsOnceStarted == P!EndsOnceStarted
\* A measurement is of the place it names (GarageWizard!MeasuresWhatItNames: the run_
\* functions, command_cover, command_position, measure_height).
MeasuresWhatItNames == W!MeasuresWhatItNames
\* A session that ends leaves the ESP recording only if every stop was lost
\* (GarageWizard!RecordingEnds: run_all, finish, stop_and_download_recording).
RecordingEnds == W!RecordingEnds
\* What is analysed was recorded (TimingCalibration!AnalysedIsRecorded: run_cycle).
AnalysedIsRecorded == T!AnalysedIsRecorded
=============================================================================
