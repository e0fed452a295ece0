---------------------------- MODULE MCSimulators ----------------------------
(* The two halves of a simulated bench: the SupraMatic drive simulator and the *)
(* LP core emulator that it may talk to.  Each behaviour is one half's, driven *)
(* by every accessory, and by every caller, it can meet; the other keeps one   *)
(* initial state.                                                              *)
EXTENDS MCSupraMaticSim
CONSTANTS Byte, Sync, Depth, FrameLen, ReplyLen, Cap, Delay, Loop, Deadline, Gap,
          MaxWrites, MaxFaults
VARIABLES which, uart, fw, caller, lat, got, writes, faults, trueLow, torn, mixed

E == INSTANCE LPEmulator
ASSUME HalvesConstants == E!EmulatorConstants

emuVars == <<uart, fw, caller, lat, got, writes, faults, trueLow, torn, mixed>>
allVars == <<which, vars, emuVars>>

SimulatorsInit ==
    /\ which \in {"simulator", "emulator"}
    /\ Init /\ E!Init
    /\ which # "simulator" =>
           /\ scenario = "steady" /\ door = FirstDoor("steady", "immediate_reverse")
           /\ ~strict /\ ~emulate /\ ~abortOnMiss /\ ~legacyLight

Simulator == which = "simulator" /\ Next /\ UNCHANGED <<which, emuVars>>
Emulator == which = "emulator" /\ E!Next /\ UNCHANGED <<which, vars>>
SimulatorsNext == Simulator \/ Emulator

SimulatorsSpec == SimulatorsInit /\ [][SimulatorsNext]_allVars

\* SupraMaticSim's own properties are checked under their names; these are the
\* emulator's.

\* The count of bytes sent with the driver off is exact however late the UART was
\* serviced (LPEmulator!DriverLowIsExact: _drain_tx, _hook_mem_write).
DriverLowIsExact == E!DriverLowIsExact
\* A read that returns because the reply has left returns all of it
\* (LPEmulator!WholeReply: read_uart_available).
WholeReply == E!WholeReply
\* The latency recorded is the firmware's response delay (LPEmulator!
\* LatencyIsTheFirmwares: write_uart, _drain_tx, advance_time_us).
LatencyIsTheFirmwares == E!LatencyIsTheFirmwares
=============================================================================
