------------------------------ MODULE LPEmulator ------------------------------
(***************************************************************************)
(* tools/hcp2_lp_emu/emulator.py: the LP core's firmware run instruction   *)
(* by instruction against a model of its UART and its RS-485 driver, with  *)
(* a simulated clock.  The UART is serviced lazily: the bytes that ended   *)
(* since are moved when the firmware touches a register, every Sync cycles *)
(* and at the end of a run, each as of the cycle at which it really ended. *)
(*                                                                         *)
(* All times are relative to now, in ticks of some thousand cycles.  The   *)
(* firmware is external (firmware/hcp2-lp/main/lp_core/hcp2_lp_core.c): it *)
(* reads a request, waits, drives the bus, sends and lets go of the bus.   *)
(***************************************************************************)
EXTENDS Integers, FiniteSets, SequencesExt

CONSTANTS
    Byte,         \* ticks of a byte on the wire (UART_BYTE_CYCLES)
    Sync,         \* ticks after which the block hook services the UART
    Depth,        \* bytes in each FIFO (16)
    FrameLen,     \* bytes of a request
    ReplyLen,     \* bytes of a reply
    Cap,          \* a read returns as soon as it has this many bytes (32)
    Delay,        \* the firmware's response delay
    Loop,         \* ticks of the firmware's delay call, fast-forwarded at once
    Deadline,     \* ticks a read waits
    Gap,          \* ticks of advance_time_us
    MaxWrites,    \* bound: requests written
    MaxFaults     \* bound: transmissions given up and resets of the core

\* What the constants must be (assumed by the modules that give them values).
EmulatorConstants ==
    /\ {Byte, Sync, Depth, FrameLen, ReplyLen, Cap, Delay, Loop, Deadline, Gap}
           \subseteq Nat \ {0}
    /\ MaxWrites \in Nat /\ MaxFaults \in Nat

\* Bound: how far back a request's end is remembered, longer than a clean reply takes
\* and is found.
Past == Delay + Byte + 3 * Loop + 1 + Sync + Gap

Reply == [i \in 1..ReplyLen |-> i]

VARIABLES
    uart,     \* wire, rx, tx, due, out, first, mark, de, low, ...
    fw,       \* the firmware (external): at, count, wait, left, spun
    caller,   \* the Python caller: at, left (ticks of its deadline or its gap)
    lat,      \* the reply latency recorded since the last request
    got,      \* what the last read returned, and why it returned
    writes, faults,     \* bounded counters
    trueLow,  \* history: bytes that really ended with the driver off
    torn,     \* history: a reply cut short whose bytes are still in the output
    mixed     \* history: a request written, or time skipped, with a reply owed
vars == <<uart, fw, caller, lat, got, writes, faults, trueLow, torn, mixed>>

-----------------------------------------------------------------------------
(* The UART. *)

\* The bytes on the wire whose end has come, and those of the TX FIFO.
Arrived(u) == Cardinality({i \in DOMAIN u.wire : u.wire[i] <= 0})
Ended(u) == Cardinality({i \in DOMAIN u.tx : u.due + (i - 1) * Byte <= 0})

\* _move_wire_to_rx: a byte that finds the FIFO full is lost.
MoveWireToRx(u) ==
    [u EXCEPT !.wire = SubSeq(@, Arrived(u) + 1, Len(@)),
              !.rx = IF @ + Arrived(u) <= Depth THEN @ + Arrived(u) ELSE Depth]

\* _drain_tx: every byte that has ended leaves the FIFO, as of the cycle it ended.
DrainTx(u) ==
    LET n == Ended(u) IN
    [u EXCEPT !.out = @ \o SubSeq(u.tx, 1, n),
              !.tx = SubSeq(@, n + 1, Len(@)),
              !.due = IF n = Len(u.tx) THEN Byte ELSE @ + n * Byte,
              !.first = @ \/ n > 0,
              !.low = IF u.de THEN @ ELSE @ + n]

ServiceSerial(u) == DrainTx(MoveWireToRx(u))

\* The latency _drain_tx records when the first byte since the last request ends.
\* Mutant of Recorded: the byte is taken to have ended when it is found.
MutRecorded(u) ==
    IF Ended(u) > 0 /\ ~u.first /\ u.written
    THEN [us |-> 0 - u.mark, mixed |-> mixed] ELSE lat
Recorded(u) ==
    IF Ended(u) > 0 /\ ~u.first /\ u.written
    THEN [us |-> u.due - u.mark, mixed |-> mixed] ELSE lat

\* What the firmware's registers do, after the service every access begins with.
\* Mutant of Accessed: a register access does not service the UART first.
MutAccessed(u) == u
Accessed(u) == ServiceSerial(u)

SetDe(u, on) == [Accessed(u) EXCEPT !.de = on]
WriteFifo(u, b) ==
    LET s == Accessed(u) IN
    IF Len(s.tx) >= Depth THEN s
    ELSE [s EXCEPT !.tx = Append(@, b), !.due = IF s.tx = <<>> THEN Byte ELSE @]
ReadFifo(u) == LET s == Accessed(u) IN [s EXCEPT !.rx = IF @ > 0 THEN @ - 1 ELSE 0]

\* n ticks pass; nothing is serviced.
Elapse(u, n) ==
    [u EXCEPT !.wire = [i \in DOMAIN @ |-> @[i] - n],
              !.due = IF u.tx = <<>> THEN @ ELSE @ - n,
              !.mark = IF @ - n > -Past THEN @ - n ELSE -Past]

SerialQuiescent(u) == u.wire = <<>> /\ u.rx = 0 /\ u.tx = <<>> /\ ~u.de

-----------------------------------------------------------------------------
NoLatency == [us |-> -1, mixed |-> TRUE]
Nothing == [bytes |-> <<>>, why |-> "none", torn |-> FALSE]

Init ==
    /\ uart = [wire |-> <<>>, rx |-> 0, tx |-> <<>>, due |-> Byte, out |-> <<>>,
               first |-> FALSE, written |-> FALSE, mark |-> 0, de |-> FALSE,
               low |-> 0, lag |-> 0]
    /\ fw = [at |-> "listen", count |-> 0, wait |-> 0, left |-> 1, spun |-> FALSE]
    /\ caller = [at |-> "idle", left |-> 0]
    /\ lat = NoLatency /\ got = Nothing
    /\ writes = 0 /\ faults = 0
    /\ trueLow = 0 /\ torn = FALSE /\ mixed = FALSE

\* Nothing of a request or a reply is under way.
Silent ==
    /\ uart.wire = <<>> /\ uart.rx = 0 /\ uart.tx = <<>>
    /\ fw.at = "listen" /\ fw.count = 0

-----------------------------------------------------------------------------
(* Time. *)

Less(t, n) == IF t > n THEN t - n ELSE 0

\* n ticks pass; the bytes that end meanwhile end with the driver as it is.
Clock(n, serviced, lag) ==
    LET e == Elapse(uart, n) IN
    /\ uart' = [(IF serviced THEN ServiceSerial(e) ELSE e) EXCEPT !.lag = lag]
    /\ lat' = IF serviced THEN Recorded(e) ELSE lat
    /\ trueLow' = IF uart.de THEN trueLow ELSE trueLow + (Ended(e) - Ended(uart))

\* _fast_forward does not count as the service the block hook waits for.
Later(n) == IF uart.lag + n < Sync THEN uart.lag + n ELSE Sync

Running == caller.at \in {"read", "settle", "extra"}

\* The firmware's own instructions: _hook_block counts the time and services the
\* UART once Sync ticks have passed since it last did.
Spin ==
    /\ Running
    /\ \/ ~fw.spun
       \/ fw.at = "send" /\ Len(uart.tx) = Depth
       \/ fw.at = "drain" /\ uart.tx # <<>>
    /\ IF uart.lag + 1 >= Sync THEN Clock(1, TRUE, 0) ELSE Clock(1, FALSE, uart.lag + 1)
    /\ fw' = [fw EXCEPT !.wait = Less(@, 1), !.spun = TRUE]
    /\ caller' = [caller EXCEPT !.left = Less(@, 1)]
    /\ UNCHANGED <<got, writes, faults, torn, mixed>>

\* The delay at the end of the firmware's loop: _fast_forward, in one go.
Sleep ==
    /\ Running
    /\ \/ fw.at = "listen" /\ ServiceSerial(uart).rx = 0
       \/ fw.at = "wait" /\ fw.wait > 0
    /\ Clock(Loop, TRUE, Later(Loop))
    /\ fw' = [fw EXCEPT !.wait = Less(@, Loop), !.spun = FALSE]
    /\ caller' = [caller EXCEPT !.left = Less(@, Loop)]
    /\ UNCHANGED <<got, writes, faults, torn, mixed>>

-----------------------------------------------------------------------------
(* The firmware at its registers. *)

Touch(u, next) ==
    /\ Running
    /\ uart' = u /\ lat' = Recorded(uart)
    /\ fw' = [next EXCEPT !.spun = FALSE]
    /\ UNCHANGED <<caller, got, writes, trueLow, mixed>>

\* It takes a byte; the last one of a request starts the response delay.
Take ==
    /\ fw.at = "listen" /\ Accessed(uart).rx > 0
    /\ Touch(ReadFifo(uart),
             IF fw.count + 1 < FrameLen THEN [fw EXCEPT !.count = @ + 1]
             ELSE [fw EXCEPT !.at = "wait", !.count = 0, !.wait = Delay])
    /\ UNCHANGED <<faults, torn>>

DriveOn ==
    /\ fw.at = "wait" /\ fw.wait = 0
    /\ Touch(SetDe(uart, TRUE), [fw EXCEPT !.at = "send", !.left = 1])
    /\ UNCHANGED <<faults, torn>>

Push ==
    /\ fw.at = "send" /\ Len(Accessed(uart).tx) < Depth
    /\ Touch(WriteFifo(uart, Reply[fw.left]),
             IF fw.left < ReplyLen THEN [fw EXCEPT !.left = @ + 1]
             ELSE [fw EXCEPT !.at = "drain"])
    /\ UNCHANGED <<faults, torn>>

Released(u) == [SetDe(u, FALSE) EXCEPT !.rx = 0]
DriveOff ==
    /\ fw.at = "drain" /\ Accessed(uart).tx = <<>>
    /\ Touch(Released(uart), [fw EXCEPT !.at = "listen"])
    /\ UNCHANGED <<faults, torn>>

\* Its deadman: the driver is released whatever is still in the FIFO.
GiveUp ==
    /\ fw.at \in {"send", "drain"} /\ faults < MaxFaults
    /\ Touch(Released(uart), [fw EXCEPT !.at = "listen"])
    /\ torn' = (torn \/ fw.at = "send")
    /\ faults' = faults + 1

-----------------------------------------------------------------------------
(* The caller. *)

\* write_uart: the bytes end one after the other, after those still on the wire.
FirstDue(u) == IF u.wire # <<>> /\ Last(u.wire) > 0 THEN Last(u.wire) ELSE 0
Write ==
    /\ caller.at = "idle" /\ writes < MaxWrites
    /\ LET dues == [i \in 1..FrameLen |-> FirstDue(uart) + i * Byte] IN
       uart' = [uart EXCEPT !.wire = @ \o dues, !.first = FALSE,
                            !.written = TRUE, !.mark = Last(dues)]
    /\ writes' = writes + 1
    /\ mixed' = ~Silent
    /\ lat' = NoLatency /\ got' = Nothing
    /\ UNCHANGED <<fw, caller, faults, trueLow, torn>>

Read ==
    /\ caller.at = "idle"
    /\ caller' = [at |-> "read", left |-> Deadline]
    /\ got' = Nothing
    /\ UNCHANGED <<uart, fw, lat, writes, faults, trueLow, torn, mixed>>

\* read_uart_available, between two runs: what there is is returned once the reply
\* has left, once there is much of it, or when the time is up.
\* Mutant of ReplyHasLeft: what there is, is the reply.
MutReplyHasLeft(u) == TRUE
ReplyHasLeft(u) == u.tx = <<>> /\ ~u.de
WhyReturn(u) ==
    CASE u.out # <<>> /\ ReplyHasLeft(u) -> "quiet"
      [] Len(u.out) >= Cap -> "cap"
      [] caller.left = 0 -> "deadline"
      [] OTHER -> "go on"

ReadReturns ==
    /\ caller.at = "read"
    /\ LET s == ServiceSerial(uart) IN
       /\ WhyReturn(s) # "go on"
       /\ got' = [bytes |-> s.out, why |-> WhyReturn(s), torn |-> torn]
       /\ uart' = [s EXCEPT !.out = <<>>]
       /\ torn' = (torn /\ s.tx # <<>>)
    /\ lat' = Recorded(uart)
    /\ caller' = [at |-> "idle", left |-> 0]
    /\ UNCHANGED <<fw, writes, faults, trueLow, mixed>>

\* advance_time_us: at once if the UART is quiet, else after it has become so and
\* one more run; then the rest of the gap is skipped.
AdvanceTime ==
    /\ caller.at = "idle"
    /\ uart' = ServiceSerial(uart) /\ lat' = Recorded(uart)
    /\ caller' = [at |-> IF SerialQuiescent(uart') THEN "skip" ELSE "settle", left |-> Gap]
    /\ got' = Nothing
    /\ UNCHANGED <<fw, writes, faults, trueLow, torn, mixed>>

Settled ==
    /\ caller.at = "settle"
    /\ uart' = ServiceSerial(uart) /\ lat' = Recorded(uart)
    /\ SerialQuiescent(uart')
    /\ caller' = [caller EXCEPT !.at = "extra"]
    /\ UNCHANGED <<fw, got, writes, faults, trueLow, torn, mixed>>

RunEnds ==
    /\ caller.at = "extra"
    /\ uart' = ServiceSerial(uart) /\ lat' = Recorded(uart)
    /\ caller' = [caller EXCEPT !.at = "skip"]
    /\ UNCHANGED <<fw, got, writes, faults, trueLow, torn, mixed>>

Skip ==
    /\ caller.at = "skip"
    /\ Clock(caller.left, TRUE, Later(caller.left))
    /\ fw' = [fw EXCEPT !.wait = Less(@, caller.left)]
    /\ caller' = [at |-> "idle", left |-> 0]
    /\ mixed' = (mixed \/ ~Silent)
    /\ UNCHANGED <<got, writes, faults, torn>>

\* lp_reset: the transmitter and the driver are cleared; what was received, and
\* what is still on the wire, stays.
LpReset ==
    /\ caller.at = "idle" /\ faults < MaxFaults
    /\ uart' = ServiceSerial([uart EXCEPT !.tx = <<>>, !.due = Byte, !.first = FALSE, !.de = FALSE])
    /\ fw' = [fw EXCEPT !.at = "listen", !.count = 0, !.wait = 0, !.spun = FALSE]
    /\ torn' = (torn \/ fw.at = "send" \/ uart.tx # <<>>)
    /\ mixed' = (mixed \/ ~Silent)
    /\ faults' = faults + 1
    /\ UNCHANGED <<caller, lat, got, writes, trueLow>>

Next ==
    \/ Spin \/ Sleep \/ Take \/ DriveOn \/ Push \/ DriveOff \/ GiveUp
    \/ Write \/ Read \/ ReadReturns
    \/ AdvanceTime \/ Settled \/ RunEnds \/ Skip \/ LpReset

Spec == Init /\ [][Next]_vars

-----------------------------------------------------------------------------
(* Properties. *)

\* The state stays in its types: neither FIFO holds more than it has room for, and
\* the transmitter has an end for its byte exactly when it has one.
TypeOK ==
    /\ uart.rx \in 0..Depth /\ Len(uart.tx) <= Depth
    /\ \A i \in DOMAIN uart.tx : uart.tx[i] \in 1..ReplyLen
    /\ Len(uart.wire) <= MaxWrites * FrameLen
    /\ uart.tx = <<>> => uart.due = Byte
    /\ fw.at \in {"listen", "wait", "send", "drain"} /\ fw.count \in 0..(FrameLen - 1)
    /\ caller.at \in {"idle", "read", "settle", "extra", "skip"}
    /\ writes \in 0..MaxWrites /\ faults \in 0..MaxFaults

\* The count of bytes sent with the driver off is the count of those that ended
\* while it was off, although the FIFO is emptied later than they ended and the
\* driver may have been switched in between (_drain_tx, _hook_mem_write).
DriverLowIsExact ==
    uart.low + (IF uart.de THEN 0 ELSE Ended(uart)) = trueLow

\* A read that returns because the reply has left returns it to its last byte,
\* unless the firmware gave it up or was reset in it (read_uart_available).
WholeReply ==
    got.why = "quiet" /\ ~got.torn => Last(got.bytes) = ReplyLen

\* The latency recorded for a request is the response delay and a byte, and at most
\* two loops of the firmware and a tick, however late the UART was
\* serviced, unless requests overlapped or time was skipped with a reply owed
\* (write_uart, _drain_tx, advance_time_us).
LatencyIsTheFirmwares ==
    ~lat.mixed => lat.us \in (Delay + Byte)..(Delay + Byte + 2 * Loop + 1)

=============================================================================
