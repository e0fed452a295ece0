------------------------------ MODULE DebugMock ------------------------------
(***************************************************************************)
(* tools/hcp2_debug_mock_server.py: a stand-in for the debug HTTP server of *)
(* the bridge, whose generator of records is driven by the push loop of the *)
(* one WebSocket client it admits.  Every connection is a thread of its own *)
(* (ThreadingHTTPServer).  A second client is refused, or takes the place   *)
(* of the first; the first then runs until it notices.  Log requests come   *)
(* at any time; health is read in two critical sections.                    *)
(* A batch of records is one number here.                                   *)
(***************************************************************************)
EXTENDS Integers, Sequences

CONSTANTS Clients,          \* browsers that ask for the WebSocket
          None,
          RecentCap,        \* recent_cap, in batches
          MaxBatches,       \* bound: batches generated
          MaxOps            \* bound: /hcp2_log/start, stop and clear requests

\* What the constants must be (assumed by the modules that give them values).
MockConstants ==
    /\ None \notin Clients /\ {RecentCap, MaxBatches, MaxOps} \subseteq Nat \ {0}

VARIABLES
    scenario,
    logEnabled, seq, recent, faults,      \* MockState; faults: 1 once one is counted
    wsActive,                             \* the server
    pc, stop, sock,                       \* WsClient and its connection, by browser
    failing, batch,                       \* locals: reasons found; batch to send
    got, gap,                             \* history: newest batch a client got
    health, takeovers, ops                \* history: last health message; bound

state == <<scenario, logEnabled, seq, faults, recent>>
locals == <<failing, batch>>
history == <<got, gap, health, takeovers>>
vars == <<state, wsActive, pc, stop, sock, locals, history, ops>>

\* What the generator and the loops tell apart: scenarios that count a fault, that
\* cut the connection, that fail without one; a loop that feeds nothing ("stale")
\* is a behaviour of the others.
Scenarios == {"nominal", "faults", "disconnect", "hp_fallback"}

NoHealth == [fail |-> FALSE, faults |-> 0]
Init ==
    /\ scenario \in Scenarios
    /\ logEnabled = TRUE /\ seq = 0 /\ faults = 0 /\ recent = <<>>
    /\ wsActive = None
    /\ pc = [c \in Clients |-> "new"]
    /\ stop = [c \in Clients |-> FALSE]
    /\ sock = [c \in Clients |-> "up"]
    /\ failing = [c \in Clients |-> FALSE] /\ batch = [c \in Clients |-> 0]
    /\ got = [c \in Clients |-> 0] /\ gap = [c \in Clients |-> FALSE]
    /\ health = NoHealth /\ takeovers = FALSE /\ ops = 0

Goto(c, l) == pc' = [pc EXCEPT ![c] = l]

----------------------------------------------------------------------------
\* _handle_ws, its critical section: admitted, refused (409) or a takeover.
\* Mutant: the client replaced is not told to stop.
MutTakeOver(c) ==
    /\ sock' = [sock EXCEPT ![wsActive] = IF @ = "up" THEN "shut" ELSE @]
    /\ UNCHANGED stop
    /\ takeovers' = TRUE
TakeOver(c) ==
    /\ stop' = [stop EXCEPT ![wsActive] = TRUE]
    /\ sock' = [sock EXCEPT ![wsActive] = IF @ = "up" THEN "shut" ELSE @]
    /\ takeovers' = TRUE
\* Mutant: two clients are admitted side by side.
MutAdmit(c) ==
    /\ wsActive' = c
    /\ Goto(c, "handshake")
    /\ UNCHANGED <<stop, sock, takeovers>>
Admit(c) ==
    \/ /\ wsActive = None
       /\ wsActive' = c
       /\ Goto(c, "handshake")
       /\ UNCHANGED <<stop, sock, takeovers>>
    \/ /\ wsActive # None                         \* ?replace=1
       /\ TakeOver(c)
       /\ wsActive' = c
       /\ Goto(c, "handshake")
    \/ /\ wsActive # None
       /\ Goto(c, "gone")
       /\ UNCHANGED <<wsActive, stop, sock, takeovers>>
HandleWs(c) ==
    /\ pc[c] = "new"
    /\ Admit(c)
    /\ UNCHANGED <<state, locals, got, gap, health, ops>>

\* A write to the connection: it fails when the socket is shut, and may or may
\* not be noticed to fail when the browser has gone.
Writes(c) == CASE sock[c] = "up" -> {TRUE} [] sock[c] = "shut" -> {FALSE}
               [] sock[c] = "lost" -> BOOLEAN

\* _handle_ws after the lock: the 101 answer.
Handshake(c) ==
    /\ pc[c] = "handshake"
    /\ \E ok \in Writes(c) : Goto(c, IF ok THEN "loop" ELSE "release")
    /\ UNCHANGED <<state, wsActive, stop, sock, locals, history, ops>>

\* _push_loop, its head: told to stop, the scripted disconnect, or what is due.
Loop(c) ==
    /\ pc[c] = "loop"
    /\ IF stop[c] THEN Goto(c, "release")
       ELSE \/ \E due \in {"health", "log", "recv"} : Goto(c, due)
            \/ scenario = "disconnect" /\ Goto(c, "release")
    /\ health' = NoHealth
    /\ UNCHANGED <<state, wsActive, stop, sock, locals, got, gap, takeovers, ops>>

\* MockState.health: the reasons are read first and without the lock, the
\* counters under it and later.
Reasons(c) ==
    /\ pc[c] = "health"
    /\ failing' = [failing EXCEPT ![c] = faults > 0 \/ scenario = "hp_fallback"]
    /\ Goto(c, "stats")
    /\ UNCHANGED <<state, wsActive, stop, sock, batch, history, ops>>
\* Mutant: the counters of the message are the cleared ones of a new log.
MutCounted == IF recent = <<>> THEN 0 ELSE faults
Counted == faults
Stats(c) ==
    /\ pc[c] = "stats"
    /\ \E ok \in Writes(c) :
         /\ health' = IF ok THEN [fail |-> failing[c], faults |-> Counted] ELSE health
         /\ \E due \in {"log", "recv"} : Goto(c, IF ok THEN due ELSE "release")
    /\ failing' = [failing EXCEPT ![c] = FALSE]
    /\ UNCHANGED <<state, wsActive, stop, sock, batch, got, gap, takeovers, ops>>

\* generate_batch: whether the log is on is looked at before the lock is taken.
LogGate(c) ==
    /\ pc[c] = "log"
    /\ Goto(c, IF logEnabled /\ seq < MaxBatches THEN "generate" ELSE "recv")
    /\ UNCHANGED <<state, wsActive, stop, sock, locals, history, ops>>
\* recent, cut to its cap.
\* Mutants: the oldest are kept; all are kept.
MutUncut(s) == s
MutNewest(s) == IF Len(s) > RecentCap THEN SubSeq(s, 1, RecentCap) ELSE s
Newest(s) == IF Len(s) > RecentCap THEN SubSeq(s, Len(s) - RecentCap + 1, Len(s)) ELSE s
Generate(c) ==
    /\ pc[c] = "generate"
    /\ seq' = seq + 1
    /\ faults' \in IF scenario = "faults" THEN {faults, 1} ELSE {faults}
    /\ recent' = Newest(Append(recent, seq'))
    /\ batch' = [batch EXCEPT ![c] = seq']
    /\ Goto(c, "send")
    /\ UNCHANGED <<scenario, logEnabled, wsActive, stop, sock, failing, history, ops>>
Send(c) ==
    /\ pc[c] = "send"
    /\ \E ok \in Writes(c) :
         /\ Goto(c, IF ok THEN "recv" ELSE "release")
         /\ IF ok THEN /\ got' = [got EXCEPT ![c] = batch[c]]
                       /\ gap' = [gap EXCEPT ![c] = @ \/ (got[c] # 0 /\ batch[c] # got[c] + 1)]
                  ELSE UNCHANGED <<got, gap>>
    /\ batch' = [batch EXCEPT ![c] = 0]
    /\ UNCHANGED <<state, wsActive, stop, sock, failing, health, takeovers, ops>>

\* The recv at the end of the loop: a closed or shut connection ends it.
\* Mutant: an orderly close by the browser is not noticed.
MutClosed(c) == sock[c] = "shut"
Closed(c) == sock[c] # "up"
Recv(c) ==
    /\ pc[c] = "recv"
    /\ Goto(c, IF Closed(c) THEN "release" ELSE "loop")
    /\ UNCHANGED <<state, wsActive, stop, sock, locals, history, ops>>

\* _release_ws: only the owner of the place gives it up.
\* Mutant: whoever leaves clears it.
MutStillMine(c) == wsActive # None
StillMine(c) == wsActive = c
\* Mutant: a loop that is no longer the owner does not leave.
MutRelease(c) ==
    /\ pc[c] = "release" /\ wsActive = c
    /\ wsActive' = None
    /\ sock' = [sock EXCEPT ![c] = "shut"]
    /\ Goto(c, "gone")
    /\ UNCHANGED <<state, stop, locals, history, ops>>
Release(c) ==
    /\ pc[c] = "release"
    /\ wsActive' = IF StillMine(c) THEN None ELSE wsActive
    /\ sock' = [sock EXCEPT ![c] = "shut"]
    /\ Goto(c, "gone")
    /\ UNCHANGED <<state, stop, locals, history, ops>>

----------------------------------------------------------------------------
\* External: the browser closes its connection.
BrowserCloses(c) ==
    /\ pc[c] \notin {"new", "gone"} /\ sock[c] = "up"
    /\ sock' = [sock EXCEPT ![c] = "lost"]
    /\ UNCHANGED <<state, wsActive, pc, stop, locals, history, ops>>

\* External: a browser opens another connection.
Reconnect(c) ==
    /\ pc[c] = "gone"
    /\ Goto(c, "new")
    /\ stop' = [stop EXCEPT ![c] = FALSE] /\ sock' = [sock EXCEPT ![c] = "up"]
    /\ got' = [got EXCEPT ![c] = 0] /\ gap' = [gap EXCEPT ![c] = FALSE]
    /\ UNCHANGED <<state, wsActive, locals, health, takeovers, ops>>

\* do_GET: start and stop write the flag without the lock, clear takes it.
LogRequest ==
    /\ ops < MaxOps
    /\ ops' = ops + 1
    /\ \/ logEnabled' \in BOOLEAN /\ UNCHANGED recent
       \/ recent' = <<>> /\ UNCHANGED logEnabled
    /\ UNCHANGED <<scenario, seq, faults, wsActive, pc, stop, sock, locals, history>>

Thread(c) == \/ Handshake(c) \/ Loop(c) \/ Reasons(c) \/ Stats(c) \/ LogGate(c)
             \/ Generate(c) \/ Send(c) \/ Recv(c) \/ Release(c)
Next == \/ \E c \in Clients :
              \/ HandleWs(c) \/ Handshake(c) \/ Loop(c) \/ Reasons(c) \/ Stats(c)
              \/ LogGate(c) \/ Generate(c) \/ Send(c) \/ Recv(c) \/ Release(c)
              \/ BrowserCloses(c) \/ Reconnect(c)
        \/ LogRequest

Spec == Init /\ [][Next]_vars
\* Every handler thread keeps running.
FairSpec == Spec /\ \A c \in Clients : WF_vars(Thread(c))

----------------------------------------------------------------------------
Running(c) == pc[c] \notin {"new", "gone"}

\* Every variable keeps to its set (MockState, WsClient).
TypeOK ==
    /\ scenario \in Scenarios /\ logEnabled \in BOOLEAN
    /\ seq \in 0 .. MaxBatches + 2 /\ faults \in 0 .. 1
    /\ wsActive \in Clients \cup {None}
    /\ \A i \in DOMAIN recent : recent[i] \in 1 .. seq
    /\ Len(recent) <= RecentCap
    /\ pc \in [Clients -> {"new", "handshake", "loop", "health", "stats", "log", "generate",
                           "send", "recv", "release", "gone"}]
    /\ stop \in [Clients -> BOOLEAN] /\ sock \in [Clients -> {"up", "shut", "lost"}]
    /\ batch \in [Clients -> 0 .. seq] /\ got \in [Clients -> 0 .. seq]

\* At any time one client is being fed that has not been told to leave, and it
\* is the one the server remembers: the loop of a client that was replaced may
\* still be running and may release late, without taking the place from its
\* successor (_handle_ws, _release_ws).
OneFeed ==
    /\ \A c \in Clients : Running(c) /\ ~stop[c] => wsActive = c
    /\ wsActive # None => Running(wsActive) /\ ~stop[wsActive]

\* What /hcp2_log serves is an unbroken run of batches that ends with the newest
\* one, whichever loops generated them (generate_batch, /hcp2_log/clear).
RecentIsTheTail ==
    recent # <<>> =>
        /\ recent[Len(recent)] = seq
        /\ \A i \in 1 .. Len(recent) - 1 : recent[i + 1] = recent[i] + 1

\* A client misses a batch only if some client was replaced: the loop of the
\* replaced one has generated what nobody gets (_push_loop).
GapNeedsTakeover == (\E c \in Clients : gap[c]) => takeovers

\* A health message that reports a failure shows the counter it failed for,
\* although reasons and counters are not read together (MockState.health).
FailShowsCause == health.fail => health.faults > 0 \/ scenario = "hp_fallback"

\* A client that has been replaced, and one whose browser has gone, leave, and
\* the place does not stay taken (_push_loop).
ReplacedLeaves == \A c \in Clients : stop[c] ~> pc[c] = "gone"
LostFreesThePlace == \A c \in Clients : (sock[c] = "lost") ~> (wsActive # c)
=============================================================================
