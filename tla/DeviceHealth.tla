---------------------------- MODULE DeviceHealth ----------------------------
(***************************************************************************)
(* classify_device_health of tools/hcp2_hil_load.py: the host's judgement of *)
(* the answer of the bridge's /health.  A payload keeps what the judgement   *)
(* tells apart: counters that must be zero are one flag, and so are the four *)
(* link conditions (lp_mode, lp_seen, bus_online, valid_broadcast).          *)
(* Pure: no state.                                                           *)
(***************************************************************************)
EXTENDS Naturals

Tolerable == {"lp_health_flags", "rx_starvations"}    \* allowed_firmware_reasons
Reasons == Tolerable \cup {"missed_polls"}

Payload == [verdict : {"ok", "fail"}, safe : BOOLEAN, reasons : SUBSET Reasons,
            linked : BOOLEAN, active : BOOLEAN, raw : 0 .. 2, pending : BOOLEAN,
            stale : BOOLEAN, sticky : BOOLEAN, starved : BOOLEAN]

\* A firmware that fails only because an OTA restart is not safe gives no reason.
LegacyOtaOnly(p) == p.verdict = "fail" /\ ~p.safe /\ p.reasons = {}
FirmwareOk(p) == p.verdict = "ok" \/ LegacyOtaOnly(p)

\* What blocks, in the order the code looks: each later diagnostic is excused
\* only as long as nothing before it blocked.
Broken(p) == ~p.linked \/ p.active
\* Mutant: one raw miss is excused although no response is pending.
MutPollExcused(p) == p.raw = 1 /\ FirmwareOk(p) /\ ~Broken(p)
PollExcused(p) == p.raw = 1 /\ p.pending /\ FirmwareOk(p) /\ ~Broken(p)
\* Mutant: only a single raw miss is looked at.
MutPollsLost(p) == Broken(p) \/ (p.raw = 1 /\ ~PollExcused(p)) \/ p.stale
PollsLost(p) == Broken(p) \/ (p.raw # 0 /\ ~PollExcused(p)) \/ p.stale
StickyBlocks(p) == p.sticky /\ ~(FirmwareOk(p) /\ ~PollsLost(p))
StarvedBlocks(p, faultExpected) ==
    p.starved /\ ~((FirmwareOk(p) \/ faultExpected) /\ ~PollsLost(p) /\ ~StickyBlocks(p))
ReasonBlocks(p, faultExpected) ==
    ~(p.reasons \subseteq IF faultExpected \/ FirmwareOk(p) THEN Tolerable ELSE {})

Blocked(p, faultExpected) ==
    PollsLost(p) \/ StickyBlocks(p) \/ StarvedBlocks(p, faultExpected) \/ ReasonBlocks(p, faultExpected)
Warned(p) == p.raw # 0 \/ p.sticky \/ p.starved

\* A failure without any reason still fails, unless there is a warning to show.
Unexplained(p) == p.verdict = "fail" /\ p.reasons = {} /\ ~LegacyOtaOnly(p)
Fails(p, faultExpected) ==
    Blocked(p, faultExpected) \/ (Unexplained(p) /\ ~Warned(p))

Classify(p, faultExpected) == IF Fails(p, faultExpected) THEN "fail"
                              ELSE IF Warned(p) THEN "warn" ELSE "ok"

----------------------------------------------------------------------------
\* One more thing to report, or one thing less that is good.
OneWorse(p) ==
    {[p EXCEPT !.verdict = "fail"], [p EXCEPT !.linked = FALSE], [p EXCEPT !.active = TRUE],
     [p EXCEPT !.stale = TRUE], [p EXCEPT !.sticky = TRUE], [p EXCEPT !.starved = TRUE],
     [p EXCEPT !.raw = IF @ = 0 THEN 1 ELSE 2]}
    \cup {[p EXCEPT !.reasons = @ \cup {r}] : r \in Reasons}
=============================================================================
