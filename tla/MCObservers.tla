----------------------------- MODULE MCObservers -----------------------------
(* The tools that watch a bench and judge what they see: the HIL session, the *)
(* logic analyser's verifier and the debug server's stand-in.  They share no  *)
(* state; each behaviour is one tool's, the others keep one initial state.    *)
EXTENDS MCHilSession, MCAnalyser
CONSTANTS Clients, NoClient, RecentCap, MaxBatches, MaxOps
VARIABLES which,
    mScenario, mLog, mSeq, mRecent, mFaults, mActive, mPc, mStop, mSock,
    mFailing, mBatch, mGot, mGap, mHealth, mTakeovers, mOps

M == INSTANCE DebugMock WITH None <- NoClient, scenario <- mScenario, logEnabled <- mLog,
         seq <- mSeq, recent <- mRecent, faults <- mFaults, wsActive <- mActive, pc <- mPc,
         stop <- mStop, sock <- mSock, failing <- mFailing, batch <- mBatch, got <- mGot,
         gap <- mGap, health <- mHealth, takeovers <- mTakeovers, ops <- mOps
ASSUME ObserverConstants == M!MockConstants

mVars == <<mScenario, mLog, mSeq, mRecent, mFaults, mActive, mPc, mStop, mSock,
           mFailing, mBatch, mGot, mGap, mHealth, mTakeovers, mOps>>
allVars == <<which, vars, laVars, mVars>>

Observers == {"session", "analyser", "mock"}
ObserversInit ==
    /\ which \in Observers
    /\ Init /\ (which # "session" => tool = "hil_load")
    /\ L!Init /\ (which # "analyser" => laCounter = 1)
    /\ M!Init /\ (which # "mock" => mScenario = CHOOSE s \in M!Scenarios : TRUE)

Session == which = "session" /\ Next /\ UNCHANGED <<which, laVars, mVars>>
Analyser == which = "analyser" /\ L!Next /\ UNCHANGED <<which, vars, mVars>>
Mock == which = "mock" /\ M!Next /\ UNCHANGED <<which, vars, laVars>>
ObserversNext == Session \/ Analyser \/ Mock

ObserversSpec == ObserversInit /\ [][ObserversNext]_allVars

\* HilSession's properties are checked under their names, and the verifier's under those
\* of MCAnalyser; these are the mock's.

\* One browser is fed, and the server remembers it (DebugMock!OneFeed: _handle_ws,
\* _release_ws).
OneFeed == M!OneFeed
\* A batch is missed only after a takeover (DebugMock!GapNeedsTakeover: _push_loop).
GapNeedsTakeover == M!GapNeedsTakeover
\* A failing health message shows the counter it fails for (DebugMock!FailShowsCause:
\* MockState.health).
FailShowsCause == M!FailShowsCause
=============================================================================
