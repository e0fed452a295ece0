----------------------------- MODULE MCAnalyser -----------------------------
(* The logic analyser's verifier under the names it has beside the other      *)
(* tools of MCObservers, and the properties that its reports are held to.     *)
EXTENDS Integers
CONSTANTS Counters, Polls, Cycle, MaxDeHigh, ReSkew, MaxIgnore
VARIABLES laCap, laCounter, laPlay, laFault, laTruth, laIgnored, laReport

L == INSTANCE LaVerify WITH cap <- laCap, counter <- laCounter, play <- laPlay,
         fault <- laFault, truth <- laTruth, ignored <- laIgnored, report <- laReport
ASSUME AnalyserConstants == L!LaConstants

laVars == <<laCap, laCounter, laPlay, laFault, laTruth, laIgnored, laReport>>
AnalyserSpec == L!Init /\ [][L!Next]_laVars

\* A verifier that is content with a capture has seen every fault of the bus in it
\* (LaVerify!FaultIsFound: summarize_decoded_uart, summarize_tx_inside_de, ...).
FaultIsFound == L!FaultIsFound
\* A poll and its answer are paired as they were on the bus (LaVerify!PairsAreReal:
\* the latency pairing of summarize_decoded_uart).
PairsAreReal == L!PairsAreReal
=============================================================================
