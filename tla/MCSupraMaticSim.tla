--------------------------- MODULE MCSupraMaticSim ---------------------------
EXTENDS SupraMaticSim
\* The scenarios with two buttons, the goto, the obstruction, the positions on
\* the way, and the one without any button.
MCScenarios == {"steady", "goto-position", "reverse-open-to-close",
                "reverse-close-to-open", "closing-obstruction",
                "stop-mid-opening", "half-position", "light-toggle"}
\* Some runs expect a button they may lose, the others expect none.
MCExpected == [s \in MCScenarios |->
    IF s = "reverse-open-to-close" THEN {"open", "close"}
    ELSE IF s = "goto-position" THEN {"stop"} ELSE {}]
=============================================================================
