--------------------------- MODULE MCGarageWizard ---------------------------
EXTENDS GarageWizard
\* Two positions, the second below the first.
MCTargets == <<"50", "25">>
=============================================================================
