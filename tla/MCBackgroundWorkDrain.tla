----------------------- MODULE MCBackgroundWorkDrain -----------------------
EXTENDS BackgroundWorkDrain

CONSTANTS c1, c2

TwoCallers == {c1, c2}
=============================================================================
