----------------------------- MODULE MCDataPath -----------------------------
EXTENDS DataPath

\* The input, as a value of ChunksOf: two files of one chunk each. Either may turn out
\* not to be readable, so that there is but one chunk, or none.
TwoFiles == <<1, 1>>

\* What follows a count gone wrong is explored for the input of one chunk, when nothing
\* else has failed and no task was given up.
Explored ==
    mishaps \cap {"Recounted", "Overlapped"} # {} =>
        faults = 0 /\ failed = {} /\ sourceDone /\ tasks = <<<<1, 1>>>>
=============================================================================
