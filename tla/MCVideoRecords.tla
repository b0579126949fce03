--------------------------- MODULE MCVideoRecords ---------------------------
(* An instance of VideoRecords for TLC: 2024-01-02 and 2024-01-20, whose    *)
(* digits without zeros are the same, and a day without recordings.         *)
EXTENDS VideoRecords
MCSN == [d \in Day |-> IF d = "24-01-02" \/ d = "24-01-20" THEN 2412 ELSE 2413]
MCTotal == [d \in Day |-> IF d = "24-01-02" THEN 2 ELSE IF d = "24-01-20" THEN 1 ELSE 0]
=============================================================================
