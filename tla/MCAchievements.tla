--------------------------- MODULE MCAchievements ---------------------------
(* Small instances of Achievements for TLC.                                 *)
EXTENDS Achievements

CONSTANTS w1, w2, first, starred, toured, talked, daily

MCWorkers == {w1, w2}

\* The first reward ends on a threshold, and both together on the next one.
MCKind   == [d \in Defs |-> CASE d = starred -> "like_received"
                              [] d = toured  -> "city_count"
                              [] d = talked  -> "comment_count"
                              [] d = daily   -> "daily_check"
                              [] OTHER       -> "photo_count"]
MCNeed   == [d \in Defs |-> IF d \in {first, toured, talked} THEN 2 ELSE 1]
MCReward == [d \in Defs |-> IF d = first THEN 20 ELSE 30]
=============================================================================
