--------------------------- MODULE MCMigrateTask ---------------------------
EXTENDS MigrateTask, TLC

CONSTANTS t1, t2, t3, u1, c1

\* Slot 0 holds two topics, slot 1 one topic importMessage skips.
Topics3 == {t1, t2, t3}
TopicsBySlot == (0 :> {t1, t2}) @@ (1 :> {t3})
Skipped == {t3}
PageCount == [t \in Topics3 |-> IF t = t1 THEN 2 ELSE 1]
Users1 == {u1}
Chans1 == {c1}
====
