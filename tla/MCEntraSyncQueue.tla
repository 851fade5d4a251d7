--------------------------- MODULE MCEntraSyncQueue ----------------------------
(***************************************************************************)
(* Instance of EntraSyncQueue for TLC.                                     *)
(***************************************************************************)
EXTENDS EntraSyncQueue

\* Two changes put one before and one during a run; of the third key one change
\* is enough to fill the queue.
MCMaxChanges == [k \in Key |-> IF k \in Healthy \cup {Directory} THEN 2 ELSE 1]
===============================================================================
