------------------------------ MODULE OneRunner ------------------------------
(***************************************************************************)
(* What the runs of one automation promise together: one at a time, each   *)
(* at most once, and whichever begins also ends.  A run that is refused,   *)
(* dies or is given up as too old ends as well.                            *)
(***************************************************************************)
CONSTANT Runs

VARIABLES acting,   \* the runs that may be taking their steps
          ended     \* the runs that will take none any more

abstractVars == <<acting, ended>>

Init == acting = {} /\ ended = {}

Begin(r) ==
    /\ acting = {} /\ r \notin ended
    /\ acting' = {r} /\ UNCHANGED ended

End(S) == acting' = acting \ S /\ ended' = ended \cup S

Next == (\E r \in Runs : Begin(r)) \/ (\E S \in SUBSET Runs : End(S))

Spec == Init /\ [][Next]_abstractVars /\ WF_abstractVars(\E S \in SUBSET Runs : End(S) /\ S \cap acting # {})
=============================================================================
