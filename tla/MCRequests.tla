------------------------------ MODULE MCRequests ------------------------------
(***************************************************************************)
(* Model checking of Requests.  Its components share no state, so that no  *)
(* property of one of them depends on how their steps interleave: a        *)
(* behaviour here is one of RequestsSpec in which only `part' takes steps. *)
(***************************************************************************)
EXTENDS Requests, TLC

VARIABLE part

Parts == {"edits", "limiter", "logs", "update", "ledger", "feed", "migrations", "encrypt"}

\* The choice of the first automation matters to the edits only, that of the host
\* to the updates.
PartInit ==
    /\ part \in Parts /\ RequestsInit /\ (part = "edits" \/ auto = None)
    /\ part = "update" \/ setup = [cfg |-> "host", configured |-> TRUE]

PartNext ==
    /\ UNCHANGED part
    /\ \/ part = "edits" /\ EditsStep
       \/ part = "limiter" /\ LimiterStep
       \/ part = "logs" /\ LogStep
       \/ part = "update" /\ UpdateStep
       \/ part = "ledger" /\ LedgerStep
       \/ part = "feed" /\ FeedStep
       \/ part = "migrations" /\ MigrationsStep
       \/ part = "encrypt" /\ EncryptStep

PartSpec == PartInit /\ [][PartNext]_<<part, requestsVars>>

\* Admins are interchangeable, and so are the requests under way.
Symmetry == Permutations(Admins) \cup Permutations(Slots)
===============================================================================
