------------------------------- MODULE Requests -------------------------------
(***************************************************************************)
(* What requests and handlers do beside the deployment and database        *)
(* machinery: accounts and automations, the limiter in front of every      *)
(* request, log lines, self update, the claims of databases, what          *)
(* dashboards are told, and the preparation of the schema.  They run side  *)
(* by side in one process and share no state.                              *)
(***************************************************************************)
EXTENDS AutomationEdits, RateLimit, LogBatch, SelfUpdate, DatabaseLedger, AdminFeed, Schema

requestsVars == <<vars, limiterVars, logVars, updateVars, ledgerVars, feedVars, schemaVars>>

RequestsInit ==
    Init /\ LimiterInit /\ LogInit /\ UpdateInit /\ LedgerInit /\ FeedInit /\ SchemaInit

EditsStep ==
    /\ Next
    /\ UNCHANGED <<limiterVars, logVars, updateVars, ledgerVars, feedVars, schemaVars>>

LimiterStep ==
    /\ LimiterNext
    /\ UNCHANGED <<vars, logVars, updateVars, ledgerVars, feedVars, schemaVars>>

LogStep ==
    /\ LogNext
    /\ UNCHANGED <<vars, limiterVars, updateVars, ledgerVars, feedVars, schemaVars>>

UpdateStep ==
    /\ UpdateNext
    /\ UNCHANGED <<vars, limiterVars, logVars, ledgerVars, feedVars, schemaVars>>

LedgerStep ==
    /\ LedgerNext
    /\ UNCHANGED <<vars, limiterVars, logVars, updateVars, feedVars, schemaVars>>

FeedStep ==
    /\ FeedNext
    /\ UNCHANGED <<vars, limiterVars, logVars, updateVars, ledgerVars, schemaVars>>

MigrationsStep ==
    /\ MigrationsNext
    /\ UNCHANGED <<vars, limiterVars, logVars, updateVars, ledgerVars, feedVars>>

EncryptStep ==
    /\ EncryptNext
    /\ UNCHANGED <<vars, limiterVars, logVars, updateVars, ledgerVars, feedVars>>

RequestsNext ==
    \/ EditsStep \/ LimiterStep \/ LogStep \/ UpdateStep
    \/ LedgerStep \/ FeedStep \/ MigrationsStep \/ EncryptStep

RequestsSpec == RequestsInit /\ [][RequestsNext]_requestsVars
===============================================================================
