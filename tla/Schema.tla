-------------------------------- MODULE Schema --------------------------------
(***************************************************************************)
(* What prepares the database: the numbered migrations, run by every       *)
(* process that starts and by the migrate subcommand, one statement after  *)
(* another, none of them undone when the process ends; and migrate-encrypt,*)
(* which encrypts the secrets of older rows in one transaction while the   *)
(* server may be writing them.                                             *)
(***************************************************************************)
EXTENDS Integers, FiniteSets

CONSTANTS NumFiles, NumStatements,
          Runners,        \* processes that run migrations
          MaxRestarts,    \* bound: ends of such a process before it is done
          Columns,        \* the rows of ColumnTargets
          SettingKeys,
          SecretValues, EmptyValue,
          MaxSecretWrites, MaxEncryptRuns   \* bounds

Files == 1 .. NumFiles
Secrets == Columns \cup SettingKeys

ASSUME SchemaAssumption ==
    /\ NumFiles \in Nat /\ NumStatements \in Nat \ {0} /\ MaxRestarts \in Nat
    /\ EmptyValue \in SecretValues /\ MaxSecretWrites \in Nat /\ MaxEncryptRuns \in Nat

VARIABLES applied,    \* how many statements of each file have taken effect
          recorded,   \* schema_migrations
          runner,     \* where each process is
          restarts,
          columns,    \* the secrets as they are in their columns
          latest,     \* history: the values last given to them
          overtaken,  \* history: secrets whose value of before a write came back
          keyed,      \* the server has an ENCRYPTION_KEY
          tx,         \* the transaction of migrate-encrypt
          rewrite,    \* what an update of another field will write back
          writes, encryptRuns

migrationVars == <<applied, recorded, runner, restarts>>
secretVars == <<columns, latest, overtaken, keyed, tx, rewrite, writes, encryptRuns>>
schemaVars == <<migrationVars, secretVars>>

NoTx == [open |-> FALSE]
NoneKept == [row |-> {}]
Stopped == [at |-> "stopped", file |-> 1, next |-> 1]
Plain(v) == [value |-> v, layers |-> 0]

SchemaInit ==
    /\ applied = [f \in Files |-> 0] /\ recorded = {} /\ restarts = 0
    /\ runner = [r \in Runners |-> Stopped]
    /\ columns = [x \in Secrets |-> Plain(EmptyValue)]
    /\ latest = [x \in Secrets |-> EmptyValue] /\ overtaken = {}
    /\ keyed = FALSE /\ tx = NoTx /\ rewrite = NoneKept /\ writes = 0 /\ encryptRuns = 0
-----------------------------------------------------------------------------
(* Migrations.                                                               *)

\* EnsureMigrationsTable and migrationFiles: the first file is next.
RunMigrations(r) ==
    /\ runner[r] = Stopped /\ restarts <= MaxRestarts
    /\ runner' = [runner EXCEPT ![r] = [at |-> "check", file |-> 1, next |-> 1]]
    /\ UNCHANGED <<applied, recorded, restarts, secretVars>>

\* Mutant: a file whose first statement shows has been applied.
FirstStatementShows(f) == applied[f] > 0

MigrationApplied(f) == f \in recorded

\* A file that is recorded is passed over; after the last one the process is
\* done, and may be started again.
CheckFile(r) ==
    LET f == runner[r].file IN
    /\ runner[r].at = "check"
    /\ runner' = [runner EXCEPT ![r] =
         IF f > NumFiles THEN Stopped
         ELSE IF MigrationApplied(f) THEN [at |-> "check", file |-> f + 1, next |-> 1]
         ELSE [at |-> "exec", file |-> f, next |-> 1]]
    /\ UNCHANGED <<applied, recorded, restarts, secretVars>>

\* One statement of the file; it is guarded, so that running it again changes
\* nothing.
ExecStatement(r) ==
    LET f == runner[r].file
        n == runner[r].next
    IN
    /\ runner[r].at = "exec"
    /\ applied' = [applied EXCEPT ![f] = IF n > @ THEN n ELSE @]
    /\ runner' = [runner EXCEPT ![r] =
         IF n = NumStatements THEN [@ EXCEPT !.at = "record"] ELSE [@ EXCEPT !.next = n + 1]]
    /\ UNCHANGED <<recorded, restarts, secretVars>>

\* The insert fails when another process has recorded the file, which ends the
\* run with an error.
RecordMigration(r) ==
    LET f == runner[r].file IN
    /\ runner[r].at = "record" /\ recorded' = recorded \cup {f}
    /\ runner' = [runner EXCEPT ![r] =
         IF f \in recorded THEN Stopped ELSE [at |-> "check", file |-> f + 1, next |-> 1]]
    /\ UNCHANGED <<applied, restarts, secretVars>>

\* A statement fails, or the process ends.
MigrationsCut(r) ==
    /\ runner[r].at \in {"check", "exec", "record"} /\ restarts < MaxRestarts
    /\ restarts' = restarts + 1 /\ runner' = [runner EXCEPT ![r] = Stopped]
    /\ UNCHANGED <<applied, recorded, secretVars>>
-----------------------------------------------------------------------------
(* migrate-encrypt.                                                          *)

\* Mutant: whatever is not empty is encrypted.
NotEmpty(s) == s.value # EmptyValue

\* A value that decrypts is left alone.
needsEncryption(s) == s.value # EmptyValue /\ s.layers = 0

Encrypt(s) == [s EXCEPT !.layers = @ + 1]

\* RunEncrypt: the transaction reads the values of one moment.
BeginEncrypt(dryRun) ==
    /\ ~tx.open /\ encryptRuns < MaxEncryptRuns /\ encryptRuns' = encryptRuns + 1
    /\ tx' = [open |-> TRUE, dry |-> dryRun, read |-> columns, locked |-> {},
              todo |-> {x \in Secrets : needsEncryption(columns[x])}]
    /\ UNCHANGED <<columns, latest, overtaken, keyed, rewrite, writes, migrationVars>>

\* The value is encrypted, and its update locks the row until the end.
UpdateSecret(x) ==
    /\ tx.open /\ x \in tx.todo
    /\ tx' = [tx EXCEPT !.todo = @ \ {x}, !.locked = IF tx.dry THEN @ ELSE @ \cup {x}]
    /\ UNCHANGED <<columns, latest, overtaken, keyed, rewrite, writes, encryptRuns, migrationVars>>

migrateColumn(x) == x \in Columns /\ UpdateSecret(x)

\* After every column.
migrateSettings(x) == tx.open /\ tx.todo \subseteq SettingKeys /\ UpdateSecret(x)

\* A dry run has locked, and so writes, nothing.
CommitEncrypt ==
    /\ tx.open /\ tx.todo = {} /\ tx' = NoTx
    /\ columns' = [x \in Secrets |-> IF x \in tx.locked THEN Encrypt(tx.read[x]) ELSE columns[x]]
    /\ overtaken' = overtaken \cup {x \in tx.locked : columns[x] # tx.read[x]}
    /\ UNCHANGED <<latest, keyed, rewrite, writes, encryptRuns, migrationVars>>

\* An error or the end of the process rolls everything back.
RollbackEncrypt ==
    /\ tx.open /\ tx' = NoTx
    /\ UNCHANGED <<columns, latest, overtaken, keyed, rewrite, writes, encryptRuns, migrationVars>>

\* A write of the server waits for the transaction's lock of the row.
Writable(x) == tx.open => x \notin tx.locked

\* The server stores a secret, encrypted if it has a key; an empty one may be
\* stored as it is.
SetSecret(x, v) ==
    /\ writes < MaxSecretWrites /\ writes' = writes + 1 /\ Writable(x)
    /\ \E stored \in (IF keyed THEN {Encrypt(Plain(v))} ELSE {Plain(v)})
                     \cup (IF v = EmptyValue THEN {Plain(v)} ELSE {}) :
          columns' = [columns EXCEPT ![x] = stored]
    /\ latest' = [latest EXCEPT ![x] = v] /\ overtaken' = overtaken \ {x}
    /\ UNCHANGED <<keyed, tx, rewrite, encryptRuns, migrationVars>>

\* HandleUpdateGlobalEnvVar with is_secret alone: the column is read as it is, and
\* written back by a later statement.
ReadSecret(x) ==
    /\ rewrite = NoneKept /\ writes < MaxSecretWrites /\ writes' = writes + 1
    /\ rewrite' = [row |-> {x}, read |-> columns[x]]
    /\ UNCHANGED <<columns, latest, overtaken, keyed, tx, encryptRuns, migrationVars>>

WriteBack(x) ==
    /\ x \in rewrite.row /\ Writable(x) /\ rewrite' = NoneKept
    /\ columns' = [columns EXCEPT ![x] = rewrite.read]
    /\ overtaken' = IF rewrite.read.value = latest[x] THEN overtaken ELSE overtaken \cup {x}
    /\ UNCHANGED <<latest, keyed, tx, writes, encryptRuns, migrationVars>>

\* The server is restarted with ENCRYPTION_KEY set.
KeySet ==
    /\ ~keyed /\ keyed' = TRUE
    /\ UNCHANGED <<columns, latest, overtaken, tx, rewrite, writes, encryptRuns, migrationVars>>
-----------------------------------------------------------------------------
MigrationsNext ==
    \E r \in Runners : RunMigrations(r) \/ CheckFile(r) \/ ExecStatement(r)
                       \/ RecordMigration(r) \/ MigrationsCut(r)

EncryptNext ==
    \/ CommitEncrypt \/ RollbackEncrypt \/ KeySet
    \/ \E dryRun \in BOOLEAN : BeginEncrypt(dryRun)
    \/ \E x \in Secrets : migrateColumn(x) \/ migrateSettings(x)
                           \/ \E v \in SecretValues : SetSecret(x, v)
    \/ \E x \in Columns : ReadSecret(x) \/ WriteBack(x)

SchemaSpec == SchemaInit /\ [][MigrationsNext \/ EncryptNext]_schemaVars

(***************************************************************************)
(* A file is recorded only when all of it has been applied ("a failed      *)
(* migration is never marked applied and is retried in full", db/          *)
(* migrate.go), and no statement of a file has run before every earlier    *)
(* file was complete ("applied in order"), whichever processes run them    *)
(* together and wherever they end.                                         *)
(***************************************************************************)
MigrationsInOrder ==
    \A f \in Files :
        /\ f \in recorded => applied[f] = NumStatements
        /\ applied[f] > 0 => \A g \in 1 .. f - 1 : applied[g] = NumStatements

(***************************************************************************)
(* What a column holds decrypts, once, to the value last stored            *)
(* ("idempotent and safe to re-run", migrate/encrypt.go), through repeated *)
(* and abandoned runs and writes of the server with and without its key,   *)
(* unless the server wrote the row between a read and a write of the       *)
(* transaction, or of an update that keeps the secret, which bring the old *)
(* value back.                                                             *)
(***************************************************************************)
SecretsKept ==
    \A x \in Secrets \ overtaken : columns[x].layers <= 1 /\ columns[x].value = latest[x]
=============================================================================
