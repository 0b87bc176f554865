------------------------------ MODULE SelfUpdate ------------------------------
(***************************************************************************)
(* The requests that update the API and the web service: the tag pinned in *)
(* the compose env file, the registry's credentials put in Docker's        *)
(* configuration, the pull, the comparison with the running image and the  *)
(* recreation, which the API leaves to a helper container because it ends  *)
(* its own process.                                                        *)
(*                                                                         *)
(* A step is one read or write of a file or one call of docker.  Requests  *)
(* run concurrently and no lock is taken.  Images are their builds.        *)
(***************************************************************************)
EXTENDS Integers, FiniteSets

CONSTANTS Tags, FirstTag,
          NoPin,         \* a request without a version
          Builds,        \* image ids; zero stands for none
          Updaters,      \* bound: requests under way
          MaxUpdates,    \* bound: requests made
          MaxPushes      \* bound: builds pushed to the registry

Services == {"api", "web"}

ASSUME SelfUpdateAssumption ==
    /\ FirstTag \in Tags /\ NoPin \notin Tags /\ Builds \subseteq Nat \ {0} /\ 1 \in Builds
    /\ MaxUpdates \in Nat /\ MaxPushes \in Nat

VARIABLES envTag,     \* the tags in the compose env file
          dockerCfg,  \* Docker's config.json: the host's own, the API's, cut
                      \* short by a failed write, or not there
          setup,      \* the file the host had, if any, and whether a registry
                      \* is configured; it does not change
          registry, local, running,
          updates,    \* the requests under way, with their local variables
          begun, pushes,
          owed,       \* history: services whose last update has not succeeded
          tainted     \* history: a backup is not of the host's file, or the
                      \* file was left as it should not be

updateVars == <<envTag, dockerCfg, setup, registry, local, running, updates, begun, pushes,
                owed, tainted>>

NoUpdate == [pc |-> "idle"]

UpdateInit ==
    /\ setup \in [cfg : {"host", "none"}, configured : BOOLEAN]
    /\ envTag = [s \in Services |-> FirstTag] /\ dockerCfg = setup.cfg
    /\ registry = [s \in Services |-> [t \in Tags |-> 1]]
    /\ local = [s \in Services |-> [t \in Tags |-> IF t = FirstTag THEN 1 ELSE 0]]
    /\ running = [s \in Services |-> 1]
    /\ updates = [u \in Updaters |-> NoUpdate] /\ begun = 0 /\ pushes = 0
    /\ owed = {} /\ tainted = FALSE

Of(s) == {u \in Updaters : updates[u].pc # "idle" /\ updates[u].svc = s}

\* Those updates no longer run alone.
Crossed(us, svcs) ==
    [v \in Updaters |-> IF us[v].pc # "idle" /\ us[v].svc \in svcs
                        THEN [us[v] EXCEPT !.alone = FALSE] ELSE us[v]]

At(u, pc) == updates[u].pc = pc
Go(u, pc) == updates' = [updates EXCEPT ![u].pc = pc]
End(u) == updates' = [updates EXCEPT ![u] = NoUpdate]

\* HandleUpdateAPI, HandleUpdateWeb: the request and requestedVersion.
BeginUpdate(u, s, pin, force) ==
    /\ At(u, "idle") /\ begun < MaxUpdates /\ begun' = begun + 1
    /\ LET new == [pc |-> IF pin = NoPin THEN "auth" ELSE "pin", svc |-> s, pin |-> pin,
                   force |-> force, seen |-> NoPin, backup |-> "nothing",
                   ref |-> NoPin, prev |-> 0, alone |-> Of(s) = {}]
       IN updates' = [Crossed(updates, {s}) EXCEPT ![u] = new]
    /\ owed' = owed \cup {s}
    /\ UNCHANGED <<envTag, dockerCfg, setup, registry, local, running, pushes, tainted>>

\* writeComposeTag reads the env file ...
ReadEnv(u) ==
    /\ At(u, "pin") /\ updates' = [updates EXCEPT ![u].pc = "rename", ![u].seen = envTag]
    /\ UNCHANGED <<envTag, dockerCfg, setup, registry, local, running, begun, pushes, owed, tainted>>

\* upsertEnvVar: one assignment is replaced, the rest kept.
upsertEnvVar(contents, s, tag) == [contents EXCEPT ![s] = tag]

\* ... and puts a new one in its place, or cannot.  Tags written since the read
\* are undone.
writeComposeTag(u) ==
    LET new == upsertEnvVar(updates[u].seen, updates[u].svc, updates[u].pin)
        undone == {s \in Services \ {updates[u].svc} : new[s] # envTag[s]}
    IN
    /\ At(u, "rename")
    /\ \/ /\ envTag' = new /\ owed' = owed \cup undone
          /\ updates' = [Crossed(updates, undone) EXCEPT ![u].pc = "auth", ![u].seen = NoPin]
       \/ End(u) /\ UNCHANGED <<envTag, owed>>
    /\ UNCHANGED <<dockerCfg, setup, registry, local, running, begun, pushes, tainted>>

\* registryAuthEnv: a no-op without a registry; else the file is read for the
\* backup, and whatever keeps it from being read passes for its absence ...
Backup(u) ==
    /\ At(u, "auth")
    /\ \/ ~setup.configured /\ Go(u, "resolve") /\ UNCHANGED tainted
       \/ setup.configured /\ End(u) /\ UNCHANGED tainted
       \/ /\ setup.configured
          /\ \E b \in {dockerCfg, "none"} :
                /\ updates' = [updates EXCEPT ![u].pc = "creds", ![u].backup = b]
                /\ tainted' = (tainted \/ b # setup.cfg)
    /\ UNCHANGED <<envTag, dockerCfg, setup, registry, local, running, begun, pushes, owed>>

\* ... and overwritten.  A write that fails may have cut the file short, and
\* leaves nobody to put it back.
registryAuthEnv(u) ==
    /\ At(u, "creds")
    /\ \/ dockerCfg' = "api" /\ Go(u, "resolve") /\ UNCHANGED tainted
       \/ /\ dockerCfg' \in {dockerCfg, "cut"} /\ End(u)
          /\ tainted' = (tainted \/ dockerCfg' # dockerCfg)
    /\ UNCHANGED <<envTag, setup, registry, local, running, begun, pushes, owed>>

\* The answer is given; what it was made from is no longer needed.
Reply(u, pc) ==
    updates' = [updates EXCEPT ![u] = [@ EXCEPT !.pc = pc, !.pin = NoPin, !.force = FALSE,
                                                !.ref = NoPin, !.prev = 0]]

\* Mutant: a request that has failed leaves without its deferred cleanup.
FailUpdateNow(u) == End(u)

\* failUpdate: the deferred cleanup is still due.
failUpdate(u) == Reply(u, "clean")

\* serviceImageRef and runningImageID.
serviceImageRef(u) ==
    /\ At(u, "resolve")
    /\ \/ updates' = [updates EXCEPT ![u].pc = "prev", ![u].ref = envTag[updates[u].svc]]
       \/ failUpdate(u)
    /\ UNCHANGED <<envTag, dockerCfg, setup, registry, local, running, begun, pushes, owed, tainted>>

\* An image id that cannot be had is empty, and matches none.
runningImageID(u) ==
    /\ At(u, "prev")
    /\ \E id \in {running[updates[u].svc], 0} :
          updates' = [updates EXCEPT ![u].pc = "pull", ![u].prev = id]
    /\ UNCHANGED <<envTag, dockerCfg, setup, registry, local, running, begun, pushes, owed, tainted>>

\* docker compose pull resolves the tag anew, or fails.
Pull(u) ==
    LET s == updates[u].svc IN
    /\ At(u, "pull")
    /\ \/ /\ Go(u, "decide")
          /\ local' = [local EXCEPT ![s][envTag[s]] = registry[s][envTag[s]]]
       \/ failUpdate(u) /\ UNCHANGED local
    /\ UNCHANGED <<envTag, dockerCfg, setup, registry, running, begun, pushes, owed, tainted>>

\* The update of u has succeeded.
Succeeded(u) == owed' = IF updates[u].alone THEN owed \ {updates[u].svc} ELSE owed

\* Mutant: a request for no version finds nothing to do.
UpToDateByTag(u) == ~updates[u].force /\ updates[u].pin = NoPin

\* The image that was running is the one the reference names after the pull.
UpToDate(u) ==
    /\ ~updates[u].force /\ updates[u].prev # 0
    /\ updates[u].prev = local[updates[u].svc][updates[u].ref]

\* The answer: nothing to do; or, also when localImageID cannot tell, the web
\* service is next recreated, or the API will be, if its helper runs.
Decide(u) ==
    /\ At(u, "decide")
    /\ \/ UpToDate(u) /\ Succeeded(u) /\ Reply(u, "clean")
       \/ /\ UNCHANGED owed
          /\ \/ updates[u].svc = "web" /\ Go(u, "up")
             \/ updates[u].svc = "api" /\ Reply(u, "cleanThenUp")
             \/ updates[u].svc = "api" /\ failUpdate(u)
    /\ UNCHANGED <<envTag, dockerCfg, setup, registry, local, running, begun, pushes, tainted>>

\* docker compose up: what the env file names now, if it is there.
Recreated(s) ==
    /\ local[s][envTag[s]] # 0
    /\ running' = [running EXCEPT ![s] = local[s][envTag[s]]]

\* HandleUpdateWeb; compose pulls an image that is missing.
UpWeb(u) ==
    /\ At(u, "up")
    /\ \/ Recreated("web") /\ Succeeded(u) /\ Reply(u, "clean") /\ UNCHANGED local
       \/ /\ local["web"][envTag["web"]] = 0
          /\ local' = [local EXCEPT !["web"][envTag["web"]] = registry["web"][envTag["web"]]]
          /\ running' = [running EXCEPT !["web"] = registry["web"][envTag["web"]]]
          /\ Succeeded(u) /\ Reply(u, "clean")
       \/ failUpdate(u) /\ UNCHANGED <<running, owed, local>>
    /\ UNCHANGED <<envTag, dockerCfg, setup, registry, begun, pushes, tainted>>

\* cleanup, deferred: the configuration is put back as it was read, or removed if
\* it could not be.  Neither is checked: the file may stay as it is, and a write
\* that fails may cut it short.
cleanup(u) ==
    LET b == updates[u].backup IN
    /\ updates[u].pc \in {"clean", "cleanThenUp"}
    /\ \/ b = "nothing" /\ UNCHANGED <<dockerCfg, tainted>>
       \/ /\ b # "nothing"
          /\ dockerCfg' \in {b, dockerCfg} \/ (b # "none" /\ dockerCfg' = "cut")
          /\ tainted' = (tainted \/ dockerCfg' # b)
    /\ IF At(u, "clean") THEN End(u) ELSE Go(u, "helper")
    /\ UNCHANGED <<envTag, setup, registry, local, running, begun, pushes, owed>>

\* Two seconds later the helper recreates the API with a local image, which ends
\* every request of the old process, or it fails.
HelperUp(u) ==
    /\ At(u, "helper")
    /\ \/ /\ Recreated("api") /\ Succeeded(u)
          /\ updates' = [v \in Updaters |-> NoUpdate]
          /\ tainted' = (tainted \/ dockerCfg # setup.cfg)
       \/ End(u) /\ UNCHANGED <<running, owed, tainted>>
    /\ UNCHANGED <<envTag, dockerCfg, setup, registry, local, begun, pushes>>

\* External: a build is pushed.
Push(s, t, b) ==
    /\ pushes < MaxPushes /\ pushes' = pushes + 1 /\ registry[s][t] # b
    /\ registry' = [registry EXCEPT ![s][t] = b]
    /\ UNCHANGED <<envTag, dockerCfg, setup, local, running, updates, begun, owed, tainted>>

UpdateNext ==
    \/ \E u \in Updaters :
          \/ \E s \in Services, pin \in Tags \cup {NoPin}, force \in BOOLEAN :
                BeginUpdate(u, s, pin, force)
          \/ ReadEnv(u) \/ writeComposeTag(u) \/ Backup(u) \/ registryAuthEnv(u)
          \/ serviceImageRef(u) \/ runningImageID(u) \/ Pull(u) \/ Decide(u) \/ UpWeb(u)
          \/ cleanup(u) \/ HelperUp(u)
    \/ \E s \in Services, t \in Tags, b \in Builds : Push(s, t, b)

UpdateSpec == UpdateInit /\ [][UpdateNext]_updateVars

(***************************************************************************)
(* A service runs the image its compose file names ("the pull, the         *)
(* comparison and the recreate all agree on which image is wanted",        *)
(* HandleUpdateAPI) when its last update has succeeded, however earlier    *)
(* ones failed or were cut short and whatever happened to the other        *)
(* service meanwhile: a retry mends what a failure left.  The web service  *)
(* and an update with nothing to do have succeeded when they answer, the   *)
(* API when its helper has recreated it, after the answer.  An update      *)
(* crossed by another of its service, or by a pin of the other one that    *)
(* undoes its own, promises nothing.                                       *)
(***************************************************************************)
RetryMends ==
    \A s \in Services \ owed : Of(s) = {} => running[s] = local[s][envTag[s]]

(***************************************************************************)
(* Docker's configuration is again what the host had, a file or none, when *)
(* no request is under way: after a success, and after a failure of any    *)
(* step but those on the file itself, of any number of requests ("a        *)
(* cleanup function that restores the previous config", registryAuthEnv).  *)
(* The code does not keep that promise, and the property does not make it, *)
(* once a backup failed or took another request's credentials, a write cut *)
(* the file short, a cleanup's write or removal failed, or the API was     *)
(* recreated before a cleanup.                                             *)
(***************************************************************************)
ConfigRestored ==
    (\A u \in Updaters : updates[u].pc \in {"idle", "helper"}) /\ ~tainted
        => dockerCfg = setup.cfg
=============================================================================
