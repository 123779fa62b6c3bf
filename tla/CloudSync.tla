----------------------------- MODULE CloudSync -----------------------------
(***************************************************************************)
(* The cloud orchestrator, lib/cloud_orchestrator.py, as run_remote.py,    *)
(* run_all_cloud.py and cloud_sweep.py use it.  A client process finds or  *)
(* creates its project, uploads the files whose hash changed, saves the    *)
(* hashes, uploads its config and wrapper, submits a run and polls it.     *)
(* All processes of a checkout share .remote_project.json (project_cache)  *)
(* and .remote_hashes.json (hash_cache); processes with one project name   *)
(* share the project and its files.  The cloud is external.                *)
(*                                                                         *)
(* A file's content, and its SHA-256, is a version number.  config.yaml    *)
(* and the wrapper around it are one job, named after the client.          *)
(***************************************************************************)
EXTENDS Integers, Sequences

CONSTANTS
    Clients,       \* processes
    Names,         \* project names in use
    NameOf,        \* self.project_name of a client
    Forced,        \* clients that sync with force=True
    FilePaths,     \* discover_files(mode) of a client, in its order
    Imports,       \* the files the entry point of a client imports
    Files,         \* paths
    Versions,      \* contents of a path, from 1
    Reverts,       \* TRUE: an edit may bring an old content back
    Deletes,       \* TRUE: a project may be deleted in the cloud
    Concurrent,    \* TRUE: processes may run at the same time
    LegacyOwners,  \* projects that may have left a flat hash file behind
    MaxProjects,   \* bound: project ids
    MaxStarts,     \* bound: processes started in all
    MaxTries       \* max_retries of upsert_with_retry

NoFile == 0
NoClient == "nobody"
Ids == 1..MaxProjects
Contents == Versions \cup {NoFile}
NoHashes == [f \in Files |-> NoFile]
NoCache == [n \in Names |-> NoHashes]

ASSUME CloudAssumption ==
    /\ Versions \subseteq Nat \ {0} /\ 1 \in Versions
    /\ NameOf \in [Clients -> Names] /\ Names # {}
    /\ \A c \in Clients : FilePaths[c] \in Seq(Files)
    /\ Forced \subseteq Clients /\ LegacyOwners \subseteq Names
    /\ NoClient \notin Clients
    /\ MaxProjects \in Nat \ {0} /\ MaxStarts \in Nat /\ MaxTries \in Nat \ {0}
    /\ {Reverts, Deletes, Concurrent} \subseteq BOOLEAN

VARIABLES
    local,          \* the files of the checkout
    project_cache,  \* .remote_project.json: id and name; id 0 if unreadable
    hash_cache,     \* .remote_hashes.json: per project name; empty if unreadable
    legacy,         \* .remote_hashes.json has the flat layout, of any project
    projects,       \* external: the projects of the account
    runs,           \* external: the last run each client submitted
    proc,           \* the processes
    starts          \* how many have been started

vars == <<local, project_cache, hash_cache, legacy, projects, runs, proc,
          starts>>
caches == <<project_cache, hash_cache, legacy>>

Project == [state : {"unused", "live", "deleted"}, name : Names,
            files : [Files -> Contents], job : Clients \cup {NoClient}]

Run == [state : {"none", "queued", "started"}, files : [Files -> Contents],
        job : Clients \cup {NoClient}]

\* disturbed: another process wrote to this one's project since it began.
Process == [pc : {"idle", "find", "create", "load", "sync", "upload", "save", "write",
                  "dump", "job", "submit", "poll"},
            id : 0..MaxProjects, next : Nat \ {0}, tries : Nat,
            old_hashes : [Files -> Contents], new_hashes : [Files -> Contents],
            data : [Names -> [Files -> Contents]], disturbed : BOOLEAN]

NoRun == [state |-> "none", files |-> NoHashes, job |-> NoClient]
Live(id) == projects[id].state = "live"
Busy(c) == proc[c].pc # "idle"
Path(c) == FilePaths[c][proc[c].next]

Updated(old, new) == [f \in Files |-> IF new[f] = NoFile THEN old[f] ELSE new[f]]

\* Processes at work on project `id` or with a run in it, other than c.
Others(c, id) == {d \in Clients \ {c} : proc[d].id = id}

Idle == [pc |-> "idle", id |-> 0, next |-> 1, tries |-> 0,
         old_hashes |-> NoHashes, new_hashes |-> NoHashes,
         data |-> NoCache, disturbed |-> FALSE]

\* A client process ends, by returning or by an exception nobody catches; what
\* its run is compared with is kept.
Ended(c) ==
    IF runs[c].state = "none" THEN Idle
    ELSE [Idle EXCEPT !.id = proc[c].id, !.new_hashes = proc[c].new_hashes,
                      !.disturbed = proc[c].disturbed]

Fresh == [state |-> "unused", name |-> CHOOSE n \in Names : TRUE,
          files |-> NoHashes, job |-> NoClient]

Init ==
    /\ local = [f \in Files |-> 1]
    /\ project_cache = [id |-> 0, name |-> CHOOSE n \in Names : TRUE]
    /\ \/ /\ legacy = FALSE /\ hash_cache = NoCache
          /\ projects = [id \in Ids |-> Fresh]
       \/ \E owner \in LegacyOwners :
            /\ legacy = TRUE /\ hash_cache = [n \in Names |-> local]
            /\ projects = [id \in Ids |->
                    IF id = 1 THEN [Fresh EXCEPT !.state = "live", !.name = owner,
                                                 !.files = local]
                    ELSE Fresh]
    /\ runs = [c \in Clients |-> NoRun]
    /\ proc = [c \in Clients |-> Idle] /\ starts = 0

Begin(c) ==
    /\ ~Busy(c) /\ starts < MaxStarts
    /\ Concurrent \/ \A d \in Clients : ~Busy(d)
    /\ proc' = [proc EXCEPT ![c] = [Idle EXCEPT !.pc = "find"]]
    /\ starts' = starts + 1
    /\ runs' = [runs EXCEPT ![c] = NoRun]
    /\ UNCHANGED <<local, caches, projects>>

\* The process crashes, or an API call raises.
Die(c) ==
    /\ Busy(c)
    /\ proc' = [proc EXCEPT ![c] = Ended(c)]
    /\ UNCHANGED <<local, caches, projects, runs>>

----------------------------------------------------------------------------
(* find_or_create_project *)

Use(c, id) == proc' = [proc EXCEPT ![c].pc = "load", ![c].id = id]

FindCached(c) ==
    /\ proc[c].pc = "find"
    /\ project_cache.name = NameOf[c] /\ project_cache.id \in Ids
    /\ Live(project_cache.id)
    /\ Use(c, project_cache.id)
    /\ UNCHANGED <<local, caches, projects, runs>>

\* The search, also when a call on the cached id raised (the code catches it).
FindByName(c) ==
    \E id \in Ids :
        /\ proc[c].pc = "find" /\ Live(id) /\ projects[id].name = NameOf[c]
        /\ project_cache' = [id |-> id, name |-> NameOf[c]]
        /\ Use(c, id)
        /\ UNCHANGED <<local, hash_cache, legacy, projects, runs>>

\* Mutant: a project that is not in the cache is taken to be new.
NotFound_Uncached(c) == project_cache.id = 0

NotFound(c) == \A id \in Ids : Live(id) => projects[id].name # NameOf[c]

NotInList(c) ==
    /\ proc[c].pc = "find" /\ NotFound(c)
    /\ proc' = [proc EXCEPT ![c].pc = "create"]
    /\ UNCHANGED <<local, caches, projects, runs>>

\* If the answer is lost the project exists and the process ends.
Create(c) ==
    \E id \in Ids, answered \in BOOLEAN :
        /\ proc[c].pc = "create"
        /\ projects[id] = Fresh /\ \A j \in Ids : j < id => projects[j] # Fresh
        /\ projects' = [projects EXCEPT ![id].state = "live", ![id].name = NameOf[c]]
        /\ IF answered
           THEN Use(c, id) /\ project_cache' = [id |-> id, name |-> NameOf[c]]
           ELSE proc' = [proc EXCEPT ![c] = Ended(c)] /\ UNCHANGED project_cache
        /\ UNCHANGED <<local, hash_cache, legacy, runs>>

----------------------------------------------------------------------------
(* sync_files *)

\* Mutant: force=True still reads the hash file.
OldHashes_Always(c) == hash_cache[NameOf[c]]

OldHashes(c) == IF c \in Forced THEN NoHashes ELSE hash_cache[NameOf[c]]

LoadHashes(c) ==
    /\ proc[c].pc = "load"
    /\ proc' = [proc EXCEPT ![c].pc = "sync", ![c].old_hashes = OldHashes(c)]
    /\ UNCHANGED <<local, caches, projects, runs>>

\* Mutant: a file with any known hash is skipped.
Unchanged_Known(c, f) == proc[c].old_hashes[f] # NoFile

Unchanged(c, f) == proc[c].old_hashes[f] = local[f]

\* Read and hash the next file; one whose hash is known is not uploaded.
ReadFile(c) ==
    /\ proc[c].pc = "sync" /\ proc[c].next <= Len(FilePaths[c])
    /\ LET f == Path(c)
           p == [proc[c] EXCEPT !.new_hashes[f] = local[f]]
       IN proc' = [proc EXCEPT ![c] =
                    IF Unchanged(c, f)
                    THEN [p EXCEPT !.next = @ + 1] ELSE [p EXCEPT !.pc = "upload"]]
    /\ UNCHANGED <<local, caches, projects, runs>>

Failed(c) == [proc[c] EXCEPT !.tries = @ + 1]

\* After the last attempt an exception ends the process; as a mutant, the file is
\* skipped.
GivenUp_Skips(c, done) == [done EXCEPT !.tries = 0]
\* ... or the sync is started over.
GivenUp_Again(c, done) == [done EXCEPT !.tries = 0, !.pc = "load", !.next = 1]
GivenUp(c, done) == Ended(c)

\* One attempt of upsert_with_retry: stored or not, and answered, or refused with
\* 429 or cut off and so tried again; `done` is the process after the answer.
Attempt(c, stored, answered, done) ==
    LET after == IF answered THEN [done EXCEPT !.tries = 0]
                 ELSE IF Failed(c).tries < MaxTries THEN Failed(c)
                 ELSE GivenUp(c, done)
    IN /\ Live(proc[c].id) /\ (answered => stored)
       /\ proc' = [d \in Clients |->
                    IF d = c THEN after
                    ELSE IF d \in Others(c, proc[c].id) /\ stored
                         THEN [proc[d] EXCEPT !.disturbed = TRUE] ELSE proc[d]]

Upload(c) ==
    \E stored, answered \in BOOLEAN :
        LET f == Path(c)
        IN /\ proc[c].pc = "upload"
           /\ Attempt(c, stored, answered,
                      [proc[c] EXCEPT !.pc = "sync", !.next = @ + 1])
           /\ projects' = IF stored
                          THEN [projects EXCEPT ![proc[c].id].files[f] =
                                                    proc[c].new_hashes[f]]
                          ELSE projects
           /\ UNCHANGED <<local, caches, runs>>

EndSync(c) ==
    /\ proc[c].pc = "sync" /\ proc[c].next > Len(FilePaths[c])
    /\ proc' = [proc EXCEPT ![c].pc = "save",
                    ![c].old_hashes = Updated(@, proc[c].new_hashes)]
    /\ UNCHANGED <<local, caches, projects, runs>>

----------------------------------------------------------------------------
(* _save_hash_cache: read the whole file, truncate it, write it *)

\* A flat file is taken to be this project's, whose hashes are then replaced.
FileWith(c) ==
    [(IF legacy THEN NoCache ELSE hash_cache) EXCEPT ![NameOf[c]] = proc[c].old_hashes]

ReadHashFile(c) ==
    /\ proc[c].pc = "save"
    /\ proc' = [proc EXCEPT ![c].pc = "write", ![c].data = FileWith(c)]
    /\ UNCHANGED <<local, caches, projects, runs>>

TruncateHashFile(c) ==
    /\ proc[c].pc = "write"
    /\ hash_cache' = NoCache /\ legacy' = FALSE
    /\ proc' = [proc EXCEPT ![c].pc = "dump"]
    /\ UNCHANGED <<local, project_cache, projects, runs>>

DumpHashFile(c) ==
    /\ proc[c].pc = "dump"
    /\ hash_cache' = proc[c].data /\ legacy' = FALSE
    /\ proc' = [proc EXCEPT ![c].pc = "job"]
    /\ UNCHANGED <<local, project_cache, projects, runs>>

----------------------------------------------------------------------------
(* run_config: upload the job, submit_run, poll_run *)

UploadJob(c) ==
    \E stored, answered \in BOOLEAN :
        /\ proc[c].pc = "job"
        /\ Attempt(c, stored, answered, [proc[c] EXCEPT !.pc = "submit"])
        /\ projects' = IF stored THEN [projects EXCEPT ![proc[c].id].job = c]
                       ELSE projects
        /\ UNCHANGED <<local, caches, runs>>

\* Without an answer the run is queued all the same, and the process ends at once.
Submit(c) ==
    /\ proc[c].pc = "submit" /\ Live(proc[c].id)
    /\ runs' = [runs EXCEPT ![c] = [NoRun EXCEPT !.state = "queued"]]
    /\ proc' = [proc EXCEPT ![c].pc = "poll"]
    /\ UNCHANGED <<local, caches, projects>>

\* External: a worker picks the run up and reads the files of the project.
StartRun(c) ==
    LET project == projects[proc[c].id]
    IN /\ runs[c].state = "queued" /\ project.state = "live"
       /\ runs' = [runs EXCEPT ![c] = [state |-> "started", files |-> project.files,
                                       job |-> project.job]]
       /\ UNCHANGED <<local, caches, projects, proc>>

\* poll_run returns a terminal status, or its deadline passes.
EndPoll(c) ==
    /\ proc[c].pc = "poll"
    /\ proc' = [proc EXCEPT ![c] = Ended(c)]
    /\ UNCHANGED <<local, caches, projects, runs>>

----------------------------------------------------------------------------
(* External: the developer edits a file, someone deletes a project *)

Edit(f) ==
    /\ \E version \in Versions :
            /\ version # local[f] /\ (Reverts \/ version > local[f])
            /\ local' = [local EXCEPT ![f] = version]
    /\ UNCHANGED <<caches, projects, runs, proc>>

DeleteProject(id) ==
    /\ Deletes /\ Live(id)
    /\ projects' = [projects EXCEPT ![id].state = "deleted"]
    /\ proc' = [c \in Clients |-> IF proc[c].id = id
                                  THEN [proc[c] EXCEPT !.disturbed = TRUE] ELSE proc[c]]
    /\ UNCHANGED <<local, caches, runs>>

Step(c) ==
    \/ FindCached(c) \/ FindByName(c) \/ NotInList(c) \/ Create(c)
    \/ LoadHashes(c) \/ ReadFile(c) \/ Upload(c) \/ EndSync(c)
    \/ ReadHashFile(c) \/ TruncateHashFile(c) \/ DumpHashFile(c)
    \/ UploadJob(c) \/ Submit(c) \/ EndPoll(c)

Advance(c) == (Step(c) \/ Die(c)) /\ UNCHANGED starts

Next ==
    \/ \E c \in Clients : Begin(c) \/ Advance(c)
    \/ /\ \/ \E c \in Clients : StartRun(c)
          \/ \E f \in Files : Edit(f)
          \/ \E id \in Ids : DeleteProject(id)
       /\ UNCHANGED starts

\* A running process keeps taking steps (or raises).
Spec == Init /\ [][Next]_vars /\ \A c \in Clients : WF_vars(Advance(c))
----------------------------------------------------------------------------
\* Type invariant.
TypeOK ==
    /\ local \in [Files -> Versions]
    /\ project_cache \in [id : 0..MaxProjects, name : Names]
    /\ hash_cache \in [Names -> [Files -> Contents]] /\ legacy \in BOOLEAN
    /\ projects \in [Ids -> Project] /\ runs \in [Clients -> Run]
    /\ proc \in [Clients -> Process] /\ starts \in 0..MaxStarts

Listed(c) == {FilePaths[c][i] : i \in DOMAIN FilePaths[c]}

OwnCode(c) ==
    runs[c].state = "started" /\ ~proc[c].disturbed =>
        /\ runs[c].job = c
        /\ \A f \in Listed(c) : runs[c].files[f] = proc[c].new_hashes[f]

\* A run executes the files its process read and the job it uploaded, unless
\* another process or a deletion meddled with the project: the hash diff leaves
\* no old file behind, whatever syncs were cut short before.
RanItsOwnCode == \A c \in Clients : OwnCode(c)

\* A forced sync does so out of any state of the caches and the project: races on
\* the hash file, restored contents and deleted projects do no lasting harm.
ForcedSyncHeals == \A c \in Forced : OwnCode(c)

\* What the hash file claims of a project is not newer than what it holds, and
\* every project of the name holds it: a skipped upload was not needed.
CacheBehindProject ==
    \A n \in Names, id \in Ids, f \in Files :
        ~legacy /\ Live(id) /\ projects[id].name = n =>
            hash_cache[n][f] <= projects[id].files[f]

\* Cut-off creations and a stale project cache never lead to a second project
\* of one name.
OneProjectPerName ==
    \A i, j \in Ids : Live(i) /\ Live(j) /\ projects[i].name = projects[j].name => i = j

\* Uploads are tried a bounded number of times and polling has a deadline: a
\* process ends.
ProcessesEnd == \A c \in Clients : proc[c].pc = "find" ~> ~Busy(c)

----------------------------------------------------------------------------
(* What comments and documents say and the code does not do *)

Synced(c) == proc[c].pc \in {"save", "write", "dump", "job", "submit", "poll"}
                /\ ~proc[c].disturbed

\* "The runner uploads all scripts, lib/, and engine/ files" (BACKTEST_GUIDE.md):
\* a run finds the modules its entry point imports.
RunFindsItsImports ==
    \A c \in Clients :
        runs[c].state = "started" /\ ~proc[c].disturbed =>
            \A f \in Imports[c] : runs[c].files[f] # NoFile
=============================================================================
