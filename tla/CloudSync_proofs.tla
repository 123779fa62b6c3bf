-------------------------- MODULE CloudSync_proofs --------------------------
(***************************************************************************)
(* Proofs about the cloud orchestrator, for any number of clients, files,  *)
(* projects and starts.                                                    *)
(***************************************************************************)
EXTENDS CloudSync, TLAPS

AtWork == {"sync", "upload", "save", "write", "dump", "job", "submit", "poll"}

\* Where a process has got to: it has a project when it is at work there, an upload
\* is of a file of its list, and a run is submitted at the end.
Stage(c) ==
    /\ proc[c].pc = "upload" => proc[c].next <= Len(FilePaths[c])
    /\ proc[c].pc \in AtWork \cup {"load"} \/ runs[c].state # "none" => proc[c].id \in Ids
    /\ runs[c].state # "none" => proc[c].pc \in {"idle", "poll"}

\* What it has read so far: every file before the one it is at.
HasRead(c) ==
    /\ proc[c].pc \in {"find", "create", "load"} =>
            proc[c].new_hashes = NoHashes /\ proc[c].next = 1
    /\ proc[c].pc \in {"sync", "upload"} => \A i \in DOMAIN FilePaths[c] :
            i < proc[c].next \/ (proc[c].pc = "upload" /\ i = proc[c].next) =>
                proc[c].new_hashes[FilePaths[c][i]] # NoFile
    /\ proc[c].pc \in AtWork \ {"sync", "upload"} \/ runs[c].state # "none" =>
            \A f \in Listed(c) : proc[c].new_hashes[f] # NoFile

\* As long as nobody meddles, the project holds what the process has read, short of
\* the file it is uploading.
Uploaded(c) ==
    \A f \in Files : \/ proc[c].new_hashes[f] = NoFile
                     \/ proc[c].pc = "upload" /\ f = Path(c)
                     \/ projects[proc[c].id].files[f] = proc[c].new_hashes[f]

CodeInProject(c) ==
    ~proc[c].disturbed =>
        /\ proc[c].id \in Ids => Uploaded(c)
        /\ proc[c].pc \in {"submit", "poll"} \/ runs[c].state # "none" =>
                projects[proc[c].id].job = c
        /\ OwnCode(c)

CodeInv(c) == Stage(c) /\ HasRead(c) /\ CodeInProject(c)
StagesHold == \A c \in Clients : Stage(c) /\ HasRead(c)
ForcedInv == \A c \in Forced : /\ CodeInProject(c)
                               /\ proc[c].pc \in {"sync", "upload"} => proc[c].old_hashes = NoHashes

\* One process at a time.
Alone == \A c, d \in Clients : Busy(c) /\ Busy(d) => c = d

\* Hashes claim nothing that the files are too old for; a cache does so of every project,
\* and nothing of a name without one.
Behind(hashes, files) == \A f \in Files : hashes[f] <= files[f]

AllBehind(cache, ps) ==
    \A n \in Names :
        /\ \A id \in Ids : ps[id].state = "live" /\ ps[id].name = n =>
                Behind(cache[n], ps[id].files)
        /\ (\A id \in Ids : ps[id].state = "live" => ps[id].name # n) => cache[n] = NoHashes

\* The project of a process is the only one of its name, and the cache knows no other.
Named ==
    /\ OneProjectPerName
    /\ project_cache.id \in Ids => /\ projects[project_cache.id].name = project_cache.name
                                   /\ projects[project_cache.id].state # "unused"
    /\ \A c \in Clients :
        /\ proc[c].pc = "create" => NotFound(c)
        /\ Busy(c) /\ proc[c].id \in Ids => /\ projects[proc[c].id].name = NameOf[c]
                                            /\ projects[proc[c].id].state # "unused"

NamesInv == Alone /\ Named

\* Nobody deletes a project or meddles with the one of a process at work.
LeftAlone ==
    /\ \A id \in Ids : projects[id].state # "deleted"
    /\ \A c \in Clients : Busy(c) => ~proc[c].disturbed

\* The hashes a process works with claim nothing its project does not hold, and what it
\* uploads is newer than what is there.
Ordered(c) ==
    /\ proc[c].pc \in {"sync", "upload", "save", "write", "dump"} =>
            Behind(proc[c].old_hashes, projects[proc[c].id].files)
    /\ proc[c].pc \in {"write", "dump"} => AllBehind(proc[c].data, projects)
    /\ proc[c].pc = "upload" =>
            /\ projects[proc[c].id].files[Path(c)] <= proc[c].new_hashes[Path(c)]
            /\ proc[c].new_hashes[Path(c)] <= local[Path(c)]

\* Contents only get newer, so hashes, project and checkout are in this order.
InOrder ==
    /\ \A id \in Ids : Behind(projects[id].files, local)
    /\ AllBehind(hash_cache, projects)
    /\ \A c \in Clients : Ordered(c)

SerialInv == LeftAlone /\ InOrder /\ \A c \in Clients : CodeInProject(c)

----------------------------------------------------------------------------
(* Types *)

\* The default process, project and cache are of their types.
LEMMA Defaults ==
    /\ Idle \in Process /\ Fresh \in Project /\ NoRun \in Run
    /\ NoHashes \in [Files -> Contents] /\ NoCache \in [Names -> [Files -> Contents]]
    /\ 1 \in Versions /\ NoFile \notin Versions /\ Ids \subseteq 0..MaxProjects
    /\ 0 \notin Ids /\ 1 \in Ids
<1>1. NoHashes \in [Files -> Contents] /\ NoCache \in [Names -> [Files -> Contents]]
  BY DEF NoHashes, NoCache, Contents
<1>2. (CHOOSE n \in Names : TRUE) \in Names
  BY CloudAssumption
<1> QED
  BY <1>1, <1>2, CloudAssumption
     DEF Idle, Process, Fresh, Project, NoRun, Run, NoFile, Ids

\* So is the process a client ends as.
LEMMA EndedType ==
    ASSUME TypeOK, NEW c \in Clients PROVE Ended(c) \in Process
<1>1. proc[c] \in Process
  BY DEF TypeOK
<1> QED BY <1>1, Defaults DEF Ended, Process

\* A process stays one when a field is given another value of its type.
LEMMA ProcessField ==
    ASSUME NEW p \in Process, NEW files \in [Files -> Contents]
    PROVE  /\ \A pc \in {"idle", "find", "create", "load", "sync", "upload", "save",
                         "write", "dump", "job", "submit", "poll"} :
                    [p EXCEPT !.pc = pc] \in Process
           /\ \A id \in 0..MaxProjects : [p EXCEPT !.id = id] \in Process
           /\ [p EXCEPT !.next = @ + 1] \in Process
           /\ [p EXCEPT !.tries = 0] \in Process
           /\ [p EXCEPT !.tries = @ + 1] \in Process
           /\ [p EXCEPT !.old_hashes = files] \in Process
           /\ [p EXCEPT !.new_hashes = files] \in Process
           /\ \A data \in [Names -> [Files -> Contents]] : [p EXCEPT !.data = data] \in Process
           /\ [p EXCEPT !.disturbed = TRUE] \in Process
<1>1. ASSUME NEW pc \in {"idle", "find", "create", "load", "sync", "upload", "save",
                         "write", "dump", "job", "submit", "poll"}
      PROVE  [p EXCEPT !.pc = pc] \in Process
  BY DEF Process
<1>2. ASSUME NEW id \in 0..MaxProjects PROVE [p EXCEPT !.id = id] \in Process
  BY DEF Process
<1>3. [p EXCEPT !.next = @ + 1] \in Process
  <2>1. p.next + 1 \in Nat \ {0}
    BY DEF Process
  <2> QED BY <2>1 DEF Process
<1>4. [p EXCEPT !.tries = 0] \in Process
  BY DEF Process
<1>5. [p EXCEPT !.tries = @ + 1] \in Process
  <2>1. p.tries + 1 \in Nat
    BY DEF Process
  <2> QED BY <2>1 DEF Process
<1>6. [p EXCEPT !.old_hashes = files] \in Process
  BY DEF Process
<1>7. [p EXCEPT !.new_hashes = files] \in Process
  BY DEF Process
<1>8. ASSUME NEW data \in [Names -> [Files -> Contents]]
      PROVE  [p EXCEPT !.data = data] \in Process
  BY DEF Process
<1>9. [p EXCEPT !.disturbed = TRUE] \in Process
  BY DEF Process
<1> QED BY <1>1, <1>2, <1>3, <1>4, <1>5, <1>6, <1>7, <1>8, <1>9

\* So does a project.
LEMMA ProjectField ==
    ASSUME NEW p \in Project
    PROVE  /\ \A state \in {"live", "deleted"} : [p EXCEPT !.state = state] \in Project
           /\ \A name \in Names : [p EXCEPT !.name = name] \in Project
           /\ \A f \in Files, v \in Contents : [p EXCEPT !.files[f] = v] \in Project
           /\ \A c \in Clients : [p EXCEPT !.job = c] \in Project
<1>1. ASSUME NEW state \in {"live", "deleted"} PROVE [p EXCEPT !.state = state] \in Project
  BY DEF Project
<1>2. ASSUME NEW name \in Names PROVE [p EXCEPT !.name = name] \in Project
  BY DEF Project
<1>3. ASSUME NEW f \in Files, NEW v \in Contents PROVE [p EXCEPT !.files[f] = v] \in Project
  <2>1. [p.files EXCEPT ![f] = v] \in [Files -> Contents]
    BY DEF Project
  <2>2. [p EXCEPT !.files[f] = v] = [p EXCEPT !.files = [p.files EXCEPT ![f] = v]]
    BY DEF Project
  <2>3. \A files \in [Files -> Contents] : [p EXCEPT !.files = files] \in Project
    <3> TAKE files \in [Files -> Contents]
    <3> QED BY DEF Project
  <2> QED BY <2>1, <2>2, <2>3
<1>4. ASSUME NEW c \in Clients PROVE [p EXCEPT !.job = c] \in Project
  BY DEF Project
<1> QED BY <1>1, <1>2, <1>3, <1>4

\* One attempt of an upload: the process has its answer, tries again or has ended, and
\* whoever has the same project knows of it if it was stored.
After(c, answered, done) ==
    IF answered THEN [done EXCEPT !.tries = 0]
    ELSE IF Failed(c).tries < MaxTries THEN Failed(c)
    ELSE Ended(c)

LEMMA AttemptDoes ==
    ASSUME TypeOK, NEW c \in Clients, NEW stored \in BOOLEAN, NEW answered \in BOOLEAN,
           NEW done \in Process, Attempt(c, stored, answered, done)
    PROVE  /\ proc' \in [Clients -> Process]
           /\ proc'[c] = After(c, answered, done)
           /\ \A d \in Clients \ {c} :
                    proc'[d] = IF proc[d].id = proc[c].id /\ stored
                               THEN [proc[d] EXCEPT !.disturbed = TRUE] ELSE proc[d]
           /\ answered => stored
<1>1. ASSUME NEW d \in Clients PROVE proc[d] \in Process
  BY DEF TypeOK
<1>2. After(c, answered, done) \in Process
  BY <1>1, ProcessField, EndedType, Defaults DEF After, Failed
<1>3. \A d \in Clients : [proc[d] EXCEPT !.disturbed = TRUE] \in Process
  BY <1>1, ProcessField, Defaults
<1>4. proc' = [d \in Clients |->
                    IF d = c THEN After(c, answered, done)
                    ELSE IF d \in Others(c, proc[c].id) /\ stored
                         THEN [proc[d] EXCEPT !.disturbed = TRUE] ELSE proc[d]]
  BY DEF Attempt, After, GivenUp
<1> QED BY <1>1, <1>2, <1>3, <1>4 DEF Attempt, Others

\* The steps that only find a project.
Finding(c) == FindCached(c) \/ FindByName(c) \/ NotInList(c) \/ Create(c)

LEMMA FindingKeepsType ==
    ASSUME TypeOK, NEW c \in Clients, Finding(c), UNCHANGED starts PROVE TypeOK'
<1> USE DEF caches
<1>1. proc[c] \in Process /\ NameOf[c] \in Names
  BY CloudAssumption DEF TypeOK
<1>2. ASSUME NEW id \in Ids, Use(c, id) PROVE proc' \in [Clients -> Process]
  <2>1. [[proc[c] EXCEPT !.pc = "load"] EXCEPT !.id = id] \in Process
    BY <1>1, ProcessField, Defaults
  <2>2. proc' = [proc EXCEPT ![c] = [[proc[c] EXCEPT !.pc = "load"] EXCEPT !.id = id]]
    BY <1>2 DEF Use, TypeOK
  <2> QED BY <2>1, <2>2 DEF TypeOK
<1>3. CASE FindCached(c)
  BY <1>2, <1>3 DEF FindCached, TypeOK
<1>4. CASE FindByName(c)
  <2>1. PICK id \in Ids : Use(c, id) /\ project_cache' = [id |-> id, name |-> NameOf[c]]
    BY <1>4 DEF FindByName
  <2>2. project_cache' \in [id : 0..MaxProjects, name : Names]
    BY <1>1, <2>1, Defaults
  <2> QED BY <1>2, <1>4, <2>1, <2>2 DEF FindByName, TypeOK
<1>5. CASE NotInList(c)
  <2>1. [proc[c] EXCEPT !.pc = "create"] \in Process
    BY <1>1, ProcessField, Defaults
  <2> QED BY <1>5, <2>1 DEF NotInList, TypeOK
<1>6. CASE Create(c)
  <2>1. PICK id \in Ids, answered \in BOOLEAN :
            /\ projects' = [projects EXCEPT ![id].state = "live", ![id].name = NameOf[c]]
            /\ IF answered
               THEN Use(c, id) /\ project_cache' = [id |-> id, name |-> NameOf[c]]
               ELSE proc' = [proc EXCEPT ![c] = Ended(c)] /\ UNCHANGED project_cache
    BY <1>6 DEF Create
  <2>2. projects' \in [Ids -> Project]
    <3>1. projects[id] \in Project
      BY DEF TypeOK
    <3>2. [[projects[id] EXCEPT !.state = "live"] EXCEPT !.name = NameOf[c]] \in Project
      BY <1>1, <3>1, ProjectField
    <3>3. projects' = [projects EXCEPT ![id] =
                [[projects[id] EXCEPT !.state = "live"] EXCEPT !.name = NameOf[c]]]
      BY <2>1 DEF TypeOK
    <3> QED BY <3>2, <3>3 DEF TypeOK
  <2>3. project_cache' \in [id : 0..MaxProjects, name : Names]
    BY <1>1, <2>1, Defaults DEF TypeOK
  <2>4. proc' \in [Clients -> Process]
    BY <1>2, <2>1, EndedType DEF TypeOK
  <2> QED BY <1>6, <2>2, <2>3, <2>4 DEF Create, TypeOK
<1> QED BY <1>3, <1>4, <1>5, <1>6 DEF Finding

\* The steps that write the hash file, or touch the process alone.
Filing(c) == \/ LoadHashes(c) \/ ReadFile(c) \/ EndSync(c)
             \/ ReadHashFile(c) \/ TruncateHashFile(c) \/ DumpHashFile(c)

LEMMA FileType ==
    ASSUME TypeOK, NEW c \in Clients, proc[c].next <= Len(FilePaths[c])
    PROVE  Path(c) \in Files /\ proc[c].next \in DOMAIN FilePaths[c]
<1>1. proc[c].next \in Nat \ {0} /\ FilePaths[c] \in Seq(Files)
  BY CloudAssumption DEF TypeOK, Process
<1> QED BY <1>1 DEF Path

LEMMA FilingKeepsType ==
    ASSUME TypeOK, NEW c \in Clients, Filing(c), UNCHANGED starts PROVE TypeOK'
<1> USE DEF caches
<1> DEFINE p == proc[c]
<1>1. p \in Process /\ NameOf[c] \in Names /\ p.old_hashes \in [Files -> Contents]
      /\ p.new_hashes \in [Files -> Contents] /\ p.data \in [Names -> [Files -> Contents]]
  BY CloudAssumption DEF TypeOK, Process
<1>2. ASSUME NEW q \in Process, proc' = [proc EXCEPT ![c] = q],
             UNCHANGED <<local, project_cache, projects, runs>>,
             hash_cache' \in [Names -> [Files -> Contents]], legacy' \in BOOLEAN
      PROVE  TypeOK'
  BY <1>2 DEF TypeOK
<1>3. CASE LoadHashes(c)
  <2>1. OldHashes(c) \in [Files -> Contents]
    BY <1>1, Defaults DEF OldHashes, TypeOK
  <2>2. [[p EXCEPT !.pc = "sync"] EXCEPT !.old_hashes = OldHashes(c)] \in Process
    BY <1>1, <2>1, ProcessField
  <2> QED BY <1>2, <1>3, <2>2 DEF LoadHashes, TypeOK
<1>4. CASE ReadFile(c)
  <2> DEFINE f == Path(c)
             hashes == [p.new_hashes EXCEPT ![f] = local[f]]
             q == [p EXCEPT !.new_hashes = hashes]
  <2>1. f \in Files
    BY <1>4, FileType DEF ReadFile
  <2>2. hashes \in [Files -> Contents]
    BY <1>1, <2>1 DEF TypeOK, Contents
  <2>3. q \in Process
    BY <1>1, <2>2, ProcessField
  <2>4. [q EXCEPT !.next = @ + 1] \in Process /\ [q EXCEPT !.pc = "upload"] \in Process
    BY <2>2, <2>3, ProcessField
  <2> QED BY <1>2, <1>4, <2>4 DEF ReadFile, TypeOK
<1>5. CASE EndSync(c)
  <2>1. Updated(p.old_hashes, p.new_hashes) \in [Files -> Contents]
    BY <1>1 DEF Updated
  <2>2. [[p EXCEPT !.pc = "save"]
            EXCEPT !.old_hashes = Updated(p.old_hashes, p.new_hashes)] \in Process
    BY <1>1, <2>1, ProcessField
  <2> QED BY <1>2, <1>5, <2>2 DEF EndSync, TypeOK
<1>6. CASE ReadHashFile(c)
  <2>1. FileWith(c) \in [Names -> [Files -> Contents]]
    BY <1>1, Defaults DEF FileWith, TypeOK
  <2>2. [[p EXCEPT !.pc = "write"] EXCEPT !.data = FileWith(c)] \in Process
    BY <1>1, <2>1, ProcessField
  <2> QED BY <1>2, <1>6, <2>2 DEF ReadHashFile, TypeOK
<1>7. CASE TruncateHashFile(c)
  <2>1. [p EXCEPT !.pc = "dump"] \in Process
    BY <1>1, ProcessField
  <2> QED BY <1>2, <1>7, <2>1, Defaults DEF TruncateHashFile, TypeOK
<1>8. CASE DumpHashFile(c)
  <2>1. [p EXCEPT !.pc = "job"] \in Process
    BY <1>1, ProcessField
  <2> QED BY <1>1, <1>2, <1>8, <2>1 DEF DumpHashFile, TypeOK
<1> QED BY <1>3, <1>4, <1>5, <1>6, <1>7, <1>8 DEF Filing

\* The steps that talk to the project: uploads, the submit and the polling.
Sending(c) == Upload(c) \/ UploadJob(c) \/ Submit(c) \/ EndPoll(c)

UploadDone(c) == [[proc[c] EXCEPT !.pc = "sync"] EXCEPT !.next = @ + 1]
JobDone(c) == [proc[c] EXCEPT !.pc = "submit"]

LEMMA UploadDoes ==
    ASSUME TypeOK, NEW c \in Clients, Upload(c)
    PROVE  \E stored, answered \in BOOLEAN :
            /\ Attempt(c, stored, answered, UploadDone(c)) /\ UploadDone(c) \in Process
            /\ projects' = IF stored
                           THEN [projects EXCEPT ![proc[c].id] =
                                    [@ EXCEPT !.files[Path(c)] = proc[c].new_hashes[Path(c)]]]
                           ELSE projects
<1>1. proc[c] \in Process
  BY DEF TypeOK
<1>2. UploadDone(c) \in Process
  BY <1>1, ProcessField, Defaults DEF UploadDone
<1>3. UploadDone(c) = [proc[c] EXCEPT !.pc = "sync", !.next = @ + 1]
  BY <1>1 DEF UploadDone, Process
<1> QED BY <1>2, <1>3 DEF Upload

LEMMA SendingKeepsType ==
    ASSUME TypeOK, NEW c \in Clients, Stage(c), Sending(c), UNCHANGED starts PROVE TypeOK'
<1> USE DEF caches
<1> DEFINE p == proc[c]
<1>1. /\ p \in Process /\ p.new_hashes \in [Files -> Contents]
      /\ \A id \in Ids : projects[id] \in Project
  BY DEF TypeOK, Process
<1>2. CASE Upload(c)
  <2>1. PICK stored, answered \in BOOLEAN :
            /\ Attempt(c, stored, answered, UploadDone(c)) /\ UploadDone(c) \in Process
            /\ projects' = IF stored
                           THEN [projects EXCEPT ![p.id] =
                                    [@ EXCEPT !.files[Path(c)] = p.new_hashes[Path(c)]]]
                           ELSE projects
    BY <1>2, UploadDoes
  <2>2. proc' \in [Clients -> Process]
    BY <2>1, AttemptDoes
  <2>3. Path(c) \in Files
    BY <1>2, FileType DEF Upload, Stage
  <2>4. projects' \in [Ids -> Project]
    <3>1. \A id \in Ids : [projects[id] EXCEPT !.files[Path(c)] = p.new_hashes[Path(c)]] \in Project
      BY <1>1, <2>3, ProjectField
    <3> QED BY <2>1, <3>1 DEF TypeOK
  <2> QED BY <1>2, <2>2, <2>4 DEF Upload, TypeOK
<1>3. CASE UploadJob(c)
  <2>1. PICK stored, answered \in BOOLEAN :
            /\ Attempt(c, stored, answered, JobDone(c))
            /\ projects' = IF stored THEN [projects EXCEPT ![p.id].job = c] ELSE projects
    BY <1>3 DEF UploadJob, JobDone
  <2>2. proc' \in [Clients -> Process]
    <3>1. JobDone(c) \in Process
      BY <1>1, ProcessField DEF JobDone
    <3> QED BY <2>1, <3>1, AttemptDoes
  <2>3. projects' \in [Ids -> Project]
    <3>1. \A id \in Ids : [projects[id] EXCEPT !.job = c] \in Project
      BY <1>1, ProjectField
    <3> QED BY <2>1, <3>1 DEF TypeOK
  <2> QED BY <1>3, <2>2, <2>3 DEF UploadJob, TypeOK
<1>4. CASE Submit(c)
  <2>1. [p EXCEPT !.pc = "poll"] \in Process
    BY <1>1, ProcessField
  <2>2. [NoRun EXCEPT !.state = "queued"] \in Run
    BY Defaults DEF NoRun, Run
  <2> QED BY <1>4, <2>1, <2>2 DEF Submit, TypeOK
<1>5. CASE EndPoll(c)
  BY <1>5, EndedType DEF EndPoll, TypeOK
<1> QED BY <1>2, <1>3, <1>4, <1>5 DEF Sending

\* What is done around the processes.
Around == \/ \E c \in Clients : StartRun(c)
          \/ \E f \in Files : Edit(f)
          \/ \E id \in Ids : DeleteProject(id)

LEMMA AroundKeepsType ==
    ASSUME TypeOK, \A c \in Clients : Stage(c), Around, UNCHANGED starts PROVE TypeOK'
<1> USE DEF caches
<1>1. CASE \E c \in Clients : StartRun(c)
  <2>1. PICK c \in Clients : StartRun(c)
    BY <1>1
  <2> DEFINE run == [state |-> "started", files |-> projects[proc[c].id].files,
                     job |-> projects[proc[c].id].job]
  <2>2. projects[proc[c].id] \in Project
    BY <2>1 DEF TypeOK, StartRun, Stage
  <2>3. run \in Run
    BY <2>2 DEF Project, Run
  <2>4. runs' = [runs EXCEPT ![c] = run]
    BY <2>1 DEF StartRun
  <2> QED BY <2>1, <2>3, <2>4 DEF StartRun, TypeOK
<1>2. CASE \E f \in Files : Edit(f)
  <2>1. PICK f \in Files, version \in Versions : Edit(f) /\ local' = [local EXCEPT ![f] = version]
    BY <1>2 DEF Edit
  <2> QED BY <2>1 DEF Edit, TypeOK
<1>3. CASE \E id \in Ids : DeleteProject(id)
  <2>1. PICK id \in Ids : DeleteProject(id)
    BY <1>3
  <2>2. [projects[id] EXCEPT !.state = "deleted"] \in Project
    <3>1. projects[id] \in Project
      BY DEF TypeOK
    <3> QED BY <3>1, ProjectField
  <2>3. projects' \in [Ids -> Project]
    BY <2>1, <2>2 DEF DeleteProject, TypeOK
  <2>4. ASSUME NEW c \in Clients PROVE [proc[c] EXCEPT !.disturbed = TRUE] \in Process
    <3>1. proc[c] \in Process
      BY DEF TypeOK
    <3> QED BY <3>1, ProcessField, Defaults
  <2>5. proc' \in [Clients -> Process]
    BY <2>1, <2>4 DEF DeleteProject, TypeOK
  <2> QED BY <2>1, <2>3, <2>5 DEF DeleteProject, TypeOK
<1> QED BY <1>1, <1>2, <1>3 DEF Around

\* A client takes one of these steps, is started, or ends.
LEMMA AdvanceSteps ==
    ASSUME NEW c \in Clients, Advance(c)
    PROVE  /\ Finding(c) \/ Filing(c) \/ Sending(c) \/ Die(c)
           /\ UNCHANGED starts
  BY DEF Advance, Step, Finding, Filing, Sending

\* Every step keeps the types, as long as processes are where they may be.
LEMMA StepKeepsType ==
    ASSUME TypeOK, \A c \in Clients : Stage(c), [Next]_vars PROVE TypeOK'
<1>1. CASE \E c \in Clients : Begin(c)
  <2>1. PICK c \in Clients : Begin(c)
    BY <1>1
  <2>2. [Idle EXCEPT !.pc = "find"] \in Process
    BY Defaults, ProcessField
  <2>3. starts + 1 \in 0..MaxStarts
    BY <2>1, CloudAssumption DEF Begin, TypeOK
  <2> QED BY <2>1, <2>2, <2>3, Defaults DEF Begin, TypeOK, caches
<1>2. CASE \E c \in Clients : Advance(c)
  <2>1. PICK c \in Clients : Advance(c)
    BY <1>2
  <2>2. CASE Die(c)
    BY <2>1, <2>2, EndedType DEF Die, TypeOK, caches, Advance
  <2> QED BY <2>1, <2>2, AdvanceSteps, FindingKeepsType, FilingKeepsType, SendingKeepsType
<1>3. CASE Around /\ UNCHANGED starts
  BY <1>3, AroundKeepsType
<1>4. CASE UNCHANGED vars
  BY <1>4 DEF vars, caches, TypeOK
<1> QED BY <1>1, <1>2, <1>3, <1>4 DEF Next, Around

\* The steps start with nothing running and no run.
LEMMA InitStages == Init => TypeOK /\ StagesHold
<1> SUFFICES ASSUME Init PROVE TypeOK /\ StagesHold
  OBVIOUS
<1>1. \A c \in Clients : proc[c] = Idle /\ runs[c] = NoRun
  BY DEF Init
<1>2. StagesHold
  <2>1. ASSUME NEW c \in Clients PROVE Stage(c) /\ HasRead(c)
    <3>1. proc[c].pc = "idle" /\ runs[c].state = "none"
      BY <1>1 DEF Idle, NoRun
    <3> QED BY <3>1 DEF Stage, HasRead, AtWork
  <2> QED BY <2>1 DEF StagesHold
<1>3. local \in [Files -> Versions] /\ hash_cache \in [Names -> [Files -> Contents]]
  <2>1. local \in [Files -> Versions]
    BY Defaults DEF Init
  <2>2. [n \in Names |-> local] \in [Names -> [Files -> Contents]]
    BY <2>1 DEF Contents
  <2> QED BY <2>1, <2>2, Defaults DEF Init
<1>4. projects \in [Ids -> Project]
  <2>1. CASE projects = [id \in Ids |-> Fresh]
    BY <2>1, Defaults
  <2>2. CASE \E owner \in LegacyOwners :
                projects = [id \in Ids |->
                    IF id = 1 THEN [Fresh EXCEPT !.state = "live", !.name = owner,
                                                 !.files = local]
                    ELSE Fresh]
    <3>1. PICK owner \in LegacyOwners :
                projects = [id \in Ids |->
                    IF id = 1 THEN [Fresh EXCEPT !.state = "live", !.name = owner,
                                                 !.files = local]
                    ELSE Fresh]
      BY <2>2
    <3>2. [Fresh EXCEPT !.state = "live", !.name = owner, !.files = local] \in Project
      BY <1>3, CloudAssumption DEF Fresh, Project, Contents
    <3> QED BY <3>1, <3>2, Defaults
  <2> QED BY <2>1, <2>2 DEF Init
<1>5. project_cache \in [id : 0..MaxProjects, name : Names]
  <2>1. (CHOOSE n \in Names : TRUE) \in Names
    BY CloudAssumption
  <2>2. 0 \in 0..MaxProjects
    BY CloudAssumption
  <2> HIDE CloudAssumption
  <2>3. project_cache = [id |-> 0, name |-> CHOOSE n \in Names : TRUE]
    BY DEF Init
  <2> DEFINE any == CHOOSE n \in Names : TRUE
  <2> HIDE DEF any
  <2>4. [id |-> 0, name |-> any] \in [id : 0..MaxProjects, name : Names]
    BY <2>1, <2>2 DEF any
  <2> QED BY <2>3, <2>4 DEF any
<1>6. runs \in [Clients -> Run] /\ proc \in [Clients -> Process]
  BY Defaults DEF Init
<1>7. legacy \in BOOLEAN /\ starts \in 0..MaxStarts
  <2>1. legacy \in BOOLEAN
    BY DEF Init
  <2>2. starts \in 0..MaxStarts
    <3>1. starts = 0
      BY DEF Init
    <3>2. MaxStarts \in Nat
      BY CloudAssumption
    <3> QED BY <3>1, <3>2
  <2> QED BY <2>1, <2>2
<1> QED BY <1>2, <1>3, <1>4, <1>5, <1>6, <1>7 DEF TypeOK

----------------------------------------------------------------------------
(* The project holds what the process has read *)

\* A client takes no step itself; its project is left alone, or it is told.
Told(d) ==
    /\ runs'[d] = runs[d]
    /\ proc'[d] = proc[d] \/ proc'[d] = [proc[d] EXCEPT !.disturbed = TRUE]
    /\ ~proc'[d].disturbed /\ proc[d].id \in Ids =>
            /\ projects'[proc[d].id].files = projects[proc[d].id].files
            /\ projects'[proc[d].id].job = projects[proc[d].id].job

\* A client that takes no step keeps what it knows: its project is left alone, or it
\* is told.
LEMMA OthersKeepCode ==
    ASSUME NEW d \in Clients, TypeOK, Told(d)
    PROVE  /\ Stage(d) /\ HasRead(d) => Stage(d)' /\ HasRead(d)'
           /\ CodeInv(d) => CodeInProject(d)'
           /\ proc'[d].pc = proc[d].pc /\ proc'[d].id = proc[d].id
           /\ proc'[d].old_hashes = proc[d].old_hashes
           /\ proc'[d].new_hashes = proc[d].new_hashes
           /\ proc'[d].data = proc[d].data /\ proc'[d].next = proc[d].next
<1>1. proc[d] \in Process
  BY DEF TypeOK
<1>2. /\ proc'[d].pc = proc[d].pc /\ proc'[d].id = proc[d].id
      /\ proc'[d].old_hashes = proc[d].old_hashes
      /\ proc'[d].new_hashes = proc[d].new_hashes
      /\ proc'[d].data = proc[d].data /\ proc'[d].next = proc[d].next
      /\ ~proc'[d].disturbed => ~proc[d].disturbed
  BY <1>1 DEF Process, Told
<1>3. Stage(d) /\ HasRead(d) => Stage(d)' /\ HasRead(d)'
  BY <1>2 DEF Stage, HasRead, Listed, AtWork, Told
<1>4. CodeInv(d) => CodeInProject(d)'
  BY <1>2 DEF CodeInv, CodeInProject, Uploaded, OwnCode, Listed, Path, Stage, AtWork, Told
<1> QED BY <1>2, <1>3, <1>4

\* A client that ends keeps what its run is compared with.
LEMMA EndKeepsCode ==
    ASSUME NEW c \in Clients, TypeOK, runs'[c] = runs[c], proc'[c] = Ended(c),
           proc[c].pc # "idle",
           runs[c].state # "none" /\ proc[c].id \in Ids =>
                /\ projects'[proc[c].id].files = projects[proc[c].id].files
                /\ projects'[proc[c].id].job = projects[proc[c].id].job
    PROVE  /\ Stage(c) /\ HasRead(c) => Stage(c)' /\ HasRead(c)'
           /\ CodeInv(c) => CodeInProject(c)'
           /\ proc'[c].pc = "idle"
<1>1. CASE runs[c].state = "none"
  BY <1>1, Defaults DEF Ended, Idle, Stage, HasRead, CodeInProject, CodeInv, OwnCode, AtWork
<1>2. CASE runs[c].state # "none"
  <2>1. /\ proc'[c].pc = "idle" /\ proc'[c].id = proc[c].id
        /\ proc'[c].new_hashes = proc[c].new_hashes
        /\ proc'[c].disturbed = proc[c].disturbed
    BY <1>2 DEF Ended, Idle
  <2>2. Stage(c) /\ HasRead(c) => Stage(c)' /\ HasRead(c)'
    BY <1>2, <2>1 DEF Stage, HasRead, Listed, AtWork
  <2>3. CodeInv(c) => CodeInProject(c)'
    BY <1>2, <2>1 DEF CodeInv, CodeInProject, Uploaded, OwnCode, Listed, Path, Stage, AtWork
  <2> QED BY <2>1, <2>2, <2>3
<1> QED BY <1>1, <1>2

\* Nothing of the projects' files or jobs changes.
SameContents == \A id \in Ids : /\ projects'[id].files = projects[id].files
                                /\ projects'[id].job = projects[id].job

\* Before it has read a file a client knows nothing that could be wrong.
LEMMA FindingKeepsCode ==
    ASSUME TypeOK, NEW c \in Clients, Stage(c), HasRead(c), Finding(c)
    PROVE  /\ Stage(c)' /\ HasRead(c)' /\ CodeInProject(c)'
           /\ SameContents /\ runs' = runs
           /\ \A d \in Clients \ {c} : proc'[d] = proc[d]
           /\ proc'[c].pc \in {"idle", "create", "load"}
<1>1. proc[c] \in Process /\ proc[c].pc \in {"find", "create"}
  BY DEF TypeOK, Finding, FindCached, FindByName, NotInList, Create
<1>2. runs' = runs /\ runs[c].state = "none"
  BY <1>1 DEF Finding, FindCached, FindByName, NotInList, Create, Stage
<1>3. proc[c].new_hashes = NoHashes /\ proc[c].next = 1
  BY <1>1 DEF HasRead
<1>4. \/ proc'[c] = Idle
      \/ proc'[c] = [proc[c] EXCEPT !.pc = "create"]
      \/ \E id \in Ids : proc'[c] = [proc[c] EXCEPT !.pc = "load", !.id = id]
  <2>1. ASSUME NEW id \in Ids, Use(c, id)
        PROVE  proc'[c] = [proc[c] EXCEPT !.pc = "load", !.id = id]
    BY <2>1 DEF Use, TypeOK
  <2>2. CASE FindCached(c)
    BY <2>1, <2>2 DEF FindCached
  <2>3. CASE FindByName(c)
    BY <2>1, <2>3 DEF FindByName
  <2>4. CASE NotInList(c)
    BY <2>4 DEF NotInList, TypeOK
  <2>5. CASE Create(c)
    <3>1. PICK id \in Ids : Use(c, id) \/ proc' = [proc EXCEPT ![c] = Ended(c)]
      BY <2>5 DEF Create
    <3> QED BY <1>2, <2>1, <3>1 DEF Ended, TypeOK
  <2> QED BY <2>2, <2>3, <2>4, <2>5 DEF Finding
<1>5. /\ proc'[c].pc \in {"idle", "create", "load"}
      /\ proc'[c].new_hashes = NoHashes /\ proc'[c].next = 1
      /\ proc'[c].pc = "load" => proc'[c].id \in Ids
  <2>1. CASE proc'[c] = Idle
    BY <2>1 DEF Idle
  <2>2. CASE proc'[c] = [proc[c] EXCEPT !.pc = "create"]
    BY <1>1, <1>3, <2>2 DEF Process
  <2>3. CASE \E id \in Ids : proc'[c] = [proc[c] EXCEPT !.pc = "load", !.id = id]
    <3>1. PICK id \in Ids : proc'[c] = [proc[c] EXCEPT !.pc = "load", !.id = id]
      BY <2>3
    <3> QED BY <1>1, <1>3, <3>1 DEF Process
  <2> QED BY <1>4, <2>1, <2>2, <2>3
<1>6. Stage(c)' /\ HasRead(c)' /\ CodeInProject(c)'
  BY <1>2, <1>5 DEF Stage, HasRead, CodeInProject, Uploaded, OwnCode, NoHashes, AtWork
<1>7. \A d \in Clients \ {c} : proc'[d] = proc[d]
  BY DEF Finding, FindCached, FindByName, NotInList, Create, Use, TypeOK
<1>8. SameContents
  <2>1. \A id \in Ids : projects[id] \in Project
    BY DEF TypeOK
  <2>2. CASE Create(c)
    <3>1. PICK id \in Ids :
            projects' = [projects EXCEPT ![id].state = "live", ![id].name = NameOf[c]]
      BY <2>2 DEF Create
    <3>2. projects' = [projects EXCEPT ![id] =
                [[projects[id] EXCEPT !.state = "live"] EXCEPT !.name = NameOf[c]]]
      BY <3>1 DEF TypeOK
    <3>3. /\ [[projects[id] EXCEPT !.state = "live"] EXCEPT !.name = NameOf[c]].files
                = projects[id].files
          /\ [[projects[id] EXCEPT !.state = "live"] EXCEPT !.name = NameOf[c]].job
                = projects[id].job
      BY <2>1 DEF Project
    <3> QED BY <3>2, <3>3 DEF SameContents, TypeOK
  <2> QED BY <2>2 DEF Finding, FindCached, FindByName, NotInList, SameContents
<1> QED BY <1>2, <1>5, <1>6, <1>7, <1>8

\* The file that the hash diff skips is in the project as it is in the checkout.
SkipsRightly(c) ==
    (/\ proc[c].pc = "sync" /\ proc[c].next <= Len(FilePaths[c])
     /\ Unchanged(c, Path(c)) /\ ~proc[c].disturbed) =>
        projects[proc[c].id].files[Path(c)] = local[Path(c)]

\* What is read is skipped rightly or will be uploaded; the hash file is another matter.
LEMMA ReadKeepsCode ==
    ASSUME TypeOK, NEW c \in Clients, Stage(c), HasRead(c), ReadFile(c)
    PROVE  /\ Stage(c)' /\ HasRead(c)'
           /\ CodeInProject(c) /\ SkipsRightly(c) => CodeInProject(c)'
<1> DEFINE f == Path(c)
           hashes == [proc[c].new_hashes EXCEPT ![f] = local[f]]
<1>1. /\ proc[c] \in Process /\ proc[c].next \in Nat /\ proc[c].new_hashes \in [Files -> Contents]
      /\ proc[c].pc = "sync" /\ proc[c].next <= Len(FilePaths[c])
      /\ UNCHANGED <<runs, projects, local>>
  BY DEF TypeOK, Process, ReadFile
<1>2. f \in Files /\ proc[c].next \in DOMAIN FilePaths[c] /\ local[f] # NoFile
  BY <1>1, FileType, Defaults DEF TypeOK
<1>3. /\ proc'[c].new_hashes = hashes /\ proc'[c].id = proc[c].id
      /\ proc'[c].disturbed = proc[c].disturbed
      /\ IF Unchanged(c, f) THEN proc'[c].pc = "sync" /\ proc'[c].next = proc[c].next + 1
                            ELSE proc'[c].pc = "upload" /\ proc'[c].next = proc[c].next
  BY <1>1 DEF ReadFile, TypeOK, Process
<1>4. runs[c].state = "none" /\ proc[c].id \in Ids
  BY <1>1 DEF Stage, AtWork
<1>5. Stage(c)'
  BY <1>1, <1>3, <1>4 DEF Stage
<1>6. HasRead(c)'
  <2>1. proc'[c].pc \in {"sync", "upload"} /\ runs'[c].state = "none"
    BY <1>1, <1>3, <1>4
  <2>2. ASSUME NEW i \in DOMAIN FilePaths[c],
               \/ i < proc'[c].next
               \/ proc'[c].pc = "upload" /\ i = proc'[c].next
        PROVE  proc'[c].new_hashes[FilePaths[c][i]] # NoFile
    <3>1. i \in Nat /\ FilePaths[c][i] \in Files
      BY CloudAssumption
    <3>2. i < proc[c].next \/ i = proc[c].next
      BY <1>1, <1>3, <2>2, <3>1
    <3>3. CASE i < proc[c].next
      BY <1>1, <1>2, <1>3, <3>1, <3>3 DEF HasRead
    <3>4. CASE i = proc[c].next
      BY <1>1, <1>2, <1>3, <3>1, <3>4 DEF Path
    <3> QED BY <3>2, <3>3, <3>4
  <2> QED BY <2>1, <2>2 DEF HasRead, AtWork
<1>7. ASSUME CodeInProject(c), SkipsRightly(c), ~proc[c].disturbed
      PROVE  Uploaded(c)'
  <2>1. Uploaded(c)
    BY <1>4, <1>7 DEF CodeInProject
  <2>2. ASSUME NEW g \in Files, g # f, proc'[c].new_hashes[g] # NoFile
        PROVE  projects'[proc'[c].id].files[g] = proc'[c].new_hashes[g]
    BY <1>1, <1>3, <2>1, <2>2 DEF Uploaded
  <2>3. Path(c)' = f \/ proc'[c].pc = "sync"
    BY <1>3 DEF Path
  <2>4. CASE Unchanged(c, f)
    <3>1. projects[proc[c].id].files[f] = local[f]
      BY <1>1, <1>7, <2>4 DEF SkipsRightly
    <3>2. projects'[proc'[c].id].files[f] = proc'[c].new_hashes[f]
      BY <1>1, <1>2, <1>3, <3>1
    <3> QED BY <2>2, <3>2 DEF Uploaded
  <2>5. CASE ~Unchanged(c, f)
    <3>1. proc'[c].pc = "upload" /\ Path(c)' = f
      BY <1>3, <2>5 DEF Path
    <3> QED BY <2>2, <3>1 DEF Uploaded
  <2> QED BY <2>4, <2>5
<1>8. CodeInProject(c) /\ SkipsRightly(c) => CodeInProject(c)'
  BY <1>1, <1>3, <1>4, <1>7 DEF CodeInProject, OwnCode
<1> QED BY <1>5, <1>6, <1>8

LEMMA FilingKeepsCode ==
    ASSUME TypeOK, NEW c \in Clients, Stage(c), HasRead(c), Filing(c)
    PROVE  /\ Stage(c)' /\ HasRead(c)'
           /\ CodeInProject(c) /\ SkipsRightly(c) => CodeInProject(c)'
           /\ SameContents /\ runs' = runs
           /\ \A d \in Clients \ {c} : proc'[d] = proc[d]
<1>1. /\ proc[c] \in Process /\ proc[c].next \in Nat \ {0} /\ FilePaths[c] \in Seq(Files)
      /\ proc[c].pc \in {"load", "sync", "save", "write", "dump"}
      /\ UNCHANGED <<runs, projects, local>>
  BY CloudAssumption DEF TypeOK, Process, Filing, LoadHashes, ReadFile, EndSync, ReadHashFile,
         TruncateHashFile, DumpHashFile
<1>2. runs[c].state = "none" /\ proc[c].id \in Ids
  BY <1>1 DEF Stage, AtWork
<1>3. \A d \in Clients \ {c} : proc'[d] = proc[d]
  BY DEF TypeOK, Filing, LoadHashes, ReadFile, EndSync, ReadHashFile,
         TruncateHashFile, DumpHashFile
<1>4. CASE ReadFile(c)
  BY <1>1, <1>3, <1>4, ReadKeepsCode DEF SameContents
<1>5. CASE ~ReadFile(c)
  <2>1. /\ proc'[c].id = proc[c].id /\ proc'[c].new_hashes = proc[c].new_hashes
        /\ proc'[c].disturbed = proc[c].disturbed /\ proc'[c].next = proc[c].next
        /\ \/ proc[c].pc = "load" /\ proc'[c].pc = "sync"
           \/ /\ proc[c].pc = "sync" /\ proc'[c].pc = "save"
              /\ proc[c].next > Len(FilePaths[c])
           \/ proc[c].pc \in {"save", "write", "dump"} /\ proc'[c].pc \in {"write", "dump", "job"}
    BY <1>1, <1>5 DEF TypeOK, Process, Filing, LoadHashes, EndSync, ReadHashFile,
         TruncateHashFile, DumpHashFile
  <2>2. Stage(c)'
    BY <1>1, <1>2, <2>1 DEF Stage, AtWork
  <2>3. HasRead(c)'
    <3>1. CASE proc[c].pc = "load"
      <4>1. proc'[c].pc = "sync" /\ proc'[c].next = 1
        BY <2>1, <3>1 DEF HasRead
      <4> QED BY <1>1, <1>2, <4>1 DEF HasRead, AtWork
    <3>2. CASE proc[c].pc = "sync"
      <4>1. ASSUME NEW f \in Listed(c) PROVE proc[c].new_hashes[f] # NoFile
        <5>1. PICK i \in DOMAIN FilePaths[c] : f = FilePaths[c][i]
          BY DEF Listed
        <5>2. i < proc[c].next
          BY <1>1, <2>1, <3>2
        <5> QED BY <3>2, <5>1, <5>2 DEF HasRead
      <4> QED BY <1>1, <1>2, <2>1, <3>2, <4>1 DEF HasRead, Listed, AtWork
    <3>3. CASE proc[c].pc \in {"save", "write", "dump"}
      BY <1>1, <1>2, <2>1, <3>3 DEF HasRead, Listed, AtWork
    <3> QED BY <1>1, <3>1, <3>2, <3>3
  <2>4. CodeInProject(c) => CodeInProject(c)'
    BY <1>1, <1>2, <2>1 DEF CodeInProject, Uploaded, OwnCode
  <2> QED BY <1>1, <1>3, <2>2, <2>3, <2>4 DEF SameContents
<1> QED BY <1>4, <1>5

\* An upload leaves the file it was for in the project, or the client tries again or
\* ends; whoever shares the project is told.
LEMMA UploadKeepsCode ==
    ASSUME TypeOK, NEW c \in Clients, Stage(c), HasRead(c), Upload(c)
    PROVE  /\ Stage(c)' /\ HasRead(c)' /\ (CodeInProject(c) => CodeInProject(c)')
           /\ \A d \in Clients \ {c} : Told(d)
<1>1. PICK stored, answered \in BOOLEAN :
            /\ Attempt(c, stored, answered, UploadDone(c)) /\ UploadDone(c) \in Process
            /\ projects' = IF stored
                           THEN [projects EXCEPT ![proc[c].id] =
                                    [@ EXCEPT !.files[Path(c)] = proc[c].new_hashes[Path(c)]]]
                           ELSE projects
  BY UploadDoes
<1>2. /\ proc[c] \in Process /\ proc[c].next \in Nat \ {0} /\ FilePaths[c] \in Seq(Files)
      /\ proc[c].pc = "upload" /\ UNCHANGED runs
  BY CloudAssumption DEF TypeOK, Process, Upload
<1>3. /\ runs[c].state = "none" /\ proc[c].id \in Ids /\ projects[proc[c].id] \in Project
      /\ Path(c) \in Files
  BY <1>2, FileType DEF Stage, AtWork, TypeOK
<1>4. /\ proc'[c] = After(c, answered, UploadDone(c))
      /\ \A d \in Clients \ {c} :
            proc'[d] = IF proc[d].id = proc[c].id /\ stored
                       THEN [proc[d] EXCEPT !.disturbed = TRUE] ELSE proc[d]
      /\ answered => stored
  <2>1. Attempt(c, stored, answered, UploadDone(c)) /\ UploadDone(c) \in Process
    BY <1>1
  <2> HIDE <1>1
  <2> QED BY <2>1, AttemptDoes
<1>5. /\ \A id \in Ids \ {proc[c].id} : projects'[id] = projects[id]
      /\ projects'[proc[c].id].job = projects[proc[c].id].job
      /\ \A f \in Files \ {Path(c)} :
            projects'[proc[c].id].files[f] = projects[proc[c].id].files[f]
      /\ stored => projects'[proc[c].id].files[Path(c)] = proc[c].new_hashes[Path(c)]
      /\ ~stored => projects' = projects
  BY <1>1, <1>3 DEF TypeOK, Project
<1>6. ASSUME NEW d \in Clients \ {c} PROVE Told(d)
  <2>1. proc[d] \in Process
    BY DEF TypeOK
  <2> QED BY <1>2, <1>4, <1>5, <2>1 DEF Told, Process
<1>7. CASE answered
  <2>1. /\ proc'[c].pc = "sync" /\ proc'[c].next = proc[c].next + 1
        /\ proc'[c].id = proc[c].id /\ proc'[c].new_hashes = proc[c].new_hashes
        /\ proc'[c].disturbed = proc[c].disturbed
    BY <1>2, <1>4, <1>7 DEF After, UploadDone, Process
  <2>2. HasRead(c)'
    <3>1. ASSUME NEW i \in DOMAIN FilePaths[c], i < proc[c].next + 1
          PROVE  proc[c].new_hashes[FilePaths[c][i]] # NoFile
      <4>1. i \in Nat /\ (i < proc[c].next \/ i = proc[c].next)
        BY <1>2, <3>1
      <4> QED BY <1>2, <4>1 DEF HasRead
    <3> QED BY <1>2, <1>3, <2>1, <3>1 DEF HasRead, AtWork
  <2>3. CodeInProject(c) => CodeInProject(c)'
    <3>1. Uploaded(c) => Uploaded(c)'
      <4> SUFFICES ASSUME Uploaded(c), NEW f \in Files, proc[c].new_hashes[f] # NoFile
                   PROVE  projects'[proc[c].id].files[f] = proc[c].new_hashes[f]
        BY <2>1 DEF Uploaded
      <4>1. CASE f = Path(c)
        BY <1>4, <1>5, <1>7, <4>1
      <4>2. CASE f # Path(c)
        BY <1>5, <4>2 DEF Uploaded
      <4> QED BY <4>1, <4>2
    <3> QED BY <1>2, <1>3, <2>1, <3>1 DEF CodeInProject, OwnCode
  <2> QED BY <1>2, <1>3, <1>6, <2>1, <2>2, <2>3 DEF Stage
<1>8. CASE ~answered /\ Failed(c).tries < MaxTries
  <2>1. /\ proc'[c].pc = "upload" /\ proc'[c].next = proc[c].next
        /\ proc'[c].id = proc[c].id /\ proc'[c].new_hashes = proc[c].new_hashes
        /\ proc'[c].disturbed = proc[c].disturbed
    BY <1>2, <1>4, <1>8 DEF After, Failed, Process
  <2>2. HasRead(c)' /\ Stage(c)'
    BY <1>2, <1>3, <2>1 DEF HasRead, Stage, AtWork
  <2>3. CodeInProject(c) => CodeInProject(c)'
    BY <1>2, <1>3, <1>5, <2>1 DEF CodeInProject, Uploaded, OwnCode, Path
  <2> QED BY <1>6, <2>2, <2>3
<1>9. CASE ~answered /\ ~(Failed(c).tries < MaxTries)
  <2>1. proc'[c] = Ended(c) /\ runs'[c] = runs[c]
    BY <1>2, <1>4, <1>9 DEF After
  <2> QED BY <1>2, <1>3, <1>6, <2>1, EndKeepsCode
              DEF CodeInv
<1> QED BY <1>7, <1>8, <1>9

\* The job of a client is in the project when it submits.
LEMMA UploadJobKeepsCode ==
    ASSUME TypeOK, NEW c \in Clients, Stage(c), HasRead(c), UploadJob(c)
    PROVE  /\ Stage(c)' /\ HasRead(c)' /\ (CodeInProject(c) => CodeInProject(c)')
           /\ \A d \in Clients \ {c} : Told(d)
<1>1. PICK stored, answered \in BOOLEAN :
            /\ Attempt(c, stored, answered, JobDone(c))
            /\ projects' = IF stored THEN [projects EXCEPT ![proc[c].id].job = c] ELSE projects
  BY DEF UploadJob, JobDone
<1>2. /\ proc[c] \in Process /\ proc[c].pc = "job" /\ UNCHANGED runs
  BY DEF TypeOK, UploadJob
<1>3. /\ runs[c].state = "none" /\ proc[c].id \in Ids /\ projects[proc[c].id] \in Project
      /\ JobDone(c) \in Process
  BY <1>2, ProcessField, Defaults DEF Stage, AtWork, TypeOK, JobDone
<1>4. /\ proc'[c] = After(c, answered, JobDone(c))
      /\ \A d \in Clients \ {c} :
            proc'[d] = IF proc[d].id = proc[c].id /\ stored
                       THEN [proc[d] EXCEPT !.disturbed = TRUE] ELSE proc[d]
      /\ answered => stored
  BY <1>1, <1>3, AttemptDoes
<1>5. /\ \A id \in Ids \ {proc[c].id} : projects'[id] = projects[id]
      /\ projects'[proc[c].id].files = projects[proc[c].id].files
      /\ stored => projects'[proc[c].id].job = c
      /\ ~stored => projects' = projects
  BY <1>1, <1>3 DEF TypeOK, Project
<1>6. ASSUME NEW d \in Clients \ {c} PROVE Told(d)
  <2>1. proc[d] \in Process
    BY DEF TypeOK
  <2> QED BY <1>2, <1>4, <1>5, <2>1 DEF Told, Process
<1>7. CASE answered
  <2>1. /\ proc'[c].pc = "submit"
        /\ proc'[c].id = proc[c].id /\ proc'[c].new_hashes = proc[c].new_hashes
        /\ proc'[c].disturbed = proc[c].disturbed
    BY <1>2, <1>4, <1>7 DEF After, JobDone, Process
  <2>2. HasRead(c)' /\ Stage(c)'
    BY <1>2, <1>3, <2>1 DEF HasRead, Stage, AtWork
  <2>3. CodeInProject(c) => CodeInProject(c)'
    <3>1. Uploaded(c) => Uploaded(c)'
      BY <1>2, <1>5, <2>1 DEF Uploaded
    <3>2. projects'[proc[c].id].job = c
      BY <1>4, <1>5, <1>7
    <3> QED BY <1>2, <1>3, <2>1, <3>1, <3>2 DEF CodeInProject, OwnCode
  <2> QED BY <1>6, <2>2, <2>3
<1>8. CASE ~answered /\ Failed(c).tries < MaxTries
  <2>1. /\ proc'[c].pc = "job"
        /\ proc'[c].id = proc[c].id /\ proc'[c].new_hashes = proc[c].new_hashes
        /\ proc'[c].disturbed = proc[c].disturbed
    BY <1>2, <1>4, <1>8 DEF After, Failed, Process
  <2>2. HasRead(c)' /\ Stage(c)'
    BY <1>2, <1>3, <2>1 DEF HasRead, Stage, AtWork
  <2>3. CodeInProject(c) => CodeInProject(c)'
    BY <1>2, <1>3, <1>5, <2>1 DEF CodeInProject, Uploaded, OwnCode
  <2> QED BY <1>6, <2>2, <2>3
<1>9. CASE ~answered /\ ~(Failed(c).tries < MaxTries)
  <2>1. proc'[c] = Ended(c) /\ runs'[c] = runs[c]
    BY <1>2, <1>4, <1>9 DEF After
  <2> QED BY <1>2, <1>3, <1>6, <2>1, EndKeepsCode
              DEF CodeInv
<1> QED BY <1>7, <1>8, <1>9

\* A run that is submitted will find what was uploaded; one that starts has found it.
LEMMA SubmitKeepsCode ==
    ASSUME TypeOK, NEW c \in Clients, Stage(c), HasRead(c), Submit(c)
    PROVE  /\ Stage(c)' /\ HasRead(c)' /\ (CodeInProject(c) => CodeInProject(c)')
           /\ \A d \in Clients \ {c} : Told(d)
<1>1. /\ proc[c] \in Process /\ proc[c].pc = "submit" /\ UNCHANGED projects
      /\ runs'[c].state = "queued" /\ \A d \in Clients \ {c} : runs'[d] = runs[d]
      /\ \A d \in Clients \ {c} : proc'[d] = proc[d]
  BY DEF TypeOK, Submit, NoRun
<1>2. /\ proc'[c].pc = "poll" /\ proc'[c].id = proc[c].id
      /\ proc'[c].new_hashes = proc[c].new_hashes /\ proc'[c].disturbed = proc[c].disturbed
  BY <1>1 DEF TypeOK, Submit, Process
<1>3. Stage(c)' /\ HasRead(c)'
  BY <1>1, <1>2 DEF Stage, HasRead, Listed, AtWork
<1>4. CodeInProject(c) => CodeInProject(c)'
  BY <1>1, <1>2 DEF CodeInProject, Uploaded, OwnCode
<1> QED BY <1>1, <1>3, <1>4 DEF Told

LEMMA StartRunKeepsCode ==
    ASSUME TypeOK, NEW c \in Clients, Stage(c), HasRead(c), StartRun(c)
    PROVE  /\ Stage(c)' /\ HasRead(c)' /\ (CodeInProject(c) => CodeInProject(c)')
           /\ \A d \in Clients \ {c} : Told(d)
<1>1. /\ UNCHANGED <<projects, proc>> /\ runs[c].state = "queued"
      /\ runs'[c].state = "started" /\ runs'[c].job = projects[proc[c].id].job
      /\ runs'[c].files = projects[proc[c].id].files
      /\ \A d \in Clients \ {c} : runs'[d] = runs[d]
  BY DEF TypeOK, StartRun
<1>2. Stage(c)' /\ HasRead(c)'
  BY <1>1 DEF Stage, HasRead, Listed, AtWork
<1>3. ASSUME CodeInProject(c), ~proc[c].disturbed PROVE OwnCode(c)'
  <2>1. proc[c].pc # "upload" /\ proc[c].id \in Ids
    BY <1>1 DEF Stage
  <2>2. Uploaded(c) /\ projects[proc[c].id].job = c
    BY <1>1, <1>3, <2>1 DEF CodeInProject
  <2>3. \A f \in Listed(c) : f \in Files /\ proc[c].new_hashes[f] # NoFile
    <3>1. \A f \in Listed(c) : f \in Files
      BY CloudAssumption DEF Listed
    <3> QED BY <1>1, <3>1 DEF HasRead
  <2> QED BY <1>1, <2>1, <2>2, <2>3 DEF Uploaded, OwnCode, Listed
<1>4. CodeInProject(c) => CodeInProject(c)'
  BY <1>1, <1>3 DEF CodeInProject, Uploaded, Path
<1> QED BY <1>1, <1>2, <1>4 DEF Told

\* A client starts with nothing read and no run.
LEMMA BeginKeepsCode ==
    ASSUME TypeOK, NEW c \in Clients, Begin(c)
    PROVE  /\ Stage(c)' /\ HasRead(c)' /\ CodeInProject(c)'
           /\ \A d \in Clients \ {c} : Told(d)
<1>1. /\ proc'[c].pc = "find" /\ proc'[c].new_hashes = NoHashes /\ proc'[c].next = 1
      /\ runs'[c].state = "none" /\ UNCHANGED projects
      /\ \A d \in Clients \ {c} : runs'[d] = runs[d] /\ proc'[d] = proc[d]
  BY DEF TypeOK, Begin, Idle, NoRun
<1> QED BY <1>1 DEF Stage, HasRead, CodeInProject, Uploaded, OwnCode, NoHashes, AtWork, Told

LEMMA EndingKeepsCode ==
    ASSUME TypeOK, NEW c \in Clients, Stage(c), HasRead(c), Die(c) \/ EndPoll(c)
    PROVE  /\ Stage(c)' /\ HasRead(c)' /\ (CodeInProject(c) => CodeInProject(c)')
           /\ \A d \in Clients \ {c} : Told(d)
<1>1. /\ proc'[c] = Ended(c) /\ UNCHANGED <<runs, projects>> /\ proc[c].pc # "idle"
      /\ \A d \in Clients \ {c} : proc'[d] = proc[d]
  BY DEF TypeOK, Die, EndPoll, Busy
<1>2. Stage(c)' /\ HasRead(c)' /\ (CodeInProject(c) => CodeInProject(c)')
  BY <1>1, EndKeepsCode DEF CodeInv
<1> QED BY <1>1, <1>2 DEF Told

\* Whoever deletes a project tells its clients; an edit touches the checkout only.
LEMMA OutsideTells ==
    ASSUME TypeOK, (\E f \in Files : Edit(f)) \/ (\E id \in Ids : DeleteProject(id)),
           NEW d \in Clients
    PROVE  Told(d)
<1>1. CASE \E f \in Files : Edit(f)
  BY <1>1 DEF Edit, Told
<1>2. CASE \E id \in Ids : DeleteProject(id)
  <2>1. PICK id \in Ids : DeleteProject(id)
    BY <1>2
  <2>2. proc[d] \in Process
    BY DEF TypeOK
  <2>3. /\ proc'[d] = IF proc[d].id = id THEN [proc[d] EXCEPT !.disturbed = TRUE] ELSE proc[d]
        /\ \A other \in Ids \ {id} : projects'[other] = projects[other]
        /\ runs' = runs
    BY <2>1 DEF DeleteProject, TypeOK
  <2> QED BY <2>2, <2>3 DEF Told, Process
<1> QED BY <1>1, <1>2

\* Whatever happens, what a process has read stays in its project, or it is told, as
\* long as it skips files rightly.
LEMMA StepKeepsCode ==
    ASSUME TypeOK, StagesHold, [Next]_vars, NEW c \in Clients
    PROVE  /\ Stage(c)' /\ HasRead(c)'
           /\ CodeInProject(c) /\ SkipsRightly(c) => CodeInProject(c)'
<1> USE DEF StagesHold
<1>1. CASE Told(c)
  BY <1>1, OthersKeepCode DEF CodeInv
<1>2. CASE UNCHANGED vars
  BY <1>2, <1>1 DEF vars, Told
<1>3. CASE \E d \in Clients : Begin(d)
  BY <1>1, <1>3, BeginKeepsCode
<1>4. CASE \E d \in Clients : Advance(d)
  <2>1. PICK d \in Clients : Advance(d)
    BY <1>4
  <2>2. CASE Finding(d) \/ Filing(d)
    <3>1. /\ SameContents /\ runs' = runs
          /\ \A e \in Clients \ {d} : proc'[e] = proc[e]
      BY <2>2, FindingKeepsCode, FilingKeepsCode
    <3>2. c # d => Told(c)
      BY <3>1 DEF Told, SameContents
    <3> QED BY <1>1, <2>2, <3>2, FindingKeepsCode, FilingKeepsCode
  <2>3. CASE Sending(d) \/ Die(d)
    BY <1>1, <2>3, UploadKeepsCode, UploadJobKeepsCode, SubmitKeepsCode, EndingKeepsCode
       DEF Sending
  <2> QED BY <2>1, <2>2, <2>3, AdvanceSteps
<1>5. CASE \E d \in Clients : StartRun(d)
  BY <1>1, <1>5, StartRunKeepsCode
<1>6. CASE (\E f \in Files : Edit(f)) \/ (\E id \in Ids : DeleteProject(id))
  BY <1>1, <1>6, OutsideTells
<1> QED BY <1>2, <1>3, <1>4, <1>5, <1>6 DEF Next

\* Types hold and processes are where they may be in every reachable state.
THEOREM CloudTypeCorrect == Spec => [](TypeOK /\ StagesHold)
<1>1. TypeOK /\ StagesHold /\ [Next]_vars => TypeOK' /\ StagesHold'
  BY StepKeepsType, StepKeepsCode DEF StagesHold
<1> QED BY <1>1, InitStages, PTL DEF Spec

----------------------------------------------------------------------------
(* A forced sync *)

\* Without old hashes no file is skipped.
LEMMA ForcedSkipsNothing ==
    ASSUME TypeOK, ForcedInv, NEW c \in Forced PROVE SkipsRightly(c)
<1> SUFFICES ASSUME proc[c].pc = "sync", proc[c].next <= Len(FilePaths[c])
             PROVE  ~Unchanged(c, Path(c))
  BY DEF SkipsRightly
<1>1. c \in Clients /\ proc[c].old_hashes = NoHashes
  BY CloudAssumption DEF ForcedInv
<1>2. Path(c) \in Files
  BY <1>1, FileType
<1>3. local[Path(c)] # NoFile
  BY <1>2, Defaults DEF TypeOK
<1> QED BY <1>1, <1>2, <1>3 DEF Unchanged, NoHashes

\* Who was forced starts from no hashes and gets no others before its files are read.
LEMMA ForcedStaysForced ==
    ASSUME TypeOK, StagesHold, ForcedInv, [Next]_vars, NEW c \in Forced,
           proc'[c].pc \in {"sync", "upload"}
    PROVE  proc'[c].old_hashes = NoHashes
<1> c \in Clients
  BY CloudAssumption
<1>1. /\ proc[c] \in Process
      /\ proc[c].pc \in {"sync", "upload"} => proc[c].old_hashes = NoHashes
  BY DEF TypeOK, ForcedInv
<1>2. CASE proc'[c] = proc[c] \/ Told(c)
  BY <1>1, <1>2, OthersKeepCode
<1>3. CASE \E d \in Clients : Begin(d)
  BY <1>2, <1>3, BeginKeepsCode DEF Begin, TypeOK, Idle
<1>4. CASE \E d \in Clients : Advance(d)
  <2>1. PICK d \in Clients : Advance(d)
    BY <1>4
  <2>2. CASE d = c
    <3>1. CASE LoadHashes(c)
      BY <1>1, <3>1 DEF LoadHashes, OldHashes, TypeOK, Process
    <3>2. CASE ReadFile(c)
      <4>1. proc[c].pc = "sync" /\ proc'[c].old_hashes = proc[c].old_hashes
        BY <1>1, <3>2 DEF ReadFile, TypeOK, Process
      <4> QED BY <1>1, <4>1
    <3>3. CASE Upload(c)
      <4>1. PICK answered \in BOOLEAN : proc'[c] = After(c, answered, UploadDone(c))
        <5>1. PICK stored, answered \in BOOLEAN :
                    Attempt(c, stored, answered, UploadDone(c)) /\ UploadDone(c) \in Process
          BY <3>3, UploadDoes
        <5> QED BY <5>1, AttemptDoes
      <4>2. proc[c].pc = "upload"
        BY <3>3 DEF Upload
      <4>3. \/ proc'[c].old_hashes = proc[c].old_hashes
            \/ proc'[c] = Ended(c)
        BY <1>1, <4>1 DEF After, UploadDone, Failed, Process
      <4>4. Ended(c).old_hashes = NoHashes
        BY DEF Ended, Idle
      <4> QED BY <1>1, <4>2, <4>3, <4>4
    <3>4. CASE UploadJob(c)
      <4>1. PICK answered \in BOOLEAN : proc'[c] = After(c, answered, JobDone(c))
        <5>1. JobDone(c) \in Process
          BY <1>1, ProcessField, Defaults DEF JobDone
        <5> QED BY <3>4, <5>1, AttemptDoes DEF UploadJob, JobDone
      <4>2. proc[c].pc = "job" /\ Ended(c).pc = "idle"
        BY <3>4 DEF UploadJob, Ended, Idle
      <4>3. proc'[c].pc \in {"job", "submit", "idle"}
        BY <1>1, <4>1, <4>2 DEF After, JobDone, Failed, Process
      <4> QED BY <4>3
    <3>5. CASE Finding(c)
      BY <3>5, FindingKeepsCode DEF StagesHold
    <3>6. CASE Filing(c) /\ ~LoadHashes(c) /\ ~ReadFile(c)
      BY <1>1, <3>6 DEF Filing, EndSync, ReadHashFile, TruncateHashFile, DumpHashFile,
                        TypeOK, Process
    <3>7. CASE Submit(c) \/ EndPoll(c) \/ Die(c)
      <4>1. Ended(c).pc = "idle"
        BY DEF Ended, Idle
      <4>2. CASE Submit(c)
        <5>1. proc'[c].pc = "poll"
          BY <1>1, <4>2 DEF Submit, TypeOK, Process
        <5> QED BY <5>1
      <4>3. CASE EndPoll(c) \/ Die(c)
        <5>1. proc'[c] = Ended(c)
          BY <4>3 DEF EndPoll, Die, TypeOK
        <5> QED BY <4>1, <5>1
      <4> QED BY <3>7, <4>2, <4>3
    <3> QED BY <2>1, <2>2, <3>1, <3>2, <3>3, <3>4, <3>5, <3>6, <3>7, AdvanceSteps DEF Sending
  <2>3. CASE d # c
    <3>1. CASE Finding(d) \/ Filing(d)
      BY <1>2, <2>3, <3>1, FindingKeepsCode, FilingKeepsCode DEF StagesHold
    <3>2. CASE Sending(d) \/ Die(d)
      BY <1>2, <2>3, <3>2, UploadKeepsCode, UploadJobKeepsCode, SubmitKeepsCode, EndingKeepsCode
         DEF Sending, StagesHold
    <3> QED BY <2>1, <3>1, <3>2, AdvanceSteps
  <2> QED BY <2>2, <2>3
<1>5. CASE (\E d \in Clients : StartRun(d)) \/ UNCHANGED vars
  BY <1>2, <1>5 DEF StartRun, vars
<1>6. CASE (\E f \in Files : Edit(f)) \/ (\E id \in Ids : DeleteProject(id))
  BY <1>2, <1>6, OutsideTells
<1> QED BY <1>3, <1>4, <1>5, <1>6 DEF Next

\* A forced sync runs the code it read, out of any state of the caches and the project,
\* with any number of processes at work, contents restored and projects deleted.
THEOREM ForcedRunsItsCode == Spec => []ForcedSyncHeals
<1>1. Init => ForcedInv
  <2> SUFFICES ASSUME Init, NEW c \in Forced
               PROVE  /\ CodeInProject(c)
                      /\ proc[c].pc \in {"sync", "upload"} => proc[c].old_hashes = NoHashes
    BY DEF ForcedInv
  <2>1. proc[c] = Idle /\ runs[c] = NoRun
    BY CloudAssumption DEF Init
  <2> QED BY <2>1, Defaults DEF CodeInProject, OwnCode, Idle, NoRun
<1>2. TypeOK /\ StagesHold /\ ForcedInv /\ [Next]_vars => ForcedInv'
  <2> SUFFICES ASSUME TypeOK, StagesHold, ForcedInv, [Next]_vars, NEW c \in Forced
               PROVE  /\ CodeInProject(c)'
                      /\ proc'[c].pc \in {"sync", "upload"} => proc'[c].old_hashes = NoHashes
    BY DEF ForcedInv
  <2> c \in Clients
    BY CloudAssumption
  <2>1. CodeInProject(c) /\ SkipsRightly(c)
    BY ForcedSkipsNothing DEF ForcedInv
  <2> QED BY <2>1, StepKeepsCode, ForcedStaysForced
<1>3. ForcedInv => ForcedSyncHeals
  BY DEF ForcedInv, ForcedSyncHeals, CodeInProject, OwnCode
<1> QED BY <1>1, <1>2, <1>3, CloudTypeCorrect, PTL DEF Spec

----------------------------------------------------------------------------
(* One process at a time *)

\* A process at work in its project stays there until it ends, and no project changes
\* its name or its state under it.
LEMMA WorkStaysInProject ==
    ASSUME TypeOK, NEW c \in Clients, Filing(c) \/ Sending(c) \/ Die(c)
    PROVE  /\ Busy(c)
           /\ \/ proc'[c].pc = "idle"
              \/ proc'[c].pc \in AtWork /\ proc'[c].id = proc[c].id
                 /\ proc'[c].disturbed = proc[c].disturbed
           /\ project_cache' = project_cache
           /\ \A id \in Ids : /\ projects'[id].state = projects[id].state
                              /\ projects'[id].name = projects[id].name
<1> USE DEF caches
<1>1. /\ proc[c] \in Process /\ Ended(c).pc = "idle"
      /\ \A id \in Ids : projects[id] \in Project
  BY DEF TypeOK, Ended, Idle
<1>2. CASE Filing(c)
  <2>1. CASE ReadFile(c)
    BY <1>1, <2>1 DEF ReadFile, TypeOK, Process, AtWork, Busy
  <2>2. CASE ~ReadFile(c)
    BY <1>1, <1>2, <2>2 DEF Filing, LoadHashes, EndSync, ReadHashFile,
         TruncateHashFile, DumpHashFile, TypeOK, Process, AtWork, Busy
  <2> QED BY <2>1, <2>2
<1>3. CASE Upload(c)
  <2>1. PICK stored, answered \in BOOLEAN :
            /\ Attempt(c, stored, answered, UploadDone(c)) /\ UploadDone(c) \in Process
            /\ projects' = IF stored
                           THEN [projects EXCEPT ![proc[c].id] =
                                    [@ EXCEPT !.files[Path(c)] = proc[c].new_hashes[Path(c)]]]
                           ELSE projects
    BY <1>3, UploadDoes
  <2>2. proc'[c] = After(c, answered, UploadDone(c))
    <3>1. Attempt(c, stored, answered, UploadDone(c)) /\ UploadDone(c) \in Process
      BY <2>1
    <3> HIDE <2>1
    <3> QED BY <3>1, AttemptDoes
  <2>3. proc[c].pc = "upload" /\ project_cache' = project_cache
    BY <1>3 DEF Upload
  <2>4. \/ proc'[c].pc = "idle"
        \/ proc'[c].pc \in AtWork /\ proc'[c].id = proc[c].id
           /\ proc'[c].disturbed = proc[c].disturbed
    BY <1>1, <2>2, <2>3 DEF After, UploadDone, Failed, Process, AtWork
  <2>5. \A id \in Ids : /\ projects'[id].state = projects[id].state
                        /\ projects'[id].name = projects[id].name
    BY <1>1, <2>1 DEF TypeOK, Project
  <2> QED BY <2>3, <2>4, <2>5 DEF Busy
<1>4. CASE UploadJob(c)
  <2>1. PICK stored, answered \in BOOLEAN :
            /\ Attempt(c, stored, answered, JobDone(c))
            /\ projects' = IF stored THEN [projects EXCEPT ![proc[c].id].job = c] ELSE projects
    BY <1>4 DEF UploadJob, JobDone
  <2>2. proc'[c] = After(c, answered, JobDone(c))
    <3>1. JobDone(c) \in Process
      BY <1>1, ProcessField, Defaults DEF JobDone
    <3> QED BY <2>1, <3>1, AttemptDoes
  <2>3. proc[c].pc = "job" /\ project_cache' = project_cache
    BY <1>4 DEF UploadJob
  <2>4. \/ proc'[c].pc = "idle"
        \/ proc'[c].pc \in AtWork /\ proc'[c].id = proc[c].id
           /\ proc'[c].disturbed = proc[c].disturbed
    BY <1>1, <2>2, <2>3 DEF After, JobDone, Failed, Process, AtWork
  <2>5. \A id \in Ids : /\ projects'[id].state = projects[id].state
                        /\ projects'[id].name = projects[id].name
    BY <1>1, <2>1 DEF TypeOK, Project
  <2> QED BY <2>3, <2>4, <2>5 DEF Busy
<1>5. CASE Submit(c)
  BY <1>1, <1>5 DEF Submit, TypeOK, Process, AtWork, Busy
<1>6. CASE EndPoll(c) \/ Die(c)
  BY <1>1, <1>6 DEF EndPoll, Die, TypeOK, Busy
<1> QED BY <1>2, <1>3, <1>4, <1>5, <1>6 DEF Sending

\* The processes that take no step are where they were.
LEMMA OthersStayPut ==
    ASSUME TypeOK, StagesHold, NEW c \in Clients, Advance(c), NEW d \in Clients \ {c}
    PROVE  /\ proc'[d].pc = proc[d].pc /\ proc'[d].id = proc[d].id
           /\ proc'[d] = proc[d] \/ Told(d)
<1>1. CASE Finding(c) \/ Filing(c)
  BY <1>1, FindingKeepsCode, FilingKeepsCode DEF StagesHold
<1>2. CASE Sending(c) \/ Die(c)
  <2>1. Told(d)
    BY <1>2, UploadKeepsCode, UploadJobKeepsCode, SubmitKeepsCode, EndingKeepsCode
       DEF Sending, StagesHold
  <2> QED BY <2>1, OthersKeepCode
<1> QED BY <1>1, <1>2, AdvanceSteps

\* Only an idle client is started, and under run_remote.py by hand only when all are.
LEMMA StepKeepsAlone ==
    ASSUME ~Concurrent, TypeOK, StagesHold, Alone, [Next]_vars PROVE Alone'
<1>1. CASE \E c \in Clients : Begin(c)
  <2>1. PICK c \in Clients : Begin(c)
    BY <1>1
  <2>2. \A d \in Clients \ {c} : proc'[d] = proc[d] /\ ~Busy(d)
    BY <2>1 DEF Begin, TypeOK
  <2> QED BY <2>2 DEF Alone, Busy
<1>2. CASE \E c \in Clients : Advance(c)
  <2>1. PICK c \in Clients : Advance(c)
    BY <1>2
  <2>2. Busy(c)
    <3>1. Finding(c) => Busy(c)
      BY DEF Finding, FindCached, FindByName, NotInList, Create, Busy
    <3> QED BY <2>1, <3>1, AdvanceSteps, WorkStaysInProject
  <2>3. \A d \in Clients \ {c} : proc'[d].pc = proc[d].pc
    BY <2>1, OthersStayPut
  <2> QED BY <2>2, <2>3 DEF Alone, Busy
<1>3. CASE (\E f \in Files : Edit(f)) \/ (\E id \in Ids : DeleteProject(id))
  BY <1>3, OutsideTells, OthersKeepCode DEF Alone, Busy
<1>4. CASE (\E c \in Clients : StartRun(c)) \/ UNCHANGED vars
  BY <1>4 DEF StartRun, vars, Alone, Busy
<1> QED BY <1>1, <1>2, <1>3, <1>4 DEF Next

\* Steps that give no project a name and tell no process of one.
LEMMA QuietKeepsNamed ==
    ASSUME TypeOK, Named, project_cache' = project_cache,
           \A id \in Ids : /\ projects'[id].name = projects[id].name
                           /\ \/ projects'[id].state = projects[id].state
                              \/ projects'[id].state = "deleted",
           \A c \in Clients :
                \/ proc'[c].pc = "idle"
                \/ proc'[c].pc = "find" /\ proc'[c].id \notin Ids
                \/ /\ Busy(c) /\ proc'[c].id = proc[c].id
                   /\ proc'[c].pc = "create" => proc[c].pc = "create"
    PROVE  Named'
<1>1. /\ OneProjectPerName' /\ \A c \in Clients : NotFound(c) => NotFound(c)'
  BY DEF Named, OneProjectPerName, NotFound, Live
<1>2. project_cache'.id \in Ids => /\ projects'[project_cache'.id].name = project_cache'.name
                                   /\ projects'[project_cache'.id].state # "unused"
  BY DEF Named
<1>3. ASSUME NEW c \in Clients
      PROVE  /\ proc'[c].pc = "create" => NotFound(c)'
             /\ Busy(c)' /\ proc'[c].id \in Ids =>
                    /\ projects'[proc'[c].id].name = NameOf[c]
                    /\ projects'[proc'[c].id].state # "unused"
  BY <1>1 DEF Named, Busy
<1> QED BY <1>1, <1>2, <1>3 DEF Named

\* A process finds the project of its name, or creates it when it saw that there is none
\* and nobody else is at work.
LEMMA FindingKeepsNamed ==
    ASSUME TypeOK, StagesHold, NamesInv, NEW c \in Clients, Finding(c)
    PROVE  Named'
<1>1. /\ proc[c] \in Process /\ NameOf[c] \in Names /\ Busy(c)
      /\ \A id \in Ids : projects[id] \in Project
  BY CloudAssumption DEF TypeOK, Finding, FindCached, FindByName, NotInList, Create, Busy
<1>2. ASSUME NEW d \in Clients \ {c} PROVE proc'[d].pc = "idle"
  <2>1. proc'[d] = proc[d]
    BY FindingKeepsCode DEF StagesHold
  <2> QED BY <1>1, <2>1 DEF NamesInv, Alone, Busy
<1>3. ASSUME NEW id \in Ids, Use(c, id)
      PROVE  proc'[c].pc = "load" /\ proc'[c].id = id
  BY <1>1, <1>3 DEF Use, TypeOK, Process
<1>4. CASE FindCached(c)
  <2>1. /\ proc'[c].pc = "load" /\ proc'[c].id = project_cache.id
        /\ projects' = projects /\ project_cache' = project_cache
        /\ project_cache.id \in Ids /\ project_cache.name = NameOf[c]
    BY <1>3, <1>4 DEF FindCached, caches
  <2> QED BY <1>2, <2>1 DEF NamesInv, Named, Busy, OneProjectPerName, Live
<1>5. CASE FindByName(c)
  <2>1. PICK id \in Ids :
            /\ Live(id) /\ projects[id].name = NameOf[c] /\ projects' = projects
            /\ project_cache' = [id |-> id, name |-> NameOf[c]]
            /\ proc'[c].pc = "load" /\ proc'[c].id = id
    BY <1>3, <1>5 DEF FindByName
  <2> QED BY <1>2, <2>1 DEF NamesInv, Named, Busy, OneProjectPerName, Live
<1>6. CASE NotInList(c)
  <2>1. /\ NotFound(c) /\ projects' = projects /\ project_cache' = project_cache
        /\ proc'[c].id = proc[c].id
    BY <1>1, <1>6 DEF NotInList, caches, TypeOK, Process
  <2> QED BY <1>1, <1>2, <2>1 DEF NamesInv, Named, Busy, OneProjectPerName, Live, NotFound
<1>7. CASE Create(c)
  <2>1. PICK id \in Ids, answered \in BOOLEAN :
            /\ proc[c].pc = "create" /\ projects[id] = Fresh
            /\ projects' = [projects EXCEPT ![id].state = "live", ![id].name = NameOf[c]]
            /\ IF answered
               THEN Use(c, id) /\ project_cache' = [id |-> id, name |-> NameOf[c]]
               ELSE proc' = [proc EXCEPT ![c] = Ended(c)] /\ UNCHANGED project_cache
    BY <1>7 DEF Create
  <2>2. projects' = [projects EXCEPT ![id] =
                [[projects[id] EXCEPT !.state = "live"] EXCEPT !.name = NameOf[c]]]
    BY <2>1 DEF TypeOK
  <2>3. /\ [[projects[id] EXCEPT !.state = "live"] EXCEPT !.name = NameOf[c]].state = "live"
        /\ [[projects[id] EXCEPT !.state = "live"] EXCEPT !.name = NameOf[c]].name = NameOf[c]
    BY <1>1 DEF Project
  <2>4. /\ projects'[id].state = "live" /\ projects'[id].name = NameOf[c]
        /\ \A other \in Ids \ {id} : projects'[other] = projects[other]
    BY <2>2, <2>3 DEF TypeOK
  <2>5. NotFound(c) /\ projects[id].state = "unused"
    BY <2>1 DEF NamesInv, Named, Fresh
  <2>6. OneProjectPerName'
    BY <2>4, <2>5 DEF NamesInv, Named, OneProjectPerName, NotFound, Live
  <2>7. /\ \/ proc'[c].pc = "idle"
           \/ proc'[c].pc = "load" /\ proc'[c].id = id
        /\ \/ project_cache' = [id |-> id, name |-> NameOf[c]]
           \/ project_cache' = project_cache
    <3>1. CASE answered
      BY <1>3, <2>1, <3>1
    <3>2. CASE ~answered
      <4>1. proc'[c] = Ended(c) /\ project_cache' = project_cache
        BY <2>1, <3>2 DEF TypeOK
      <4>2. Ended(c).pc = "idle"
        BY DEF Ended, Idle
      <4> QED BY <4>1, <4>2
    <3> QED BY <3>1, <3>2
  <2>8. project_cache'.id \in Ids =>
            /\ projects'[project_cache'.id].name = project_cache'.name
            /\ projects'[project_cache'.id].state # "unused"
    BY <2>4, <2>5, <2>7 DEF NamesInv, Named
  <2>9. ASSUME NEW d \in Clients
        PROVE  /\ proc'[d].pc = "create" => NotFound(d)'
               /\ Busy(d)' /\ proc'[d].id \in Ids =>
                    /\ projects'[proc'[d].id].name = NameOf[d]
                    /\ projects'[proc'[d].id].state # "unused"
    BY <1>2, <2>4, <2>7 DEF Busy
  <2> QED BY <2>6, <2>8, <2>9 DEF Named
<1> QED BY <1>4, <1>5, <1>6, <1>7 DEF Finding

\* With one process at a time names stay unique, whoever else deletes projects.
LEMMA StepKeepsNamed ==
    ASSUME ~Concurrent, TypeOK, StagesHold, NamesInv, [Next]_vars PROVE Named'
<1> USE DEF NamesInv
<1>1. ASSUME NEW c \in Clients PROVE proc[c].pc = "idle" \/ Busy(c)
  BY DEF Busy
<1>2. CASE \E c \in Clients : Begin(c)
  <2>1. PICK c \in Clients : Begin(c)
    BY <1>2
  <2>2. /\ \A d \in Clients \ {c} : proc'[d] = proc[d]
        /\ proc'[c].pc = "find" /\ proc'[c].id = 0
        /\ projects' = projects /\ project_cache' = project_cache
    BY <2>1 DEF Begin, TypeOK, Idle, caches
  <2>3. \A d \in Clients : \/ proc'[d].pc = "idle"
                           \/ proc'[d].pc = "find" /\ proc'[d].id \notin Ids
                           \/ /\ Busy(d) /\ proc'[d].id = proc[d].id
                              /\ proc'[d].pc = "create" => proc[d].pc = "create"
    BY <1>1, <2>2, Defaults
  <2> QED BY <2>2, <2>3, QuietKeepsNamed
<1>3. CASE \E c \in Clients : Advance(c)
  <2>1. PICK c \in Clients : Advance(c)
    BY <1>3
  <2>2. CASE Finding(c)
    BY <2>2, FindingKeepsNamed
  <2>3. CASE Filing(c) \/ Sending(c) \/ Die(c)
    <3>1. /\ Busy(c) /\ project_cache' = project_cache
          /\ \/ proc'[c].pc = "idle"
             \/ proc'[c].pc # "create" /\ proc'[c].id = proc[c].id
          /\ \A id \in Ids : /\ projects'[id].state = projects[id].state
                             /\ projects'[id].name = projects[id].name
      BY <2>3, WorkStaysInProject DEF AtWork
    <3>2. \A d \in Clients \ {c} : proc'[d].pc = proc[d].pc /\ proc'[d].id = proc[d].id
      BY <2>1, OthersStayPut
    <3>3. \A d \in Clients : \/ proc'[d].pc = "idle"
                             \/ /\ Busy(d) /\ proc'[d].id = proc[d].id
                                /\ proc'[d].pc = "create" => proc[d].pc = "create"
      BY <1>1, <3>1, <3>2
    <3> QED BY <3>1, <3>3, QuietKeepsNamed
  <2> QED BY <2>1, <2>2, <2>3, AdvanceSteps
<1>4. CASE \E id \in Ids : DeleteProject(id)
  <2>1. PICK id \in Ids : DeleteProject(id)
    BY <1>4
  <2>2. /\ project_cache' = project_cache
        /\ \A other \in Ids : /\ projects'[other].name = projects[other].name
                              /\ \/ projects'[other].state = projects[other].state
                                 \/ projects'[other].state = "deleted"
    <3>1. \A other \in Ids : projects[other] \in Project
      BY DEF TypeOK
    <3> QED BY <2>1, <3>1 DEF DeleteProject, TypeOK, Project, caches
  <2>3. \A d \in Clients : proc'[d].pc = proc[d].pc /\ proc'[d].id = proc[d].id
    BY <1>4, OutsideTells, OthersKeepCode
  <2> QED BY <1>1, <2>2, <2>3, QuietKeepsNamed
<1>5. CASE UNCHANGED <<projects, project_cache, proc>>
  BY <1>1, <1>5, QuietKeepsNamed
<1> QED BY <1>2, <1>3, <1>4, <1>5 DEF Next, StartRun, Edit, vars, caches

\* With one process at a time, cut-off creations, a stale project cache and deletions
\* lead to no second project of one name.
THEOREM OneProjectEach == ASSUME ~Concurrent PROVE Spec => []OneProjectPerName
<1>1. Init => NamesInv
  <2> SUFFICES ASSUME Init PROVE NamesInv
    OBVIOUS
  <2>1. \A c \in Clients : proc[c].pc = "idle"
    BY DEF Init, Idle
  <2>2. project_cache.id \notin Ids
    BY Defaults DEF Init
  <2>3. OneProjectPerName
    <3>1. \A id \in Ids : Live(id) => id = 1
      <4>1. PICK first : projects = [id \in Ids |-> IF id = 1 THEN first ELSE Fresh]
        <5>1. [id \in Ids |-> Fresh] = [id \in Ids |-> IF id = 1 THEN Fresh ELSE Fresh]
          OBVIOUS
        <5> QED BY <5>1 DEF Init
      <4> QED BY <4>1 DEF Live, Fresh
    <3> QED BY <3>1 DEF OneProjectPerName
  <2> QED BY <2>1, <2>2, <2>3 DEF NamesInv, Alone, Named, Busy
<1>2. TypeOK /\ StagesHold /\ NamesInv /\ [Next]_vars => NamesInv'
  BY StepKeepsAlone, StepKeepsNamed DEF NamesInv
<1>3. NamesInv => OneProjectPerName
  BY DEF NamesInv, Named
<1> QED BY <1>1, <1>2, <1>3, CloudTypeCorrect, PTL DEF Spec

----------------------------------------------------------------------------
(* The hash diff, with one process at a time *)

\* run_remote.py by hand on a checkout that is only edited forwards: one process at a
\* time, no content comes back, nobody deletes a project, and a flat hash file can only
\* be of the project in use.
SerialAccount ==
    /\ ~Concurrent /\ ~Reverts /\ ~Deletes
    /\ \A owner \in LegacyOwners, n \in Names : n = owner

\* Contents are numbers.
LEMMA ContentsAreNumbers ==
    /\ Contents \subseteq Nat
    /\ TypeOK => /\ \A f \in Files : local[f] \in Nat
                 /\ \A id \in Ids, f \in Files : projects[id].files[f] \in Nat
                 /\ \A c \in Clients, f \in Files : /\ proc[c].new_hashes[f] \in Nat
                                                    /\ proc[c].old_hashes[f] \in Nat
                 /\ \A n \in Names, f \in Files : hash_cache[n][f] \in Nat
                 /\ \A c \in Clients, n \in Names, f \in Files : proc[c].data[n][f] \in Nat
<1>1. Contents \subseteq Nat
  BY CloudAssumption DEF Contents, NoFile
<1>2. Versions \subseteq Contents
  BY DEF Contents
<1>3. TypeOK => /\ \A f \in Files : local[f] \in Nat
                /\ \A n \in Names, f \in Files : hash_cache[n][f] \in Nat
  BY <1>1, <1>2 DEF TypeOK
<1>4. TypeOK => \A id \in Ids, f \in Files : projects[id].files[f] \in Nat
  BY <1>1 DEF TypeOK, Project
<1>5. TypeOK => \A c \in Clients : proc[c] \in Process
  BY DEF TypeOK
<1>6. \A q \in Process, f \in Files : q.new_hashes[f] \in Nat /\ q.old_hashes[f] \in Nat
  BY <1>1 DEF Process
<1>7. \A q \in Process, n \in Names, f \in Files : q.data[n][f] \in Nat
  <2> TAKE q \in Process, n \in Names, f \in Files
  <2>1. q.data \in [Names -> [Files -> Contents]]
    BY DEF Process
  <2>2. q.data[n] \in [Files -> Contents]
    BY <2>1
  <2> QED BY <1>1, <2>2
<1> QED BY <1>1, <1>3, <1>4, <1>5, <1>6, <1>7

\* Nobody else is at work, so nobody meddles.
LEMMA StepKeepsLeftAlone ==
    ASSUME SerialAccount, TypeOK, StagesHold, Alone, LeftAlone, [Next]_vars PROVE LeftAlone'
<1>1. /\ \A c \in Clients : proc[c] \in Process
      /\ \A id \in Ids : projects[id] \in Project
  BY DEF TypeOK
<1>2. CASE \E c \in Clients : Begin(c)
  <2>1. PICK c \in Clients : Begin(c)
    BY <1>2
  <2>2. /\ \A d \in Clients \ {c} : proc'[d] = proc[d]
        /\ ~proc'[c].disturbed /\ projects' = projects
    BY <2>1 DEF Begin, TypeOK, Idle
  <2> QED BY <2>2 DEF LeftAlone, Busy
<1>3. CASE \E c \in Clients : Advance(c)
  <2>1. PICK c \in Clients : Advance(c)
    BY <1>3
  <2>2. CASE Finding(c)
    <3>1. ASSUME NEW id \in Ids, Use(c, id)
          PROVE  proc'[c].disturbed = proc[c].disturbed
      BY <1>1, <3>1 DEF Use, TypeOK, Process
    <3>2. proc'[c] = Ended(c) \/ proc'[c].disturbed = proc[c].disturbed
      <4>1. CASE FindCached(c) \/ FindByName(c)
        BY <3>1, <4>1 DEF FindCached, FindByName
      <4>2. CASE NotInList(c)
        BY <1>1, <4>2 DEF NotInList, TypeOK, Process
      <4>3. CASE Create(c)
        <5>1. PICK id \in Ids : Use(c, id) \/ proc' = [proc EXCEPT ![c] = Ended(c)]
          BY <4>3 DEF Create
        <5> QED BY <3>1, <5>1 DEF TypeOK
      <4> QED BY <2>2, <4>1, <4>2, <4>3 DEF Finding
    <3>3. Ended(c).pc = "idle" /\ Busy(c)
      BY <2>2 DEF Ended, Idle, Finding, FindCached, FindByName, NotInList, Create, Busy
    <3>4. \A d \in Clients \ {c} : proc'[d] = proc[d]
      BY <2>2, FindingKeepsCode DEF StagesHold
    <3>5. \A d \in Clients : Busy(d)' => ~proc'[d].disturbed
      BY <3>2, <3>3, <3>4 DEF LeftAlone, Busy
    <3>6. \A id \in Ids : projects'[id].state # "deleted"
      <4>1. CASE Create(c)
        <5>1. PICK id \in Ids :
                projects' = [projects EXCEPT ![id].state = "live", ![id].name = NameOf[c]]
          BY <4>1 DEF Create
        <5>2. projects' = [projects EXCEPT ![id] =
                    [[projects[id] EXCEPT !.state = "live"] EXCEPT !.name = NameOf[c]]]
          BY <5>1 DEF TypeOK
        <5>3. [[projects[id] EXCEPT !.state = "live"] EXCEPT !.name = NameOf[c]].state = "live"
          BY <1>1 DEF Project
        <5> QED BY <5>2, <5>3 DEF LeftAlone, TypeOK
      <4>2. CASE ~Create(c)
        BY <2>2, <4>2 DEF Finding, FindCached, FindByName, NotInList, LeftAlone
      <4> QED BY <4>1, <4>2
    <3> QED BY <3>5, <3>6 DEF LeftAlone
  <2>3. CASE Filing(c) \/ Sending(c) \/ Die(c)
    <3>1. /\ Busy(c)
          /\ proc'[c].pc = "idle" \/ proc'[c].disturbed = proc[c].disturbed
          /\ \A id \in Ids : projects'[id].state = projects[id].state
      BY <2>3, WorkStaysInProject
    <3>2. \A d \in Clients \ {c} : proc'[d].pc = "idle"
      <4> TAKE d \in Clients \ {c}
      <4>1. proc'[d].pc = proc[d].pc
        BY <2>1, OthersStayPut
      <4> QED BY <3>1, <4>1 DEF Alone, Busy
    <3>3. \A d \in Clients : Busy(d)' => ~proc'[d].disturbed
      BY <3>1, <3>2 DEF LeftAlone, Busy
    <3> QED BY <3>1, <3>3 DEF LeftAlone
  <2> QED BY <2>1, <2>2, <2>3, AdvanceSteps
<1>4. CASE UNCHANGED <<projects, proc>>
  BY <1>4 DEF LeftAlone, Busy
<1> QED BY <1>2, <1>3, <1>4 DEF Next, StartRun, Edit, DeleteProject, SerialAccount, vars

\* Hashes, project files and contents are all of the type that <= compares.
LEMMA BehindIsTransitive ==
    ASSUME NEW a \in [Files -> Contents], NEW b \in [Files -> Contents],
           NEW c \in [Files -> Contents], Behind(a, b), Behind(b, c)
    PROVE  Behind(a, c)
<1> SUFFICES ASSUME NEW f \in Files PROVE a[f] <= c[f]
  BY DEF Behind
<1>1. a[f] \in Contents /\ b[f] \in Contents /\ c[f] \in Contents
  OBVIOUS
<1>2. a[f] \in Nat /\ b[f] \in Nat /\ c[f] \in Nat
  BY <1>1, ContentsAreNumbers
<1>3. a[f] <= b[f] /\ b[f] <= c[f]
  BY DEF Behind
<1> QED BY <1>2, <1>3

\* A cache that claims nothing too new claims nothing too new when files get newer.
LEMMA NewerKeepsBehind ==
    ASSUME NEW ps \in [Ids -> Project], NEW qs \in [Ids -> Project],
           NEW cache \in [Names -> [Files -> Contents]], AllBehind(cache, ps),
           \A id \in Ids : /\ qs[id].state = ps[id].state /\ qs[id].name = ps[id].name
                           /\ Behind(ps[id].files, qs[id].files)
    PROVE  AllBehind(cache, qs)
<1> SUFFICES ASSUME NEW n \in Names
             PROVE  /\ \A id \in Ids : qs[id].state = "live" /\ qs[id].name = n =>
                            Behind(cache[n], qs[id].files)
                    /\ (\A id \in Ids : qs[id].state = "live" => qs[id].name # n) =>
                            cache[n] = NoHashes
  BY DEF AllBehind
<1>1. ASSUME NEW id \in Ids, qs[id].state = "live", qs[id].name = n
      PROVE  Behind(cache[n], qs[id].files)
  <2>1. Behind(cache[n], ps[id].files) /\ Behind(ps[id].files, qs[id].files)
    BY <1>1 DEF AllBehind
  <2>2. ps[id].files \in [Files -> Contents] /\ qs[id].files \in [Files -> Contents]
    BY DEF Project
  <2> QED BY <2>1, <2>2, BehindIsTransitive
<1>2. ASSUME \A id \in Ids : qs[id].state = "live" => qs[id].name # n
      PROVE  cache[n] = NoHashes
  BY <1>2 DEF AllBehind
<1> QED BY <1>1, <1>2

\* What is equal is behind.
LEMMA SameIsBehind == \A a \in [Files -> Contents] : Behind(a, a)
<1> SUFFICES ASSUME NEW a \in [Files -> Contents], NEW f \in Files PROVE a[f] <= a[f]
  BY DEF Behind
<1>1. a[f] \in Contents
  OBVIOUS
<1>2. a[f] \in Nat
  BY <1>1, ContentsAreNumbers
<1> QED BY <1>2

\* Steps that change no project, only its job, and nothing a process works with.
LEMMA QuietKeepsOrder ==
    ASSUME TypeOK, TypeOK', InOrder, hash_cache' = hash_cache, local' = local,
           \A id \in Ids : /\ projects'[id].state = projects[id].state
                           /\ projects'[id].name = projects[id].name
                           /\ projects'[id].files = projects[id].files,
           \A c \in Clients :
                \/ proc'[c].pc \in {"idle", "find", "create", "load", "job", "submit", "poll"}
                \/ proc'[c] = proc[c] /\ proc[c].id \in Ids
    PROVE  InOrder'
<1>1. ASSUME NEW cache \in [Names -> [Files -> Contents]], AllBehind(cache, projects)
      PROVE  AllBehind(cache, projects')
  BY <1>1 DEF AllBehind
<1>2. AllBehind(hash_cache', projects')
  BY <1>1 DEF InOrder, TypeOK
<1>3. ASSUME NEW c \in Clients PROVE Ordered(c)'
  <2>1. CASE proc'[c].pc \in {"idle", "find", "create", "load", "job", "submit", "poll"}
    BY <2>1 DEF Ordered
  <2>2. CASE proc'[c] = proc[c] /\ proc[c].id \in Ids
    <3>1. proc[c].data \in [Names -> [Files -> Contents]]
      BY DEF TypeOK, Process
    <3> QED BY <1>1, <2>2, <3>1 DEF InOrder, Ordered, Path
  <2> QED BY <2>1, <2>2
<1>4. \A id \in Ids : Behind(projects'[id].files, local')
  BY DEF InOrder
<1> QED BY <1>2, <1>3, <1>4 DEF InOrder

\* While one process takes a step the others do nothing.
LEMMA OthersAreIdle ==
    ASSUME TypeOK, StagesHold, Alone, NEW c \in Clients, Advance(c)
    PROVE  Busy(c) /\ \A d \in Clients \ {c} : proc'[d].pc = "idle"
<1>1. Busy(c)
  <2>1. Finding(c) => Busy(c)
    BY DEF Finding, FindCached, FindByName, NotInList, Create, Busy
  <2> QED BY <2>1, AdvanceSteps, WorkStaysInProject
<1>2. ASSUME NEW d \in Clients \ {c} PROVE proc'[d].pc = "idle"
  <2>1. proc'[d].pc = proc[d].pc
    BY OthersStayPut
  <2> QED BY <1>1, <2>1 DEF Alone, Busy
<1> QED BY <1>1, <1>2

\* A new project has no files, and nothing is claimed of its name.
LEMMA CreateKeepsOrder ==
    ASSUME TypeOK, TypeOK', StagesHold, NamesInv, InOrder,
           NEW c \in Clients, Advance(c), Create(c)
    PROVE  InOrder'
<1>1. PICK id \in Ids :
            /\ proc[c].pc = "create" /\ projects[id] = Fresh
            /\ projects' = [projects EXCEPT ![id].state = "live", ![id].name = NameOf[c]]
            /\ UNCHANGED <<local, hash_cache>>
  BY DEF Create
<1>2. projects' = [projects EXCEPT ![id] =
              [[projects[id] EXCEPT !.state = "live"] EXCEPT !.name = NameOf[c]]]
  BY <1>1 DEF TypeOK
<1>3. projects[id] \in Project /\ NameOf[c] \in Names
  BY CloudAssumption DEF TypeOK
<1>4. /\ [[projects[id] EXCEPT !.state = "live"] EXCEPT !.name = NameOf[c]].state = "live"
      /\ [[projects[id] EXCEPT !.state = "live"] EXCEPT !.name = NameOf[c]].name = NameOf[c]
      /\ [[projects[id] EXCEPT !.state = "live"] EXCEPT !.name = NameOf[c]].files
            = projects[id].files
  BY <1>3 DEF Project
<1>5. /\ projects'[id].state = "live" /\ projects'[id].name = NameOf[c]
      /\ projects'[id].files = projects[id].files
      /\ \A other \in Ids \ {id} : projects'[other] = projects[other]
  BY <1>2, <1>4 DEF TypeOK
<1>6. ASSUME NEW d \in Clients PROVE Ordered(d)'
  <2>1. proc'[d].pc \in {"idle", "create", "load"}
    BY FindingKeepsCode, OthersAreIdle DEF Finding, NamesInv, StagesHold
  <2> QED BY <2>1 DEF Ordered
<1>7. AllBehind(hash_cache, projects')
  <2>1. hash_cache[NameOf[c]] = NoHashes
    BY <1>1, <1>3 DEF InOrder, AllBehind, NamesInv, Named, NotFound, Live
  <2>2. Behind(NoHashes, projects[id].files)
    <3>1. \A f \in Files : projects[id].files[f] \in Nat
      BY ContentsAreNumbers
    <3> QED BY <3>1 DEF Behind, NoHashes, NoFile
  <2>3. ASSUME NEW n \in Names, NEW other \in Ids,
               projects'[other].state = "live", projects'[other].name = n
        PROVE  Behind(hash_cache[n], projects'[other].files)
    <3>1. CASE other = id
      BY <1>5, <2>1, <2>2, <2>3, <3>1
    <3>2. CASE other # id
      BY <1>5, <2>3, <3>2 DEF InOrder, AllBehind
    <3> QED BY <3>1, <3>2
  <2>4. ASSUME NEW n \in Names,
               \A other \in Ids : projects'[other].state = "live" => projects'[other].name # n
        PROVE  hash_cache[n] = NoHashes
    <3>1. projects[id].state # "live"
      BY <1>1 DEF Fresh
    <3>2. \A other \in Ids : projects[other].state = "live" => projects[other].name # n
      BY <1>5, <2>4, <3>1
    <3> QED BY <3>2 DEF InOrder, AllBehind
  <2> QED BY <2>3, <2>4 DEF AllBehind
<1>8. \A other \in Ids : Behind(projects'[other].files, local')
  BY <1>1, <1>5 DEF InOrder
<1> QED BY <1>1, <1>6, <1>7, <1>8 DEF InOrder

\* The project of a process at work is live, and the only one of its name.
LEMMA OwnProject ==
    ASSUME StagesHold, NamesInv, LeftAlone, NEW c \in Clients,
           proc[c].pc \in AtWork \cup {"load"}, TypeOK
    PROVE  /\ proc[c].id \in Ids /\ projects[proc[c].id].name = NameOf[c]
           /\ projects[proc[c].id].state = "live" /\ ~proc[c].disturbed
           /\ \A id \in Ids : projects[id].state = "live" /\ projects[id].name = NameOf[c] =>
                                id = proc[c].id
<1>1. proc[c].id \in Ids /\ Busy(c)
  BY DEF StagesHold, Stage, AtWork, Busy
<1>2. projects[proc[c].id] \in Project
  BY <1>1 DEF TypeOK
<1>3. /\ projects[proc[c].id].name = NameOf[c] /\ ~proc[c].disturbed
      /\ projects[proc[c].id].state \notin {"unused", "deleted"}
  BY <1>1 DEF NamesInv, Named, LeftAlone
<1>4. projects[proc[c].id].state = "live"
  BY <1>2, <1>3 DEF Project
<1>5. ASSUME NEW id \in Ids, projects[id].state = "live", projects[id].name = NameOf[c]
      PROVE  id = proc[c].id
  BY <1>1, <1>3, <1>4, <1>5 DEF NamesInv, Named, OneProjectPerName, Live
<1> QED BY <1>1, <1>3, <1>4, <1>5

\* The hash file and what is written to it claim nothing too new.
LEMMA FilingKeepsOrder ==
    ASSUME TypeOK, TypeOK', StagesHold, NamesInv, LeftAlone, InOrder,
           NEW c \in Clients, CodeInProject(c), Advance(c), Filing(c)
    PROVE  InOrder'
<1> DEFINE p == proc[c]
           mine == projects[p.id].files
<1>1. /\ p \in Process /\ p.new_hashes \in [Files -> Contents]
      /\ p.old_hashes \in [Files -> Contents] /\ p.data \in [Names -> [Files -> Contents]]
      /\ p.pc \in {"load", "sync", "save", "write", "dump"}
      /\ projects' = projects /\ local' = local
  BY DEF TypeOK, Process, Filing, LoadHashes, ReadFile, EndSync, ReadHashFile,
         TruncateHashFile, DumpHashFile
<1>2. /\ p.id \in Ids /\ projects[p.id].name = NameOf[c]
      /\ projects[p.id].state = "live" /\ ~p.disturbed
      /\ \A id \in Ids : projects[id].state = "live" /\ projects[id].name = NameOf[c] =>
                            id = p.id
  BY <1>1, OwnProject DEF AtWork
<1>3. mine \in [Files -> Contents] /\ NameOf[c] \in Names
  BY <1>2, CloudAssumption DEF TypeOK, Project
<1>4. AllBehind(NoCache, projects)
  <2>1. \A id \in Ids : Behind(NoHashes, projects[id].files)
    <3>1. \A id \in Ids, f \in Files : projects[id].files[f] \in Nat
      BY ContentsAreNumbers
    <3> QED BY <3>1 DEF Behind, NoHashes, NoFile
  <2> QED BY <2>1 DEF AllBehind, NoCache
<1>5. ASSUME AllBehind(hash_cache', projects), Ordered(c)' PROVE InOrder'
  <2>1. \A d \in Clients : Ordered(d)'
    <3>1. ASSUME NEW d \in Clients \ {c} PROVE Ordered(d)'
      <4>1. proc'[d].pc = "idle"
        BY OthersAreIdle DEF NamesInv
      <4> QED BY <4>1 DEF Ordered
    <3> QED BY <1>5, <3>1
  <2> QED BY <1>1, <1>5, <2>1 DEF InOrder
<1>6. CASE LoadHashes(c)
  <2>1. /\ proc'[c].pc = "sync" /\ proc'[c].id = p.id /\ proc'[c].old_hashes = OldHashes(c)
        /\ hash_cache' = hash_cache
    BY <1>1, <1>6 DEF LoadHashes, TypeOK, Process, caches
  <2>2. Behind(OldHashes(c), mine)
    <3>1. Behind(hash_cache[NameOf[c]], mine)
      BY <1>2, <1>3 DEF InOrder, AllBehind
    <3>2. Behind(NoHashes, mine)
      <4>1. \A f \in Files : mine[f] \in Nat
        BY <1>2, ContentsAreNumbers
      <4> QED BY <4>1 DEF Behind, NoHashes, NoFile
    <3> QED BY <3>1, <3>2 DEF OldHashes
  <2> QED BY <1>1, <1>5, <2>1, <2>2 DEF Ordered, InOrder
<1>7. CASE ReadFile(c)
  <2> DEFINE f == Path(c)
  <2>1. f \in Files /\ p.pc = "sync" /\ hash_cache' = hash_cache
    BY <1>7, FileType DEF ReadFile, caches
  <2>2. /\ proc'[c].new_hashes = [p.new_hashes EXCEPT ![f] = local[f]]
        /\ proc'[c].id = p.id /\ proc'[c].old_hashes = p.old_hashes
        /\ \/ proc'[c].pc = "sync"
           \/ proc'[c].pc = "upload" /\ proc'[c].next = p.next
    BY <1>1, <1>7 DEF ReadFile, TypeOK, Process
  <2>3. proc'[c].new_hashes[f] = local[f]
    BY <1>1, <2>1, <2>2
  <2>4. Behind(p.old_hashes, mine)
    BY <2>1 DEF InOrder, Ordered
  <2>5. mine[f] <= local[f] /\ local[f] <= local[f]
    <3>1. local[f] \in Nat
      BY <2>1, ContentsAreNumbers
    <3> QED BY <1>2, <2>1, <3>1 DEF InOrder, Behind
  <2>6. Ordered(c)'
    <3>1. CASE proc'[c].pc = "sync"
      BY <1>1, <2>2, <2>4, <3>1 DEF Ordered
    <3>2. CASE proc'[c].pc = "upload" /\ proc'[c].next = p.next
      <4>1. Path(c)' = f
        BY <3>2 DEF Path
      <4> HIDE DEF f
      <4> QED BY <1>1, <2>2, <2>3, <2>4, <2>5, <3>2, <4>1 DEF Ordered
    <3> QED BY <2>2, <3>1, <3>2
  <2> QED BY <1>5, <2>1, <2>6 DEF InOrder
<1>8. CASE EndSync(c)
  <2>1. /\ p.pc = "sync" /\ proc'[c].pc = "save" /\ proc'[c].id = p.id
        /\ proc'[c].old_hashes = Updated(p.old_hashes, p.new_hashes)
        /\ hash_cache' = hash_cache
    BY <1>1, <1>8 DEF EndSync, TypeOK, Process, caches
  <2>2. ASSUME NEW f \in Files PROVE Updated(p.old_hashes, p.new_hashes)[f] <= mine[f]
    <3>1. p.new_hashes[f] = NoFile \/ mine[f] = p.new_hashes[f]
      BY <1>2, <2>1 DEF CodeInProject, Uploaded
    <3>2. p.old_hashes[f] <= mine[f] /\ mine[f] \in Nat
      BY <1>2, <2>1, ContentsAreNumbers DEF InOrder, Ordered, Behind
    <3>3. mine[f] <= mine[f]
      BY <3>2
    <3> QED BY <3>1, <3>2, <3>3 DEF Updated
  <2>3. Behind(Updated(p.old_hashes, p.new_hashes), mine)
    BY <2>2 DEF Behind
  <2> QED BY <1>1, <1>5, <2>1, <2>3 DEF Ordered, InOrder
<1>9. CASE ReadHashFile(c)
  <2>1. /\ p.pc = "save" /\ proc'[c].pc = "write" /\ proc'[c].id = p.id
        /\ proc'[c].old_hashes = p.old_hashes /\ proc'[c].data = FileWith(c)
        /\ hash_cache' = hash_cache
    BY <1>1, <1>9 DEF ReadHashFile, TypeOK, Process, caches
  <2>2. Behind(p.old_hashes, mine)
    BY <2>1 DEF InOrder, Ordered
  <2>3. AllBehind(FileWith(c), projects)
    <3> DEFINE base == IF legacy THEN NoCache ELSE hash_cache
    <3>1. base \in [Names -> [Files -> Contents]] /\ AllBehind(base, projects)
      BY <1>4, Defaults DEF InOrder, TypeOK
    <3>2. FileWith(c) = [base EXCEPT ![NameOf[c]] = p.old_hashes]
      BY DEF FileWith
    <3> HIDE DEF base
    <3>3. /\ FileWith(c)[NameOf[c]] = p.old_hashes
          /\ \A n \in Names \ {NameOf[c]} : FileWith(c)[n] = base[n]
      BY <1>3, <3>1, <3>2
    <3>4. ASSUME NEW n \in Names, NEW id \in Ids, projects[id].state = "live",
                 projects[id].name = n
          PROVE  Behind(FileWith(c)[n], projects[id].files)
      <4>1. CASE n = NameOf[c]
        BY <1>2, <2>2, <3>3, <3>4, <4>1
      <4>2. CASE n # NameOf[c]
        BY <3>1, <3>3, <3>4, <4>2 DEF AllBehind
      <4> QED BY <4>1, <4>2
    <3>5. ASSUME NEW n \in Names,
                 \A id \in Ids : projects[id].state = "live" => projects[id].name # n
          PROVE  FileWith(c)[n] = NoHashes
      BY <1>2, <3>1, <3>3, <3>5 DEF AllBehind
    <3> QED BY <3>4, <3>5 DEF AllBehind
  <2> QED BY <1>1, <1>5, <2>1, <2>2, <2>3 DEF Ordered, InOrder
<1>10. CASE TruncateHashFile(c)
  <2>1. /\ p.pc = "write" /\ proc'[c].pc = "dump" /\ proc'[c].id = p.id
        /\ proc'[c].old_hashes = p.old_hashes /\ proc'[c].data = p.data
        /\ hash_cache' = NoCache
    BY <1>1, <1>10 DEF TruncateHashFile, TypeOK, Process
  <2> QED BY <1>1, <1>4, <1>5, <2>1 DEF Ordered, InOrder
<1>11. CASE DumpHashFile(c)
  <2>1. p.pc = "dump" /\ proc'[c].pc = "job" /\ hash_cache' = p.data
    BY <1>1, <1>11 DEF DumpHashFile, TypeOK, Process
  <2> QED BY <1>5, <2>1 DEF Ordered, InOrder
<1> QED BY <1>6, <1>7, <1>8, <1>9, <1>10, <1>11 DEF Filing

\* An upload brings a file up to what was read, which is not older than what was there.
LEMMA UploadKeepsOrder ==
    ASSUME TypeOK, TypeOK', StagesHold, NamesInv, LeftAlone, InOrder,
           NEW c \in Clients, Advance(c), Upload(c)
    PROVE  InOrder'
<1> DEFINE p == proc[c]
           f == Path(c)
           mine == projects[p.id].files
<1>1. PICK stored, answered \in BOOLEAN :
            /\ Attempt(c, stored, answered, UploadDone(c)) /\ UploadDone(c) \in Process
            /\ projects' = IF stored
                           THEN [projects EXCEPT ![p.id] =
                                    [@ EXCEPT !.files[f] = p.new_hashes[f]]]
                           ELSE projects
  BY UploadDoes
<1>2. /\ p \in Process /\ p.pc = "upload" /\ local' = local /\ hash_cache' = hash_cache
      /\ f \in Files
  BY FileType DEF TypeOK, Upload, caches, StagesHold, Stage
<1>3. p.id \in Ids /\ projects[p.id] \in Project
  BY <1>2, OwnProject DEF AtWork, TypeOK
<1>4. proc'[c] = After(c, answered, UploadDone(c))
  <2>1. Attempt(c, stored, answered, UploadDone(c)) /\ UploadDone(c) \in Process
    BY <1>1
  <2> HIDE <1>1
  <2> QED BY <2>1, AttemptDoes
<1>5. /\ \A id \in Ids \ {p.id} : projects'[id] = projects[id]
      /\ projects'[p.id].state = projects[p.id].state
      /\ projects'[p.id].name = projects[p.id].name
      /\ \A g \in Files \ {f} : projects'[p.id].files[g] = mine[g]
      /\ projects'[p.id].files[f] \in {mine[f], p.new_hashes[f]}
  BY <1>1, <1>2, <1>3 DEF TypeOK, Project
<1>6. /\ mine[f] <= p.new_hashes[f] /\ p.new_hashes[f] <= local[f]
      /\ Behind(p.old_hashes, mine) /\ Behind(mine, local)
  BY <1>2, <1>3 DEF InOrder, Ordered
<1>7. /\ p.new_hashes[f] \in Nat /\ local[f] \in Nat /\ \A g \in Files : mine[g] \in Nat
  BY <1>2, <1>3, ContentsAreNumbers
<1> DEFINE theirs == projects'[p.id].files
<1>8. /\ mine \in [Files -> Contents] /\ theirs \in [Files -> Contents]
      /\ local \in [Files -> Contents] /\ p.old_hashes \in [Files -> Contents]
  <2>1. projects'[p.id] \in Project
    BY <1>3 DEF TypeOK
  <2> QED BY <1>2, <1>3, <2>1 DEF Project, Process, TypeOK, Contents
<1>9. Behind(mine, theirs) /\ Behind(theirs, local) /\ theirs[f] <= p.new_hashes[f]
  <2>1. mine[f] <= theirs[f] /\ theirs[f] <= p.new_hashes[f] /\ theirs[f] <= local[f]
    <3>1. theirs[f] = mine[f] \/ theirs[f] = p.new_hashes[f]
      BY <1>5
    <3>2. mine[f] \in Nat
      BY <1>2, <1>7
    <3> HIDE DEF mine, theirs, f, p
    <3> QED BY <1>6, <1>7, <3>1, <3>2
  <2>2. ASSUME NEW g \in Files \ {f} PROVE mine[g] <= theirs[g] /\ theirs[g] <= local[g]
    <3>1. theirs[g] = mine[g] /\ mine[g] \in Nat /\ mine[g] <= local[g]
      BY <1>5, <1>6, <1>7 DEF Behind
    <3> HIDE DEF mine, theirs
    <3> QED BY <3>1
  <2> QED BY <2>1, <2>2 DEF Behind
<1>10. \A id \in Ids : /\ projects'[id].state = projects[id].state
                       /\ projects'[id].name = projects[id].name
                       /\ Behind(projects[id].files, projects'[id].files)
  <2>1. \A id \in Ids : projects[id].files \in [Files -> Contents]
    BY DEF TypeOK, Project
  <2> QED BY <1>5, <1>9, <2>1, SameIsBehind
<1>11. AllBehind(hash_cache, projects')
  BY <1>10, NewerKeepsBehind DEF InOrder, TypeOK
<1>12. \A id \in Ids : Behind(projects'[id].files, local')
  BY <1>2, <1>5, <1>9 DEF InOrder
<1>13. ASSUME NEW d \in Clients PROVE Ordered(d)'
  <2>1. CASE d # c
    <3>1. proc'[d].pc = "idle"
      BY <2>1, OthersAreIdle DEF NamesInv
    <3> QED BY <3>1 DEF Ordered
  <2>2. CASE d = c
    <3>1. Behind(p.old_hashes, theirs)
      BY <1>6, <1>8, <1>9, BehindIsTransitive
    <3>2. \/ proc'[c].pc = "idle"
          \/ /\ proc'[c].old_hashes = p.old_hashes /\ proc'[c].new_hashes = p.new_hashes
             /\ proc'[c].id = p.id
             /\ \/ proc'[c].pc = "sync"
                \/ proc'[c].pc = "upload" /\ proc'[c].next = p.next
      <4>1. CASE answered
        BY <1>2, <1>4, <4>1 DEF After, UploadDone, Process
      <4>2. CASE ~answered /\ Failed(c).tries < MaxTries
        BY <1>2, <1>4, <4>2 DEF After, Failed, Process
      <4>3. CASE ~answered /\ ~(Failed(c).tries < MaxTries)
        BY <1>4, <4>3 DEF After, Ended, Idle
      <4> QED BY <4>1, <4>2, <4>3
    <3>3. CASE proc'[c].pc = "upload"
      <4>1. Path(c)' = f
        BY <3>2, <3>3 DEF Path
      <4> QED BY <1>2, <1>6, <1>9, <2>2, <3>1, <3>2, <3>3, <4>1 DEF Ordered
    <3>4. CASE proc'[c].pc \in {"idle", "sync"}
      BY <2>2, <3>1, <3>2, <3>4 DEF Ordered
    <3> QED BY <3>2, <3>3, <3>4
  <2> QED BY <2>1, <2>2
<1> QED BY <1>2, <1>11, <1>12, <1>13 DEF InOrder

\* An edit leaves a newer content.
LEMMA EditKeepsOrder ==
    ASSUME TypeOK, TypeOK', StagesHold, SerialAccount, InOrder, NEW f \in Files, Edit(f)
    PROVE  InOrder'
<1>1. PICK version \in Versions : version > local[f] /\ local' = [local EXCEPT ![f] = version]
  BY DEF Edit, SerialAccount
<1>2. hash_cache' = hash_cache /\ projects' = projects /\ proc' = proc
  BY DEF Edit, caches
<1>3. local \in [Files -> Contents] /\ local' \in [Files -> Contents]
  BY DEF TypeOK, Contents
<1>4. Behind(local, local')
  <2> SUFFICES ASSUME NEW g \in Files PROVE local[g] <= local'[g]
    BY DEF Behind
  <2>1. local[g] \in Nat /\ version \in Nat
    BY ContentsAreNumbers, CloudAssumption
  <2>2. local'[g] = IF g = f THEN version ELSE local[g]
    BY <1>1, <1>3
  <2> QED BY <1>1, <2>1, <2>2
<1>5. ASSUME NEW id \in Ids PROVE Behind(projects'[id].files, local')
  <2>1. projects[id].files \in [Files -> Contents] /\ Behind(projects[id].files, local)
    BY DEF TypeOK, Project, InOrder
  <2> QED BY <1>2, <1>3, <1>4, <2>1, BehindIsTransitive
<1>6. ASSUME NEW c \in Clients PROVE Ordered(c)'
  <2>1. Ordered(c)
    BY DEF InOrder
  <2>2. CASE proc[c].pc = "upload"
    <3>1. Path(c) \in Files /\ Path(c)' = Path(c)
      BY <1>2, <2>2, FileType DEF StagesHold, Stage, Path
    <3>2. proc[c].new_hashes[Path(c)] <= local'[Path(c)]
      <4> DEFINE g == Path(c)
                 read == proc[c].new_hashes[g]
      <4>1. read <= local[g] /\ local[g] <= local'[g]
        BY <1>4, <2>1, <2>2, <3>1 DEF Ordered, Behind
      <4>2. read \in Nat /\ local[g] \in Nat /\ local'[g] \in Nat
        BY <1>3, <3>1, ContentsAreNumbers
      <4> HIDE DEF g, read
      <4>3. read <= local'[g]
        BY <4>1, <4>2
      <4> QED BY <4>3 DEF g, read
    <3> QED BY <1>2, <2>1, <2>2, <3>1, <3>2 DEF Ordered
  <2>3. CASE proc[c].pc # "upload"
    BY <1>2, <2>1, <2>3 DEF Ordered
  <2> QED BY <2>2, <2>3
<1>7. AllBehind(hash_cache', projects')
  BY <1>2 DEF InOrder
<1> QED BY <1>5, <1>6, <1>7 DEF InOrder

\* The order is kept by every step.
LEMMA StepKeepsOrder ==
    ASSUME SerialAccount, TypeOK, TypeOK', StagesHold, NamesInv, SerialInv, [Next]_vars
    PROVE  InOrder'
<1> USE DEF SerialInv
<1>1. /\ \A c \in Clients : proc[c] \in Process /\ (Busy(c) \/ proc[c].pc = "idle")
      /\ \A id \in Ids : projects[id] \in Project
  BY DEF TypeOK, Busy
<1> DEFINE Early == {"idle", "find", "create", "load", "job", "submit", "poll"}
<1>2. ASSUME NEW c \in Clients PROVE proc[c].pc \in Early \/ proc[c].id \in Ids
  BY <1>1 DEF StagesHold, Stage, AtWork, Process
<1>3. CASE \E c \in Clients : Begin(c)
  <2>1. PICK c \in Clients : Begin(c)
    BY <1>3
  <2>2. /\ \A d \in Clients \ {c} : proc'[d] = proc[d]
        /\ proc'[c].pc = "find" /\ UNCHANGED <<hash_cache, local, projects>>
    BY <2>1 DEF Begin, TypeOK, Idle, caches
  <2> QED BY <1>2, <2>2, QuietKeepsOrder
<1>4. CASE \E c \in Clients : Advance(c)
  <2>1. PICK c \in Clients : Advance(c)
    BY <1>4
  <2>2. \A d \in Clients \ {c} : proc'[d].pc \in Early
    BY <2>1, OthersAreIdle DEF NamesInv
  <2>3. CASE Finding(c) /\ ~Create(c)
    <3>1. proc'[c].pc \in Early
      BY <2>3, FindingKeepsCode DEF StagesHold
    <3>2. UNCHANGED <<hash_cache, local, projects>>
      BY <2>3 DEF Finding, FindCached, FindByName, NotInList, caches
    <3> QED BY <2>2, <3>1, <3>2, QuietKeepsOrder
  <2>4. CASE Create(c)
    BY <2>1, <2>4, CreateKeepsOrder
  <2>5. CASE Filing(c)
    BY <2>1, <2>5, FilingKeepsOrder
  <2>6. CASE Upload(c)
    BY <2>1, <2>6, UploadKeepsOrder
  <2>7. CASE UploadJob(c)
    <3>1. PICK stored, answered \in BOOLEAN :
              /\ Attempt(c, stored, answered, JobDone(c))
              /\ projects' = IF stored THEN [projects EXCEPT ![proc[c].id].job = c]
                             ELSE projects
      BY <2>7 DEF UploadJob, JobDone
    <3>2. proc'[c] = After(c, answered, JobDone(c))
      <4>1. JobDone(c) \in Process
        BY <1>1, ProcessField, Defaults DEF JobDone
      <4> QED BY <3>1, <4>1, AttemptDoes
    <3>3. proc[c].pc = "job" /\ UNCHANGED <<hash_cache, local>>
      BY <2>7 DEF UploadJob, caches
    <3>4. proc'[c].pc \in Early
      <4>1. Ended(c).pc = "idle"
        BY DEF Ended, Idle
      <4> QED BY <1>1, <3>2, <3>3, <4>1 DEF After, JobDone, Failed, Process
    <3>5. \A id \in Ids : /\ projects'[id].state = projects[id].state
                          /\ projects'[id].name = projects[id].name
                          /\ projects'[id].files = projects[id].files
      BY <1>1, <3>1 DEF TypeOK, Project
    <3> QED BY <2>2, <3>3, <3>4, <3>5, QuietKeepsOrder
  <2>8. CASE Submit(c) \/ EndPoll(c) \/ Die(c)
    <3>1. UNCHANGED <<hash_cache, local, projects>>
      BY <2>8 DEF Submit, EndPoll, Die, caches
    <3>2. proc'[c].pc \in Early
      <4>1. Ended(c).pc = "idle"
        BY DEF Ended, Idle
      <4> QED BY <1>1, <2>8, <4>1 DEF Submit, EndPoll, Die, TypeOK, Process
    <3> QED BY <2>2, <3>1, <3>2, QuietKeepsOrder
  <2> QED BY <2>1, <2>3, <2>4, <2>5, <2>6, <2>7, <2>8, AdvanceSteps DEF Sending
<1>5. CASE \E f \in Files : Edit(f)
  BY <1>5, EditKeepsOrder
<1>6. CASE UNCHANGED <<hash_cache, local, projects, proc>>
  BY <1>2, <1>6, QuietKeepsOrder
<1> QED BY <1>3, <1>4, <1>5, <1>6 DEF Next, StartRun, DeleteProject, SerialAccount, vars, caches

\* The file that is skipped is between its hash and the checkout, which are equal.
LEMMA OrderSkipsRightly ==
    ASSUME TypeOK, StagesHold, NamesInv, LeftAlone, InOrder, NEW c \in Clients
    PROVE  SkipsRightly(c)
<1> SUFFICES ASSUME proc[c].pc = "sync", proc[c].next <= Len(FilePaths[c]),
                    Unchanged(c, Path(c))
             PROVE  projects[proc[c].id].files[Path(c)] = local[Path(c)]
  BY DEF SkipsRightly
<1> DEFINE f == Path(c)
           there == projects[proc[c].id].files[f]
<1>1. f \in Files /\ proc[c].id \in Ids
  BY FileType, OwnProject DEF AtWork
<1>2. proc[c].old_hashes[f] <= there /\ there <= local[f]
  BY <1>1 DEF InOrder, Ordered, Behind
<1>3. proc[c].old_hashes[f] = local[f]
  BY DEF Unchanged
<1>4. there \in Nat /\ local[f] \in Nat
  BY <1>1, ContentsAreNumbers
<1> HIDE DEF f, there
<1>5. there = local[f]
  BY <1>2, <1>3, <1>4
<1> QED BY <1>5 DEF f, there

\* At the start nothing is claimed, or, in the flat layout, what the one project holds.
LEMMA InitOrder == SerialAccount /\ Init => NamesInv /\ SerialInv
<1> SUFFICES ASSUME SerialAccount, Init PROVE NamesInv /\ SerialInv
  OBVIOUS
<1>1. /\ \A c \in Clients : proc[c] = Idle /\ runs[c] = NoRun
      /\ local = [f \in Files |-> 1] /\ project_cache.id = 0
  BY DEF Init
<1>2. \A c \in Clients : /\ proc[c].pc = "idle" /\ ~proc[c].disturbed /\ proc[c].id = 0
                         /\ runs[c].state = "none"
  <2>1. /\ Idle.pc = "idle" /\ ~Idle.disturbed /\ Idle.id = 0
        /\ NoRun.state = "none"
    BY DEF Idle, NoRun
  <2> QED BY <1>1, <2>1
<1>3. \A c \in Clients : Ordered(c) /\ CodeInProject(c)
  BY <1>2, Defaults DEF Ordered, CodeInProject, OwnCode
<1> DEFINE Empty == projects = [id \in Ids |-> Fresh] /\ hash_cache = NoCache
           Flat == /\ hash_cache = [n \in Names |-> local]
                   /\ \E owner \in LegacyOwners :
                        projects = [id \in Ids |->
                            IF id = 1 THEN [Fresh EXCEPT !.state = "live", !.name = owner,
                                                         !.files = local]
                            ELSE Fresh]
<1>4. Empty \/ Flat
  BY DEF Init
<1>5. /\ Behind(NoHashes, local) /\ Behind(local, local)
  BY <1>1 DEF Behind, NoHashes, NoFile
<1>6. CASE Empty
  <2>1. \A id \in Ids : projects[id].state = "unused" /\ projects[id].files = NoHashes
    BY <1>6 DEF Fresh
  <2>2. AllBehind(hash_cache, projects)
    BY <1>6, <2>1 DEF AllBehind, NoCache
  <2>3. NamesInv
    BY <1>1, <1>2, <2>1, Defaults DEF NamesInv, Alone, Named, OneProjectPerName, Live, Busy
  <2> QED BY <1>2, <1>3, <1>5, <2>1, <2>2, <2>3 DEF SerialInv, LeftAlone, InOrder, Busy
<1>7. CASE Flat
  <2>1. PICK owner \in LegacyOwners :
            projects = [id \in Ids |->
                IF id = 1 THEN [Fresh EXCEPT !.state = "live", !.name = owner,
                                             !.files = local]
                ELSE Fresh]
    BY <1>7
  <2>2. /\ projects[1].state = "live" /\ projects[1].name = owner /\ projects[1].files = local
        /\ \A id \in Ids \ {1} : projects[id] = Fresh
    BY <2>1, Defaults DEF Fresh
  <2>3. /\ \A id \in Ids \ {1} : projects[id].state = "unused" /\ projects[id].files = NoHashes
        /\ \A id \in Ids : projects[id].state = "live" => id = 1
    <3>1. Fresh.state = "unused" /\ Fresh.files = NoHashes
      BY DEF Fresh
    <3>2. Fresh.state # "live"
      BY <3>1
    <3>3. \A id \in Ids \ {1} : projects[id].state = "unused" /\ projects[id].files = NoHashes
      BY <2>2, <3>1
    <3> QED BY <2>2, <3>2, <3>3
  <2>4. AllBehind(hash_cache, projects)
    <3> SUFFICES ASSUME NEW n \in Names
                 PROVE  /\ \A id \in Ids : projects[id].state = "live" /\ projects[id].name = n =>
                                Behind(hash_cache[n], projects[id].files)
                        /\ (\A id \in Ids : projects[id].state = "live" =>
                                                projects[id].name # n) =>
                                hash_cache[n] = NoHashes
      BY DEF AllBehind
    <3>1. hash_cache[n] = local /\ n = owner
      BY <1>7 DEF SerialAccount
    <3> QED BY <1>5, <2>2, <2>3, <3>1, Defaults
  <2>5. NamesInv
    BY <1>1, <1>2, <2>3, Defaults DEF NamesInv, Alone, Named, OneProjectPerName, Live, Busy
  <2>6. \A id \in Ids : projects[id].state # "deleted" /\ Behind(projects[id].files, local)
    BY <1>5, <2>2, <2>3
  <2> QED BY <1>2, <1>3, <2>4, <2>5, <2>6 DEF SerialInv, LeftAlone, InOrder, Busy
<1> QED BY <1>4, <1>6, <1>7

\* The hash file, the project and the checkout stay in order, and a project holds what was
\* read for it.
LEMMA SerialInductive ==
    ASSUME SerialAccount PROVE Spec => [](NamesInv /\ SerialInv)
<1>1. TypeOK /\ TypeOK' /\ StagesHold /\ NamesInv /\ SerialInv /\ [Next]_vars =>
        NamesInv' /\ SerialInv'
  <2> SUFFICES ASSUME TypeOK, TypeOK', StagesHold, NamesInv, SerialInv, [Next]_vars
               PROVE  NamesInv' /\ SerialInv'
    OBVIOUS
  <2>1. NamesInv'
    BY StepKeepsAlone, StepKeepsNamed DEF NamesInv, SerialAccount
  <2>2. LeftAlone' /\ InOrder'
    BY StepKeepsLeftAlone, StepKeepsOrder DEF NamesInv, SerialInv
  <2>3. ASSUME NEW c \in Clients PROVE CodeInProject(c)'
    <3>1. SkipsRightly(c) /\ CodeInProject(c)
      BY OrderSkipsRightly DEF SerialInv
    <3> QED BY <3>1, StepKeepsCode
  <2> QED BY <2>1, <2>2, <2>3 DEF SerialInv
<1>2. Init => NamesInv /\ SerialInv
  BY InitOrder
<1> QED BY <1>1, <1>2, CloudTypeCorrect, PTL DEF Spec

\* With one process at a time on a checkout edited forwards, a run executes what its
\* process read and the job it uploaded, whatever syncs, saves and creations were cut
\* short before: the hash diff leaves no old file behind.
THEOREM SerialRunsItsCode == ASSUME SerialAccount PROVE Spec => []RanItsOwnCode
<1>1. SerialInv => RanItsOwnCode
  BY DEF SerialInv, CodeInProject, RanItsOwnCode, OwnCode
<1> QED BY <1>1, SerialInductive, PTL

\* Nor does the hash file ever claim what the project does not hold: a skipped upload
\* was not needed.
THEOREM CacheStaysBehind == ASSUME SerialAccount PROVE Spec => []CacheBehindProject
<1>1. SerialInv => CacheBehindProject
  BY DEF SerialInv, InOrder, AllBehind, Behind, CacheBehindProject, Live
<1> QED BY <1>1, SerialInductive, PTL

=============================================================================
