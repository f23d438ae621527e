---------------------------- MODULE ReportFiles ----------------------------
(***************************************************************************)
(* Reports: report_writer (business/knowledge_assistant/tools), the rule   *)
(* that asks before an overwrite (permission_rules.py) and ArtifactStore   *)
(* (src/services/artifacts.py).  The runs of a user share one artifact     *)
(* directory, the group "filesystem" only orders the calls of one batch    *)
(* and a worker thread goes on when its call has timed out: writes meet    *)
(* between the opening of a file and its last bytes.                       *)
(*                                                                         *)
(* The contents of a file are its head and its tail, each by the report    *)
(* that wrote it last.                                                     *)
(***************************************************************************)
EXTENDS Naturals

CONSTANTS
  Reports,      \* report_writer tool uses
  Paths,
  NoReport

VARIABLES
  use,      \* what each tool use asks for: path, overwrite
  at,       \* "new", "asked", "allowed", "opened", "half", "closed", "failed"
  file,     \* the file of each path: who wrote its head and its tail
  told      \* what the agent was told: "none", "ok", "error", "denied"

vars == <<use, at, file, told>>

Missing == [exists |-> FALSE, head |-> NoReport, tail |-> NoReport]
Empty   == [exists |-> TRUE, head |-> NoReport, tail |-> NoReport]

TypeOK ==
  /\ use \in [Reports -> [path : Paths, overwrite : BOOLEAN]]
  /\ at \in [Reports -> {"new", "asked", "allowed", "opened", "half", "closed", "failed"}]
  /\ file \in [Paths -> [exists : BOOLEAN, head : Reports \cup {NoReport},
                         tail : Reports \cup {NoReport}]]
  /\ told \in [Reports -> {"none", "ok", "error", "denied"}]

Init ==
  /\ use \in [Reports -> [path : Paths, overwrite : BOOLEAN]]
  /\ at = [u \in Reports |-> "new"]
  /\ file = [p \in Paths |-> Missing]
  /\ told = [u \in Reports |-> "none"]

-----------------------------------------------------------------------------
Step(u, from, to) == at[u] = from /\ at' = [at EXCEPT ![u] = to]

\* Told once: a call that has timed out is not told what its thread does.
Tell(u, what) == told' = IF told[u] = "none" THEN [told EXCEPT ![u] = what] ELSE told

OnDisk(u) == file[use[u].path]

Put(u, content) == file' = [file EXCEPT ![use[u].path] = content]

\* ReportWritePermissionRule: an overwrite asks, a new report is allowed.
Permission(u) ==
  /\ Step(u, "new", IF use[u].overwrite THEN "asked" ELSE "allowed")
  /\ UNCHANGED <<use, file, told>>

\* The user approves or refuses.
Decide(u) ==
  \/ Step(u, "asked", "allowed") /\ UNCHANGED <<use, file, told>>
  \/ Step(u, "asked", "failed") /\ Tell(u, "denied") /\ UNCHANGED <<use, file>>

\* Mutant: looks for contents instead of creating the file exclusively.
RefusesWritten(u) == ~use[u].overwrite /\ OnDisk(u).head # NoReport

\* open(..., "x") refuses a file that exists, open(..., "w") does not.
Refuses(u) == ~use[u].overwrite /\ OnDisk(u).exists

\* write_text up to open: the file is created, or truncated.
Open(u) ==
  \/ /\ ~Refuses(u) /\ Step(u, "allowed", "opened")
     /\ Put(u, Empty)
     /\ UNCHANGED <<use, told>>
  \/ /\ Refuses(u) /\ Step(u, "allowed", "failed")
     /\ Tell(u, "error")
     /\ UNCHANGED <<use, file>>

\* The first bytes: each writer writes from the start of the file.
WriteHead(u) ==
  /\ Step(u, "opened", "half")
  /\ Put(u, [exists |-> TRUE, head |-> u, tail |-> OnDisk(u).tail])
  /\ UNCHANGED <<use, told>>

\* The rest, and the result.
WriteTail(u) ==
  /\ Step(u, "half", "closed")
  /\ Put(u, [exists |-> TRUE, head |-> OnDisk(u).head, tail |-> u])
  /\ Tell(u, "ok")
  /\ UNCHANGED use

\* A write raises: the file stays as it is.
Fail(u) ==
  /\ at[u] \in {"opened", "half"}
  /\ at' = [at EXCEPT ![u] = "failed"]
  /\ Tell(u, "error")
  /\ UNCHANGED <<use, file>>

\* ToolRegistry.dispatch gives up waiting for the thread.
TimeOut(u) ==
  /\ at[u] \in {"allowed", "opened", "half"} /\ told[u] = "none"
  /\ Tell(u, "error")
  /\ UNCHANGED <<use, at, file>>

Next == \E u \in Reports :
  \/ Permission(u) \/ Decide(u) \/ Open(u) \/ WriteHead(u) \/ WriteTail(u)
  \/ Fail(u) \/ TimeOut(u)

Spec == Init /\ [][Next]_vars

-----------------------------------------------------------------------------
Whole(u) == [exists |-> TRUE, head |-> u, tail |-> u]

OverwrittenBy(u, v) ==
  /\ v # u /\ use[v].path = use[u].path /\ use[v].overwrite
  /\ at[v] \notin {"new", "asked", "allowed"} /\ told[v] # "denied"

Opened(u) == at[u] \in {"opened", "half", "closed"}

IsNew(u) == ~use[u].overwrite

\* What the writer of a new report has put on disk.
Written(u) == [exists |-> TRUE,
               head   |-> IF at[u] = "opened" THEN NoReport ELSE u,
               tail   |-> IF at[u] = "closed" THEN u ELSE NoReport]

FilesExist == \A u \in Reports : Opened(u) => OnDisk(u).exists

\* Nobody had opened the path of a new report before.
OneNewReport ==
  \A u, v \in Reports :
    Opened(u) /\ Opened(v) /\ IsNew(u) /\ IsNew(v) /\ use[u].path = use[v].path => u = v

\* A new report is as its writer has left it until an overwrite begins.
NewReportsIntact ==
  \A u \in Reports :
    Opened(u) /\ IsNew(u) /\ (\A v \in Reports : ~OverwrittenBy(u, v)) => OnDisk(u) = Written(u)

ToldInStep ==
  \A u \in Reports :
    /\ told[u] = "ok" => at[u] = "closed"
    /\ told[u] = "denied" => at[u] = "failed"

\* A new report the agent was told is written stays on disk as it was written
\* until an overwrite of its path that the user approved: whatever else is written,
\* fails or times out beside it (the exclusive creation of ArtifactStore.write_text).
ReportsStay ==
  /\ TypeOK
  /\ FilesExist /\ OneNewReport /\ NewReportsIntact /\ ToldInStep
  /\ \A u \in Reports :
       /\ told[u] = "ok" /\ ~use[u].overwrite
       /\ \A v \in Reports : ~OverwrittenBy(u, v)
       => OnDisk(u) = Whole(u)

\* When nobody is writing, a report the agent was told is written is some report as
\* a whole.  Not promised, and not so: an overwrite truncates before it writes, it
\* may fail then, and it does not wait for a thread that still writes the path.
ReportsAreWhole ==
  \A u \in Reports :
    at[u] = "closed" /\ (\A v \in Reports : at[v] \notin {"opened", "half"})
      => \E v \in Reports : OnDisk(u) = Whole(v)
=============================================================================
