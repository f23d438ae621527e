--------------------------- MODULE MCChatAndFiles ---------------------------
(***************************************************************************)
(* What a user's processes do side by side: the chat terminals             *)
(* (ChatClient), the upserts and prompts over the memory files             *)
(* (MemoryFiles), `agent index` over the knowledge directory               *)
(* (DocumentIndex) and the reports of their runs (ReportFiles).  The four  *)
(* share no state; a behaviour moves the one named by "part", so the       *)
(* states are the sum of theirs.                                           *)
(*                                                                         *)
(* The indexers stand for two configurations of the embedding model, one   *)
(* at work at a time.                                                      *)
(***************************************************************************)
EXTENDS ChatClient, TLC

CONSTANTS
  Names, MaxMemories, Writers, MaxRevision,
  Documents, versionsOf, Absent, Indexers, modelOf, OneAtATime,
  Reports, Paths, NoReport

VARIABLES
  part,
  file, index, history, lock, writing, entry, last, opened, prompt,
  source, chunks, manifest, run, torn,
  use, stage, report, told

memoryVars   == <<file, index, history, lock, writing, entry, last, opened, prompt>>
documentVars == <<source, chunks, manifest, run, torn>>
reportVars   == <<use, stage, report, told>>
partVars     == <<part, allVars, memoryVars, documentVars, reportVars>>

MCVersionsOf == [x \in Documents |-> IF x = "d1" THEN {"v1", "v2"} ELSE {"v1"}]
MCModelOf == [i \in Indexers |-> IF i = "i1" THEN "m1" ELSE "m2"]

\* Ids are interchangeable; no liveness is checked.
Symmetry == Permutations(Conversations) \cup Permutations(Runs) \cup Permutations(Calls)

Memory == INSTANCE MemoryFiles WITH stage <- writing, up <- opened
Index  == INSTANCE DocumentIndex
Writer == INSTANCE ReportFiles WITH at <- stage, file <- report

ASSUME FilesAssumption ==
  /\ IsFiniteSet(Names) /\ Names # {} /\ MaxMemories \in Nat /\ MaxRevision \in Nat
  /\ "free" \notin Writers
  /\ Absent \notin Documents /\ \A d \in Documents : Absent \notin versionsOf[d]
  /\ OneAtATime \in BOOLEAN
  /\ NoReport \notin Reports

PartsInit ==
  /\ part \in {"chat", "memories", "documents", "reports"}
  /\ ChatInit /\ Memory!Init /\ Index!Init /\ Writer!Init
  /\ part # "documents" => \A x \in Documents : source[x] = Absent
  /\ part # "reports" => \A u, v \in Reports : use[u] = use[v] /\ ~use[u].overwrite

ChatMoves     == part = "chat" /\ ChatNext /\ UNCHANGED <<part, memoryVars, documentVars, reportVars>>
MemoriesMove  == part = "memories" /\ Memory!Next /\ UNCHANGED <<part, allVars, documentVars, reportVars>>
DocumentsMove == part = "documents" /\ Index!Next /\ UNCHANGED <<part, allVars, memoryVars, reportVars>>
ReportsMove   == part = "reports" /\ Writer!Next /\ UNCHANGED <<part, allVars, memoryVars, documentVars>>

PartsNext == ChatMoves \/ MemoriesMove \/ DocumentsMove \/ ReportsMove

PartsSpec == PartsInit /\ [][PartsNext]_partVars

\* The properties of MemoryFiles.
RevisionsAreAudited == Memory!RevisionsAreAudited
IndexIsCurrent      == Memory!IndexIsCurrent
PromptIsConsistent  == Memory!PromptIsConsistent

\* The properties of DocumentIndex.
IndexedStaysVisible  == Index!IndexedStaysVisible
IndexMatchesManifest == Index!IndexMatchesManifest

\* The property of ReportFiles.
ReportsStay == Writer!ReportsStay
=============================================================================
