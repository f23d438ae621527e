------------------------ MODULE ChatAndFiles_proofs ------------------------
(***************************************************************************)
(* Proofs about the parts of MCChatAndFiles, for any terminals, memories,  *)
(* documents and reports: the report files, the memory store, the document *)
(* index, and last the terminals on the conversation service.              *)
(***************************************************************************)
EXTENDS MCChatAndFiles, Conversation_proofs, Sequences, FiniteSetTheorems

-----------------------------------------------------------------------------
(* ReportFiles *)

LEMMA ReportsInit == Writer!Init => ReportsStay
  BY DEF Writer!Init, ReportsStay, Writer!ReportsStay, Writer!TypeOK, Writer!FilesExist,
         Writer!OneNewReport, Writer!NewReportsIntact, Writer!ToldInStep, Writer!Opened, Writer!Missing

\* An overwrite that has begun has begun for good.
LEMMA OverwritesStay ==
  ASSUME ReportsStay, [Writer!Next]_reportVars, NEW u \in Reports, NEW v \in Reports,
         Writer!OverwrittenBy(u, v)
  PROVE  Writer!OverwrittenBy(u, v)'
<1> USE DEF ReportsStay, Writer!ReportsStay, Writer!TypeOK, Writer!OverwrittenBy, Writer!Step, Writer!Tell
<1>1. ASSUME NEW w \in Reports,
             Writer!Permission(w) \/ Writer!Decide(w) \/ Writer!Open(w)
      PROVE  Writer!OverwrittenBy(u, v)'
  BY <1>1 DEF Writer!Permission, Writer!Decide, Writer!Open, Writer!Refuses
<1>2. ASSUME NEW w \in Reports,
             Writer!WriteHead(w) \/ Writer!WriteTail(w) \/ Writer!Fail(w) \/ Writer!TimeOut(w)
      PROVE  Writer!OverwrittenBy(u, v)'
  BY <1>2 DEF Writer!WriteHead, Writer!WriteTail, Writer!Fail, Writer!TimeOut
<1>3. CASE UNCHANGED reportVars
  BY <1>3 DEF reportVars
<1> QED BY <1>1, <1>2, <1>3 DEF Writer!Next

\* Steps that neither open nor write a file.
LEMMA FilesUntouched ==
  ASSUME ReportsStay, [Writer!Next]_reportVars, use' = use, report' = report,
         \A u \in Reports : Writer!Opened(u)' => Writer!Opened(u) /\ stage'[u] = stage[u]
  PROVE  Writer!FilesExist' /\ Writer!OneNewReport' /\ Writer!NewReportsIntact'
<1> USE DEF ReportsStay, Writer!ReportsStay
<1>1. \A u \in Reports : /\ Writer!OnDisk(u)' = Writer!OnDisk(u) /\ Writer!IsNew(u)' = Writer!IsNew(u)
                         /\ Writer!Opened(u)' => Writer!Written(u)' = Writer!Written(u)
  BY DEF Writer!OnDisk, Writer!IsNew, Writer!Written
<1>2. Writer!FilesExist' /\ Writer!OneNewReport'
  BY <1>1 DEF Writer!FilesExist, Writer!OneNewReport
<1>3. Writer!NewReportsIntact'
  BY <1>1, OverwritesStay DEF Writer!NewReportsIntact
<1> QED BY <1>2, <1>3

\* Steps of one use that write its file, or open it.
LEMMA FileWritten ==
  ASSUME ReportsStay, [Writer!Next]_reportVars, use' = use, NEW u \in Reports, NEW content,
         report' = [report EXCEPT ![use[u].path] = content], content.exists,
         \A v \in Reports \ {u} : stage'[v] = stage[v] /\ told'[v] = told[v],
         Writer!Opened(u)',
         Writer!IsNew(u) /\ (\A v \in Reports : ~Writer!OverwrittenBy(u, v))
           => content = Writer!Written(u)',
         told'[u] # "denied",
         Writer!Opened(u) \/ (Writer!IsNew(u) => ~Writer!OnDisk(u).exists)
  PROVE  Writer!FilesExist' /\ Writer!OneNewReport' /\ Writer!NewReportsIntact'
<1> USE DEF ReportsStay, Writer!ReportsStay, Writer!TypeOK
<1>1. Writer!OnDisk(u)' = content
  BY DEF Writer!OnDisk
<1>2. \A v \in Reports : use[v].path # use[u].path => Writer!OnDisk(v)' = Writer!OnDisk(v)
  BY DEF Writer!OnDisk
<1>3. \A v \in Reports : use[v].path = use[u].path => Writer!OnDisk(v)' = content
  BY <1>1 DEF Writer!OnDisk
<1>4. \A v \in Reports \ {u} : /\ Writer!Opened(v)' = Writer!Opened(v)
                               /\ Writer!Written(v)' = Writer!Written(v)
  BY DEF Writer!Opened, Writer!Written
<1>5. \A v \in Reports : Writer!IsNew(v)' = Writer!IsNew(v)
  BY DEF Writer!IsNew
<1>6. Writer!FilesExist'
  BY <1>2, <1>3, <1>4 DEF Writer!FilesExist
\* a new report that is opened finds no other user of its path
<1>7. \A v \in Reports \ {u} : use[v].path = use[u].path /\ Writer!Opened(v) /\ Writer!IsNew(v)
                               => ~Writer!IsNew(u)
  BY DEF Writer!FilesExist, Writer!OneNewReport, Writer!OnDisk
<1>8. Writer!OneNewReport'
  BY <1>4, <1>5, <1>7 DEF Writer!OneNewReport
<1>9. Writer!NewReportsIntact'
  <2> SUFFICES ASSUME NEW v \in Reports, Writer!Opened(v)', Writer!IsNew(v),
                      \A w \in Reports : ~Writer!OverwrittenBy(v, w)'
               PROVE  Writer!OnDisk(v)' = Writer!Written(v)'
    BY <1>5 DEF Writer!NewReportsIntact
  <2>1. CASE v = u
    BY <1>1, <2>1, OverwritesStay
  <2>2. CASE v # u /\ use[v].path # use[u].path
    <3>1. \A w \in Reports : ~Writer!OverwrittenBy(v, w)
      BY OverwritesStay
    <3> QED BY <1>2, <1>4, <2>2, <3>1 DEF Writer!NewReportsIntact
  <2>3. CASE v # u /\ use[v].path = use[u].path
    <3>1. ~Writer!IsNew(u)
      BY <1>4, <1>7, <2>3
    <3>2. Writer!OverwrittenBy(v, u)'
      BY <2>3, <3>1 DEF Writer!OverwrittenBy, Writer!IsNew, Writer!Opened
    <3> QED BY <3>2
  <2> QED BY <2>1, <2>2, <2>3
<1> QED BY <1>6, <1>8, <1>9

LEMMA ReportsNext == ReportsStay /\ [Writer!Next]_reportVars => ReportsStay'
<1> SUFFICES ASSUME ReportsStay, [Writer!Next]_reportVars
             PROVE  Writer!TypeOK' /\ Writer!FilesExist' /\ Writer!OneNewReport'
                    /\ Writer!NewReportsIntact' /\ Writer!ToldInStep'
  <2>1. Writer!NewReportsIntact' /\ Writer!ToldInStep'
        => \A u \in Reports :
             told'[u] = "ok" /\ ~use'[u].overwrite /\ (\A v \in Reports : ~Writer!OverwrittenBy(u, v)')
             => Writer!OnDisk(u)' = Writer!Whole(u)
    BY DEF Writer!NewReportsIntact, Writer!ToldInStep, Writer!Opened, Writer!IsNew, Writer!Written,
           Writer!Whole
  <2> QED BY <2>1 DEF ReportsStay, Writer!ReportsStay
<1> USE DEF ReportsStay, Writer!ReportsStay, Writer!TypeOK, Writer!Step, Writer!Tell
<1>1. ASSUME NEW u \in Reports,
             \/ Writer!Permission(u) \/ Writer!Decide(u) \/ Writer!Fail(u) \/ Writer!TimeOut(u)
             \/ Writer!Open(u) /\ Writer!Refuses(u)
      PROVE  Writer!TypeOK' /\ Writer!FilesExist' /\ Writer!OneNewReport'
             /\ Writer!NewReportsIntact' /\ Writer!ToldInStep'
  <2> USE <1>1 DEF Writer!Permission, Writer!Decide, Writer!Fail, Writer!TimeOut, Writer!Open
  <2>1. Writer!TypeOK' /\ use' = use /\ report' = report
    OBVIOUS
  <2>2. Writer!ToldInStep'
    BY DEF Writer!ToldInStep
  <2>3. \A v \in Reports : Writer!Opened(v)' => Writer!Opened(v) /\ stage'[v] = stage[v]
    BY DEF Writer!Opened
  <2> QED BY <2>1, <2>2, <2>3, FilesUntouched
<1>2. ASSUME NEW u \in Reports, Writer!Open(u), ~Writer!Refuses(u)
      PROVE  Writer!TypeOK' /\ Writer!FilesExist' /\ Writer!OneNewReport'
             /\ Writer!NewReportsIntact' /\ Writer!ToldInStep'
  <2>1. /\ stage[u] = "allowed" /\ stage' = [stage EXCEPT ![u] = "opened"] /\ told' = told /\ use' = use
        /\ report' = [report EXCEPT ![use[u].path] = Writer!Empty]
    BY <1>2 DEF Writer!Open, Writer!Put
  <2>2. Writer!TypeOK'
    BY <2>1 DEF Writer!Empty
  <2>3. Writer!ToldInStep' /\ told'[u] # "denied"
    BY <2>1 DEF Writer!ToldInStep
  <2>4. Writer!Opened(u)' /\ Writer!Empty = Writer!Written(u)' /\ Writer!Empty.exists
    BY <2>1 DEF Writer!Opened, Writer!Empty, Writer!Written
  <2>5. Writer!IsNew(u) => ~Writer!OnDisk(u).exists
    BY <1>2 DEF Writer!Refuses, Writer!IsNew
  <2> QED BY <2>1, <2>2, <2>3, <2>4, <2>5, FileWritten
<1>3. ASSUME NEW u \in Reports, Writer!WriteHead(u)
      PROVE  Writer!TypeOK' /\ Writer!FilesExist' /\ Writer!OneNewReport'
             /\ Writer!NewReportsIntact' /\ Writer!ToldInStep'
  <2> DEFINE content == [exists |-> TRUE, head |-> u, tail |-> Writer!OnDisk(u).tail]
  <2>1. /\ stage[u] = "opened" /\ stage' = [stage EXCEPT ![u] = "half"] /\ told' = told /\ use' = use
        /\ report' = [report EXCEPT ![use[u].path] = content]
    BY <1>3 DEF Writer!WriteHead, Writer!Put
  <2>2. Writer!TypeOK' /\ Writer!OnDisk(u) \in [exists : BOOLEAN, head : Reports \cup {NoReport},
                                                tail : Reports \cup {NoReport}]
    BY <2>1 DEF Writer!OnDisk
  <2>3. Writer!ToldInStep' /\ told'[u] # "denied"
    BY <2>1 DEF Writer!ToldInStep
  <2>4. Writer!Opened(u) /\ Writer!Opened(u)' /\ content.exists
    BY <2>1, <2>2 DEF Writer!Opened, Writer!FilesExist
  <2>5. ASSUME Writer!IsNew(u), \A v \in Reports : ~Writer!OverwrittenBy(u, v)
        PROVE  content = Writer!Written(u)'
    <3>1. Writer!OnDisk(u) = [exists |-> TRUE, head |-> NoReport, tail |-> NoReport]
      BY <2>1, <2>4, <2>5 DEF Writer!NewReportsIntact, Writer!Written
    <3>2. content = [exists |-> TRUE, head |-> u, tail |-> NoReport]
      BY <3>1
    <3>3. stage'[u] = "half"
      BY <2>1
    <3> QED BY <3>2, <3>3 DEF Writer!Written
  <2> QED BY <2>1, <2>2, <2>3, <2>4, <2>5, FileWritten
<1>4. ASSUME NEW u \in Reports, Writer!WriteTail(u)
      PROVE  Writer!TypeOK' /\ Writer!FilesExist' /\ Writer!OneNewReport'
             /\ Writer!NewReportsIntact' /\ Writer!ToldInStep'
  <2> DEFINE content == [exists |-> TRUE, head |-> Writer!OnDisk(u).head, tail |-> u]
  <2>1. /\ stage[u] = "half" /\ stage' = [stage EXCEPT ![u] = "closed"] /\ use' = use
        /\ told' = IF told[u] = "none" THEN [told EXCEPT ![u] = "ok"] ELSE told
        /\ report' = [report EXCEPT ![use[u].path] = content]
    BY <1>4 DEF Writer!WriteTail, Writer!Put
  <2>2. Writer!TypeOK' /\ Writer!OnDisk(u) \in [exists : BOOLEAN, head : Reports \cup {NoReport},
                                                tail : Reports \cup {NoReport}]
    BY <2>1 DEF Writer!OnDisk
  <2>3. Writer!ToldInStep' /\ told'[u] # "denied"
    BY <2>1 DEF Writer!ToldInStep
  <2>4. Writer!Opened(u) /\ Writer!Opened(u)' /\ content.exists
    BY <2>1, <2>2 DEF Writer!Opened, Writer!FilesExist
  <2>5. ASSUME Writer!IsNew(u), \A v \in Reports : ~Writer!OverwrittenBy(u, v)
        PROVE  content = Writer!Written(u)'
    <3>1. Writer!OnDisk(u) = [exists |-> TRUE, head |-> u, tail |-> NoReport]
      BY <2>1, <2>4, <2>5 DEF Writer!NewReportsIntact, Writer!Written
    <3>2. content = [exists |-> TRUE, head |-> u, tail |-> u]
      BY <3>1
    <3>3. stage'[u] = "closed"
      BY <2>1
    <3> QED BY <3>2, <3>3 DEF Writer!Written
  <2> QED BY <2>1, <2>2, <2>3, <2>4, <2>5, FileWritten
<1>5. CASE UNCHANGED reportVars
  <2>1. Writer!ToldInStep' /\ Writer!TypeOK'
    BY <1>5 DEF reportVars, Writer!ToldInStep
  <2>2. \A v \in Reports : Writer!Opened(v)' => Writer!Opened(v) /\ stage'[v] = stage[v]
    BY <1>5 DEF reportVars, Writer!Opened
  <2> QED BY <1>5, <2>1, <2>2, FilesUntouched DEF reportVars
<1> QED BY <1>1, <1>2, <1>3, <1>4, <1>5 DEF Writer!Next

\* A new report the agent was told is written stays on disk as it was written until an
\* overwrite that the user approved, for any reports and paths (ArtifactStore.write_text).
THEOREM ReportsAreKept == PartsSpec => []ReportsStay
<1>1. PartsInit => ReportsStay
  BY ReportsInit DEF PartsInit
<1>2. ReportsStay /\ [PartsNext]_partVars => ReportsStay'
  BY ReportsNext DEF PartsNext, ChatMoves, MemoriesMove, DocumentsMove, ReportsMove, partVars
<1> QED BY <1>1, <1>2, PTL DEF PartsSpec

-----------------------------------------------------------------------------
(* MemoryFiles *)

MemoryInv == RevisionsAreAudited /\ PromptIsConsistent

\* The instance has operators of its own for the standard ones.
LEMMA MemorySets ==
  \A S : Memory!Cardinality(S) = Cardinality(S)
  BY DEF Memory!Cardinality, Cardinality

LEMMA MemoryInit == Memory!Init => MemoryInv
<1> SUFFICES ASSUME Memory!Init PROVE MemoryInv
  OBVIOUS
<1>1. Memory!Stored = {}
  BY DEF Memory!Init, Memory!Stored, Memory!Exists, Memory!NoEntry
<1>2. Memory!WithinLimit
  BY <1>1, MemorySets, FS_EmptySet, FilesAssumption DEF Memory!WithinLimit
<1>3. Memory!TypeOK
  <2>1. (CHOOSE n \in Names : TRUE) \in Names
    BY FilesAssumption
  <2> QED BY <2>1, FilesAssumption
        DEF Memory!Init, Memory!TypeOK, Memory!Entries, Memory!NoEntry, Memory!NoRevisions,
            Memory!NoDrafts, Memory!NoPrompt
<1>4. Memory!HistoriesInOrder
  BY DEF Memory!Init, Memory!HistoriesInOrder, Memory!Increasing
<1>5. Memory!UpsertsInStep /\ Memory!IndexFollows /\ Memory!ListedIsReached /\ Memory!PromptIsConsistent
  BY DEF Memory!Init, Memory!UpsertsInStep, Memory!IndexFollows, Memory!ListedIsReached,
         Memory!PromptIsConsistent, Memory!NoPrompt, Memory!NoEntry, Memory!NoRevisions, Memory!Revisions
<1> QED BY <1>2, <1>3, <1>4, <1>5
        DEF MemoryInv, RevisionsAreAudited, Memory!RevisionsAreAudited, PromptIsConsistent

\* A number behind all others keeps a history in order.
LEMMA AppendGreater ==
  ASSUME NEW s \in Seq(Nat), Memory!Increasing(s), NEW k \in Nat, s # <<>> => Memory!Last(s) < k
  PROVE  Memory!Increasing(Append(s, k)) /\ Memory!Last(Append(s, k)) = k
<1>1. \A i \in 1..Len(s) : s[i] <= s[Len(s)]
  BY DEF Memory!Increasing
<1> QED BY <1>1 DEF Memory!Increasing, Memory!Last

\* The parts of the invariant, and that revisions are numbers.
LEMMA MemoryParts ==
  ASSUME MemoryInv
  PROVE  /\ Memory!TypeOK /\ Memory!UpsertsInStep /\ Memory!IndexFollows /\ Memory!ListedIsReached
         /\ Memory!WithinLimit /\ Memory!HistoriesInOrder /\ Memory!PromptIsConsistent
         /\ \A n \in Names : /\ file[n].revision \in Nat /\ file[n].revision <= MaxRevision
                             /\ prompt.listed[n] \in Nat /\ prompt.bodies[n] \in Nat
                             /\ history[n] \in Seq(Nat)
         /\ \A w \in Writers : entry[w].entry.revision \in Nat /\ entry[w].name \in Names
         /\ \A v, w \in Writers : writing[v] # "idle" /\ v # w => writing[w] = "idle"
<1>1. Memory!TypeOK /\ Memory!UpsertsInStep
  BY DEF MemoryInv, RevisionsAreAudited, Memory!RevisionsAreAudited
<1>2. \A n \in Names : /\ file[n].revision \in Nat /\ file[n].revision <= MaxRevision
  BY <1>1, FilesAssumption DEF Memory!TypeOK, Memory!Entries
<1>3. \A n \in Names : prompt.listed[n] \in Nat /\ prompt.bodies[n] \in Nat
  BY <1>1, FilesAssumption DEF Memory!TypeOK
<1>4. \A n \in Names : history[n] \in Seq(Nat)
  BY <1>1, FilesAssumption DEF Memory!TypeOK
<1>5. \A w \in Writers : entry[w].entry.revision \in Nat /\ entry[w].name \in Names
  BY <1>1, FilesAssumption DEF Memory!TypeOK, Memory!Entries
<1>6. \A v, w \in Writers : writing[v] # "idle" /\ v # w => writing[w] = "idle"
  BY <1>1 DEF Memory!UpsertsInStep
<1> QED BY <1>1, <1>2, <1>3, <1>4, <1>5, <1>6
        DEF MemoryInv, RevisionsAreAudited, Memory!RevisionsAreAudited, PromptIsConsistent

\* Steps that leave files and histories alone.
LEMMA FilesKept ==
  ASSUME MemoryInv, file' = file, history' = history
  PROVE  Memory!WithinLimit' /\ Memory!HistoriesInOrder' /\ Memory!Stored' = Memory!Stored
         /\ Memory!Revisions' = Memory!Revisions
         /\ \A n : Memory!Exists(n)' = Memory!Exists(n)
  BY MemoryParts
     DEF Memory!WithinLimit, Memory!HistoriesInOrder, Memory!Stored, Memory!Exists, Memory!Revisions

\* Steps that leave files and prompt alone.
LEMMA PromptKept ==
  ASSUME MemoryInv, file' = file, prompt' = prompt
  PROVE  Memory!ListedIsReached' /\ Memory!PromptIsConsistent'
  BY MemoryParts DEF Memory!ListedIsReached, Memory!PromptIsConsistent

LEMMA MemoryNext == MemoryInv /\ [Memory!Next]_memoryVars => MemoryInv'
<1> SUFFICES ASSUME MemoryInv, [Memory!Next]_memoryVars PROVE MemoryInv'
  OBVIOUS
<1> DEFINE Upserts == Memory!UpsertsInStep' /\ Memory!IndexFollows'
           Prompts == Memory!ListedIsReached' /\ Memory!PromptIsConsistent'
           Files == Memory!WithinLimit' /\ Memory!HistoriesInOrder'
<1> SUFFICES Memory!TypeOK' /\ Upserts /\ Prompts /\ Files
  BY DEF MemoryInv, RevisionsAreAudited, Memory!RevisionsAreAudited, PromptIsConsistent
<1>1. ASSUME NEW w \in Writers, Memory!BeginUpsert(w)
      PROVE  Memory!TypeOK' /\ Upserts /\ Prompts /\ Files
  <2>1. /\ writing' = [writing EXCEPT ![w] = "write"] /\ lock' = w /\ lock = "free"
        /\ UNCHANGED <<file, index, history, last, opened, prompt>> /\ writing[w] = "idle"
    BY <1>1 DEF Memory!BeginUpsert, Memory!Step, Memory!LockFree
  <2>2. PICK n \in Names, content \in {"text", "blank"} :
          /\ Memory!Exists(n) => Memory!Readable(n)
          /\ ~Memory!Exists(n) => Memory!Cardinality(Memory!Stored) < MaxMemories
          /\ file[n].revision < MaxRevision
          /\ entry' = [entry EXCEPT ![w] =
               [name |-> n, entry |-> [revision |-> file[n].revision + 1, content |-> content]]]
    BY <1>1 DEF Memory!BeginUpsert
  <2>3. entry' \in [Writers -> [name : Names, entry : Memory!Entries]]
    <3>1. [revision |-> file[n].revision + 1, content |-> content] \in Memory!Entries
      BY <2>2, MemoryParts, FilesAssumption DEF Memory!Entries
    <3> QED BY <2>2, <3>1, MemoryParts DEF Memory!TypeOK
  <2>4. Memory!TypeOK'
    BY <2>1, <2>3, MemoryParts DEF Memory!TypeOK
  <2>5. \A v \in Writers \ {w} : writing'[v] = "idle"
    BY <2>1, MemoryParts, FilesAssumption DEF Memory!UpsertsInStep, Memory!TypeOK
  <2>6. entry'[w].name = n /\ entry'[w].entry.revision = file[n].revision + 1 /\ writing'[w] = "write"
    BY <2>1, <2>2, MemoryParts DEF Memory!TypeOK
  <2>7. Memory!UpsertsInStep'
    BY <2>1, <2>2, <2>5, <2>6, FilesKept DEF Memory!UpsertsInStep
  <2>8. Memory!IndexFollows'
    BY <2>1, <2>5, <2>6, FilesKept, MemoryParts DEF Memory!IndexFollows, Memory!TypeOK
  <2> QED BY <2>1, <2>4, <2>7, <2>8, FilesKept, PromptKept
<1>2. ASSUME NEW w \in Writers, Memory!WriteEntry(w)
      PROVE  Memory!TypeOK' /\ Upserts /\ Prompts /\ Files
  <2> DEFINE n == entry[w].name
  <2>1. /\ writing[w] = "write" /\ writing' = [writing EXCEPT ![w] = "log"]
        /\ file' = [file EXCEPT ![n] = entry[w].entry] /\ n \in Names
        /\ UNCHANGED <<index, history, lock, entry, last, opened, prompt>>
    BY <1>2, MemoryParts DEF Memory!WriteEntry, Memory!Step
  <2>2. Memory!TypeOK'
    BY <2>1, MemoryParts DEF Memory!TypeOK
  <2>3. /\ entry[w].entry.revision = file[n].revision + 1 /\ lock = w
        /\ ~Memory!Exists(n) => Memory!Cardinality(Memory!Stored) < MaxMemories
    BY <2>1, MemoryParts DEF Memory!UpsertsInStep
  <2>4. /\ file'[n].revision = file[n].revision + 1 /\ file[n].revision \in Nat
        /\ \A m \in Names \ {n} : file'[m] = file[m]
    BY <2>1, <2>3, MemoryParts DEF Memory!TypeOK
  <2>5. \A m \in Names : file[m].revision \in Nat /\ file'[m].revision \in Nat
                         /\ file[m].revision <= file'[m].revision
    BY <2>4, MemoryParts
  <2>6. writing'[w] = "log" /\ \A v \in Writers \ {w} : writing'[v] = "idle"
    BY <2>1, MemoryParts DEF Memory!TypeOK
  <2>7. Memory!UpsertsInStep'
    <3>1. history[n] # <<>> => Memory!Last(history[n]) <= file[n].revision /\ Memory!Last(history[n]) \in Nat
      BY <2>1, MemoryParts DEF Memory!HistoriesInOrder, Memory!Last
    <3>2. Memory!Exists(n)'
      BY <2>1, <2>4 DEF Memory!Exists
    <3>3. history[n] # <<>> => Memory!Last(history[n]) < entry[w].entry.revision
      BY <2>3, <2>4, <3>1
    <3> QED BY <2>1, <2>3, <2>4, <2>6, <3>2, <3>3 DEF Memory!UpsertsInStep
  <2>8. Memory!IndexFollows'
    BY <2>6 DEF Memory!IndexFollows
  <2>9. Prompts
    BY <2>1, <2>5, MemoryParts DEF Memory!ListedIsReached, Memory!PromptIsConsistent
  <2>10. Memory!WithinLimit'
    <3>1. Memory!Stored' = Memory!Stored \cup {n}
      BY <2>1, <2>4 DEF Memory!Stored, Memory!Exists
    <3>2. IsFiniteSet(Memory!Stored)
      BY FS_Subset, FilesAssumption DEF Memory!Stored
    <3>3. Cardinality(Memory!Stored) \in Nat /\ Cardinality(Memory!Stored \cup {n}) =
            IF n \in Memory!Stored THEN Cardinality(Memory!Stored) ELSE Cardinality(Memory!Stored) + 1
      BY <3>2, FS_AddElement, FS_CardinalityType
    <3>4. n \in Memory!Stored <=> Memory!Exists(n)
      BY <2>1 DEF Memory!Stored
    <3>5. Cardinality(Memory!Stored) <= MaxMemories
          /\ (~Memory!Exists(n) => Cardinality(Memory!Stored) < MaxMemories)
      BY <2>3, MemoryParts, MemorySets DEF Memory!WithinLimit
    <3>6. Cardinality(Memory!Stored \cup {n}) <= MaxMemories
      BY <3>3, <3>4, <3>5, FilesAssumption
    <3> QED BY <3>1, <3>6, MemorySets DEF Memory!WithinLimit
  <2>11. Memory!HistoriesInOrder'
    <3> SUFFICES ASSUME NEW m \in Names, history[m] # <<>>
                 PROVE  Memory!Last(history[m]) <= file'[m].revision
      BY <2>1, MemoryParts DEF Memory!HistoriesInOrder
    <3>1. Memory!Last(history[m]) <= file[m].revision /\ Memory!Last(history[m]) \in Nat
      BY MemoryParts DEF Memory!HistoriesInOrder, Memory!Last
    <3> QED BY <2>5, <3>1
  <2> QED BY <2>2, <2>7, <2>8, <2>9, <2>10, <2>11
<1>3. ASSUME NEW w \in Writers, Memory!AppendHistory(w)
      PROVE  Memory!TypeOK' /\ Upserts /\ Prompts /\ Files
  <2> DEFINE n == entry[w].name
             revision == entry[w].entry.revision
  <2>1. /\ writing[w] = "log" /\ writing' = [writing EXCEPT ![w] = "index"] /\ n \in Names
        /\ history' = [history EXCEPT ![n] = Append(@, revision)]
        /\ UNCHANGED <<file, index, lock, entry, last, opened, prompt>>
    BY <1>3, MemoryParts DEF Memory!AppendHistory, Memory!Step
  <2>2. /\ Memory!Exists(n) /\ revision = file[n].revision /\ lock = w
        /\ history[n] # <<>> => Memory!Last(history[n]) < revision
    BY <2>1, MemoryParts DEF Memory!UpsertsInStep
  <2>3. revision \in 1..MaxRevision /\ revision \in Nat
    BY <2>1, <2>2, MemoryParts, FilesAssumption DEF Memory!Exists
  <2>4. Memory!TypeOK'
    <3>1. history[n] \in Seq(1..MaxRevision)
      BY <2>1, MemoryParts DEF Memory!TypeOK
    <3>2. Append(history[n], revision) \in Seq(1..MaxRevision)
      BY <2>3, <3>1
    <3> QED BY <2>1, <3>2, MemoryParts DEF Memory!TypeOK
  <2>5. writing'[w] = "index" /\ \A v \in Writers \ {w} : writing'[v] = "idle"
    BY <2>1, MemoryParts DEF Memory!TypeOK
  <2>6. Upserts
    BY <2>1, <2>2, <2>5 DEF Memory!UpsertsInStep, Memory!IndexFollows
  <2>7. Memory!WithinLimit'
    BY <2>1, MemoryParts DEF Memory!WithinLimit, Memory!Stored, Memory!Exists
  <2>8. Memory!HistoriesInOrder'
    <3>1. Memory!Increasing(Append(history[n], revision))
          /\ Memory!Last(Append(history[n], revision)) = revision
      BY <2>1, <2>2, <2>3, AppendGreater, MemoryParts DEF Memory!HistoriesInOrder
    <3>2. history'[n] = Append(history[n], revision) /\ \A m \in Names \ {n} : history'[m] = history[m]
      BY <2>1, MemoryParts DEF Memory!TypeOK
    <3>3. revision <= file'[n].revision
      BY <2>1, <2>2, <2>3
    <3> QED BY <2>1, <3>1, <3>2, <3>3, MemoryParts DEF Memory!HistoriesInOrder
  <2> QED BY <2>1, <2>4, <2>6, <2>7, <2>8, PromptKept
\* An upsert ends: its index is written, or nothing behind its entry is promised.
<1>4. ASSUME NEW w \in Writers, Memory!RebuildIndex(w) \/ Memory!WriteFails(w)
      PROVE  Memory!TypeOK' /\ Upserts /\ Prompts /\ Files
  <2>1. /\ writing[w] \in {"write", "log", "index"} /\ writing' = [writing EXCEPT ![w] = "idle"]
        /\ lock' = "free" /\ entry' = [entry EXCEPT ![w] = Memory!NoDrafts[w]]
        /\ UNCHANGED <<file, history, opened, prompt>>
    BY <1>4 DEF Memory!RebuildIndex, Memory!WriteFails, Memory!Step, Memory!Leave
  <2>2. \/ index' = Memory!Revisions /\ last' = "ok"
        \/ index' = index /\ last' = "raised"
        \/ index' = index /\ last' = last /\ writing[w] = "write"
    BY <1>4 DEF Memory!RebuildIndex, Memory!WriteFails, Memory!RebuiltIndex
  <2>3. Memory!TypeOK'
    <3>1. Memory!NoDrafts[w] \in [name : Names, entry : Memory!Entries]
      <4>1. (CHOOSE n \in Names : TRUE) \in Names
        BY FilesAssumption
      <4> QED BY <4>1, FilesAssumption DEF Memory!NoDrafts, Memory!NoEntry, Memory!Entries
    <3>2. Memory!Revisions \in [Names -> 0..MaxRevision]
      BY MemoryParts, FilesAssumption DEF Memory!Revisions
    <3> QED BY <2>1, <2>2, <3>1, <3>2, MemoryParts DEF Memory!TypeOK
  <2>4. \A v \in Writers : writing'[v] = "idle"
    BY <2>1, MemoryParts DEF Memory!TypeOK
  <2>5. Memory!UpsertsInStep'
    BY <2>4 DEF Memory!UpsertsInStep
  <2>6. Memory!IndexFollows'
    BY <2>1, <2>2, FilesKept, MemoryParts DEF Memory!IndexFollows
  <2> QED BY <2>1, <2>3, <2>5, <2>6, FilesKept, PromptKept
<1>5. CASE Memory!ListIndex
  <2>1. /\ prompt' = [stage |-> "listed", listed |-> Memory!Revisions, bodies |-> Memory!NoRevisions]
        /\ UNCHANGED <<file, index, history, lock, writing, entry, last, opened>>
    BY <1>5 DEF Memory!ListIndex
  <2>2. Memory!Revisions \in [Names -> 0..MaxRevision] /\ Memory!NoRevisions \in [Names -> 0..MaxRevision]
    BY MemoryParts, FilesAssumption DEF Memory!Revisions, Memory!NoRevisions
  <2>3. Memory!TypeOK'
    BY <2>1, <2>2, MemoryParts DEF Memory!TypeOK
  <2>4. Prompts
    BY <2>1, MemoryParts DEF Memory!ListedIsReached, Memory!PromptIsConsistent, Memory!Revisions
  <2>5. Upserts
    BY <2>1, FilesKept, MemoryParts DEF Memory!UpsertsInStep, Memory!IndexFollows
  <2> QED BY <2>1, <2>3, <2>4, <2>5, FilesKept
<1>6. CASE Memory!Search
  <2>1. /\ prompt' = [prompt EXCEPT !.stage = "built", !.bodies = Memory!Revisions]
        /\ prompt.stage = "listed"
        /\ UNCHANGED <<file, index, history, lock, writing, entry, last, opened>>
    BY <1>6 DEF Memory!Search, Memory!Found
  <2>2. Memory!Revisions \in [Names -> 0..MaxRevision]
    BY MemoryParts, FilesAssumption DEF Memory!Revisions
  <2>3. Memory!TypeOK'
    BY <2>1, <2>2, MemoryParts DEF Memory!TypeOK
  <2>4. prompt'.stage = "built" /\ prompt'.bodies = Memory!Revisions /\ prompt'.listed = prompt.listed
    BY <2>1, MemoryParts DEF Memory!TypeOK
  <2>5. Prompts
    BY <2>1, <2>4, MemoryParts DEF Memory!ListedIsReached, Memory!PromptIsConsistent, Memory!Revisions
  <2>6. Upserts
    BY <2>1, FilesKept, MemoryParts DEF Memory!UpsertsInStep, Memory!IndexFollows
  <2> QED BY <2>1, <2>3, <2>5, <2>6, FilesKept
<1>7. CASE Memory!Crash
  <2>1. /\ opened' = FALSE /\ lock' = "free" /\ writing' = [w \in Writers |-> "idle"]
        /\ entry' = Memory!NoDrafts /\ prompt' = Memory!NoPrompt /\ last' \in {last, "raised"}
        /\ UNCHANGED <<file, index, history>>
    BY <1>7 DEF Memory!Crash
  <2>2. Memory!TypeOK'
    <3>1. (CHOOSE n \in Names : TRUE) \in Names
      BY FilesAssumption
    <3>2. Memory!NoDrafts \in [Writers -> [name : Names, entry : Memory!Entries]]
      BY <3>1, FilesAssumption DEF Memory!NoDrafts, Memory!NoEntry, Memory!Entries
    <3>3. Memory!NoPrompt \in [stage : {"none", "listed", "built"},
              listed : [Names -> 0..MaxRevision], bodies : [Names -> 0..MaxRevision]]
      BY FilesAssumption DEF Memory!NoPrompt, Memory!NoRevisions
    <3> QED BY <2>1, <3>2, <3>3, MemoryParts DEF Memory!TypeOK
  <2>3. Upserts
    BY <2>1 DEF Memory!UpsertsInStep, Memory!IndexFollows
  <2>4. Prompts
    BY <2>1 DEF Memory!ListedIsReached, Memory!PromptIsConsistent, Memory!NoPrompt
  <2> QED BY <2>1, <2>2, <2>3, <2>4, FilesKept
<1>8. CASE Memory!Restart
  <2>1. /\ opened' = TRUE /\ index' = Memory!Revisions /\ last' = "ok"
        /\ UNCHANGED <<file, history, lock, writing, entry, prompt>>
    BY <1>8 DEF Memory!Restart
  <2>2. Memory!Revisions \in [Names -> 0..MaxRevision]
    BY MemoryParts, FilesAssumption DEF Memory!Revisions
  <2>3. Memory!TypeOK'
    BY <2>1, <2>2, MemoryParts DEF Memory!TypeOK
  <2>4. Upserts
    BY <2>1, FilesKept, MemoryParts DEF Memory!UpsertsInStep, Memory!IndexFollows
  <2> QED BY <2>1, <2>3, <2>4, FilesKept, PromptKept
<1>9. CASE UNCHANGED memoryVars
  <2>1. UNCHANGED <<file, index, history, lock, writing, entry, last, opened, prompt>>
    BY <1>9 DEF memoryVars
  <2>2. Memory!TypeOK'
    BY <2>1, MemoryParts DEF Memory!TypeOK
  <2>3. Upserts
    BY <2>1, FilesKept, MemoryParts DEF Memory!UpsertsInStep, Memory!IndexFollows
  <2> QED BY <2>1, <2>2, <2>3, FilesKept, PromptKept
<1> QED BY <1>1, <1>2, <1>3, <1>4, <1>5, <1>6, <1>7, <1>8, <1>9 DEF Memory!Next, Memory!UpsertStep

LEMMA MemoryIsKept == PartsSpec => []MemoryInv
<1>1. PartsInit => MemoryInv
  BY MemoryInit DEF PartsInit
<1>2. MemoryInv /\ [PartsNext]_partVars => MemoryInv'
  BY MemoryNext DEF PartsNext, ChatMoves, MemoriesMove, DocumentsMove, ReportsMove, partVars
<1> QED BY <1>1, <1>2, PTL DEF PartsSpec

\* The revisions in a memory's audit history are strictly increasing and reached by the
\* file, and the memories stay within their limit, for any names, writers and limits
\* (FileMemoryStore.upsert).
THEOREM HistoriesAreAudited == PartsSpec => []RevisionsAreAudited
BY MemoryIsKept, PTL DEF MemoryInv

\* Outside an upsert the index file names every current revision, unless the last upsert
\* raised (FileMemoryStore._rebuild_index).
THEOREM IndexIsUpToDate == PartsSpec => []IndexIsCurrent
<1>1. MemoryInv => IndexIsCurrent
  <2> SUFFICES ASSUME MemoryInv, opened, lock = "free", last # "raised"
               PROVE  index = Memory!Revisions
    BY DEF IndexIsCurrent, Memory!IndexIsCurrent
  <2>1. \A w \in Writers : writing[w] = "idle"
    BY MemoryParts, FilesAssumption DEF Memory!UpsertsInStep
  <2> QED BY <2>1, MemoryParts DEF Memory!IndexFollows
<1> QED BY <1>1, MemoryIsKept, PTL

\* The bodies put into a prompt are never older than the index in front of them
\* (MemoryPromptProvider.provide).
THEOREM PromptsAreConsistent == PartsSpec => []PromptIsConsistent
BY MemoryIsKept, PTL DEF MemoryInv

-----------------------------------------------------------------------------
(* DocumentIndex *)

DocsInv == IndexMatchesManifest /\ IndexedStaysVisible

Models == {modelOf[i] : i \in Indexers}

LEMMA NamesApart ==
  /\ Absent \notin Documents /\ Absent \notin Index!Versions
  /\ Index!NoRow \notin Index!Rows
  BY FilesAssumption DEF Index!Versions, Index!Rows, Index!NoRow

LEMMA DocsParts ==
  ASSUME DocsInv
  PROVE  /\ Index!TypeOK /\ Index!OneModel /\ Index!OneRun /\ Index!CleanDocuments
         /\ \A d \in Documents : manifest[d] # Index!NoRow => \E c \in chunks : c.document = d
         /\ \A i \in Indexers : /\ Index!Working(i) => Index!InStep(i)
                                /\ ~Index!Working(i) => run[i].now = Index!NoDocument
  BY DEF DocsInv, IndexMatchesManifest, Index!IndexMatchesManifest, Index!RunsInStep,
         IndexedStaysVisible, Index!IndexedStaysVisible, Index!Searchable

LEMMA DocsInit == Index!Init => DocsInv
<1> SUFFICES ASSUME Index!Init PROVE DocsInv
  OBVIOUS
<1>1. Index!TypeOK
  BY DEF Index!Init, Index!TypeOK, Index!Idle, Index!NoDocument
<1>2. Index!OneModel /\ Index!OneRun /\ Index!CleanDocuments
  BY DEF Index!Init, Index!OneModel, Index!OneRun, Index!CleanDocuments, Index!Idle,
         Index!ChunksOf, Index!Described
<1>3. \A d \in Documents : manifest[d] = Index!NoRow
  BY DEF Index!Init
<1>4. \A i \in Indexers : ~Index!Working(i) /\ run[i].now = Index!NoDocument
  BY DEF Index!Init, Index!Working, Index!Idle
<1>5. Index!RunsInStep
  BY <1>2, <1>4 DEF Index!RunsInStep
<1>6. Index!IndexedStaysVisible
  BY <1>3 DEF Index!IndexedStaysVisible
<1> QED BY <1>1, <1>2, <1>5, <1>6
        DEF DocsInv, IndexMatchesManifest, Index!IndexMatchesManifest, IndexedStaysVisible

\* While an indexer is at work the others are not.
LEMMA AloneAtWork ==
  ASSUME DocsInv, NEW i \in Indexers, run[i].stage # "idle"
  PROVE  \A j \in Indexers \ {i} : /\ run[j].stage = "idle" /\ ~Index!Working(j)
                                   /\ run[j].now = Index!NoDocument
  BY DocsParts DEF Index!OneRun, Index!Working

LEMMA OthersAreClean ==
  ASSUME DocsInv, NEW i \in Indexers, \A j \in Indexers \ {i} : run[j].stage = "idle"
  PROVE  \A e \in Documents \ torn :
           e # run[i].now.document => Index!ChunksOf(e) = Index!Described(e)
  BY DocsParts, NamesApart
     DEF Index!CleanDocuments, Index!Replacing, Index!Working, Index!NoDocument

\* What a step of one indexer has to keep.
LEMMA DocsStep ==
  ASSUME DocsInv, NEW i \in Indexers, Index!TypeOK',
         \A j \in Indexers \ {i} : run[j].stage = "idle" /\ run'[j] = run[j],
         \A d, e \in Documents :
           manifest'[d] # Index!NoRow /\ manifest'[e] # Index!NoRow => manifest'[d].model = manifest'[e].model,
         \A d \in Documents \ torn' :
           d # run'[i].now.document => Index!ChunksOf(d)' = Index!Described(d)',
         \A d \in Documents : manifest'[d] # Index!NoRow => \E c \in chunks' : c.document = d,
         Index!Working(i)' => Index!InStep(i)',
         ~Index!Working(i)' => run'[i].now = Index!NoDocument
  PROVE  DocsInv'
<1>1. Index!OneModel'
  BY DEF Index!OneModel
<1>2. Index!OneRun'
  BY DEF Index!OneRun
<1>3. Index!CleanDocuments'
  BY DEF Index!CleanDocuments, Index!Replacing
<1>4. ASSUME NEW j \in Indexers
      PROVE  /\ Index!Working(j)' => Index!InStep(j)'
             /\ ~Index!Working(j)' => run'[j].now = Index!NoDocument
  BY DocsParts DEF Index!Working
<1>5. Index!RunsInStep'
  BY <1>2, <1>4 DEF Index!RunsInStep
<1>6. Index!IndexedStaysVisible'
  BY DEF Index!IndexedStaysVisible, Index!Searchable
<1> QED BY <1>1, <1>3, <1>5, <1>6
        DEF DocsInv, IndexMatchesManifest, Index!IndexMatchesManifest, IndexedStaysVisible

\* An indexer goes on with the same document.
LEMMA GotoEffect ==
  ASSUME Index!TypeOK, NEW i \in Indexers, NEW next \in {"add", "delete", "mark"}, Index!Goto(i, next)
  PROVE  /\ \A j \in Indexers \ {i} : run'[j] = run[j]
         /\ run'[i].stage = next /\ run'[i].loaded = run[i].loaded /\ run'[i].now = run[i].now
         /\ run' \in [Indexers ->
              [stage : {"idle", "next", "add", "delete", "mark"},
               loaded : [Documents -> Index!Versions \cup {Absent}], rebuild : BOOLEAN,
               now : [document : Documents \cup {Absent}, previous : Index!Versions \cup {Absent}]]]
  BY DEF Index!TypeOK, Index!Goto

\* An indexer is done with a document.
LEMMA FinishEffect ==
  ASSUME Index!TypeOK, NEW i \in Indexers, NEW d \in Documents, Index!Finish(i, d)
  PROVE  /\ \A j \in Indexers \ {i} : run'[j] = run[j]
         /\ run'[i].stage = "next" /\ run'[i].now = Index!NoDocument
         /\ run' \in [Indexers ->
              [stage : {"idle", "next", "add", "delete", "mark"},
               loaded : [Documents -> Index!Versions \cup {Absent}], rebuild : BOOLEAN,
               now : [document : Documents \cup {Absent}, previous : Index!Versions \cup {Absent}]]]
<1>1. Index!NoDocument \in [document : Documents \cup {Absent}, previous : Index!Versions \cup {Absent}]
  BY DEF Index!NoDocument
<1>2. [run[i].loaded EXCEPT ![d] = Absent] \in [Documents -> Index!Versions \cup {Absent}]
  BY DEF Index!TypeOK
<1>3. run' = [run EXCEPT ![i] = [run[i] EXCEPT !.stage = "next",
                   !.loaded = [run[i].loaded EXCEPT ![d] = Absent], !.now = Index!NoDocument]]
  BY DEF Index!Finish
<1>4. run[i] \in [stage : {"idle", "next", "add", "delete", "mark"},
               loaded : [Documents -> Index!Versions \cup {Absent}], rebuild : BOOLEAN,
               now : [document : Documents \cup {Absent}, previous : Index!Versions \cup {Absent}]]
  BY DEF Index!TypeOK
<1> DEFINE after == [run[i] EXCEPT !.stage = "next",
                   !.loaded = [run[i].loaded EXCEPT ![d] = Absent], !.now = Index!NoDocument]
<1>5. after.stage = "next" /\ after.now = Index!NoDocument /\ after \in [stage : {"idle", "next", "add", "delete", "mark"},
               loaded : [Documents -> Index!Versions \cup {Absent}], rebuild : BOOLEAN,
               now : [document : Documents \cup {Absent}, previous : Index!Versions \cup {Absent}]]
  BY <1>1, <1>2, <1>4
<1> HIDE DEF after
<1> QED BY <1>3, <1>5 DEF Index!TypeOK

\* The document an indexer works on, and the version it has read.
LEMMA AtWork ==
  ASSUME DocsInv, NEW i \in Indexers, Index!Working(i)
  PROVE  /\ run[i].now.document \in Documents /\ Index!Loaded(i) \in Index!Versions
         /\ modelOf[i] \in Models /\ run[i].stage # "idle" /\ Index!InStep(i)
         /\ Index!New(i) \in [document : Documents, version : Index!Versions, model : Models]
         /\ Index!Row(i, run[i].now.document) \in Index!Rows
<1> DEFINE d == run[i].now.document
<1>1. Index!InStep(i) /\ run[i].stage # "idle" /\ d \in Documents /\ run[i].loaded[d] # Absent
  BY DocsParts DEF Index!InStep, Index!ToDo, Index!Working
<1>2. run[i].loaded[d] \in Index!Versions
  BY <1>1, DocsParts DEF Index!TypeOK
<1>3. modelOf[i] \in Models
  BY DEF Models
<1> QED BY <1>1, <1>2, <1>3 DEF Index!Loaded, Index!New, Index!Row, Index!Rows, Models

LEMMA AddChunksInv ==
  ASSUME DocsInv, NEW i \in Indexers, Index!AddChunks(i)
  PROVE  DocsInv'
<1> DEFINE d == run[i].now.document
<1>1. /\ run[i].stage = "add" /\ Index!Working(i) /\ Index!Goto(i, "delete")
      /\ chunks' = (chunks \ Index!VersionChunks(d, Index!Loaded(i))) \cup {Index!New(i)}
      /\ UNCHANGED <<source, manifest, torn>>
  BY DEF Index!AddChunks, Index!Working, Index!New
<1>2. /\ \A j \in Indexers \ {i} : run'[j] = run[j]
      /\ run'[i].stage = "delete" /\ run'[i].loaded = run[i].loaded /\ run'[i].now = run[i].now
  BY <1>1, GotoEffect, DocsParts
<1>3. Index!TypeOK'
  BY <1>1, AtWork, GotoEffect, DocsParts DEF Index!TypeOK, Models
<1>4. /\ Index!New(i)' = Index!New(i) /\ Index!Loaded(i)' = Index!Loaded(i)
      /\ \A e : Index!Described(e)' = Index!Described(e)
      /\ Index!New(i).document = d /\ Index!New(i).version = Index!Loaded(i)
  BY <1>1, <1>2 DEF Index!New, Index!Loaded, Index!Described
<1>5. \A e \in Documents : e # d => Index!ChunksOf(e)' = Index!ChunksOf(e)
  BY <1>1, <1>4 DEF Index!ChunksOf, Index!VersionChunks
<1>6. Index!ChunksOf(d)' = {c \in Index!ChunksOf(d) : c.version # Index!Loaded(i)} \cup {Index!New(i)}
  BY <1>1, <1>2, <1>4 DEF Index!ChunksOf, Index!VersionChunks
<1>7. Index!InStep(i)'
  <2>1. Index!InStep(i)
    BY <1>1, AtWork
  <2>2. d \in Index!ToDo(i)'
    BY <1>2, <2>1 DEF Index!InStep, Index!ToDo
  <2>3. Index!New(i)' \in chunks'
    BY <1>1, <1>4
  <2>4. d \notin torn => Index!ChunksOf(d) = Index!Described(d)
    BY <1>1, <2>1 DEF Index!InStep
  <2>5. d \notin torn => Index!ChunksOf(d)' =
          {c \in Index!Described(d) : c.version # Index!Loaded(i)} \cup {Index!New(i)}
    BY <1>6, <2>4
  <2> QED BY <1>1, <1>2, <1>4, <2>1, <2>2, <2>3, <2>5 DEF Index!InStep
<1>8. \A e \in Documents : manifest'[e] # Index!NoRow => \E c \in chunks' : c.document = e
  <2> SUFFICES ASSUME NEW e \in Documents, manifest[e] # Index!NoRow
               PROVE  \E c \in chunks' : c.document = e
    BY <1>1
  <2>1. CASE e = d
    BY <1>1, <1>4, <2>1
  <2>2. CASE e # d
    BY <1>5, <2>2, DocsParts DEF Index!ChunksOf
  <2> QED BY <2>1, <2>2
<1>9. \A e \in Documents \ torn' : e # run'[i].now.document => Index!ChunksOf(e)' = Index!Described(e)'
  BY <1>1, <1>2, <1>4, <1>5, AloneAtWork, OthersAreClean
<1>10. Index!Working(i)'
  BY <1>2 DEF Index!Working
<1> QED BY <1>1, <1>2, <1>3, <1>7, <1>8, <1>9, <1>10, AloneAtWork, DocsStep, DocsParts
        DEF Index!OneModel

LEMMA DeleteOldInv ==
  ASSUME DocsInv, NEW i \in Indexers, Index!DeleteOld(i)
  PROVE  DocsInv'
<1> DEFINE d == run[i].now.document
<1>1. /\ run[i].stage = "delete" /\ Index!Working(i) /\ Index!Goto(i, "mark")
      /\ chunks' = chunks \ Index!Replaced(i)
      /\ UNCHANGED <<source, manifest, torn>>
  BY DEF Index!DeleteOld, Index!Working
<1>2. /\ \A j \in Indexers \ {i} : run'[j] = run[j]
      /\ run'[i].stage = "mark" /\ run'[i].loaded = run[i].loaded /\ run'[i].now = run[i].now
  BY <1>1, GotoEffect, DocsParts
<1>3. Index!TypeOK'
  BY <1>1, GotoEffect, DocsParts DEF Index!TypeOK
<1>4. /\ Index!New(i)' = Index!New(i) /\ Index!Loaded(i)' = Index!Loaded(i)
      /\ \A e : Index!Described(e)' = Index!Described(e)
      /\ Index!New(i).document = d /\ Index!New(i).version = Index!Loaded(i)
  BY <1>1, <1>2 DEF Index!New, Index!Loaded, Index!Described
<1>5. /\ Index!InStep(i) /\ Index!New(i) \in chunks /\ run[i].now.previous = manifest[d].version
      /\ d \notin torn => Index!ChunksOf(d) =
           {c \in Index!Described(d) : c.version # Index!Loaded(i)} \cup {Index!New(i)}
  <2>1. Index!InStep(i)
    BY <1>1, AtWork
  <2> QED BY <1>1, <2>1 DEF Index!InStep
\* the new chunks are not among those deleted
<1>6. Index!New(i) \in chunks'
  BY <1>1, <1>4, <1>5 DEF Index!Replaced, Index!VersionChunks
<1>7. \A e \in Documents : e # d => Index!ChunksOf(e)' = Index!ChunksOf(e)
  BY <1>1 DEF Index!ChunksOf, Index!Replaced, Index!VersionChunks
<1>8. d \notin torn => Index!ChunksOf(d)' = {Index!New(i)}
  <2> SUFFICES ASSUME d \notin torn PROVE Index!ChunksOf(d)' = {Index!New(i)}
    OBVIOUS
  <2>1. \A c \in Index!Described(d) : c.version = run[i].now.previous
    BY <1>5 DEF Index!Described
  <2>2. Index!ChunksOf(d)' = Index!ChunksOf(d) \ Index!Replaced(i)
    BY <1>1, <1>2 DEF Index!ChunksOf
  <2>3. CASE run[i].now.previous = Index!Loaded(i)
    BY <1>5, <2>1, <2>2, <2>3 DEF Index!Replaced
  <2>4. CASE run[i].now.previous # Index!Loaded(i)
    <3>1. Index!ChunksOf(d) \ Index!Replaced(i) = {c \in Index!ChunksOf(d) : c.version # run[i].now.previous}
      BY <2>4 DEF Index!Replaced, Index!VersionChunks, Index!ChunksOf
    <3> QED BY <1>4, <1>5, <2>1, <2>2, <2>4, <3>1
  <2> QED BY <2>3, <2>4
<1>9. Index!InStep(i)'
  <2>1. d \in Index!ToDo(i)'
    BY <1>2, <1>5 DEF Index!InStep, Index!ToDo
  <2> QED BY <1>1, <1>2, <1>4, <1>5, <1>6, <1>8, <2>1 DEF Index!InStep
<1>10. \A e \in Documents : manifest'[e] # Index!NoRow => \E c \in chunks' : c.document = e
  <2> SUFFICES ASSUME NEW e \in Documents, manifest[e] # Index!NoRow
               PROVE  \E c \in chunks' : c.document = e
    BY <1>1
  <2>1. CASE e = d
    BY <1>4, <1>6, <2>1
  <2>2. CASE e # d
    BY <1>7, <2>2, DocsParts DEF Index!ChunksOf
  <2> QED BY <2>1, <2>2
<1>11. \A e \in Documents \ torn' : e # run'[i].now.document => Index!ChunksOf(e)' = Index!Described(e)'
  BY <1>1, <1>2, <1>4, <1>7, AloneAtWork, OthersAreClean
<1>12. Index!Working(i)'
  BY <1>2 DEF Index!Working
<1> QED BY <1>1, <1>2, <1>3, <1>9, <1>10, <1>11, <1>12, AloneAtWork, DocsStep, DocsParts
        DEF Index!OneModel

\* The document of an indexer at work, as a name that its steps leave alone.
LEMMA Document ==
  ASSUME DocsInv, NEW i \in Indexers, Index!Working(i)
  PROVE  \E d \in Documents : d = run[i].now.document
  BY AtWork

LEMMA MarkInv ==
  ASSUME DocsInv, NEW i \in Indexers, Index!Mark(i)
  PROVE  DocsInv'
<1>0. Index!Working(i) /\ run[i].stage = "mark"
  BY DEF Index!Mark, Index!Working
<1> PICK d \in Documents : d = run[i].now.document
  BY <1>0, Document
<1>1. /\ Index!Finish(i, d)
      /\ manifest' = [manifest EXCEPT ![d] = Index!Row(i, d)]
      /\ UNCHANGED <<source, chunks, torn>>
  BY DEF Index!Mark
<1>2. Index!Row(i, d) \in Index!Rows /\ run[i].stage # "idle"
  BY <1>0, AtWork
<1>3. /\ \A j \in Indexers \ {i} : run'[j] = run[j]
      /\ run'[i].stage = "next" /\ run'[i].now = Index!NoDocument
  BY <1>1, <1>2, FinishEffect, DocsParts
<1>4. Index!TypeOK'
  BY <1>1, <1>2, FinishEffect, DocsParts DEF Index!TypeOK
<1>5. /\ Index!New(i) \in chunks /\ (d \notin torn => Index!ChunksOf(d) = {Index!New(i)})
      /\ \A e \in Documents : manifest[e] # Index!NoRow => manifest[e].model = modelOf[i]
  <2>1. Index!InStep(i)
    BY <1>0, AtWork
  <2> QED BY <1>0, <2>1 DEF Index!InStep
<1>6. manifest'[d] = Index!Row(i, d) /\ \A e \in Documents : e # d => manifest'[e] = manifest[e]
  BY <1>1, <1>2, DocsParts DEF Index!TypeOK
<1>7. \A e \in Documents : Index!ChunksOf(e)' = Index!ChunksOf(e)
  BY <1>1 DEF Index!ChunksOf
<1>8. Index!Described(d)' = {Index!New(i)}
  <2>1. manifest'[d] # Index!NoRow
    BY <1>2, <1>6, NamesApart
  <2>2. manifest'[d].version = Index!Loaded(i) /\ manifest'[d].model = modelOf[i]
    BY <1>6 DEF Index!Row, Index!Loaded
  <2> QED BY <2>1, <2>2 DEF Index!New, Index!Described
<1>9. \A e \in Documents : e # d => Index!Described(e)' = Index!Described(e)
  BY <1>6 DEF Index!Described
<1>10. \A e \in Documents : manifest'[e] # Index!NoRow => manifest'[e].model = modelOf[i]
  BY <1>5, <1>6 DEF Index!Row
<1>11. \A e \in Documents : manifest'[e] # Index!NoRow => \E c \in chunks' : c.document = e
  <2> SUFFICES ASSUME NEW e \in Documents, manifest'[e] # Index!NoRow
               PROVE  \E c \in chunks : c.document = e
    BY <1>1
  <2>1. CASE e = d
    BY <1>5, <2>1 DEF Index!New
  <2>2. CASE e # d
    BY <1>6, <2>2, DocsParts
  <2> QED BY <2>1, <2>2
<1>12. \A e \in Documents \ torn' : Index!ChunksOf(e)' = Index!Described(e)'
  BY <1>1, <1>2, <1>5, <1>7, <1>8, <1>9, AloneAtWork, OthersAreClean
<1>13. ~Index!Working(i)'
  BY <1>3 DEF Index!Working
<1> QED BY <1>2, <1>3, <1>4, <1>10, <1>11, <1>12, <1>13, AloneAtWork, DocsStep

\* An indexer gives a document up, or dies: what it has written stays, and the document
\* is torn if that is something.
LEMMA BrokenOff ==
  ASSUME DocsInv, NEW i \in Indexers, run[i].stage # "idle", Index!TypeOK',
         \A j \in Indexers \ {i} : run'[j] = run[j],
         run'[i].stage \in {"idle", "next"}, run'[i].now = Index!NoDocument,
         Index!Breaks(i), UNCHANGED <<source, chunks, manifest>>
  PROVE  DocsInv'
<1>1. \A e \in Documents : /\ Index!ChunksOf(e)' = Index!ChunksOf(e)
                           /\ Index!Described(e)' = Index!Described(e)
  BY DEF Index!ChunksOf, Index!Described
<1>2. \A e \in Documents \ torn' : Index!ChunksOf(e) = Index!Described(e)
  <2> SUFFICES ASSUME NEW e \in Documents, e \notin torn'
               PROVE  Index!ChunksOf(e) = Index!Described(e)
    OBVIOUS
  <2>1. e \notin torn
    BY DEF Index!Breaks
  <2>2. CASE e # run[i].now.document
    BY <2>1, <2>2, AloneAtWork, OthersAreClean
  <2>3. CASE e = run[i].now.document
    <3>1. Index!Working(i)
      BY <2>3, DocsParts, NamesApart DEF Index!NoDocument
    <3>2. run[i].stage = "add"
      BY <2>3, <3>1 DEF Index!Breaks, Index!Working
    <3> QED BY <2>1, <2>3, <3>1, <3>2, AtWork DEF Index!InStep
  <2> QED BY <2>2, <2>3
<1>3. ~Index!Working(i)'
  BY DEF Index!Working
<1> QED BY <1>1, <1>2, <1>3, AloneAtWork, DocsStep, DocsParts DEF Index!OneModel

LEMMA ConsiderInv ==
  ASSUME DocsInv, NEW i \in Indexers, Index!Consider(i)
  PROVE  DocsInv'
<1>1. run[i].stage = "next" /\ UNCHANGED <<source, chunks, manifest, torn>>
  BY DEF Index!Consider
<1>2. PICK d \in Index!ToDo(i) :
        \/ Index!Finish(i, d)
        \/ /\ Index!Compatible(i)
           /\ run' = [run EXCEPT ![i] = [@ EXCEPT !.stage = "add",
                        !.now = [document |-> d, previous |-> manifest[d].version]]]
  BY DEF Index!Consider
<1>3. d \in Documents /\ run[i].loaded[d] # Absent
  BY DEF Index!ToDo
<1>4. CASE Index!Finish(i, d)
  <2>1. /\ \A j \in Indexers \ {i} : run'[j] = run[j]
        /\ run'[i].stage = "next" /\ run'[i].now = Index!NoDocument
    BY <1>3, <1>4, FinishEffect, DocsParts
  <2>2. Index!TypeOK'
    BY <1>1, <1>3, <1>4, FinishEffect, DocsParts DEF Index!TypeOK
  <2>3. Index!Breaks(i)
    BY <1>1 DEF Index!Breaks
  <2> QED BY <1>1, <2>1, <2>2, <2>3, BrokenOff
<1>5. CASE /\ Index!Compatible(i)
           /\ run' = [run EXCEPT ![i] = [@ EXCEPT !.stage = "add",
                        !.now = [document |-> d, previous |-> manifest[d].version]]]
  <2>1. manifest[d].version \in Index!Versions \cup {Absent}
    BY <1>3, DocsParts DEF Index!TypeOK, Index!Rows, Index!NoRow
  <2>2. [document |-> d, previous |-> manifest[d].version] \in
          [document : Documents \cup {Absent}, previous : Index!Versions \cup {Absent}]
    BY <1>3, <2>1
  <2>3. /\ \A j \in Indexers \ {i} : run'[j] = run[j]
        /\ run'[i].stage = "add" /\ run'[i].loaded = run[i].loaded
        /\ run'[i].now = [document |-> d, previous |-> manifest[d].version]
    BY <1>5, DocsParts DEF Index!TypeOK
  <2>4. Index!TypeOK'
    <3> DEFINE after == [run[i] EXCEPT !.stage = "add",
                           !.now = [document |-> d, previous |-> manifest[d].version]]
    <3>1. after \in [stage : {"idle", "next", "add", "delete", "mark"},
             loaded : [Documents -> Index!Versions \cup {Absent}], rebuild : BOOLEAN,
             now : [document : Documents \cup {Absent}, previous : Index!Versions \cup {Absent}]]
      <4>1. run[i] \in [stage : {"idle", "next", "add", "delete", "mark"},
               loaded : [Documents -> Index!Versions \cup {Absent}], rebuild : BOOLEAN,
               now : [document : Documents \cup {Absent}, previous : Index!Versions \cup {Absent}]]
        BY DocsParts DEF Index!TypeOK
      <4> QED BY <2>2, <4>1
    <3>2. run' = [run EXCEPT ![i] = after]
      BY <1>5
    <3> HIDE DEF after
    <3> QED BY <1>1, <3>1, <3>2, DocsParts DEF Index!TypeOK
  <2>5. \A e \in Documents : /\ Index!ChunksOf(e)' = Index!ChunksOf(e)
                             /\ Index!Described(e)' = Index!Described(e)
    BY <1>1 DEF Index!ChunksOf, Index!Described
  <2>6. \A e \in Documents \ torn : Index!ChunksOf(e) = Index!Described(e)
    <3>1. run[i].now.document \notin Documents
      BY <1>1, DocsParts, NamesApart DEF Index!Working, Index!NoDocument
    <3> QED BY <1>1, <3>1, AloneAtWork, OthersAreClean
  \* the rows never mix models, so comparing with one of them is enough
  <2>7. \A e \in Documents : manifest[e] # Index!NoRow => manifest[e].model = modelOf[i]
    BY <1>5, DocsParts DEF Index!Compatible, Index!OneModel
  <2>8. Index!InStep(i)' /\ Index!Working(i)'
    BY <1>1, <1>3, <2>3, <2>5, <2>6, <2>7 DEF Index!InStep, Index!ToDo, Index!Working
  <2> QED BY <1>1, <2>3, <2>4, <2>5, <2>6, <2>8, AloneAtWork, DocsStep, DocsParts DEF Index!OneModel
<1> QED BY <1>2, <1>4, <1>5

LEMMA StartRunInv ==
  ASSUME OneAtATime, DocsInv, NEW i \in Indexers, Index!StartRun(i)
  PROVE  DocsInv'
<1>1. /\ UNCHANGED <<source, chunks, manifest, torn>> /\ \A j \in Indexers : run[j].stage = "idle"
  BY DEF Index!StartRun
<1>2. PICK rebuild \in BOOLEAN :
        run' = [run EXCEPT ![i] = [Index!Idle EXCEPT !.stage = "next", !.loaded = source,
                                                     !.rebuild = rebuild]]
  BY DEF Index!StartRun
<1> DEFINE new == [Index!Idle EXCEPT !.stage = "next", !.loaded = source, !.rebuild = rebuild]
<1>3. /\ new.stage = "next" /\ new.now = Index!NoDocument
      /\ new \in [stage : {"idle", "next", "add", "delete", "mark"},
                  loaded : [Documents -> Index!Versions \cup {Absent}], rebuild : BOOLEAN,
                  now : [document : Documents \cup {Absent}, previous : Index!Versions \cup {Absent}]]
  <2>1. source \in [Documents -> Index!Versions \cup {Absent}]
    BY DocsParts DEF Index!TypeOK
  <2> QED BY <2>1 DEF Index!Idle, Index!NoDocument
<1>4. /\ \A j \in Indexers \ {i} : run'[j] = run[j]
      /\ run'[i].stage = "next" /\ run'[i].now = Index!NoDocument
      /\ Index!TypeOK'
  <2> HIDE DEF new
  <2> QED BY <1>1, <1>2, <1>3, DocsParts DEF Index!TypeOK, new
<1>5. \A e \in Documents \ torn : Index!ChunksOf(e) = Index!Described(e)
  <2>1. run[i].now.document \notin Documents
    BY <1>1, DocsParts, NamesApart DEF Index!Working, Index!NoDocument
  <2> QED BY <1>1, <2>1, OthersAreClean
<1>6. \A e \in Documents : /\ Index!ChunksOf(e)' = Index!ChunksOf(e)
                           /\ Index!Described(e)' = Index!Described(e)
  BY <1>1 DEF Index!ChunksOf, Index!Described
<1>7. ~Index!Working(i)'
  BY <1>4 DEF Index!Working
<1> QED BY <1>1, <1>4, <1>5, <1>6, <1>7, DocsStep, DocsParts DEF Index!OneModel

LEMMA DocsNext == ASSUME OneAtATime PROVE DocsInv /\ [Index!Next]_documentVars => DocsInv'
<1> SUFFICES ASSUME DocsInv, [Index!Next]_documentVars PROVE DocsInv'
  OBVIOUS
<1>1. ASSUME NEW i \in Indexers, Index!StatementFails(i)
      PROVE  DocsInv'
  <2>1. Index!Working(i) /\ run[i].stage # "idle" /\ Index!Breaks(i)
        /\ UNCHANGED <<source, chunks, manifest>>
    BY <1>1 DEF Index!StatementFails, Index!Working
  <2> PICK d \in Documents : d = run[i].now.document
    BY <2>1, Document
  <2>2. Index!Finish(i, d)
    BY <1>1 DEF Index!StatementFails
  <2>3. torn' \subseteq Documents
    BY <2>1, DocsParts DEF Index!Breaks, Index!TypeOK
  <2>4. Index!TypeOK'
    BY <2>1, <2>2, <2>3, FinishEffect, DocsParts DEF Index!TypeOK
  <2> QED BY <2>1, <2>2, <2>4, FinishEffect, BrokenOff, DocsParts
<1>2. ASSUME NEW i \in Indexers, Index!EndRun(i) \/ Index!Crash(i)
      PROVE  DocsInv'
  <2>1. /\ run' = [run EXCEPT ![i] = Index!Idle] /\ Index!Breaks(i) /\ run[i].stage # "idle"
        /\ UNCHANGED <<source, chunks, manifest>>
    BY <1>2 DEF Index!EndRun, Index!Crash, Index!Breaks
  <2>2. torn' \subseteq Documents
    <3>1. torn \subseteq Documents /\ (Index!Working(i) => run[i].now.document \in Documents)
      BY AtWork, DocsParts DEF Index!TypeOK
    <3> QED BY <2>1, <3>1 DEF Index!Breaks, Index!Working
  <2>3. Index!TypeOK'
    <3>1. Index!Idle \in [stage : {"idle", "next", "add", "delete", "mark"},
                  loaded : [Documents -> Index!Versions \cup {Absent}], rebuild : BOOLEAN,
                  now : [document : Documents \cup {Absent}, previous : Index!Versions \cup {Absent}]]
      BY DEF Index!Idle, Index!NoDocument
    <3> QED BY <2>1, <2>2, <3>1, DocsParts DEF Index!TypeOK
  <2>4. /\ \A j \in Indexers \ {i} : run'[j] = run[j]
        /\ run'[i].stage = "idle" /\ run'[i].now = Index!NoDocument
    BY <2>1, DocsParts DEF Index!TypeOK, Index!Idle
  <2> QED BY <2>1, <2>3, <2>4, BrokenOff
<1>3. ASSUME UNCHANGED <<chunks, manifest, run, torn>>, source' \in [Documents -> Index!Versions \cup {Absent}]
      PROVE  DocsInv'
  <2>1. Index!TypeOK'
    BY <1>3, DocsParts DEF Index!TypeOK
  <2>2. Index!OneModel' /\ Index!CleanDocuments' /\ Index!IndexedStaysVisible'
    BY <1>3 DEF DocsInv, IndexMatchesManifest, Index!IndexMatchesManifest, IndexedStaysVisible,
       Index!OneModel, Index!CleanDocuments, Index!IndexedStaysVisible, Index!Searchable,
       Index!Replacing, Index!ChunksOf, Index!Described
  <2>3. Index!RunsInStep'
    BY <1>3, DocsParts DEF Index!RunsInStep, Index!OneRun, Index!Working, Index!InStep, Index!New,
       Index!ToDo, Index!Loaded, Index!ChunksOf, Index!Described
  <2> QED BY <2>1, <2>2, <2>3
          DEF DocsInv, IndexMatchesManifest, Index!IndexMatchesManifest, IndexedStaysVisible
<1>4. ASSUME NEW d \in Documents, Index!Edit(d)
      PROVE  DocsInv'
  <2>1. source' \in [Documents -> Index!Versions \cup {Absent}]
    BY <1>4, DocsParts DEF Index!Edit, Index!Contents, Index!Versions, Index!TypeOK
  <2> QED BY <1>3, <1>4, <2>1 DEF Index!Edit
<1>5. CASE UNCHANGED documentVars
  <2>1. source' \in [Documents -> Index!Versions \cup {Absent}]
    BY <1>5, DocsParts DEF documentVars, Index!TypeOK
  <2> QED BY <1>3, <1>5, <2>1 DEF documentVars
<1> QED BY <1>1, <1>2, <1>4, <1>5, StartRunInv, ConsiderInv, AddChunksInv, DeleteOldInv, MarkInv
        DEF Index!Next, Index!RunStep

LEMMA DocsAreKept == ASSUME OneAtATime PROVE PartsSpec => []DocsInv
<1>1. PartsInit => DocsInv
  BY DocsInit DEF PartsInit
<1>2. DocsInv /\ [PartsNext]_partVars => DocsInv'
  BY DocsNext DEF PartsNext, ChatMoves, MemoriesMove, DocumentsMove, ReportsMove, partVars
<1> QED BY <1>1, <1>2, PTL DEF PartsSpec

\* With one indexer at a time the collection holds of every document exactly the version
\* of its manifest row, unless a replacement of it was broken off, for any documents,
\* versions and embedding models (LangChainPGVectorStore.replace_document).
THEOREM CollectionMatchesManifest == ASSUME OneAtATime PROVE PartsSpec => []IndexMatchesManifest
BY DocsAreKept, PTL DEF DocsInv

\* With one indexer at a time a document that has been indexed once is found from then on.
THEOREM IndexedIsFound == ASSUME OneAtATime PROVE PartsSpec => []IndexedStaysVisible
BY DocsAreKept, PTL DEF DocsInv

-----------------------------------------------------------------------------
(* ChatClient *)

\* What the server and its ledger know, whatever the terminals show.
ServerInv ==
  /\ HandlerInv
  /\ questions \in [Runs -> 0..MaxQuestions]
  /\ QuestionsAreAsked
  /\ \A r \in resuming : sender[r] # "unused"
  /\ LedgerIsComplete
  /\ IsFiniteSet(captured) /\ used \in Nat /\ billed \in Nat

ChatInv == ServerInv /\ TerminalsAreServed

\* The steps of the service that end no run's request and ask no question.
Quiet ==
  \/ \E c \in Conversations : Create(c)
  \/ \E c \in Conversations, r \in Runs : SendMessage(c, r) \/ ResumePermission(c, r)
  \/ \E r \in Runs : GraphCheckpoint(r)
  \/ \E k \in Calls, r \in Runs : CancelRun(k, r)
  \/ \E r \in Runs : CancelEndedRun(r)
  \/ \E k \in Calls, c \in Conversations : Delete(k, c)
  \/ \E k \in Calls : CancelReturns(k) \/ DeleteThread(k) \/ DeleteFails(k) \/ DeleteReturns(k)
  \/ Restart
  \/ UNCHANGED vars

LEMMA QuietIsNext == Quiet => [Next]_vars
BY DEF Quiet, Next, RunStep, CallStep

\* A run belongs to one conversation for good, and a run that has been used stays used.
LEMMA RunsStay ==
  ASSUME HandlerInv, [Next]_vars
  PROVE  \A r \in Runs : /\ convOf[r] \in Conversations => convOf'[r] = convOf[r]
                         /\ sender[r] # "unused" => sender'[r] # "unused"
<1> USE DEF HandlerInv, TypeOK
<1>1. ASSUME NEW c \in Conversations, NEW r \in Runs, SendMessage(c, r)
      PROVE  convOf[r] = NoConversation /\ convOf' = [convOf EXCEPT ![r] = c]
             /\ sender' = [sender EXCEPT ![r] = "awaiting"]
  BY <1>1 DEF SendMessage, RowsNameTheirRuns
<1>2. CASE \E c \in Conversations, r \in Runs : SendMessage(c, r)
  BY <1>1, <1>2, NoConversationAssumption
<1>3. CASE ~\E c \in Conversations, r \in Runs : SendMessage(c, r)
  <2>1. UNCHANGED convOf
    BY <1>3 DEF Next, RunStep, CallStep, Create, ResumePermission, GraphCheckpoint, GraphTaskEnds,
       SendReturns, ResumeReturns, CancelRun, CancelEndedRun, CancelReturns, Delete, DeleteThread,
       DeleteFails, DeleteReturns, Crash, Restart, vars, runVars, diskVars
  <2>2. \A r \in Runs : sender[r] # "unused" => sender'[r] # "unused"
    BY <1>3 DEF Next, RunStep, CallStep, Create, ResumePermission, GraphCheckpoint, GraphTaskEnds,
       SendReturns, ResumeReturns, CancelRun, CancelEndedRun, CancelReturns, Delete, DeleteThread,
       DeleteFails, DeleteReturns, Crash, Restart, vars, runVars, diskVars
  <2> QED BY <2>1, <2>2
<1> QED BY <1>2, <1>3

QuietGoal ==
  /\ LiveRuns \subseteq LiveRuns'
  /\ Executing' \subseteq LiveRuns'
  /\ \A r \in Runs : graph'[r] = "interrupted" => graph[r] = "interrupted"
  /\ \A r \in resuming' : sender'[r] # "unused"
  /\ \A c \in Conversations :
       request'[c] # NoRun => request'[c] = request[c] /\ activeRun'[c] = activeRun[c]

\* A save without a request leaves no new question on a row.
LEMMA NoQuestion ==
  ASSUME TypeOK, NEW c, NEW st \in Statuses, NEW q \in Runs \cup {NoRun}, Save(c, st, q, NoRun)
  PROVE  \A d \in Conversations : request'[d] # NoRun =>
            request'[d] = request[d] /\ activeRun'[d] = activeRun[d]
BY DEF Save, TypeOK, rowVars

\* What a quiet step leaves of the runs and of the questions on the rows.
LEMMA QuietEffect ==
  ASSUME ServerInv, Quiet
  PROVE  QuietGoal
<1>0. /\ TypeOK /\ Executing \subseteq LiveRuns /\ \A r \in resuming : sender[r] # "unused"
      /\ RowsNameTheirRuns
  BY DEF ServerInv, HandlerInv, LedgerIsComplete
<1>1. ASSUME UNCHANGED <<runVars, activeRun, request>>
      PROVE  QuietGoal
  BY <1>0, <1>1 DEF QuietGoal, runVars, LiveRuns, ActiveTasks, Executing
<1>2. CASE (\E c \in Conversations : Create(c)) \/ UNCHANGED vars
  BY <1>1, <1>2 DEF Create, vars, diskVars
<1>3. ASSUME NEW r \in Runs, GraphCheckpoint(r)
      PROVE  QuietGoal
  BY <1>1, <1>3 DEF GraphCheckpoint, rowVars
<1>4. ASSUME NEW k \in Calls,
             (\E c \in Conversations : Delete(k, c)) \/ DeleteThread(k) \/ DeleteFails(k)
      PROVE  QuietGoal
  BY <1>1, <1>4 DEF Delete, DeleteThread, DeleteFails, diskVars, rowVars
<1>5. ASSUME NEW c \in Conversations, NEW r \in Runs,
             SendMessage(c, r) \/ ResumePermission(c, r)
      PROVE  QuietGoal
  <2>1. Save(c, "running", r, NoRun) /\ "running" \in Statuses
    BY <1>5 DEF SendMessage, ResumePermission, Statuses
  <2>2. \A d \in Conversations : request'[d] # NoRun =>
           request'[d] = request[d] /\ activeRun'[d] = activeRun[d]
    BY <1>0, <2>1, NoQuestion
  <2>3. CASE SendMessage(c, r)
    BY <1>0, <2>2, <2>3 DEF SendMessage, QuietGoal, LiveRuns, ActiveTasks, Executing, TypeOK
  <2>4. CASE ResumePermission(c, r)
    <3>1. sender[r] # "unused"
      BY <1>0, <2>4, NoConversationAssumption DEF ResumePermission, RowsNameTheirRuns, RunsOf
    <3> QED BY <1>0, <2>2, <2>4, <3>1
            DEF ResumePermission, QuietGoal, LiveRuns, ActiveTasks, Executing, TypeOK
  <2> QED BY <1>5, <2>3, <2>4
<1>6. ASSUME NEW k \in Calls, NEW r \in Runs, CancelRun(k, r)
      PROVE  QuietGoal
  BY <1>0, <1>6 DEF CancelRun, diskVars, QuietGoal, LiveRuns, ActiveTasks, Executing
<1>7. ASSUME NEW k \in Calls, CancelReturns(k)
      PROVE  QuietGoal
  <2>1. Save(convOf[cancelling[k]], "idle", NoRun, NoRun) /\ "idle" \in Statuses /\ UNCHANGED runVars
    BY <1>7 DEF CancelReturns, SaveFinished, Statuses
  <2>2. \A d \in Conversations : request'[d] # NoRun =>
           request'[d] = request[d] /\ activeRun'[d] = activeRun[d]
    BY <1>0, <2>1, NoQuestion
  <2> QED BY <1>0, <2>1, <2>2 DEF QuietGoal, runVars, LiveRuns, ActiveTasks, Executing
<1>e. ASSUME NEW r \in Runs, CancelEndedRun(r)
      PROVE  QuietGoal
  <2>1. Save(convOf[r], "idle", NoRun, NoRun) /\ "idle" \in Statuses /\ UNCHANGED runVars
    BY <1>e DEF CancelEndedRun, SaveFinished, Statuses
  <2>2. \A d \in Conversations : request'[d] # NoRun =>
           request'[d] = request[d] /\ activeRun'[d] = activeRun[d]
    BY <1>0, <2>1, NoQuestion
  <2> QED BY <1>0, <2>1, <2>2 DEF QuietGoal, runVars, LiveRuns, ActiveTasks, Executing
<1>8. ASSUME NEW k \in Calls, DeleteReturns(k)
      PROVE  QuietGoal
  BY <1>0, <1>8 DEF DeleteReturns, QuietGoal, runVars, LiveRuns, ActiveTasks, Executing, TypeOK
<1>9. CASE Restart
  BY <1>0, <1>9 DEF Restart, QuietGoal, runVars, LiveRuns, ActiveTasks, Executing, TypeOK
<1> QED BY <1>2, <1>3, <1>4, <1>5, <1>6, <1>7, <1>8, <1>9, <1>e DEF Quiet

\* A quiet step keeps what the server knows.
LEMMA QuietStep ==
  ASSUME ServerInv, Quiet, HandlerInv', UNCHANGED <<questions, usageVars>>
  PROVE  ServerInv'
<1>1. QuietGoal
  BY QuietEffect
<1>2. \A r \in Runs : convOf[r] \in Conversations => convOf'[r] = convOf[r]
  BY QuietIsNext, RunsStay DEF ServerInv
<1>3. QuestionsAreAsked'
  <2>1. ASSUME NEW c \in Conversations, request'[c] # NoRun
        PROVE  request'[c] = activeRun'[c] /\ request'[c] \in RunsOf(c)' /\ questions'[request'[c]] > 0
    <3>1. request'[c] = request[c] /\ activeRun'[c] = activeRun[c]
      BY <1>1, <2>1 DEF QuietGoal
    <3>2. request[c] = activeRun[c] /\ request[c] \in RunsOf(c) /\ questions[request[c]] > 0
      BY <2>1, <3>1 DEF ServerInv, QuestionsAreAsked
    <3> QED BY <1>2, <3>1, <3>2 DEF RunsOf
  <2> QED BY <1>1, <2>1 DEF ServerInv, QuestionsAreAsked, QuietGoal
<1>4. LedgerIsComplete'
  BY <1>1 DEF ServerInv, LedgerIsComplete, QuietGoal, usageVars
<1> QED BY <1>1, <1>3, <1>4 DEF ServerInv, QuietGoal, usageVars

\* What the row of a run's conversation holds when a handler of the run has saved it.
LEMMA WorkSaved ==
  ASSUME ServerInv, NEW r \in Runs, NEW outcome, CompleteOrWait(convOf[r], r, outcome),
         outcome = "interrupted" => questions'[r] > 0,
         \A q \in Runs : convOf'[q] = convOf[q] /\ questions'[q] \in Nat /\ questions[q] <= questions'[q]
  PROVE  \A c \in Conversations :
           request'[c] # NoRun => /\ request'[c] = activeRun'[c]
                                  /\ request'[c] \in RunsOf(c)' /\ questions'[request'[c]] > 0
<1>0. TypeOK /\ questions \in [Runs -> 0..MaxQuestions]
  BY DEF ServerInv, HandlerInv
<1>1. ASSUME NEW c \in Conversations, request[c] # NoRun,
             request'[c] = request[c], activeRun'[c] = activeRun[c]
      PROVE  request'[c] = activeRun'[c] /\ request'[c] \in RunsOf(c)' /\ questions'[request'[c]] > 0
  <2>1. request[c] = activeRun[c] /\ request[c] \in RunsOf(c) /\ questions[request[c]] > 0
    BY <1>1 DEF ServerInv, QuestionsAreAsked
  <2> QED BY <1>0, <1>1, <2>1 DEF RunsOf
<1>2. CASE outcome = "interrupted"
  <2>1. Save(convOf[r], "waiting", r, r)
    BY <1>2 DEF CompleteOrWait
  <2>2. \A c \in Conversations :
           \/ c = convOf[r] /\ request'[c] = r /\ activeRun'[c] = r
           \/ request'[c] = request[c] /\ activeRun'[c] = activeRun[c]
    BY <1>0, <2>1 DEF Save, TypeOK, rowVars
  <2>3. \A c \in Conversations : c = convOf[r] => r \in RunsOf(c)'
    BY DEF RunsOf
  <2> QED BY <1>1, <1>2, <2>2, <2>3
<1>3. CASE outcome # "interrupted"
  <2>1. Save(convOf[r], "idle", NoRun, NoRun) /\ "idle" \in Statuses
    BY <1>3 DEF CompleteOrWait, SaveFinished, Statuses
  <2> QED BY <1>0, <1>1, <2>1, NoQuestion
<1> QED BY <1>2, <1>3

\* The ledger at the end of a request: what its run has captured is billed.
LEMMA RequestBilled ==
  ASSUME ServerInv, NEW r \in Runs, NEW outcome, NEW question, RequestEnds(r, outcome, question),
         Executing' \subseteq LiveRuns', LiveRuns \ {r} \subseteq LiveRuns'
  PROVE  LedgerIsComplete' /\ IsFiniteSet(captured)' /\ used' \in Nat /\ billed' \in Nat
<1>1. /\ captured \subseteq LiveRuns /\ used = billed + Cardinality(captured)
      /\ IsFiniteSet(captured) /\ used \in Nat /\ billed \in Nat
  BY DEF ServerInv, LedgerIsComplete
<1>2. /\ captured' = captured \ {r} /\ used' = used
      /\ billed' = IF r \in captured THEN billed + 1 ELSE billed
  BY DEF RequestEnds, Billed
<1>3. /\ IsFiniteSet(captured \ {r}) /\ Cardinality(captured) \in Nat
      /\ Cardinality(captured \ {r}) = IF r \in captured THEN Cardinality(captured) - 1 ELSE Cardinality(captured)
  BY <1>1, FS_RemoveElement, FS_CardinalityType
<1>4. used' = billed' + Cardinality(captured')
  BY <1>1, <1>2, <1>3
<1> QED BY <1>1, <1>2, <1>3, <1>4 DEF LedgerIsComplete

\* A graph that has stopped: what it asked is counted.
LEMMA Counted ==
  ASSUME ServerInv, NEW r \in Runs, CountQuestion(r), NEW outcome \in Outcomes,
         graph' = [graph EXCEPT ![r] = outcome]
  PROVE  /\ questions' \in [Runs -> 0..MaxQuestions]
         /\ \A q \in Runs : questions'[q] \in Nat /\ questions[q] <= questions'[q]
         /\ \A q \in Runs : graph'[q] = "interrupted" => questions'[q] > 0
         /\ Executing' = Executing \ {r}
<1>1. /\ questions \in [Runs -> 0..MaxQuestions] /\ MaxQuestions \in Nat /\ TypeOK
      /\ \A q \in Runs : graph[q] = "interrupted" => questions[q] > 0
  BY MaxQuestionsAssumption DEF ServerInv, HandlerInv, QuestionsAreAsked
<1>2. Executing' = Executing \ {r}
  BY <1>1 DEF Executing, Outcomes, TypeOK
<1>3. graph'[r] = outcome /\ \A q \in Runs \ {r} : graph'[q] = graph[q]
  BY <1>1 DEF TypeOK
<1>4. questions' = [questions EXCEPT ![r] = questions[r] + (IF graph'[r] = "interrupted" THEN 1 ELSE 0)]
      /\ questions'[r] <= MaxQuestions
  BY DEF CountQuestion
<1> QED BY <1>1, <1>2, <1>3, <1>4

\* A run with a request at work has a conversation.
LEMMA LiveHasConversation ==
  ASSUME ServerInv, NEW r \in LiveRuns
  PROVE  r \in Runs /\ sender[r] # "unused" /\ convOf[r] \in Conversations
BY DEF ServerInv, HandlerInv, RowsNameTheirRuns, LiveRuns, ActiveTasks, TypeOK

LEMMA SendEndsInv ==
  ASSUME ServerInv, HandlerInv', NEW r \in Runs, SendEnds(r)
  PROVE  ServerInv'
<1>1. /\ sender' = [sender EXCEPT ![r] = "done"] /\ graph[r] \in Outcomes
      /\ CompleteOrWait(convOf[r], r, graph[r]) /\ r \in ActiveTasks
      /\ UNCHANGED <<convOf, resuming, graph, questions>> /\ RequestEnds(r, graph[r], questions[r])
  BY DEF SendEnds, SendReturns
<1>2. /\ TypeOK /\ Executing \subseteq LiveRuns /\ questions \in [Runs -> 0..MaxQuestions]
      /\ \A q \in resuming : sender[q] # "unused"
      /\ \A q \in Runs : graph[q] = "interrupted" => questions[q] > 0
  BY DEF ServerInv, HandlerInv, LedgerIsComplete, QuestionsAreAsked
<1>3. /\ LiveRuns \ {r} \subseteq LiveRuns' /\ Executing' \subseteq LiveRuns'
      /\ \A q \in resuming' : sender'[q] # "unused"
  BY <1>1, <1>2 DEF LiveRuns, ActiveTasks, Executing, Outcomes, TypeOK
<1>4. QuestionsAreAsked'
  <2>1. \A q \in Runs : convOf'[q] = convOf[q] /\ questions'[q] \in Nat /\ questions[q] <= questions'[q]
    BY <1>1, <1>2
  <2>2. \A c \in Conversations :
           request'[c] # NoRun => /\ request'[c] = activeRun'[c]
                                  /\ request'[c] \in RunsOf(c)' /\ questions'[request'[c]] > 0
    BY <1>1, <1>2, <2>1, WorkSaved
  <2> QED BY <1>1, <1>2, <2>2 DEF QuestionsAreAsked
<1>5. LedgerIsComplete' /\ IsFiniteSet(captured)' /\ used' \in Nat /\ billed' \in Nat
  BY <1>1, <1>3, RequestBilled
<1> QED BY <1>1, <1>2, <1>3, <1>4, <1>5 DEF ServerInv

LEMMA ResumeEndsInv ==
  ASSUME ServerInv, HandlerInv', NEW r \in Runs, ResumeEnds(r)
  PROVE  ServerInv'
<1>1. PICK outcome \in Outcomes \ {"cancelled"} :
        graph' = [graph EXCEPT ![r] = outcome] /\ CompleteOrWait(convOf[r], r, outcome)
  BY DEF ResumeEnds, ResumeReturns
<1>2. /\ resuming' = resuming \ {r} /\ UNCHANGED <<convOf, sender>> /\ CountQuestion(r)
      /\ RequestEnds(r, graph'[r], questions'[r])
  BY DEF ResumeEnds, ResumeReturns
<1>3. /\ TypeOK /\ Executing \subseteq LiveRuns /\ \A q \in resuming : sender[q] # "unused"
  BY DEF ServerInv, HandlerInv, LedgerIsComplete
<1>4. /\ questions' \in [Runs -> 0..MaxQuestions]
      /\ \A q \in Runs : questions'[q] \in Nat /\ questions[q] <= questions'[q]
      /\ \A q \in Runs : graph'[q] = "interrupted" => questions'[q] > 0
      /\ Executing' = Executing \ {r}
  BY <1>1, <1>2, Counted
<1>5. /\ LiveRuns \ {r} \subseteq LiveRuns' /\ Executing' \subseteq LiveRuns'
      /\ \A q \in resuming' : sender'[q] # "unused"
  BY <1>2, <1>3, <1>4 DEF LiveRuns, ActiveTasks
<1>6. QuestionsAreAsked'
  <2>1. outcome = "interrupted" => questions'[r] > 0
    BY <1>1, <1>3, <1>4 DEF TypeOK
  <2>2. \A c \in Conversations :
           request'[c] # NoRun => /\ request'[c] = activeRun'[c]
                                  /\ request'[c] \in RunsOf(c)' /\ questions'[request'[c]] > 0
    BY <1>1, <1>2, <1>4, <2>1, WorkSaved
  <2> QED BY <1>4, <2>2 DEF QuestionsAreAsked
<1>7. LedgerIsComplete' /\ IsFiniteSet(captured)' /\ used' \in Nat /\ billed' \in Nat
  BY <1>2, <1>5, RequestBilled
<1> QED BY <1>4, <1>5, <1>6, <1>7 DEF ServerInv

LEMMA GraphEndsInv ==
  ASSUME ServerInv, HandlerInv', NEW r \in Runs, GraphEnds(r)
  PROVE  ServerInv' /\ LiveRuns' = LiveRuns
<1>1. PICK outcome \in Outcomes : graph' = [graph EXCEPT ![r] = outcome]
  BY DEF GraphEnds, GraphTaskEnds
<1>2. /\ UNCHANGED <<rowVars, convOf, sender, resuming, usageVars>> /\ CountQuestion(r)
  BY DEF GraphEnds, GraphTaskEnds
<1>3. /\ questions \in [Runs -> 0..MaxQuestions] /\ questions' \in [Runs -> 0..MaxQuestions]
      /\ \A q \in Runs : questions'[q] \in Nat /\ questions[q] <= questions'[q]
      /\ \A q \in Runs : graph'[q] = "interrupted" => questions'[q] > 0
      /\ Executing' = Executing \ {r}
  BY <1>1, <1>2, Counted DEF ServerInv
<1>4. LiveRuns' = LiveRuns
  BY <1>2 DEF LiveRuns, ActiveTasks
<1>5. QuestionsAreAsked'
  BY <1>2, <1>3 DEF ServerInv, QuestionsAreAsked, RunsOf, rowVars
<1>6. LedgerIsComplete'
  BY <1>2, <1>3, <1>4 DEF ServerInv, LedgerIsComplete, usageVars
<1> QED BY <1>2, <1>3, <1>4, <1>5, <1>6 DEF ServerInv, usageVars

LEMMA ModelAnswersInv ==
  ASSUME ServerInv, HandlerInv', NEW r \in Runs, ModelAnswers(r)
  PROVE  ServerInv' /\ LiveRuns' = LiveRuns
<1>1. /\ r \in Executing /\ r \notin captured /\ captured' = captured \cup {r} /\ used' = used + 1
      /\ UNCHANGED <<vars, questions, billed>>
  BY DEF ModelAnswers, Executing
<1>2. /\ UNCHANGED <<rowVars, runVars>>
  BY <1>1 DEF vars, diskVars, rowVars
<1>3. LiveRuns' = LiveRuns /\ Executing' = Executing
  BY <1>2 DEF LiveRuns, ActiveTasks, Executing, runVars
<1>4. QuestionsAreAsked' /\ \A q \in resuming' : sender'[q] # "unused"
  BY <1>1, <1>2 DEF ServerInv, QuestionsAreAsked, RunsOf, rowVars, runVars
<1>5. /\ IsFiniteSet(captured') /\ Cardinality(captured') = Cardinality(captured) + 1
      /\ Cardinality(captured) \in Nat
  BY <1>1, FS_AddElement, FS_CardinalityType DEF ServerInv
<1>6. LedgerIsComplete'
  BY <1>1, <1>3, <1>5 DEF ServerInv, LedgerIsComplete
<1> QED BY <1>1, <1>3, <1>4, <1>5, <1>6 DEF ServerInv

LEMMA ServerDiesInv ==
  ASSUME ServerInv, HandlerInv', ServerDies
  PROVE  ServerInv'
<1>1. /\ UNCHANGED <<rowVars, convOf, questions>> /\ captured' = {} /\ used' = 0 /\ billed' = 0
      /\ resuming' = {} /\ graph' = [q \in Runs |-> IF graph[q] = "running" THEN "lost" ELSE graph[q]]
  BY DEF ServerDies, Crash, diskVars, rowVars
<1>2. Executing' = {}
  BY <1>1 DEF Executing
<1>3. QuestionsAreAsked'
  BY <1>1 DEF ServerInv, QuestionsAreAsked, RunsOf, rowVars
<1>4. IsFiniteSet({}) /\ Cardinality({}) = 0
  BY FS_EmptySet
<1> QED BY <1>1, <1>2, <1>3, <1>4 DEF ServerInv, LedgerIsComplete

State == [screen : Screens,
          current : Conversations \cup {NoConversation},
          forced : Conversations \cup {NoConversation},
          target : Conversations \cup {NoConversation},
          run : Runs \cup {NoRun},
          question : 0..MaxQuestions]

\* A terminal that does not move stays served while runs keep their conversations,
\* the number of questions grows and its own call is not answered.
LEMMA StaysServed ==
  ASSUME ChatInv, ServerInv', [Next]_vars, NEW t \in Terminals, terminal'[t] = terminal[t],
         At(t, "running") => terminal[t].run \in LiveRuns',
         At(t, "cancelling") => cancelling'[t] = cancelling[t],
         At(t, "deleting") => deleting'[t] = deleting[t],
         \A r \in Runs : questions[r] <= questions'[r]
  PROVE  Served(t)'
<1>1. /\ Served(t) /\ terminal[t] \in State
      /\ questions \in [Runs -> 0..MaxQuestions] /\ questions' \in [Runs -> 0..MaxQuestions]
  BY DEF ChatInv, ServerInv, TerminalsAreServed, ChatTypeOK, State
<1>2. \A r \in Runs : convOf[r] \in Conversations => convOf'[r] = convOf[r]
  BY RunsStay DEF ChatInv, ServerInv
<1>3. ~At(t, "closed") =>
         \A r \in RunsOf(terminal[t].current) : r \in RunsOf(terminal[t].current)'
  BY <1>1, <1>2 DEF Served, RunsOf
<1>4. At(t, "ask") => terminal[t].question \in 1..questions'[terminal[t].run]
  BY <1>1 DEF Served, RunsOf, State
<1> QED BY <1>1, <1>3, <1>4 DEF Served, At

\* One terminal moves and the others stay served.
LEMMA OneMoves ==
  ASSUME ChatInv, ServerInv', [Next]_vars, UNCHANGED questions, LiveRuns \subseteq LiveRuns',
         NEW t \in Terminals, NEW state \in State, Become(t, state),
         \A u \in Terminals \ {t} : cancelling'[u] = cancelling[u] /\ deleting'[u] = deleting[u],
         Served(t)'
  PROVE  ChatInv'
<1>1. terminal \in [Terminals -> State] /\ questions \in [Runs -> 0..MaxQuestions]
  BY DEF ChatInv, TerminalsAreServed, ChatTypeOK, State
<1>2. terminal' \in [Terminals -> State] /\ \A u \in Terminals \ {t} : terminal'[u] = terminal[u]
  BY <1>1 DEF Become
<1>3. ASSUME NEW u \in Terminals, u # t PROVE Served(u)'
  <2>1. Served(u)
    BY DEF ChatInv, TerminalsAreServed
  <2>2. At(u, "running") => terminal[u].run \in LiveRuns'
    BY <2>1 DEF Served
  <2>3. \A r \in Runs : questions[r] <= questions'[r]
    BY <1>1
  <2> QED BY <1>2, <1>3, <2>2, <2>3, StaysServed
<1>4. ChatTypeOK'
  BY <1>2 DEF ServerInv, ChatTypeOK, State
<1> QED BY <1>3, <1>4 DEF ChatInv, TerminalsAreServed, ServerInv

\* A terminal that only reads what the server says.
LEMMA OnlyShows ==
  ASSUME ChatInv, UNCHANGED <<vars, questions, usageVars>>,
         NEW t \in Terminals, NEW state \in State, Become(t, state),
         state.screen \notin {"running", "cancelling", "deleting"},
         state.screen # "closed" => state.current \in Conversations,
         state.screen = "confirm" => state.target \in Conversations,
         state.screen = "ask" => /\ state.run \in RunsOf(state.current)
                                 /\ state.question \in 1..questions[state.run],
         state.forced \in {NoConversation, state.current}
  PROVE  ChatInv'
<1>1. Quiet /\ [Next]_vars
  BY DEF Quiet
<1>2. HandlerInv'
  BY <1>1, TypeStep, HandlerStep DEF ChatInv, ServerInv, HandlerInv
<1>3. ServerInv' /\ LiveRuns \subseteq LiveRuns'
  BY <1>1, <1>2, QuietStep, QuietEffect DEF ChatInv, QuietGoal
<1>4. terminal'[t] = state
  BY DEF ChatInv, TerminalsAreServed, ChatTypeOK, Become
<1>5. UNCHANGED <<cancelling, deleting, convOf, questions>>
  BY DEF vars, callVars, runVars
<1>6. Served(t)'
  BY <1>4, <1>5 DEF Served, At, RunsOf
<1> QED BY <1>1, <1>3, <1>5, <1>6, OneMoves

\* A terminal whose request or reply is a quiet step of the service.
LEMMA OneActs ==
  ASSUME ChatInv, Quiet, UNCHANGED <<questions, usageVars>>,
         NEW t \in Terminals, NEW state \in State, Become(t, state),
         \A u \in Terminals \ {t} : cancelling'[u] = cancelling[u] /\ deleting'[u] = deleting[u],
         ServerInv' => Served(t)'
  PROVE  ChatInv'
<1>1. [Next]_vars
  BY QuietIsNext
<1>2. HandlerInv'
  BY <1>1, TypeStep, HandlerStep DEF ChatInv, ServerInv, HandlerInv
<1>3. ServerInv' /\ LiveRuns \subseteq LiveRuns'
  BY <1>2, QuietStep, QuietEffect DEF ChatInv, QuietGoal
<1> QED BY <1>1, <1>3, OneMoves

\* The states a terminal can be given.
LEMMA States ==
  ASSUME ChatInv, NEW t \in Terminals
  PROVE  /\ terminal \in [Terminals -> State] /\ terminal[t] \in State /\ Served(t)
         /\ \A screen \in Screens : [terminal[t] EXCEPT !.screen = screen] \in State
         /\ \A screen \in Screens, r \in Runs :
               [terminal[t] EXCEPT !.screen = screen, !.run = r] \in State
         /\ \A screen : Goto(t, screen) => Become(t, [terminal[t] EXCEPT !.screen = screen])
         /\ Prompt(terminal[t]) \in State /\ Closed \in State
         /\ \A c \in Conversations : /\ Entered(t, c) \in State
                                     /\ [Entered(t, c) EXCEPT !.screen = "detail"] \in State
<1>1. /\ terminal \in [Terminals -> State] /\ Served(t) /\ 0 \in 0..MaxQuestions
  BY MaxQuestionsAssumption DEF ChatInv, TerminalsAreServed, ChatTypeOK, State
<1>2. Closed \in State /\ {"prompt", "detail"} \subseteq Screens
  BY <1>1 DEF Closed, State, Screens
<1>3. \A c \in Conversations : /\ Entered(t, c) \in State
                               /\ [Entered(t, c) EXCEPT !.screen = "detail"] \in State
  BY <1>2 DEF Entered, State
<1>4. Prompt(terminal[t]) \in State
  BY <1>1, <1>2 DEF Prompt, State
<1>5. \A screen : Goto(t, screen) => Become(t, [terminal[t] EXCEPT !.screen = screen])
  BY DEF Goto, Become
<1> QED BY <1>1, <1>2, <1>3, <1>4, <1>5 DEF State

LEMMA OpenNewInv ==
  ASSUME ChatInv, NEW t \in Terminals, OpenNew(t)
  PROVE  ChatInv'
<1>1. PICK c \in Conversations : Create(c) /\ Become(t, Entered(t, c))
  BY DEF OpenNew
<1>2. UNCHANGED <<questions, usageVars, cancelling, deleting>>
  BY <1>1 DEF OpenNew, Create, callVars
<1>3. Served(t)'
  <2>1. terminal'[t] = Entered(t, c)
    BY <1>1, States DEF Become
  <2> QED BY <2>1 DEF Served, At, Entered, Closed
<1> QED BY <1>1, <1>2, <1>3, States, OneActs DEF Quiet

LEMMA SendTextInv ==
  ASSUME ChatInv, NEW t \in Terminals, NEW r \in Runs, SendText(t, r)
  PROVE  ChatInv'
<1>1. /\ terminal[t].current \in Conversations /\ SendMessage(terminal[t].current, r)
      /\ Become(t, [terminal[t] EXCEPT !.screen = "running", !.run = r])
      /\ [terminal[t] EXCEPT !.screen = "running", !.run = r] \in State
  BY States DEF SendText, Served, At, Screens
<1>2. UNCHANGED <<questions, usageVars, cancelling, deleting>>
  BY <1>1 DEF SendText, SendMessage, callVars
<1>3. Served(t)'
  <2>1. /\ terminal'[t] = [terminal[t] EXCEPT !.screen = "running", !.run = r]
        /\ Served(t) /\ terminal[t] \in State /\ ~At(t, "closed")
    BY <1>1, States DEF Become, SendText, At
  <2>2. r \in LiveRuns' /\ convOf'[r] = terminal[t].current
    <3>1. /\ sender \in [Runs -> {"unused", "awaiting", "done"}]
          /\ convOf \in [Runs -> Conversations \cup {NoConversation}]
      BY DEF ChatInv, ServerInv, HandlerInv, TypeOK
    <3>2. /\ sender' = [sender EXCEPT ![r] = "awaiting"]
          /\ convOf' = [convOf EXCEPT ![r] = terminal[t].current]
      BY <1>1 DEF SendMessage
    <3> QED BY <3>1, <3>2 DEF LiveRuns, ActiveTasks
  <2> QED BY <2>1, <2>2 DEF Served, At, State, RunsOf
<1> QED BY <1>1, <1>2, <1>3, OneActs DEF Quiet

LEMMA AnswerQuestionInv ==
  ASSUME ChatInv, NEW t \in Terminals, AnswerQuestion(t)
  PROVE  ChatInv'
<1>1. /\ terminal[t].current \in Conversations /\ terminal[t].run \in RunsOf(terminal[t].current)
      /\ ResumePermission(terminal[t].current, terminal[t].run)
      /\ Become(t, [terminal[t] EXCEPT !.screen = "running"])
      /\ [terminal[t] EXCEPT !.screen = "running"] \in State
  BY States DEF AnswerQuestion, Served, At, Screens
<1>2. UNCHANGED <<questions, usageVars, cancelling, deleting, convOf>>
  BY <1>1 DEF AnswerQuestion, ResumePermission, callVars
<1>3. Served(t)'
  <2>1. /\ terminal'[t] = [terminal[t] EXCEPT !.screen = "running"]
        /\ Served(t) /\ terminal[t] \in State /\ ~At(t, "closed")
    BY <1>1, States DEF Become, AnswerQuestion, At
  <2>2. /\ terminal[t].run \in LiveRuns' /\ terminal[t].run \in Runs
        /\ convOf'[terminal[t].run] = terminal[t].current
    <3>1. resuming' = resuming \cup {terminal[t].run}
      BY <1>1 DEF ResumePermission
    <3> QED BY <1>1, <1>2, <3>1 DEF LiveRuns, RunsOf
  <2> QED BY <2>1, <2>2 DEF Served, At, State, RunsOf
<1> QED BY <1>1, <1>2, <1>3, OneActs DEF Quiet, RunsOf

\* The commands that only read what the server says, and leaving.
LEMMA ShowingInv ==
  ASSUME ChatInv, NEW t \in Terminals,
         SearchMode(t) \/ Switch(t) \/ Detail(t) \/ DeleteCommand(t) \/ CancelCommand(t) \/ Leave(t)
  PROVE  ChatInv'
<1>0. terminal[t] \in State /\ Served(t) /\ {"confirm", "cancel", "ask"} \subseteq Screens
  BY States DEF Screens
<1>1. CASE SearchMode(t)
  <2>1. PICK c \in {NoConversation, terminal[t].current} :
          terminal' = [terminal EXCEPT ![t].forced = c]
    BY <1>1 DEF SearchMode
  <2> DEFINE state == [terminal[t] EXCEPT !.forced = c]
  <2>2. state \in State /\ Become(t, state)
    BY <1>0, <2>1 DEF State, Become
  <2>3. /\ state.screen = "prompt" /\ state.current \in Conversations
        /\ state.forced \in {NoConversation, state.current}
    BY <1>0, <1>1 DEF SearchMode, Served, At, State
  <2> QED BY <1>1, <2>2, <2>3, OnlyShows DEF SearchMode
<1>2. CASE Switch(t)
  <2>1. PICK c \in Conversations :
          Become(t, Entered(t, c)) \/ Become(t, [Entered(t, c) EXCEPT !.screen = "detail"])
    BY <1>2 DEF Switch
  <2>2. ASSUME NEW state \in {Entered(t, c), [Entered(t, c) EXCEPT !.screen = "detail"]}
        PROVE  /\ state \in State /\ state.screen \in {"prompt", "detail"}
               /\ state.current = c /\ state.forced = NoConversation
    BY States DEF Entered, Closed
  <2> QED BY <1>2, <2>1, <2>2, OnlyShows DEF Switch
<1>3. CASE Detail(t)
  <2> DEFINE c == terminal[t].current
  <2>1. c \in Conversations
    BY <1>0, <1>3 DEF Detail, Served, At
  <2>2. CASE request[c] # NoRun
    <3> DEFINE state == Asking(terminal[t], activeRun[c])
    <3>1. Become(t, state)
      BY <1>3, <2>2 DEF Detail
    <3>2. /\ activeRun[c] \in RunsOf(c) /\ questions[activeRun[c]] > 0
          /\ questions \in [Runs -> 0..MaxQuestions]
      BY <2>1, <2>2 DEF ChatInv, ServerInv, QuestionsAreAsked
    <3>3. /\ state \in State /\ state.screen = "ask" /\ state.current = c
          /\ state.run = activeRun[c] /\ state.question = questions[activeRun[c]]
          /\ state.forced = terminal[t].forced
      BY <1>0, <3>2 DEF Asking, State, RunsOf
    <3>4. state.question \in 1..questions[state.run]
      BY <3>2, <3>3 DEF RunsOf
    <3>5. state.forced \in {NoConversation, c}
      BY <1>0, <3>3 DEF Served
    <3> HIDE DEF state
    <3> QED BY <1>3, <2>1, <3>1, <3>2, <3>3, <3>4, <3>5, OnlyShows DEF Detail
  <2>3. CASE request[c] = NoRun
    <3>1. Become(t, Prompt(terminal[t]))
      BY <1>3, <2>3 DEF Detail
    <3>2. Prompt(terminal[t]) \in State /\ Prompt(terminal[t]).screen = "prompt"
          /\ Prompt(terminal[t]).current = c
          /\ Prompt(terminal[t]).forced \in {NoConversation, c}
      BY <1>0, States DEF Prompt, Closed, Served
    <3> QED BY <1>3, <2>1, <3>1, <3>2, OnlyShows DEF Detail
  <2> QED BY <2>2, <2>3
<1>4. CASE DeleteCommand(t)
  <2>1. PICK c \in Conversations :
          Become(t, [terminal[t] EXCEPT !.screen = "confirm", !.target = c])
    BY <1>4 DEF DeleteCommand
  <2> DEFINE state == [terminal[t] EXCEPT !.screen = "confirm", !.target = c]
  <2>2. /\ state \in State /\ state.screen = "confirm" /\ state.target = c
        /\ state.current = terminal[t].current /\ state.forced = terminal[t].forced
    BY <1>0 DEF State
  <2>3. state.current \in Conversations /\ state.forced \in {NoConversation, state.current}
    BY <1>0, <1>4, <2>2 DEF DeleteCommand, Served, At
  <2> HIDE DEF state
  <2>4. Become(t, state)
    BY <2>1 DEF state
  <2> QED BY <1>4, <2>2, <2>3, <2>4, OnlyShows DEF DeleteCommand
<1>5. CASE CancelCommand(t)
  <2>1. PICK c \in Conversations :
          Become(t, [terminal[t] EXCEPT !.screen = "cancel", !.run = activeRun[c]])
    BY <1>5 DEF CancelCommand
  <2> DEFINE state == [terminal[t] EXCEPT !.screen = "cancel", !.run = activeRun[c]]
  <2>2. /\ state \in State /\ state.screen = "cancel"
        /\ state.current = terminal[t].current /\ state.forced = terminal[t].forced
    BY <1>0 DEF State, ChatInv, ServerInv, HandlerInv, TypeOK
  <2>3. state.current \in Conversations /\ state.forced \in {NoConversation, state.current}
    BY <1>0, <1>5, <2>2 DEF CancelCommand, Served, At
  <2> HIDE DEF state
  <2>4. Become(t, state)
    BY <2>1 DEF state
  <2> QED BY <1>5, <2>2, <2>3, <2>4, OnlyShows DEF CancelCommand
<1>6. CASE Leave(t)
  <2>1. Closed \in State /\ Closed.screen = "closed" /\ Closed.forced = NoConversation
    BY States DEF Closed
  <2> QED BY <1>6, <2>1, OnlyShows DEF Leave
<1> QED BY <1>1, <1>2, <1>3, <1>4, <1>5, <1>6

\* Back at the prompt a terminal keeps its conversation and its search mode.
LEMMA AtPrompt ==
  ASSUME ChatInv, NEW t \in Terminals, ~At(t, "closed")
  PROVE  LET p == Prompt(terminal[t])
         IN /\ p \in State /\ p.screen = "prompt" /\ p.current \in Conversations
            /\ p.forced \in {NoConversation, p.current}
<1>1. Served(t) /\ Prompt(terminal[t]) \in State
  BY States
<1> QED BY <1>1 DEF Prompt, Closed, Served

LEMMA PromptShown ==
  ASSUME ChatInv, NEW t \in Terminals, ~At(t, "closed"), Become(t, Prompt(terminal[t])),
         UNCHANGED <<vars, questions, usageVars>>
  PROVE  ChatInv'
<1> DEFINE state == Prompt(terminal[t])
<1>1. /\ state \in State /\ state.screen = "prompt" /\ state.current \in Conversations
      /\ state.forced \in {NoConversation, state.current} /\ Become(t, state)
  BY AtPrompt
<1> HIDE DEF state
<1> QED BY <1>1, OnlyShows

LEMMA DeleteConfirmedInv ==
  ASSUME ChatInv, NEW t \in Terminals, DeleteConfirmed(t)
  PROVE  ChatInv'
<1>0. terminal[t] \in State /\ Served(t) /\ At(t, "confirm") /\ "deleting" \in Screens
  BY States DEF DeleteConfirmed, Screens
<1>1. CASE Delete(t, terminal[t].target) /\ Goto(t, "deleting")
  <2> DEFINE state == [terminal[t] EXCEPT !.screen = "deleting"]
  <2>a. Become(t, state)
    BY <1>1, States
  <2>b. /\ state \in State /\ state.screen = "deleting"
        /\ state.target = terminal[t].target /\ state.current = terminal[t].current
        /\ state.forced = terminal[t].forced
    BY <1>0 DEF State
  <2>c. terminal'[t] = state
    <3> HIDE DEF state
    <3> QED BY <2>a, States DEF Become
  <2>1. /\ Become(t, state) /\ state \in State /\ state.screen = "deleting"
        /\ state.target = terminal[t].target /\ state.current = terminal[t].current
        /\ state.forced = terminal[t].forced /\ terminal'[t] = state
    BY <2>a, <2>b, <2>c
  <2>2. /\ terminal[t].target \in Conversations /\ terminal[t].current \in Conversations
        /\ terminal[t].forced \in {NoConversation, terminal[t].current}
    BY <1>0 DEF Served, At
  <2>3. /\ deleting \in [Calls -> Conversations \cup {NoConversation}]
        /\ deleting' = [deleting EXCEPT ![t] = terminal[t].target] /\ UNCHANGED cancelling
    BY <1>1 DEF Delete, ChatInv, ServerInv, HandlerInv, TypeOK
  <2>4. /\ deleting'[t] = terminal[t].target
        /\ \A u \in Terminals \ {t} : cancelling'[u] = cancelling[u] /\ deleting'[u] = deleting[u]
    BY <2>3 DEF Terminals
  <2> HIDE DEF state
  <2>5. Served(t)'
    BY <2>1, <2>2, <2>4 DEF Served, At
  <2>6. Quiet
    BY <1>1, <2>2 DEF Quiet, Terminals
  <2> QED BY <2>1, <2>4, <2>5, <2>6, OneActs DEF DeleteConfirmed
<1>2. CASE Become(t, Prompt(terminal[t])) /\ UNCHANGED vars
  BY <1>0, <1>2, PromptShown DEF DeleteConfirmed, At
<1> QED BY <1>1, <1>2 DEF DeleteConfirmed

\* A terminal goes on with the answer to its call, or did not wait for it.
LEMMA AnswerShown ==
  ASSUME ChatInv, NEW t \in Terminals, Quiet, UNCHANGED <<questions, usageVars>>,
         \A u \in Terminals \ {t} : cancelling'[u] = cancelling[u] /\ deleting'[u] = deleting[u],
         \/ ~At(t, "closed") /\ Become(t, Prompt(terminal[t]))
         \/ At(t, "deleting") /\ Become(t, [terminal[t] EXCEPT !.screen = "create"])
         \/ /\ Become(t, terminal[t])
            /\ At(t, "cancelling") => cancelling'[t] = cancelling[t]
            /\ At(t, "deleting") => deleting'[t] = deleting[t]
  PROVE  ChatInv'
<1>0. terminal \in [Terminals -> State] /\ terminal[t] \in State /\ Served(t) /\ "create" \in Screens
  BY States DEF Screens
<1>1. CASE ~At(t, "closed") /\ Become(t, Prompt(terminal[t]))
  <2> DEFINE state == Prompt(terminal[t])
  <2>1. /\ state \in State /\ state.screen = "prompt" /\ state.current \in Conversations
        /\ state.forced \in {NoConversation, state.current} /\ Become(t, state)
    BY <1>1, AtPrompt
  <2> HIDE DEF state
  <2>2. Served(t)'
    BY <1>0, <2>1 DEF Become, Served, At
  <2> QED BY <2>1, <2>2, OneActs
<1>2. CASE At(t, "deleting") /\ Become(t, [terminal[t] EXCEPT !.screen = "create"])
  <2> DEFINE state == [terminal[t] EXCEPT !.screen = "create"]
  <2>1. /\ state \in State /\ state.screen = "create" /\ state.current = terminal[t].current
        /\ state.forced = terminal[t].forced /\ Become(t, state)
    BY <1>0, <1>2 DEF State
  <2>2. state.current \in Conversations /\ state.forced \in {NoConversation, state.current}
    BY <1>0, <1>2, <2>1 DEF Served, At
  <2> HIDE DEF state
  <2>3. Served(t)'
    BY <1>0, <2>1, <2>2 DEF Become, Served, At
  <2> QED BY <2>1, <2>3, OneActs
<1>3. CASE /\ Become(t, terminal[t])
           /\ At(t, "cancelling") => cancelling'[t] = cancelling[t]
           /\ At(t, "deleting") => deleting'[t] = deleting[t]
  <2>1. terminal'[t] = terminal[t]
    BY <1>0, <1>3 DEF Become
  <2>2. At(t, "running") => terminal[t].run \in LiveRuns'
    BY <1>0, QuietEffect DEF ChatInv, QuietGoal, Served
  <2>3. \A r \in Runs : questions[r] <= questions'[r]
    BY DEF ChatInv, ServerInv
  <2>4. ServerInv' => Served(t)'
    BY <1>3, <2>1, <2>2, <2>3, QuietIsNext, StaysServed
  <2> QED BY <1>0, <1>3, <2>4, OneActs
<1> QED BY <1>1, <1>2, <1>3

LEMMA CancelSentInv ==
  ASSUME ChatInv, NEW t \in Terminals, CancelSent(t)
  PROVE  ChatInv'
<1>0. terminal[t] \in State /\ Served(t) /\ At(t, "cancel") /\ "cancelling" \in Screens
  BY States DEF CancelSent, Screens
<1>1. CASE CancelRun(t, terminal[t].run) /\ Goto(t, "cancelling")
  <2> DEFINE state == [terminal[t] EXCEPT !.screen = "cancelling"]
  <2>a. Become(t, state)
    BY <1>1, States
  <2>b. /\ state \in State /\ state.screen = "cancelling"
        /\ state.run = terminal[t].run /\ state.current = terminal[t].current
        /\ state.forced = terminal[t].forced
    BY <1>0 DEF State
  <2>c. terminal'[t] = state
    <3> HIDE DEF state
    <3> QED BY <2>a, States DEF Become
  <2>1. /\ Become(t, state) /\ state \in State /\ state.screen = "cancelling"
        /\ state.run = terminal[t].run /\ state.current = terminal[t].current
        /\ state.forced = terminal[t].forced /\ terminal'[t] = state
    BY <2>a, <2>b, <2>c
  <2>2. /\ terminal[t].run \in Runs /\ terminal[t].current \in Conversations
        /\ terminal[t].forced \in {NoConversation, terminal[t].current}
    BY <1>0, <1>1 DEF Served, At, CancelRun, Cancellable, ActiveTasks
  <2>3. /\ cancelling \in [Calls -> Runs \cup {NoRun}]
        /\ cancelling' = [cancelling EXCEPT ![t] = terminal[t].run] /\ UNCHANGED deleting
    BY <1>1 DEF CancelRun, ChatInv, ServerInv, HandlerInv, TypeOK
  <2>4. /\ cancelling'[t] = terminal[t].run
        /\ \A u \in Terminals \ {t} : cancelling'[u] = cancelling[u] /\ deleting'[u] = deleting[u]
    BY <2>3 DEF Terminals
  <2> HIDE DEF state
  <2>5. Served(t)'
    BY <2>1, <2>2, <2>4 DEF Served, At
  <2>6. Quiet
    BY <1>1, <2>2 DEF Quiet, Terminals
  <2> QED BY <2>1, <2>4, <2>5, <2>6, OneActs DEF CancelSent
<1>2. CASE Become(t, Prompt(terminal[t])) /\ UNCHANGED vars
  BY <1>0, <1>2, PromptShown DEF CancelSent, At
<1>3. CASE CancelEndedRun(terminal[t].run) /\ Become(t, Prompt(terminal[t]))
  <2>1. terminal[t].run \in Runs /\ UNCHANGED callVars
    BY <1>3 DEF CancelEndedRun, Cancellable, ActiveTasks
  <2>2. Quiet
    BY <1>3, <2>1 DEF Quiet
  <2>3. /\ ~At(t, "closed") /\ UNCHANGED <<questions, usageVars>>
        /\ \A u \in Terminals \ {t} : cancelling'[u] = cancelling[u] /\ deleting'[u] = deleting[u]
    BY <1>0, <2>1 DEF CancelSent, At, callVars
  <2> QED BY <1>3, <2>2, <2>3, AnswerShown
<1> QED BY <1>1, <1>2, <1>3 DEF CancelSent

\* The reply to a delete or cancel call.
LEMMA CallAnswered ==
  ASSUME ChatInv, NEW t \in Terminals, Deleted(t) \/ Cancelled(t)
  PROVE  ChatInv'
<1>0. /\ cancelling \in [Calls -> Runs \cup {NoRun}]
      /\ deleting \in [Calls -> Conversations \cup {NoConversation}]
  BY DEF ChatInv, ServerInv, HandlerInv, TypeOK
<1>1. CASE Deleted(t)
  <2>1. DeleteReturns(t) \/ DeleteFails(t)
    BY <1>1 DEF Deleted
  <2>2. /\ UNCHANGED <<cancelling, questions, usageVars>>
        /\ deleting' = [deleting EXCEPT ![t] = NoConversation] /\ Quiet
    BY <1>1, <2>1 DEF Deleted, DeleteReturns, DeleteFails, Quiet, Terminals
  <2>3. \A u \in Terminals \ {t} : cancelling'[u] = cancelling[u] /\ deleting'[u] = deleting[u]
    BY <1>0, <2>2 DEF Terminals
  <2>4. \/ ~At(t, "closed") /\ Become(t, Prompt(terminal[t]))
        \/ At(t, "deleting") /\ Become(t, [terminal[t] EXCEPT !.screen = "create"])
        \/ ~At(t, "deleting") /\ Become(t, terminal[t])
    BY <1>1, States DEF Deleted, GoesOn, At
  <2> QED BY <2>2, <2>3, <2>4, AnswerShown
<1>2. CASE Cancelled(t)
  <2>1. /\ UNCHANGED <<deleting, questions, usageVars>>
        /\ cancelling' = [cancelling EXCEPT ![t] = NoRun] /\ Quiet
    BY <1>2 DEF Cancelled, CancelReturns, Quiet, callVars, Terminals
  <2>2. \A u \in Terminals \ {t} : cancelling'[u] = cancelling[u] /\ deleting'[u] = deleting[u]
    BY <1>0, <2>1 DEF Terminals
  <2>3. \/ ~At(t, "closed") /\ Become(t, Prompt(terminal[t]))
        \/ ~At(t, "cancelling") /\ Become(t, terminal[t])
    BY <1>2 DEF Cancelled, GoesOn, At
  <2> QED BY <2>1, <2>2, <2>3, AnswerShown
<1> QED BY <1>1, <1>2

-----------------------------------------------------------------------------
\* A request ends: the terminals that wait for it read its outcome.
LEMMA RequestAnswered ==
  ASSUME ChatInv, ServerInv', [Next]_vars, NEW r \in Runs, NEW outcome, NEW question \in 0..MaxQuestions,
         RequestEnds(r, outcome, question), LiveRuns \ {r} \subseteq LiveRuns',
         UNCHANGED <<cancelling, deleting>>, \A q \in Runs : questions[q] <= questions'[q],
         outcome = "interrupted" => question \in 1..questions'[r]
  PROVE  ChatInv'
<1>1. terminal \in [Terminals -> State] /\ \A t \in Terminals : Served(t)
  BY DEF ChatInv, TerminalsAreServed, ChatTypeOK, State
<1>2. \A t \in Terminals :
        terminal'[t] = IF At(t, "running") /\ terminal[t].run = r
                       THEN Replied(terminal[t], outcome, question) ELSE terminal[t]
  BY DEF RequestEnds
<1>3. ASSUME NEW t \in Terminals, ~(At(t, "running") /\ terminal[t].run = r)
      PROVE  terminal'[t] \in State /\ Served(t)'
  <2>1. terminal'[t] = terminal[t] /\ (At(t, "running") => terminal[t].run \in LiveRuns')
    BY <1>1, <1>2, <1>3 DEF Served
  <2> QED BY <1>1, <2>1, StaysServed
<1>4. ASSUME NEW t \in Terminals, At(t, "running"), terminal[t].run = r
      PROVE  terminal'[t] \in State /\ Served(t)'
  <2> DEFINE state == Replied(terminal[t], outcome, question)
  <2>1. /\ terminal'[t] = state /\ terminal[t] \in State /\ Served(t) /\ ~At(t, "closed")
        /\ "ask" \in Screens
    BY <1>1, <1>2, <1>4 DEF At, Screens
  <2>2. CASE outcome = "interrupted"
    <3>1. state = [terminal[t] EXCEPT !.screen = "ask", !.question = question]
      BY <2>2 DEF Replied
    <3>2. /\ state \in State /\ state.screen = "ask" /\ state.question = question /\ state.run = r
          /\ state.current = terminal[t].current /\ state.forced = terminal[t].forced
      BY <1>4, <2>1, <3>1 DEF State
    <3>3. /\ state.current \in Conversations /\ state.forced \in {NoConversation, state.current}
          /\ convOf[r] = state.current
      BY <1>4, <2>1, <3>2 DEF Served, RunsOf
    <3>4. convOf'[r] = state.current
      BY <3>3, RunsStay DEF ChatInv, ServerInv
    <3> HIDE DEF state
    <3> QED BY <2>1, <2>2, <3>2, <3>3, <3>4 DEF Served, At, RunsOf
  <2>3. CASE outcome = "completed"
    <3>1. state = Prompt(terminal[t])
      BY <2>3 DEF Replied
    <3>2. /\ state \in State /\ state.screen = "prompt" /\ state.current \in Conversations
          /\ state.forced \in {NoConversation, state.current}
      BY <2>1, <3>1, AtPrompt
    <3> HIDE DEF state
    <3> QED BY <2>1, <3>2 DEF Served, At
  <2>4. CASE outcome \notin {"interrupted", "completed"}
    <3>1. state = Closed
      BY <2>4 DEF Replied
    <3>2. Closed \in State
      BY States
    <3> QED BY <2>1, <3>1, <3>2 DEF Served, At, Closed
  <2> QED BY <2>2, <2>3, <2>4
<1>5. ChatTypeOK'
  <2>1. DOMAIN terminal' = Terminals /\ terminal' = [t \in Terminals |-> terminal'[t]]
    BY DEF RequestEnds
  <2> QED BY <1>3, <1>4, <2>1 DEF ChatTypeOK, State, ServerInv
<1> QED BY <1>3, <1>4, <1>5 DEF ChatInv, TerminalsAreServed, ServerInv

\* A step of the server that no terminal sees.
LEMMA Unseen ==
  ASSUME ChatInv, ServerInv', [Next]_vars, UNCHANGED <<terminal, cancelling, deleting>>,
         LiveRuns \subseteq LiveRuns', \A q \in Runs : questions[q] <= questions'[q]
  PROVE  ChatInv'
<1>1. ASSUME NEW t \in Terminals PROVE Served(t)'
  <2>1. At(t, "running") => terminal[t].run \in LiveRuns'
    BY States DEF Served
  <2> QED BY <2>1, StaysServed
<1>2. ChatTypeOK'
  BY DEF ChatInv, ServerInv, TerminalsAreServed, ChatTypeOK
<1> QED BY <1>1, <1>2 DEF ChatInv, TerminalsAreServed, ServerInv

\* A crash closes the terminals whose connection breaks; the others wait for nothing.
LEMMA CrashSeen ==
  ASSUME ChatInv, ServerInv', ServerDies
  PROVE  ChatInv'
<1>1. terminal \in [Terminals -> State] /\ \A t \in Terminals : Served(t)
  BY DEF ChatInv, TerminalsAreServed, ChatTypeOK, State
<1>2. /\ [Next]_vars /\ UNCHANGED questions
      /\ \A t \in Terminals : terminal'[t] = IF CutOff(t) THEN Closed ELSE terminal[t]
      /\ terminal' = [t \in Terminals |-> terminal'[t]]
  BY DEF ServerDies, Next
<1>3. ASSUME NEW t \in Terminals, CutOff(t)
      PROVE  terminal'[t] \in State /\ Served(t)'
  <2>1. terminal'[t] = Closed /\ Closed \in State
    BY <1>2, <1>3, States
  <2> QED BY <2>1 DEF Served, At, Closed
<1>4. ASSUME NEW t \in Terminals, ~CutOff(t)
      PROVE  terminal'[t] \in State /\ Served(t)'
  <2>1. terminal'[t] = terminal[t] /\ ~At(t, "running") /\ ~At(t, "cancelling") /\ ~At(t, "deleting")
    BY <1>2, <1>4 DEF CutOff, Waiting, At
  <2>2. \A q \in Runs : questions[q] <= questions'[q]
    BY <1>2 DEF ChatInv, ServerInv
  <2> QED BY <1>1, <1>2, <2>1, <2>2, StaysServed
<1>5. ChatTypeOK'
  BY <1>2, <1>3, <1>4 DEF ChatTypeOK, State, ServerInv
<1> QED BY <1>3, <1>4, <1>5 DEF ChatInv, TerminalsAreServed, ServerInv

\* Every step of the terminals and their server keeps ChatInv.
LEMMA ChatStep == ChatInv /\ [ChatNext]_allVars => ChatInv'
<1> SUFFICES ASSUME ChatInv, [ChatNext]_allVars PROVE ChatInv'
  OBVIOUS
<1>0. /\ TypeOK /\ HandlerInv /\ questions \in [Runs -> 0..MaxQuestions]
      /\ [Next]_vars => HandlerInv'
  BY TypeStep, HandlerStep DEF ChatInv, ServerInv, HandlerInv
<1>1. ASSUME NEW t \in Terminals, Command(t)
      PROVE  ChatInv'
  BY <1>1, OpenNewInv, SendTextInv, AnswerQuestionInv, ShowingInv, DeleteConfirmedInv, CancelSentInv
     DEF Command
<1>2. ASSUME NEW r \in Runs, ModelAnswers(r)
      PROVE  ChatInv'
  <2>1. /\ [Next]_vars /\ UNCHANGED <<terminal, cancelling, deleting, questions>>
    BY <1>2 DEF ModelAnswers, vars, callVars
  <2>2. ServerInv' /\ LiveRuns' = LiveRuns
    BY <1>0, <1>2, <2>1, ModelAnswersInv DEF ChatInv
  <2> QED BY <1>0, <2>1, <2>2, Unseen
<1>3. ASSUME NEW r \in Runs, GraphEnds(r)
      PROVE  ChatInv'
  <2>1. /\ [Next]_vars /\ UNCHANGED <<terminal, cancelling, deleting>>
    BY <1>3 DEF GraphEnds, GraphTaskEnds, callVars, Next, RunStep
  <2>2. ServerInv' /\ LiveRuns' = LiveRuns
    BY <1>0, <1>3, <2>1, GraphEndsInv DEF ChatInv
  <2>3. PICK outcome \in Outcomes : graph' = [graph EXCEPT ![r] = outcome]
    BY <1>3 DEF GraphEnds, GraphTaskEnds
  <2>4. \A q \in Runs : questions[q] <= questions'[q]
    BY <1>3, <2>3, Counted DEF GraphEnds, ChatInv
  <2> QED BY <2>1, <2>2, <2>4, Unseen
<1>4. ASSUME NEW r \in Runs, SendEnds(r)
      PROVE  ChatInv'
  <2>1. /\ [Next]_vars /\ UNCHANGED <<cancelling, deleting, questions>>
        /\ RequestEnds(r, graph[r], questions[r]) /\ LiveRuns \ {r} \subseteq LiveRuns'
    BY <1>0, <1>4 DEF SendEnds, SendReturns, callVars, Next, RunStep, LiveRuns, ActiveTasks, TypeOK
  <2>2. ServerInv'
    BY <1>0, <1>4, <2>1, SendEndsInv DEF ChatInv
  <2>3. graph[r] = "interrupted" => questions[r] \in 1..questions'[r]
    BY <1>0, <2>1 DEF ChatInv, ServerInv, QuestionsAreAsked
  <2> QED BY <1>0, <2>1, <2>2, <2>3, RequestAnswered
<1>5. ASSUME NEW r \in Runs, ResumeEnds(r)
      PROVE  ChatInv'
  <2>1. /\ [Next]_vars /\ UNCHANGED <<cancelling, deleting>> /\ CountQuestion(r)
        /\ RequestEnds(r, graph'[r], questions'[r]) /\ LiveRuns \ {r} \subseteq LiveRuns'
    BY <1>0, <1>5 DEF ResumeEnds, ResumeReturns, callVars, Next, RunStep, LiveRuns, ActiveTasks
  <2>2. ServerInv'
    BY <1>0, <1>5, <2>1, ResumeEndsInv DEF ChatInv
  <2>3. PICK outcome \in Outcomes : graph' = [graph EXCEPT ![r] = outcome]
    BY <1>5 DEF ResumeEnds, ResumeReturns
  <2>4. /\ questions' \in [Runs -> 0..MaxQuestions]
        /\ \A q \in Runs : questions[q] <= questions'[q]
        /\ graph'[r] = "interrupted" => questions'[r] > 0
    BY <2>1, <2>3, Counted DEF ChatInv
  <2>5. questions'[r] \in 0..MaxQuestions /\ (graph'[r] = "interrupted" => questions'[r] \in 1..questions'[r])
    BY <2>4
  <2> QED BY <2>1, <2>2, <2>4, <2>5, RequestAnswered
<1>6. ASSUME NEW t \in Terminals, Deleted(t) \/ Cancelled(t)
      PROVE  ChatInv'
  BY <1>6, CallAnswered
<1>7. CASE Inside
  <2>1. Quiet /\ UNCHANGED <<questions, usageVars, terminal>>
    BY <1>7 DEF Inside, Quiet, chatVars, Terminals
  <2>2. ServerInv' /\ LiveRuns \subseteq LiveRuns' /\ [Next]_vars
    BY <1>0, <2>1, QuietIsNext, QuietStep, QuietEffect DEF ChatInv, QuietGoal
  <2>3. UNCHANGED <<cancelling, deleting>>
    BY <1>7 DEF Inside, GraphCheckpoint, DeleteThread, Restart, callVars
  <2> QED BY <1>0, <2>1, <2>2, <2>3, Unseen
<1>8. CASE ServerDies
  <2>1. [Next]_vars
    BY <1>8 DEF ServerDies, Next
  <2> QED BY <1>0, <1>8, <2>1, ServerDiesInv, CrashSeen DEF ChatInv
<1>9. CASE UNCHANGED allVars
  <2>1. Quiet /\ UNCHANGED <<questions, usageVars, terminal, cancelling, deleting>>
    BY <1>9 DEF allVars, Quiet, chatVars, vars, callVars
  <2>2. ServerInv' /\ LiveRuns \subseteq LiveRuns' /\ [Next]_vars
    BY <1>0, <2>1, QuietIsNext, QuietStep, QuietEffect DEF ChatInv, QuietGoal
  <2> QED BY <1>0, <2>1, <2>2, Unseen
<1> QED BY <1>1, <1>2, <1>3, <1>4, <1>5, <1>6, <1>7, <1>8, <1>9 DEF ChatNext, ServerStep

LEMMA ChatInitInv == ChatInit => ChatInv
<1> SUFFICES ASSUME ChatInit PROVE ChatInv
  OBVIOUS
<1>1. HandlerInv /\ 0 \in 0..MaxQuestions /\ IsFiniteSet({}) /\ Cardinality({}) = 0
  BY HandlerInit, MaxQuestionsAssumption, FS_EmptySet DEF ChatInit
<1>2. Executing = {} /\ resuming = {}
  BY DEF ChatInit, Init, Executing
<1>3. ServerInv
  BY <1>1, <1>2 DEF ServerInv, ChatInit, Init, QuestionsAreAsked, LedgerIsComplete
<1>4. Closed \in State
  BY <1>1 DEF Closed, State, Screens
<1> QED BY <1>3, <1>4
        DEF ChatInv, TerminalsAreServed, ChatTypeOK, State, Served, At, Closed, ChatInit, ServerInv

LEMMA ChatIsKept == PartsSpec => []ChatInv
<1>1. PartsInit => ChatInv
  BY ChatInitInv DEF PartsInit
<1>2. ChatInv /\ [PartsNext]_partVars => ChatInv'
  BY ChatStep DEF PartsNext, ChatMoves, MemoriesMove, DocumentsMove, ReportsMove, partVars
<1> QED BY <1>1, <1>2, PTL DEF PartsSpec

\* No terminal is left waiting, or shows a question nobody asked, for any terminals,
\* conversations and runs, through timeouts, crashes and the work of the others
\* (_execute_message, _complete_run and the commands of cli.py over the routes of api.py).
THEOREM TerminalsServed == PartsSpec => []TerminalsAreServed
BY ChatIsKept, PTL DEF ChatInv

\* Every model call of a server process is billed when its request ends, for any runs
\* (UserTokenUsageLedger.record in the routes of api.py).
THEOREM LedgerComplete == PartsSpec => []LedgerIsComplete
<1>1. ChatInv => LedgerIsComplete
  BY DEF ChatInv, ServerInv
<1> QED BY <1>1, ChatIsKept, PTL

\* The terminals, /delete and /cancel included, only take steps of ConversationService:
\* what Conversation_proofs says for any clients holds of them.
THEOREM TerminalsUseTheService == PartsSpec => Spec
<1>1. PartsInit => Init
  BY DEF PartsInit, ChatInit
<1>2. ChatInv /\ [ChatNext]_allVars => [Next]_vars
  <2> SUFFICES ASSUME ChatInv, ChatNext PROVE [Next]_vars
    BY DEF allVars
  <2>1. ASSUME NEW t \in Terminals, Command(t)
        PROVE  Quiet
    <3>1. Served(t)
      BY States
    <3>2. CASE OpenNew(t)
      BY <3>2 DEF OpenNew, Quiet
    <3>3. ASSUME NEW r \in Runs, SendText(t, r)
          PROVE  Quiet
      <4>1. terminal[t].current \in Conversations /\ SendMessage(terminal[t].current, r)
        BY <3>1, <3>3 DEF SendText, Served, At
      <4> QED BY <4>1 DEF Quiet
    <3>4. CASE AnswerQuestion(t)
      <4>1. /\ terminal[t].current \in Conversations /\ terminal[t].run \in Runs
            /\ ResumePermission(terminal[t].current, terminal[t].run)
        BY <3>1, <3>4 DEF AnswerQuestion, Served, At, RunsOf
      <4> QED BY <4>1 DEF Quiet
    <3>5. CASE DeleteConfirmed(t)
      <4>1. /\ terminal[t].target \in Conversations
            /\ Delete(t, terminal[t].target) \/ UNCHANGED vars
        BY <3>1, <3>5 DEF DeleteConfirmed, Served
      <4> QED BY <4>1 DEF Quiet, Terminals
    <3>6. CASE CancelSent(t)
      <4>1. \/ /\ terminal[t].run \in Runs
               /\ CancelRun(t, terminal[t].run) \/ CancelEndedRun(terminal[t].run)
            \/ UNCHANGED vars
        BY <3>6 DEF CancelSent, CancelRun, CancelEndedRun, Cancellable, ActiveTasks
      <4> QED BY <4>1 DEF Quiet, Terminals
    <3>7. CASE \/ SearchMode(t) \/ Switch(t) \/ Detail(t) \/ DeleteCommand(t)
               \/ CancelCommand(t) \/ Leave(t)
      BY <3>7 DEF SearchMode, Switch, Detail, DeleteCommand, CancelCommand, Leave, Quiet
    <3> QED BY <2>1, <3>2, <3>3, <3>4, <3>5, <3>6, <3>7 DEF Command
  <2>2. ASSUME NEW r \in Runs, ModelAnswers(r) \/ GraphEnds(r) \/ SendEnds(r) \/ ResumeEnds(r)
        PROVE  [Next]_vars
    BY <2>2 DEF ModelAnswers, GraphEnds, SendEnds, ResumeEnds, Next, RunStep
  <2>3. ASSUME NEW t \in Terminals, Deleted(t) \/ Cancelled(t)
        PROVE  Quiet
    BY <2>3 DEF Deleted, Cancelled, Quiet, Terminals
  <2>4. Inside => Quiet
    BY DEF Inside, Quiet, Terminals
  <2>5. ServerDies => Next
    BY DEF ServerDies, Next
  <2> QED BY <2>1, <2>2, <2>3, <2>4, <2>5, QuietIsNext DEF ChatNext, ServerStep
<1>3. ChatInv /\ [PartsNext]_partVars => [Next]_vars
  BY <1>2 DEF PartsNext, ChatMoves, MemoriesMove, DocumentsMove, ReportsMove, partVars, allVars
<1> QED BY <1>1, <1>3, ChatIsKept, PTL DEF PartsSpec, Spec

\* Whatever several terminals do at once, time out on or leave behind, no row says
\* running without a handler that will settle it, and none they delete comes back.
THEOREM TerminalsLeaveNoLock == PartsSpec => []RunningHasHandler /\ DeletedIsFinal
BY TerminalsUseTheService, NoLeakedLock, DeletedStays, PTL
=============================================================================
