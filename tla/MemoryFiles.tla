---------------------------- MODULE MemoryFiles ----------------------------
(***************************************************************************)
(* FileMemoryStore (src/services/stores.py): the memories of one user, one *)
(* Markdown file each, with an index file and a history file per memory.   *)
(* An upsert runs in a worker thread under the store's RLock and touches   *)
(* the three files one after the other; it may outlive the tool call that  *)
(* started it, raise half way, or die with the process.  The prompt of     *)
(* every turn lists and searches the same files.                           *)
(*                                                                         *)
(* A draft's content is "text" or "blank": blank stands for what a draft   *)
(* accepts and a file cannot give back (white space only, which is written *)
(* stripped, or tags so long that the file passes its size limit).  Tags   *)
(* are left out otherwise: merging too many refuses the upsert before      *)
(* anything is written.                                                    *)
(***************************************************************************)
EXTENDS Naturals, Sequences, FiniteSets, SequencesExt

CONSTANTS
  Names,
  MaxMemories,   \* max_memories
  Writers,       \* worker threads in an upsert
  MaxRevision    \* bound: revisions of a memory

VARIABLES
  file,      \* the entry in <name>.md: revision 0 when there is none
  index,     \* the revision MEMORY.md gives for each name, 0 when it has none
  history,   \* the revisions in .history/<name>.jsonl
  lock,      \* the writer inside the RLock, or "free"
  stage,     \* "idle", "write", "log", "index" per writer
  entry,     \* the entry a writer is about to store
  last,      \* how the last upsert that wrote ended: "none", "ok", "raised"
  up,        \* a process has the store open
  prompt     \* what the system prompt of a turn has read: the index, then bodies

vars == <<file, index, history, lock, stage, entry, last, up, prompt>>

NoEntry == [revision |-> 0, content |-> "text"]
Entries == [revision : 0..MaxRevision, content : {"text", "blank"}]
NoRevisions == [n \in Names |-> 0]
NoDrafts == [w \in Writers |-> [name |-> CHOOSE n \in Names : TRUE, entry |-> NoEntry]]
NoPrompt == [stage |-> "none", listed |-> NoRevisions, bodies |-> NoRevisions]

TypeOK ==
  /\ file \in [Names -> Entries]
  /\ index \in [Names -> 0..MaxRevision]
  /\ history \in [Names -> Seq(1..MaxRevision)]
  /\ lock \in Writers \cup {"free"}
  /\ stage \in [Writers -> {"idle", "write", "log", "index"}]
  /\ entry \in [Writers -> [name : Names, entry : Entries]]
  /\ last \in {"none", "ok", "raised"}
  /\ up \in BOOLEAN
  /\ prompt \in [stage : {"none", "listed", "built"},
                 listed : [Names -> 0..MaxRevision], bodies : [Names -> 0..MaxRevision]]

Init ==
  /\ file = [n \in Names |-> NoEntry]
  /\ index = NoRevisions
  /\ history = [n \in Names |-> <<>>]
  /\ lock = "free"
  /\ stage = [w \in Writers |-> "idle"]
  /\ entry = NoDrafts
  /\ last = "none"
  /\ up = TRUE
  /\ prompt = NoPrompt

-----------------------------------------------------------------------------
Exists(n) == file[n].revision > 0
Stored == {n \in Names : Exists(n)}

\* _read_entry gives the entry back; otherwise it raises InvalidMemoryFileError.
Readable(n) == file[n].content = "text"
AllReadable == \A n \in Stored : Readable(n)

Revisions == [n \in Names |-> file[n].revision]

Leave(w) == lock' = "free" /\ entry' = [entry EXCEPT ![w] = NoDrafts[w]]

Step(w, from, to) == stage[w] = from /\ stage' = [stage EXCEPT ![w] = to]

\* Mutant: upsert works without the lock.
NobodyBlocks(w) == TRUE

LockFree(w) == lock = "free"

\* upsert under the lock: an unreadable entry of that name or a full store raises
\* before anything is written.
BeginUpsert(w) ==
  /\ up /\ LockFree(w)
  /\ \E n \in Names, content \in {"text", "blank"} :
       /\ Exists(n) => Readable(n)
       /\ ~Exists(n) => Cardinality(Stored) < MaxMemories
       /\ file[n].revision < MaxRevision
       /\ entry' = [entry EXCEPT ![w] =
            [name |-> n, entry |-> [revision |-> file[n].revision + 1, content |-> content]]]
  /\ Step(w, "idle", "write")
  /\ lock' = w
  /\ UNCHANGED <<file, index, history, last, up, prompt>>

\* _write_entry: the file is replaced as a whole.
WriteEntry(w) ==
  /\ Step(w, "write", "log")
  /\ file' = [file EXCEPT ![entry[w].name] = entry[w].entry]
  /\ UNCHANGED <<index, history, lock, entry, last, up, prompt>>

\* _append_history.
AppendHistory(w) ==
  /\ Step(w, "log", "index")
  /\ history' = [history EXCEPT ![entry[w].name] = Append(@, entry[w].entry.revision)]
  /\ UNCHANGED <<file, index, lock, entry, last, up, prompt>>

\* Mutant: the index is updated for the written entry alone.
IndexOfEntry(w) == [index EXCEPT ![entry[w].name] = entry[w].entry.revision]

\* The lines _rebuild_index writes.
RebuiltIndex(w) == Revisions

\* _rebuild_index reads every file again, and raises at the first unreadable one.
RebuildIndex(w) ==
  /\ Step(w, "index", "idle")
  /\ IF AllReadable THEN index' = RebuiltIndex(w) /\ last' = "ok"
                    ELSE last' = "raised" /\ UNCHANGED index
  /\ Leave(w)
  /\ UNCHANGED <<file, history, up, prompt>>

\* One of the three writes raises: the earlier ones stay, the later ones are left out.
WriteFails(w) ==
  /\ stage[w] \in {"write", "log", "index"}
  /\ stage' = [stage EXCEPT ![w] = "idle"]
  /\ Leave(w)
  /\ last' = IF stage[w] = "write" THEN last ELSE "raised"
  /\ UNCHANGED <<file, index, history, up, prompt>>

\* MemoryPromptProvider.provide lists the index under the lock ...
ListIndex ==
  /\ up /\ lock = "free" /\ AllReadable
  /\ prompt.stage # "listed"
  /\ prompt' = [stage |-> "listed", listed |-> Revisions, bodies |-> NoRevisions]
  /\ UNCHANGED <<file, index, history, lock, stage, entry, last, up>>

\* Mutant: the search trusts the index file.
FoundByIndex == index

\* What search reads from the files.
Found == Revisions

\* ... and then, under the lock again, searches the files for relevant bodies;
\* any of them may be relevant.
Search ==
  /\ up /\ lock = "free" /\ AllReadable
  /\ prompt.stage = "listed"
  /\ prompt' = [prompt EXCEPT !.stage = "built", !.bodies = Found]
  /\ UNCHANGED <<file, index, history, lock, stage, entry, last, up>>

\* The process dies, also between two writes.
Crash ==
  /\ up
  /\ up' = FALSE
  /\ lock' = "free"
  /\ stage' = [w \in Writers |-> "idle"]
  /\ entry' = NoDrafts
  /\ prompt' = NoPrompt
  /\ last' = IF \E w \in Writers : stage[w] \in {"log", "index"} THEN "raised" ELSE last
  /\ UNCHANGED <<file, index, history>>

\* FileMemoryStore.__init__ rebuilds the index, or raises and there is no store.
Restart ==
  /\ ~up /\ AllReadable
  /\ up' = TRUE
  /\ index' = Revisions
  /\ last' = "ok"
  /\ UNCHANGED <<file, history, lock, stage, entry, prompt>>

-----------------------------------------------------------------------------
UpsertStep(w) == WriteEntry(w) \/ AppendHistory(w) \/ RebuildIndex(w)

Next ==
  \/ \E w \in Writers : BeginUpsert(w) \/ UpsertStep(w) \/ WriteFails(w)
  \/ ListIndex \/ Search \/ Crash \/ Restart

Spec == Init /\ [][Next]_vars

-----------------------------------------------------------------------------
Increasing(s) == \A i, j \in DOMAIN s : i < j => s[i] < s[j]

\* What an upsert under way has drawn and written, and what is still to come.
UpsertsInStep ==
  \A w \in Writers : LET n == entry[w].name
                         revision == entry[w].entry.revision
                     IN
    /\ stage[w] # "idle" => lock = w
    /\ stage[w] = "write" => /\ revision = file[n].revision + 1
                             /\ ~Exists(n) => Cardinality(Stored) < MaxMemories
    /\ stage[w] = "log" => /\ Exists(n) /\ revision = file[n].revision
                           /\ history[n] # <<>> => Last(history[n]) < revision

\* Only an upsert that has written its entry, or has raised then, leaves the index behind.
IndexFollows ==
  up /\ last # "raised" /\ (\A w \in Writers : stage[w] \notin {"log", "index"})
    => index = Revisions

\* The index of a prompt names revisions the files have reached.
ListedIsReached ==
  prompt.stage = "listed" => \A n \in Names : prompt.listed[n] <= file[n].revision

WithinLimit == Cardinality(Stored) <= MaxMemories

HistoriesInOrder ==
  \A n \in Names :
    /\ Increasing(history[n])
    /\ history[n] # <<>> => Last(history[n]) <= file[n].revision

\* Revisions of a memory are drawn once: its audit history names them in strictly
\* increasing order and never one the file has not reached, and the number of
\* memories stays within its limit, through failures and restarts.
RevisionsAreAudited ==
  /\ TypeOK /\ UpsertsInStep /\ IndexFollows /\ ListedIsReached
  /\ WithinLimit /\ HistoriesInOrder

\* Outside an upsert the index file names the current revision of every memory,
\* unless the last upsert raised; a restart repairs even that.
IndexIsCurrent == up /\ lock = "free" /\ last # "raised" => index = Revisions

\* The bodies put into a prompt are never older than the index in front of them.
PromptIsConsistent ==
  prompt.stage = "built" =>
    \A n \in Names : prompt.bodies[n] # 0 => prompt.bodies[n] >= prompt.listed[n]

\* The memories of a user can be read at any time, also after a restart.  Not so
\* once a blank entry is stored.
MemoriesReadable == lock = "free" => AllReadable

\* Every revision a memory has had is in its history once no upsert is under way.
\* Not so after a failure or crash behind WriteEntry.
HistoryIsComplete ==
  lock = "free" => \A n \in Names : Len(history[n]) = file[n].revision
=============================================================================
