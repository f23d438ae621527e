--------------------------- MODULE DocumentIndex ---------------------------
(***************************************************************************)
(* The index of a knowledge directory: IngestionService.index_directory    *)
(* (src/services/rag/ingestion.py) run by `agent index`, over the pgvector *)
(* collection and its manifest table (src/services/rag/vector_store.py).   *)
(*                                                                         *)
(* A document is replaced by three transactions: add the chunks of the new *)
(* version, delete the chunks the manifest lists, update the manifest.     *)
(* Any of them can fail and the process can die between them.  The chunks  *)
(* of a version are written and deleted together, so a version stands for  *)
(* its chunks; their ids contain the content hash, so two versions share   *)
(* none.  The source files change while an indexer works on what it read.  *)
(***************************************************************************)
EXTENDS Naturals, FiniteSets

CONSTANTS
  Documents,
  versionsOf,    \* contents each document may have
  Absent,        \* no file, no manifest row
  Indexers,      \* processes that run `agent index`
  modelOf,       \* the embedding model each is configured with
  OneAtATime     \* TRUE: nobody starts an indexer while another is at work

VARIABLES
  source,     \* the files of the directory
  chunks,     \* the chunks of the collection: document, version, embedding model
  manifest,   \* rag manifest row of each document
  run,        \* the state of each indexer
  torn        \* documents whose replacement has been broken off after its first write

vars == <<source, chunks, manifest, run, torn>>

Versions == UNION {versionsOf[d] : d \in Documents}
Rows == [version : Versions, model : {modelOf[i] : i \in Indexers}]
NoRow == [version |-> Absent, model |-> Absent]
NoDocument == [document |-> Absent, previous |-> Absent]

\* loaded: the documents still to consider, as they were read.
Idle == [stage |-> "idle", loaded |-> [d \in Documents |-> Absent], rebuild |-> FALSE,
         now |-> NoDocument]

ToDo(i) == {d \in Documents : run[i].loaded[d] # Absent}

TypeOK ==
  /\ source \in [Documents -> Versions \cup {Absent}]
  /\ chunks \subseteq [document : Documents, version : Versions,
                       model : {modelOf[i] : i \in Indexers}]
  /\ manifest \in [Documents -> Rows \cup {NoRow}]
  /\ run \in [Indexers ->
       [stage : {"idle", "next", "add", "delete", "mark"},
        loaded : [Documents -> Versions \cup {Absent}], rebuild : BOOLEAN,
        now : [document : Documents \cup {Absent}, previous : Versions \cup {Absent}]]]
  /\ torn \subseteq Documents

Contents(d) == versionsOf[d] \cup {Absent}

Init ==
  /\ source \in {s \in [Documents -> Versions \cup {Absent}] : \A d \in Documents : s[d] \in Contents(d)}
  /\ chunks = {}
  /\ manifest = [d \in Documents |-> NoRow]
  /\ run = [i \in Indexers |-> Idle]
  /\ torn = {}

-----------------------------------------------------------------------------
\* Somebody adds, edits or removes a file.
Edit(d) ==
  /\ \E v \in Contents(d) \ {source[d]} : source' = [source EXCEPT ![d] = v]
  /\ UNCHANGED <<chunks, manifest, run, torn>>

Loaded(i) == run[i].loaded[run[i].now.document]

Row(i, d) == [version |-> run[i].loaded[d], model |-> modelOf[i]]

Goto(i, stage) == run' = [run EXCEPT ![i].stage = stage]

\* The document at work is done with: indexed, skipped or failed.
Finish(i, d) ==
  LET loaded == [run[i].loaded EXCEPT ![d] = Absent]
  IN run' = [run EXCEPT ![i] = [run[i] EXCEPT !.stage = "next", !.loaded = loaded,
                                              !.now = NoDocument]]

\* load_source_documents reads the whole directory first.
StartRun(i) ==
  /\ run[i].stage = "idle"
  /\ OneAtATime => \A j \in Indexers : run[j].stage = "idle"
  /\ \E rebuild \in BOOLEAN :
       run' = [run EXCEPT ![i] = [Idle EXCEPT
                 !.stage = "next", !.loaded = source, !.rebuild = rebuild]]
  /\ UNCHANGED <<source, chunks, manifest, torn>>

\* content_hash, embedding model, dimension and splitter version all as before.
Unchanged(i, d) == ~run[i].rebuild /\ manifest[d] = Row(i, d)

\* Mutant: the collection is not looked at.
AnyCollection(i) == TRUE

\* _assert_collection_compatible compares the model with one row of the manifest.
Compatible(i) ==
  LET rows == {manifest[d] : d \in Documents} \ {NoRow}
  IN rows = {} \/ \E row \in rows : row.model = modelOf[i]

\* The next document: skipped, or failed before anything is written (splitting,
\* embedding, or a collection of another model), or about to be replaced.
Consider(i) ==
  /\ run[i].stage = "next"
  /\ \E d \in ToDo(i) :
       \/ Unchanged(i, d) /\ Finish(i, d)
       \/ ~Unchanged(i, d) /\ Finish(i, d)
       \/ /\ ~Unchanged(i, d) /\ Compatible(i)
          /\ run' = [run EXCEPT ![i] = [@ EXCEPT !.stage = "add",
                       !.now = [document |-> d, previous |-> manifest[d].version]]]
  /\ UNCHANGED <<source, chunks, manifest, torn>>

VersionChunks(d, v) == {c \in chunks : c.document = d /\ c.version = v}

\* _store.add_embeddings.
AddChunks(i) ==
  /\ run[i].stage = "add"
  /\ chunks' = (chunks \ VersionChunks(run[i].now.document, Loaded(i)))
               \cup {[document |-> run[i].now.document, version |-> Loaded(i),
                      model |-> modelOf[i]]}
  /\ Goto(i, "delete")
  /\ UNCHANGED <<source, manifest, torn>>

\* Mutant: old ids are not subtracted by the new ones.
ReplacedAll(i) == VersionChunks(run[i].now.document, run[i].now.previous)

\* old_ids: the chunks of the previous manifest row that the new version lacks.
Replaced(i) ==
  IF run[i].now.previous = Loaded(i) THEN {}
  ELSE VersionChunks(run[i].now.document, run[i].now.previous)

\* _store.delete.
DeleteOld(i) ==
  /\ run[i].stage = "delete"
  /\ chunks' = chunks \ Replaced(i)
  /\ Goto(i, "mark")
  /\ UNCHANGED <<source, manifest, torn>>

\* The upsert of the manifest row.
Mark(i) ==
  /\ run[i].stage = "mark"
  /\ manifest' = [manifest EXCEPT ![run[i].now.document] = Row(i, run[i].now.document)]
  /\ Finish(i, run[i].now.document)
  /\ UNCHANGED <<source, chunks, torn>>

Breaks(i) ==
  torn' = IF run[i].stage \in {"delete", "mark"} THEN torn \cup {run[i].now.document} ELSE torn

\* A statement fails: the document is reported, the run goes on with the next.
StatementFails(i) ==
  /\ run[i].stage \in {"add", "delete", "mark"}
  /\ Breaks(i)
  /\ Finish(i, run[i].now.document)
  /\ UNCHANGED <<source, chunks, manifest>>

EndRun(i) ==
  /\ run[i].stage = "next" /\ ToDo(i) = {}
  /\ run' = [run EXCEPT ![i] = Idle]
  /\ UNCHANGED <<source, chunks, manifest, torn>>

\* The indexer dies.
Crash(i) ==
  /\ run[i].stage # "idle"
  /\ Breaks(i)
  /\ run' = [run EXCEPT ![i] = Idle]
  /\ UNCHANGED <<source, chunks, manifest>>

-----------------------------------------------------------------------------
RunStep(i) == Consider(i) \/ AddChunks(i) \/ DeleteOld(i) \/ Mark(i) \/ EndRun(i)

Next ==
  \/ \E d \in Documents : Edit(d)
  \/ \E i \in Indexers : StartRun(i) \/ RunStep(i) \/ StatementFails(i) \/ Crash(i)

Spec == Init /\ [][Next]_vars

-----------------------------------------------------------------------------
\* What search and the catalog find of a document.
Searchable(d) == {c.version : c \in {c \in chunks : c.document = d}}

\* A document that has been indexed once is found from then on, in whatever
\* version: no replacement, failed or broken off, leaves a gap.
IndexedStaysVisible ==
  \A d \in Documents : manifest[d] # NoRow => Searchable(d) # {}

Replacing(d) == \E i \in Indexers : run[i].now.document = d

ChunksOf(d) == {c \in chunks : c.document = d}

\* What the collection holds of a document that is as its manifest row says.
Described(d) ==
  IF manifest[d] = NoRow THEN {}
  ELSE {[document |-> d, version |-> manifest[d].version, model |-> manifest[d].model]}

\* The rows never mix models.
OneModel ==
  \A d, e \in Documents :
    manifest[d] # NoRow /\ manifest[e] # NoRow => manifest[d].model = manifest[e].model

Working(i) == run[i].stage \in {"add", "delete", "mark"}

New(i) == [document |-> run[i].now.document, version |-> Loaded(i), model |-> modelOf[i]]

OneRun == \A i, j \in Indexers : run[i].stage # "idle" /\ run[j].stage # "idle" => i = j

\* What an indexer has written and deleted so far is in the collection.
InStep(i) ==
  LET d == run[i].now.document IN
  /\ d \in ToDo(i)
  /\ run[i].now.previous = manifest[d].version
  /\ \A e \in Documents : manifest[e] # NoRow => manifest[e].model = modelOf[i]
  /\ run[i].stage \in {"delete", "mark"} => New(i) \in chunks
  /\ d \notin torn => ChunksOf(d) =
       CASE run[i].stage = "add"    -> Described(d)
         [] run[i].stage = "delete" -> {c \in Described(d) : c.version # Loaded(i)} \cup {New(i)}
         [] run[i].stage = "mark"   -> {New(i)}

\* One indexer at most is at work, and it knows the row it replaces.
RunsInStep ==
  /\ OneRun
  /\ \A i \in Indexers : IF Working(i) THEN InStep(i) ELSE run[i].now = NoDocument

CleanDocuments == \A d \in Documents \ torn : ~Replacing(d) => ChunksOf(d) = Described(d)

\* Where no replacement was broken off, the collection holds exactly the version
\* of the manifest, embedded by the model of the manifest; so a document that is
\* skipped as unchanged is there.
IndexMatchesManifest ==
  /\ TypeOK /\ OneModel /\ RunsInStep /\ CleanDocuments

\* A document the index takes for unchanged is searchable in that version.  Not so
\* after replacements that were broken off.
SkippedIsSearchable ==
  \A d \in Documents : manifest[d] # NoRow => manifest[d].version \in Searchable(d)
=============================================================================
