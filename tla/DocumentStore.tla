--------------------------- MODULE DocumentStore ---------------------------
(***************************************************************************)
(* What is stored about a document: its row and chunk rows in PostgreSQL,  *)
(* its chunks in Elasticsearch, its graph in Neo4j, its object and upload  *)
(* parts in MinIO, and the ingestion_jobs rows.  The API writes it through *)
(* documents.service.ts, the worker through ingestion.processor.ts; both   *)
(* modules extend this one.                                                *)
(*                                                                         *)
(* A run of indexChunks gives every chunk a fresh UUID, so all chunks of   *)
(* a run share a generation: a member of Gens.  Each generation of a       *)
(* document has the child chunks Parts.                                    *)
(***************************************************************************)
EXTENDS Naturals, FiniteSets

CONSTANTS Docs,            \* documents that can be uploaded
          Content,         \* Content[d]: the sha256 of d's bytes
          Copied,          \* documents whose bytes one outside Docs may have
          Gens,            \* chunk generations (UUIDs never reused)
          Parts,           \* child chunks of one generation
          MaxFaults,       \* bound: calls to a store or service that fail
          Faulty           \* which side meets them: "api", "worker"

ASSUME StoreAssumption ==
  /\ Copied \subseteq Docs
  /\ Gens \subseteq Nat
  /\ Parts # {}
  /\ MaxFaults \in Nat
  /\ Faulty \subseteq {"api", "worker"}

VARIABLES
  status,      \* status[d]: documents.status, "absent" before the INSERT,
               \* "gone" once the row is deleted
  deleted,     \* deleted[d]: documents.deletedAt is set
  published,   \* published[d]: documents.companyPublishedAt is set
  hashed,      \* hashed[d]: documents.contentHash is set
  obj,         \* obj[d]: the merged object is in MinIO
  parts,       \* parts[d]: the uploaded .partN objects are in MinIO
  chunks,      \* chunks[d]: generations with rows in document_chunks
  es,          \* es[d]: chunks in Elasticsearch, with their company_public
  graph,       \* graph[d]: generations with nodes in Neo4j
  graphJob,    \* graphJob[d]: the GRAPH row of ingestion_jobs
  faults,      \* calls that have failed so far
  textless     \* documents no text can be extracted from: chosen at the
               \* start, and no step changes them

rowVars   == <<status, deleted, published, hashed>>
blobVars  == <<obj, parts>>
indexVars == <<chunks, es, graph, graphJob>>
storeVars == <<rowVars, blobVars, indexVars, faults>>

\* DocumentStatus of packages/shared, and the two states without a row
Processing == {"PARSING", "CHUNKING", "INDEXING", "GRAPHING"}
NoRow      == {"absent", "gone"}
Status     == NoRow \union Processing \union
              {"UPLOADED", "PENDING_REVIEW", "REJECTED", "READY", "FAILED"}

\* an Elasticsearch document: which chunk it is, and its company_public flag
EsChunk == [gen: Gens, part: Parts, pub: BOOLEAN]

StoreTypeOK ==
  /\ status    \in [Docs -> Status]
  /\ deleted   \in [Docs -> BOOLEAN]
  /\ published \in [Docs -> BOOLEAN]
  /\ hashed    \in [Docs -> BOOLEAN]
  /\ obj       \in [Docs -> BOOLEAN]
  /\ parts     \in [Docs -> BOOLEAN]
  /\ chunks    \in [Docs -> SUBSET Gens]
  /\ es        \in [Docs -> SUBSET EsChunk]
  /\ graph     \in [Docs -> SUBSET Gens]
  /\ graphJob  \in [Docs -> {"none", "done", "failed"}]
  /\ faults    \in 0..MaxFaults

StoreInit ==
  /\ status    = [d \in Docs |-> "absent"]
  /\ deleted   = [d \in Docs |-> FALSE]
  /\ published = [d \in Docs |-> FALSE]
  /\ hashed    = [d \in Docs |-> FALSE]
  /\ obj       = [d \in Docs |-> FALSE]
  /\ parts     = [d \in Docs |-> FALSE]
  /\ chunks    = [d \in Docs |-> {}]
  /\ es        = [d \in Docs |-> {}]
  /\ graph     = [d \in Docs |-> {}]
  /\ graphJob  = [d \in Docs |-> "none"]
  /\ faults    = 0

\* a call made by `side' fails
Fault(side) ==
  /\ side \in Faulty
  /\ faults < MaxFaults
  /\ faults' = faults + 1

Exists(d) == status[d] \notin NoRow

\* mustGet: a soft-deleted document answers 404
Visible(d) == Exists(d) /\ ~deleted[d]

\* transition, in the API and in the worker: UPDATE documents SET status
\* WHERE id, which touches nothing when the row has been deleted
transition(d, s) ==
  status' = [status EXCEPT ![d] = IF @ \in NoRow THEN @ ELSE s]

\* UPDATE documents SET companyPublishedAt WHERE id
SetPublished(d, flag) ==
  published' = [published EXCEPT ![d] = IF Exists(d) THEN flag ELSE @]

\* findDuplicate: another live document of Docs has the same content
findDuplicate(d) ==
  \E e \in Docs \ {d} :
    /\ hashed[e] /\ Content[e] = Content[d]
    /\ Visible(e)
    /\ status[e] # "REJECTED"

\* the generations some store still refers to; a new one is none of them
UsedGens(d) == chunks[d] \union {c.gen : c \in es[d]} \union graph[d]

\* Elasticsearch documents of generation g with flag pub
EsOf(g, ps, pub) == {[gen |-> g, part |-> p, pub |-> pub] : p \in ps}

\* setCompanyPublic: updateByQuery over the document's chunks
setCompanyPublic(d, flag) ==
  es' = [es EXCEPT ![d] = {[c EXCEPT !.pub = flag] : c \in @}]
=============================================================================
