----------------------------- MODULE GraphStore -----------------------------
(***************************************************************************)
(* The knowledge graph in Neo4j (graph.service.ts): documents, their       *)
(* chunks, the entities of a workspace that chunks mention, and relations  *)
(* between entities.  Documents of a workspace share entities while they   *)
(* are built and deleted side by side; every session.run is a transaction  *)
(* of its own and one step here.  Limits of the queries are out of reach,  *)
(* and an entity is found by its exact name.                               *)
(***************************************************************************)
EXTENDS Integers, FiniteSets

CONSTANTS Workspaces,
          Files, Home,  \* documents, and the workspace of each
          Names,        \* of entities; each workspace has entities of its own
          RelationTypes, \* GRAPH_RELATION_TYPES
          MaxHops,      \* rag.graphMaxHops
          MaxParts,     \* bound: chunks of a document
          MaxBuilds     \* bound: builds and purges

ASSUME GraphAssumption ==
  /\ Home \in [Files -> Workspaces]
  /\ MaxHops \in Nat \ {0} /\ MaxParts \in Nat \ {0} /\ MaxBuilds \in Nat

VARIABLES
  files,    \* KnowledgeDocument nodes
  parts,    \* DocumentChunk nodes, each with HAS_CHUNK
  entities, \* KnowledgeEntity nodes: workspace and name
  mentions, \* MENTIONS, from chunks to entities
  related,  \* RELATED_TO, one for each pair of entities, with its type
  work,     \* work[f]: the build or purge of f, and what was extracted
  unswept,  \* ghost: workspaces where a deletion broke off before its sweep
  outdated, \* ghost: relations whose type another text has changed since
  builds

graphVars == <<files, parts, entities, mentions, related, work, unswept, outdated, builds>>

Part   == Files \X (1..MaxParts)
Entity == Workspaces \X Names
Extraction == [names : SUBSET Names, triples : SUBSET (Names \X RelationTypes \X Names)]
NoWork == [pc |-> "none", purge |-> FALSE, i |-> 1, said |-> <<>>]

GraphInit ==
  /\ files = {} /\ parts = {} /\ entities = {} /\ mentions = {} /\ related = {}
  /\ work = [f \in Files |-> NoWork]
  /\ unswept = {} /\ outdated = {} /\ builds = 0

\* Every variable stays in its type; nothing hangs in the air.
GraphTypeOK ==
  /\ files \subseteq Files /\ parts \subseteq Part /\ entities \subseteq Entity
  /\ mentions \subseteq parts \X entities
  /\ related \subseteq entities \X RelationTypes \X entities
  /\ outdated \subseteq Entity \X RelationTypes \X Entity
  /\ \A r, q \in related : r[1] = q[1] /\ r[3] = q[3] => r = q
  /\ \A p \in parts : p[1] \in files
  /\ \A f \in Files : \A i \in DOMAIN work[f].said : work[f].said[i] \in Extraction
  /\ unswept \subseteq Workspaces /\ builds \in 0..MaxBuilds
-----------------------------------------------------------------------------
(* entity-extractor.ts, ingestion.processor.ts *)

\* what the model answers about a chunk: at most one relation, of any names; a
\* type that is none of RelationTypes has become RELATED_TO
Raw == {[names |-> ns, triples |-> ts] :
          ns \in SUBSET Names,
          ts \in {{}} \union {{t} : t \in {r \in Names \X RelationTypes \X Names : r[1] # r[3]}}}

\* relations of names that are no entities of the chunk are dropped
toExtractionResult(raw) ==
  [raw EXCEPT !.triples = {t \in @ : t[1] \in raw.names /\ t[3] \in raw.names}]

\* a chunk whose extraction fails counts as one without entities
Extractions == {toExtractionResult(raw) : raw \in Raw}

AtRest(f) == work[f].pc \in {"none", "built", "failed"}
Begin(f, purge, said) ==
  /\ AtRest(f) /\ builds < MaxBuilds
  /\ builds' = builds + 1
  /\ work' = [work EXCEPT ![f] = [pc |-> "detach", purge |-> purge, i |-> 1, said |-> said]]
  /\ UNCHANGED <<files, parts, entities, mentions, related, unswept, outdated>>

buildGraph(f) == \E n \in 0..MaxParts : \E said \in [1..n -> Extractions] : Begin(f, FALSE, said)
purge(f) == Begin(f, TRUE, <<>>)

At_(f, pc) == work[f].pc = pc
Goto(f, pc) == work' = [work EXCEPT ![f].pc = pc]
-----------------------------------------------------------------------------
(* deleteForDocument *)

\* the document with its chunks, and what they mention with them
Detach(f) ==
  /\ At_(f, "detach") /\ Goto(f, "sweep")
  /\ files' = files \ {f}
  /\ parts' = {p \in parts : p[1] # f}
  /\ mentions' = {m \in mentions : m[1][1] # f}
  /\ UNCHANGED <<entities, related, unswept, outdated, builds>>

\* the entities of the workspace that no chunk mentions any more
Sweep(f) ==
  LET kept == {e \in entities : e[1] # Home[f] \/ \E m \in mentions : m[2] = e} IN
  /\ At_(f, "sweep") /\ Goto(f, IF work[f].purge THEN "gone" ELSE "document")
  /\ entities' = kept
  /\ related' = {r \in related : r[1] \in kept /\ r[3] \in kept}
  /\ unswept' = unswept \ {Home[f]}
  /\ UNCHANGED <<files, parts, mentions, outdated, builds>>
-----------------------------------------------------------------------------
(* buildForDocument, writeExtraction *)

MergeDocument(f) ==
  /\ At_(f, "document") /\ Goto(f, IF work[f].said = <<>> THEN "built" ELSE "part")
  /\ files' = files \union {f}
  /\ UNCHANGED <<parts, entities, mentions, related, unswept, outdated, builds>>

MergePart(f) ==
  /\ At_(f, "part") /\ Goto(f, "entities")
  /\ parts' = parts \union {<<f, work[f].i>>}
  /\ UNCHANGED <<files, entities, mentions, related, unswept, outdated, builds>>

Said(f) == work[f].said[work[f].i]

\* mutant of entity: names are shared between workspaces
entityAnywhere(f, name) ==
  IF \E e \in entities : e[2] = name THEN CHOOSE e \in entities : e[2] = name
  ELSE <<Home[f], name>>

\* the key of the MERGE
entity(f, name) == <<Home[f], name>>

\* entities and mentions in one statement
WriteEntities(f) ==
  LET named == {entity(f, name) : name \in Said(f).names} IN
  /\ At_(f, "entities") /\ Goto(f, "relations")
  /\ entities' = entities \union named
  /\ mentions' = mentions \union ({<<f, work[f].i>>} \X named)
  /\ UNCHANGED <<files, parts, related, unswept, outdated, builds>>

\* between entities that are there, and on to the next chunk; a relation of
\* the same two entities gets the new type
WriteRelations(f) ==
  LET said == {<<entity(f, t[1]), t[2], entity(f, t[3])>> : t \in Said(f).triples}
      new  == {r \in said : r[1] \in entities /\ r[3] \in entities} IN
  /\ At_(f, "relations")
  /\ related' = {r \in related : \A n \in new : <<n[1], n[3]>> # <<r[1], r[3]>>} \union new
  /\ outdated' = (outdated \union related) \ related'
  /\ work' = [work EXCEPT ![f].i = @ + 1,
                          ![f].pc = IF work[f].i = Cardinality(DOMAIN work[f].said) THEN "built" ELSE "part"]
  /\ UNCHANGED <<files, parts, entities, mentions, unswept, builds>>

\* a statement fails, or the process dies: a purge goes on without the
\* graph, a build is given up until the next one
Broken(f) ==
  /\ work[f].pc \notin {"none", "built", "failed", "gone"}
  /\ Goto(f, IF work[f].purge THEN "gone" ELSE "failed")
  /\ unswept' = IF At_(f, "sweep") THEN unswept \union {Home[f]} ELSE unswept
  /\ UNCHANGED <<files, parts, entities, mentions, related, outdated, builds>>

GraphNext ==
  \E f \in Files : \/ buildGraph(f) \/ purge(f) \/ Detach(f) \/ Sweep(f) \/ Broken(f)
                   \/ MergeDocument(f) \/ MergePart(f) \/ WriteEntities(f) \/ WriteRelations(f)
GraphSpec == GraphInit /\ [][GraphNext]_graphVars
-----------------------------------------------------------------------------
(* queries *)

listNodes(w) == {e[2] : e \in {n \in entities : n[1] = w}}
listEdges(w) == {<<r[1][2], r[2], r[3][2]>> : r \in {q \in related : q[1][1] = w /\ q[3][1] = w}}
\* by the name of an entity; the text of a chunk holds what it mentions
searchGraph(w, name) ==
  [entities |-> entities \intersect {<<w, name>>},
   parts |-> {p \in parts : Home[p[1]] = w /\ \E m \in mentions : m[1] = p /\ m[2][2] = name}]

resolveEntityNames(names, ws) == {n \in names : \E w \in ws : <<w, n>> \in entities}
entityNamesByChunkIds(ps, ws) == {m[2][2] : m \in {k \in mentions : k[1] \in ps /\ k[2][1] \in ws}}

\* the types the question asks about, or all
relFilter(asked) == IF asked = {} THEN RelationTypes ELSE asked \intersect RelationTypes

Inside(ws, types) == {r \in related : r[1][1] \in ws /\ r[3][1] \in ws /\ r[2] \in types}
Beside(es, ws, types) ==
  {e \in Entity : \E r \in Inside(ws, types) : {r[1], r[3]} \intersect es # {} /\ e \in {r[1], r[3]}}

\* the entities less than MaxHops relations away from the seeds
reached(seeds, ws, types) ==
  LET reach[h \in 0..MaxHops] ==
        IF h = 0 THEN entities \intersect (ws \X seeds)
        ELSE reach[h - 1] \union Beside(reach[h - 1], ws, types)
  IN reach[MaxHops - 1]

\* the triples of the paths of up to MaxHops relations from the seeds, every
\* node of them in ws, every relation of the types
multiHop(seeds, ws, types) ==
  {<<r[1][2], r[2], r[3][2]>> :
     r \in {q \in Inside(ws, types) : {q[1], q[3]} \intersect reached(seeds, ws, types) # {}}}

chunkIdsByEntityNames(names, ws) ==
  {m[1] : m \in {k \in mentions : k[2][2] \in names /\ k[2][1] \in ws /\ Home[k[1][1]] \in ws}}

\* agent.service.ts runGraphReason: from the entities of the question, or
\* those of the chunks retrieved, along the relations it asks about
graphReason(candidates, hits, ws, asked) ==
  LET named   == resolveEntityNames(candidates, ws)
      seeds   == IF named # {} THEN named ELSE entityNamesByChunkIds(hits, ws)
      triples == multiHop(seeds, ws, relFilter(asked))
  IN [triples |-> triples,
      parts |-> chunkIdsByEntityNames(seeds \union UNION {{t[1], t[3]} : t \in triples}, ws)]
-----------------------------------------------------------------------------
(* Properties *)

\* the chunks of f that are written in full
Written(f) == {i \in DOMAIN work[f].said :
                 At_(f, "built") \/ (work[f].pc \in {"part", "entities", "relations"} /\ i < work[f].i)}
Settled(w) == w \notin unswept /\ \A f \in Files : Home[f] = w => ~At_(f, "sweep")

\* what chunk i of f says and no text has contradicted since: another relation
\* of the same two entities, from whatever document, changes the type
Standing(f, i) ==
  {t \in work[f].said[i].triples : <<entity(f, t[1]), t[2], entity(f, t[3])>> \notin outdated}

\* What the documents of a workspace say is what its graph tells, whatever is
\* rebuilt or deleted beside it: each chunk that was written is found by its
\* entities, its relations are reasoned with, from either end and when their
\* type is asked for, and a relation that is given another type by a later text
\* (graph.service.ts:542) is told with that one.  Once deletions are through
\* nothing is listed that no chunk mentions; and nothing is told of other
\* workspaces ("entities of the same name in different workspaces are not
\* shared", graph.service.ts:78).
GraphFollowsFiles ==
  /\ \A ws \in SUBSET Workspaces, f \in Files : Home[f] \in ws =>
       \A i \in Written(f) :
         LET said == work[f].said[i] IN
         \A name \in said.names, asked \in SUBSET RelationTypes :
           LET named == graphReason({name}, {}, ws, asked)
               hit   == graphReason({}, {<<f, i>>}, ws, asked) IN
           /\ <<f, i>> \in named.parts /\ <<f, i>> \in hit.parts
           /\ <<f, i>> \in searchGraph(Home[f], name).parts
           /\ \A t \in Standing(f, i) : t[2] \in relFilter(asked) =>
                t \in hit.triples /\ (name \in {t[1], t[3]} => t \in named.triples)
           /\ \A t \in said.triples : asked = {} =>
                \E type \in RelationTypes : <<t[1], type, t[3]>> \in hit.triples
  /\ \A w \in Workspaces :
       /\ Settled(w) => listNodes(w) = {m[2][2] : m \in {k \in mentions : Home[k[1][1]] = w}}
       /\ \A r \in listEdges(w) : r[1] \in listNodes(w) /\ r[3] \in listNodes(w)
       /\ \A p \in graphReason(Names, parts, {w}, {}).parts : Home[p[1]] = w
=============================================================================
