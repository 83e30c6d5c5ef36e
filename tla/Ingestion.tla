----------------------------- MODULE Ingestion -----------------------------
(***************************************************************************)
(* Ingestion of sources and the later embedding of their chunks.           *)
(*                                                                         *)
(* An ingest (IngestionService._persist) finds or inserts a source, stores *)
(* a document and replaces the chunks of the source, in one transaction    *)
(* that stays open while the embedding provider works. When the provider   *)
(* is down the chunks are stored without vectors; a pass of embed_pending, *)
(* run by a background loop and by the administrator's retry, fills them   *)
(* in later, in a transaction of its own. PostgreSQL runs both at READ     *)
(* COMMITTED: a row that is updated or deleted stays locked to the commit. *)
(***************************************************************************)
EXTENDS Naturals, FiniteSets

CONSTANTS
  Urls,        \* what identifies a source: its url, or the title of a text
  Contents,    \* the contents a page may have; their hashes are distinct
  ChunkCount,  \* how many chunks chunk_document makes of a content
  Ingests,     \* calls of ingest_url, ingest_text and refresh_source
  Seeds,       \* those of them that load the corpus before anything else runs
  Loop,        \* the background loop reembed_forever
  Retries,     \* calls of POST /admin/sources/embeddings/retry
  BatchLimit,  \* chunks a pass takes (256 in the code)
  Facts,       \* facts that a reviewer may verify
  MaxFaults,   \* bound: outages of the provider and aborted ingests
  None

ASSUME IngestionAssumption ==
  /\ ChunkCount \in [Contents -> Nat]
  /\ BatchLimit \in Nat \ {0}
  /\ MaxFaults \in Nat
  /\ Seeds \subseteq Ingests
  /\ Loop \notin Retries /\ (Retries \cup {Loop}) \cap Ingests = {}
  /\ None \notin Urls \cup Contents \cup Ingests

Passes == Retries \cup {Loop}

VARIABLES
  \* table sources: a row is named after the ingest that inserts it
  url,
  hash,          \* content_hash
  status,
  \* table evidence_chunks: a chunk is its document, named after its ingest, and index
  chunks,
  vectors,       \* chunks whose embedding is not NULL
  \* table verification_records: the current record of a fact
  recordSource,  \* source_id
  basis,         \* the source the reviewer named, kept only in the note
  reviewed,      \* sources with a source_changed review task
  \* an ingest
  pc,
  content,       \* what was loaded
  target,        \* its source
  seenStatus,    \* status of that source as read
  asks,          \* it adds a review task
  embedded,      \* the provider answered
  doomed,        \* chunks its DELETE has locked
  \* a pass
  passPc,
  batch,         \* chunks it took
  complete,      \* sources it will mark active
  faults

sourceTable == <<url, hash, status>>
chunkTable == <<chunks, vectors>>
reviewTables == <<recordSource, basis, reviewed>>
ingestVars == <<pc, content, target, seenStatus, asks, embedded, doomed>>
passVars == <<passPc, batch, complete>>
vars == <<sourceTable, chunkTable, reviewTables, ingestVars, passVars, faults>>

ChunksOf(i) == {i} \X (1..ChunkCount[content[i]])
AllChunks == Ingests \X Nat
SourceOf(c) == target[c[1]]
StoredChunks(s) == {c \in chunks : SourceOf(c) = s}
Pending == chunks \ vectors

TypeOK ==
  /\ url \in [Ingests -> Urls \cup {None}]
  /\ hash \in [Ingests -> Contents \cup {None}]
  /\ status \in [Ingests -> {"absent", "active", "pending_embedding", "changed"}]
  /\ chunks \subseteq AllChunks
  /\ vectors \subseteq chunks
  /\ recordSource \in [Facts -> Ingests \cup {None}]
  /\ basis \in [Facts -> Ingests \cup {None}]
  /\ reviewed \subseteq Ingests
  /\ pc \in [Ingests -> {"idle", "found", "locked", "embedded", "replaced", "done", "failed"}]
  /\ content \in [Ingests -> Contents \cup {None}]
  /\ target \in [Ingests -> Ingests \cup {None}]
  /\ seenStatus \in [Ingests -> {"absent", "active", "pending_embedding", "changed"}]
  /\ asks \in [Ingests -> BOOLEAN]
  /\ embedded \in [Ingests -> BOOLEAN]
  /\ doomed \in [Ingests -> SUBSET AllChunks]
  /\ passPc \in [Passes -> {"idle", "selected", "embedded", "flushed", "counted", "done"}]
  /\ batch \in [Passes -> SUBSET AllChunks]
  /\ complete \in [Passes -> SUBSET Ingests]
  /\ faults \in 0..MaxFaults

\* Each document of the corpus has text, and was ingested with or without an
\* answer of the provider, or not at all.
Seeded(loaded, vectored, page, text) ==
  LET chunksOf(i) == {i} \X (1..ChunkCount[text[i]])
  IN  /\ url = [s \in Ingests |-> IF s \in loaded THEN page[s] ELSE None]
      /\ hash = [s \in Ingests |-> IF s \in loaded THEN text[s] ELSE None]
      /\ status = [s \in Ingests |-> IF s \notin loaded THEN "absent"
                                     ELSE IF s \in vectored THEN "active" ELSE "pending_embedding"]
      /\ chunks = UNION {chunksOf(i) : i \in loaded}
      /\ vectors = UNION {chunksOf(i) : i \in vectored}
      /\ content = [i \in Ingests |-> IF i \in loaded THEN text[i] ELSE None]
      /\ target = [i \in Ingests |-> IF i \in loaded THEN i ELSE None]
      /\ pc = [i \in Ingests |-> IF i \in loaded THEN "done" ELSE IF i \in Seeds THEN "failed" ELSE "idle"]

Init ==
  /\ \E loaded \in SUBSET Seeds : \E vectored \in SUBSET loaded, page \in [loaded -> Urls],
        text \in [loaded -> {v \in Contents : ChunkCount[v] > 0}] : Seeded(loaded, vectored, page, text)
  /\ recordSource = [f \in Facts |-> None]
  /\ basis = [f \in Facts |-> None]
  /\ reviewed = {}
  /\ seenStatus = [i \in Ingests |-> "absent"]
  /\ asks = [i \in Ingests |-> FALSE]
  /\ embedded = [i \in Ingests |-> FALSE]
  /\ doomed = [i \in Ingests |-> {}]
  /\ passPc = [p \in Passes |-> "idle"]
  /\ batch = [p \in Passes |-> {}]
  /\ complete = [p \in Passes |-> {}]
  /\ faults = 0

Fault == faults < MaxFaults /\ faults' = faults + 1

(***************************************************************************)
(* Who holds which rows.                                                   *)
(***************************************************************************)
HoldsSource(i, s) == pc[i] \in {"locked", "embedded", "replaced"} /\ target[i] = s
HoldsChunk(p, c) == passPc[p] \in {"flushed", "counted"} /\ c \in batch[p] \cap chunks
ChunksAreFree(i) == \A c \in StoredChunks(target[i]), p \in Passes : ~HoldsChunk(p, c)
SourceIsFree(i) == \A k \in Ingests \ {i} : ~HoldsSource(k, target[i])

(***************************************************************************)
(* An ingest.                                                              *)
(***************************************************************************)
\* The page is loaded, and its source is looked up. No constraint keeps the url of a
\* source unique: of several rows, any may be the first. Nothing has changed ...
RowsOf(u) == {s \in Ingests : status[s] # "absent" /\ url[s] = u}

FindUnchanged(i, u, v) ==
  /\ pc[i] = "idle"
  /\ \E s \in RowsOf(u) : hash[s] = v
  /\ pc' = [pc EXCEPT ![i] = "done"]
  /\ UNCHANGED <<sourceTable, chunkTable, reviewTables, content, target, seenStatus, asks, embedded,
                 doomed, passVars, faults>>

\* ... or there is something to store, and a review to ask for when a human-verified
\* record names the source.
RaisesChangeReview(s) == \E f \in Facts : recordSource[f] = s

FindSource(i, u, v) ==
  /\ pc[i] = "idle"
  /\ pc' = [pc EXCEPT ![i] = "found"]
  /\ content' = [content EXCEPT ![i] = v]
  /\ \/ /\ RowsOf(u) = {}
        /\ target' = [target EXCEPT ![i] = i]
        /\ url' = [url EXCEPT ![i] = u]
        /\ UNCHANGED <<seenStatus, asks>>
     \/ \E s \in RowsOf(u) :
          /\ hash[s] # v
          /\ target' = [target EXCEPT ![i] = s]
          /\ seenStatus' = [seenStatus EXCEPT ![i] = status[s]]
          /\ asks' = [asks EXCEPT ![i] = RaisesChangeReview(s)]
          /\ UNCHANGED url
  /\ UNCHANGED <<hash, status, chunkTable, reviewTables, embedded, doomed, passVars, faults>>

\* The flush that stores the document also writes, and locks, the row of the source.
StoreDocumentUnlocked(i) ==
  /\ pc[i] = "found"
  /\ pc' = [pc EXCEPT ![i] = "locked"]
  /\ UNCHANGED <<sourceTable, chunkTable, reviewTables, content, target, seenStatus, asks, embedded,
                 doomed, passVars, faults>>

StoreDocument(i) ==
  /\ pc[i] = "found" /\ SourceIsFree(i)
  /\ pc' = [pc EXCEPT ![i] = "locked"]
  /\ UNCHANGED <<sourceTable, chunkTable, reviewTables, content, target, seenStatus, asks, embedded,
                 doomed, passVars, faults>>

\* The provider turns the chunks into vectors, or fails for good after its retries.
EmbedChunks(i) ==
  /\ pc[i] = "locked" /\ ChunkCount[content[i]] > 0
  /\ pc' = [pc EXCEPT ![i] = "embedded"]
  /\ embedded' = [embedded EXCEPT ![i] = TRUE]
  /\ UNCHANGED <<sourceTable, chunkTable, reviewTables, content, target, seenStatus, asks, doomed,
                 passVars, faults>>

EmbeddingDeferred(i) ==
  /\ Fault /\ pc[i] = "locked" /\ ChunkCount[content[i]] > 0
  /\ pc' = [pc EXCEPT ![i] = "embedded"]
  /\ UNCHANGED <<sourceTable, chunkTable, reviewTables, content, target, seenStatus, asks, embedded,
                 doomed, passVars>>

\* A content without chunks returns before the DELETE; else the chunks of the source
\* are deleted, once no pass holds one.
NoChunks(i) ==
  /\ pc[i] = "locked" /\ ChunkCount[content[i]] = 0
  /\ pc' = [pc EXCEPT ![i] = "replaced"]
  /\ UNCHANGED <<sourceTable, chunkTable, reviewTables, content, target, seenStatus, asks, embedded,
                 doomed, passVars, faults>>

DeleteChunks(i) ==
  /\ pc[i] = "embedded" /\ ChunksAreFree(i)
  /\ pc' = [pc EXCEPT ![i] = "replaced"]
  /\ doomed' = [doomed EXCEPT ![i] = StoredChunks(target[i])]
  /\ UNCHANGED <<sourceTable, chunkTable, reviewTables, content, target, seenStatus, asks, embedded,
                 passVars, faults>>

NewStatusPending(i) ==
  IF target[i] # i THEN (IF seenStatus[i] # "changed" THEN "changed" ELSE status[target[i]])
  ELSE IF ChunkCount[content[i]] > 0 /\ ~embedded[i] THEN "pending" ELSE "active"

\* A changed source stays marked as such; a new one is active, or owed its vectors.
NewStatus(i) ==
  IF target[i] # i THEN (IF seenStatus[i] # "changed" THEN "changed" ELSE status[target[i]])
  ELSE IF ChunkCount[content[i]] > 0 /\ ~embedded[i] THEN "pending_embedding" ELSE "active"

\* What an ingest keeps in memory goes with its session.
Forget(i) ==
  /\ seenStatus' = [seenStatus EXCEPT ![i] = "absent"]
  /\ asks' = [asks EXCEPT ![i] = FALSE]
  /\ embedded' = [embedded EXCEPT ![i] = FALSE]
  /\ doomed' = [doomed EXCEPT ![i] = {}]

CommitIngest(i) ==
  /\ pc[i] = "replaced"
  /\ pc' = [pc EXCEPT ![i] = "done"]
  /\ hash' = [hash EXCEPT ![target[i]] = content[i]]
  /\ status' = [status EXCEPT ![target[i]] = NewStatus(i)]
  /\ chunks' = (chunks \ doomed[i]) \cup ChunksOf(i)
  /\ vectors' = (vectors \ doomed[i]) \cup (IF embedded[i] THEN ChunksOf(i) ELSE {})
  /\ reviewed' = IF asks[i] THEN reviewed \cup {target[i]} ELSE reviewed
  /\ Forget(i)
  /\ UNCHANGED <<url, recordSource, basis, content, target, passVars, faults>>

\* The transaction of the request is rolled back, a source it inserted with it.
AbortIngest(i) ==
  /\ pc' = [pc EXCEPT ![i] = "failed"]
  /\ url' = IF target[i] = i THEN [url EXCEPT ![i] = None] ELSE url
  /\ content' = [content EXCEPT ![i] = None]
  /\ target' = [target EXCEPT ![i] = None]
  /\ Forget(i)
  /\ UNCHANGED <<hash, status, chunkTable, reviewTables>>

IngestFails(i) ==
  /\ Fault /\ pc[i] \in {"found", "locked", "embedded", "replaced"}
  /\ AbortIngest(i)
  /\ UNCHANGED passVars

(***************************************************************************)
(* A pass of embed_pending.                                                *)
(***************************************************************************)
\* The loop goes on after its sleep; a retry is one request.
EndOf(p) == IF p = Loop THEN "idle" ELSE "done"

Oldest(B) == \A c \in B, d \in Pending : d[1] = c[1] /\ d[2] < c[2] => d \in B

SelectPending(p) ==
  /\ passPc[p] = "idle" /\ Pending # {}
  /\ passPc' = [passPc EXCEPT ![p] = "selected"]
  /\ \E B \in SUBSET Pending :
       /\ Oldest(B)
       /\ Cardinality(B) = BatchLimit \/ (B = Pending /\ Cardinality(B) < BatchLimit)
       /\ batch' = [batch EXCEPT ![p] = B]
  /\ UNCHANGED <<sourceTable, chunkTable, reviewTables, ingestVars, complete, faults>>

EmbedBatch(p) ==
  /\ passPc[p] = "selected"
  /\ passPc' = [passPc EXCEPT ![p] = "embedded"]
  /\ UNCHANGED <<sourceTable, chunkTable, reviewTables, ingestVars, batch, complete, faults>>

\* A pass that raises is rolled back; reembed_forever swallows the exception.
EndPass(p) ==
  /\ passPc' = [passPc EXCEPT ![p] = EndOf(p)]
  /\ batch' = [batch EXCEPT ![p] = {}]
  /\ complete' = [complete EXCEPT ![p] = {}]

ProviderDownEndsLoop(p) ==
  /\ Fault /\ passPc[p] = "selected"
  /\ passPc' = [passPc EXCEPT ![p] = "done"]
  /\ batch' = [batch EXCEPT ![p] = {}]
  /\ UNCHANGED <<sourceTable, chunkTable, reviewTables, ingestVars, complete>>

ProviderDown(p) ==
  /\ Fault /\ passPc[p] = "selected"
  /\ EndPass(p)
  /\ UNCHANGED <<sourceTable, chunkTable, reviewTables, ingestVars>>

\* The UPDATE of the chunks waits for whoever has locked one of them ...
BatchIsFree(p) ==
  /\ \A q \in Passes \ {p}, c \in batch[p] : ~HoldsChunk(q, c)
  /\ \A i \in Ingests : batch[p] \cap doomed[i] = {}

FlushVectors(p) ==
  /\ passPc[p] = "embedded" /\ BatchIsFree(p)
  /\ Cardinality(batch[p]) = 1 => batch[p] \subseteq chunks
  /\ passPc' = [passPc EXCEPT ![p] = "flushed"]
  /\ UNCHANGED <<sourceTable, chunkTable, reviewTables, ingestVars, batch, complete, faults>>

\* ... and leaves out the rows that are no longer there: asyncpg reports no row count for
\* the statements of a batch of several rows. For a single row it does, and the UPDATE of a
\* row that is gone raises.
StaleBatch(p) ==
  /\ passPc[p] = "embedded" /\ BatchIsFree(p)
  /\ Cardinality(batch[p]) = 1 /\ ~(batch[p] \subseteq chunks)
  /\ EndPass(p)
  /\ UNCHANGED <<sourceTable, chunkTable, reviewTables, ingestVars, faults>>

\* Which sources are owed nothing any more.
CountRemainingOfAny(p) ==
  /\ passPc[p] = "flushed"
  /\ passPc' = [passPc EXCEPT ![p] = "counted"]
  /\ complete' = [complete EXCEPT ![p] = {s \in {SourceOf(c) : c \in batch[p]} : status[s] = "pending_embedding"}]
  /\ UNCHANGED <<sourceTable, chunkTable, reviewTables, ingestVars, batch, faults>>

CountRemaining(p) ==
  /\ passPc[p] = "flushed"
  /\ passPc' = [passPc EXCEPT ![p] = "counted"]
  /\ complete' = [complete EXCEPT ![p] =
                    {s \in {SourceOf(c) : c \in batch[p]} :
                       status[s] = "pending_embedding" /\ StoredChunks(s) \cap Pending \subseteq batch[p]}]
  /\ UNCHANGED <<sourceTable, chunkTable, reviewTables, ingestVars, batch, faults>>

SourcesAreFree(p) == \A s \in complete[p], i \in Ingests : ~HoldsSource(i, s)

CommitPass(p) ==
  /\ passPc[p] = "counted" /\ SourcesAreFree(p)
  /\ vectors' = vectors \cup (batch[p] \cap chunks)
  /\ status' = [s \in Ingests |-> IF s \in complete[p] THEN "active" ELSE status[s]]
  /\ EndPass(p)
  /\ UNCHANGED <<url, hash, chunks, reviewTables, ingestVars, faults>>

\* An ingest holds the source and waits for a chunk, a pass holds the chunk and waits
\* for the source; or the two lock several chunks of the source in different orders.
\* PostgreSQL undoes one of them. An ingest that survives is first in the queue for the
\* chunks, before the pass that comes next.
Deadlocked(i, p) ==
  /\ pc[i] = "embedded"
  /\ \/ /\ passPc[p] = "counted" /\ target[i] \in complete[p]
        /\ \E c \in StoredChunks(target[i]) : HoldsChunk(p, c)
     \/ passPc[p] = "embedded" /\ Cardinality(batch[p] \cap StoredChunks(target[i])) > 1

PassIsUndone(i, p) ==
  /\ EndPass(p)
  /\ IF \E c \in StoredChunks(target[i]), q \in Passes \ {p} : HoldsChunk(q, c)
     THEN UNCHANGED <<pc, doomed>>
     ELSE /\ pc' = [pc EXCEPT ![i] = "replaced"]
          /\ doomed' = [doomed EXCEPT ![i] = StoredChunks(target[i])]
  /\ UNCHANGED <<sourceTable, chunkTable, reviewTables, content, target, seenStatus, asks, embedded>>

BreakDeadlock(i, p) ==
  /\ Deadlocked(i, p)
  /\ \/ AbortIngest(i) /\ UNCHANGED passVars
     \/ PassIsUndone(i, p)
  /\ UNCHANGED faults

(***************************************************************************)
(* Human review.                                                           *)
(***************************************************************************)
\* A reviewer verifies a fact and names the page it rests on: _record_verification
\* keeps that in the note, and source_id stays empty. Once per fact is the bound.
VerifyFact(f, s) ==
  /\ basis[f] = None /\ status[s] # "absent"
  /\ recordSource' = [recordSource EXCEPT ![f] = None]
  /\ basis' = [basis EXCEPT ![f] = s]
  /\ UNCHANGED <<sourceTable, chunkTable, reviewed, ingestVars, passVars, faults>>

IngestStep(i) ==
  \/ StoreDocument(i) \/ EmbedChunks(i) \/ NoChunks(i) \/ DeleteChunks(i) \/ CommitIngest(i)
  \/ \E p \in Passes : BreakDeadlock(i, p)
PassStep(p) ==
  \/ SelectPending(p) \/ EmbedBatch(p) \/ FlushVectors(p) \/ StaleBatch(p)
  \/ CountRemaining(p) \/ CommitPass(p)

Next ==
  \/ \E i \in Ingests, u \in Urls, v \in Contents : FindUnchanged(i, u, v) \/ FindSource(i, u, v)
  \/ \E i \in Ingests : IngestStep(i) \/ EmbeddingDeferred(i) \/ IngestFails(i)
  \/ \E p \in Passes : PassStep(p) \/ ProviderDown(p)
  \/ \E f \in Facts, s \in Ingests : VerifyFact(f, s)

\* Started transactions go on, and the loop wakes up again. Nobody owes the system a
\* request, and the provider is down only so often.
Fairness ==
  /\ \A i \in Ingests : WF_vars(IngestStep(i))
  /\ \A p \in Passes : WF_vars(PassStep(p))

Spec == Init /\ [][Next]_vars
FairSpec == Spec /\ Fairness

(***************************************************************************)
(* Properties.                                                             *)
(***************************************************************************)
\* "Replace this source's chunks atomically": whoever ingests a source at the same
\* time, what is stored of it is all of one document, and of the one whose hash the
\* source has, unless that content had no chunks.
EvidenceIsWhole ==
  \A s \in Ingests : StoredChunks(s) # {} =>
    \E i \in Ingests : /\ target[i] = s /\ StoredChunks(s) = ChunksOf(i)
                       /\ ChunkCount[hash[s]] > 0 => content[i] = hash[s]

\* A source turns active only when every chunk of it can be found by its vector: no
\* pass, however it interleaves with ingests and other passes, completes a source for
\* which vectors are still owed.
ActivatedWithVectors ==
  [][\A s \in Ingests : status[s] # "active" /\ status'[s] = "active" =>
       StoredChunks(s)' \cap Pending' = {}]_vars

\* Once the provider is back, every chunk gets its vector or gives way to a newer
\* document, and no source is left marked as owed.
VectorsArrive ==
  \A i \in Ingests :
    /\ (\E c \in Pending : c[1] = i) ~> (\A c \in Pending : c[1] # i)
    /\ status[i] = "pending_embedding" ~> status[i] # "pending_embedding"
=============================================================================
