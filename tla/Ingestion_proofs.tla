-------------------------- MODULE Ingestion_proofs --------------------------
(***************************************************************************)
(* Theorems about Ingestion, for any number of sources, contents, ingests, *)
(* passes and faults.                                                      *)
(*                                                                         *)
(* What is stored of a source changes when an ingest commits, and then     *)
(* only for the source it has locked. IInv adds to EvidenceIsWhole why     *)
(* that is so: one ingest at a time holds a source, what it has deleted is *)
(* all there is of it, and no pass holds a chunk that is being deleted. A  *)
(* pass may go on with chunks that are gone: IInv says that their source   *)
(* is then no longer one that waits for its first vectors.                 *)
(***************************************************************************)
EXTENDS Ingestion, TLAPS

Open == {"found", "locked", "embedded", "replaced"}
Locking == {"locked", "embedded", "replaced"}

\* An ingest under way knows its content and its source; a source that another ingest
\* writes to is committed, and one of its own is not.
TargetsExist ==
  \A i \in Ingests :
    /\ pc[i] \in Open => content[i] \in Contents /\ target[i] \in Ingests
    /\ target[i] \in Ingests /\ target[i] # i => status[target[i]] # "absent"
    /\ pc[i] = "idle" => status[i] = "absent"
    /\ pc[i] \in Open /\ target[i] = i => status[i] = "absent"

\* A stored chunk belongs to an ingest that has committed.
ChunksAreCommitted ==
  \A c \in chunks : pc[c[1]] = "done" /\ target[c[1]] \in Ingests

\* One ingest at a time holds a source.
OneHolder ==
  \A i, k \in Ingests :
    pc[i] \in Locking /\ pc[k] \in Locking /\ target[i] = target[k] => i = k

\* An ingest deletes all that is stored of its source, or stores nothing.
DeletesFor(i) ==
  /\ pc[i] = "embedded" => ChunkCount[content[i]] > 0
  /\ pc[i] = "replaced" =>
       doomed[i] = IF ChunkCount[content[i]] = 0 THEN {} ELSE StoredChunks(target[i])
  /\ pc[i] # "replaced" => doomed[i] = {}

DeletesAll == \A i \in Ingests : DeletesFor(i)

\* A source that an ingest has read as changed is never owed its first vectors again.
SeenIsFinal ==
  \A i \in Ingests : pc[i] \in Open /\ seenStatus[i] = "changed" => status[target[i]] # "pending_embedding"

\* A pass has read its chunks from committed ingests; one that is gone since was replaced,
\* and its source is marked as changed.
TakenFor(p) ==
  \A c \in batch[p] :
    /\ c[1] \in Ingests /\ pc[c[1]] = "done" /\ target[c[1]] \in Ingests
    /\ c \in chunks \/ status[target[c[1]]] # "pending_embedding"

BatchIsTaken == \A p \in Passes : TakenFor(p)

\* None of the chunks a pass has written is being deleted.
HeldFor(p) ==
  passPc[p] \in {"flushed", "counted"} => \A i \in Ingests : batch[p] \cap doomed[i] = {}

BatchIsHeld == \A p \in Passes : HeldFor(p)

\* A source is completed with the last vectors it is owed.
CompletedBy(p, s) ==
  /\ passPc[p] = "counted"
  /\ status[s] # "absent"
  /\ \E c \in batch[p] \cap chunks : SourceOf(c) = s
  /\ StoredChunks(s) \cap Pending \subseteq batch[p]

CompletesSource == \A p \in Passes : \A s \in complete[p] : CompletedBy(p, s)

IInv ==
  /\ TypeOK /\ TargetsExist /\ ChunksAreCommitted /\ OneHolder /\ DeletesAll
  /\ SeenIsFinal /\ BatchIsTaken /\ BatchIsHeld /\ CompletesSource /\ EvidenceIsWhole

\* Steps that leave the stored chunks, and whose they are, as they were.
Calm ==
  /\ chunks' = chunks
  /\ \A i \in Ingests : pc[i] = "done" => /\ pc'[i] = "done"
                                          /\ target'[i] = target[i]
                                          /\ content'[i] = content[i]

\* A chunk is of its ingest.
LEMMA ChunkOwner ==
  ASSUME TypeOK, NEW c \in chunks
  PROVE  c[1] \in Ingests
BY DEF TypeOK, AllChunks

\* A calm step leaves what is stored of every source, and what each committed ingest made.
LEMMA CalmStores ==
  ASSUME TypeOK, ChunksAreCommitted, Calm
  PROVE  /\ ChunksAreCommitted'
         /\ \A s \in Ingests : StoredChunks(s)' = StoredChunks(s)
         /\ \A i \in Ingests : pc[i] = "done" => ChunksOf(i)' = ChunksOf(i)
<1>1. \A c \in chunks : /\ c[1] \in Ingests /\ pc[c[1]] = "done" /\ target[c[1]] \in Ingests
                        /\ target'[c[1]] = target[c[1]] /\ pc'[c[1]] = "done"
    BY ChunkOwner DEF ChunksAreCommitted, Calm
<1>2. ChunksAreCommitted'
    BY <1>1 DEF ChunksAreCommitted, Calm
<1>3. ASSUME NEW s \in Ingests PROVE StoredChunks(s)' = StoredChunks(s)
    BY <1>1 DEF StoredChunks, SourceOf, Calm
<1>4. \A i \in Ingests : pc[i] = "done" => ChunksOf(i)' = ChunksOf(i)
    BY DEF ChunksOf, Calm
<1> QED
    BY <1>2, <1>3, <1>4

\* A commit replaces the chunks of its source, unless it has none to store, and no others.
LEMMA CommitStores ==
  ASSUME IInv, NEW k \in Ingests, CommitIngest(k)
  PROVE  /\ target[k] \in Ingests /\ content[k] \in Contents /\ ChunkCount[content[k]] \in Nat
         /\ ChunksOf(k) \subseteq AllChunks
         /\ \A c \in ChunksOf(k) : c[1] = k
         /\ \A s \in Ingests : s # target[k] => StoredChunks(s)' = StoredChunks(s)
         /\ ChunkCount[content[k]] = 0 => /\ chunks' = chunks /\ vectors' = vectors
                                          /\ StoredChunks(target[k])' = StoredChunks(target[k])
         /\ ChunkCount[content[k]] # 0 => StoredChunks(target[k])' = ChunksOf(k)
<1>1. target[k] \in Ingests /\ content[k] \in Contents /\ pc[k] = "replaced"
    BY DEF CommitIngest, IInv, TargetsExist, Open
<1>2. ChunkCount[content[k]] \in Nat
    BY <1>1, IngestionAssumption
<1>3. ChunksOf(k) \subseteq AllChunks /\ \A c \in ChunksOf(k) : c[1] = k
    BY <1>2 DEF ChunksOf, AllChunks
<1>4. doomed[k] = IF ChunkCount[content[k]] = 0 THEN {} ELSE StoredChunks(target[k])
    BY <1>1 DEF IInv, DeletesAll, DeletesFor
<1>5. /\ target' = target
      /\ chunks' = (chunks \ doomed[k]) \cup ChunksOf(k)
      /\ vectors' = (vectors \ doomed[k]) \cup (IF embedded[k] THEN ChunksOf(k) ELSE {})
    BY DEF CommitIngest
<1>6. \A c \in doomed[k] : SourceOf(c) = target[k]
    BY <1>4 DEF StoredChunks
<1>7. \A c \in ChunksOf(k) : SourceOf(c) = target[k]
    BY <1>3 DEF SourceOf
<1>8. ASSUME NEW s \in Ingests, s # target[k] PROVE StoredChunks(s)' = StoredChunks(s)
    BY <1>5, <1>6, <1>7, <1>8 DEF StoredChunks, SourceOf
<1>9. ASSUME ChunkCount[content[k]] = 0
      PROVE  /\ chunks' = chunks /\ vectors' = vectors
             /\ StoredChunks(target[k])' = StoredChunks(target[k])
  <2>1. ChunksOf(k) = {} /\ doomed[k] = {}
      BY <1>4, <1>9 DEF ChunksOf
  <2> QED
      BY <2>1, <1>5 DEF StoredChunks, SourceOf
<1>10. ASSUME ChunkCount[content[k]] # 0 PROVE StoredChunks(target[k])' = ChunksOf(k)
    BY <1>4, <1>5, <1>7, <1>10 DEF StoredChunks, SourceOf
<1> QED
    BY <1>1, <1>2, <1>3, <1>8, <1>9, <1>10

\* Only a commit is not calm.
LEMMA OtherStepsAreCalm ==
  ASSUME IInv, [Next]_vars, \A i \in Ingests : ~CommitIngest(i)
  PROVE  Calm
<1> USE DEF Calm, chunkTable, ingestVars, sourceTable
<1>1. ASSUME NEW i \in Ingests, NEW u \in Urls, NEW v \in Contents,
             FindUnchanged(i, u, v) \/ FindSource(i, u, v)
      PROVE  Calm
    BY <1>1 DEF FindUnchanged, FindSource, IInv, TypeOK
<1>2. ASSUME NEW i \in Ingests, AbortIngest(i), pc[i] \in Open
      PROVE  Calm
    BY <1>2 DEF AbortIngest, IInv, TypeOK, Open
<1>3. ASSUME NEW i \in Ingests, IngestStep(i) \/ EmbeddingDeferred(i) \/ IngestFails(i)
      PROVE  Calm
  <2>1. CASE StoreDocument(i) \/ EmbedChunks(i) \/ NoChunks(i) \/ DeleteChunks(i) \/ EmbeddingDeferred(i)
      BY <2>1 DEF StoreDocument, EmbedChunks, NoChunks, DeleteChunks, EmbeddingDeferred, IInv, TypeOK
  <2>2. CASE IngestFails(i)
      BY <2>2, <1>2 DEF IngestFails, Open
  <2>3. ASSUME NEW p \in Passes, BreakDeadlock(i, p) PROVE Calm
    <3>1. pc[i] = "embedded"
        BY <2>3 DEF BreakDeadlock, Deadlocked
    <3>2. CASE AbortIngest(i)
        BY <3>1, <3>2, <1>2 DEF Open
    <3>3. CASE PassIsUndone(i, p)
        BY <3>1, <3>3 DEF PassIsUndone, IInv, TypeOK
    <3> QED
        BY <2>3, <3>2, <3>3 DEF BreakDeadlock
  <2> QED
      BY <1>3, <2>1, <2>2, <2>3 DEF IngestStep
<1>4. ASSUME NEW p \in Passes, PassStep(p) \/ ProviderDown(p) PROVE Calm
    BY <1>4 DEF PassStep, ProviderDown, SelectPending, EmbedBatch, FlushVectors, StaleBatch,
       CountRemaining, CommitPass
<1>5. ASSUME NEW f \in Facts, NEW s \in Ingests, VerifyFact(f, s) PROVE Calm
    BY <1>5 DEF VerifyFact
<1>6. CASE UNCHANGED vars
    BY <1>6 DEF vars
<1> QED
    BY <1>1, <1>3, <1>4, <1>5, <1>6 DEF Next

\* Every step keeps the types.
LEMMA StepType == IInv /\ [Next]_vars => TypeOK'
<1> SUFFICES ASSUME IInv, [Next]_vars PROVE TypeOK'
    OBVIOUS
<1> USE IngestionAssumption
        DEF TypeOK, sourceTable, chunkTable, reviewTables, ingestVars, passVars, Forget, EndPass, EndOf, Passes
<1>1. ASSUME NEW i \in Ingests, NEW u \in Urls, NEW v \in Contents, FindUnchanged(i, u, v)
      PROVE  TypeOK'
    BY <1>1 DEF FindUnchanged, IInv
<1>2. ASSUME NEW i \in Ingests, NEW u \in Urls, NEW v \in Contents, FindSource(i, u, v)
      PROVE  TypeOK'
  <2>1. CASE RowsOf(u) = {} /\ target' = [target EXCEPT ![i] = i] /\ url' = [url EXCEPT ![i] = u]
             /\ UNCHANGED <<seenStatus, asks>>
      BY <1>2, <2>1 DEF FindSource, IInv
  <2>2. ASSUME NEW s \in RowsOf(u),
               target' = [target EXCEPT ![i] = s],
               seenStatus' = [seenStatus EXCEPT ![i] = status[s]],
               asks' = [asks EXCEPT ![i] = RaisesChangeReview(s)],
               UNCHANGED url
        PROVE  TypeOK'
    <3>1. s \in Ingests /\ RaisesChangeReview(s) \in BOOLEAN
        BY DEF RowsOf, RaisesChangeReview
    <3>2. asks' \in [Ingests -> BOOLEAN]
        BY <2>2, <3>1, Zenon DEF IInv
    <3> QED
        BY <1>2, <2>2, <3>1, <3>2 DEF FindSource, IInv
  <2> QED
      BY <1>2, <2>1, <2>2 DEF FindSource
<1>3. ASSUME NEW i \in Ingests, AbortIngest(i), UNCHANGED passVars, faults' \in 0..MaxFaults
      PROVE  TypeOK'
    BY <1>3 DEF AbortIngest, IInv
<1>4. ASSUME NEW i \in Ingests, StoreDocument(i) \/ NoChunks(i) \/ EmbeddingDeferred(i)
      PROVE  TypeOK'
    BY <1>4 DEF StoreDocument, NoChunks, EmbeddingDeferred, Fault, IInv
<1>5. ASSUME NEW i \in Ingests, EmbedChunks(i) PROVE TypeOK'
  <2>1. embedded' \in [Ingests -> BOOLEAN]
      BY <1>5, Zenon DEF EmbedChunks, IInv
  <2> QED
      BY <1>5, <2>1 DEF EmbedChunks, IInv
<1>6. ASSUME NEW i \in Ingests, DeleteChunks(i) PROVE TypeOK'
  <2>1. StoredChunks(target[i]) \subseteq AllChunks
      BY DEF StoredChunks, IInv
  <2> QED
      BY <1>6, <2>1 DEF DeleteChunks, IInv
<1>7. ASSUME NEW i \in Ingests, CommitIngest(i) PROVE TypeOK'
  <2>1. target[i] \in Ingests /\ content[i] \in Contents /\ ChunksOf(i) \subseteq AllChunks
      BY <1>7, CommitStores
  <2>2. NewStatus(i) \in {"absent", "active", "pending_embedding", "changed"}
      BY <2>1 DEF NewStatus, IInv
  <2>3. chunks' \subseteq AllChunks /\ vectors' \subseteq chunks'
      BY <1>7, <2>1 DEF CommitIngest, IInv
  <2> QED
      BY <1>7, <2>1, <2>2, <2>3 DEF CommitIngest, IInv
<1>8. ASSUME NEW i \in Ingests, NEW p \in Passes, BreakDeadlock(i, p) PROVE TypeOK'
  <2>1. CASE AbortIngest(i) /\ UNCHANGED passVars
      BY <1>8, <2>1, <1>3 DEF BreakDeadlock, IInv
  <2>2. CASE PassIsUndone(i, p)
    <3>1. StoredChunks(target[i]) \subseteq AllChunks
        BY DEF StoredChunks, IInv
    <3> QED
        BY <1>8, <2>2, <3>1 DEF BreakDeadlock, PassIsUndone, IInv
  <2> QED
      BY <1>8, <2>1, <2>2 DEF BreakDeadlock
<1>9. ASSUME NEW i \in Ingests, IngestFails(i) PROVE TypeOK'
    BY <1>9, <1>3 DEF IngestFails, Fault, IInv
<1>10. ASSUME NEW p \in Passes, SelectPending(p) PROVE TypeOK'
  <2>1. PICK B \in SUBSET Pending : batch' = [batch EXCEPT ![p] = B]
      BY <1>10 DEF SelectPending
  <2>2. B \subseteq AllChunks
      BY DEF Pending, IInv
  <2> QED
      BY <1>10, <2>1, <2>2 DEF SelectPending, IInv
<1>11. ASSUME NEW p \in Passes, EmbedBatch(p) \/ FlushVectors(p) \/ StaleBatch(p) \/ ProviderDown(p)
       PROVE  TypeOK'
    BY <1>11 DEF EmbedBatch, FlushVectors, StaleBatch, ProviderDown, Fault, IInv
<1>12. ASSUME NEW p \in Passes PROVE \A c \in batch[p] : SourceOf(c) \in Ingests
    BY <1>12 DEF IInv, BatchIsTaken, TakenFor, SourceOf
<1>13. ASSUME NEW p \in Passes, CountRemaining(p) PROVE TypeOK'
  <2>1. complete' \in [Passes -> SUBSET Ingests]
      BY <1>12, <1>13 DEF CountRemaining, IInv
  <2> QED
      BY <1>13, <2>1 DEF CountRemaining, IInv
<1>14. ASSUME NEW p \in Passes, CommitPass(p) PROVE TypeOK'
    BY <1>14 DEF CommitPass, IInv
<1>15. ASSUME NEW f \in Facts, NEW s \in Ingests, VerifyFact(f, s) PROVE TypeOK'
    BY <1>15 DEF VerifyFact, IInv
<1>16. CASE UNCHANGED vars
    BY <1>16 DEF vars, IInv
<1> QED
    BY <1>1, <1>2, <1>4, <1>5, <1>6, <1>7, <1>8, <1>9, <1>10, <1>11, <1>13, <1>14, <1>15, <1>16
    DEF Next, IngestStep, PassStep

\* Every step keeps TargetsExist: a row appears with the ingest that inserts it, and stays.
LEMMA StepTargets == IInv /\ [Next]_vars => TargetsExist'
<1> SUFFICES ASSUME IInv, [Next]_vars PROVE TargetsExist'
    OBVIOUS
<1> USE IngestionAssumption
        DEF TypeOK, TargetsExist, Open, sourceTable, ingestVars, Forget
<1>1. ASSUME NEW i \in Ingests, NEW u \in Urls, NEW v \in Contents, FindUnchanged(i, u, v)
      PROVE  TargetsExist'
    BY <1>1 DEF FindUnchanged, IInv
<1>2. ASSUME NEW i \in Ingests, NEW u \in Urls, NEW v \in Contents, FindSource(i, u, v)
      PROVE  TargetsExist'
  <2>1. PICK s \in Ingests : target' = [target EXCEPT ![i] = s] /\ (s = i \/ status[s] # "absent")
      BY <1>2 DEF FindSource, RowsOf
  <2> QED
      BY <1>2, <2>1 DEF FindSource, IInv
<1>3. ASSUME NEW i \in Ingests, AbortIngest(i), pc[i] \in Open
      PROVE  TargetsExist'
    BY <1>3 DEF AbortIngest, IInv
<1>4. ASSUME NEW i \in Ingests, UNCHANGED <<sourceTable, content, target>>, pc[i] \in Open,
             NEW step \in Open, pc' = [pc EXCEPT ![i] = step]
      PROVE  TargetsExist'
    BY <1>4 DEF IInv
<1>5. ASSUME NEW i \in Ingests,
             StoreDocument(i) \/ EmbedChunks(i) \/ NoChunks(i) \/ DeleteChunks(i) \/ EmbeddingDeferred(i)
      PROVE  TargetsExist'
    BY <1>5, <1>4 DEF StoreDocument, EmbedChunks, NoChunks, DeleteChunks, EmbeddingDeferred
<1>6. ASSUME NEW i \in Ingests, CommitIngest(i) PROVE TargetsExist'
  <2>1. target[i] \in Ingests /\ pc[i] = "replaced"
      BY <1>6 DEF CommitIngest, IInv
  <2>2. /\ status' = [status EXCEPT ![target[i]] = NewStatus(i)]
        /\ pc' = [pc EXCEPT ![i] = "done"] /\ UNCHANGED <<content, target>>
      BY <1>6 DEF CommitIngest
  <2>3. NewStatus(i) # "absent"
      BY <2>1 DEF NewStatus, IInv
  <2>4. \A s \in Ingests : s # target[i] => status'[s] = status[s]
      BY <2>2 DEF IInv
  <2>5. \A s \in Ingests : status[s] # "absent" => status'[s] # "absent"
      BY <2>1, <2>2, <2>3 DEF IInv
  <2>6. target[i] # i => status'[target[i]] # "absent"
      BY <2>1, <2>5 DEF IInv
  <2>7. \A k \in Ingests : k # i => pc'[k] = pc[k] /\ (pc[k] = "idle" \/ (pc[k] \in Open /\ target[k] = k) => k # target[i])
      BY <2>1, <2>2 DEF IInv
  <2> QED
      BY <2>1, <2>2, <2>4, <2>5, <2>6, <2>7 DEF IInv
<1>7. ASSUME NEW i \in Ingests, NEW p \in Passes, BreakDeadlock(i, p) PROVE TargetsExist'
  <2>1. pc[i] = "embedded"
      BY <1>7 DEF BreakDeadlock, Deadlocked
  <2>2. CASE AbortIngest(i)
      BY <2>1, <2>2, <1>3
  <2>3. CASE PassIsUndone(i, p)
      BY <2>1, <2>3, <1>4 DEF PassIsUndone, IInv
  <2> QED
      BY <1>7, <2>2, <2>3 DEF BreakDeadlock
<1>8. ASSUME NEW i \in Ingests, IngestFails(i) PROVE TargetsExist'
    BY <1>8, <1>3 DEF IngestFails
<1>9. ASSUME NEW p \in Passes, CommitPass(p) PROVE TargetsExist'
  <2>1. \A s \in Ingests : (status'[s] = "absent") <=> (status[s] = "absent")
      BY <1>9 DEF CommitPass, IInv, CompletesSource, CompletedBy
  <2> QED
      BY <1>9, <2>1 DEF CommitPass, IInv
<1>10. ASSUME NEW p \in Passes, \/ SelectPending(p) \/ EmbedBatch(p) \/ FlushVectors(p)
                                \/ StaleBatch(p) \/ CountRemaining(p) \/ ProviderDown(p)
       PROVE  TargetsExist'
    BY <1>10 DEF SelectPending, EmbedBatch, FlushVectors, StaleBatch, CountRemaining, ProviderDown, IInv
<1>11. ASSUME NEW f \in Facts, NEW s \in Ingests, VerifyFact(f, s) PROVE TargetsExist'
    BY <1>11 DEF VerifyFact, IInv
<1>12. CASE UNCHANGED vars
    BY <1>12 DEF vars, IInv
<1> QED
    BY <1>1, <1>2, <1>5, <1>6, <1>7, <1>8, <1>9, <1>10, <1>11, <1>12
    DEF Next, IngestStep, PassStep

\* Every step keeps OneHolder: only a free source is locked.
LEMMA StepHolder == IInv /\ [Next]_vars => OneHolder'
<1> SUFFICES ASSUME IInv, [Next]_vars PROVE OneHolder'
    OBVIOUS
<1> USE DEF TypeOK, OneHolder, Locking, ingestVars
<1>1. ASSUME NEW i \in Ingests, NEW u \in Urls, NEW v \in Contents,
             FindUnchanged(i, u, v) \/ FindSource(i, u, v)
      PROVE  OneHolder'
  <2>1. /\ pc'[i] \notin Locking
        /\ \A k \in Ingests : k # i => pc'[k] = pc[k] /\ target'[k] = target[k]
      BY <1>1 DEF FindUnchanged, FindSource, IInv
  <2> QED
      BY <2>1 DEF IInv
<1>2. ASSUME NEW i \in Ingests, AbortIngest(i) PROVE OneHolder'
    BY <1>2 DEF AbortIngest, IInv
<1>3. ASSUME NEW i \in Ingests, StoreDocument(i) PROVE OneHolder'
    BY <1>3 DEF StoreDocument, SourceIsFree, HoldsSource, IInv
<1>4. ASSUME NEW i \in Ingests, UNCHANGED target, pc[i] \in Locking,
             NEW step, pc' = [pc EXCEPT ![i] = step]
      PROVE  OneHolder'
    BY <1>4 DEF IInv
<1>5. ASSUME NEW i \in Ingests, \/ EmbedChunks(i) \/ NoChunks(i) \/ DeleteChunks(i)
                                \/ CommitIngest(i) \/ EmbeddingDeferred(i)
      PROVE  OneHolder'
    BY <1>5, <1>4 DEF EmbedChunks, NoChunks, DeleteChunks, CommitIngest, EmbeddingDeferred
<1>6. ASSUME NEW i \in Ingests, NEW p \in Passes, BreakDeadlock(i, p) PROVE OneHolder'
  <2>1. pc[i] = "embedded"
      BY <1>6 DEF BreakDeadlock, Deadlocked
  <2>2. CASE PassIsUndone(i, p)
      BY <2>1, <2>2, <1>4 DEF PassIsUndone, IInv
  <2> QED
      BY <1>6, <1>2, <2>2 DEF BreakDeadlock
<1>7. ASSUME NEW i \in Ingests, IngestFails(i) PROVE OneHolder'
    BY <1>7, <1>2 DEF IngestFails
<1>8. ASSUME UNCHANGED <<pc, target>> PROVE OneHolder'
    BY <1>8 DEF IInv
<1>9. ASSUME NEW p \in Passes, PassStep(p) \/ ProviderDown(p) PROVE OneHolder'
    BY <1>9, <1>8 DEF PassStep, SelectPending, EmbedBatch, FlushVectors, StaleBatch, CountRemaining,
       CommitPass, ProviderDown
<1>10. ASSUME NEW f \in Facts, NEW s \in Ingests, VerifyFact(f, s) PROVE OneHolder'
    BY <1>10, <1>8 DEF VerifyFact
<1>11. CASE UNCHANGED vars
    BY <1>11, <1>8 DEF vars
<1> QED
    BY <1>1, <1>3, <1>5, <1>6, <1>7, <1>9, <1>10, <1>11 DEF Next, IngestStep

\* Every step keeps DeletesAll: while an ingest holds a source, nobody else adds to it.
LEMMA StepDeletes == IInv /\ [Next]_vars => DeletesAll'
<1> SUFFICES ASSUME IInv, [Next]_vars PROVE DeletesAll'
    OBVIOUS
<1> USE DEF TypeOK, ingestVars, Forget
<1>1. ASSUME NEW k \in Ingests, pc[k] = "replaced" PROVE target[k] \in Ingests
    BY <1>1 DEF IInv, TargetsExist, Open
<1>2. ASSUME NEW k \in Ingests, StoredChunks(target[k])' = StoredChunks(target[k]) \/ pc[k] # "replaced",
             pc'[k] = pc[k], target'[k] = target[k], content'[k] = content[k], doomed'[k] = doomed[k]
      PROVE  DeletesFor(k)'
    BY <1>2 DEF DeletesFor, DeletesAll, IInv
<1>3. ASSUME Calm, NEW k \in Ingests,
             pc'[k] = pc[k], target'[k] = target[k], content'[k] = content[k], doomed'[k] = doomed[k]
      PROVE  DeletesFor(k)'
  <2>1. CASE pc[k] = "replaced"
    <3>1. \A s \in Ingests : StoredChunks(s)' = StoredChunks(s)
        BY <1>3, CalmStores DEF IInv
    <3>2. StoredChunks(target[k])' = StoredChunks(target[k])
        BY <1>3, <1>1, <2>1, <3>1 DEF StoredChunks
    <3> QED
        BY <1>2, <1>3, <3>2
  <2> QED
      BY <1>2, <1>3, <2>1
<1>4. ASSUME Calm, UNCHANGED ingestVars PROVE DeletesAll'
    BY <1>3, <1>4 DEF DeletesAll
<1>5. ASSUME Calm, NEW i \in Ingests, DeletesFor(i)',
             \A k \in Ingests \ {i} : /\ pc'[k] = pc[k] /\ target'[k] = target[k]
                                      /\ content'[k] = content[k] /\ doomed'[k] = doomed[k]
      PROVE  DeletesAll'
    BY <1>3, <1>5 DEF DeletesAll
<1>6. ASSUME NEW i \in Ingests, Calm, pc'[i] \notin {"embedded", "replaced"}, doomed'[i] = {}
      PROVE  DeletesFor(i)'
    BY <1>6 DEF DeletesFor
<1>7. ASSUME NEW i \in Ingests, NEW u \in Urls, NEW v \in Contents,
             FindUnchanged(i, u, v) \/ FindSource(i, u, v), Calm
      PROVE  DeletesAll'
    BY <1>5, <1>6, <1>7 DEF FindUnchanged, FindSource, DeletesAll, DeletesFor, IInv
<1>8. ASSUME NEW i \in Ingests, AbortIngest(i), Calm PROVE DeletesAll'
    BY <1>5, <1>6, <1>8 DEF AbortIngest, IInv
<1>9. ASSUME NEW i \in Ingests, StoreDocument(i), Calm PROVE DeletesAll'
    BY <1>5, <1>6, <1>9 DEF StoreDocument, DeletesAll, DeletesFor, IInv
<1>10. ASSUME NEW i \in Ingests, EmbedChunks(i) \/ EmbeddingDeferred(i) \/ NoChunks(i), Calm PROVE DeletesAll'
  <2>1. DeletesFor(i)'
      BY <1>10 DEF EmbedChunks, EmbeddingDeferred, NoChunks, DeletesAll, DeletesFor, IInv
  <2> QED
      BY <1>5, <1>10, <2>1 DEF EmbedChunks, EmbeddingDeferred, NoChunks, IInv
<1>11. ASSUME NEW i \in Ingests, pc[i] = "embedded", Calm, UNCHANGED <<content, target>>,
              pc' = [pc EXCEPT ![i] = "replaced"],
              doomed' = [doomed EXCEPT ![i] = StoredChunks(target[i])]
       PROVE  DeletesAll'
  <2>1. target[i] \in Ingests /\ ChunkCount[content[i]] > 0
      BY <1>11 DEF IInv, TargetsExist, Open, DeletesAll, DeletesFor
  <2>2. ChunkCount[content[i]] # 0
      BY <1>11, <2>1, IngestionAssumption DEF IInv, TargetsExist, Open
  <2>3. \A s \in Ingests : StoredChunks(s)' = StoredChunks(s)
      BY <1>11, CalmStores DEF IInv
  <2>4. StoredChunks(target[i])' = StoredChunks(target[i])
      BY <1>11, <2>1, <2>3 DEF StoredChunks
  <2>5. DeletesFor(i)'
      BY <1>11, <2>2, <2>4 DEF DeletesFor, IInv
  <2> QED
      BY <1>5, <1>11, <2>5 DEF IInv
<1>12. ASSUME NEW i \in Ingests, DeleteChunks(i), Calm PROVE DeletesAll'
    BY <1>11, <1>12 DEF DeleteChunks
<1>13. ASSUME NEW i \in Ingests, NEW p \in Passes, BreakDeadlock(i, p), Calm PROVE DeletesAll'
  <2>1. pc[i] = "embedded"
      BY <1>13 DEF BreakDeadlock, Deadlocked
  <2>2. CASE PassIsUndone(i, p)
      BY <1>4, <1>11, <1>13, <2>1, <2>2 DEF PassIsUndone
  <2> QED
      BY <1>8, <1>13, <2>2 DEF BreakDeadlock
<1>14. ASSUME NEW i \in Ingests, CommitIngest(i) PROVE DeletesAll'
  <2>1. pc' = [pc EXCEPT ![i] = "done"] /\ doomed' = [doomed EXCEPT ![i] = {}]
        /\ UNCHANGED <<content, target>> /\ pc[i] = "replaced"
      BY <1>14 DEF CommitIngest
  <2>2. DeletesFor(i)'
      BY <2>1 DEF DeletesFor, IInv
  <2>3. ASSUME NEW k \in Ingests \ {i} PROVE DeletesFor(k)'
    <3>1. CASE pc[k] = "replaced"
      <4>1. target[k] \in Ingests /\ target[k] # target[i]
          BY <1>1, <2>1, <3>1 DEF IInv, OneHolder, Locking
      <4>2. \A s \in Ingests : s # target[i] => StoredChunks(s)' = StoredChunks(s)
          BY <1>14, CommitStores
      <4>3. StoredChunks(target[k])' = StoredChunks(target[k])
          BY <2>1, <4>1, <4>2 DEF StoredChunks
      <4> QED
          BY <1>2, <2>1, <4>3 DEF IInv
    <3> QED
        BY <1>2, <2>1, <3>1 DEF IInv
  <2> QED
      BY <2>2, <2>3 DEF DeletesAll
<1>15. CASE \E i \in Ingests : CommitIngest(i)
    BY <1>14, <1>15
<1>16. CASE \A i \in Ingests : ~CommitIngest(i)
  <2>1. Calm
      BY <1>16, OtherStepsAreCalm
  <2>2. ASSUME NEW p \in Passes, PassStep(p) \/ ProviderDown(p) PROVE DeletesAll'
      BY <1>4, <2>1, <2>2 DEF PassStep, SelectPending, EmbedBatch, FlushVectors, StaleBatch,
         CountRemaining, CommitPass, ProviderDown
  <2>3. ASSUME NEW f \in Facts, NEW s \in Ingests, VerifyFact(f, s) PROVE DeletesAll'
      BY <1>4, <2>1, <2>3 DEF VerifyFact
  <2>4. ASSUME NEW i \in Ingests, IngestFails(i) PROVE DeletesAll'
      BY <1>8, <2>1, <2>4 DEF IngestFails
  <2>5. CASE UNCHANGED vars
      BY <1>4, <2>1, <2>5 DEF vars
  <2> QED
      BY <1>7, <1>9, <1>10, <1>12, <1>13, <1>16, <2>1, <2>2, <2>3, <2>4, <2>5 DEF Next, IngestStep
<1> QED
    BY <1>15, <1>16

\* Only the commit of a new source makes it one that is owed its vectors.
LEMMA OnlyNewIsOwed ==
  ASSUME IInv, [Next]_vars, NEW s \in Ingests,
         status[s] # "pending_embedding", status'[s] = "pending_embedding"
  PROVE  CommitIngest(s) /\ pc[s] = "replaced" /\ status[s] = "absent"
<1> USE DEF TypeOK, sourceTable
<1>1. ASSUME NEW i \in Ingests, CommitIngest(i)
      PROVE  CommitIngest(s) /\ pc[s] = "replaced" /\ status[s] = "absent"
  <2>1. /\ status' = [status EXCEPT ![target[i]] = NewStatus(i)]
        /\ target[i] \in Ingests /\ pc[i] = "replaced"
      BY <1>1, CommitStores DEF CommitIngest
  <2>2. s = target[i] /\ NewStatus(i) = "pending_embedding"
      BY <2>1 DEF IInv
  <2>3. target[i] = i
      BY <2>1, <2>2 DEF NewStatus, SeenIsFinal, Open, IInv
  <2> QED
      BY <1>1, <2>1, <2>2, <2>3 DEF TargetsExist, Open, IInv
<1>2. ASSUME NEW p \in Passes, PassStep(p) \/ ProviderDown(p) PROVE FALSE
    BY <1>2 DEF PassStep, ProviderDown, SelectPending, EmbedBatch, FlushVectors, StaleBatch, CountRemaining,
       CommitPass
<1>3. ASSUME NEW i \in Ingests, NEW u \in Urls, NEW v \in Contents,
             FindUnchanged(i, u, v) \/ FindSource(i, u, v)
      PROVE  FALSE
    BY <1>3 DEF FindUnchanged, FindSource
<1>4. ASSUME NEW i \in Ingests, IngestStep(i) \/ EmbeddingDeferred(i) \/ IngestFails(i), ~CommitIngest(i)
      PROVE  FALSE
    BY <1>4 DEF IngestStep, StoreDocument, EmbedChunks, NoChunks, DeleteChunks, EmbeddingDeferred,
       IngestFails, AbortIngest, BreakDeadlock, PassIsUndone
<1>5. ASSUME NEW f \in Facts, NEW t \in Ingests, VerifyFact(f, t) PROVE FALSE
    BY <1>5 DEF VerifyFact
<1>6. CASE UNCHANGED vars
    BY <1>6 DEF vars
<1> QED
    BY <1>1, <1>2, <1>3, <1>4, <1>5, <1>6 DEF Next

\* Every step keeps SeenIsFinal: a source that others know of is not a new one.
LEMMA StepSeen == IInv /\ [Next]_vars => SeenIsFinal'
<1> SUFFICES ASSUME IInv, [Next]_vars PROVE SeenIsFinal'
    OBVIOUS
<1> USE DEF TypeOK, Open, Forget, ingestVars
<1>1. ASSUME NEW i \in Ingests, pc[i] \in Open, target'[i] = target[i], seenStatus'[i] = seenStatus[i],
             pc'[i] \in Open, seenStatus'[i] = "changed"
      PROVE  status'[target'[i]] # "pending_embedding"
  <2>1. target[i] \in Ingests /\ status[target[i]] # "pending_embedding"
      BY <1>1 DEF SeenIsFinal, TargetsExist, IInv
  <2>2. ASSUME status'[target[i]] = "pending_embedding" PROVE FALSE
    <3>1. CommitIngest(target[i]) /\ pc[target[i]] = "replaced" /\ status[target[i]] = "absent"
        BY <2>1, <2>2, OnlyNewIsOwed
    <3>2. target[i] = i
        BY <2>1, <3>1 DEF TargetsExist, IInv
    <3> QED
        BY <1>1, <3>1, <3>2 DEF CommitIngest, IInv
  <2> QED
      BY <1>1, <2>2
<1>2. ASSUME NEW i \in Ingests, pc[i] \in Open \/ pc'[i] \notin Open \/ pc'[i] = pc[i],
             pc'[i] \in Open => target'[i] = target[i] /\ seenStatus'[i] = seenStatus[i]
      PROVE  pc'[i] \in Open /\ seenStatus'[i] = "changed" => status'[target'[i]] # "pending_embedding"
    BY <1>1, <1>2
<1>3. ASSUME NEW i \in Ingests,
             \A k \in Ingests \ {i} : /\ pc'[k] = pc[k] /\ target'[k] = target[k]
                                      /\ seenStatus'[k] = seenStatus[k],
             pc'[i] \in Open /\ seenStatus'[i] = "changed" => status'[target'[i]] # "pending_embedding"
      PROVE  SeenIsFinal'
    BY <1>2, <1>3 DEF SeenIsFinal
<1>4. ASSUME UNCHANGED <<pc, target, seenStatus>> PROVE SeenIsFinal'
    BY <1>2, <1>4 DEF SeenIsFinal
<1>5. ASSUME NEW i \in Ingests, NEW u \in Urls, NEW v \in Contents, FindSource(i, u, v)
      PROVE  SeenIsFinal'
  <2>1. status' = status /\ pc[i] = "idle"
      BY <1>5 DEF FindSource
  <2>2. \A k \in Ingests \ {i} : /\ pc'[k] = pc[k] /\ target'[k] = target[k] /\ seenStatus'[k] = seenStatus[k]
      BY <1>5 DEF FindSource, IInv
  <2>3. \/ target'[i] = i
        \/ \E s \in Ingests : target'[i] = s /\ seenStatus'[i] = status[s]
      BY <1>5 DEF FindSource, RowsOf, IInv
  <2>4. status[i] = "absent"
      BY <2>1 DEF TargetsExist, IInv
  <2>5. seenStatus'[i] = "changed" => status'[target'[i]] # "pending_embedding"
      BY <2>1, <2>3, <2>4
  <2> QED
      BY <1>3, <2>2, <2>5
<1>6. ASSUME NEW i \in Ingests, NEW step, pc' = [pc EXCEPT ![i] = step],
             pc[i] \in Open \/ step \notin Open,
             step \in Open => UNCHANGED <<target, seenStatus>>,
             \A k \in Ingests \ {i} : target'[k] = target[k] /\ seenStatus'[k] = seenStatus[k]
      PROVE  SeenIsFinal'
  <2>1. \A k \in Ingests \ {i} : pc'[k] = pc[k]
      BY <1>6 DEF IInv
  <2>2. pc'[i] = step
      BY <1>6 DEF IInv
  <2> QED
      BY <1>2, <1>3, <1>6, <2>1, <2>2
<1>7. ASSUME NEW i \in Ingests, AbortIngest(i) PROVE SeenIsFinal'
    BY <1>6, <1>7 DEF AbortIngest, IInv
<1>8. ASSUME NEW i \in Ingests, NEW u \in Urls, NEW v \in Contents, FindUnchanged(i, u, v)
      PROVE  SeenIsFinal'
  <2>1. pc' = [pc EXCEPT ![i] = "done"] /\ UNCHANGED <<target, seenStatus>>
      BY <1>8 DEF FindUnchanged
  <2> QED
      BY <1>6, <2>1
<1>9. ASSUME NEW i \in Ingests, StoreDocument(i) \/ EmbedChunks(i) \/ NoChunks(i) \/ DeleteChunks(i)
                                \/ EmbeddingDeferred(i)
      PROVE  SeenIsFinal'
  <2>1. pc[i] \in Open /\ UNCHANGED <<target, seenStatus>> /\ \E step : pc' = [pc EXCEPT ![i] = step]
      BY <1>9 DEF StoreDocument, EmbedChunks, NoChunks, DeleteChunks, EmbeddingDeferred
  <2> QED
      BY <1>6, <2>1
<1>10. ASSUME NEW i \in Ingests, CommitIngest(i) PROVE SeenIsFinal'
  <2>1. /\ pc' = [pc EXCEPT ![i] = "done"] /\ target' = target
        /\ seenStatus' = [seenStatus EXCEPT ![i] = "absent"]
      BY <1>10 DEF CommitIngest
  <2>2. \A k \in Ingests \ {i} : target'[k] = target[k] /\ seenStatus'[k] = seenStatus[k]
      BY <2>1 DEF IInv
  <2> QED
      BY <1>6, <2>1, <2>2
<1>11. ASSUME NEW i \in Ingests, NEW p \in Passes, BreakDeadlock(i, p) PROVE SeenIsFinal'
  <2>1. pc[i] = "embedded"
      BY <1>11 DEF BreakDeadlock, Deadlocked
  <2>2. CASE PassIsUndone(i, p)
    <3>1. UNCHANGED <<target, seenStatus>> /\ (pc' = pc \/ pc' = [pc EXCEPT ![i] = "replaced"])
        BY <2>2 DEF PassIsUndone
    <3> QED
        BY <1>4, <1>6, <2>1, <3>1
  <2> QED
      BY <1>7, <1>11, <2>2 DEF BreakDeadlock
<1>12. ASSUME NEW i \in Ingests, IngestFails(i) PROVE SeenIsFinal'
    BY <1>7, <1>12 DEF IngestFails
<1>13. ASSUME NEW p \in Passes, PassStep(p) \/ ProviderDown(p) PROVE SeenIsFinal'
    BY <1>4, <1>13 DEF PassStep, ProviderDown, SelectPending, EmbedBatch, FlushVectors, StaleBatch,
       CountRemaining, CommitPass
<1>14. ASSUME NEW f \in Facts, NEW s \in Ingests, VerifyFact(f, s) PROVE SeenIsFinal'
    BY <1>4, <1>14 DEF VerifyFact
<1>15. CASE UNCHANGED vars
    BY <1>4, <1>15 DEF vars
<1> QED
    BY <1>5, <1>8, <1>9, <1>10, <1>11, <1>12, <1>13, <1>14, <1>15 DEF Next, IngestStep

\* An ingest that replaces chunks leaves their source marked as changed.
LEMMA ReplacedIsNotOwed ==
  ASSUME IInv, NEW k \in Ingests, CommitIngest(k), NEW c \in doomed[k]
  PROVE  SourceOf(c) = target[k] /\ status'[target[k]] # "pending_embedding"
<1> USE DEF TypeOK
<1>1. /\ status' = [status EXCEPT ![target[k]] = NewStatus(k)]
      /\ target[k] \in Ingests /\ pc[k] = "replaced"
    BY CommitStores DEF CommitIngest
<1>2. c \in StoredChunks(target[k])
    BY <1>1 DEF DeletesAll, DeletesFor, IInv
<1>3. SourceOf(c) = target[k] /\ c[1] \in Ingests /\ pc[c[1]] = "done"
    BY <1>2, ChunkOwner DEF StoredChunks, ChunksAreCommitted, IInv
<1>4. target[k] # k
    BY <1>1, <1>3 DEF SourceOf, TargetsExist, Open, IInv
<1>5. NewStatus(k) # "pending_embedding"
    BY <1>1, <1>4 DEF NewStatus, SeenIsFinal, Open, IInv
<1> QED
    BY <1>1, <1>3, <1>5 DEF IInv

\* Every step keeps BatchIsTaken: a chunk only goes when its source is replaced.
LEMMA StepTaken == IInv /\ [Next]_vars => BatchIsTaken'
<1> SUFFICES ASSUME IInv, [Next]_vars PROVE BatchIsTaken'
    OBVIOUS
<1> USE DEF TypeOK
<1>1. ASSUME NEW c, c[1] \in Ingests, pc[c[1]] = "done" PROVE pc'[c[1]] = "done" /\ target'[c[1]] = target[c[1]]
  <2>1. CASE \A i \in Ingests : ~CommitIngest(i)
      BY <1>1, <2>1, OtherStepsAreCalm DEF Calm
  <2>2. ASSUME NEW i \in Ingests, CommitIngest(i) PROVE pc'[c[1]] = "done" /\ target'[c[1]] = target[c[1]]
      BY <1>1, <2>2 DEF CommitIngest, IInv
  <2> QED
      BY <2>1, <2>2
<1>2. ASSUME NEW c \in chunks, c \notin chunks', c[1] \in Ingests
      PROVE  status'[target[c[1]]] # "pending_embedding"
  <2>1. CASE \A i \in Ingests : ~CommitIngest(i)
      BY <1>2, <2>1, OtherStepsAreCalm DEF Calm
  <2>2. ASSUME NEW k \in Ingests, CommitIngest(k) PROVE status'[target[c[1]]] # "pending_embedding"
    <3>1. c \in doomed[k]
        BY <1>2, <2>2 DEF CommitIngest
    <3> QED
        BY <2>2, <3>1, ReplacedIsNotOwed DEF SourceOf
  <2> QED
      BY <2>1, <2>2
<1>3. ASSUME NEW c, c[1] \in Ingests, pc[c[1]] = "done", target[c[1]] \in Ingests,
             status[target[c[1]]] # "pending_embedding"
      PROVE  status'[target[c[1]]] # "pending_embedding"
    BY <1>3, OnlyNewIsOwed DEF TargetsExist, IInv
<1>4. ASSUME NEW p \in Passes, NEW c \in batch'[p],
             c[1] \in Ingests, pc[c[1]] = "done", target[c[1]] \in Ingests,
             c \in chunks \/ status[target[c[1]]] # "pending_embedding"
      PROVE  /\ c[1] \in Ingests /\ pc'[c[1]] = "done" /\ target'[c[1]] \in Ingests
             /\ c \in chunks' \/ status'[target'[c[1]]] # "pending_embedding"
    BY <1>1, <1>2, <1>3, <1>4
<1>5. ASSUME NEW p \in Passes, batch'[p] \subseteq batch[p] PROVE TakenFor(p)'
    BY <1>4, <1>5 DEF TakenFor, BatchIsTaken, IInv
<1>6. ASSUME NEW p \in Passes, batch'[p] \subseteq chunks PROVE TakenFor(p)'
    BY <1>4, <1>6, ChunkOwner DEF TakenFor, ChunksAreCommitted, IInv
<1>7. ASSUME NEW p \in Passes, SelectPending(p) PROVE BatchIsTaken'
  <2>1. batch'[p] \subseteq chunks /\ \A q \in Passes \ {p} : batch'[q] = batch[q]
      BY <1>7 DEF SelectPending, Pending, IInv
  <2> QED
      BY <1>5, <1>6, <2>1 DEF BatchIsTaken
<1>8. ASSUME NEW p \in Passes, UNCHANGED batch \/ batch' = [batch EXCEPT ![p] = {}] PROVE BatchIsTaken'
    BY <1>5, <1>8 DEF BatchIsTaken, IInv
<1>9. ASSUME UNCHANGED batch PROVE BatchIsTaken'
    BY <1>5, <1>9 DEF BatchIsTaken
<1>10. ASSUME NEW p \in Passes, PassStep(p) \/ ProviderDown(p), ~SelectPending(p) PROVE BatchIsTaken'
    BY <1>8, <1>10 DEF PassStep, ProviderDown, EmbedBatch, FlushVectors, StaleBatch, CountRemaining,
       CommitPass, EndPass
<1>11. ASSUME NEW i \in Ingests, IngestStep(i) \/ EmbeddingDeferred(i) \/ IngestFails(i) PROVE BatchIsTaken'
  <2>1. ASSUME NEW p \in Passes, BreakDeadlock(i, p) PROVE BatchIsTaken'
      BY <1>8, <1>9, <2>1 DEF BreakDeadlock, PassIsUndone, EndPass, passVars
  <2> QED
      BY <1>9, <1>11, <2>1 DEF IngestStep, StoreDocument, EmbedChunks, NoChunks, DeleteChunks, CommitIngest,
         EmbeddingDeferred, IngestFails, passVars
<1>12. ASSUME NEW i \in Ingests, NEW u \in Urls, NEW v \in Contents,
              FindUnchanged(i, u, v) \/ FindSource(i, u, v)
       PROVE  BatchIsTaken'
    BY <1>9, <1>12 DEF FindUnchanged, FindSource, passVars
<1>13. ASSUME NEW f \in Facts, NEW s \in Ingests, VerifyFact(f, s) PROVE BatchIsTaken'
    BY <1>9, <1>13 DEF VerifyFact, passVars
<1>14. CASE UNCHANGED vars
    BY <1>9, <1>14 DEF vars, passVars
<1> QED
    BY <1>7, <1>10, <1>11, <1>12, <1>13, <1>14 DEF Next

\* Every step keeps BatchIsHeld: a pass and an ingest wait for each other's chunks.
LEMMA StepBatch == IInv /\ [Next]_vars => BatchIsHeld'
<1> SUFFICES ASSUME IInv, [Next]_vars PROVE BatchIsHeld'
    OBVIOUS
<1> USE DEF TypeOK, chunkTable, ingestVars, passVars, Forget, EndPass
<1>1. ASSUME NEW p \in Passes, passPc'[p] = passPc[p], batch'[p] = batch[p], chunks' = chunks,
             \A i \in Ingests : doomed'[i] = doomed[i] \/ doomed'[i] = {}
      PROVE  HeldFor(p)'
    BY <1>1 DEF HeldFor, BatchIsHeld, IInv
<1>2. ASSUME NEW p \in Passes, passPc'[p] \notin {"flushed", "counted"} PROVE HeldFor(p)'
    BY <1>2 DEF HeldFor
<1>3. ASSUME UNCHANGED <<passPc, batch, chunks, doomed>> PROVE BatchIsHeld'
    BY <1>1, <1>3 DEF BatchIsHeld
<1>4. ASSUME NEW i \in Ingests, AbortIngest(i), UNCHANGED passVars PROVE BatchIsHeld'
    BY <1>1, <1>4 DEF AbortIngest, BatchIsHeld, IInv
<1>5. ASSUME NEW i \in Ingests, NEW p \in Passes, passPc'[p] = passPc[p], batch'[p] = batch[p], chunks' = chunks,
             doomed' = [doomed EXCEPT ![i] = StoredChunks(target[i])],
             \A c \in StoredChunks(target[i]) : ~HoldsChunk(p, c)
      PROVE  HeldFor(p)'
    BY <1>5 DEF HeldFor, HoldsChunk, StoredChunks, BatchIsHeld, IInv
<1>6. ASSUME NEW i \in Ingests, IngestStep(i) \/ EmbeddingDeferred(i) \/ IngestFails(i)
      PROVE  BatchIsHeld'
  <2>1. CASE StoreDocument(i) \/ EmbedChunks(i) \/ NoChunks(i) \/ EmbeddingDeferred(i)
      BY <1>3, <2>1 DEF StoreDocument, EmbedChunks, NoChunks, EmbeddingDeferred
  <2>2. CASE DeleteChunks(i)
      BY <1>5, <2>2 DEF DeleteChunks, ChunksAreFree, BatchIsHeld
  <2>3. CASE CommitIngest(i)
    <3>1. /\ passPc' = passPc /\ batch' = batch /\ doomed' = [doomed EXCEPT ![i] = {}]
          /\ chunks' = (chunks \ doomed[i]) \cup ChunksOf(i)
        BY <2>3 DEF CommitIngest
    <3> QED
        BY <3>1 DEF BatchIsHeld, HeldFor, IInv
  <2>4. ASSUME NEW p \in Passes, BreakDeadlock(i, p) PROVE BatchIsHeld'
    <3>1. CASE PassIsUndone(i, p)
      <4>1. HeldFor(p)'
          BY <1>2, <3>1 DEF PassIsUndone, EndOf, IInv
      <4>2. ASSUME NEW q \in Passes \ {p} PROVE HeldFor(q)'
        <5>1. CASE UNCHANGED <<pc, doomed>>
            BY <1>1, <3>1, <5>1 DEF PassIsUndone, IInv
        <5>2. CASE /\ \A c \in StoredChunks(target[i]) : ~HoldsChunk(q, c)
                   /\ doomed' = [doomed EXCEPT ![i] = StoredChunks(target[i])]
            BY <1>5, <3>1, <5>2 DEF PassIsUndone, IInv
        <5> QED
            BY <3>1, <5>1, <5>2 DEF PassIsUndone
      <4> QED
          BY <4>1, <4>2 DEF BatchIsHeld
    <3> QED
        BY <1>4, <2>4, <3>1 DEF BreakDeadlock
  <2>5. CASE IngestFails(i)
      BY <1>4, <2>5 DEF IngestFails
  <2> QED
      BY <1>6, <2>1, <2>2, <2>3, <2>4, <2>5 DEF IngestStep
<1>7. ASSUME NEW i \in Ingests, NEW u \in Urls, NEW v \in Contents,
             FindUnchanged(i, u, v) \/ FindSource(i, u, v)
      PROVE  BatchIsHeld'
    BY <1>3, <1>7 DEF FindUnchanged, FindSource
<1>8. ASSUME NEW p \in Passes, PassStep(p) \/ ProviderDown(p) PROVE BatchIsHeld'
  <2>1. chunks' = chunks /\ doomed' = doomed
        /\ \A q \in Passes \ {p} : passPc'[q] = passPc[q] /\ batch'[q] = batch[q]
      BY <1>8 DEF PassStep, ProviderDown, SelectPending, EmbedBatch, FlushVectors, StaleBatch,
         CountRemaining, CommitPass, IInv
  <2>2. \A q \in Passes \ {p} : HeldFor(q)'
      BY <1>1, <2>1
  <2>3. CASE FlushVectors(p)
    <3>1. HeldFor(p)'
        BY <2>3 DEF FlushVectors, BatchIsFree, HeldFor, IInv
    <3> QED
        BY <2>2, <3>1 DEF BatchIsHeld
  <2>4. CASE CountRemaining(p)
    <3>1. HeldFor(p)'
        BY <2>4 DEF CountRemaining, HeldFor, BatchIsHeld, IInv
    <3> QED
        BY <2>2, <3>1 DEF BatchIsHeld
  <2>5. CASE \/ SelectPending(p) \/ EmbedBatch(p) \/ StaleBatch(p) \/ CommitPass(p) \/ ProviderDown(p)
    <3>1. passPc'[p] \notin {"flushed", "counted"}
        BY <2>5 DEF SelectPending, EmbedBatch, StaleBatch, CommitPass, ProviderDown, EndOf, IInv
    <3> QED
        BY <1>2, <2>2, <3>1 DEF BatchIsHeld
  <2> QED
      BY <1>8, <2>3, <2>4, <2>5 DEF PassStep
<1>9. ASSUME NEW f \in Facts, NEW s \in Ingests, VerifyFact(f, s) PROVE BatchIsHeld'
    BY <1>3, <1>9 DEF VerifyFact
<1>10. CASE UNCHANGED vars
    BY <1>3, <1>10 DEF vars
<1> QED
    BY <1>6, <1>7, <1>8, <1>9, <1>10 DEF Next

\* No step makes a committed source absent, and only an ingest takes vectors away.
LEMMA RowsStay ==
  ASSUME IInv, [Next]_vars
  PROVE  /\ \A s \in Ingests : status[s] # "absent" => status'[s] # "absent"
         /\ (\A i \in Ingests : ~CommitIngest(i)) => vectors \subseteq vectors'
<1> USE DEF sourceTable, chunkTable
<1>1. ASSUME NEW i \in Ingests, CommitIngest(i)
      PROVE  \A s \in Ingests : status[s] # "absent" => status'[s] # "absent"
  <2>1. target[i] \in Ingests
      BY <1>1, CommitStores
  <2>2. status[target[i]] # "absent" => NewStatus(i) # "absent"
      BY DEF NewStatus
  <2> QED
      BY <1>1, <2>1, <2>2 DEF CommitIngest, IInv, TypeOK
<1>2. ASSUME NEW p \in Passes, CommitPass(p)
      PROVE  /\ \A s \in Ingests : status[s] # "absent" => status'[s] # "absent"
             /\ vectors \subseteq vectors'
    BY <1>2 DEF CommitPass
<1>3. ASSUME NEW i \in Ingests, NEW u \in Urls, NEW v \in Contents,
             FindUnchanged(i, u, v) \/ FindSource(i, u, v)
      PROVE  UNCHANGED <<status, vectors>>
    BY <1>3 DEF FindUnchanged, FindSource
<1>4. ASSUME NEW i \in Ingests, IngestStep(i) \/ EmbeddingDeferred(i) \/ IngestFails(i), ~CommitIngest(i)
      PROVE  UNCHANGED <<status, vectors>>
    BY <1>4 DEF IngestStep, StoreDocument, EmbedChunks, NoChunks, DeleteChunks, EmbeddingDeferred,
       IngestFails, AbortIngest, BreakDeadlock, PassIsUndone
<1>5. ASSUME NEW p \in Passes, PassStep(p) \/ ProviderDown(p), ~CommitPass(p)
      PROVE  UNCHANGED <<status, vectors>>
    BY <1>5 DEF PassStep, ProviderDown, SelectPending, EmbedBatch, FlushVectors, StaleBatch, CountRemaining
<1>6. ASSUME NEW f \in Facts, NEW s \in Ingests, VerifyFact(f, s) PROVE UNCHANGED <<status, vectors>>
    BY <1>6 DEF VerifyFact
<1>7. CASE UNCHANGED vars
    BY <1>7 DEF vars
<1> QED
    BY <1>1, <1>2, <1>3, <1>4, <1>5, <1>6, <1>7 DEF Next

\* Every step keeps CompletesSource: while a pass holds a chunk of a source, no ingest
\* can replace what is stored of it.
LEMMA StepCompletes == IInv /\ [Next]_vars => CompletesSource'
<1> SUFFICES ASSUME IInv, [Next]_vars PROVE CompletesSource'
    OBVIOUS
<1> USE DEF TypeOK, passVars, EndPass
<1>1. ASSUME NEW p \in Passes, NEW s \in complete[p], passPc'[p] = passPc[p], batch'[p] = batch[p]
      PROVE  CompletedBy(p, s)'
  <2>1. CompletedBy(p, s) /\ s \in Ingests
      BY DEF CompletesSource, IInv
  <2>2. \A i \in Ingests : batch[p] \cap doomed[i] = {}
      BY <2>1 DEF BatchIsHeld, HeldFor, CompletedBy, IInv
  <2>3. \A c \in batch[p] : /\ c[1] \in Ingests /\ pc[c[1]] = "done"
      BY DEF BatchIsTaken, TakenFor, IInv
  <2>4. PICK c \in batch[p] \cap chunks : SourceOf(c) = s
      BY <2>1 DEF CompletedBy
  <2>5. status'[s] # "absent"
      BY <2>1, RowsStay DEF CompletedBy
  <2>6. CASE \A i \in Ingests : ~CommitIngest(i)
    <3>1. Calm /\ vectors \subseteq vectors'
        BY <2>6, OtherStepsAreCalm, RowsStay
    <3>2. StoredChunks(s)' = StoredChunks(s) /\ chunks' = chunks
        BY <3>1, <2>1, CalmStores DEF IInv, Calm
    <3>3. target'[c[1]] = target[c[1]]
        BY <3>1, <2>3, <2>4 DEF Calm
    <3>4. StoredChunks(s)' \cap Pending' \subseteq batch[p]
        BY <2>1, <3>1, <3>2 DEF CompletedBy, Pending
    <3>5. SourceOf(c)' = s
        BY <2>4, <3>3 DEF SourceOf
    <3> QED
        BY <1>1, <2>1, <2>4, <2>5, <3>2, <3>4, <3>5 DEF CompletedBy
  <2>7. ASSUME NEW i \in Ingests, CommitIngest(i) PROVE CompletedBy(p, s)'
    <3>1. /\ target' = target /\ pc[i] = "replaced"
          /\ vectors' = (vectors \ doomed[i]) \cup (IF embedded[i] THEN ChunksOf(i) ELSE {})
          /\ chunks' = (chunks \ doomed[i]) \cup ChunksOf(i)
        BY <2>7 DEF CommitIngest
    <3>2. target[i] = s => ChunkCount[content[i]] = 0
      <4>1. c \notin doomed[i] /\ c \in chunks
          BY <2>2, <2>4
      <4>2. target[i] = s => c \in StoredChunks(target[i])
          BY <2>4, <4>1 DEF StoredChunks
      <4> QED
          BY <3>1, <4>1, <4>2 DEF IInv, DeletesAll, DeletesFor
    <3>3. StoredChunks(s)' = StoredChunks(s)
      <4>1. CASE target[i] # s
          BY <2>1, <2>7, <4>1, CommitStores
      <4>2. CASE target[i] = s
        <5>1. chunks' = chunks
            BY <2>7, <3>2, <4>2, CommitStores
        <5> QED
            BY <3>1, <5>1 DEF StoredChunks, SourceOf
      <4> QED
          BY <4>1, <4>2
    <3>4. \A d \in StoredChunks(s) : d \in vectors => d \in vectors'
      <4>1. CASE target[i] = s
          BY <2>7, <3>2, <4>1, CommitStores
      <4>2. CASE target[i] # s
        <5>1. doomed[i] \cap StoredChunks(s) = {}
            BY <3>1, <4>2 DEF IInv, DeletesAll, DeletesFor, StoredChunks
        <5> QED
            BY <3>1, <5>1
      <4> QED
          BY <4>1, <4>2
    <3>5. StoredChunks(s)' \cap Pending' \subseteq batch[p]
        BY <2>1, <3>3, <3>4 DEF CompletedBy, Pending, StoredChunks
    <3>6. SourceOf(c)' = s /\ c \in chunks'
        BY <2>2, <2>4, <3>1 DEF SourceOf
    <3> QED
        BY <1>1, <2>1, <2>4, <2>5, <3>5, <3>6 DEF CompletedBy
  <2> QED
      BY <2>6, <2>7
<1>2. ASSUME NEW p \in Passes, passPc'[p] = passPc[p], batch'[p] = batch[p], complete'[p] = complete[p]
      PROVE  \A s \in complete'[p] : CompletedBy(p, s)'
    BY <1>1, <1>2
<1>3. ASSUME UNCHANGED passVars PROVE CompletesSource'
    BY <1>2, <1>3 DEF CompletesSource
<1>4. ASSUME NEW p \in Passes, complete'[p] = {},
             \A q \in Passes \ {p} : /\ passPc'[q] = passPc[q] /\ batch'[q] = batch[q]
                                     /\ complete'[q] = complete[q]
      PROVE  CompletesSource'
    BY <1>2, <1>4 DEF CompletesSource
<1>5. ASSUME NEW p \in Passes, CountRemaining(p) PROVE CompletesSource'
  <2>1. ASSUME NEW s \in complete'[p] PROVE CompletedBy(p, s)'
    <3>1. /\ complete'[p] = {t \in {SourceOf(c) : c \in batch[p]} :
                status[t] = "pending_embedding" /\ StoredChunks(t) \cap Pending \subseteq batch[p]}
          /\ passPc'[p] = "counted" /\ UNCHANGED <<status, batch, chunks, vectors, target>>
        BY <1>5 DEF CountRemaining, IInv, sourceTable, chunkTable, ingestVars
    <3>2. /\ status[s] = "pending_embedding" /\ StoredChunks(s) \cap Pending \subseteq batch[p]
          /\ \E c \in batch[p] \cap chunks : SourceOf(c) = s
        BY <3>1 DEF SourceOf, BatchIsTaken, TakenFor, IInv
    <3> QED
        BY <3>1, <3>2 DEF CompletedBy, StoredChunks, SourceOf, Pending
  <2>2. \A q \in Passes \ {p} : /\ passPc'[q] = passPc[q] /\ batch'[q] = batch[q]
                                /\ complete'[q] = complete[q]
      BY <1>5 DEF CountRemaining, IInv
  <2> QED
      BY <1>2, <2>1, <2>2 DEF CompletesSource
<1>6. ASSUME NEW p \in Passes, passPc[p] # "counted" PROVE complete[p] = {}
    BY <1>6 DEF CompletesSource, CompletedBy, IInv
<1>7. ASSUME NEW p \in Passes, \/ SelectPending(p) \/ EmbedBatch(p) \/ FlushVectors(p) \/ StaleBatch(p)
                               \/ CommitPass(p) \/ ProviderDown(p)
      PROVE  CompletesSource'
  <2>1. complete'[p] = {}
      BY <1>6, <1>7 DEF SelectPending, EmbedBatch, FlushVectors, StaleBatch, CommitPass, ProviderDown, IInv
  <2>2. \A q \in Passes \ {p} : /\ passPc'[q] = passPc[q] /\ batch'[q] = batch[q]
                                /\ complete'[q] = complete[q]
      BY <1>7 DEF SelectPending, EmbedBatch, FlushVectors, StaleBatch, CommitPass, ProviderDown, IInv
  <2> QED
      BY <1>4, <2>1, <2>2
<1>8. ASSUME NEW i \in Ingests, NEW p \in Passes, BreakDeadlock(i, p) PROVE CompletesSource'
  <2>1. CASE PassIsUndone(i, p)
      BY <1>4, <2>1 DEF PassIsUndone, IInv
  <2> QED
      BY <1>3, <1>8, <2>1 DEF BreakDeadlock
<1>9. ASSUME NEW i \in Ingests, \/ StoreDocument(i) \/ EmbedChunks(i) \/ NoChunks(i) \/ DeleteChunks(i)
                                \/ CommitIngest(i) \/ EmbeddingDeferred(i) \/ IngestFails(i)
      PROVE  CompletesSource'
    BY <1>3, <1>9 DEF StoreDocument, EmbedChunks, NoChunks, DeleteChunks, CommitIngest,
       EmbeddingDeferred, IngestFails
<1>10. ASSUME NEW i \in Ingests, NEW u \in Urls, NEW v \in Contents,
              FindUnchanged(i, u, v) \/ FindSource(i, u, v)
       PROVE  CompletesSource'
    BY <1>3, <1>10 DEF FindUnchanged, FindSource
<1>11. ASSUME NEW f \in Facts, NEW s \in Ingests, VerifyFact(f, s) PROVE CompletesSource'
    BY <1>3, <1>11 DEF VerifyFact
<1>12. CASE UNCHANGED vars
    BY <1>3, <1>12 DEF vars
<1> QED
    BY <1>5, <1>7, <1>8, <1>9, <1>10, <1>11, <1>12 DEF Next, IngestStep, PassStep

\* Every step keeps the stored chunks committed, and each source's of one document.
LEMMA StepWhole == IInv /\ [Next]_vars => ChunksAreCommitted' /\ EvidenceIsWhole'
<1> SUFFICES ASSUME IInv, [Next]_vars PROVE ChunksAreCommitted' /\ EvidenceIsWhole'
    OBVIOUS
<1>1. ASSUME NEW s \in Ingests, NEW i \in Ingests, StoredChunks(s) # {}, StoredChunks(s) = ChunksOf(i)
      PROVE  pc[i] = "done"
  <2>1. PICK c \in chunks : c \in ChunksOf(i)
      BY <1>1 DEF StoredChunks
  <2> QED
      BY <2>1 DEF ChunksOf, ChunksAreCommitted, IInv
<1>2. CASE \A i \in Ingests : ~CommitIngest(i)
  <2>1. Calm
      BY <1>2, OtherStepsAreCalm
  <2>2. hash' = hash
    <3>1. ASSUME NEW i \in Ingests, IngestStep(i) \/ EmbeddingDeferred(i) \/ IngestFails(i) PROVE hash' = hash
        BY <1>2, <3>1 DEF IngestStep, StoreDocument, EmbedChunks, NoChunks, DeleteChunks, EmbeddingDeferred,
           IngestFails, AbortIngest, BreakDeadlock, PassIsUndone, sourceTable
    <3>2. ASSUME NEW p \in Passes, PassStep(p) \/ ProviderDown(p) PROVE hash' = hash
        BY <3>2 DEF PassStep, ProviderDown, SelectPending, EmbedBatch, FlushVectors, StaleBatch,
           CountRemaining, CommitPass, sourceTable
    <3>3. ASSUME NEW i \in Ingests, NEW u \in Urls, NEW v \in Contents,
                 FindUnchanged(i, u, v) \/ FindSource(i, u, v)
          PROVE  hash' = hash
        BY <3>3 DEF FindUnchanged, FindSource, sourceTable
    <3> QED
        BY <3>1, <3>2, <3>3 DEF Next, VerifyFact, vars, sourceTable
  <2>3. ASSUME NEW s \in Ingests, StoredChunks(s)' # {}
        PROVE  \E i \in Ingests : /\ target'[i] = s /\ StoredChunks(s)' = ChunksOf(i)'
                                  /\ ChunkCount[hash'[s]] > 0 => content'[i] = hash'[s]
    <3>1. StoredChunks(s)' = StoredChunks(s)
        BY <2>1, CalmStores DEF IInv
    <3>2. PICK i \in Ingests : /\ target[i] = s /\ StoredChunks(s) = ChunksOf(i)
                               /\ ChunkCount[hash[s]] > 0 => content[i] = hash[s]
        BY <2>3, <3>1 DEF EvidenceIsWhole, IInv
    <3>3. pc[i] = "done"
      <4>1. StoredChunks(s) # {} /\ StoredChunks(s) = ChunksOf(i)
          BY <2>3, <3>1, <3>2
      <4> QED
          BY <1>1, <4>1
    <3>4. target'[i] = target[i] /\ content'[i] = content[i] /\ ChunksOf(i)' = ChunksOf(i)
        BY <2>1, <3>3, CalmStores DEF Calm, IInv
    <3>5. target'[i] = s /\ StoredChunks(s)' = ChunksOf(i)'
        BY <3>1, <3>2, <3>4
    <3>6. ChunkCount[hash'[s]] > 0 => content'[i] = hash'[s]
        BY <2>2, <3>2, <3>4
    <3> QED
        BY <3>5, <3>6
  <2>4. ChunksAreCommitted'
      BY <2>1, CalmStores DEF IInv
  <2> QED
      BY <2>3, <2>4 DEF EvidenceIsWhole
<1>3. ASSUME NEW k \in Ingests, CommitIngest(k) PROVE ChunksAreCommitted' /\ EvidenceIsWhole'
  <2>1. /\ target' = target /\ content' = content
        /\ pc' = [pc EXCEPT ![k] = "done"] /\ hash' = [hash EXCEPT ![target[k]] = content[k]]
        /\ chunks' = (chunks \ doomed[k]) \cup ChunksOf(k)
      BY <1>3 DEF CommitIngest
  <2>2. \A i \in Ingests : ChunksOf(i)' = ChunksOf(i)
      BY <2>1 DEF ChunksOf
  <2>3. ChunksAreCommitted'
    <3>1. target[k] \in Ingests /\ \A c \in ChunksOf(k) : c[1] = k
        BY <1>3, CommitStores
    <3>2. \A c \in chunks : c[1] \in Ingests
        BY ChunkOwner DEF IInv
    <3> QED
        BY <2>1, <3>1, <3>2 DEF ChunksAreCommitted, IInv, TypeOK
  <2>4. ASSUME NEW s \in Ingests, StoredChunks(s)' # {}
        PROVE  \E i \in Ingests : /\ target'[i] = s /\ StoredChunks(s)' = ChunksOf(i)'
                                  /\ ChunkCount[hash'[s]] > 0 => content'[i] = hash'[s]
    <3>1. CASE s # target[k]
      <4>1. StoredChunks(s)' = StoredChunks(s) /\ hash'[s] = hash[s]
          BY <1>3, <2>1, <3>1, CommitStores DEF IInv, TypeOK
      <4> QED
          BY <2>1, <2>2, <2>4, <4>1 DEF EvidenceIsWhole, IInv
    <3>2. CASE s = target[k] /\ ChunkCount[content[k]] = 0
      <4>1. StoredChunks(s)' = StoredChunks(s)
          BY <1>3, <2>1, <3>2, CommitStores DEF StoredChunks
      <4>2. hash'[s] = content[k]
          BY <2>1, <3>2 DEF IInv, TypeOK
      <4> QED
          BY <2>1, <2>2, <2>4, <3>2, <4>1, <4>2 DEF EvidenceIsWhole, IInv
    <3>3. CASE s = target[k] /\ ChunkCount[content[k]] # 0
      <4>1. StoredChunks(s)' = ChunksOf(k)
          BY <1>3, <2>1, <3>3, CommitStores DEF StoredChunks
      <4>2. hash'[s] = content[k]
          BY <2>1, <3>3 DEF IInv, TypeOK
      <4> QED
          BY <2>1, <2>2, <3>3, <4>1, <4>2
    <3> QED
        BY <3>1, <3>2, <3>3
  <2> QED
      BY <2>3, <2>4 DEF EvidenceIsWhole
<1> QED
    BY <1>2, <1>3

\* The corpus is loaded whole, or not at all.
LEMMA InitInv == Init => IInv
<1> SUFFICES ASSUME Init PROVE IInv
    OBVIOUS
<1>1. PICK loaded \in SUBSET Seeds : \E vectored \in SUBSET loaded, page \in [loaded -> Urls],
        text \in [loaded -> {v \in Contents : ChunkCount[v] > 0}] : Seeded(loaded, vectored, page, text)
    BY DEF Init
<1>2. PICK vectored \in SUBSET loaded, page \in [loaded -> Urls],
           text \in [loaded -> {v \in Contents : ChunkCount[v] > 0}] : Seeded(loaded, vectored, page, text)
    BY <1>1
<1>3. loaded \subseteq Ingests
    BY IngestionAssumption
<1> DEFINE made(i) == {i} \X (1..ChunkCount[text[i]])
<1>4. /\ url = [s \in Ingests |-> IF s \in loaded THEN page[s] ELSE None]
      /\ hash = [s \in Ingests |-> IF s \in loaded THEN text[s] ELSE None]
      /\ status = [s \in Ingests |-> IF s \notin loaded THEN "absent"
                                     ELSE IF s \in vectored THEN "active" ELSE "pending_embedding"]
      /\ chunks = UNION {made(i) : i \in loaded}
      /\ vectors = UNION {made(i) : i \in vectored}
      /\ content = [i \in Ingests |-> IF i \in loaded THEN text[i] ELSE None]
      /\ target = [i \in Ingests |-> IF i \in loaded THEN i ELSE None]
      /\ pc = [i \in Ingests |-> IF i \in loaded THEN "done" ELSE IF i \in Seeds THEN "failed" ELSE "idle"]
    BY <1>2 DEF Seeded
<1>5. \A i \in loaded : /\ text[i] \in Contents /\ page[i] \in Urls /\ ChunkCount[text[i]] \in Nat
                        /\ \A c \in made(i) : c[1] = i /\ c \in AllChunks
    BY <1>3, IngestionAssumption DEF AllChunks
<1>6. chunks \subseteq AllChunks /\ vectors \subseteq chunks
    BY <1>4, <1>5
<1>7. TypeOK
  <2>1. asks \in [Ingests -> BOOLEAN] /\ embedded \in [Ingests -> BOOLEAN]
      BY Zenon DEF Init
  <2>2. /\ url \in [Ingests -> Urls \cup {None}] /\ hash \in [Ingests -> Contents \cup {None}]
        /\ content \in [Ingests -> Contents \cup {None}] /\ target \in [Ingests -> Ingests \cup {None}]
      BY <1>3, <1>4, <1>5
  <2> QED
      BY <1>4, <1>6, <2>1, <2>2, IngestionAssumption DEF Init, TypeOK
<1>8. TargetsExist
    BY <1>3, <1>4, IngestionAssumption DEF TargetsExist, Open
<1>9. \A c \in chunks : c[1] \in loaded /\ c \in made(c[1])
    BY <1>4, <1>5
<1>10. ChunksAreCommitted
    BY <1>3, <1>4, <1>9 DEF ChunksAreCommitted
<1>11. OneHolder
    BY <1>4 DEF OneHolder, Locking
<1>12. DeletesAll
    BY <1>4 DEF DeletesAll, DeletesFor, Init
<1>13. BatchIsTaken /\ BatchIsHeld /\ CompletesSource /\ SeenIsFinal
    BY DEF BatchIsTaken, TakenFor, BatchIsHeld, HeldFor, CompletesSource, SeenIsFinal, Init
<1>14. ASSUME NEW s \in Ingests, StoredChunks(s) # {}
       PROVE  \E i \in Ingests : /\ target[i] = s /\ StoredChunks(s) = ChunksOf(i)
                                 /\ ChunkCount[hash[s]] > 0 => content[i] = hash[s]
  <2>1. \A c \in chunks : SourceOf(c) = c[1]
      BY <1>3, <1>4, <1>9 DEF SourceOf
  <2>2. s \in loaded
      BY <1>9, <1>14, <2>1 DEF StoredChunks
  <2>3. StoredChunks(s) = made(s)
    <3>1. made(s) \subseteq chunks
        BY <1>4, <2>2
    <3>2. \A c \in made(s) : c[1] = s
        BY <1>5, <2>2
    <3>3. \A c \in chunks : c[1] = s => c \in made(s)
        BY <1>9
    <3> QED
        BY <2>1, <3>1, <3>2, <3>3 DEF StoredChunks
  <2>4. target[s] = s /\ content[s] = text[s] /\ hash[s] = text[s]
      BY <1>4, <2>2
  <2>5. StoredChunks(s) = ChunksOf(s)
      BY <2>3, <2>4 DEF ChunksOf
  <2> QED
      BY <2>4, <2>5
<1> QED
    BY <1>7, <1>8, <1>10, <1>11, <1>12, <1>13, <1>14 DEF IInv, EvidenceIsWhole

\* The invariant holds in every reachable state.
THEOREM Invariance == Spec => []IInv
<1>1. IInv /\ [Next]_vars => IInv'
    BY StepType, StepTargets, StepHolder, StepDeletes, StepSeen, StepTaken, StepBatch, StepCompletes, StepWhole DEF IInv
<1> QED
    BY InitInv, <1>1, PTL DEF Spec

\* Every variable keeps its type, and every vector is that of a stored chunk, though a pass
\* writes vectors for chunks it has read long before, some of which may be gone: in a batch
\* of one row the UPDATE raises then, in a larger one it leaves the row out.
THEOREM TypeCorrect == Spec => []TypeOK
BY Invariance, PTL DEF IInv

\* "Replace this source's chunks atomically": however many ingests and passes interleave,
\* what is stored of a source is one whole document, the one its hash tells of.
THEOREM StoredEvidenceIsWhole == Spec => []EvidenceIsWhole
BY Invariance, PTL DEF IInv

\* A step that turns a source active leaves none of its chunks without a vector.
LEMMA StepActivates ==
  ASSUME IInv, [Next]_vars, NEW s \in Ingests, status[s] # "active", status'[s] = "active"
  PROVE  StoredChunks(s)' \cap Pending' = {}
<1> USE DEF sourceTable, TypeOK
<1>1. ASSUME NEW i \in Ingests, CommitIngest(i) PROVE StoredChunks(s)' \cap Pending' = {}
  <2>1. /\ status' = [status EXCEPT ![target[i]] = NewStatus(i)] /\ target[i] \in Ingests
        /\ content[i] \in Contents /\ ChunkCount[content[i]] \in Nat /\ pc[i] = "replaced"
      BY <1>1, CommitStores DEF CommitIngest
  <2>2. s = target[i] /\ NewStatus(i) = "active"
      BY <2>1 DEF IInv
  <2>3. target[i] = i /\ (ChunkCount[content[i]] > 0 => embedded[i])
      BY <2>1, <2>2 DEF NewStatus
  <2>4. StoredChunks(s) = {}
    <3>1. ASSUME NEW c \in StoredChunks(s) PROVE FALSE
      <4>1. c[1] \in Ingests /\ pc[c[1]] = "done" /\ target[c[1]] = i
          BY <2>2, <2>3, ChunkOwner DEF StoredChunks, SourceOf, ChunksAreCommitted, IInv
      <4>2. c[1] # i /\ status[i] = "absent"
          BY <2>1, <2>3, <4>1 DEF TargetsExist, Open, IInv
      <4> QED
          BY <4>1, <4>2 DEF TargetsExist, IInv
    <3> QED
        BY <3>1
  <2>5. CASE ChunkCount[content[i]] = 0
    <3>1. chunks' = chunks /\ target' = target
        BY <1>1, <2>5, CommitStores DEF CommitIngest
    <3> QED
        BY <2>4, <3>1 DEF StoredChunks, SourceOf
  <2>6. CASE ChunkCount[content[i]] # 0
    <3>1. ChunksOf(i) \subseteq vectors'
        BY <1>1, <2>1, <2>3, <2>6 DEF CommitIngest
    <3>2. StoredChunks(target[i])' = ChunksOf(i) /\ target' = target
        BY <1>1, <2>6, CommitStores DEF CommitIngest
    <3>3. StoredChunks(s)' = ChunksOf(i)
        BY <2>2, <3>2 DEF StoredChunks
    <3> QED
        BY <3>1, <3>3 DEF Pending
  <2> QED
      BY <2>5, <2>6
<1>2. ASSUME NEW p \in Passes, CommitPass(p) PROVE StoredChunks(s)' \cap Pending' = {}
  <2>1. s \in complete[p]
      BY <1>2 DEF CommitPass
  <2>2. StoredChunks(s) \cap Pending \subseteq batch[p]
      BY <2>1 DEF CompletesSource, CompletedBy, IInv
  <2>3. vectors' = vectors \cup (batch[p] \cap chunks) /\ chunks' = chunks /\ target' = target
      BY <1>2 DEF CommitPass, ingestVars
  <2> QED
      BY <2>2, <2>3 DEF Pending, StoredChunks, SourceOf
<1>3. ASSUME NEW i \in Ingests, NEW u \in Urls, NEW v \in Contents,
             FindUnchanged(i, u, v) \/ FindSource(i, u, v)
      PROVE  FALSE
    BY <1>3 DEF FindUnchanged, FindSource
<1>4. ASSUME NEW i \in Ingests, IngestStep(i) \/ EmbeddingDeferred(i) \/ IngestFails(i), ~CommitIngest(i)
      PROVE  FALSE
    BY <1>4 DEF IngestStep, StoreDocument, EmbedChunks, NoChunks, DeleteChunks, EmbeddingDeferred,
       IngestFails, AbortIngest, BreakDeadlock, PassIsUndone
<1>5. ASSUME NEW p \in Passes, PassStep(p) \/ ProviderDown(p), ~CommitPass(p) PROVE FALSE
    BY <1>5 DEF PassStep, ProviderDown, SelectPending, EmbedBatch, FlushVectors, StaleBatch, CountRemaining
<1>6. ASSUME NEW f \in Facts, NEW t \in Ingests, VerifyFact(f, t) PROVE FALSE
    BY <1>6 DEF VerifyFact
<1>7. CASE UNCHANGED vars
    BY <1>7 DEF vars
<1> QED
    BY <1>1, <1>2, <1>3, <1>4, <1>5, <1>6, <1>7 DEF Next

\* No source is completed by a pass or an ingest while vectors are still owed for it.
THEOREM SourcesAreActivatedWithVectors == Spec => ActivatedWithVectors
<1> DEFINE Activates == \A s \in Ingests : status[s] # "active" /\ status'[s] = "active" =>
                          StoredChunks(s)' \cap Pending' = {}
<1>1. IInv /\ [Next]_vars => [Activates]_vars
    BY StepActivates
<1> QED
    BY <1>1, Invariance, PTL DEF Spec, ActivatedWithVectors
=============================================================================
