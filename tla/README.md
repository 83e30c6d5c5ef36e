# Verification of japan-second-trip

TLA+ models of the parts of this program that decide something, TLC configurations that
check them on small instances, and TLAPS proofs of the safety properties for every
instance. Paths are relative to `src/backend/src/jst_api/` unless they start with `src/`.

## 1. The system

A Next.js frontend talks to a FastAPI backend. Two LangGraph graphs, *where_next* (which
region for the second trip) and *route_check* (is this itinerary sound), run inside a
request, read evidence and call tools through an MCP gateway, and store an analysis. A
reviewer settles what the graphs will not. PostgreSQL holds everything that outlives a
request; one process serves many requests as asyncio coroutines.

### Components

| Component | State | Operations | Interacts with | Modules |
|---|---|---|---|---|
| Human review and resumption (`services/review_service.py`, `services/analysis_service.py`, the review tools of `services/mcp_backend.py`) | tables `analyses`, `human_review_tasks`, `verification_records` | run an analysis, `create_human_review_request`, `resolve`, resume by re-execution | graphs (through the tool belt), trip memory, evidence | `HumanReview`, `ReviewPromise` |
| Trip memory (`services/trip_service.py`, `get_trip_context` and `save_trip_decision` of `services/mcp_backend.py`) | tables `trips`, `candidate_regions` | create, `apply_update`, `record_analysis_outcome`, save a decision, read the context | where_next reads it at the start and writes it at the end | `TripMemory` |
| Knowledge ingestion and embedding (`knowledge/ingest.py`, `knowledge/reembed.py`, `api/v1/admin.py`) | tables `sources`, `source_documents`, `evidence_chunks` | load the corpus, ingest a url or text, refresh, embed what is pending, background loop | embedding provider, review (a changed source), retrieval | `Ingestion` |
| Billing (`services/billing_service.py`, `api/v1/billing.py`) | table `purchases` | checkout, confirm, cancel, sync, webhook | Stripe | `Checkout` |
| Providers, resilience, cache (`providers/`, `core/resilience.py`, `core/cache.py`) | breaker counters, cache entries | look-ups of places, transport, weather; retries | catalogue, live adapters | `TransportSearch`, `ProviderCalls` |
| Language model (`providers/llm.py`, `providers/registry.py`) | a breaker per adapter | ask, repair a misfit, fall back | both graphs, reranker | `ModelCalls` |
| where_next (`agents/where_next`) | graph state | nodes in order | tool belt, scoring, retrieval, guardrails, model | `WhereNext` over `AgentRun` |
| route_check (`agents/route_check`) | graph state | nodes in order | tool belt, rules and revision, guardrails, model | `RouteCheck` over `AgentRun` |
| Region scoring (`domain/scoring.py`, `domain/region.py`, `seed/regions.py`) | none | constraints, seven components, ranking | where_next | `RegionScoring`, `SeedRegions` |
| Route rules and revision (`domain/route.py`, `route_rules.py`, `revision.py`, `services/route_service.py`) | none | build a route, grade it, propose another | route_check | `RouteRules`, `RouteRevision` |
| Retrieval and context (`knowledge/rag.py`, `retrievers.py`, `fusion.py`, `rerank.py`, `context.py`) | none | dense and keyword search, fusion, reranking, context budget | evidence chunks | `EvidenceSearch` |
| Guardrails and closing summary (`agents/common/guardrails.py`, `agents/common/explanation.py`, `domain/explanation.py`) | none | citation, freshness, sufficiency, conflict, completeness checks | confidence and review of both graphs | `Guardrails`, `ClosingSummary` |
| Verification desk (`domain/freshness.py`, `get_verification_status` of `services/mcp_backend.py`) | table `verification_records` | tell what is out of date and what is disputed | both graphs | `VerificationStatus` |
| Tool belt and MCP gateway (`agents/common/tools.py`, `src/packages/travel_mcp`) | budget of a run | budget, retry, timeout, allow-list | every tool of `services/mcp_backend.py` | `AgentRun` (budget), `HumanReview` (retries) |
| HTTP API and authentication, admin assistant, observability, migrations, evaluation harness, frontend, infrastructure | - | plumbing | - | - |

### What is hard in it

- **Two sessions at once.** Each operation is a transaction of several statements at READ
  COMMITTED; what was read may be stale when it is used. `resolve` reads a task without a
  lock; an outcome is recorded minutes after its run read the memory; a pass of the
  embedding loop holds chunks while the provider works.
- **Retries of what may still be running.** A tool call is abandoned after a timeout and sent
  again, and the first one may still be served.
- **Partial failure.** A tool that is "optional" returns nothing; an outage of the embedding
  provider is stored and repaired later; of several re-runs one may fail.
- **Crashes between two commits** of one request.
- **Shared breakers and caches.** The retries of many callers count against one breaker; what
  one caller caches is the answer of the next.
- **Events that outrun the row they are about**: a webhook before the checkout has committed, a
  cancel after the payment.
- **Long sequences**: analyses that supersede each other, sources that change several times.
- **Numeric edges** in scoring, time windows, budgets and fusion.

### What makes each component correct

- *Review*: a decision reaches every analysis that waits for it and no other; a re-run sees
  the decision; a verified fact stays verified; a decided task is decided once.
- *Trip memory*: a rejected region is not proposed again; a candidate has a record; an
  outcome respects what its run remembered.
- *Ingestion*: what is stored of a source is one whole document, the latest one; missing
  vectors arrive; a change under a verified fact is reviewed.
- *Graphs, guardrails, tool belt*: high confidence rests on evidence and on checks that were
  performed; what depends on a dispute waits for a human and says so; what was ruled out is not
  recommended; a revision keeps the trip and improves it; the budget suffices on every path.
- *Providers and model*: local knowledge is not overruled by a cache; a cached answer suits
  whoever gets it; breakers trip in time; every call ends, and with a stand-in it is answered.
- *Billing*: a purchase is recorded as paid only if it was paid, can always be settled, and an
  announced payment is recorded, whatever the order of webhook, sync and cancel; a demo is never charged, and only a
  cancel that found a purchase pending cancels it.

`PROJECT.json` lists the single hazards, each at the line where it bites, with the
properties that would catch it.

## 2. Plan

Done, in this order: `HumanReview` and `ReviewPromise`; `TripMemory`; `Ingestion`;
`Checkout`; `ProviderCalls` and `ModelCalls`; the algorithms (`TransportSearch`,
`RouteRules`, `RouteRevision`, `RegionScoring`, `EvidenceSearch`, `Guardrails`) and the two graphs
composed of them (`RouteCheck`, `WhereNext`); one module of proofs for each of these, over `ListTheorems`, and in
it, for the first, the refinement; with the lemmas on sums and sorted lists that it needs, the revision of a route; last,
`PurchasePromise` and that `Checkout` implements it.

Left, in order of what it would add:

1. The interactive resume path (`interrupt()` and the checkpointer) of both graphs, composed with
   `HumanReview`.
2. The lists of a trip (warnings, decisions, visited places, preferences), which are read, appended to and
   written back whole.
3. Allow-lists of the tool belt, and the retries of `HumanReview` under the budget of `AgentRun`.

## 3. What is modelled

Some definitions have a neighbour that is not used by any specification
(`LookUpAnyOpenTask` next to `LookUpTask`, for instance): the same operation with a plausible bug in
it. With it in place of the original, the property named beside it in `PROJECT.json` is
violated, which shows that the property depends on that code.

How the modules build on each other:

    ReviewPromise <- HumanReview                 (implements)
    PurchasePromise <- Checkout                  (implements)
    Rounding <- TransportSearch <- ProviderCalls <- ModelCalls
    Rounding, TransportSearch, Orders <- RouteRules <- RouteRevision <- RouteCheck
    Orders, Rounding <- RegionScoring <- WhereNext
    Orders, Rounding, VerificationStatus <- EvidenceSearch <- WhereNext
    Orders <- ItineraryText <- RouteCheck
    Guardrails <- ClosingSummary <- RouteCheck, WhereNext
    SeedRegions <- MCWhereNext
    VerificationStatus <- AgentRun <- RouteCheck, WhereNext
    TripMemory, Ingestion                        (on their own)

An `MC` module gives the constants of a module the values that TLC needs; a `_proofs` module holds the theorems.
`ListTheorems` has the lemmas on `Orders` and on sums that `RouteCheck_proofs` and `WhereNext_proofs` share.

### HumanReview

Three kinds of process over three tables.

| Model | Code |
|---|---|
| `BeginRun`, `StartAnalysis` | `AnalysisService._run` commits a `running` row before the graph starts |
| `DetectConflict`, `GroundingFails`, `NothingToReview`, `Escalate` | `grounding_check`, `confidence_check`, `human_review` of both graphs |
| `LookUpTask`, `AttachTask`, `InsertTask` | the statements of `create_human_review_request`, served in a session of its own |
| `ReceiveReply`, `CallTimesOut`, `AbandonedCallDies`, `LastCallTimesOut`, `CallFails` | `ToolBelt.call` with its retries, `call_optional` |
| `SaveResult`, `SaveFailure`, `RunThrows`, `RunKilled` | the second session of `_run`, `_failure_result`, an exception, a stopped process |
| `CheckTask`, `RefuseTask`, `LockTask`, `CommitDecision` | `resolve` up to its first commit, `_record_verification` |
| `FindBlocked`, `StartRerun`, `FinishResolve` | `_blocked_analyses`, `_resume`, `_resume_one`, second commit |
| `RequestKilled` | the process stops; what it had not committed is gone |

The state of a run (`pc`, `attempt`, `raised`, ...) is the graph state and the coroutine; the
state of a call (`callPc`, `found`, `attach`) is kept per attempt, because an abandoned
attempt goes on. Row ids are handed out in creation order. `resolve` locks the task row at its
first flush and holds it to the commit; other statements take no lock. Values of
a fact, texts, priorities and evidence ids are left out. A task without a field name gets no
verification record (`Topics`); a disputed fact is opened by the seed (`Init`).

`ReviewPromise` states what the component promises without tasks, calls or requests: an
analysis is answered, fails, or waits for a subject; deciding is permanent; it is released only
after its subject was decided and a newer analysis ended in its place. `KeepsPromise` is the
refinement, with `PhaseOf` and `BlockedOn` as the mapping.

Not modelled: the `interrupt()` resume path and the checkpointer, and the read-only listings.

### TripMemory

The candidate and, per region, standing and reason. A session (`PATCH`, the tool
`save_trip_decision`, or the outcome of a run) reads the trip row (`ReadTrip`), then the rows of its
regions (`ReadRegions`), and commits or is rolled back when another session inserted the same
row first (`RowAppeared`, `RollBack`). The guard of `_upsert_candidate` goes by the row as the session
read it (`NewStanding`), and the candidate is set outside the guard (`NewCandidate`), so that an outcome may
overwrite a rejection it has not read, and makes a region the candidate whose rejection it has read
(`proposed_again`). It also writes its own reason over the traveller's (`NewReason`). Assumed of SQLAlchemy and PostgreSQL: only columns whose value differs
from the one read are written; the trip UPDATE is flushed before the first
region is read, so its row is locked to the commit; the identity map is weak, so an outcome re-reads
the trip after its run; the rows of one session's regions are read in one step.
`MemoryUnavailable` is `get_trip_context` failing, which `load_memory` treats as an empty memory.
Not modelled: visited places, warnings, preferences, the log of decisions. The JSON lists
behind these are read, appended to and written back whole.

### Ingestion

An ingest (`FindUnchanged`, `FindSource`, `StoreDocument`, `EmbedChunks` or
`EmbeddingDeferred`, `NoChunks` or `DeleteChunks`, `CommitIngest`) is one transaction of
`_persist`; a pass (`SelectPending`, `EmbedBatch`, `FlushVectors` or `StaleBatch`,
`CountRemaining`, `CommitPass`) is one of `embed_pending`, run by the background loop and by the
administrator. Sources and documents are named after the ingest that makes them; a chunk is a document and
an index. A row that a session has updated or deleted is locked to its commit; an ingest takes the source and then
its chunks, a pass takes chunks and then the source, so they may deadlock, and PostgreSQL
undoes one of the two (`BreakDeadlock`; the survivor that waits for the chunks gets them
before a pass that comes later). A pass may also deadlock within its flush, holding one chunk and waiting for
the next. A deadlock of three (two passes and an ingest) is not modelled apart: it is one more way for a pass to be undone.
A chunk of a batch that is gone by the flush is passed over: an UPDATE of several rows raises nothing when it
matches fewer (asyncpg reports no row counts the ORM would trust for many rows), and the vectors of the others are
committed (`FlushVectors`). Only a batch of one row raises (`StaleBatch`). Loading and chunking are abstracted to how many chunks a
content has, which may be none. The page is loaded and looked up in one step. Nothing in
the API passes `force=True`.
`Seeds` are documents of the corpus that ships with the system (`seed_evidence`): in `Init` each has been loaded
with its vectors, without them or not at all.
`VerifyFact` is the reviewer of `HumanReview`, reduced to what ingestion can see of it.

### Checkout

`StartCheckout`, `StripeCreatesSession`, `TakeSession`, `CommitCheckout`, `SendUrl` and
`CheckoutFails` are the statements of `POST /checkout`: the row is inserted, Stripe is asked, and
only then is anything committed, so that a failure keeps no row. `CompleteSession` and `FundsArrive` are the
traveller and the bank at Stripe's (delayed payment methods complete a session before the
money is there). `ReadWebhook`, `CommitWebhook`, `IgnoreWebhook`, `WebhookFails` and `RedeliverWebhook`
are deliveries of the event; `ConfirmDemo`, `Cancel`, `Sync`, `StripeAnswersSync` and `CommitRequest` are the
routes of the frontend. All read the purchase and write it back in a transaction of their own; no lock is taken
in between, which is why the read and the commit are separate actions. `Restart` changes the
Stripe key, and with it the mode. Amounts, signatures of events and listings are left out.

`PurchasePromise` is a purchase as the traveller sees it, which `Checkout` implements: `status` is its phase, its kind is
`provider` once the row is stored, `Money` is the paid sessions and `Cancelling` the cancels that have read and not
yet written. It does not forbid that such a cancel is written after the payment, which the code does not prevent.

### ProviderCalls, ModelCalls

`LookUp` asks local knowledge, then the shared cache, then the breaker (`AnswerFromHere`,
`AnswerFromNormals`, `RefuseCall`, `BeginCall`); a call then succeeds, is retried or
fails (`CallSucceeds`, `AttemptFails`, `Retry`, `CallFails`), and its caller gets the local answer if the
provider gave none. `CooldownEnds`, `Expire` and `ExpireNormals` stand for time. The transport options
themselves are `TransportSearch`: records of the pair, estimates from the distance, what is kept of a live
answer, and which option a route is built from. The cached list keeps the car options of the caller that filled it;
`CachedRouteSuitsAll` is about the leg that is picked from it, not about `search_transport`, which tells the whole list.

`ModelCalls` adds `FallbackLLMProvider` and `complete_with_repair` over the same retries and breakers:
`AskModel`, `AnswerMisfits`, `Repair`, `GiveUp`, `HandOver` to the secondary, whose own breaker may bar it. `llm`
is the provider the settings build: the stand-in alone, or a live primary with the stand-in, a client of the
same vendor or another vendor behind it. The prose is abstracted to whether it fits its schema.

### AgentRun, RouteCheck, WhereNext

`Step` is a node: it runs, charges its calls to the budget, of which some fail, and hands over. A failed call of a
tool is an absent answer (`call_optional`); a spent budget ends the run.

`RouteCheck` has an action per node, from `ParseItinerary` to `Result`. Its parts:

| Module | Code |
|---|---|
| `ItineraryText` | what the stand-in reads of pasted text (`_demo_extracted_itinerary`): phrases, merging, the cap of 30 |
| `RouteRules` | `build_route`, travel load, the eleven rules and the grade |
| `RouteRevision` | dropping one stop or two, merging one-night stops, reordering; the score of each, `choose_best` with its margin |
| `VerificationStatus` | freshness per topic, what has to be verified again, which conflicts are open, the seed's records |
| `Guardrails` | checks G1 to G5 and G7, the cap each puts on the confidence, when a human is asked |
| `ClosingSummary` | the summary a model writes, and the one it is discarded for |

`WhereNext` has an action per node, from parsing the preferences to `answer`. Its parts, beside the last three:

| Module | Code |
|---|---|
| `RegionScoring` | `evaluate_hard_constraints`, the seven components, score, label and order of regions |
| `SeedRegions` | the five profiles of `seed/regions.py` |
| `EvidenceSearch` | the filters, both retrievers, weighted reciprocal rank fusion, both rerankers, `assemble_evidence_context` with near-duplicates, injection flags and the token budget |

Texts are sets or sequences of the operational literals they tell (`<<"price", "13,000 yen">>`), as that is all the
guardrails read of them; a live model may write any of `Sentences` or `Blocks`, the stand-in quotes what it was given.
The catalogue, the corpus, its distances and lexical scores are constants. Numbers are integers (minutes,
hundredths, ten-thousandths): scores are rounded where the code rounds, and intermediate floating-point error is
not modelled. `Orders` and `Rounding` stand for Python's `sorted` and `round`; `round` ties upwards in the model and to even
in Python, which differs only at an exact half.

An answer of where_next is built for every region, and what any of them cites is cited (`Built`), but it returns the first
`MaxExplained` candidates and the rejected (`Shown`): `nodes.py:859-861` drops the candidates after the fourth, although the
comment at `nodes.py:47-48` says that the rest "are still returned". A headline is copied as the model wrote it, whereas the sentences
that carry a stripped claim are dropped (`Kept`). The cities of a trip are taken as names of gateways; that `access_from` matches parts
of names is left out. `Draft` of `RouteCheck` has nothing hostile in it: what the search returns has passed its quarantine, and a snippet
is a part of it.

Left out: weather in route_check, prompts and wording, and `interrupt()`.

## 4. What the runs check

| Run | Instance | Shows |
|---|---|---|
| `reviewers` | 2 reviewers, 1 traveller, 3 analyses and tasks, a fact and a topic, any 2 faults of five kinds | `TypeOK`, `SupersededBySavedRun`, `CitedTaskIsAboutTheAnalysis`, `OneCurrentRecordPerTask`, `CurrentRecordSurvives`, and the refinement `KeepsPromise` |
| `live` | 2 travellers, 4 analyses and tasks, 1 reviewer, a timeout or a failing graph, fairness | `RerunNeverBlocksOnItsTask`; every blocked analysis is released, every started one is answered |
| `late_save` | 1 traveller, 1 reviewer, no fault | **violated**: a task resolved between the call that escalates and the save of the analysis leaves that analysis waiting |
| `sessions` | 2 requests and a run over 2 regions, 1 failing tool call | `TypeOK`, `CandidateIsOnRecord`, `OutcomeRespectsMemory` |
| `proposed_again` | the same, no failing call | **violated**: a region rejected during a run becomes the candidate, though the session that records the outcome has read the rejection |
| `evidence` | a corpus document and 2 ingests of one page, loop and retry, 1 fault, batches of 2 of up to 3 chunks, fairness | `TypeOK`, `EvidenceIsWhole`, `ActivatedWithVectors`, `VectorsArrive` |
| `checkout` | 2 purchases, 2 requests, 2 faults, fairness | `TypeOK`, `StoredCanBeSettled`, `PaymentIsRecorded`, and the refinement `KeepsPromise` |
| `lookups` | 2 callers, 2 attempts, a threshold of 2, 1 repair, four settings of the model, fairness | `ModelTypeOK`, `LocalKnowledgeWins`, `CachedRouteSuitsAll`, `ClosedBelowThreshold`, `StandInNeverFails`, `EveryLookUpIsAnswered` |
| `misfit` | 1 caller | **violated**: the first misfit goes to the secondary, the primary is never asked to repair it |
| `route_check` | 7 itineraries, any one failing call | `TypeOK`, `BudgetIsEnough`, `RevisionKeepsTheTrip`, `RevisionImprovesPlainRoutes`, `StopsAreAccountedFor`, `ConfidentOnlyWhenChecked`, `DisputedRoutesWait` |
| `wrong_revision` | the same | **violated**: of two candidates that drop the same place at two positions the first is shown, whichever was best |
| `where_next` | 4 trips, the five regions or none, 4 retrieval strategies, any one failing call | `TypeOK`, `RuledOutStaysOut`, `HeldForAReason`, `ConfidentOnlyWithEvidence`, `EvidenceFitsTheTrip`, `LongerStaysKeepTheirRegions` |

The four violations are disagreements between the code and its own documents or comments;
`PROJECT.json` quotes both sides.

`CHECK_DEADLOCK FALSE` is said in the runs of `HumanReview`, `TripMemory`, `Ingestion`, `Checkout` and `ProviderCalls`: these come
to rest when their requests are served and their row ids used up. A graph has to end: `route_check`
and `where_next` check deadlock, and `Done` stutters.

### Bounds, and why they are enough

- *Analyses, tasks, requests*: `MaxAnalyses`, `MaxTasks`, `MaxTravellers`. Interference needs a traveller's
  analysis, its re-run and one more; two analyses on one task show that a
  resolution reaches both. Three tasks: one of the seed and two that racing retries insert.
- `MaxAttempts` is 2 as in every tool contract. `PendingLimit` (50 in the code) is set to the number of
  analyses, so that the scan is not cut off; with more pending than the limit, an old analysis
  is missed, which is listed as a hazard.
- `MaxFaults`: two faults in `reviewers` and `checkout`, so that one can hit what was done to repair the other. Elsewhere one.
- In `live` there are 4 tasks, so that an insert never waits for a free id: with fewer the bound itself would
  stop a run.
- *Trip memory*: a guard concerns one region and a candidate swap two; three sessions are
  one more than the smallest race.
- *Ingestion*: the corpus document or the first ingest makes the source, the others race to change it. Three chunks and
  batches of two make a source complete in parts, with a last batch of one, the only one that raises when its chunk is gone.
  Contents have no, one or three chunks. In `VerifyFact` each fact is verified once.
- *Checkout*: two purchases, one plan of which costs nothing; two requests that meet a delivery between its read and its write.
  `Production` is FALSE, so that a live key is refused.
- *Look-ups*: two callers with two attempts each pass a threshold of two between them; the code has 3 attempts and
  a threshold of 5. A live model is tried with one local knowledge, which its calls do not read.
- *Graphs*: the seven itineraries come as stops or as text; one is empty, one visits Kyoto twice, one has more stops than are
  read, two have near misses, one an unknown name, one needs a car the traveller will not drive. `Budget` is what the longest run needs
  (`MaxStops + MaxRevisionCandidates + 8` = 22, `4 * MaxExplained + 3` = 19), so that one call more would
  exhaust it; the code allows 40 (and needs 31 and 19). `MaxStops` is 6 for 15, and `StatusLimit` 40 as in the code. `CandidateK`, `SearchBudget` and `ContextBudget` are
  so small that each cuts something off. Shikoku is taken to need a car, since no profile of the seed does.
- `SYMMETRY` over requests is used in safety runs only.

Runs bound an instance; the proofs below have no bound.

### Fairness

- `HumanReview`: weak fairness of the steps of each analysis run (`RunStep`) and each resolve request
  (`ResolveStep`). The event loop keeps running a coroutine it has started, and every await of these ends.
- `Ingestion`: weak fairness of the steps of each started ingest and of each pass, including the first step of
  the loop, which wakes up again after its sleep (`reembed_forever`).
- `Checkout`: weak fairness of the deliveries of an event (`WebhookStep`): Stripe sends an event again until it is answered. Nothing is
  assumed of the frontend, which may never come back to sync.
- `ModelCalls`: weak fairness of the steps of a call under way (`Progress`): each attempt has a timeout.
- Nobody owes the system a request, a payment, a fault, or the death of an abandoned call. Outages are finite because
  faults are bounded: the liveness properties say what happens once the provider is back.
- `StartedAnalysisIsAnswered` is checked without restarts and errors of `_run` itself: with them the code accepts a
  row that stays `running` (comment in `analysis_service.py:134-137`).
- The graphs state no fairness: each is a sequence of nodes, in which deadlock is checked.

### Where the code does less than its documents say

Four runs show it. Some more is in the models, where no property that forbids it can hold; each is a hazard of `PROJECT.json`:

- A restart between the two commits of `resolve` leaves analyses waiting, and so does a save after the decision (`late_save`):
  `src/docs/adr/0007-human-in-the-loop.md:56-57` says "resolution is durable across restarts; one resolution releases
  every analysis waiting on it".
- Two reviewers who decide one task at once both do, and the second overwrites the first; `src/backend/tests/integration/test_hitl.py:195`
  (`test_a_task_cannot_be_resolved_twice`) has it refused when they follow each other.
- Retried calls that overlap may insert a task twice: "an agent retrying must not spam the review queue" (`services/mcp_backend.py:604`).
- A page that turns empty keeps its old chunks under the hash of the new content: "re-ingesting a *changed* source replaces
  its chunks" (`knowledge/ingest.py:10-11`).
- A change under a verified fact raises no review, since nothing fills `source_id`: `knowledge/ingest.py:11-13` and `:365` say that
  it does.
- A run whose memory cannot be read may recommend what was rejected, and a session that read a row before it was rejected
  overwrites the rejection: "never silently re-proposed" (`src/docs/architecture.md:193-194`), "a traveller's explicit rejection outranks
  a later automated shortlisting" (`services/trip_service.py:262`). The reasons of a rejection, which `architecture.md:188` lists
  among what is kept, are overwritten by later runs.
- An analysis that depends on a dispute goes out as complete when `get_verification_status` fails, since none is known
  to it (`agents/route_check/nodes.py:914-916` and the same in where_next): `architecture.md:214` has it escalated. `DisputedRoutesWait`
  and `HeldForAReason` are about the conflicts the run has learned of. Likewise a failed `get_route_context` or
  `get_booking_requirements` leaves no gap, and `ConfidentOnlyWhenChecked` says nothing of what these would have told.
- Evidence that matches a single lesser injection pattern is neutralised and used; `architecture.md:201` has "anything scanning as
  injection" quarantined. `EvidenceFitsTheTrip` excludes what `security/injection.py` quarantines: a critical pattern or two of any kind.
- The season is filtered after the `LIMIT` of a search; `db/repositories/evidence_repo.py:14-16` says before.
- The headline and the candidates after the fourth, under *AgentRun, RouteCheck, WhereNext* above.
- A cancel that read a purchase as pending is written over a payment recorded meanwhile: "a repeat [...] cannot change the
  outcome" (`src/frontend/src/components/Checkout.tsx:39-40`). `PaymentIsRecorded` says that the payment is recorded once, not that it stays.

No document speaks of these: a payment that arrives after a cancel wins over it, and a region that a run ruled out for one set
of dates can be selected again only through the tool.

## 5. What is proved

For every value of the constants that meets the named assumptions of the modules. These only say that
bounds are numbers, names do not overlap and data has its shape (the columns of a profile, the records of the catalogue),
with three exceptions. `LimitsAssumption` of each graph bounds its calls by the budget (the defaults in `core/config.py`
meet it), and that of `RouteCheck` says that no more stops are taken over than are read from a text (15 in
`route_check/nodes.py:41`, 30 in `llm.py:310`). `RequestsAssumption` of `RouteCheck` says that a name in a text that
matches exactly is one of the catalogue, which is what an exact match is. `CorpusAssumption` says that no two chunks tie in
a ranking.

| Module | Proved for every run | What the inductive invariant adds |
|---|---|---|
| `HumanReview_proofs` | `TypeOK`, `RerunNeverBlocksOnItsTask`, `OneCurrentRecordPerTask`, `CurrentRecordSurvives`, `CitedTaskIsAboutTheAnalysis`, `SupersededBySavedRun`; `HumanReview` implements `ReviewPromise` | see below |
| `TripMemory_proofs` | `TypeOK`, `CandidateIsOnRecord`, `OutcomeRespectsMemory` | rows stay once a session has seen them; a run recommends nothing it remembers as rejected |
| `Ingestion_proofs` | `TypeOK`, `EvidenceIsWhole`, `ActivatedWithVectors` | one ingest holds a source, what it has deleted is all there is of it, no pass holds a chunk being deleted; a chunk a pass took and that is gone was replaced, and its source is marked changed |
| `Checkout_proofs` | `TypeOK`, `PaidMeansPaid`, `StoredCanBeSettled`; `Checkout` implements `PurchasePromise` | what was read before a write stays true until the write; only a Stripe purchase has a session |
| `ModelCalls_proofs` | `ModelTypeOK`, `LocalKnowledgeWins`, `CachedRouteSuitsAll`, `ClosedBelowThreshold`, `StandInNeverFails` | a look-up under way was not settled locally; which vendor a model call has got to |
| `RouteCheck_proofs` | `TypeOK`, `BudgetIsEnough`, `RevisionKeepsTheTrip`, `RevisionImprovesPlainRoutes`, `StopsAreAccountedFor`, `ConfidentOnlyWhenChecked`, `DisputedRoutesWait` | the calls spent before each node; a route that cannot be costed has left a gap; a report of high confidence is earned; what the stops, the route and the revision are |
| `WhereNext_proofs` | `TypeOK`, `BudgetIsEnough`, `RuledOutStaysOut`, `HeldForAReason`, `ConfidentOnlyWithEvidence`, `EvidenceFitsTheTrip`, `LongerStaysKeepTheirRegions` | no candidate is ruled out; each region is on one list; evidence fits shortlist and trip; what the stand-in writes is supported |

**`HumanReview_proofs`.** The invariants are not inductive alone; `IInv` is:

- `TypeInv`: the types, and that a waiting run has an attempt, without which `callPc[a][attempt[a]]` means nothing.
- `RerunInv`: an unused analysis is blank, a request that has got anywhere knows its task, and *a re-run exists only when the decision is committed*.
  Since a call can only find an open task, a re-run can never find its own: `RerunNeverBlocksOnItsTask`.
- `RecordInv`: a record is written only by a request past its commit, one request at a time holds the lock on a task,
  and what a request that holds the lock has read is still all there is for that task. From this
  follow `OneCurrentRecordPerTask` and `CurrentRecordSurvives`.
- `CitationsAgree`: every copy of a task id (found by a call, kept in the graph, saved in the result) is of a stored task
  about the subject of that run.
- `SupersedeInv`: a running analysis is `running`, one that returned is saved, what is being re-run has been in review, and
  what is superseded is settled and points to a returned re-run.

`Invariance` proves `Spec => []IInv` with a lemma per conjunct and a step per action; the listed theorems follow.

**`ReviewPromise`.** Initial states map to initial states (`InitMaps`), and each action to a step of the promise or a
stutter (`StepMaps`): `BeginMaps`, `EndMaps`, `CommitMaps`, `FinishMaps`. The hard case is `FinishMaps`: what a
request releases was named long before, so `PromiseInv` carries that it waited for the subject the request decided.

**`PurchasePromise`.** A commit of a checkout stores, Stripe's page pays, a read of a pending purchase asks to cancel, and the
writes record or cancel (`CheckoutMaps`, `MarkPaidMaps`, `ReadMaps`, `WriteMaps`); a restart drops the cancels under way. That a
write has the money it needs is `WritesArePaid`, and that no demo is charged the last line of `Advanced`.

**The graphs.** Each node has a lemma of its own (`TransportStep`, `SearchStep`, ...). Under them lie lemmas about the algorithms.
A list sorted by a strict order has a place for each element (`PlaceOfEach`), hence what the retrievers, the fusion, the
rerankers and the assembly return are chunks of the corpus that pass the filters. What a recursive
function computes is shown with a least counterexample, since numbers are well-founded (`LeastExists`):
that near-duplicates are told once (`NothingIsToldTwice`) and that flattening a list of contexts keeps
each of its chunks. The same argument gives the fastest option of `ModelCalls_proofs`.

**Sums.** The library's induction theorems take an operator, which the provers cannot instantiate. `ListTheorems` states
induction over sets instead: a *set* of numbers that has 0, and with each number the next, has them all
(`NumberByNumber`); a set of finite sets that has a set whenever it has all that lack one element of it, has them all
(`ElementByElement`). What a sum over a finite set does follows: it can be taken in any order, in parts, renamed, and added
(`SumTakesOut`, `SumInParts`, `SumRenamed`, `SumOfBoth`). For this, `RouteRules`, `RouteRevision` and `RegionScoring` write the
sums of the code as `SumFunctionOnSet`, and a reordering of the stops is chosen from the finite set `Bijection(...)`.

**A revision keeps the trip.** Dropping stops keeps every night because what each remaining stop is given is a share of
the nights of the dropped, and the shares add up to them (`SumOfShares`); merging moves each night of a run to its base, and
the runs do not overlap; reordering renames the stops. So each candidate is the trip that was asked for, and so is the one
shown, whichever could be costed. That it is *better* takes one more step: it is looked up by the name of its
strategy, and names tell candidates apart only when no place is visited twice; hence `VisitedOnce` in
`RevisionImprovesPlainRoutes`, and the run `wrong_revision` without it.

**`TripInv` and `TypeInv`.** These properties are about what a node leaves, and are read at the end. `TripInv` of
`RouteCheck_proofs` carries them through the graph, a conjunct per group of nodes: the stops are what was read
(`StopsAreRead`), each is found or told as not found (`StopsAreFound`), the stops of the route are those that were found
(`RouteIsBuilt`), `RevisionIsTheTrip`, and the severities of issues with the grade they give (`IssuesAreGraded`). It is inductive
together with `IInv`. `TypeInv` of `WhereNext_proofs` says that each region of the table is on one list, once:
the ranking has a place for each region since any two scores compare, that is, each of the seven components
is a number whatever the profile and the trip (`ComponentsAreNumbers`, `InterestMatchIsANumber`).

**Only model-checked:** liveness under fairness, out of the prover's reach together with `ENABLED`: `EveryBlockedAnalysisIsReleased`,
`StartedAnalysisIsAnswered`, `VectorsArrive`, `PaymentIsRecorded`, `EveryLookUpIsAnswered`.

## 6. What is not modelled

- *The `interrupt()` resume path and the checkpointer*: the interactive runner; every API route runs
  the graphs to their end. First in the plan.
- *Warnings, decisions, visited places and preferences of a trip*: second in the plan.
- *Allow-lists and schemas of tool arguments*: each graph calls only tools of its own list, so that the lists never refuse. Of the schemas the
  models have the one that does: an evidence search takes 12 places, and one of a longer route is refused (`EvidencePlaces`).
- *The in-process or Redis store of the cache, and the rate limit*: the models have what is cached, and time as a step that may happen. A request that is
  limited never starts.
- *HTTP plumbing and authentication, admin assistant, observability*: no state the properties speak of. The
  assistant's only write is `create_human_review_request`.
- *Migrations, evaluation harness, frontend, infrastructure*: run before, beside or in front
  of the modelled system. Of the seed, the region profiles (`SeedRegions`), the verification records (`SeedVerifications`), the
  open tasks and the state of the corpus (`Init`) are modelled; places, evidence texts and timetables are data.
- *Quarantined sources and the metadata of chunks*: they decide what retrieval ranks, not what is stored.
