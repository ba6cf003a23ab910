# A TLA+ model of the Azure AI Search emulator

The emulator is one Rust process that answers the Azure AI Search HTTP API from
memory. Its handlers run in parallel and work on several stores, each behind a
read/write lock of its own; nothing is locked above the stores. This project
models the service at the granularity of its lock acquisitions and its query
language as functions, checks with TLC what holds of the stores, of the answers
and between the parts of the language, and proves with TLAPS, for every value of
the constants, all that it says of the stores and of the requests on them but
that they are answered, and of searches and their language what does not rest on
a recursive definition.

Paths below are relative to `src/source/rust/src/`.

## Inventory

| Component | State | Operations | What makes it correct |
|---|---|---|---|
| Document storage (`storage/mod.rs`) | name -> definition and documents, one `RwLock` | create, upsert, get, delete, list, put/get/delete documents, reset | it is the truth: acknowledged writes stay |
| Full-text engine (`query/mod.rs`) | name -> Tantivy index | create, delete, index (replacing by key, then commit and reload), delete documents, search, suggest, autocomplete, reset | holds the text of exactly the stored documents; a batch is searchable when it is answered |
| Vector engine (`vector/mod.rs`) | name -> field -> vectors and an HNSW graph derived from them | create, delete, upsert, remove entries, delete documents, search, reset | every vector has the declared length; no vector outlives the document that had it |
| Index lifecycle (`service/mod.rs`) | none of its own | create, create or update, delete, rollback, reset | the three stores change together; a compatible update keeps the documents |
| Ingestion (`service/mod.rs`) | the batch on the handler's stack | upload, merge, mergeOrUpload, delete | actions apply in order, last one wins, one result each, all stores converge |
| Reads (`service/mod.rs`) | the snapshot on the handler's stack | search, lookup, count | the answer is exact on what nobody is writing |
| Named resources (`service/resources.rs`, `synonyms.rs`) | four stores of aliases, synonym maps, knowledge sources and bases; an etag counter each | create, create or update, get, list, delete, clear | a new etag for each content; no name is an index and an alias |
| Knowledge-base retrieval | none | check the sources, search each | every answered document comes from a source of the base |
| Paging (`service/continuation.rs`) | the token in the client's hands | encode, decode, next page | a walk ends, and repeats or skips nothing while the result stands |
| Projection, suggestions, completions (`service/mod.rs`) | none | select, suggest, autocomplete | an answer shows what was asked for; what is offered leads somewhere |
| Filters (`filter/`), query parsing (`query/simple.rs`, `lucene.rs`), ordering, facets, ranking | none: pure functions | parse, evaluate, order, count, fuse | each equals its reference definition |
| Validation (`service/validation.rs`, `vector/config.rs`) | none | schema and document checks | what is accepted can be indexed |
| Semantic ranking, vectorizers, analyzers, highlighting | none | text and floating-point computation | - |
| HTTP surface, versions, configuration, start-up | configuration | routing, formats | - |

The handlers of `api/mod.rs` call `SearchService` synchronously. The service
calls the stores, each call takes one lock and releases it before it returns
(`sync_util.rs`), and requests communicate only through the stores. What is hard
here is what a unit test never sees: other requests' store operations between
two of one's own, a definition cloned at the beginning and used at the end, and
failures of a later store after an earlier one has changed. `PROJECT.json`
lists the hazards, each at its line with the properties that would notice it.

## Modules

    Stores              the four stores as values, one operator per store method
      DocumentBatch     one batch: what an action does to it, its outcome
        BatchOrder      a batch next to the same actions sent one by one
          BatchProofs     theorems about batches of any length
        StoreLemmas     what the operators of the two modules return, for proofs
        IndexCatalog    abstract: one catalog changed by whole requests
        ServiceState    clients, requests, what a handler holds; name resolution
          IndexLifecycle  DocumentIngest  DocumentReads  AliasNamespace
            SearchService       all handlers interleaved; fairness; TypeOK
              ServiceProperties   what must hold; the refinement of IndexCatalog
                OrderlyService      clients that keep out of each other's way
                RequestHistory      + history: keys nobody wrote since a request
                                      began, requests that ran alone
                ServiceProofs       theorems for all clients: types, lengths; for
                                      orderly ones: the stores agree
                  PromiseProofs       for orderly ones: what they are told, the
                                      refinement; for all: searches, repairs
    NamedResources      the resource stores and the requests that read several
      ResourceHistory     + history: what was stored ever, and always, since a
                            request began; what must hold of its answer
        ResourceProofs      theorems about etags and about each kind of answer
    SearchPages         a client on its way through the pages of a result
      PageProofs          theorems about every walk
    JsonValues          JSON values and the paths into them
      IndexSchema         field types, fields, definitions
        SchemaValidation    which definitions are accepted, which can be built
        DocumentValidation  which documents are accepted, what is stored
        DateFunctions       date arithmetic and its texts
          Comparisons         filters without and, or and not: what they find,
                              which are valid
            Filters             any filter
              FilterParser        from tokens to expressions
        ClauseMatching      the clauses of a search text, what each finds
          SimpleQuery         from a search text to its clauses
          Ranking             both sides of a search, fusion, order, facets
            RankedPages         SearchPages over Ranking; what must hold of results
              RankingProofs       theorems about every ranked, filtered, paged result
        Projection          what of a document an answer shows
          Suggesters          suggestions and completions
      QueryCases          definitions, documents, filters, dates: case by case;
                          extends Comparisons and SchemaValidation
        LanguageProofs      theorems about every definition, comparison and date
        LanguageCases       + filters written and read, documents sent again
          AnswerCases         + selections, typed texts and searched texts
    MCService, MCHistory, MCBatch, MCResources, MCQueries   instances for TLC

**Stores.** `storage`, `engine`, `vectors` and `alias` map names to entries. Each
operator is the body of one method under one lock acquisition, so it is one atomic
step. A document is its searchable text, its vector, which may also be null, and the
subfields its complex field carries, each of the three possibly absent: the first two
are what the derived stores copy. A definition is its vector dimension (0 for no
vector field), whether that field has a vectorizer, the subfields of its complex field
and the set of its other fields. So `schema_compatible`, which looks at the fields of
the top level, and `validate_document`, which also looks at the subfields and lets
null stand where there is a vectorizer, read different parts of a definition. The
choice of the key field, which only the second reads, too, is left out. `Embedding`
says which texts yield a vector (`Embeds`), and `Generated` is what
`apply_vectorizer_generation` makes of a document.

**ServiceState.** A client has at most one request in flight. `pc[c]` names the
store operation that request performs next and `job[c]` what the handler holds
on its stack: the request, the resolved name, the cloned definition, the batch,
documents it read, keys it matched. `reply[c]` is the last answer client `c`
got. `Start` sends any request of the client's `Workload`.

**The handlers.** One action per store operation, guarded by `pc[c]`, with one
disjunct per outcome in the code:

| Request | Actions, in order |
|---|---|
| create index | `CheckAlias` `CreateStorage` `CreateEngine` `CreateVectors`, rollback on failure |
| create or update | `ResolveName` `CheckAlias` `ReadOld` `ReadPreserved` `ReplaceStorage` `DropEngine` `CreateEngine` `DropVectors` `CreateVectors`, and with preserved documents `RefillEngine` `RefillTrim` `RefillVectors` `RefillStorage` |
| rollback | `RollbackStorage` `RollbackEngine` `RollbackVectors` |
| delete index | `ResolveName` `DeleteStorage` `DeleteEngine` `DeleteVectors` |
| index documents | `ResolveName` `RequireIndex` `FoldAction`* `BeginWrites`, then the needed ones of `WriteEngineDelete` `WriteEngineIndex` `WriteVectorsDelete` `WriteVectorsTrim` `WriteVectorsUpsert` `WriteStoragePut` `WriteStorageDelete` |
| search | `ParseResolve` `ParseRequire` `ResolveName` `RequireIndex` `SearchDocuments` `SearchVectors` `SearchEngine` |
| lookup, count | `ResolveName` `RequireIndex` `ReadDocuments` |
| create, replace, delete alias | `CheckIndex` `StoreAlias`; `DeleteAlias` |
| reset | `ResetStorage` `ResetEngine` `ResetVectors` `ResetAliases` |

`RefillTrim` and `RefillVectors` are visited even when there is nothing to trim
or insert; they change nothing then, as the calls in the code do.

**NamedResources.** Each kind of resource has a store of its own, a map from
names to bodies with etags and a counter; every action is again one lock
acquisition. Indexes appear reduced to their documents and the names of their
synonym maps. What the requests do, in order:

| Request | Actions |
|---|---|
| create or put a resource | `CheckIndexName` for an alias, `StoreItem`; `Reject` when the body is not valid |
| get, list, delete a resource | `GetItem`; `ListItems`; `DeleteItem` |
| define an index | `CheckAliasName` `CheckMap`* `CreateIndex` |
| delete an index, upload | `ResolveIndex` `DeleteIndex`; `UploadDocument` |
| search | `ResolveIndex` `RequireMaps` `ExpandWord`* `FinishSearch` |
| retrieve | `GetBase`; for each entry `GetSource` `ResolveSource` `CheckSource`; then for each source `NextSource` `ParseSource` `ResolveAgain` `SearchSource` |
| list indexes, statistics | `ListNames` `LookUpIndex`* `FinishListing` or `CountItems`* |
| reset | `ResetIndexes`, `ResetItems` kind by kind |

**ResourceHistory** keeps, for each request in flight, the facts that held at
some moment since it began (`ever`) and those that held throughout (`always`).
An answer put together from several lock acquisitions need not describe any one
state; the properties say it lies between the two.

**SearchPages** leaves open what a result is (`Result`) and models what is
around it: `paginate`, the token, and four kinds of client, one that posts the
next-page parameters with the token, one that posts them without it, as the
Python SDK does, one that builds a new body about the same subject around the
token, and one that sends only the token. Documents are added and removed
between pages. **RankedPages** puts the results of `Ranking` in.

**The query language.** `Comparisons`, `Filters`, `DateFunctions`, `FilterParser`,
`SchemaValidation`, `DocumentValidation`, `Projection`, `Suggesters`, `ClauseMatching`
and `SimpleQuery` are pure functions of the code as operators. Characters are numbers;
the filter parser starts from tokens, the search text parser from characters; a moment
is a day, a second and ten-thousandths of it, its text a sequence of numbers with a
sign before some years. Several operators take their meaning of text (`RegexMatches`,
`LowerChar`, `Analyze`, `Relevance`, ...) as constants: standard library, Tantivy and
floating point are outside the model. `QueryCases`, `LanguageCases` and `AnswerCases`
put them together in the order the service does: a definition is sent; if it is
accepted, a document; if that is accepted, a filter or a selection for it. So each
case is one the code can be in, and the properties compare two parts of the code that
must agree and know nothing of each other. What is recursive in the code
(`ValidFilter` over and, or and not, `check_field_type` over nested values) comes to
`QueryCases` as the parameters `Allows` and `CheckFieldType`, which `MCQueries.cfg`
gives `ValidFilter` and `FieldCheck`, which calls `FieldTypeOk` recursively: so the
module itself can be proved about. `Matches` evaluates and, or and not and leaves
every other expression to `LeafMatches`; likewise `ValidFilter` and `ValidLeaf`.

**IndexCatalog** is what the service promises its writers: a catalog in which a batch
takes effect at once, a compatible update keeps the documents and nothing else touches
them. The refinement mapping `CatalogView` reads the catalog out of storage, counting
documents an update in place is carrying over (`Carrying`) as present and those a
batch is about to delete (its additions are already in) as gone. So a batch takes
effect when storage puts its documents, or, with none to put, when it comes to
storage's deletes; an update takes effect at `ReplaceStorage`, and one that fails
keeps its documents in sight until `RollbackStorage` removes the index: the catalog
sees a `Put` and then a `Drop`.

**Operators named as mutants** (`...Forgotten`, `...KeepsDelete` and so on) are
not part of the model. Each is a plausible bug in the definition that follows
it; replacing that definition by it makes the property it is listed with fail.

## Runs

| Run | Question | Properties | Distinct states |
|---|---|---|---|
| `orderly` | does every sequence of writes, watched by a reader or next to batches on other documents, keep the stores right? | `TypeOK` `StoresAgreeAtRest` `AcknowledgedWritesHold` `NamespaceDisjoint` `NoRollback` `ImplementsCatalog` | 578,817 |
| `anything` | what survives arbitrary races, and what may be said of a request from what happened while it ran? | `VectorLengthsFit` `SearchExact` `UpdateRepairs` `RequestsAnswered` | 426,022 |
| `batch` | does one batch do what its actions say? | `OutcomeSetsDisjoint` `ActionsApplyInOrderUnlessRevived` `WritePhaseConverges` | 221,521 |
| `resources` | is an answer that took several locks explained by what was stored meanwhile? | `EtagsNeverReused` `ListingsBounded` `RetrievalComplete` `RetrievalRefusalJustified` `ExpansionsFromStoredRules` `IndexesDefinedOverMaps` | 631,325 |
| `queries` | do the parts of a search agree on definitions, documents, filters, pages? | see below | 199,576 |
| `same_key` | may writers of one document overlap? | `StoresAgreeAtRest`, violated | |
| `update_loses_upload` | may an upload overlap an update in place? | `AcknowledgedWritesHold`, violated | |
| `namespace_race` | may an index and an alias be created together? | `NamespaceDisjoint`, violated | |
| `batch_order` | is a batch its actions in order? | `ActionsApplyInOrder`, violated | |
| `malformed_section` | does the schema check stop every definition the vector store refuses? | `NoRollback`, violated | |
| `any_element` | does a direct path match when any element does? | `AnyElementMatches`, violated | |
| `continuation_alone` | may a later page send only the token? | `ContinuationAloneSuffices`, violated | |

The violated properties are statements of the repository's documentation or comments
that the code does not keep; `PROJECT.json` quotes them under "findings". Most of them
also appear in passing runs under the workload, or with the restriction, under which
the code does keep them, and that is the boundary the project draws: writers of
different documents may overlap freely; writers of one document, and lifecycle
requests with anything that writes, may not. After such a race the stores stay apart
until an update of the index runs alone (`UpdateRepairs`). One client alone is enough
for a batch that sends a null vector and no text to fill it in from: it is answered
500 after the engine has taken it. `StoresAgreeAtRest` leaves out the keys of such
batches (`NullKeys`), and `NoRollback` allows 500 as the answer to them and to nothing
else. A direct path is its lambda as long as one collection is on it
(`DirectPathsAreLambdas`). Values have the types of their fields on every path through
complex fields (`StoredValuesFitTheirPaths`); below a field of another type, where a
definition may declare fields too, nothing is validated, and `LeadsToField` leaves
such paths out of the properties of filters. A token needs the search text beside it
(`PagesAreTheResult`).

What `queries` compares:

| Property | These two readings agree |
|---|---|
| `AcceptedSchemasBuild` | the schema check, and what the vector store can build |
| `VectorizersResolve` | the vectorizers a definition is checked for, and those generation looks up |
| `StoredValuesFitTheirPaths` | validation's descent into a document, and path resolution |
| `StoredDocumentsAreAccepted` | validation of what was sent, and of what was stored |
| `OperatorsPartition`, `ShorthandsAgree` | the comparison operators, and `in` and the null tests with what they stand for, on missing, null and collection values |
| `LambdasAreDual`, `DirectPathsAreLambdas` | `any`, `all` and direct comparison |
| `DateComparisonsAreChronological` | text order of normalised dates, and order in time to the millisecond for years of four digits, before everything for signed ones; an operator and its reversal |
| `WrittenFiltersAreReadBack` | the parser's dispatch, and a writer of expressions |
| `PrecedenceIsStandard` | the parser's descent, and the grammar as split points |
| `DateDiffUndoesDateAdd` | the two directions of date arithmetic |
| `SelectionIsExact` | projection to `select`, and path resolution |
| `CompletionsLeadToSuggestions` | autocompletion, and suggestions for what it offers |
| `SearchesCompose` | two search texts side by side, and each of them alone; `minimumCoverage` of 100 and mode `all` |
| `PagesAreTheResult`, `PagesSurviveChanges` | the pages, and the result of the first request; with documents coming or going |
| `FacetsCountWhatFiltersFind` | a facet's counts, and the filter for its values |
| `FilterModesAgree`, `FusionRespectsAgreement` | filtering before and after the vector search; the fused order and the orders it came from |

**Bounds.** Two clients: every race found needs two, and the handlers know nothing of
how many others there are. Two keys, so that batches can be disjoint or mix keys; one
key where the race is about one. Two names where aliases take part, one elsewhere:
store operations on different names commute. Two texts and vectors of two lengths, so
that a stale text, a stale vector and a vector of the wrong length can be told from
the right ones; one of the texts yields no vector, so a null vector is filled in with
the other and refused with this one. In `orderly` this happens under a third key,
which the properties about agreement therefore leave out, and to the first two keys
with a text that fills it in. Definitions without and with a vector field of dimension
1 or 2, with two subfields, one and none, and one whose `vectorSearch` section does
not parse, give all kinds of update, a compatible one that no longer declares what
stored documents carry among them. Batches have up to two actions in the service runs
and up to `MaxActions` = 3 in `batch`, where a delete, a re-upload and a merge of one
key fit. `batch` starts from every set of valid stored documents, without null vectors
for none is ever stored, and stops at the bound. Its counterpart `batch_order` offers
no null vectors, so that what it finds is not the request that fails for one.

`resources`: the client that changes things sends up to three requests while the
other's one is answered (`MaxRequests`); three are what it takes to take
something away, put something else in its place and touch a third store. Two
names per kind, three words, so that a rule can rewrite one way and a circle of
rules can close. It stops when the requests are used up. These two runs do not
check for deadlock; the others do.

`queries`: about 2,800 definitions, each the hotel index with one field and one
section changed; 285 documents with one field changed each, over 27 values of
all kinds, for three definitions; about 830 filters with every kind of expression
on every path; every phrase of up to five symbols; four moments at the ends of
months and years moved by up to fourteen of each unit; documents with dates of four
digits, of a fraction of a millisecond, beyond 9999 and before year 0 (years are
bounded by `LongestYear` = 99999, the library's by 262142); every pair of selected
paths; about a thousand typed requests over up to two documents; the search texts
of up to four of the characters that have a meaning and pairs of longer ones,
over eleven documents, with a stop word and a word that has a synonym. Walks: up to
three documents of four contents, eleven requests, page sizes 0, 1 and 2
(`PageSizes`), two changes during a walk (`MaxChanges`): one document can go
before and one after the page the client is at. Bounds of the code are scaled
down where only their being a bound matters (`MaxDimension`, `MaxVectorFields`).

**Orderly clients.** `OrderlySpec` (module `OrderlyService`) constrains the
clients, not the service: two requests are in flight together only if one of them
only reads or both are batches on different documents (`Compatible`). A client
claims, besides what it is writing, what its last batch wrote until it sends
something else (`Claims`): nobody can count on a document others rewrite.
`anything` has no such constraint.

**Fairness.** `RequestsAnswered` assumes weak fairness of `Step(c)`, one store
operation of the request of client `c`. Every lock is held for one operation
only, no handler waits for another handler, so a thread that runs a handler can
always perform its next operation and the runtime keeps it running. `Start` is
not fair: clients need not send anything.

## Where documents and code part without a run

Met while modelling; the model follows the code.

- `@odata.nextLink` carries the token in its URL, but `search_documents` reads
  the token from the body only: following the link with an empty body starts a
  search of everything from its beginning.
- docs/supported_operations.md:250 has stale tokens answered 400; tokens carry no
  state version and stay good, as docs/known_differences.md says.
- `oneTerm` completion requires the preceding terms to occur in the document,
  just like `oneTermWithContext` (docs/supported_operations.md:301 and the
  comment at service/mod.rs:1755 name it as what tells the two apart). With
  three terms or more, `twoTerms` does not look at the first ones, and what it
  offers may have no suggestions; `CompletionsLeadToSuggestions` excludes that.
- The comment of `parse_vector_query` calls `weight` inert; it scales the query's
  share of the fused score.
- `merge_scores` fuses by rank as soon as there is a vector list, its comment
  says when both sides produced hits.
- Facet values of equal count are ordered by text, numbers too (10 before 9);
  docs/supported_operations.md:245 says by value.
- The variable of a lambda is not compared with the one its body uses; filters of
  suggestions and of continuation tokens are parsed and not validated.
- `datediff` rounds down, its comment says toward zero.
- The comment of `normalize_datetime` says that "Fixed width keeps lexicographic string
  comparison chronological" (filter/date.rs:141). Years are not of fixed width:
  `parse_datetime` accepts signed ones, a document may hold any string as its date,
  and a year beyond 9999 is written with a plus, which sorts before every digit. A
  date moved beyond 9999 goes the same way. What is finer than a millisecond is cut
  off, so different moments compare as equal. `DateComparisonsAreChronological` says
  exactly this.
- The comment of `apply_vector_changes` says that vectors "are validated before this
  point, so a failure here is an internal error" (service/mod.rs:854). Validation lets
  null pass on a field with a vectorizer (service/validation.rs:433), generation
  leaves it when the source text yields no vector (487), and line 885 refuses it,
  after the engine has committed the batch: one upload of a key and a null vector is
  answered 500, no vector and no document of the batch is stored, what it deletes
  stays in storage alone, and search matches what is stored under its keys by texts
  that are not stored. `NullRequest` names these batches in
  the properties; the passing run `orderly` contains one.
- A compatible update keeps documents that its own definition refuses:
  `schema_compatible` (service/mod.rs:2215) compares names, types and dimensions of
  the top level and neither subfields nor the key, and kept documents are not
  validated again. A merge into such a document is then answered 400. The model does
  this too, with subfields; that stored documents are valid for their definition is
  therefore no property here.
- A `vectorSearch` section without a vector field leaves an entry without fields in the
  vector store (service/mod.rs:290). No reader can tell it from no entry, so
  `VectorsCreateIndex` makes none.
- `validate_lambda` (filter/validate.rs:102) does not look at the operator, so an
  ordering of Boolean elements passes inside a lambda, where it finds nothing, and
  is refused outside of one. `LambdasAreDual` leaves it out.
- `ne` is false, not true, between values of different kinds. `Edm.Int32` takes
  any integer; elements of a collection of `Edm.Half` are not checked; a key may
  be declared on a field that is no string.
- Subfields are "empty for all other types" than complex ones (storage/mod.rs:243), and
  `field_path` is said to lead "through complex-type subfields" (storage/mod.rs:600).
  But `from_json` keeps the `fields` of a field of any type, `validate_schema` looks at
  them only below complex fields, and `field_path` descends into all: a definition
  with fields below, say, an `Edm.GeographyPoint` is accepted, and a filter may name them.
- For an empty source text the comment of `apply_vectorizer_generation` promises a
  zero vector; the field is left out, or stays null when it was null, and then the
  batch fails.

## Proofs

Every theorem holds for all names, keys, texts, vectors, definitions, numbers of
clients and workloads; TLC checked the properties on the runs above, and the
inductive invariants on the same instances before they were proved.

| Module | Theorem | States |
|---|---|---|
| `ServiceProofs` | `TypeCorrect` | `Spec => []TypeOK` |
| | `LengthsAlwaysFit` | `Spec => []VectorLengthsFit` |
| | `OrderlyInvHolds` | `OrderlySpec => []OrderlyInv` |
| | `StoresConverge` | `OrderlySpec => []StoresAgreeAtRest` |
| | `NamesStayApart` | `OrderlySpec => []NamespaceDisjoint` |
| `PromiseProofs` | `NothingRollsBack` | `OrderlySpec => []NoRollback`, when `WellFormed` |
| | `AcknowledgedWritesStay` | `OrderlySpec => []AcknowledgedWritesHold` |
| | `ServiceImplementsCatalog` | `OrderlySpec => ImplementsCatalog` |
| | `SearchesAreExact` | `HistorySpec => []SearchExact` |
| | `UpdatesRepair` | `HistorySpec => []UpdateRepairs` |
| `BatchProofs` | `BatchSetsDisjoint` | `BatchSpec => []OutcomeSetsDisjoint` |
| | `BatchIsItsActions` | `BatchSpec => []ActionsApplyInOrderUnlessRevived` |
| | `BatchWritesConverge` | `BatchSpec => []WritePhaseConverges` |
| `PageProofs` | `PagesAreTheResultAlways` | `PageSpec => []PagesAreTheResult` |
| | `PagesStayOnCourse` | `PageSpec => []PagesInv` |
| `ResourceProofs` | `EtagsNeverReusedAlways` | `HistorySpec => EtagsNeverReused`, from `CountersNeverBehind` |
| | `RetrievalAlwaysComplete`, `RetrievalRefusalAlwaysJustified` | `HistorySpec => []RetrievalComplete`, `[]RetrievalRefusalJustified` |
| | `ExpansionsAlwaysFromStoredRules` | `HistorySpec => []ExpansionsFromStoredRules` |
| | `IndexesDefinedOverMapsAlways` | `HistorySpec => []IndexesDefinedOverMaps` |
| | `ListingsAlwaysBounded` | `HistorySpec => []ListingsBounded` |
| `RankingProofs` | `PagesSurviveChangesAlways` | `PageSpec => []PagesSurviveChanges`, from `PagesKeepTheirPlace` |
| | `FilterModesAgreeAlways` | `PageSpec => []FilterModesAgree`, from `PagesAreAskedFor` |
| | `FusionRespectsAgreementAlways` | `PageSpec => []FusionRespectsAgreement`, from `PagesAreAskedFor` |
| `LanguageProofs` | `AcceptedSchemasBuildAlways` | `QuerySpec => []AcceptedSchemasBuild` |
| | `VectorizersResolveAlways` | `QuerySpec => []VectorizersResolve` |
| | `DateDiffUndoesDateAddAlways` | `QuerySpec => []DateDiffUndoesDateAdd`, from `CasesAreMade` |
| | `StoredValuesFitTheirPathsAlways` | `QuerySpec => []StoredValuesFitTheirPaths`, from `CasesAreMade` |
| | `StoredDocumentsAreAcceptedAlways` | `QuerySpec => []StoredDocumentsAreAccepted`, from `CasesAreMade` |
| | `OperatorsPartitionAlways` | `QuerySpec => []OperatorsPartition` |
| | `ShorthandsAgreeAlways` | `QuerySpec => []ShorthandsAgree` |
| | `LambdasAreDualAlways` | `QuerySpec => []LambdasAreDual` |
| | `DirectPathsAreLambdasAlways` | `QuerySpec => []DirectPathsAreLambdas` |

**Types and lengths.** The inductive invariant `Inv` is the conjunction of
`StoresOK` (each store maps names to entries of its kind), `ThreadsOK` (each
request in flight is at an operation of its own kind, `Labels`, and holds the name
and the definition that operation reads, `Fits`) and the vector lengths. Types
alone are not inductive: `CreateStorage` stores `job[c].schema`, which is a
definition only because a request that can be at `create_storage` carries one;
that is what `Fits` adds. The lengths need no more than the types, because the
check and the insertion happen under one lock. Lemmas state what each store
operator returns (`StoreLemmas`) and how the building blocks `Goto`, `Answer` and
`Return` keep `ThreadsOK` (`ThreadAdvances`, `ThreadAnswers`, ...);
`LifecycleKeepsInv`, `IngestKeepsInv`, `ReadsKeepInv`, `AliasesKeepInv`,
`ResolutionKeepsInv` and `StartKeepsInv` take the actions one by one.

**The stores agree.** `StoresAgreeAtRest` says nothing of a name while a request
writes it, so it cannot be inductive. `OrderlyInv` says the rest:

- `Steady`: `Inv`, the clients' `Orderly`, `Fresh`, that a request has
  no batch and no documents before it has its index, and `Asked`, that requests in
  flight are ones of the workload;
- `NamespaceDisjoint`, for an alias that hid an index would send a batch elsewhere
  than the `Touches` of its request say;
- `Settled`: the stores agree on every name that no request holds, and on every key
  of it that no batch in its write phase touches and that is not in `NullKeys`; the
  documents of such a name can be indexed (`IndexableDocs`: no null vector, and
  vectors of the declared length), which unlike validity a compatible update keeps;
- for each request in flight what it `Knows`: a create or an update
  (`LifecycleKnows`), which stores are already in the new state at each of its
  operations; a batch (`Progress`), for every key it touches, which of the seven
  phases have been at it, `EngineAt` and `VectorAt` saying what the stores hold
  between two of them. A pending null vector shows that its request is a
  `NullRequest` (`Admitted`), so the keys of a batch that fails are in `NullKeys`.

One lemma per group of actions shows that the request that steps reaches what it
has to know next (`CreateSteps`, `ReplaceSteps`, `RefillSteps`, `RemovalSteps`,
`FoldSteps`, `EngineSteps`, `VectorSteps`, `StorageSteps`, ...); `ExclusiveKeeps`,
`QuietKeeps` and `BatchKeeps` show once for all that the others' knowledge
stands, because the requests in flight beside it are compatible. When nobody has
the name in hand, `Settled` is `StoresAgreeAtRest`.

**Nothing rolls back** needs `WellFormed` as a hypothesis: every definition in a
workload parses. Without it the statement is false, as the run `malformed_section`
shows. `Smooth` is the invariant: no request is at a rollback, 500 was answered to a
`NullRequest` only, and the definition a request holds parses. That `CreateEngine`,
`CreateVectors` and the rest find what they expect is what `OrderlyInv` knows.

**Acknowledged writes.** `PromisesInv` follows a batch from its first action on:
while it folds and writes, its documents written over the stored ones will honour
every result given so far (`Pending`, with `Final` the document a key will have), but
for one that is `Stuck` with a null vector, which fails the request before storage;
once it has answered, the stored documents do (`Told`), and nobody else writes
them because its client still claims them.

**The service implements the catalog.** `ServiceImplementsCatalog` maps every step
of `OrderlySpec` to a step or a stutter of `IndexCatalog` under `CatalogView`.
Beside `OrderlyInv` this needs `CatalogInv`: what is in flight was sent
(`Requested`), an update carries the documents the old index had (`Preserves`),
and the batch a request holds is the fold of its first actions over the documents
stored *now* under the keys it touches (`Folded`), although it was folded over
what was stored when it looked. The catalog folds whole sequences, so `Stages`
is a recursive function over their length; `StagesDefined` derives its equation
and its types by the least stage that fails (`LeastExists`, from the well-founded
order of the naturals, because the library's induction theorems take an operator
as parameter), and `StagesDepend` says a fold reads nothing but the keys of its
actions. Then, step by step: `LifecycleMoves` for creates, updates, rollbacks and
deletes; `IngestMoves` with `CommitTakesEffect`, where a batch takes effect, and
`DeletesWereGone`, where what storage deletes was already gone from view;
`OtherMoves` for what moves nothing. `ViewAlone` and `ViewOfBatches` compute the
view when one request has the service to itself, or several batches have
disjoint keys.

**Searches and repairs** hold for clients under no constraint. `HistoryInv` adds to
`Inv` that a batch keeps to the keys of its request (`Contained`), that nobody in
flight writes a quiet key (`Undisturbed`), and for each quiet key what a search
has seen of it (`SearchKnows`) and was told (`SearchTold`): whatever it read of a
quiet key still stands, though it read it under five locks. `AloneInv` is
`LifecycleKnows` for stores that have drifted apart before: it supposes
nothing of them, so every label says which of the three has been rebuilt.

**Batches.** `BatchInv`: the batch is well formed, every document it holds or starts
from is valid for its definition, a null vector among them is one the text does not
fill in (`Recordable`), its sets are disjoint and, unless an action was `revived` or a
request of the replay `refused`, it agrees with the replay. The step rests on
`SameEffect`: an action reads nothing of a batch but the document `MergeTarget` finds
under its key, so on two batches that show it the same document it records the same
and answers the same; `~revived` is what makes the batch and the replay show the same.
`InvConverges` derives the write phase from the disjoint sets (the engine deletes
before it writes and storage after) and the validity of the documents (no vector is
refused but a null one).

**Pages.** `PagesAreTheResult` speaks of finished walks. `PagesInv` says what holds
on the way: as long as no document changed and the client keeps to the subject,
what it has seen is a prefix of the result of its first request, and the request
it will send next, completed from its token, asks for the same result from the
place right behind that prefix. `PageContinues` is the arithmetic of one page.
The result itself is any function of a request and the documents into sequences
of keys; that it may not depend on the page asked for is what `Question` says.

**Etags.** `EtagsNeverReused` remembers what each etag was given to. `CountersInv`
adds why a new one is new: no counter is below an etag its store has ever handed
out, because `DeleteItem` and `ResetItems` take the items away and leave the
counter.

**Answers over several locks.** `BaseInv` has the shapes of stores and threads and
`Followed`: the facts of the moment are among those that held `ever` and include
those that held `always`. A step only adds to the first and takes from the second,
so what a request knows in terms of them is still known when it reaches its next
operation, whatever the others did. On that, one invariant for each kind of
request, what it knows at each of its operations: `RetrieveInv` (every source
checked led to an index that was there; every document answered was in one),
`ExpandInv` (what was found for each word so far, and which maps are still to be
looked up), `DefineInv`, and `ListInv`, which compares the names and counts so far
with the cardinalities of sets of facts and needs those finite (`FiniteInv`).
`KeyOrder` and `TopIsFirst` show that the documents a source answers are the first
of it, by counting.

**Ranked results.** `SearchPages` takes a result as given; `RankingProofs` says what
it is. An order in the model is the sequence that a strict order of a finite set
admits (`Sorted`), which is what a stable sort by a comparator without ties
computes; `RankedIsSorted` shows that there is exactly one, for the orders by
score, by rank and by `orderby` clause after clause, ties broken by key
(`OrderedBefore` is strict because `SortKeyLess` is, kind by kind).

- `FilterModesAgreeAlways`: what the filter keeps of the k nearest of all is among
  the k nearest of what the filter keeps, because whoever stands before a document
  among those that pass also stands before it among all.
- `FusionRespectsAgreementAlways`: the score of a document in the fused list is a sum
  of weighted reciprocals over the lists. `Scale` is a common multiple of the
  ranks' denominators (`ScaleAssumption`), so that `Scale \div (60 + rank)` is
  exact and falls strictly with the rank; then the sums compare as the places do.
- `PagesSurviveChangesAlways`: `SurvivalInv` strengthens the property, which speaks of
  a finished walk only, by what holds on the way, for a search that ranks its
  documents by themselves: as long as documents were only added, every document
  still to be seen is at or behind the place the token names (`Due`); as long as
  they were only removed, nothing was seen twice and all that was seen has gone by
  (`Once`). An added document moves the others one place back at most, a removed
  one one place forward, and the rank of a document is the number of documents
  before it. `AskedInv` says that each request, completed from its token, is one
  of those walks begin with but for its place.

**The language.** `CaseInv` says what a case is made of: a definition that was sent
and is accepted, a filter that is valid for it, values that are JSON.

- *Definitions.* `AcceptedSchemasBuildAlways` and `VectorizersResolveAlways` compare
  the validator's reading of a body with the vector store's and with
  generation's, section by section.
- *Filters.* What a path leads to is a fold over its names and, in each step, a
  concatenation over the values reached so far. Induction over data is out of
  reach; instead `FoldsExist` and `ConcatIs` turn each fold into a function on
  the places of its sequence (a least place without one is contradicted), and
  `DescentIs` says of a path that each name leads from the values before it to
  their members of that name. On that rest the laws: a JSON value has one kind
  (`JsonHasOneKind`); a value and a literal of one type are compared by the branch
  for their kind (`ScalarIs`, `ScalarsPartition`); a list of values satisfies an
  operator when one of them does, but for `ne` (`ValuesCompare`); the elements a
  lambda visits lead to the values that its whole path leads to, element by element
  and to no others (`ComparedAreOnThePath`, `PathGoesThroughElements`). That the
  stored values a filter is compared with have the types of their fields
  (`FilterFits`) is the next theorem.
- *Documents.* `StoredValuesFitTheirPathsAlways` walks a path through the definition
  and through a document at once. The field at the end of each prefix is among
  the subfields of the one before (`NextField`, `FieldsOnPath`), and complex or of a
  supported type, because `ValidField` looks at all lists of subfields down to
  `MaxDepth` (`LevelsExist`, `FieldsAreSupported`); the values at the end of each
  prefix are the members of those before (`NextValues`). `FoundPass` is the
  invariant of the walk: the values found so far are values the field found so
  far accepts (`Passes`), and one at most while no collection was on the way. It starts
  from `validate_document` and the generated vectors (`StoredPass`) and is kept by
  every name because `check_complex_value` looks up the same subfield by the same
  name (`SubvaluesPass`). What a field accepts is of its kind (`PassingFits`).
  A first attempt without `LeadsToField` failed on definitions with fields below a
  field that is not complex.
- *Documents stored again.* A token moves each place of a vector by one at most
  (`TokenAdds`), so the vector of a text has a number for each dimension and none
  beyond the text's length (`VectorOfText`): it is one its field accepts
  (`GeneratedIs`). A vector is generated only where none was sent, and neither null nor
  a vector is text or a key, so the texts to vectorize (`SameText`) and the key are
  the same in the stored document as in the one sent, and nothing is left to generate
  (`StoredAgain`).
- *Dates.* Every day number of a year up to four digits belongs to one year, month and day
  (`YearOf` and `MonthOf` find it); months and years follow one another in
  day numbers, so moving by months and by seconds is monotonic and is undone
  by the difference, with the day clipped to the end of a shorter month; fractions
  of a second stand still.

**Assumptions** are the named ones on the constants: dimensions are natural numbers,
vectors have a positive length, the sentinels (`NoIndex`, `NoDoc`, `Absent`,
`NoSource`, ...) are none of the values they stand beside, workloads consist of
requests, the batch's definition and actions are of their kinds, names of resources
are finitely many and the resources present at start have etags counted from one, the
requests followed are of clients (`WatchedAssumption`), `skip`, `top` and page sizes
are natural numbers and results sequences of keys. Of a ranked search: keys are
finitely many numbers, the result is the one `Ranking` computes (`RankingAssumption`),
relevance and similarity are integers, weights positive, values to order by are of one
of the kinds `SortKey` has, texts are ordered strictly and totally. Of the language:
filters are what the parser makes and `Allows` says of a single one what `ValidLeaf`
says (`ExpressionsAssumption`); what is accepted and stored is JSON
(`StoredAssumption`); the texts to vectorize are no longer than the largest number of
an f32 (`TextsAssumption`: the code normalises a vector, which keeps its numbers below
one, and the model does not); the fields of definitions and their subfields are in one
set (`DefinitionsAssumption`), and on those `CheckFieldType` is `FieldTypeOk`
(`CheckAssumption`), which is how the code's recursion is stated without one: values
nest finitely, so one function satisfies it; the moments that are moved are of years 0
to 9999 and stay in them (`MomentsAssumption`): the library's range of years ends
somewhere, and where is not modelled. TLC evaluates the assumptions in the runs.
`WellFormed` is a hypothesis of one theorem; no other theorem has one.

**Only model-checked.** `RequestsAnswered`: the prover cannot reason about fairness.
And those properties of `queries` that need what a recursive definition computes for
every input, which is induction over data: texts that are parsed
(`DateComparisonsAreChronological`, `WrittenFiltersAreReadBack`,
`PrecedenceIsStandard`, `SearchesCompose`), `SelectionIsExact`,
`CompletionsLeadToSuggestions`. `FacetsCountWhatFiltersFind` needs no recursion but
`Satisfies` of a conjunction, which is a parameter of the modules of results, and
counts over the values of all hits; it is not proved yet.

## Not modelled

- In the service's runs a document is invalid by its vector, for its length or for a
  null without a vectorizer, or by a subfield that is not declared. The other field
  checks (`DocumentValidation`) reject a document in the same way, with a 400
  result that leaves the batch alone. Which field is the key is not part of a
  definition there.
- One vector field per index in the stores. A second field would multiply every
  store by its vectors. A null in any of them fails the request before any of them
  is changed; lengths are checked field by field under one lock, so after a
  race with an update the earlier fields may be changed and the later ones not.
- The HNSW graph and the distances: floating-point arithmetic. Vector search is
  exact, as it is for indexes no larger than the `ef` window.
- Failures inside Tantivy other than an index that is missing or already there;
  how Tantivy scores; analyzers, which are one function from a text to its tokens
  here, the same for all fields; boosts; the Lucene syntax, which
  `query/lucene.rs` rewrites as text and Tantivy's own parser reads.
- What Tantivy's phrase query does with a single token is not settled by the
  sources; the model finds it where the token is.
- Characters: tokenizers, number formats, the text of synonym rules, base64 of
  tokens, highlighting.
- Semantic ranking: text scoring without state, on the finished page.
- The hash of the vectorizer: its result is an opaque function of the text.
- HTTP routing and formats, authentication, API versions, configuration.

## Plan

Built so far, in this order: stores, batch, service state, the four groups of
handlers, their composition, the catalog and its refinement, the type proof, the
proofs about batches; resource stores and their history; values, schemas,
validation, filters, dates and their parser; paging, ranking and facets;
projection and suggestions; the proofs about pages and etags; search texts; the
proofs about orderly clients, the refinement of the catalog, the proofs about
histories and about answers that took several locks; the proofs about ranked results
and about the query language. What is left:

1. `FacetsCountWhatFiltersFind` for every index, with the parameter `Satisfies` assumed
   to read a conjunction and an equality as `Matches` does.
2. The hazards that no property covers yet, listed with their reasons in
`PROJECT.json`.
