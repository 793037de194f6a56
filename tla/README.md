# TLA+ verification of vector-core

vector-core is a Python library that several MCP servers of one host use side
by side: they embed texts over HTTP, keep points in Qdrant, and share SQLite
databases and lock files under one cache directory. Little of it runs in one
process alone, and most of what can go wrong needs two processes, a fork, a
cancelled coroutine or a lost reply. These modules model that part.

All paths below are relative to `src/src/vector_core/`; tests are in
`src/tests/`. `PROJECT.json` maps every definition to the lines it models.

## 1. Inventory

| component | state | operations | talks to | hard part | module |
|---|---|---|---|---|---|
| Request limiter `embeddings/limiter.py` | flock files of slots and gate, `_held_fds` | `acquire`, `_try_acquire`, `_try_claim`, `_release`, fork hooks | every embedding client of the host, through the kernel | fork copies coroutines and descriptors; priority without a queue | `Limiter` |
| Fragment groups `storage/embedding_fragments.py`, `storage/fragment_recovery.py` | points of one source, recovery journal | `upsert_fragment_group`, `replace_fragment_group` | Qdrant; the fact and glossary indexers, migration | no transactions: partial failure, late requests, cancellation, death | `FragmentGroup` |
| Vocabulary tables `embeddings/global_vocab.py` | `vocabulary`, `codebase_contributions`, `codebase_doc_counts` | register, update, unregister, rebuild | all codebases share one aggregate | arithmetic on shared counters, INTEGER limits, append-only indices | `VocabTables` |
| Vocabulary caches `embeddings/global_vocab.py`, `utils/sqlite.py` | three snapshots, fuzzy index, stamp, thread-local connections | getters, `_invalidate_cache`, `vectorize_*`, `close` | writers of this and of other processes | stale fills, common stamp, three locks | `VocabCache` |
| Fact indexer `facts/indexer.py` | points and vocabulary contribution of the facts | `index_all`, `index_fact`, `delete_fact_index` | fragment groups, vocabulary, migration lock | two stores that must agree after every failure | `FactIndex` |
| Embedding migration `storage/embedding_migration.py`, `embeddings/identity.py` | candidates, manifests, alias, bindings | `ensure_embedding_collection`, `current_embedding_binding`, `_publish` | Qdrant, embedding client, all indexers | crash between steps, publication against lock-free readers | `Migration` |
| File locks `utils/locking.py` | flock descriptors, `_held_lock_fds`, `_fork_state` | `file_lock`, `async_file_lock`, fork hooks, removal of stale files | vocabulary, migration, indexers | fork, worker threads, cancellation, lock inodes | `FileLock` |
| Embedding client `embeddings/client.py` | circuit breaker, two caches, dimension, identity | `embed_*`, `split_text`, `resolve_identity`, `close` | limiter, embedding cache, HTTP service | concurrent half-open requests, batching, retries | `CircuitBreaker`, `EmbedAll`, `QueryCache`, `SplitText` |
| Embedding cache `embeddings/cache.py` | two tables, statistics | `get_many`, `set_many`, `get`, `set`, `clear`, eviction | client | one limit on two tables; upkeep after the read | `EmbeddingCache` |
| Qdrant storage `storage/qdrant.py` | client, health, collections, points | `_get_client`, `_reconnect`, `ensure_collection_with_indexes`, `upsert_batch` | everything that stores points | a client replaced while it is in use, check then create, tasks that outlive their call | `QdrantClient`, `EnsureCollection`, `UpsertBatch` |
| Hybrid search `storage/hybrid.py`, `search/rank_fusion.py` | none | search, grouped search, rank fusion | Qdrant, vocabulary | ties and order of the fusion, three paths to one formula | `HybridSearch` |
| Fact store `facts/database.py`, `facts/integrity.py` | facts, sources, adjacency | create, update, delete, sources and their statuses, iteration, `find_connections` | fact indexer | derived tables in step with the facts; implicit transactions | `FactStore`, `FactGraph` |
| Glossary `glossary/*` | entries, aliases, points, contribution | create, update, delete, lookup, index | vocabulary, fragment groups | uniqueness over terms and aliases, three writes per tool | `GlossaryStore`, `GlossaryIndex` |
| Change detection `indexing/*` | none | `detect_changes_fast`, `detect_changes`, discovery | servers | metadata as a filter before hashes, files written meanwhile | `ChangeDetect` |
| Singletons `utils/async_helpers.py`, `utils/sync_singleton.py` | instance, error, locks per loop | `get`, `close`, `reset` | servers | event loops, recovery after errors | `AsyncSingleton`, `SyncSingleton` |
| Memory cache `utils/cache.py` | ordered dict | get, set, invalidate, cleanup | searches | order of eviction | `TTLCache` |
| Hash registry `storage/hash_registry.py` | one table | register, update, delete, lookup | servers | replacement of a row by another process | none |
| Sparse vectors, tokenization `embeddings/sparse.py`, `embeddings/tokenization.py` | none | tokenize, fuzzy match | vocabulary | pure text | none |
| Settings, errors, logging, mcp, paths, validation | constants | conversions | all | nothing that changes state | none |

What makes each correct, in short: the limiter never exceeds its capacity,
leaks nothing and serves queries first; a fragment group is stored whole or a
journal tells how to restore it; the aggregate frequencies equal the sum of
the contributions and indices never move; caches show a process its own writes
at once and others' within the TTL; the facts' contribution describes exactly
the facts with stored points; a published generation is complete and readers
see one or the other; a lock excludes and is released with its process; the
breaker rejects only while a service is down and lets it back in; texts are
embedded once and answered in their places; a store's derived rows follow its
rows; a change of a file that its time or size tells is not hidden for ever; a singleton is one.

Interactions that the modules share: `FragmentGroup`, `FactIndex`,
`GlossaryIndex` and `Migration` assume the writer lock that
`embedding_collection_lock` (over `async_file_lock`) gives and `FileLock`
shows; `FactIndex`, `GlossaryIndex` and `Migration` store a group in one step,
whose ends (returned, raised with or without `on_commit`, recovery) are those
that `FragmentGroup` shows; `VocabTables` treats a transaction as one step
because `VocabCache` shows how `file_lock` and `_conn_lock` order the writers;
`FactIndex` and `GlossaryIndex` change the tables by the transactions of
`VocabTables`; and `VocabCache` stands for the contents of the tables by the
number of commits. `EmbedAll` and `SplitText` leave retries to
`CircuitBreaker`, which knows texts by their number only.

## 2. Modules

A component is a module of its own. Five small modules put components side by
side that a run and a proof look at together, each as a named instance with
constants and variables of its own, and state the property of the run:

| module | instances, beside what it EXTENDS | run | proofs |
|---|---|---|---|
| `StorageAccess` | `QdrantClient` (`Storage`), `FileLock` (`File`), `HybridSearch` (`Search`) | `qdrant` | `FragmentGroupProofs` |
| `Services` | `CircuitBreaker` (`Circuit`), `QueryCache` (`Cached`), `SplitText` (`Split`), `EnsureCollection` (`Ensure`), `UpsertBatch` (`Upsert`) | `services` | `LimiterProofs` (the first three), `FragmentGroupProofs` |
| `Vocabulary` EXTENDS `VocabTables` | `FactIndex` (`Facts`), `GlossaryIndex` (`Glossary`), `EmbeddingCache` (`Embeddings`), `ChangeDetect` (`Walks`) | `vocabulary` | `VocabTablesProofs` |
| `Caches` EXTENDS `VocabCache` | `TTLCache` (`Memory`), `SyncSingleton` (`Threads`), `AsyncSingleton` (`Tasks`) | `caches` | `VocabCacheProofs` |
| `Stores` EXTENDS `FactStore` | `GlossaryStore` (`Names`), `FactGraph` (`Graph`) | `stores` | `StoreProofs` |

The run's module EXTENDS one of these and gives the constants values; the
proofs EXTEND the same one and leave them open. So a theorem speaks of the very
definition that TLC checks. `LimiterProofs`, `FragmentGroupProofs`,
`MigrationProofs` and `TextProofs` also EXTEND the component that they are
named after (`EmbedAll` for the last one). `Induction` has the lemmas by which
six of them do induction over numbers.

### Limiter, PrioritySemaphore, LimiterProofs

`Limiter` has one program counter per (process, request): `idle`, `try`,
`scan` (inside `for slot in range(self.capacity)`), `leave` and `raise` (the
`finally` of `_try_acquire`), `claim`, `sleep` (the only await of `acquire`),
`drop`, `hold` (the body of `async with`), `unwind` (the outer `finally`).
`slotFd`, `claimFd`, `owner` are the locals `fd`, `claim_fd` and "`owner_pid` is
my pid"; `memLock` is `_held_fds_lock`. Locks belong to open file descriptions,
named after the task that opened them, and `slotRefs`, `claimRefs`, `gateRefs`
are the processes that have a descriptor of each; closing the last one drops
the lock, `LOCK_UN` drops it for all. `Fork` copies descriptors and any of the
suspended coroutines; `AfterForkChild` is the hook, and the child runs no
coroutine before it (`booting`). `Exit` is any death of a process.

A lock file that is opened, found locked and closed leaves no trace and is part
of one step. A name of a request is used again (`Repeat`) only when no
descriptor of it is left.

`PrioritySemaphore` is the promise: permits and registrations, no process and
no file. `Semaphore` in `Limiter` is the refinement mapping: who holds a slot
lock, and who has the gate shared.

### FragmentGroup, FragmentGroupProofs

One source, its ids and several calls of `upsert_fragment_group`. A version
names the points a text makes, `IdsOf` their ids; the canonical point is in
every version. Program counter: `read` (collecting the previous points),
`open`/`save` (the worker thread of `_save_journal`), `upsert` and `prune`
(`replace`), `restore` and `retract` (`rollback`), `forget`, `abandon` and
`cleanup` (the three places that remove the journal). `Send` picks any part of
what is left as the next bounded request; `Answer`, `Fail` (a part takes
effect), `Refuse`, `Timeout` and `ExecuteLate` are the server and the network:
the server works the requests of a collection off in the order it got them
(`WriteOrdering.STRONG`), those of clients that gave up or died included.
`Cancel` sets the flag of `_settle` where a cancellation is put off;
`ReadError` covers the awaits where it is not. `Kill` is the death of the
process, at any step inside the critical section.

The previous points are read in one step. The code reads pages; between two
pages of an orderly call nothing else writes, and calls with late requests of
others are the ones the properties exempt through `orderly` and `Unresolved`.

### VocabTables, VocabTablesProofs

The three tables as functions, and the four transactions as actions, with the
validations as guards, since a failed one rolls everything back. `MaxInteger`
stands for 2^63-1. `Init` allows a database in which an older release left
frequencies that nobody contributes (what `rebuild_aggregate_doc_frequencies`
repairs).

### VocabCache, VocabCacheProofs

Processes with one `GlobalVocabulary` each and several threads. A query takes
the three snapshots one after another: `check` and `clear` are the two looks of
`_refresh_cache_if_expired`, `get` the getter under `_cache_lock`, `connect`,
`read` and `publish` the fill, which holds it, `fuzzy` the index. A writer
passes `open`, `begin`, `commit`, `invalidate`; the caches are dropped after
`file_lock` and `_conn_lock` are released, as in the code. A snapshot is named by the
revision it shows and the number of drops before it, because
`_fuzzy_candidates` compares objects with `is`. `Close` and `Restart` come at
any time.

`Tick` waits while a fill stands between its SELECT and its stamp: a unit of
the clock is longer than a read of the tables. The TTL of the code is 5 s.
The clock does not go back.

### FactIndex

Points (`point` is the stored text, `vec` the tokens of the sparse vector),
the facts' contribution (`known`, `freq`, `docs`) and one call at a time, as
the collection lock admits. `index_fact` is a read of the previous text, the
delta, the group, and the inverse delta if the group was not stored;
`delete_fact_index` takes the contribution back after the points; `index_all`
scans, registers the whole corpus, writes fact by fact, and retires what it
left unwritten in its `finally`. Each of these steps may fail, be cancelled,
or be the last of a process that dies; `lost` remembers the
failures after which only one of the two stores knows of a write.

### Migration, MigrationProofs

Clients of several identities over physical collections with a manifest in
point 0 and an alias. A call binds (`CheckAlias`, `Confirm`) or migrates:
`Create`, `StampBuilding`, `Copy` document by document, `CountPoints`,
`Finalize`, `StampReady`, `Publish`. `late` holds publications whose reply was
lost or that were cancelled and given up: the server may execute them at any
time. Writers and searches use their binding; a search takes no lock. A death
drops the lock.

### FileLock

Descriptions, inodes and the name of the lock file; tasks that block in a
thread or that can be cancelled (`Async`: the open and the flock run in worker
threads that outlive the cancellation). `fork` is `_fork_state`: a fork waits
for the opens in progress and stops new ones. `Sweep` is what the helpers for
stale locks do: they keep the file, and a mutant that removes it breaks
`Exclusion`.

### CircuitBreaker, EmbedAll, QueryCache, SplitText, TextProofs

Four views of the embedding client. `CircuitBreaker`: requests with retries,
the fallback to one text at a time, and what counts for or against the service;
an answer and its record are two steps. `EmbedAll`: calls for many texts that
open the persistent cache, pack what it lacks into requests under a semaphore,
and scatter the vectors, whichever request ends first. `QueryCache`: queries
through the cache in memory, whose key has the dimension that the first answer
tells, and the probe of the identity. `SplitText`: a text is cut into
slices within the limits of characters and bytes, a slice shrinks until its
tokens fit as well, and pieces without tokens are merged with a neighbour
(`slice`, `fit`, `merge`); some pairs of characters make one token and some
characters none, so that counts are not monotonic.

### EmbeddingCache, TTLCache, AsyncSingleton, SyncSingleton

`EmbeddingCache` has the rows of both tables as one function of keys to times;
reads and their upkeep (`Touch`, `Drop`) are two transactions, as in the code.
`TTLCache` keeps the order of the `OrderedDict`; threads that both miss a key may
both set it, the second one while it is there. Its history says which keys were
inserted or read `later` than a key. `AsyncSingleton` has the look
without a lock, the lock of the event loop, the factory with its retries and
sleeps, the remembered error, and `close`; `SyncSingleton` the double-checked
lock of threads.

### FactStore, FactGraph, GlossaryStore, GlossaryIndex, StoreProofs

`FactStore` models the implicit transactions of Python's sqlite3: a connection
whose UPDATE fails keeps its transaction open, and what it reads from then on
is a snapshot; `timeouts` has the clients and the kinds of writes whose wait
for the lock has ended so. `FactGraph` is the breadth-first search of `find_connections`,
one read of adjacencies per step, cut short at `limit` paths or more than
`MaxVisited` entities (`MAX_BFS_VISITED`), with facts deleted in between:
`graph` is what there was when it began, `stored` what is left of it, and what
a search has to find is what is in reach of the facts that are left.
`GlossaryStore` has each lookup and the transaction that follows it as two
steps; `exclusive`, chosen at the start, says whether clients hold the lock of
the collection, as the tools do when there is an index. `GlossaryIndex` is those tools: store,
vocabulary and points, written one after the other.

### QdrantClient, EnsureCollection, UpsertBatch, HybridSearch, ChangeDetect

`QdrantClient` goes from one await to the next of `_get_client`, `_reconnect`,
`check_health` and `close`. A check and a close may fail, and a task may be
cancelled in either: a close that fails in `_reconnect` is logged and the client
replaced, one that fails in `close` leaves the client where it is, and so does
a cancellation. The history says whether two calls have overlapped, whether
somebody has closed the storage, and which clients were `botched`, by a close
that failed or was cancelled; the promises depend on it. `EnsureCollection` has a request per step, and
servers that start again after an error. `UpsertBatch` has the tasks that
`gather` leaves running when it raises. `HybridSearch` is the fusion as an
operator and the paths of a search as its only steps. The items of the lists are
added one by one, by a recursive function, and the keys put in the one order that
`sort_key` gives; scores are whole multiples of a unit, so that ties are exact. `ChangeDetect` looks at one file
per step, while files are written, in both walks. A write gives a file any time:
a new one, that of a write just before, or one that is restored; the history
says which files were given a time and size that they had had before (`alike`).

### Modules of runs

A module of a run holds components that have no state in common: the variable
`part`, chosen at the start, says which one takes steps, and the others stay as
they began, so that a run is the disjoint union of the state spaces of its
parts and costs their sum. A formula over a part that stands still says nothing
there, except where its initial state already satisfies it. Interactions
between components are modelled inside a component's module, as listed under 1.
`Migration` is checked as it is.

A property of a run is a conjunction of properties of one component that
belong together, under a name for what they promise: `FactsAreCounted` is
`ContributionIsExact`, `ForceShowsTheStore` and `VectorsAreWhole` of
`FactIndex`. Each conjunct has its own comment in the component's module, and
the mutants break the conjuncts, not just the conjunction.

## 3. Runs

| run | question | instances and bounds |
|---|---|---|
| `limiter` | capacity, priority, no leak and no stray close, refinement of `PrioritySemaphore` | `forks`: 2 processes (1 forked), 1 query, 1 document, 1 slot; `shared`: 2 processes, 2 queries, 2 documents, 2 slots |
| `qdrant` | a group is whole or journaled, a return means it is stored, a call ends; tasks get a client that is open but for closes that fail; exclusion and release of file locks; fusion follows its formula | `fragments`: 2 replacements in a row, 3 ids, 4 versions, two cancellations and two deaths; `alone`: 1 task that also closes, 6 clients, 3 failed checks; `apart`: 2 tasks that do not close, 5 clients, 2 failed checks; any close fails and any task is cancelled; `file`: 2 processes (1 forked), a cancellable and a shared call of the parent, a shared call of the child, 2 inodes; `search`: all rankings of up to 3 points, of which 2 are a group, weights 0 to 2, `rrf_k` 0 and 2, 2 results |
| `vocabulary` | arithmetic and indices of the tables; contribution and points of facts and of glossary entries after every failure; limit and order of the cache of embeddings; changes of files are found | 2 codebases, 2 tokens, `MaxInteger` 3; 2 facts with a token in common, 2 failures; 2 clients, 2 entries, 2 failures; 2 threads, 3 keys, 1 entry, 1 clock unit; 2 files, 3 writes at 2 times, 1 read error |
| `caches` | own writes are seen, others' within the TTL, snapshots that match; order of eviction; one instance for all | 2 queries and a writer of one process, a writer of another one, 2 commits, TTL 1, 3 clock units, in three views; 4 keys in 3 entries, evicted in twos, time to live 1, 2 clock units; 3 threads; 3 tasks of one event loop |
| `stores` | rows, sources and adjacency of facts agree; a name means one entry; the graph search finds what is in reach | `facts`: 2 clients with 3 ids, where nobody waits for the lock in vain; `late`: with 2 ids and one kind of fact, where one wait does; `locked`: 2 clients, 3 ids, 3 spellings of 2 names; `free`: 2 ids, 2 spellings and one text, without the lock; `graph`: all graphs of 3 facts between 4 entities (up to the names of the facts), and of 4 facts of one entity in common, one of which is deleted meanwhile, 4 queries, depth 2, cut short at more than 3 visited |
| `migration` | what is active is complete, vectors of two identities never mix, writes go to what is active | 2 clients of any of 2 identities, 2 documents, 2 candidates, symmetric in clients and identities |
| `texts` | texts are embedded once and in order | 2 calls with 3 inputs |
| `ends` | requests at a limiter, calls for a file lock, forks and calls on the vocabulary end; a singleton recovers | a query against 2 documents, sent for ever or once; 2 calls in a process that forks; 1 query and 1 writer; 2 tasks |
| `services` | the circuit follows the service; queries share their calls; the last upsert wins; an ensured collection has its indexes; spans partition the text and fit; every call ends | 2 requests, threshold 2, reset after 2 ticks; 3 tasks, 3 texts, a cache of 2; 2 calls of 3 batches, two at a time and each tried twice, of which one batch at most has attempts that fail; 2 servers; 2 calls for many texts; all texts of up to 4 characters of 4 kinds under 8 kinds of limits, those of 3 without a prefix to their end; graphs of 3 facts of which any are deleted, cut short at more than 2 visited |
| `stores_late` | does a read return a deleted fact? (it does) | as `stores` |
| `services_halfopen` | does the half-open circuit admit one request? (it does not) | as `services` |
| `vocabulary_unread` | does a pass account for points it could not read? (it does not) | as `vocabulary` |

Why these are enough to be of interest. One slot and two requests are contended at
once; two slots make the scan skip. Of the versions, `old` and `new` share only
the canonical id, `again` has all ids of `new` with other contents, and `blank` is a source
without points, so that overwriting, adding, removing and creating all occur.
Two writers suffice for what one leaves to the next: late requests, a journal,
a torn group. `MaxInteger` 3 is exceeded by two codebases with two documents
each. Two commits supersede a snapshot twice, and three clock units let a cache
expire, fill and expire again. Two facts with a token in common tell a count of
one from a count of two; with two failures, one can strike the compensation of
the other. Two candidates make one that is published and one that fails, or two
that are published in turn; with two documents, of which one has no text any more,
one can be copied while the other is not. A cache of one entry over two tables
has to choose the table from which it evicts. Three texts do not fit into a
cache of two. Three facts make a cycle, a chain of length three, and two facts
between the same entities; four facts of one entity lead to more entities than
may be visited. Four characters hold a merged pair at either end,
across the end of the prefix, and two of them. With two times, a second write of a file in the same
tick and a write at a new time occur; of the responses to a request, an invalid
one is tried where texts are left, as otherwise it ends the request like any
other. Of the two views of
the client, the one with two tasks leaves out the close, after which no promise
is made to calls that overlap; one wait in vain is
enough, since nothing is promised to a client whose transaction stays open. In the directions in
which section 4 has theorems there is no bound at all.

Every property has mutants in `PROJECT.json`: a definition changed as a likely
bug would (`AfterForkChildUnlocking`, `CancelNow`, `RawDelta`,
`PublishStamping`, `SweepUnlocked`, ...), under which TLC finds the property
violated. The mutants stand before the definitions they change.

`CHECK_DEADLOCK FALSE` is in the configurations with a part that may stop: requests and
replacements that are made once end, and bounded numbers of commits, clients or
clock units are used up. `vocabulary` and `migration` are checked for deadlock:
their parts start calls again and again.

### Fairness

Safety runs assume none. In `Limiter`, weak fairness for the steps of a task
says that asyncio runs ready coroutines and fires timers, and for `EndAttempt`
that the HTTP client has a timeout; strong fairness for the steps that take
`_held_fds_lock` says that a coroutine gets it although others take it again
and again: no code awaits while it holds the lock, so that it is free whenever
a coroutine of that event loop runs. The hook of a forked child runs. Nobody
has to issue a request, fork, fail, cancel or exit. `ClaimIsAnswered` speaks of
a query that has registered its claim; one that has not yet may in theory miss
the gate for ever, and the code says so (limiter.py:201-203).

In `FragmentGroup` the event loop and its threads make progress and the server
executes what it got. In `VocabCache` threads run, a statement on a connection
that was closed fails, and a waiting thread gets a lock that is free again and
again. In `FileLock` threads and event loops run and bodies end; `Timeout` is
strongly fair, since a call that fails to get the flock looks at its deadline
after every attempt; the hooks of a fork run. In `AsyncSingleton` the clock and
the tasks go on, and a task gets the asyncio lock, which is first come, first
served, and a factory that can succeed again and again does in the end
(`Enter` and `Made` are strongly fair). In `CircuitBreaker` time passes and
requests go on, the next call of a client included; it does not assume that the
service comes up. In `QueryCache`, `EmbedAll` and `UpsertBatch` requests end,
because the HTTP clients have timeouts, and sleeps do. A server of
`EnsureCollection` calls again when it starts after an error. `SplitText` and
`FactGraph` are loops of one thread, which runs.

In `MCEnds` and `MCServices` the fairness of the parts is written as one
condition for each task, over the disjunction of the step of every part. As `part` never
changes and each disjunct names its part, a behaviour satisfies it exactly if
it satisfies the fairness of its part.

### What does not hold

Three statements of the documentation are refuted by a run of their own:

* `DeletedIsNotFound` (`stores_late`): `FactStore.update` and
  `update_source_status` leave their transaction open when the UPDATE finds the
  database locked (database.py:631, 1017). Later reads of the thread see the
  snapshot of that moment, and return facts that were deleted since, where the
  docstring promises `FactNotFoundError`.
* `HalfOpenAllowsOne` (`services_halfopen`): after the reset time every request
  passes until an answer is recorded (client.py:419), not the one of the docstring.
* `PassAccountsForPoints` (`vocabulary_unread`): after a scan of the points that
  failed, `index_all` registers the current text of a fact whose point has
  an earlier one, and leaves it so when it cannot write the fact (indexer.py:512).

The modules state more sentences of docstrings and comments that the code does
not keep; they are marked "(it does not hold)", TLC refutes each on the instance
named or on one of that size, and no run of the project repeats it.

| definition | what happens |
|---|---|
| `Migration!FailedNeverPublished` | a publication whose reply was lost raises like any failure, and its candidate is active (embedding_migration.py:637, 738) |
| `EmbedAll!PermanentlyFailsOpen` | a call that waits while another one fails to open the persistent cache opens it anew (client.py:978-982) |
| `EmbeddingCache!OnlyCorruptIsDropped` | a good entry written between the read of a corrupt one and its removal is removed (cache.py:176-181, 317) |
| `EmbeddingCache!HitsAreCounted` | with a `clear` between them, a hit that is taken back leaves -1 hits (cache.py:321) |
| `AsyncSingleton!OneInstance` with two event loops | both run the factory, and the first instance is never cleaned up (async_helpers.py:181) |
| `TTLCache!RecentAtEnd` | `set` on a key that is there does not move it to the end (utils/cache.py:109, 166) |
| `FactGraph!AlwaysFound` | a target in reach is not found once more than `MAX_BFS_VISITED` entities are visited (database.py:1106) |
| `FactGraph!SingleFactPaths` | without a target, whole paths are returned (database.py:1053, 1178) |
| `FactStore!DatesInOrder` | two updates of one date each store an inverted range (database.py:54, 595) |
| `FactStore!UnscopedIsRefused` | an empty `content_hash` passes the guard and selects every source (database.py:990, 1010) |
| `GlossaryStore!NameMeansOne`, `HashMatches` without the lock | two clients store one name, or a hash of neither update (glossary/store.py:144, 326) |
| `GlossaryStore!LookupReturns` | a lookup raises if the entry is deleted between its two reads (glossary/store.py:426, 438) |
| `GlossaryIndex!VocabularyExact` | a deleted entry stays in the vocabulary until another one is written (glossary/indexer.py:225, 260) |
| `UpsertBatch!SentUnderLock` | when one batch raises, the others are sent after the caller gave the lock up (storage/qdrant.py:389) |
| `ChangeDetect!SameStatSameContent` | a file that was written twice in one tick of its clock, or whose time was restored, has another content of the same size ("likely unchanged", change_detect.py:112) |
| `ChangeDetect!DeletedAreGone` | a file that is skipped, as its stat failed or it is empty, is reported as deleted (change_detect.py:16, 115) |
| `HybridSearch!EqualWeightsUseRrfK` | with equal weights the server fuses, and `rrf_k` has no effect (storage/hybrid.py:67, 211) |
| `QdrantClient!UsesOpenClient` | a client whose `close()` raised or was cancelled after it closed is given out until the next check is due, which replaces it (storage/qdrant.py:166, 229) |
| `QdrantClient!ReplacedIsClosed` | of two tasks that reconnect, the second forgets the client of the first (storage/qdrant.py:177, 183) |
| `EnsureCollection!SecondCallSkips` | of two servers that start at once, one fails: the collection exists by then (storage/qdrant.py:804, 816) |

The properties of the passing runs say what does hold beside these: that the
service is let back in, that locked clients agree, that the next pass repairs.

## 4. Proofs

TLAPS proves these for all values of the constants that satisfy the named
assumptions of the modules:

* model values differ: nobody (`None`, `Nobody`, `Absent`, `NotSet`) is no
  client, task, text or identity, and functions have their types; for an
  instance this is an `ASSUME` of the theorem, and the module of the run
  assumes it of the values of the run;
* bounds are natural numbers: faults, retries, a clock, ids. Where the code has
  at least one of a thing, so has the model: a slot, a point of a source, a
  batch, a reset time, the first inode;
* a sum or a cardinality is over a finite set: codebases and tokens
  (`TablesAssumption`), facts and tokens (`FactIndexAssumption`), documents
  (`MigrationAssumption`), keys, which are hashes (`CacheAssumption` of
  `EmbeddingCache`);
* weights, `rrf_k` and limits are natural numbers (`HybridAssumption`): settings
  refuse others, and the fusion raises a negative `rrf_k` to 0; a group is a number;
* `ChangeSafety` says of a change of a file only that it is found unless the file
  was given a time and size that it had had before (`alike`); file systems do
  not exclude that, as two writes may come in one tick and times may be
  restored, and such a change may stay hidden until the next write. `ClientSafety` makes the
  same kind of exception of clients whose close failed (`botched`);
* `ConnectionSafety` is about searches while facts are deleted, not inserted or
  changed; that all in reach is found is promised to a search that no bound cut
  short;
* `AsyncSafety` also assumes `OneLoop`. With two event loops the property does
  not hold (section 3).

The last column names the property of a run that the theorem states, by the
same definition. A theorem about a named instance is about `Spec` of that instance.

| module | theorem | property of a run |
|---|---|---|
| `LimiterProofs` | `TypeCorrect`, `CapacitySafety`, `HolderSafety`, `NoLeak`, `StrayCloseSafety`, `AccountSafety` | `CapacityKept`, `LocksAreAccounted` |
| | `PrioritySafety`, `PriorityOfQueries` | `PriorityIsKept` |
| | `Refinement`: `Spec` implies `PrioritySemaphore!SemSpec` under the mapping | `PriorityIsKept`; `SharedPriorityIsKept` is an instance of it |
| | `CircuitSafety` | `CircuitFollowsTheService` |
| | `QuerySafety` | `QueriesShareCalls` |
| | `SplitSafety` | `SplitsFit` |
| `FragmentGroupProofs` | `TypeCorrect`, `GroupSafety`, `JournalSafety`, `FlightSafety`, `CommitSafety`, `SuccessSafety`, `OrderSafety`, `OutcomeSafety` | `WholeOrJournaled`, `JournalIsInOrder`, `OutcomeIsTold` |
| | `LocksInductive`, `LockSafety`, `LocksAreKept` | `FileLocksHold` |
| | `ClientSafety` | `ClientsAreKept` |
| | `EnsureSafety` | `EnsuredIsIndexed` |
| | `UpsertSafety` | `LastCallWins` |
| | `FusionSafety` | `FusionIsFair` |
| `VocabTablesProofs` | `TypeCorrect`, `UniqueIndices`, `StableIndices`, `BackedContributions`, `TableSafety` | `TablesAreInOrder` |
| | `CountSafety` | `CountsAreSound` |
| | `VectorSafety`, `FactSafety` | `FactsAreCounted` |
| | `ToolsSafety` | `GlossaryIsIndexed` |
| | `EmbeddingSafety` | `EmbeddingsAreKept` |
| | `ChangeSafety` | `ChangesAreFound` |
| `VocabCacheProofs` | `TypeCorrect`, `ReadYourWrites`, `BoundedStaleness`, `FuzzySafety`, `CacheSafety` | `WritesAreSeen`, `SeenWithinTtl`, `CachesAreSound` |
| | `MemorySafety` | `MemoryIsInOrder` |
| | `SyncSafety`, `AsyncSafety` | `ThreadsShareOne`, `TasksShareOne` |
| `TextProofs` | `TextSafety` | `TextsAreAnswered` |
| `StoreProofs` | `StoreSafety`, `TransactionSafety` | `FactsAgree` |
| | `NamesSafety` | `NamesMeanOne` |
| | `ConnectionSafety` | `PathsAreFound` |
| `MigrationProofs` | `Inductive`, `ActiveSafety`, `SpaceSafety`, `WriteSafety` | `ActiveIsWhole`, `SpacesNeverMix`, `WritesGoToTheActive` |

The argument is the same in each: the properties are not inductive, the named
strengthening `IInv` is, which each module defines beside them. TLC finds no
violation of `IInv` on the instances of the runs either; as it is proved, no run
repeats that.

* Limiter. `RefsInv` ties the descriptors to the locals: a description is open
  in the process of its task or in a forked child whose hook has not run, and
  nowhere else. With `MemLockInv` (nobody forks during a scan) and `GateInv`
  (the gate is exclusive exactly during a document's scan, when no claim
  stands) every lock is accounted for. The capacity follows by an injection of
  the attempts in flight into the slots.
* FragmentGroup. `SeriesInv` says what the answered part of a series has
  achieved. It rests on the order of the server: an answer comes after
  everything older was executed, so only the first request of a compensation
  can meet late ones. `OrderlyInv` confines late requests to the ids the call
  answers for; `ResolvedInv` carries the committed group from call to call.
* VocabTables. The fixed range of the floored subtraction, and indices below
  the next one. Sums over codebases and tokens are folds. A theorem with an
  operator for a parameter cannot be cited, so that induction is done over
  sets of numbers: `AllNaturals` says that a set with 0 that is closed under
  successor has every natural number in it, from the well-foundedness of `<`;
  `SumsExist` and `SumIs` say by it that the fold of a finite set is its sum.
  `CountInv` then says that each total covers what the codebases contribute.
* VocabCache. `FillInv`: who fills has `_cache_lock` and finds the cache empty.
  `SeenInv`: nothing kept or about to be published is older than a call that
  returned. `AgeInv`: what a cache holds was current when the stamp was set.
* FactIndex. `CountInv` says, for each place of a call, by which texts the
  contribution and the points differ: by the delta that was written and whose
  group is not, by the facts that a pass has registered and not reached.
  `CallInv` holds whatever was lost. A frequency is the cardinality of the
  facts with a token, which `OneText` and `ManyTexts` change by the texts
  that are exchanged.
* Migration. `WholeInv`: the active collection has the acknowledged documents.
  `CollectionInv` says what a manifest means, from `building` to `ready`;
  `CallOK` what a call knows at each place, as long as it has the lock;
  `LateInv` that a publication nobody waits for is of a candidate that was
  complete, so that it can cost acknowledged writes only when somebody else has
  had the lock in between, which is the exception the properties name.
* FileLock. `FlockInv`: descriptions of one inode are locked as flock permits,
  and whoever holds the name's inode opened it. `ForkInv`: no descriptor is
  open in a child that its parent does not count among its opens or its
  registered ones when it forks. `NothingLeftBehind` is inductive with these.
* Singletons. Who calls the factory of `AsyncSingleton` does so under the lock
  because there is no instance; between the two looks of `SyncSingleton` an
  instance may be dropped, so that what a thread has is the instance or one
  that was reset.
* ChangeDetect. An entry is `Honest`: a file that has the time and size of its
  entry, and had them but once, has its contents, because `Read` follows `Look`.
  `PassOK` says what a pass in quiet has `Seen` in either walk.
* FactStore. `Sound` holds of the last commit and of every snapshot that a
  transaction reads; `IterOK` says which ids an iteration cannot have passed by.
* Glossary. `StepOK` says what the tool that has the lock has read and written;
  an entry whose write is not over is `Unwritten` or `Uncounted`, and all others
  agree unless a tool failed on them. `CreateOK` and `UpdateOK` say that what was
  looked up under the lock is still so.
* Qdrant. `AloneInv`: a task that is alone has the client that is open, or one
  whose close failed.
  `EnsureCollection`: all indexes before the next one are there. `UpsertBatch`:
  as long as nobody raised, the tasks of the call under the lock are the only
  ones that write (`Undisturbed`), and the semaphore is held by as many as it
  has given out.
* Caches. `WhatRemains` counts what an eviction of `EmbeddingCache` takes from
  either table. In `TTLCache` the time of an entry is that of its last use, and
  what stands behind another entry was inserted or read later;
  `KeptFacts` says, by induction, that what is kept of a sequence is in its order,
  and less if anything was taken out.
* EmbedAll. `Recursion` says that a recursive function on `0 .. N` exists and
  solves its equations; with `AllNaturals` it gives what packing n texts yields
  (`PacksUpTo`: consecutive requests within the limits that cover the texts),
  that their texts in order are the plan (`Flattened`), and that `Missing` has
  each text once (`MissingFacts`). `Consistent` then ties what a call has
  reported to the positions that its finished requests answer; these are
  disjoint, so that every answer adds what it reports, and all of them when
  `gather` returns.
* CircuitBreaker. The count is the streak of failures, and an answer that
  counts came while the service was down. QueryCache. The lock is handed to the
  head of the queue, so that a text that is fetched was looked up under it.
* SplitText. The spans that have been cut are a `Chain` from the first character
  to where the next slice starts; a slice is a `Part` of the text that fits but
  for its tokens, and an empty one has a character in it that cannot be embedded.
  What has been merged is a chain up to the run of spans without tokens that waits.
  Such a run refutes that the text could be embedded (`TokenlessIsMisfit`): a text
  has no token exactly if none of its characters and no two neighbours make one, and
  then neither has a part of it. Bytes are sums over characters, by induction.
* FactGraph. The entities in reach by n facts that are left are defined by
  recursion, and a deletion only makes them fewer (`WithinShrinks`), so that what is
  said of them stays true. The paths in the queue get longer, by one fact at the
  most; who was expanded has met all neighbours that are left, so that no way to an
  entity that is left is shorter than the first path to it.

* HybridSearch. By `Recursion` the recursive functions exist: `Share`, which falls
  with the rank (`SharesFall`); `Added`, after n items of which a key has the
  ranks of the items so far and their gains as its score (`Gained`); and the best
  points of groups, each of which leads its group (`Leading`). So a fusion has
  the scores of the formula, in order (`FusionOf`), and a point that is ahead
  wherever another has a rank scores more. A hit that was cut off its branch would have weighed
  less than the score of its group (`NotCutOff`): all the groups before the
  cut would come before it, and there are as many as results.

Only model-checked is liveness (`RequestsAreServed`, `LockCallsEnd`, `VocabCallsEnd`,
`Recovers`, both `EveryCallEnds`), because the prover reasons neither about
fairness nor about `ENABLED`. That `Sorted` is never empty, so that every
search returns, is `ENABLED` too; TLC finds no search of the run that does not.

## 5. Not modelled, and assumptions

* Limiter: `_validate_capacity_manifest`; all processes use one capacity.
  Closing a valid descriptor and `LOCK_UN` do not fail.
* Recovery from a journal is manual; nothing in the repository replays one.
* The time that `file_lock` waits, outside of `FileLock`: a call that gives up
  with `TimeoutError` has done nothing and is not a step.
* Weights, tokens, payloads and vectors as data; the clocks of processes going back.
* A file that is read while it is half written; facts that are inserted or changed
  during a search for connections.
* `LockManager`, the synchronous bridge of the embedding client and its HTTP
  client per event loop; filters, lists and formats of the stores; single
  requests to Qdrant; ignore rules and encodings of discovery; resolution of
  texts from other stores during a migration (`embedding_sources.py`); dense
  schemas and payload indexes of a candidate; markers and validation of
  fragments; the retry decorator (`retry_operation` is in `CircuitBreaker`).
* Hash registry: each operation is one SQL statement (`register` an upsert by
  key) in a transaction of its own. No operation depends on an earlier read, so
  there is no interleaving for a model to find.
* Sparse vectors and tokenization: pure functions on text without state. The weights
  are floating point, which TLA+ does not have.
* Settings, errors, logging, mcp, paths, validation: constants and conversions
  without state of their own.

## 6. Plan

Done: the modules of section 2, their runs, and the proofs of section 4. What is
left, in the order of the damage an error would do:

1. Abstract specifications: a register of published generations that
   `Migration` implements, a plain shared and exclusive lock for `FileLock`.
