# deepdata L0: models, checks and proofs

The repository is the L0 data platform `core_data`: it crawls sources, keeps
every raw document, derives a canonical layer of deduplicated and versioned
content items, announces each version through a transactional outbox and a
relay to Redis, and lets the next layer (L1) pull contents through an internal
query API. This directory holds TLA+ models of it, TLC configurations for small
instances, and TLAPS proofs for all instances. Paths below are relative to
`src/core_data/` of the repository unless they begin with `docs/` or `README`.

    tlc -workers 2 -config MCRelay.cfg MCRelay.tla      # one run
    tlapm RelayProofs.tla                               # one module of proofs

## 1. Inventory

### Components

| Component | Code | State | Operations | Model |
|---|---|---|---|---|
| Canonical layer | `ingest/canonical.py`, `db/models.py`, `db/session.py` | `content_items`, `content_versions` | create, revise, re-sight, link, rebuild | `Ingest`, refining `ContentHistory`; `Platform`, refining `Feed` |
| Deduplication | `ingest/dedup.py` | none (reads items) | `classify`: by URL, by content hash, by simhash | `Ingest` |
| Pipeline | `ingest/pipeline.py` | `crawl_jobs`, counters of a crawl | `crawl_source` | `Crawl`; parts in `Ingest`, `Scheduler`, `ObjectStore` |
| Raw store | `ingest/raw_store.py` | `raw_documents` | `append` | `Crawl`, `ObjectStore`, `Ingest` |
| Outbox, relay | `events/outbox.py`, `scripts/relay.py` | `outbox_events` | `emit`, `relay_once` | `Relay` over `OutboxRows`, refining `Delivery`; `Platform` |
| Redis publisher | `events/publishers.py` | a list and acceptance markers in Redis | the Lua script | `Relay` |
| Scheduler | `ingest/scheduler.py`, `scripts/scheduler_run.py` | none of its own | ticks over due sources | `Scheduler` |
| Source health | `sources/health.py` | `source_health` | attempt, success, failure | `Scheduler` |
| Object store | `storage/object_store.py` | files or S3 objects | `put_bytes`, `get_bytes` | `ObjectStore`, with `get_content` |
| Query API | `query/api.py` | none (cursor in the caller) | `list_contents`, `get_content` | `Query`; `get_content` in `ObjectStore` |
| Source administration | `sources/repository.py`, `sources/opml.py` | `sources` | create, import | `Sources` |
| Command line, dashboard requests | `cli.py`, `scripts/dashboard.py` | none | rounds, imports, crawl, toggle, create | `Scheduler`, `Sources` |
| Adapters, fetcher, extractor, media | `ingest/adapters/`, `ingest/rss.py`, `ingest/fetcher.py`, `ingest/extractor.py`, `ingest/media.py` | none | entries, pages, texts, media | outcomes only, in `Crawl` |
| Status page | `scripts/dashboard.py` (`_status`), `scripts/dashboard.html` | the browser's last answer, offset and request number | load, refresh, next and previous page | `StatusPage` |
| Soak driver | `scripts/soak.py` | none | all due sources in one transaction | a caller of `Crawl` |
| Configuration, migrations, other drivers (smoke, acceptance, preview) | | | | not modelled |

### How they interact

* All of one crawl is **one database transaction** of its caller. The callers
  are the resident scheduler, the dashboard's crawl request, the command
  line's round and the soak; each opens a session of its own, calls
  `crawl_source`, and commits or not. The round and the soak crawl all their
  sources before they commit. Only the scheduler rolls back one source and goes
  on with the next.
* The status page is answered by some twenty statements of one session, each of
  which sees what is committed when it runs; the browser may have several
  requests under way.
* Crawls, relay runs, requests and queries share nothing but the database, the
  object store and Redis. There are no locks in the code: the unique keys, the
  row locks of UPDATE and the visibility of READ COMMITTED are all that orders
  concurrent sessions under PostgreSQL; under SQLite there is one writer.
* The object store is not part of the transaction. An object is put before its
  row and stays when the row is rolled back.
* `emit` writes to the outbox in the crawl's transaction. The relay reads it in
  a transaction of its own and talks to Redis before that transaction commits.

### What is hard here

| Kind | Where | Property |
|---|---|---|
| two crawls revise one item from the same version | canonical.py:66 | `HistoryComplete`, `CurrentIsLatest`, `HashChangeBumpsVersion`, `HistoryKept` |
| item, version row and event are three flushes | canonical.py:84 | `EveryVersionAnnounced`, `FeedKept` |
| a list in `meta` is read and written back whole | canonical.py:95 | `VariantsNeverLost` |
| overlapping relay runs; a crash between Redis and the commit | outbox.py:33, relay.py:20 | `DuplicatesAccounted`, `DeliveryKept` |
| a Lua script that stops half way; a marker that expires | publishers.py:14, 32 | `DuplicatesAccounted` |
| ids commit out of order | outbox.py:34, api.py:56 | `RowsKept`, `FeedKept`, `EventuallyPublished`, `NothingLeftOut` |
| a list of due sources that is stale when used | scheduler_run.py:57 | `StopsSoon`, `Spacing` |
| failures of one source beside others | scheduler_run.py:64 | `NoStarvation`, `FailureRecorded` |
| an interval that is no number | scheduler.py:16 | `NoStarvation` |
| a file that exists but is not whole | object_store.py:42 | `RefsAccounted`, `AnswerConsistent` |
| a relay run whose publisher has no consumer | scheduler_run.py:70, soak.py:54 | `DeliveryKept`, `FeedKept` |
| several places an entry can fail at, two except clauses | pipeline.py:109, 122 | `StatsMatchRows`, `EntriesAccounted`, `ItemsRestOnSuccess` |
| look, then insert, in concurrent sessions | repository.py:19 | `FeedsUnique`, `ImportComplete`, `SessionsEnd` |
| row and object read one after the other | api.py:72 | `AnswerConsistent` |
| two counts subtracted, a count and a page compared | dashboard.py:250, 296 | `PublishedNotOverstated`, `JobsShown` |
| answers that overtake each other | dashboard.html:65 | `ViewSettled` |

`PROJECT.json` has the full list, with the hazards no property covers yet and why.

## 2. The modules

Each module names, in comments, the code of each action; `PROJECT.json` ("map")
gives the lines. Definitions that only differ from their neighbour by a
plausible mistake (`DueEarly` beside `Due`) stand directly before it; they are
no part of the specification and serve to test the properties (section 4).

**Ingest** models concurrent crawl transactions over the canonical layer.
Variables: the four committed tables and, per crawler, the rows its session has
written and the entry it is at. An entry is at least three steps, because each
query of `classify` sees what has been committed before it: `TakeEntry`,
`ProbeUrl`, `ProbeText`, then one of `Unchanged`, `Revise`, `Resight`, `Link`,
`Create`. An UPDATE waits (`Unlocked`) and what it writes was computed from the
row read earlier (`work.seen`); an INSERT meets unique keys (`VersionTaken`,
`UrlTaken`, `UrlPending`); a crawl that meets one, like one that fails
otherwise, can only roll back (`Abort`). `Commit` publishes everything at once.
`Rebuild` is `rebuild_canonical`, only in `RebuildSpec`. `Told` and `Text` map
the tables to `ContentHistory`.
Abstractions: a text is its content hash, nearness of simhashes is the constant
relation `Near`; the two queries by content are one step; an id whose row was
rolled back may be used again; each row is read afresh when an entry is
classified (the identity map of a session is left out); a write that leaves
`meta` equal to what was read is not sent, hence the choice in `Resight`; the
rows of entries and of errors nothing refers to are in `Crawl` instead.

**ContentHistory** is the abstract promise of the layer: of each item a
sequence of texts that L1 is told, and the text the item shows, which is its
last one. A step adds texts, each unlike the one before it, to any number of
items and changes nothing that was told. `Ingest` implements it
(`HistoryKept == History!Spec`): only `Commit` is a step of it.

**Crawl** models one crawl after another of a page source and a list source in
full: the raw rows of entries, pages and errors, the counters, the job, the
health, both `except` clauses, and the caller's commit or rollback. The tables
are one record `db`; the session works on a copy `own`. A caller may begin the
crawl of another source before it commits (`Uncommitted`), as the round and the
soak do, and then loses all of them when one raises. Which item a document
ends in is a choice over what `classify` can return.

**Scheduler** models who crawls what and when. `Scheduler` ticks; `Others` are
sessions that run requests and rounds. Times are ages, capped at the interval.
The session's own `source_health` rows are kept apart from the committed ones
until `CommitRows`. Row locks on `source_health` are not modelled, so more
interleavings are possible than under PostgreSQL; `PutsBack` names the one
outcome (an older time committed over a newer one) this makes explicit, and
which the real locks also allow. An empty crawl counts as ok here. The
heartbeat file is left out. Of the sources in `Unchecked` nobody has checked
the interval: at the start any of them may be `malformed`, and as long as one is
enabled `due_sources` raises (`Readable`) and no tick begins.

**ObjectStore** models `put_bytes` of both backends around the rows that refer
to the objects: the file store looks, opens (which truncates) and writes. A
writer then inserts a raw document (`Refer`), inserts or updates the row of an
item (`ReferItem`), or needs the object for no row (`Unused`). A reader is a call
of `get_content`: it reads an item's row with the hash and the key in it
(`GetRow`), then the object under that key, in whatever state it is
(`GetObject`), as nothing compares the bytes with the hash.

**OutboxRows** is the outbox table as the crawls fill it, all that the relay
and the crawls have to agree on: ids are taken in the order of the inserts, a
transaction ends with all its rows, before or after transactions with later
ids, no other open transaction has rows of the same items, and a row that is
rolled back is gone with its id.

**Relay** models the outbox from `emit` to the commit of the marks: the table
of `OutboxRows` (`Emit`, `EndEmit`), overlapping runs, runs that only print
(`--relay` of the scheduler), the Lua script, and every way it fails. `queue` is
the list in Redis, `lost` counts how often an event's marker was not set or expired,
and `printed` are the events that runs without a consumer have taken: the log of
`scheduler_run --relay` (`PrintEvent`). The soak's null publisher, which marks in the transaction of
its crawls, is the same run begun right after their commit.

**Delivery** is the abstract promise: an event is handed over once committed,
of one item never before an earlier one that is still to be handed over, and
struck off only when it was handed over or a run without a consumer took it.
`Relay` implements it under the mapping *handed = in the queue L1 reads*,
*printed = printed*, *struck = published* (`DeliveryKept == Promise!Spec`). So
an event that only a log has seen does not count as handed over: L1 misses it, and
the next version of its item can reach L1 without it.

**Platform** is L0 from the crawl to L1. It extends `Ingest` with the rows of
the outbox table, `payload` and `stage`: `Revise` and `Create` number the event
they emit (`Number`), `Commit` makes the session's rows visible (`Keep`), a
rollback takes them back (`Vanish`). The relay is whatever
`Delivery` allows over the visible rows (`RelayRun`), runs without a consumer
(`PrintEvent`) included, so that nothing is assumed of it but its promise. Two refinements tie the modules together:

* `RowsKept == Rows!Spec`: the crawls fill the table as `OutboxRows` says, which
  is what `Relay` builds on;
* `FeedKept == L1Feed!FeedSpec`: crawls and relay together implement **Feed**.

**Feed** extends `ContentHistory` by what L1 has: of each item the texts it was
handed (`learned`), the versions a run without a consumer took (`printed`) and
those still to be handed over (`due`). A commit publishes and makes due what it
tells; L1 learns version *v* of an item only when no earlier version is due that
it does not have; and a version stops being due only when L1 has it or it was
printed. A version that is handed over again changes nothing. `LearnedWhole` is
what this means for an item none of whose events was printed: L1 has its first
versions without a hole. With such runs L1 misses exactly what they marked.

**Query** models walks over `list_contents` while items are inserted, committed
in any order and rolled back. `status` and `since` are one attribute of an item,
its class, as both columns are written at the INSERT only. The walks read
nothing that a revision changes.

**Sources** models `create_source` in concurrent requests and OPML imports:
the look, the insert, its health row, the unique key with the wait for an
uncommitted row, and the deadlock that such waits can end in.

**StatusPage** models what the browser shows. The server answers a request in
four steps, the counts of all and of pending events, the count of the jobs and
their page (`CountEvents`, `CountPending`, `CountJobs`, `ReadPage`), between
which crawls and relay runs commit. The page is any that an order by
`started_at` alone allows. The browser has one last request and any number of
earlier ones whose answers are `late`; answers and failures of these change
nothing. `owed` is no state of the code: it remembers which of the jobs the
first page was cut from have not been shown since. Figures that stand for
themselves (counts, health, series, contents) are left out.

**How they compose.** `Ingest` and `Relay` share one table and nothing else, in
one direction: crawls insert and end rows, relay runs read the committed ones
and set `published_at`, which no crawl reads. So each side is modelled over
what the other one promises: `Relay` implements `Delivery` over any table that is
filled as in `OutboxRows`, the crawls of `Platform` fill theirs like this, and
`Platform` implements `Feed` with any relay that keeps `Delivery`. Together:
L1's history of an item is the item's history, in order and without holes but
for what a run without a consumer has marked published.
That step is an argument about the modules' interfaces; the three refinements
are checked and proved. The other modules meet in rows too: what
`Ingest` does to an item is what `Query`'s `Insert` and `ObjectStore`'s
`ReferItem` produce, and a crawl of `Scheduler` is one of `Crawl`.

## 3. The runs

| Run | Instance | Shows |
|---|---|---|
| `platform` | 2 crawlers, 2 URLs, 2 texts, 2 items, 3 raw documents, 3 outbox ids, any relay, 1 printed event; 296,064 states | history, announcements and lineage survive every interleaving of two sessions; refinement of `ContentHistory`, of `OutboxRows` and, to L1, of `Feed` |
| `ingest_single` | 1 crawler, 2 URLs, 3 texts of which two are near, 4 raw documents, rebuilds; 608,961 states | rebuilds leave the history whole; variants are kept and are other documents; no item is born a duplicate |
| `ingest_variants` | 2 crawlers, 3 URLs of one text | finding: a variant is lost |
| `relay` | 2 Redis runs, 1 log run, 2 events of 2 items, 2 faults; 210,539 states | duplicates, order, refinement of `Delivery`, progress |
| `scheduler` | 2 sources, 1 other session, interval 2, 1 crash, 1 source with an unchecked interval; 729,000 states | spacing, stops, no starvation |
| `scheduler_failure` | the same, interval 1 | finding: failures are not recorded |
| `objectstore` | 2 writers, 2 keys, 1 item, 1 reader, both backends, 2 faults; 206,591 states | when a committed row can refer to a damaged object, and what a reader is answered |
| `query` | 1 reader, 5 items, 2 classes, page sizes 1 to 3; 91,839 states | walks are complete and without repetition |
| `query_late` | 1 reader, 3 items, 1 class, page sizes 1 and 2 | finding: a late commit is skipped |
| `status` | 3 jobs of which 2 started together, pages of 1, 1 event, 3 requests; 783,000 states | what the page may show while others commit and answers overtake each other |
| `crawl` | 2 URLs, 2 entries, 2 crawls in one transaction or two; 369,000 states | rows, counters and items agree after any failures |
| `sources` | 2 sessions, 2 feeds, 3 files, 4 ids; 55,400 states | feeds are unique, sources have health, imports complete, sessions end |

**Why the bounds are enough.** Each hazard needs two sessions, and two things
they compete for: one URL or item to race for and one beside it. Two versions
of an item need two texts, and with two a third version is a change back, the
harder case, as its text was seen before; `ingest_single` has a third text, for a
change on and for a text near to another. One printed event is one that L1
misses beside one of the same item, before or after it, that it gets. One event on each of two items and two overlapping runs suffice
for every duplicate; the order of one item's events is covered because both
events may be of one item. Three documents and three ids give an item three
versions, or two beside one of another item, an id that is lost in a rollback before
others, and a transaction that commits after one with later ids. Two keys and
one item are a row that is revised, to another text and back, between a reader's
two reads; two writers are one that has looked and one that has opened. Five items and
pages of up to three give walks of up to five pages, full pages that are the last, and
late commits on both sides of a cursor. Two entries
per crawl give every mixture of one outcome after another, two crawls every effect of a stored row on a later one. Three
pages of one job each have a first, a middle and a last page, and with two jobs
of one start time also a tie across a page border; three requests are one whose
answer is shown, one that is overtaken and the one that overtakes it.
The proofs of section 6 have none of these bounds but the ids themselves.

**Fairness.** `Relay`: each run is weakly fair, since a run once begun goes on
and another is started. `relay.py` does one batch for each call, so for the queue this
rests on the timer that its operator sets up; the ticks of `scheduler_run --relay`
start their runs themselves, and `EventuallyPublished` counts what these mark as
published, which is not the same as handed to L1; faults are bounded, so an
event that Redis refuses for ever is outside the claim, and blocks the outbox.
`Scheduler`: weak fairness of the scheduler's steps: its loop sleeps for a
bounded time, every request of a crawl has a timeout, and a crashed process is
started again. Nothing is assumed of the other sessions. `Sources`: strong
fairness of a session's steps, because a session that waits for a key is woken
when the other transaction ends; new sessions may begin all the time.

**Deadlock checking** is off where the model itself stops at a bound: `Ingest`
and `Platform` (raw document ids run out), `Relay` (all events emitted and published), `Crawl`
(the last crawl is committed), `StatusPage` (the requests are used up).

**Symmetry** is used only for safety properties.

## 4. What would break the properties

Each property was tested against a mistake of the code it is about.

| Property | Mistake that violates it |
|---|---|
| `Ingest!TypeOK` | the initial version is 0 |
| `EveryVersionAnnounced` | the idempotency key is the item alone |
| `HistoryComplete` | no unique key on (content_id, version): two rows of one version |
| `CurrentIsLatest` | a revision keeps the old hash |
| `LineageSound` | linking a variant also moves the representative |
| `HashChangeBumpsVersion` | a revision in place |
| `HistoryKept` | a page with an unchanged text makes a version |
| `RowsKept` | an event is committed by itself, before its crawl |
| `FeedKept` | the events of a crawl that is rolled back stay |
| `HistoryComplete` with rebuilds | a rebuild counts a version and records none |
| `VariantsAreOthers` | the URL query misses the session's own items |
| `VariantsNeverLost` | linking replaces the list |
| `NoDuplicateBirth` | near texts are not compared |
| `Relay!TypeOK` | marks survive a rollback |
| `DuplicatesAccounted` | the marker is not looked up |
| `DeliveryKept` | the marker is set before the push |
| `EventuallyPublished` | the relay resumes after the last published id |
| `Scheduler!TypeOK` | a finished crawl keeps its source |
| `StopsSoon` | stopped sources are due |
| `Spacing` | sources are due before the interval is over |
| `NoStarvation` | a tick ends at the first failure |
| `ObjectStore!TypeOK` | the key is kept after the put |
| `RefsAccounted` | the row is inserted although the put failed |
| `AnswerConsistent` | the object's key is read from the row again, after the hash |
| `Query!TypeOK` | the cursor is the first row not shown |
| `WalkComplete` | never a next page |
| `NoneTwice` | `>=` for the cursor |
| `StatusPage!TypeOK` | the previous page of the first one is before it |
| `PublishedNotOverstated` | pending events are counted before all events |
| `JobsShown` | the last page is not offered |
| `ViewSettled` | the answer to an overtaken request is shown |
| `Crawl!TypeOK` | a rollback keeps the session's rows |
| `StatsMatchRows` | error rows are not counted |
| `EntriesAccounted` | a page that cannot be fetched is skipped |
| `ItemsRestOnSuccess` | the length is checked after the text is linked |
| `Sources!TypeOK` | rows outlive the session that rolls back |
| `FeedsUnique` | no unique key on `feed_url` |
| `SourcesHaveHealth` | a commit before the health row |
| `ImportComplete` | a feed that exists ends the import instead of being passed over |
| `SessionsEnd` | an insert that met the key is tried again without another look |

## 5. Where code and documents disagree

With a run that shows it:

* `ingest_variants`: a variant linked by one crawl is overwritten by another
  (canonical.py:95), against "保留代表 + 关联变体，不丢弃".
* `scheduler_failure`: `mark_failure` and the failed job are written in the
  transaction every caller discards (pipeline.py:125).
* `query_late`: a cursor passes an item whose transaction commits later
  (api.py:56), against "稳定有序、无重无漏".

Seen while modelling, and part of the models without a run of their own:

* An interrupted write of the file store leaves a short file that later crawls
  take for the object (object_store.py:42; the two exceptions of
  `RefsAccounted`), against docs/L0-开发Plan-详尽版.html:346
  "原文可由 ref 取回且 sha256 校验通过". `get_content` does not compare what it
  reads with the hash, so such a part of a text is answered under the hash of
  the whole (api.py:72; the exception of `AnswerConsistent`). Nothing else
  leaves a part: that is what the two properties say.
* One enabled source whose `interval_min` is no number ends the scheduler at
  every start (scheduler.py:16, `Readable`) and makes the status page fail
  (dashboard.py:353), the place from which it could be stopped;
  dashboard.py:416 accepts any configuration.
* The status page may show fewer published events than there are, even less
  than none, and may end a walk before the last job (dashboard.py:250, 296, 402):
  what `PublishedNotOverstated` and `JobsShown` leave open.
* A tick with `--relay` marks events published that only a log has seen
  (scheduler_run.py:70, as docs/2026-09-12-continuation.md:63 says), and so
  does the soak, with a publisher that does nothing (soak.py:54): L1 never gets
  them. `printed` in `Relay`, `Delivery`, `Platform` and `Feed` is what they take.
* `ingest run --all` ends in a `KeyError` before its commit: cli.py:41 sums four
  of the seven counters that `crawl_source` returns (pipeline.py:30-33; action
  `KeyError`).
* `rebuild_canonical` writes the new hash to the session's row before it puts the
  text (canonical.py:208-217): if the put fails and its caller goes on to
  commit, the row has the hash of one text and the key of another. Nothing in the
  package calls it; `ObjectStore` models a put that succeeds before the row is written.
* `rebuild_canonical` changes an item's text with no version and no event
  (action `Rebuild`), against README.md:140 and README.md:7.
* A trend entry points a known article at a raw document without a page, from
  which it cannot be rebuilt (action `Resight`), against
  docs/L0-开发Plan-详尽版.html:408-410.
* A media download or an entry of a list source that fails ends the whole crawl
  (actions `EntryFails`, `BuildFromEntryFails`), as does any failed flush
  (`FlushFails`), against docs/L0-开发Plan-详尽版.html:360
  "单条失败不影响同批其他条目". With the rollback no trace of it remains.
* An import that loses the race for one feed loses all its feeds (action
  `Conflict` of `Sources`); docs/L0-开发Plan-详尽版.html:264 speaks of one
  import after another only.

## 6. The proofs

Everything below holds for all values of the constants under the modules' named
assumptions (finite bounds in `Nat`, `None`-values distinct from data, a
symmetric `Near`). No other fact is assumed.

* **IngestProofs**, about any number of crawlers. `TypeCorrect` adds to `TypeOK`
  what a crawler that saves an entry knows (`WorkOK`). `Announced` and
  `Complete` (also: one row of `content_versions` to a version) rest on `HistoryInv`: no two sessions have written
  one row (`LocksDisjoint`); committed items are fully recorded (`Committed`);
  what a session sees is fully recorded by committed and own rows together
  (`Pending`); an own row only follows the committed one (`PendingFollows`);
  and what was read is not ahead of what is visible (`SeenBehind`), so that the
  unique key of `content_versions` refuses a revision counted from a stale row.
  The properties themselves are not inductive: nothing in them speaks of rows
  that a commit is about to publish. `Lineages` adds `LineageInv`: no two
  sessions have inserted one raw document, and what is committed, visible to a
  session, or read by it leads back to documents it can see. These four are
  theorems of `RebuildSpec`: they also hold with rebuilds between the crawls.
  `Latest` and `NoSilentChange` add `Shows` (the event of a row's version has the
  row's text), `HistoriesTold` (refinement of `ContentHistory`) adds `ChainInv`:
  neighbouring versions, committed or visible to a session, differ, and what was
  read is not another text of the version it names. A rebuild breaks these by
  design (section 5), so they are theorems of `Spec`.
  With one crawler (`Alone`), rebuilds included, `OthersOnly`, `VariantsStay`
  and `NoneBornTwice` rest on `SoloInv`: what the session read of an item is what
  there is, a visible item only grows from the committed one, its variants are
  documents of other URLs, and what the session has stored is unlike every item
  it has not revised.
* **IngestProofs**, about `Platform`. `CrawlsUnchanged`: its crawls are those of
  `Ingest`, so that the theorems above hold of it. `RowsFilled` and `Fed` prove
  `RowsKept` and `FeedKept` from `PlatformInv`: ids are taken in order and a
  row that is there has its event (`IdsOK`); the rows are the events of the
  outbox and of the open transactions (`RowsOK`); of one item, ids and versions
  have the same order (`InOrder`), which is why a relay that goes by ids keeps
  the order of the versions; what is struck off was handed over or printed, and of
  the item of an event L1 has, every earlier committed version was handed over or
  struck off (`HandedOK`). `NoHoles` draws from the same invariant that of an
  item none of whose events was printed L1 has the first texts, without a hole:
  the order that L1 sees rests on nothing but runs that hand over. Two lemmas carry the proof: an event that is emitted is the latest of its
  item, because the session holds the item's row (`EmitsLatest`), and the
  versions in an open transaction come after all committed ones (`OpenLater`),
  so that a commit never publishes a version behind one that L1 has.
* **RelayProofs.** `Accounted`: `CopiesInv` ties the copies of an event to its
  marker: one fewer than allowed while there is no marker. `Implements`: from
  `DeliveryInv` (ids are taken in order, what is selected is committed, what is
  marked is queued or printed, and every earlier event of a queued one's item is
  queued, published or in the same batch) each step is a step of `Delivery` or a stutter.
* **SchedulerProofs.** `Stops`: a stopped source is either out of the list or
  has not been counted. `Spaced`: `SpacingInv` relates the committed age, the
  ages in sessions and the time since the scheduler's last crawl.
* **ObjectStoreProofs.** `TypeCorrect`, and `ObjectsAccounted`: every object a row or an open
  transaction refers to is there (`ObjectFirst`), and what is not whole is a file
  being written or one whose write was interrupted (`CutExcused`).
  `AnswersConsistent` adds `Referred`: what an item's row or a reader's copy of it
  names is among what committed rows refer to, as a session commits the row of an
  item together with the others, and no reference is ever taken back.
* **QueryProofs.** `TypeCorrect`, `WalksComplete`, `WalksNoneTwice`: a walk's
  returned items are those up to its cursor, and all it owes lie behind the
  cursor or were returned.

* **CrawlProofs.** `TypeCorrect` adds where the crawl is (`PlaceInv`).
  `EntriesEnd` and `ItemsRest` rest on `OutcomeInv`, which says of the session's
  own tables what the properties say of the committed ones, but for the entry at
  hand, whose rows so far are those of its place; `StatsMatch` on `StatsInv`,
  the same for counters. The steps are of three shapes: one row more, an item
  built from a row, the end of a job.
* **SourcesProofs.** `FeedsOnce`, `HealthFollows`, `ImportsComplete`:
  `SourcesInv` says of all rows, committed or not, that no two have one feed and
  that only a row whose session is about to write its health is without it; and
  of an import that the feeds it has been through are there for it.
* **StatusPageProofs.** `NeverOverstated`: the first count is never ahead of
  the table when the second is made. `ViewSettles`. `WalkShowsJobs`: the jobs
  owed are among the first known ones and, but for ties, older than all shown.

Only model-checked: the liveness properties `EventuallyPublished`,
`NoStarvation` and `SessionsEnd`, which the prover cannot treat. `FeedKept` is a
safety property as well: that a due version is handed over, or printed, in the end is
`EventuallyPublished`. All other properties of passing runs are theorems.

## 7. Not modelled

Figures of the status page that stand for themselves, the heartbeat file (shown
on it, used by nothing), the configuration and migrations, the drivers (smoke,
acceptance, preview; of the soak its fixture and summary),
the parsing of feeds and pages, the bits of simhash and the rules of
`normalize_url`, delays between requests, the identity map of a session.

A session's identity map refers to its objects weakly; that one may still be
held when another session has committed a change to its row is left out.
`_toggle_source` is one step: two toggles at once that read the same value lose
one, which no document excludes.

## 8. Plan

Done, in this order: `Ingest`, `Relay` with `Delivery`, `Scheduler`,
`ObjectStore`, `Query`, `Crawl`, `Sources`, `ContentHistory`, `StatusPage`,
`OutboxRows`, `Platform` with `Feed`, and proofs of all of them.

Left: `normalize_url` and simhash as operators, checked against a reference
definition over small inputs; the toggle as a read and a write; crawls,
`Relay` and `Platform` in one specification, so that their composition is a
theorem too; a run that shows the exceptions of `RefsAccounted` as a violation of
docs/L0-开发Plan-详尽版.html:346.
