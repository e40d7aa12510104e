------------------------------- MODULE Ingest -------------------------------
(***************************************************************************)
(* The canonical layer of the L0 data platform: crawl transactions that    *)
(* classify each entry of a source against the content items already       *)
(* stored and create, revise, re-sight or link an item, appending a        *)
(* version row and an outbox event in the same transaction                 *)
(* (ingest/canonical.py, ingest/dedup.py, ingest/raw_store.py,             *)
(* events/outbox.py, the tables of db/models.py).                          *)
(*                                                                         *)
(* Each crawler is one database session.  The database is PostgreSQL at    *)
(* READ COMMITTED: a statement sees the committed rows overlaid with the   *)
(* session's own writes, an UPDATE keeps the row locked until the          *)
(* transaction ends, and an INSERT with a taken unique key fails.  With    *)
(* one crawler the module is also the SQLite deployment, whose single      *)
(* writer is locked out from the job row's insert to the commit.           *)
(***************************************************************************)
EXTENDS Naturals, FiniteSets

CONSTANTS
    Crawlers,   \* sessions that run crawl_source concurrently
    Urls,       \* normalised URLs (one per url_hash)
    Texts,      \* normalised texts (one per content_hash)
    Near,       \* pairs of texts whose simhashes differ in at most 3 bits
    ItemIds,    \* primary keys of content_items
    RawIds,     \* primary keys of raw_documents
    NoRow       \* absence of a row, of an id, of a value read

(* What build_content_item (or build_content_item_from_entry) returns for  *)
(* a decision of classify: the representative of a DUPLICATE and of a      *)
(* VARIANT is treated the same way, so the two are one result here.        *)
Results == {"SAME_URL", "LIKE", "NEW"}

Raw == [url : Urls, text : Texts, html : BOOLEAN]

(* A row of content_items.  The simhash, the title and clean_text_ref      *)
(* change with the hash and are left out; variants stands for the raw      *)
(* documents listed in meta["variants"].                                   *)
Item == [url : Urls, hash : Texts, version : Nat \ {0},
         raw : RawIds, variants : SUBSET RawIds,
         status : {"WAIT_FILTER", "TREND"}]

Version == [item : ItemIds, version : Nat, hash : Texts, raw : RawIds]

Event == [item : ItemIds, version : Nat, hash : Texts]

(* Where a crawler is with its current entry: the raw document it          *)
(* appended, and what classify and session.get returned.                   *)
Work == [pc : {"fetch", "url", "text", "save"}, raw : RawIds \cup {NoRow},
         result : Results \cup {NoRow}, item : ItemIds \cup {NoRow},
         seen : Item \cup {NoRow}]

ASSUME NearAssumption ==
    /\ Near \subseteq Texts \X Texts
    /\ \A p \in Near : <<p[2], p[1]>> \in Near

ASSUME NoRowAssumption ==
    /\ NoRow \notin Raw \cup Item \cup ItemIds \cup RawIds \cup Results

VARIABLES
    items,      \* content_items, committed
    versions,   \* content_versions, committed
    outbox,     \* outbox_events, committed
    raws,       \* raw_documents, committed
    txItems,    \* per session: the content_items rows it has written
    txVersions, \* per session: the content_versions rows it has inserted
    txEvents,   \* per session: the outbox_events rows it has inserted
    txRaws,     \* per session: the raw_documents rows it has inserted
    work        \* per session: the entry it is working on

tables == <<items, versions, outbox, raws>>
txs == <<txItems, txVersions, txEvents, txRaws>>
vars == <<items, versions, outbox, raws,
          txItems, txVersions, txEvents, txRaws, work>>

Idle == [pc |-> "fetch", raw |-> NoRow, result |-> NoRow,
         item |-> NoRow, seen |-> NoRow]

Init ==
    /\ items = [i \in ItemIds |-> NoRow]
    /\ versions = {}
    /\ outbox = {}
    /\ raws = [r \in RawIds |-> NoRow]
    /\ txItems = [c \in Crawlers |-> [i \in ItemIds |-> NoRow]]
    /\ txVersions = [c \in Crawlers |-> {}]
    /\ txEvents = [c \in Crawlers |-> {}]
    /\ txRaws = [c \in Crawlers |-> [r \in RawIds |-> NoRow]]
    /\ work = [c \in Crawlers |-> Idle]

-----------------------------------------------------------------------------
(* The database as a session sees it.                                      *)

(* A committed row under the session's own write of it.                    *)
Row(c, i) == IF txItems[c][i] # NoRow THEN txItems[c][i] ELSE items[i]

Visible(c) == {i \in ItemIds : Row(c, i) # NoRow}

RawRow(c, r) == IF txRaws[c][r] # NoRow THEN txRaws[c][r] ELSE raws[r]

(* The raw document of the entry the session is working on.                *)
Entry(c) == RawRow(c, work[c].raw)

(* Faulty variants of some definitions stand before them: README.md says   *)
(* which property notices each.                                            *)

(* The row is not locked by another session's uncommitted UPDATE or INSERT.*)
Unlocked(c, i) == \A d \in Crawlers \ {c} : txItems[d][i] = NoRow

VersionNeverTaken(c, i, v) == FALSE

(* UNIQUE (content_id, version) of content_versions.                       *)
VersionTaken(c, i, v) ==
    \E x \in versions \cup txVersions[c] : x.item = i /\ x.version = v

(* UNIQUE url_hash of content_items: a committed row, or another session's *)
(* uncommitted one, on which the INSERT waits.                             *)
UrlTaken(u) == \E i \in ItemIds : items[i] # NoRow /\ items[i].url = u
UrlPending(c, u) ==
    \E d \in Crawlers \ {c}, i \in ItemIds :
        txItems[d][i] # NoRow /\ txItems[d][i].url = u

EmittedOncePerItem(c, i, v, h) ==
    IF \E e \in outbox \cup txEvents[c] : e.item = i
    THEN {}
    ELSE {[item |-> i, version |-> v, hash |-> h]}

(* emit: nothing is added when the idempotency key is already there.       *)
Emitted(c, i, v, h) ==
    IF \E e \in outbox \cup txEvents[c] : e.item = i /\ e.version = v
    THEN {}
    ELSE {[item |-> i, version |-> v, hash |-> h]}

LikeExactly(t, u) == t = u

(* The same content_hash, or simhashes within the threshold.               *)
Like(t, u) == t = u \/ <<t, u>> \in Near

-----------------------------------------------------------------------------
(* One entry: fetch and append the raw document, classify, save.           *)

(* RawStore.append of the document the item is built from: the page that   *)
(* was fetched (html), or the feed entry of a trend source.                *)
TakeEntry(c) ==
    /\ work[c].pc = "fetch"
    /\ \E r \in RawIds, u \in Urls, t \in Texts, page \in BOOLEAN :
        /\ raws[r] = NoRow
        /\ \A d \in Crawlers : txRaws[d][r] = NoRow
        /\ txRaws' = [txRaws EXCEPT
                ![c] = [@ EXCEPT ![r] = [url |-> u, text |-> t, html |-> page]]]
        /\ work' = [work EXCEPT ![c] = [Idle EXCEPT !.pc = "url", !.raw = r]]
    /\ UNCHANGED <<tables, txItems, txVersions, txEvents>>

(* An exception of a page before anything canonical is written (length     *)
(* limits, empty text, object store): caught per entry, the raw document   *)
(* stays in the transaction.                                               *)
Reject(c) ==
    /\ work[c].pc = "url"
    /\ Entry(c).html
    /\ work' = [work EXCEPT ![c] = Idle]
    /\ UNCHANGED <<tables, txs>>

Decide(c, result, i) ==
    work' = [work EXCEPT ![c] =
        [pc |-> "save", raw |-> work[c].raw, result |-> result, item |-> i,
         seen |-> IF i = NoRow THEN NoRow ELSE Row(c, i)]]

SameUrlCommitted(c) ==
    {i \in Visible(c) : items[i] # NoRow /\ items[i].url = Entry(c).url}

(* classify, first query: the item of the entry's URL.                     *)
SameUrl(c) == {i \in Visible(c) : Row(c, i).url = Entry(c).url}

(* The first query, and session.get of its hit.                            *)
ProbeUrl(c) ==
    /\ work[c].pc = "url"
    /\ \/ \E i \in SameUrl(c) : Decide(c, "SAME_URL", i)
       \/ /\ SameUrl(c) = {}
          /\ work' = [work EXCEPT ![c] = [@ EXCEPT !.pc = "text"]]
    /\ UNCHANGED <<tables, txs>>

(* classify, second and third queries: an item with the same text, else    *)
(* one with a near text (neither query is ordered), and session.get of it. *)
ProbeText(c) ==
    /\ work[c].pc = "text"
    /\ LET same == {i \in Visible(c) : Row(c, i).hash = Entry(c).text}
           near == {i \in Visible(c) : Like(Row(c, i).hash, Entry(c).text)}
       IN  \/ \E i \in same : Decide(c, "LIKE", i)
           \/ same = {} /\ \E i \in near : Decide(c, "LIKE", i)
           \/ near = {} /\ Decide(c, "NEW", NoRow)
    /\ UNCHANGED <<tables, txs>>

Saving(c, result) == work[c].pc = "save" /\ work[c].result = result

Done(c) == work' = [work EXCEPT ![c] = Idle]

ChangedAlways(c) == TRUE

(* The page has another text than the item that was read.                  *)
Changed(c) == work[c].seen.hash # Entry(c).text

(* Same URL, same text: nothing is written.                                *)
Unchanged(c) ==
    /\ Saving(c, "SAME_URL")
    /\ Entry(c).html
    /\ ~Changed(c)
    /\ Done(c)
    /\ UNCHANGED <<tables, txs>>

(* The flush of an entry: one item row written (and locked), version rows  *)
(* and events inserted with it.                                            *)
Flush(c, i, row, newVersions, newEvents) ==
    /\ txItems' = [txItems EXCEPT ![c] = [@ EXCEPT ![i] = row]]
    /\ txVersions' = [txVersions EXCEPT ![c] = @ \cup newVersions]
    /\ txEvents' = [txEvents EXCEPT ![c] = @ \cup newEvents]
    /\ Done(c)
    /\ UNCHANGED <<tables, txRaws>>

RevisedInPlace(c, i, v, h, r) == [Row(c, i) EXCEPT !.hash = h, !.raw = r]
RevisedKeepingHash(c, i, v, h, r) == [Row(c, i) EXCEPT !.version = v, !.raw = r]

(* The row of an item whose text changed.                                  *)
Revised(c, i, v, h, r) ==
    [Row(c, i) EXCEPT !.version = v, !.hash = h, !.raw = r]

(* Same URL, other text: the next version of the item, counted from the    *)
(* row that was read.  The UPDATE waits for the row's lock; the version    *)
(* row's unique key must be free.                                          *)
Revise(c) ==
    LET i == work[c].item
        v == work[c].seen.version + 1
        h == Entry(c).text
        r == work[c].raw
    IN  /\ Saving(c, "SAME_URL")
        /\ Entry(c).html
        /\ Changed(c)
        /\ Unlocked(c, i)
        /\ ~VersionTaken(c, i, v)
        /\ Flush(c, i, Revised(c, i, v, h, r),
                 {[item |-> i, version |-> v, hash |-> h, raw |-> r]},
                 Emitted(c, i, v, h))

(* A trend entry for a known URL: the item points at the new raw document; *)
(* meta is merged into the value read and written back when it differs.    *)
Resight(c) ==
    LET i == work[c].item
    IN  /\ Saving(c, "SAME_URL")
        /\ ~Entry(c).html
        /\ Unlocked(c, i)
        /\ \E meta \in {work[c].seen.variants, Row(c, i).variants} :
              Flush(c, i, [Row(c, i) EXCEPT !.raw = work[c].raw,
                                            !.variants = meta], {}, {})

LinkedAlone(c, i, m) == [Row(c, i) EXCEPT !.variants = {work[c].raw}]
LinkedAndMoved(c, i, m) ==
    [Row(c, i) EXCEPT !.variants = m, !.raw = work[c].raw]

(* The row of a representative with its variants.                          *)
Linked(c, i, m) == [Row(c, i) EXCEPT !.variants = m]

(* Another URL with the same or a near text: the representative's meta is  *)
(* rewritten as a whole from the value read, with one variant more.        *)
Link(c) ==
    LET i == work[c].item
        m == work[c].seen.variants \cup {work[c].raw}
    IN  /\ Saving(c, "LIKE")
        /\ Unlocked(c, i)
        /\ Flush(c, i, Linked(c, i, m), {}, {})

InitialVersionZero == 0

(* The default of current_version.                                         *)
InitialVersion == 1

(* No match: a new item at version 1.  Only a page gets a version row.     *)
Create(c) ==
    LET e == Entry(c)
        r == work[c].raw
        first(i) == [item |-> i, version |-> 1, hash |-> e.text, raw |-> r]
    IN  /\ Saving(c, "NEW")
        /\ ~UrlTaken(e.url)
        /\ ~UrlPending(c, e.url)
        /\ \E i \in ItemIds :
            /\ items[i] = NoRow
            /\ \A d \in Crawlers : txItems[d][i] = NoRow
            /\ Flush(c, i,
                     [url |-> e.url, hash |-> e.text,
                      version |-> InitialVersion, raw |-> r, variants |-> {},
                      status |-> IF e.html THEN "WAIT_FILTER" ELSE "TREND"],
                     IF e.html THEN {first(i)} ELSE {},
                     Emitted(c, i, InitialVersion, e.text))

-----------------------------------------------------------------------------
(* The end of a transaction.                                               *)

(* The transaction has begun: it holds at least a raw document.            *)
Open(c) == \E r \in RawIds : txRaws[c][r] # NoRow

Discard(c) ==
    /\ txItems' = [txItems EXCEPT ![c] = [i \in ItemIds |-> NoRow]]
    /\ txVersions' = [txVersions EXCEPT ![c] = {}]
    /\ txEvents' = [txEvents EXCEPT ![c] = {}]
    /\ txRaws' = [txRaws EXCEPT ![c] = [r \in RawIds |-> NoRow]]
    /\ work' = [work EXCEPT ![c] = Idle]

(* The caller rolls back after a crash, an exception of the adapter or of  *)
(* a trend entry, or a deadlock the database resolves; and after a flush   *)
(* that met a unique key another session has committed since this one      *)
(* classified its entry, which Revise and Create do not pass: the session  *)
(* cannot be used before a rollback, so recording the failed entry raises  *)
(* too and the whole crawl is lost.                                        *)
Abort(c) ==
    /\ Open(c)
    /\ Discard(c)
    /\ UNCHANGED tables

(* The caller of crawl_source commits after the last entry.                *)
Commit(c) ==
    /\ work[c].pc = "fetch"
    /\ Open(c)
    /\ items' = [i \in ItemIds |-> Row(c, i)]
    /\ versions' = versions \cup txVersions[c]
    /\ outbox' = outbox \cup txEvents[c]
    /\ raws' = [r \in RawIds |-> RawRow(c, r)]
    /\ Discard(c)

RebuiltAsNext(i, t) == [items[i] EXCEPT !.hash = t, !.version = @ + 1]

(* The row of an item whose text is extracted again.                       *)
Rebuilt(i, t) == [items[i] EXCEPT !.hash = t]

(* rebuild_canonical and the commit of its caller, run between crawls      *)
(* (under SQLite it waits for the crawl to end): the text extracted again  *)
(* from the item's raw page, which other extraction rules may read another *)
(* way.  No version row, no event.                                         *)
Rebuild(i) ==
    /\ items[i] # NoRow
    /\ raws[items[i].raw].html
    /\ \A c \in Crawlers : ~Open(c)
    /\ \E t \in Texts : items' = [items EXCEPT ![i] = Rebuilt(i, t)]
    /\ UNCHANGED <<versions, outbox, raws, txs, work>>

Next ==
    \E c \in Crawlers :
        \/ TakeEntry(c) \/ Reject(c) \/ ProbeUrl(c) \/ ProbeText(c)
        \/ Unchanged(c) \/ Revise(c) \/ Resight(c) \/ Link(c) \/ Create(c)
        \/ Abort(c) \/ Commit(c)

Spec == Init /\ [][Next]_vars

(* The same with an operator who runs rebuild_canonical between crawls.    *)
RebuildNext == Next \/ \E i \in ItemIds : Rebuild(i)

RebuildSpec == Init /\ [][RebuildNext]_vars
-----------------------------------------------------------------------------
(* Properties.                                                             *)

Items == {i \in ItemIds : items[i] # NoRow}

(* Types of the tables, of the sessions' own rows and of their entries     *)
(* (db/models.py).                                                         *)
TypeOK ==
    /\ items \in [ItemIds -> Item \cup {NoRow}]
    /\ versions \subseteq Version
    /\ outbox \subseteq Event
    /\ raws \in [RawIds -> Raw \cup {NoRow}]
    /\ txItems \in [Crawlers -> [ItemIds -> Item \cup {NoRow}]]
    /\ txVersions \in [Crawlers -> SUBSET Version]
    /\ txEvents \in [Crawlers -> SUBSET Event]
    /\ txRaws \in [Crawlers -> [RawIds -> Raw \cup {NoRow}]]
    /\ work \in [Crawlers -> Work]

(* Every version an item has gone through has been announced to L1, and    *)
(* to a consumer that has seen the events nothing is ever missing: the     *)
(* event is in the outbox as soon as the version is visible, whatever      *)
(* sessions race for the item or roll back (canonical.py:65-85, 119-132,   *)
(* outbox.py:15-24).                                                       *)
EveryVersionAnnounced ==
    \A i \in Items : \A v \in 1 .. items[i].version :
        \E e \in outbox : e.item = i /\ e.version = v

(* Of a page every version, and of a trend entry every version from the    *)
(* second, has its row, and one only; the row and the event of a version   *)
(* carry the same hash; nothing is recorded of a version the item has not  *)
(* reached (canonical.py:66-84, 119-132, 191-194).                         *)
FirstRow(row) == IF row.status = "TREND" THEN 2 ELSE 1

HistoryComplete ==
    /\ \A i \in Items : \A v \in FirstRow(items[i]) .. items[i].version :
          \E x \in versions : x.item = i /\ x.version = v
    /\ \A x, y \in versions :
          x.item = y.item /\ x.version = y.version => x = y
    /\ \A x \in versions, e \in outbox :
          x.item = e.item /\ x.version = e.version => x.hash = e.hash
    /\ \A x \in versions \cup outbox :
          items[x.item] # NoRow /\ x.version \in 1 .. items[x.item].version

(* The item shows the text of its latest version: the hash L1 was told     *)
(* with the current version is the hash of the row (canonical.py:65-84).   *)
CurrentIsLatest ==
    \A i \in Items, e \in outbox :
        e.item = i /\ e.version = items[i].version => e.hash = items[i].hash

(* An item, its versions and its variants lead back to committed raw       *)
(* documents: of the item's own URL for the item and its versions, and for *)
(* a version to the page whose text it is (canonical.py:71, 77-79, 156).   *)
LineageSound ==
    /\ \A i \in Items :
          /\ raws[items[i].raw] # NoRow
          /\ raws[items[i].raw].url = items[i].url
          /\ \A r \in items[i].variants : raws[r] # NoRow
    /\ \A x \in versions :
          /\ raws[x.raw] # NoRow /\ raws[x.raw].html
          /\ raws[x.raw].text = x.hash
          /\ raws[x.raw].url = items[x.item].url

(* An item's text only changes together with its version number, which     *)
(* never goes back, so that no change of text goes unannounced             *)
(* (canonical.py:65-85; README.md:7 and 140).                              *)
HashChangeBumpsVersion ==
    [][\A i \in Items : items'[i] # NoRow
          /\ items'[i].version >= items[i].version
          /\ (items'[i].hash # items[i].hash =>
                    items'[i].version > items[i].version)]_vars

(* The history of an item, as L1 is told of it.                            *)
TextOf(i, v) ==
    CHOOSE h \in Texts :
        \E e \in outbox : e.item = i /\ e.version = v /\ e.hash = h

Told ==
    [i \in ItemIds |->
        [v \in 1 .. (IF items[i] = NoRow THEN 0 ELSE items[i].version) |->
            TextOf(i, v)]]

Text == [i \in ItemIds |-> IF items[i] = NoRow THEN NoRow ELSE items[i].hash]

History == INSTANCE ContentHistory
    WITH Contents <- ItemIds, NoText <- NoRow, told <- Told, text <- Text

(* The canonical layer implements ContentHistory: each commit tells L1 of  *)
(* the texts it makes visible and of no other, rewrites nothing that was   *)
(* told, and makes no version of a text that has not changed, also when    *)
(* two crawls read an item before either revises it                        *)
(* (canonical.py:61-86, 104-133; outbox.py:15-24).                         *)
HistoryKept == History!Spec

(* A document linked to its representative stays linked: later variants,   *)
(* revisions and trend entries keep the list (canonical.py:95-101, 155,    *)
(* 168-174).                                                               *)
VariantsNeverLost ==
    [][\A i \in Items : items[i].variants \subseteq items'[i].variants]_vars

(* A new item resembles none that existed when it was stored: what has the *)
(* text, or nearly the text, of an item becomes its variant                *)
(* (dedup.py:86-98, canonical.py:88-104).                                  *)
NoDuplicateBirth ==
    [][\A i \in ItemIds, j \in Items :
          items[i] = NoRow /\ items'[i] # NoRow /\ items'[i].version = 1
            /\ items'[j] = items[j]
                => items'[i].hash # items[j].hash
                   /\ <<items'[i].hash, items[j].hash>> \notin Near]_vars

(* A variant is another document: the URL of an item never appears among   *)
(* its own variants (dedup.py:82-98: the URL is looked up first).          *)
VariantsAreOthers ==
    \A i \in Items : \A r \in items[i].variants :
        raws[r].url # items[i].url
=============================================================================
