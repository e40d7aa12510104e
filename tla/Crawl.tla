------------------------------- MODULE Crawl --------------------------------
(***************************************************************************)
(* The crawls of two sources, one after another (ingest/pipeline.py): the  *)
(* entries of one point to pages, those of the other are all there is of   *)
(* them.  The raw rows a crawl keeps as evidence of every entry, the page  *)
(* it fetches for it and every failure, the items the entries end in, the  *)
(* counters of the job, and the health of the sources.  A crawl, or those  *)
(* of both sources one after the other, is one transaction of its caller:  *)
(* it is committed as a whole or not at all.                               *)
(*                                                                         *)
(* Two except clauses divide the failures: what fails between the row of   *)
(* an entry and its item is kept as evidence and the crawl goes on, all    *)
(* else ends it.  So does a flush that fails, wherever it is: the session  *)
(* then refuses the evidence too.                                          *)
(***************************************************************************)
EXTENDS Naturals, Sequences, FiniteSets

CONSTANTS
    Urls,        \* what entries point to, one per url_hash
    MaxEntries,  \* the most entries a feed shows (crawl_config)
    MaxCrawls,   \* bound: the crawls that are committed
    None         \* no item

ASSUME CrawlAssumption == MaxEntries \in Nat /\ MaxCrawls \in Nat

VARIABLES
    db,      \* the committed tables
    own,     \* the tables as the session of the crawl sees them
    stats,   \* the counters
    phase,   \* where the crawl is
    mode,    \* its source: "page" if its adapter needs_page_fetch, or "list"
    entry,   \* the row of the entry it is at
    page     \* the row of the entry's page

vars == <<db, own, stats, phase, mode, entry, page>>

Modes == {"page", "list"}

Counters == {"entries", "raw", "content", "failed", "rejected", "media", "trend"}

Zero == [c \in Counters |-> 0]

(* A raw document: its job, its URL, how it was made, the row of the entry *)
(* it belongs to (itself, for an entry) and how many media it refers to.   *)
Raws == [job : Nat, url : Urls, method : {"entry", "page", "error"},
         entry : Nat, media : 0 .. 1]

(* An item: the raw document it was built from and those of its variants.  *)
Items == [raw : Nat, variants : SUBSET Nat]

ASSUME NoneAssumption == None \notin Items

Jobs == [status : {"running", "succeeded", "failed"}, mode : Modes,
         stats : [Counters -> Nat]]

Tables == [raws : Seq(Raws), items : [Urls -> Items \cup {None}], jobs : Seq(Jobs),
           health : [Modes -> {"unknown", "ok", "empty", "failed"}]]

Init ==
    /\ db = [raws |-> <<>>, items |-> [u \in Urls |-> None], jobs |-> <<>>,
             health |-> [m \in Modes |-> "unknown"]]
    /\ own = db
    /\ stats = Zero
    /\ phase = "idle"
    /\ mode = "page"
    /\ entry = 0
    /\ page = 0

-----------------------------------------------------------------------------
(* The tables of the session.                                              *)

Counted(S) == [c \in Counters |-> IF c \in S THEN stats[c] + 1 ELSE stats[c]]

Job == Len(own.jobs)

NewRow == Len(own.raws) + 1

Url == own.raws[entry].url

(* RawStore.append.                                                        *)
Appended(method, u, e, n) ==
    [own EXCEPT !.raws =
        Append(@, [job |-> Job, url |-> u, method |-> method, entry |-> e,
                   media |-> n])]

(* The end of the crawl: its job, with the counters, and the health.       *)
Ended(status, health, counters) ==
    LET job == [own.jobs[Job] EXCEPT !.status = status, !.stats = counters]
    IN  [own EXCEPT !.jobs = [@ EXCEPT ![Job] = job],
                    !.health = [@ EXCEPT ![mode] = health]]

(* Where the document of row d may end: it is or becomes the item of its   *)
(* URL, or a variant of another item.                                      *)
NewItem(d) ==
    IF own.items[Url] = None
    THEN {[own.items EXCEPT ![Url] = [raw |-> d, variants |-> {}]]}
    ELSE {}

Moved(d) ==
    IF own.items[Url] = None THEN {} ELSE {[own.items EXCEPT ![Url].raw = d]}

Linked(d) ==
    IF own.items[Url] # None THEN {}
    ELSE {[own.items EXCEPT ![u].variants = @ \cup {d}] :
            u \in {v \in Urls : own.items[v] # None}}

(* The page of a known URL may have changed or not.                        *)
OfPage(d) ==
    NewItem(d) \cup Moved(d) \cup Linked(d)
        \cup (IF own.items[Url] = None THEN {} ELSE {own.items})

(* An entry of a list always becomes the document of a known URL.          *)
OfEntry(d) == NewItem(d) \cup Moved(d) \cup Linked(d)

(* The item returned was built from the document.                          *)
BuiltFrom(items, d) == \E u \in Urls : items[u] # None /\ items[u].raw = d

-----------------------------------------------------------------------------
(* A crawl.                                                                *)

(* Crawls of this transaction.                                             *)
Uncommitted == Len(db.jobs) + 1 .. Len(own.jobs)

(* The crawl of a source: the first of its transaction, or the next of a   *)
(* caller that goes through all sources before it commits.                 *)
Begin(m) ==
    /\ phase \in {"idle", "returned"}
    /\ \A j \in Uncommitted : own.jobs[j].mode # m
    /\ Len(own.jobs) < MaxCrawls
    /\ own' = [own EXCEPT !.jobs =
            Append(@, [status |-> "running", mode |-> m, stats |-> Zero])]
    /\ stats' = Zero
    /\ mode' = m
    /\ phase' = "entries"
    /\ entry' = 0
    /\ page' = 0
    /\ UNCHANGED db

(* mark_failure and the failed job, with what was counted last: the crawl  *)
(* raises.                                                                 *)
Raise(S) ==
    /\ stats' = Counted(S)
    /\ own' = Ended("failed", "failed", Counted(S))
    /\ phase' = "raised"
    /\ UNCHANGED <<db, mode, entry, page>>

(* The feed cannot be had: all of it is fetched before the first entry ... *)
FeedFails ==
    /\ phase = "entries"
    /\ mode = "page"
    /\ stats["entries"] = 0
    /\ Raise({})

(* ... as is a list, which may also not be one, or need an authorisation.  *)
ListFails ==
    /\ phase = "entries"
    /\ mode = "list"
    /\ stats["entries"] = 0
    /\ Raise({})

(* fetch_entries shows another entry: the first MaxEntries of the feed.    *)
MoreEntries == stats["entries"] < MaxEntries

(* The next entry: its media are downloaded, its row is added ...          *)
TakeEntry(u, n) ==
    /\ phase = "entries"
    /\ MoreEntries
    /\ own' = Appended("entry", u, NewRow, n)
    /\ stats' = Counted({"entries", "raw"} \cup IF n = 1 THEN {"media"} ELSE {})
    /\ entry' = NewRow
    /\ page' = 0
    /\ phase' = "entry"
    /\ UNCHANGED <<db, mode>>

(* ... or one of its media cannot be had, or the row cannot be added.      *)
EntryFails ==
    /\ phase = "entries"
    /\ MoreEntries
    /\ \E S \in {{"entries"}, {"entries", "media"}} : Raise(S)

(* An entry of a list is classified by itself ...                          *)
BuildFromEntry ==
    /\ phase = "entry"
    /\ mode = "list"
    /\ \E items \in OfEntry(entry) :
        /\ own' = [own EXCEPT !.items = items]
        /\ stats' = IF BuiltFrom(items, entry)
                    THEN Counted({"content", "trend"}) ELSE stats
    /\ phase' = "entries"
    /\ UNCHANGED <<db, mode, entry, page>>

(* ... and what fails there ends the crawl.                                *)
BuildFromEntryFails ==
    /\ phase = "entry"
    /\ mode = "list"
    /\ Raise({})

(* The page of an entry is fetched and stored.                             *)
FetchPage ==
    /\ phase = "entry"
    /\ mode = "page"
    /\ own' = Appended("page", Url, entry, own.raws[entry].media)
    /\ stats' = Counted({"raw"})
    /\ page' = NewRow
    /\ phase' = "page"
    /\ UNCHANGED <<db, mode, entry>>

EvidenceUncounted(S) ==
    /\ own' = Appended("error", Url, entry, 0)
    /\ stats' = Counted({"failed"} \cup S)
    /\ phase' = "entries"
    /\ UNCHANGED <<db, mode, entry, page>>

(* A failure is kept as evidence, and the crawl goes on.                   *)
Evidence(S) ==
    /\ own' = Appended("error", Url, entry, 0)
    /\ stats' = Counted({"failed", "raw"} \cup S)
    /\ phase' = "entries"
    /\ UNCHANGED <<db, mode, entry, page>>

FetchSkipped ==
    /\ phase = "entry"
    /\ mode = "page"
    /\ phase' = "entries"
    /\ UNCHANGED <<db, own, stats, mode, entry, page>>

FetchFails ==
    /\ phase = "entry"
    /\ mode = "page"
    /\ Evidence({})

RejectLate ==
    /\ phase = "page"
    /\ \E items \in Linked(page) :
            own' = [Appended("error", Url, entry, 0) EXCEPT !.items = items]
    /\ stats' = Counted({"failed", "raw", "rejected"})
    /\ phase' = "entries"
    /\ UNCHANGED <<db, mode, entry, page>>

(* The text of the page is too short or too long.                          *)
Reject ==
    /\ phase = "page"
    /\ Evidence({"rejected"})

(* The text is classified ...                                              *)
Build ==
    /\ phase = "page"
    /\ \E items \in OfPage(page) :
        /\ own' = [own EXCEPT !.items = items]
        /\ stats' = IF BuiltFrom(items, page) THEN Counted({"content"}) ELSE stats
    /\ phase' = "entries"
    /\ UNCHANGED <<db, mode, entry, page>>

(* ... or cannot be stored.                                                *)
BuildFails ==
    /\ phase = "page"
    /\ Evidence({})

(* A flush fails: the session takes no evidence any more.                  *)
FlushFails ==
    /\ mode = "page"
    /\ \/ phase \in {"entry", "page"} /\ Raise({"failed"})
       \/ phase = "page" /\ Raise({"failed", "rejected"})

(* No entry is left ...                                                    *)
Succeed ==
    /\ phase = "entries"
    /\ own' = Ended("succeeded", IF stats["entries"] = 0 THEN "empty" ELSE "ok", stats)
    /\ phase' = "returned"
    /\ UNCHANGED <<db, stats, mode, entry, page>>

(* ... or the health cannot be written.                                    *)
SucceedFails ==
    /\ phase = "entries"
    /\ Raise({})

(* The caller commits what has returned ...                                *)
Commit ==
    /\ phase = "returned"
    /\ db' = own
    /\ phase' = "idle"
    /\ UNCHANGED <<own, stats, mode, entry, page>>

RollBackKeeping ==
    /\ phase # "idle"
    /\ phase' = "idle"
    /\ UNCHANGED <<db, own, stats, mode, entry, page>>

(* ... and rolls back what has raised; so does a commit that fails, and    *)
(* the death of the process.                                               *)
RollBack ==
    /\ phase # "idle"
    /\ own' = db
    /\ phase' = "idle"
    /\ UNCHANGED <<db, stats, mode, entry, page>>

Next ==
    \/ \E m \in Modes : Begin(m)
    \/ \E u \in Urls, n \in 0 .. 1 : TakeEntry(u, n)
    \/ FeedFails \/ ListFails \/ EntryFails \/ BuildFromEntry \/ BuildFromEntryFails
    \/ FetchPage \/ FetchFails \/ Reject \/ Build \/ BuildFails \/ FlushFails
    \/ Succeed \/ SucceedFails \/ Commit \/ RollBack

Spec == Init /\ [][Next]_vars
-----------------------------------------------------------------------------
(* Properties.                                                             *)

(* Types, and that a session without a crawl sees the committed tables     *)
(* (db/models.py:60-95, 117).                                              *)
TypeOK ==
    /\ db \in Tables
    /\ own \in Tables
    /\ stats \in [Counters -> Nat]
    /\ phase \in {"idle", "entries", "entry", "page", "returned", "raised"}
    /\ mode \in Modes
    /\ entry \in 0 .. Len(own.raws) \/ phase = "idle"
    /\ page \in 0 .. Len(own.raws) \/ phase = "idle"
    /\ phase = "idle" => own = db

Rows(j, method) ==
    {d \in DOMAIN db.raws : db.raws[d].job = j /\ db.raws[d].method = method}

(* The counters of a committed job are those of its rows: every entry and  *)
(* every failure has one, also when some of its entries failed or were     *)
(* rejected; each entry is counted once at most as content or as failure   *)
(* (pipeline.py:39-119).                                                   *)
StatsMatchRows ==
    \A j \in DOMAIN db.jobs :
        LET st == db.jobs[j].stats
        IN  /\ st["entries"] = Cardinality(Rows(j, "entry"))
            /\ st["failed"] = Cardinality(Rows(j, "error"))
            /\ st["raw"] = st["entries"] + st["failed"] + Cardinality(Rows(j, "page"))
            /\ st["media"] = Cardinality({d \in Rows(j, "entry") : db.raws[d].media = 1})
            /\ st["rejected"] <= st["failed"]
            /\ st["content"] + st["failed"] <= st["entries"]
            /\ st["content"] >= Cardinality({u \in Urls :
                  db.items[u] # None /\ db.raws[db.items[u].raw].job = j})

Failure(d) ==
    \E e \in DOMAIN db.raws : db.raws[e].method = "error" /\ db.raws[e].entry = d

Documents(u) ==
    IF db.items[u] = None THEN {}
    ELSE {db.items[u].raw} \cup db.items[u].variants

(* No committed entry is without an outcome: it has failed, and a row says *)
(* so, or its URL has an item, or its document is a variant of one         *)
(* (pipeline.py:56-119, canonical.py:88-133, 162-195).                     *)
EntriesAccounted ==
    \A d \in DOMAIN db.raws :
        db.raws[d].method = "entry" =>
            \/ Failure(d)
            \/ db.items[db.raws[d].url] # None
            \/ \E u \in Urls : \E e \in Documents(u) : db.raws[e].entry = d

(* What an item rests on never failed: its document is of its URL, of an   *)
(* entry without a failure and of a job that succeeded, a page or an entry *)
(* as the adapter of the job has it, and no other item's; so are those of  *)
(* its variants, but for the URL (pipeline.py:56-108, canonical.py:66-133).*)
ItemsRestOnSuccess ==
    \A u \in Urls :
        /\ db.items[u] # None => db.raws[db.items[u].raw].url = u
        /\ \A d \in Documents(u) :
            LET raw == db.raws[d]
            IN  /\ ~Failure(raw.entry)
                /\ db.jobs[raw.job].status = "succeeded"
                /\ raw.method = IF db.jobs[raw.job].mode = "page" THEN "page" ELSE "entry"
                /\ \A v \in Urls \ {u} : d \notin Documents(v)
=============================================================================
