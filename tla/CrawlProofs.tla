----------------------------- MODULE CrawlProofs ------------------------------
(* Proofs about Crawl, for any URLs, entries per feed and crawls.          *)
EXTENDS Crawl, FiniteSetTheorems, TLAPS

USE CrawlAssumption, NoneAssumption

-----------------------------------------------------------------------------
(* Types.                                                                  *)

(* A crawl has a job; while it is at an entry, the entry has a row, and    *)
(* its page has one once it is fetched.                                    *)
PlaceInv ==
    /\ phase # "idle" => Job \in DOMAIN own.jobs
    /\ phase \in {"entry", "page"} => entry \in DOMAIN own.raws
    /\ phase = "page" => page \in DOMAIN own.raws

TypeInv == TypeOK /\ PlaceInv

(* The tables, one by one.                                                 *)
LEMMA TablesType ==
    ASSUME NEW t \in Tables
    PROVE  /\ t.raws \in Seq(Raws) /\ t.jobs \in Seq(Jobs)
           /\ t.items \in [Urls -> Items \cup {None}]
           /\ t.health \in [Modes -> {"unknown", "ok", "empty", "failed"}]
           /\ Len(t.raws) \in Nat /\ DOMAIN t.raws = 1 .. Len(t.raws)
           /\ Len(t.jobs) \in Nat /\ DOMAIN t.jobs = 1 .. Len(t.jobs)
           /\ \A d \in DOMAIN t.raws : t.raws[d] \in Raws
           /\ \A j \in DOMAIN t.jobs : t.jobs[j] \in Jobs
BY DEF Tables

(* A row added to the tables.                                              *)
LEMMA AppendedType ==
    ASSUME own \in Tables, NEW method \in {"entry", "page", "error"}, NEW u \in Urls,
           NEW e \in Nat, NEW n \in 0 .. 1
    PROVE  /\ Appended(method, u, e, n) \in Tables
           /\ Appended(method, u, e, n).raws = Append(own.raws,
                [job |-> Job, url |-> u, method |-> method, entry |-> e, media |-> n])
           /\ Appended(method, u, e, n).items = own.items
           /\ Appended(method, u, e, n).jobs = own.jobs
           /\ Len(Appended(method, u, e, n).raws) = Len(own.raws) + 1
<1> DEFINE r == [job |-> Job, url |-> u, method |-> method, entry |-> e, media |-> n]
<1>1. r \in Raws
      BY TablesType DEF Raws, Job
<1>2. Append(own.raws, r) \in Seq(Raws) /\ Len(Append(own.raws, r)) = Len(own.raws) + 1
      BY <1>1, TablesType
<1>3. Appended(method, u, e, n) = [own EXCEPT !.raws = Append(own.raws, r)]
      BY DEF Appended
<1>4. QED
      BY <1>2, <1>3 DEF Tables

(* Tables with other items.                                                *)
LEMMA ItemsType ==
    ASSUME NEW t \in Tables, NEW items \in [Urls -> Items \cup {None}]
    PROVE  /\ [t EXCEPT !.items = items] \in Tables
           /\ [t EXCEPT !.items = items].items = items
           /\ [t EXCEPT !.items = items].raws = t.raws
           /\ [t EXCEPT !.items = items].jobs = t.jobs
BY DEF Tables

(* The job of the crawl ends.                                              *)
LEMMA EndedType ==
    ASSUME own \in Tables, Job \in DOMAIN own.jobs, mode \in Modes,
           NEW status \in {"running", "succeeded", "failed"},
           NEW health \in {"unknown", "ok", "empty", "failed"},
           NEW counters \in [Counters -> Nat]
    PROVE  /\ Ended(status, health, counters) \in Tables
           /\ Ended(status, health, counters).raws = own.raws
           /\ Ended(status, health, counters).items = own.items
           /\ Len(Ended(status, health, counters).jobs) = Len(own.jobs)
           /\ \A j \in DOMAIN own.jobs \ {Job} :
                    Ended(status, health, counters).jobs[j] = own.jobs[j]
           /\ Ended(status, health, counters).jobs[Job].status = status
           /\ Ended(status, health, counters).jobs[Job].mode = own.jobs[Job].mode
           /\ Ended(status, health, counters).jobs[Job].stats = counters
<1> DEFINE job == [own.jobs[Job] EXCEPT !.status = status, !.stats = counters]
           jobs == [own.jobs EXCEPT ![Job] = job]
           healths == [own.health EXCEPT ![mode] = health]
           t == [own EXCEPT !.jobs = jobs, !.health = healths]
<1>1. own.jobs[Job] \in Jobs
      BY TablesType
<1>2. /\ job \in Jobs /\ job.status = status /\ job.mode = own.jobs[Job].mode
      /\ job.stats = counters
      BY <1>1 DEF Jobs
<1>3. /\ jobs \in Seq(Jobs) /\ Len(jobs) = Len(own.jobs) /\ jobs[Job] = job
      /\ \A j \in DOMAIN own.jobs \ {Job} : jobs[j] = own.jobs[j]
      BY <1>2, TablesType
<1>4. healths \in [Modes -> {"unknown", "ok", "empty", "failed"}]
      BY TablesType
<1>5. /\ t \in Tables /\ t.raws = own.raws /\ t.items = own.items /\ t.jobs = jobs
      BY <1>3, <1>4 DEF Tables
<1>6. Ended(status, health, counters) = t
      BY DEF Ended
<1>7. QED
      BY <1>2, <1>3, <1>5, <1>6

(* Where a document ends: it is the item of its URL, or a variant of       *)
(* another item, or nothing happens to the item its URL has.               *)
Shape(items, d) ==
    \/ /\ items[Url] # None /\ items[Url].raw = d
       /\ items[Url].variants =
            IF own.items[Url] = None THEN {} ELSE own.items[Url].variants
       /\ \A u \in Urls \ {Url} : items[u] = own.items[u]
    \/ /\ own.items[Url] = None
       /\ \E v \in Urls :
            /\ own.items[v] # None /\ items[v] # None
            /\ items[v].raw = own.items[v].raw
            /\ items[v].variants = own.items[v].variants \cup {d}
            /\ \A u \in Urls \ {v} : items[u] = own.items[u]
    \/ own.items[Url] # None /\ items = own.items

LEMMA Placed ==
    ASSUME own \in Tables, Url \in Urls, NEW d \in Nat,
           NEW items, items \in OfPage(d) \cup OfEntry(d)
    PROVE  items \in [Urls -> Items \cup {None}] /\ Shape(items, d)
<1>1. own.items \in [Urls -> Items \cup {None}]
      BY TablesType
<1>2. CASE items \in NewItem(d)
  <2>1. /\ own.items[Url] = None
        /\ items = [own.items EXCEPT ![Url] = [raw |-> d, variants |-> {}]]
        BY <1>2 DEF NewItem
  <2>2. [raw |-> d, variants |-> {}] \in Items
        BY DEF Items
  <2>3. QED
        BY <1>1, <2>1, <2>2 DEF Shape
<1>3. CASE items \in Moved(d)
  <2>1. own.items[Url] # None /\ items = [own.items EXCEPT ![Url].raw = d]
        BY <1>3 DEF Moved
  <2>2. own.items[Url] \in Items
        BY <1>1, <2>1
  <2>3. /\ items[Url] \in Items /\ items[Url].raw = d
        /\ items[Url].variants = own.items[Url].variants
        BY <1>1, <2>1, <2>2 DEF Items
  <2>4. items \in [Urls -> Items \cup {None}] /\ items[Url] # None
        /\ \A u \in Urls \ {Url} : items[u] = own.items[u]
        BY <1>1, <2>1, <2>3
  <2>5. QED
        BY <2>1, <2>3, <2>4 DEF Shape
<1>4. CASE items \in Linked(d)
  <2>1. PICK v \in Urls :
            /\ own.items[Url] = None /\ own.items[v] # None
            /\ items = [own.items EXCEPT ![v].variants = @ \cup {d}]
        BY <1>4 DEF Linked
  <2>2. own.items[v] \in Items
        BY <1>1, <2>1
  <2>3. /\ items[v] \in Items /\ items[v].raw = own.items[v].raw
        /\ items[v].variants = own.items[v].variants \cup {d}
        BY <1>1, <2>1, <2>2 DEF Items
  <2>4. items \in [Urls -> Items \cup {None}] /\ items[v] # None
        /\ \A u \in Urls \ {v} : items[u] = own.items[u]
        BY <1>1, <2>1, <2>3
  <2>5. QED
        BY <2>1, <2>3, <2>4 DEF Shape
<1>5. CASE own.items[Url] # None /\ items = own.items
      BY <1>1, <1>5 DEF Shape
<1>6. QED
      BY <1>2, <1>3, <1>4, <1>5 DEF OfPage, OfEntry

(* The counters are counters.                                              *)
LEMMA CountedType ==
    ASSUME stats \in [Counters -> Nat], NEW S
    PROVE  /\ Counted(S) \in [Counters -> Nat]
           /\ \A c \in Counters : Counted(S)[c] = IF c \in S THEN stats[c] + 1 ELSE stats[c]
BY DEF Counted

(* The row of the entry, and its URL.                                      *)
LEMMA EntryType ==
    ASSUME TypeInv, phase \in {"entry", "page"}
    PROVE  /\ entry \in DOMAIN own.raws /\ own.raws[entry] \in Raws /\ Url \in Urls
           /\ entry \in Nat /\ own.raws[entry].media \in 0 .. 1
BY TablesType DEF TypeInv, TypeOK, PlaceInv, Url, Raws

(* Nothing is stored.                                                      *)
LEMMA TypeInit == Init => TypeInv
<1> SUFFICES ASSUME Init PROVE TypeInv
    OBVIOUS
<1>1. db \in Tables /\ stats \in [Counters -> Nat]
      BY DEF Init, Tables, Zero, Modes
<1>2. QED
      BY <1>1 DEF Init, TypeInv, TypeOK, PlaceInv, Modes

(* A crawl that raises leaves its tables typed; they are rolled back.      *)
LEMMA RaiseType ==
    ASSUME TypeInv, NEW S, Raise(S), phase # "idle" PROVE TypeInv'
<1>1. /\ own \in Tables /\ Job \in DOMAIN own.jobs /\ mode \in Modes
      /\ Counted(S) \in [Counters -> Nat]
      BY CountedType DEF TypeInv, TypeOK, PlaceInv
<1>2. /\ own' \in Tables /\ own'.raws = own.raws /\ Len(own'.jobs) = Len(own.jobs)
      BY <1>1, EndedType DEF Raise
<1>3. DOMAIN own'.jobs = DOMAIN own.jobs
      BY <1>1, <1>2, TablesType
<1>4. QED
      BY <1>1, <1>2, <1>3, TablesType DEF Raise, TypeInv, TypeOK, PlaceInv, Job

(* A row is added while a crawl goes on.                                   *)
LEMMA AppendType ==
    ASSUME TypeInv, phase # "idle", NEW method \in {"entry", "page", "error"},
           NEW u \in Urls, NEW e \in Nat, NEW n \in 0 .. 1, NEW S,
           own' = Appended(method, u, e, n), stats' = Counted(S),
           phase' \in {"entries", "entry", "page"}, db' = db, mode' = mode,
           entry' = entry \/ entry' = NewRow, page' = page \/ page' = 0 \/ page' = NewRow,
           phase' = "entry" => entry' = NewRow,
           phase' = "page" => page' = NewRow /\ entry' = entry /\ phase = "entry"
    PROVE  TypeInv'
<1>1. own \in Tables /\ Job \in DOMAIN own.jobs /\ stats \in [Counters -> Nat]
      BY DEF TypeInv, TypeOK, PlaceInv
<1>2. /\ own' \in Tables /\ own'.jobs = own.jobs /\ Len(own'.raws) = Len(own.raws) + 1
      BY <1>1, AppendedType
<1>3. /\ entry \in 0 .. Len(own.raws) /\ page \in 0 .. Len(own.raws)
      /\ Len(own.raws) \in Nat /\ DOMAIN own'.raws = 1 .. Len(own.raws) + 1
      /\ DOMAIN own.raws = 1 .. Len(own.raws)
      BY <1>1, <1>2, TablesType DEF TypeInv, TypeOK
<1>4. TypeOK'
      BY <1>2, <1>3, CountedType DEF TypeInv, TypeOK, NewRow
<1>5. PlaceInv'
      BY <1>1, <1>2, <1>3 DEF TypeInv, PlaceInv, NewRow, Job
<1>6. QED
      BY <1>4, <1>5 DEF TypeInv

-----------------------------------------------------------------------------
(* The steps, by what they do to the tables.                               *)

Raising == phase # "idle" /\ \E S : Raise(S)

Reporting == phase \in {"entry", "page"} /\ \E S \in {{}, {"rejected"}} : Evidence(S)

Taking == \E u \in Urls, n \in 0 .. 1 : TakeEntry(u, n)

Building ==
    /\ phase \in {"entry", "page"}
    /\ \E d \in {entry, page} : \E items \in OfPage(d) \cup OfEntry(d) :
        /\ phase = "entry" => mode = "list" /\ d = entry
        /\ phase = "page" => d = page
        /\ own' = [own EXCEPT !.items = items]
        /\ \E S \in {{"content"}, {"content", "trend"}} :
                stats' = IF BuiltFrom(items, d) THEN Counted(S) ELSE stats
    /\ phase' = "entries"
    /\ UNCHANGED <<db, mode, entry, page>>

(* There are no other steps.                                               *)
LEMMA Steps ==
    ASSUME [Next]_vars
    PROVE  \/ \E m \in Modes : Begin(m)
           \/ Raising \/ Reporting \/ Taking \/ FetchPage \/ Building
           \/ Succeed \/ Commit \/ RollBack \/ UNCHANGED vars
<1>1. ASSUME FeedFails \/ ListFails \/ EntryFails \/ BuildFromEntryFails \/ FlushFails
             \/ SucceedFails
      PROVE  Raising
      BY <1>1 DEF FeedFails, ListFails, EntryFails, BuildFromEntryFails, FlushFails,
         SucceedFails, Raising
<1>2. ASSUME FetchFails \/ Reject \/ BuildFails PROVE Reporting
      BY <1>2 DEF FetchFails, Reject, BuildFails, Reporting
<1>3. ASSUME Build PROVE Building
      BY <1>3 DEF Build, Building
<1>4. ASSUME BuildFromEntry PROVE Building
      BY <1>4 DEF BuildFromEntry, Building
<1>5. QED
      BY <1>1, <1>2, <1>3, <1>4 DEF Next, Taking

(* The types are kept.                                                     *)
LEMMA TypeStep == TypeInv /\ [Next]_vars => TypeInv'
<1> SUFFICES ASSUME TypeInv, [Next]_vars PROVE TypeInv'
    OBVIOUS
<1>0. /\ own \in Tables /\ db \in Tables /\ stats \in [Counters -> Nat] /\ mode \in Modes
      /\ phase # "idle" => Job \in DOMAIN own.jobs
      /\ Len(own.raws) \in Nat
      BY TablesType DEF TypeInv, TypeOK, PlaceInv
<1>1. ASSUME NEW m \in Modes, Begin(m) PROVE TypeInv'
  <2> DEFINE row == [status |-> "running", mode |-> m, stats |-> Zero]
             jobs == Append(own.jobs, row)
  <2>1. row \in Jobs /\ Zero \in [Counters -> Nat]
        BY DEF Jobs, Zero
  <2>2. /\ jobs \in Seq(Jobs) /\ Len(jobs) = Len(own.jobs) + 1
        /\ Len(own.jobs) \in Nat
        BY <1>0, <2>1, TablesType
  <2>3. own' = [own EXCEPT !.jobs = jobs]
        BY <1>1 DEF Begin
  <2>4. own' \in Tables /\ own'.jobs = jobs
        BY <1>0, <2>2, <2>3 DEF Tables
  <2>5. /\ Len(own'.raws) \in Nat /\ DOMAIN own'.jobs = 1 .. Len(own'.jobs)
        BY <2>4, TablesType
  <2>6. TypeOK'
        BY <1>0, <1>1, <2>1, <2>4, <2>5 DEF Begin, TypeOK
  <2>7. PlaceInv'
        BY <1>1, <2>2, <2>4, <2>5 DEF Begin, PlaceInv, Job
  <2>8. QED
        BY <2>6, <2>7 DEF TypeInv
<1>2. CASE Raising
      BY <1>2, RaiseType DEF Raising
<1>3. CASE Reporting
      BY <1>3, EntryType, AppendType DEF Reporting, Evidence
<1>4. CASE Taking
  <2>1. PICK u \in Urls, n \in 0 .. 1 : TakeEntry(u, n)
        BY <1>4 DEF Taking
  <2>2. NewRow \in Nat
        BY <1>0 DEF NewRow
  <2>3. QED
        BY <2>1, <2>2, AppendType DEF TakeEntry
<1>5. CASE FetchPage
      BY <1>5, EntryType, AppendType DEF FetchPage
<1>6. CASE Building
  <2>1. PICK d \in {entry, page} : \E items \in OfPage(d) \cup OfEntry(d) :
            /\ own' = [own EXCEPT !.items = items]
            /\ \E S \in {{"content"}, {"content", "trend"}} :
                stats' = IF BuiltFrom(items, d) THEN Counted(S) ELSE stats
        BY <1>6 DEF Building
  <2>2. PICK items \in OfPage(d) \cup OfEntry(d) :
            /\ own' = [own EXCEPT !.items = items]
            /\ \E S \in {{"content"}, {"content", "trend"}} :
                stats' = IF BuiltFrom(items, d) THEN Counted(S) ELSE stats
        BY <2>1
  <2>3. phase \in {"entry", "page"} /\ d \in Nat /\ Url \in Urls
        BY <1>0, <1>6, EntryType DEF Building, TypeInv, TypeOK
  <2>4. own' \in Tables /\ own'.raws = own.raws /\ own'.jobs = own.jobs
        BY <1>0, <2>2, <2>3, Placed, ItemsType
  <2>5. stats' \in [Counters -> Nat]
        BY <1>0, <2>2, CountedType
  <2>6. phase' = "entries" /\ UNCHANGED <<db, mode, entry, page>>
        BY <1>6 DEF Building
  <2>7. QED
        BY <1>0, <2>3, <2>4, <2>5, <2>6 DEF TypeInv, TypeOK, PlaceInv, Job
<1>7. CASE Succeed
  <2>1. /\ own' \in Tables /\ own'.raws = own.raws /\ Len(own'.jobs) = Len(own.jobs)
        BY <1>0, <1>7, EndedType DEF Succeed
  <2>2. DOMAIN own'.jobs = DOMAIN own.jobs
        BY <1>0, <2>1, TablesType
  <2>3. QED
        BY <1>0, <1>7, <2>1, <2>2 DEF Succeed, TypeInv, TypeOK, PlaceInv, Job
<1>8. CASE Commit \/ RollBack
      BY <1>0, <1>8 DEF Commit, RollBack, TypeInv, TypeOK, PlaceInv, Job
<1>9. CASE UNCHANGED vars
      BY <1>9 DEF vars, TypeInv, TypeOK, PlaceInv, Job
<1>10. QED
      BY <1>1, <1>2, <1>3, <1>4, <1>5, <1>6, <1>7, <1>8, <1>9, Steps

(* The types are kept, and between crawls the session sees what is         *)
(* committed (db/models.py:60-95, 117).                                    *)
THEOREM TypeCorrect == Spec => []TypeOK
<1>1. TypeInv => TypeOK
      BY DEF TypeInv
<1>2. QED
      BY <1>1, TypeInit, TypeStep, PTL DEF Spec

-----------------------------------------------------------------------------
(* What becomes of the entries, in the tables t.                           *)

FailedIn(t, d) ==
    \E e \in DOMAIN t.raws : t.raws[e].method = "error" /\ t.raws[e].entry = d

DocsIn(t, u) ==
    IF t.items[u] = None THEN {} ELSE {t.items[u].raw} \cup t.items[u].variants

(* Rows refer to rows.                                                     *)
RefsInv(t) ==
    /\ \A d \in DOMAIN t.raws :
          t.raws[d].job \in DOMAIN t.jobs /\ t.raws[d].entry \in DOMAIN t.raws
    /\ \A u \in Urls : DocsIn(t, u) \subseteq DOMAIN t.raws

(* ItemsRestOnSuccess, of a document of the item of u, while jobs are      *)
(* running.                                                                *)
Rests(t, u, d, running) ==
    /\ ~FailedIn(t, t.raws[d].entry)
    /\ t.jobs[t.raws[d].job].status = "succeeded" \/ t.raws[d].job \in running
    /\ t.raws[d].method = IF t.jobs[t.raws[d].job].mode = "page" THEN "page" ELSE "entry"
    /\ \A v \in Urls \ {u} : d \notin DocsIn(t, v)

RestInv(t, running) == \A u \in Urls :
    /\ t.items[u] # None => t.raws[t.items[u].raw].url = u
    /\ \A d \in DocsIn(t, u) : Rests(t, u, d, running)

(* EntriesAccounted, but for the entries a crawl is at.                    *)
Accounted(t, d) ==
    \/ FailedIn(t, d)
    \/ t.items[t.raws[d].url] # None
    \/ \E u \in Urls :
          t.items[u] # None /\ \E e \in t.items[u].variants : t.raws[e].entry = d

AccountedInv(t, pending) == \A d \in DOMAIN t.raws \ pending :
    t.raws[d].method = "entry" => Accounted(t, d)

TableInv(t, running, pending) ==
    RefsInv(t) /\ RestInv(t, running) /\ AccountedInv(t, pending)

(* The crawl is of its job's source; the entry it is at has neither failed *)
(* nor become part of an item.                                             *)
EntryInv ==
    /\ phase \in {"entries", "entry", "page"} => own.jobs[Job].mode = mode
    /\ phase \in {"entry", "page"} =>
          /\ own.raws[entry].method = "entry" /\ own.raws[entry].entry = entry
          /\ own.raws[entry].job = Job
          /\ ~FailedIn(own, entry)
          /\ \A u \in Urls : \A d \in DocsIn(own, u) : own.raws[d].entry # entry
    /\ phase = "page" =>
          /\ mode = "page"
          /\ own.raws[page].method = "page" /\ own.raws[page].entry = entry
          /\ own.raws[page].url = Url /\ own.raws[page].job = Job

Running == IF phase \in {"entries", "entry", "page"} THEN {Job} ELSE {}

Pending == IF phase \in {"entry", "page"} THEN {entry} ELSE {}

OutcomeInv ==
    /\ TableInv(db, {}, {})
    /\ phase # "raised" => TableInv(own, Running, Pending) /\ EntryInv

(* Tables t2 are tables t with one more row.                               *)
Grown(t, t2, r) ==
    t2.raws = Append(t.raws, r) /\ t2.items = t.items /\ t2.jobs = t.jobs

LEMMA GrownRows ==
    ASSUME NEW t \in Tables, NEW t2 \in Tables, NEW r \in Raws, Grown(t, t2, r)
    PROVE  /\ DOMAIN t2.raws = DOMAIN t.raws \cup {Len(t.raws) + 1}
           /\ Len(t.raws) + 1 \notin DOMAIN t.raws
           /\ \A d \in DOMAIN t.raws : t2.raws[d] = t.raws[d]
           /\ t2.raws[Len(t.raws) + 1] = r
           /\ \A d : FailedIn(t2, d) <=>
                        FailedIn(t, d) \/ (r.method = "error" /\ r.entry = d)
           /\ \A u \in Urls : DocsIn(t2, u) = DocsIn(t, u)
<1>1. /\ t.raws \in Seq(Raws) /\ t2.raws = Append(t.raws, r)
      /\ Len(t.raws) \in Nat /\ DOMAIN t.raws = 1 .. Len(t.raws)
      /\ DOMAIN t2.raws = 1 .. Len(t2.raws) /\ Len(t2.raws) = Len(t.raws) + 1
      BY TablesType DEF Grown
<1>2. /\ \A d \in DOMAIN t.raws : t2.raws[d] = t.raws[d]
      /\ t2.raws[Len(t.raws) + 1] = r
      BY <1>1
<1>3. /\ DOMAIN t2.raws = DOMAIN t.raws \cup {Len(t.raws) + 1}
      /\ Len(t.raws) + 1 \notin DOMAIN t.raws
      BY <1>1
<1>4. ASSUME NEW d
      PROVE  FailedIn(t2, d) <=> FailedIn(t, d) \/ (r.method = "error" /\ r.entry = d)
  <2>1. ASSUME FailedIn(t2, d) PROVE FailedIn(t, d) \/ (r.method = "error" /\ r.entry = d)
    <3>1. PICK e \in DOMAIN t2.raws : t2.raws[e].method = "error" /\ t2.raws[e].entry = d
          BY <2>1 DEF FailedIn
    <3>2. CASE e \in DOMAIN t.raws
          BY <1>2, <3>1, <3>2 DEF FailedIn
    <3>3. CASE e = Len(t.raws) + 1
          BY <1>2, <3>1, <3>3
    <3>4. QED
          BY <1>3, <3>1, <3>2, <3>3
  <2>2. ASSUME FailedIn(t, d) PROVE FailedIn(t2, d)
    <3>1. PICK e \in DOMAIN t.raws : t.raws[e].method = "error" /\ t.raws[e].entry = d
          BY <2>2 DEF FailedIn
    <3>2. e \in DOMAIN t2.raws /\ t2.raws[e] = t.raws[e]
          BY <1>2, <1>3
    <3>3. QED
          BY <3>1, <3>2 DEF FailedIn
  <2>3. ASSUME r.method = "error", r.entry = d PROVE FailedIn(t2, d)
    <3>1. Len(t.raws) + 1 \in DOMAIN t2.raws
          BY <1>3
    <3>2. QED
          BY <1>2, <2>3, <3>1 DEF FailedIn
  <2>4. QED
        BY <2>1, <2>2, <2>3
<1>5. \A u \in Urls : DocsIn(t2, u) = DocsIn(t, u)
      BY DEF DocsIn, Grown
<1>6. QED
      BY <1>2, <1>3, <1>4, <1>5

(* A row more: the items rest on what they rested on, unless it is the     *)
(* failure of an entry they rest on.                                       *)
LEMMA GrownRests ==
    ASSUME NEW t \in Tables, NEW t2 \in Tables, NEW r \in Raws, Grown(t, t2, r),
           RefsInv(t), NEW running, RestInv(t, running),
           r.method = "error" =>
                \A u \in Urls : \A d \in DocsIn(t, u) : t.raws[d].entry # r.entry
    PROVE  RestInv(t2, running)
<1> SUFFICES ASSUME NEW u \in Urls
             PROVE  /\ t2.items[u] # None => t2.raws[t2.items[u].raw].url = u
                    /\ \A d \in DocsIn(t2, u) : Rests(t2, u, d, running)
    BY DEF RestInv
<1>1. \A d \in DocsIn(t, u) : d \in DOMAIN t.raws /\ t2.raws[d] = t.raws[d]
      BY GrownRows DEF RefsInv
<1>2. ASSUME t2.items[u] # None PROVE t2.raws[t2.items[u].raw].url = u
  <2>1. t.items[u] # None /\ t2.items[u].raw = t.items[u].raw
        BY <1>2 DEF Grown
  <2>2. t.items[u].raw \in DocsIn(t, u) /\ t.raws[t.items[u].raw].url = u
        BY <2>1 DEF DocsIn, RestInv
  <2>3. QED
        BY <1>1, <2>1, <2>2
<1>3. ASSUME NEW d \in DocsIn(t2, u) PROVE Rests(t2, u, d, running)
  <2>1. d \in DocsIn(t, u) /\ Rests(t, u, d, running) /\ t2.raws[d] = t.raws[d]
        BY <1>1, GrownRows DEF RestInv
  <2>2. ~FailedIn(t2, t2.raws[d].entry)
        BY <2>1, GrownRows DEF Rests
  <2>3. \A v \in Urls \ {u} : d \notin DocsIn(t2, v)
        BY <2>1, GrownRows DEF Rests
  <2>4. QED
        BY <2>1, <2>2, <2>3 DEF Rests, Grown
<1>4. QED
      BY <1>2, <1>3

(* A row more: a new entry is pending, one that fails is no longer.        *)
LEMMA GrownAccounted ==
    ASSUME NEW t \in Tables, NEW t2 \in Tables, NEW r \in Raws, Grown(t, t2, r),
           RefsInv(t), NEW P, NEW P2, AccountedInv(t, P),
           \A d \in P : d \in P2 \/ FailedIn(t2, d),
           r.method = "entry" => Len(t.raws) + 1 \in P2
    PROVE  AccountedInv(t2, P2)
<1> SUFFICES ASSUME NEW d \in DOMAIN t2.raws \ P2, t2.raws[d].method = "entry",
                    ~FailedIn(t2, d)
             PROVE  Accounted(t2, d)
    BY DEF AccountedInv, Accounted
<1>1. d \in DOMAIN t.raws \ P /\ t2.raws[d] = t.raws[d] /\ ~FailedIn(t, d)
  <2>1. ~FailedIn(t, d) /\ d \notin P
        BY GrownRows
  <2>2. d # Len(t.raws) + 1
        BY GrownRows
  <2>3. QED
        BY <2>1, <2>2, GrownRows
<1>2. Accounted(t, d)
      BY <1>1 DEF AccountedInv
<1>3. CASE t.items[t.raws[d].url] # None
      BY <1>1, <1>3 DEF Accounted, Grown
<1>4. ASSUME NEW u \in Urls, t.items[u] # None, NEW e \in t.items[u].variants,
             t.raws[e].entry = d
      PROVE  Accounted(t2, d)
  <2>1. e \in DOMAIN t.raws
        BY <1>4 DEF RefsInv, DocsIn
  <2>2. t2.raws[e].entry = d
        BY <1>4, <2>1, GrownRows
  <2>3. QED
        BY <1>4, <2>2 DEF Accounted, Grown
<1>5. QED
      BY <1>1, <1>2, <1>3, <1>4 DEF Accounted

(* References to rows are kept by a row more.                              *)
LEMMA GrownRefs ==
    ASSUME NEW t \in Tables, NEW t2 \in Tables, NEW r \in Raws, Grown(t, t2, r),
           RefsInv(t), r.job \in DOMAIN t.jobs, r.entry \in DOMAIN t2.raws
    PROVE  RefsInv(t2)
<1>1. ASSUME NEW d \in DOMAIN t2.raws
      PROVE  t2.raws[d].job \in DOMAIN t2.jobs /\ t2.raws[d].entry \in DOMAIN t2.raws
  <2>1. CASE d \in DOMAIN t.raws
        BY <2>1, GrownRows DEF RefsInv, Grown
  <2>2. CASE d = Len(t.raws) + 1
        BY <2>2, GrownRows DEF Grown
  <2>3. QED
        BY <2>1, <2>2, GrownRows
<1>2. QED
      BY <1>1, GrownRows DEF RefsInv

(* The document of the entry ends in an item: it is of no other item, and  *)
(* its entry has not failed.                                               *)
LEMMA BuiltTables ==
    ASSUME own \in Tables, Url \in Urls, NEW t2 \in Tables, NEW d \in DOMAIN own.raws,
           NEW running, RefsInv(own), RestInv(own, running),
           t2.raws = own.raws, t2.jobs = own.jobs, Shape(t2.items, d),
           own.raws[d].url = Url, own.raws[d].entry = entry,
           entry \in DOMAIN own.raws, ~FailedIn(own, entry),
           \A u \in Urls : \A e \in DocsIn(own, u) : own.raws[e].entry # entry,
           own.raws[d].job \in running,
           own.raws[d].method =
                IF own.jobs[own.raws[d].job].mode = "page" THEN "page" ELSE "entry"
    PROVE  RefsInv(t2) /\ RestInv(t2, running)
           /\ (AccountedInv(own, {entry}) => AccountedInv(t2, {}))
<1>1. \A u \in Urls : d \notin DocsIn(own, u)
      OBVIOUS
<1>2. PICK w \in Urls :
        /\ DocsIn(t2, w) \subseteq DocsIn(own, w) \cup {d}
        /\ \A u \in Urls \ {w} : DocsIn(t2, u) = DocsIn(own, u)
  <2>1. CASE /\ t2.items[Url] # None /\ t2.items[Url].raw = d
             /\ t2.items[Url].variants =
                    IF own.items[Url] = None THEN {} ELSE own.items[Url].variants
             /\ \A u \in Urls \ {Url} : t2.items[u] = own.items[u]
    <3>1. DocsIn(t2, Url) \subseteq DocsIn(own, Url) \cup {d}
          BY <2>1 DEF DocsIn
    <3>2. \A u \in Urls \ {Url} : DocsIn(t2, u) = DocsIn(own, u)
          BY <2>1 DEF DocsIn
    <3>3. QED
          BY <3>1, <3>2
  <2>2. ASSUME NEW v \in Urls,
               own.items[v] # None /\ t2.items[v] # None,
               t2.items[v].raw = own.items[v].raw,
               t2.items[v].variants = own.items[v].variants \cup {d},
               \A u \in Urls \ {v} : t2.items[u] = own.items[u]
        PROVE  /\ DocsIn(t2, v) \subseteq DocsIn(own, v) \cup {d}
               /\ \A u \in Urls \ {v} : DocsIn(t2, u) = DocsIn(own, u)
        BY <2>2 DEF DocsIn
  <2>3. CASE t2.items = own.items
        BY <2>3 DEF DocsIn
  <2>4. QED
        BY <2>1, <2>2, <2>3 DEF Shape
<1>3. RefsInv(t2)
      BY <1>2 DEF RefsInv
<1>4. \A e : FailedIn(t2, e) <=> FailedIn(own, e)
      BY DEF FailedIn
<1>5. ASSUME NEW u \in Urls, NEW e \in DocsIn(t2, u) PROVE Rests(t2, u, e, running)
  <2>1. CASE e = d
    <3>1. u = w
          BY <1>1, <1>2, <1>5, <2>1
    <3>2. \A v \in Urls \ {u} : e \notin DocsIn(t2, v)
          BY <1>1, <1>2, <2>1, <3>1
    <3>3. QED
          BY <1>4, <2>1, <3>2 DEF Rests
  <2>2. CASE e # d
    <3>1. e \in DocsIn(own, u) /\ Rests(own, u, e, running)
          BY <1>2, <1>5, <2>2 DEF RestInv
    <3>2. \A v \in Urls \ {u} : e \notin DocsIn(t2, v)
          BY <1>2, <2>2, <3>1 DEF Rests
    <3>3. QED
          BY <1>4, <3>1, <3>2 DEF Rests
  <2>3. QED
        BY <2>1, <2>2
<1>6. ASSUME NEW u \in Urls, t2.items[u] # None PROVE t2.raws[t2.items[u].raw].url = u
      BY <1>6 DEF Shape, RestInv
<1>7. ASSUME AccountedInv(own, {entry}) PROVE AccountedInv(t2, {})
  <2>1. \A u \in Urls : own.items[u] # None =>
            t2.items[u] # None /\ own.items[u].variants \subseteq t2.items[u].variants
        BY DEF Shape
  <2>2. Accounted(t2, entry)
    <3>1. CASE t2.items[Url] # None
          BY <3>1 DEF Accounted, Url
    <3>2. ASSUME NEW v \in Urls, t2.items[v] # None, d \in t2.items[v].variants
          PROVE  Accounted(t2, entry)
          BY <3>2 DEF Accounted
    <3>3. QED
          BY <3>1, <3>2 DEF Shape
  <2>3. ASSUME NEW e \in DOMAIN own.raws \ {entry}, own.raws[e].method = "entry"
        PROVE  Accounted(t2, e)
    <3>1. Accounted(own, e)
          BY <1>7, <2>3 DEF AccountedInv
    <3>2. ASSUME own.items[own.raws[e].url] # None PROVE Accounted(t2, e)
      <4>1. own.raws[e].url \in Urls
            BY <2>3, TablesType DEF Raws
      <4>2. QED
            BY <2>1, <3>2, <4>1 DEF Accounted
    <3>3. ASSUME NEW u \in Urls, own.items[u] # None, NEW x \in own.items[u].variants,
                 own.raws[x].entry = e
          PROVE  Accounted(t2, e)
          BY <2>1, <3>3 DEF Accounted
    <3>4. QED
          BY <1>4, <3>1, <3>2, <3>3 DEF Accounted
  <2>4. QED
        BY <2>2, <2>3 DEF AccountedInv
<1>8. QED
      BY <1>3, <1>5, <1>6, <1>7 DEF RestInv

(* Only the jobs change: one more, or one that has succeeded.              *)
LEMMA JobTables ==
    ASSUME NEW t \in Tables, NEW t2 \in Tables, NEW R, NEW R2, NEW P, TableInv(t, R, P),
           t2.raws = t.raws, t2.items = t.items, DOMAIN t.jobs \subseteq DOMAIN t2.jobs,
           \A j \in DOMAIN t.jobs :
                /\ t2.jobs[j].mode = t.jobs[j].mode
                /\ t.jobs[j].status = "succeeded" \/ j \in R =>
                        t2.jobs[j].status = "succeeded" \/ j \in R2
    PROVE  TableInv(t2, R2, P)
<1>1. /\ \A u : DocsIn(t2, u) = DocsIn(t, u)
      /\ \A d : FailedIn(t2, d) <=> FailedIn(t, d)
      BY DEF DocsIn, FailedIn
<1>2. RefsInv(t2)
      BY <1>1 DEF TableInv, RefsInv
<1>3. AccountedInv(t2, P)
      BY <1>1 DEF TableInv, AccountedInv, Accounted
<1>4. ASSUME NEW u \in Urls, NEW d \in DocsIn(t2, u) PROVE Rests(t2, u, d, R2)
  <2>1. Rests(t, u, d, R) /\ t.raws[d].job \in DOMAIN t.jobs
        BY <1>1, <1>4 DEF TableInv, RestInv, RefsInv
  <2>2. QED
        BY <1>1, <2>1 DEF Rests
<1>5. RestInv(t2, R2)
      BY <1>4 DEF TableInv, RestInv
<1>6. QED
      BY <1>2, <1>3, <1>5 DEF TableInv

(* With empty tables there is nothing to account for.                      *)
LEMMA OutcomeInit == Init => OutcomeInv
<1> SUFFICES ASSUME Init PROVE OutcomeInv
    OBVIOUS
<1>1. DOMAIN db.raws = {} /\ \A u \in Urls : db.items[u] = None
      BY DEF Init
<1>2. TableInv(db, {}, {})
      BY <1>1 DEF TableInv, RefsInv, RestInv, AccountedInv, DocsIn
<1>3. QED
      BY <1>2 DEF Init, OutcomeInv, EntryInv, Running, Pending

(* The tables after a step.                                                *)
LEMMA TablesNext ==
    ASSUME TableInv(own', Running', Pending'), TableInv(db', {}, {}), EntryInv'
    PROVE  OutcomeInv'
<1>1. RefsInv(own)' /\ RefsInv(db)'
      BY DEF TableInv, RefsInv, DocsIn
<1>2. RestInv(own, Running)' /\ RestInv(db, {})'
      BY DEF TableInv, RestInv, Rests, FailedIn, DocsIn
<1>3. AccountedInv(own, Pending)' /\ AccountedInv(db, {})'
      BY DEF TableInv, AccountedInv, Accounted, FailedIn
<1>4. QED
      BY <1>1, <1>2, <1>3 DEF OutcomeInv, TableInv

(* The row that is added.                                                  *)
RowOf(method, u, e, n) ==
    [job |-> Job, url |-> u, method |-> method, entry |-> e, media |-> n]

LEMMA AppendedGrows ==
    ASSUME own \in Tables, NEW method \in {"entry", "page", "error"}, NEW u \in Urls,
           NEW e \in Nat, NEW n \in 0 .. 1, own' = Appended(method, u, e, n)
    PROVE  /\ own' \in Tables /\ RowOf(method, u, e, n) \in Raws
           /\ Grown(own, own', RowOf(method, u, e, n))
           /\ RowOf(method, u, e, n).job = Job /\ RowOf(method, u, e, n).url = u
           /\ RowOf(method, u, e, n).method = method /\ RowOf(method, u, e, n).entry = e
           /\ RowOf(method, u, e, n).media = n
<1>1. Len(own.jobs) \in Nat
      BY TablesType
<1>2. RowOf(method, u, e, n) \in Raws
      BY <1>1 DEF RowOf, Raws, Job
<1>3. own' \in Tables /\ Grown(own, own', RowOf(method, u, e, n))
      BY AppendedType DEF Grown, RowOf
<1>4. QED
      BY <1>2, <1>3 DEF RowOf

(* A row is added: of an entry, of its page or of its failure.             *)
LEMMA RowOutcome ==
    ASSUME TypeInv, OutcomeInv, Taking \/ FetchPage \/ Reporting
    PROVE  OutcomeInv'
<1>1. /\ own \in Tables /\ Job \in DOMAIN own.jobs /\ phase \in {"entries", "entry", "page"}
      /\ TableInv(own, {Job}, Pending) /\ EntryInv /\ TableInv(db, {}, {})
      /\ RefsInv(own) /\ RestInv(own, {Job}) /\ AccountedInv(own, Pending)
      /\ own.jobs[Job].mode = mode
      BY DEF Taking, TakeEntry, FetchPage, Reporting, TypeInv, TypeOK, PlaceInv,
         OutcomeInv, Running, TableInv, EntryInv
<1>2. /\ Len(own.raws) \in Nat /\ DOMAIN own.raws = 1 .. Len(own.raws)
      /\ NewRow = Len(own.raws) + 1 /\ NewRow \notin DOMAIN own.raws
      /\ Len(own.jobs) \in Nat
      BY <1>1, TablesType DEF NewRow
<1>3. CASE Taking
  <2>1. PICK u \in Urls, n \in 0 .. 1 : TakeEntry(u, n)
        BY <1>3 DEF Taking
  <2> DEFINE r == RowOf("entry", u, NewRow, n)
  <2>2. /\ r \in Raws /\ own' \in Tables /\ Grown(own, own', r)
        /\ r.job = Job /\ r.method = "entry" /\ r.entry = NewRow
        BY <1>1, <1>2, <2>1, AppendedGrows DEF TakeEntry
  <2> HIDE DEF r
  <2>3. /\ Job' = Job /\ phase' = "entry" /\ entry' = NewRow /\ mode' = mode /\ db' = db
        BY <2>1, <2>2 DEF TakeEntry, Grown, Job
  <2>4. DOMAIN own'.raws = DOMAIN own.raws \cup {NewRow} /\ own'.raws[NewRow] = r
        BY <1>1, <1>2, <2>2, GrownRows
  <2>5. RefsInv(own')
        BY <1>1, <2>2, <2>4, GrownRefs
  <2>6. RestInv(own', {Job})
        BY <1>1, <2>2, GrownRests
  <2>7. AccountedInv(own', {NewRow})
    <3>1. Pending = {}
          BY <2>1 DEF TakeEntry, Pending
    <3>2. QED
          BY <1>1, <1>2, <2>2, <3>1, GrownAccounted
  <2>8. ~FailedIn(own', NewRow)
        BY <1>1, <1>2, <2>2, GrownRows DEF FailedIn, RefsInv
  <2>9. ASSUME NEW v \in Urls, NEW d \in DocsIn(own', v) PROVE own'.raws[d].entry # NewRow
    <3>1. d \in DOMAIN own.raws /\ own'.raws[d] = own.raws[d]
          BY <1>1, <2>2, <2>9, GrownRows DEF RefsInv
    <3>2. QED
          BY <1>1, <1>2, <3>1 DEF RefsInv
  <2>10. EntryInv'
    <3>1. own'.jobs[Job'].mode = mode'
          BY <1>1, <2>2, <2>3 DEF Grown
    <3>2. ~FailedIn(own, entry)'
          BY <2>3, <2>8 DEF FailedIn
    <3>3. \A v \in Urls : \A d \in DocsIn(own, v)' : own'.raws[d].entry # entry'
          BY <2>3, <2>9 DEF DocsIn
    <3>4. QED
          BY <2>2, <2>3, <2>4, <3>1, <3>2, <3>3 DEF EntryInv
  <2>11. Running' = {Job} /\ Pending' = {NewRow}
        BY <2>3 DEF Running, Pending
  <2>12. QED
        BY <1>1, <2>3, <2>5, <2>6, <2>7, <2>10, <2>11, TablesNext DEF TableInv
<1>4. CASE FetchPage
  <2> DEFINE r == RowOf("page", Url, entry, own.raws[entry].media)
  <2>1. phase = "entry" /\ mode = "page" /\ entry \in DOMAIN own.raws
        /\ own.raws[entry] \in Raws /\ Url \in Urls /\ own.raws[entry].media \in 0 .. 1
        BY <1>4, EntryType DEF FetchPage
  <2>2. /\ r \in Raws /\ own' \in Tables /\ Grown(own, own', r)
        /\ r.job = Job /\ r.url = Url /\ r.method = "page" /\ r.entry = entry
        BY <1>1, <1>2, <1>4, <2>1, AppendedGrows DEF FetchPage
  <2> HIDE DEF r
  <2>3. /\ Job' = Job /\ phase' = "page" /\ page' = NewRow
        /\ UNCHANGED <<entry, mode, db>>
        BY <1>4, <2>2 DEF FetchPage, Grown, Job
  <2>4. /\ DOMAIN own'.raws = DOMAIN own.raws \cup {NewRow} /\ own'.raws[NewRow] = r
        /\ own'.raws[entry] = own.raws[entry]
        BY <1>1, <1>2, <2>1, <2>2, GrownRows
  <2>5. RefsInv(own')
        BY <1>1, <2>1, <2>2, <2>4, GrownRefs
  <2>6. RestInv(own', {Job})
        BY <1>1, <2>2, GrownRests
  <2>7. AccountedInv(own', {entry})
    <3>1. Pending = {entry}
          BY <2>1 DEF Pending
    <3>2. QED
          BY <1>1, <2>2, <3>1, GrownAccounted
  <2>8. /\ own.raws[entry].method = "entry" /\ own.raws[entry].entry = entry
        /\ own.raws[entry].job = Job /\ ~FailedIn(own, entry)
        /\ \A v \in Urls : \A d \in DocsIn(own, v) : own.raws[d].entry # entry
        BY <1>1, <2>1 DEF EntryInv
  <2>9. ~FailedIn(own', entry)
        BY <2>2, <2>8, <1>1, GrownRows
  <2>10. ASSUME NEW v \in Urls, NEW d \in DocsIn(own', v) PROVE own'.raws[d].entry # entry
    <3>1. d \in DocsIn(own, v) /\ d \in DOMAIN own.raws /\ own'.raws[d] = own.raws[d]
          BY <1>1, <2>2, <2>10, GrownRows DEF RefsInv
    <3>2. QED
          BY <2>8, <3>1
  <2>11. EntryInv'
    <3>1. own'.jobs[Job'].mode = mode' /\ mode' = "page"
          BY <1>1, <2>1, <2>2, <2>3 DEF Grown
    <3>2. ~FailedIn(own, entry)'
          BY <2>3, <2>9 DEF FailedIn
    <3>3. \A v \in Urls : \A d \in DocsIn(own, v)' : own'.raws[d].entry # entry'
          BY <2>3, <2>10 DEF DocsIn
    <3>4. Url' = Url
          BY <2>3, <2>4 DEF Url
    <3>5. QED
          BY <2>2, <2>3, <2>4, <2>8, <3>1, <3>2, <3>3, <3>4 DEF EntryInv
  <2>12. Running' = {Job} /\ Pending' = {entry}
        BY <2>3 DEF Running, Pending
  <2>13. QED
        BY <1>1, <2>3, <2>5, <2>6, <2>7, <2>11, <2>12, TablesNext DEF TableInv
<1>5. CASE Reporting
  <2> DEFINE r == RowOf("error", Url, entry, 0)
  <2>1. phase \in {"entry", "page"} /\ entry \in DOMAIN own.raws
        /\ own.raws[entry] \in Raws /\ Url \in Urls
        BY <1>5, EntryType DEF Reporting
  <2>2. /\ r \in Raws /\ own' \in Tables /\ Grown(own, own', r)
        /\ r.job = Job /\ r.method = "error" /\ r.entry = entry
        BY <1>1, <1>2, <1>5, <2>1, AppendedGrows DEF Reporting, Evidence
  <2> HIDE DEF r
  <2>3. /\ Job' = Job /\ phase' = "entries" /\ UNCHANGED <<entry, mode, db>>
        BY <1>5, <2>2 DEF Reporting, Evidence, Grown, Job
  <2>4. DOMAIN own'.raws = DOMAIN own.raws \cup {NewRow}
        BY <1>1, <1>2, <2>2, GrownRows
  <2>5. RefsInv(own')
        BY <1>1, <2>1, <2>2, <2>4, GrownRefs
  <2>6. RestInv(own', {Job})
    <3>1. \A v \in Urls : \A d \in DocsIn(own, v) : own.raws[d].entry # entry
          BY <1>1, <2>1 DEF EntryInv
    <3>2. QED
          BY <1>1, <2>2, <3>1, GrownRests
  <2>7. AccountedInv(own', {})
    <3>1. Pending = {entry} /\ FailedIn(own', entry)
          BY <1>1, <2>1, <2>2, GrownRows DEF Pending
    <3>2. QED
          BY <1>1, <2>2, <3>1, GrownAccounted
  <2>8. EntryInv'
        BY <1>1, <2>2, <2>3 DEF EntryInv, Grown
  <2>9. Running' = {Job} /\ Pending' = {}
        BY <2>3 DEF Running, Pending
  <2>10. QED
        BY <1>1, <2>3, <2>5, <2>6, <2>7, <2>8, <2>9, TablesNext DEF TableInv
<1>6. QED
      BY <1>3, <1>4, <1>5

(* The document of an entry becomes part of an item.                       *)
LEMMA BuildOutcome == ASSUME TypeInv, OutcomeInv, Building PROVE OutcomeInv'
<1>1. /\ own \in Tables /\ phase \in {"entry", "page"} /\ phase' = "entries"
      /\ UNCHANGED <<db, mode, entry, page>>
      /\ Running = {Job} /\ Pending = {entry} /\ EntryInv /\ TableInv(db, {}, {})
      /\ RefsInv(own) /\ RestInv(own, {Job}) /\ AccountedInv(own, {entry})
      BY DEF Building, TypeInv, TypeOK, OutcomeInv, Running, Pending, TableInv
<1>2. PICK d \in {entry, page} : \E items \in OfPage(d) \cup OfEntry(d) :
        /\ phase = "entry" => mode = "list" /\ d = entry
        /\ phase = "page" => d = page
        /\ own' = [own EXCEPT !.items = items]
      BY DEF Building
<1>3. PICK items \in OfPage(d) \cup OfEntry(d) : own' = [own EXCEPT !.items = items]
      BY <1>2
<1>4. /\ d \in DOMAIN own.raws /\ d \in Nat /\ entry \in DOMAIN own.raws /\ Url \in Urls
      BY <1>1, <1>2, EntryType, TablesType DEF TypeInv, PlaceInv
<1>5. /\ own' \in Tables /\ own'.items = items /\ own'.raws = own.raws
      /\ own'.jobs = own.jobs /\ Shape(items, d)
      BY <1>1, <1>3, <1>4, Placed, ItemsType
<1>6. /\ own.raws[d].url = Url /\ own.raws[d].entry = entry /\ own.raws[d].job = Job
      /\ own.raws[d].method = IF own.jobs[Job].mode = "page" THEN "page" ELSE "entry"
      /\ ~FailedIn(own, entry)
      /\ \A u \in Urls : \A e \in DocsIn(own, u) : own.raws[e].entry # entry
  <2>1. CASE phase = "entry"
        BY <1>1, <1>2, <2>1 DEF EntryInv, Url
  <2>2. CASE phase = "page"
        BY <1>1, <1>2, <2>2 DEF EntryInv
  <2>3. QED
        BY <1>1, <2>1, <2>2
<1>7. RefsInv(own') /\ RestInv(own', {Job}) /\ AccountedInv(own', {})
      BY <1>1, <1>4, <1>5, <1>6, BuiltTables
<1>8. Running' = {Job} /\ Pending' = {} /\ EntryInv'
      BY <1>1, <1>5 DEF Running, Pending, EntryInv, Job
<1>9. QED
      BY <1>1, <1>7, <1>8, TablesNext DEF TableInv

(* A crawl begins or has succeeded.                                        *)
LEMMA JobOutcome ==
    ASSUME TypeInv, OutcomeInv, (\E m \in Modes : Begin(m)) \/ Succeed
    PROVE  OutcomeInv'
<1>1. /\ own \in Tables /\ phase # "raised" /\ db' = db
      /\ TableInv(own, Running, {}) /\ EntryInv /\ TableInv(db, {}, {})
      BY DEF Begin, Succeed, TypeInv, TypeOK, OutcomeInv, Pending
<1>2. /\ Len(own.jobs) \in Nat /\ DOMAIN own.jobs = 1 .. Len(own.jobs)
      BY <1>1, TablesType
<1>3. ASSUME NEW m \in Modes, Begin(m) PROVE OutcomeInv'
  <2> DEFINE row == [status |-> "running", mode |-> m, stats |-> Zero]
             jobs == Append(own.jobs, row)
  <2>1. row \in Jobs
        BY DEF Jobs, Zero
  <2>2. /\ jobs \in Seq(Jobs) /\ Len(jobs) = Len(own.jobs) + 1
        /\ jobs[Len(own.jobs) + 1] = row
        /\ \A j \in DOMAIN own.jobs : jobs[j] = own.jobs[j]
        BY <1>1, <1>2, <2>1, TablesType
  <2>3. own' = [own EXCEPT !.jobs = jobs]
        BY <1>3 DEF Begin
  <2>4. /\ own' \in Tables /\ own'.jobs = jobs /\ own'.raws = own.raws
        /\ own'.items = own.items
        BY <1>1, <2>2, <2>3 DEF Tables
  <2>5. /\ Running = {} /\ Running' = {Job'} /\ Pending' = {} /\ phase' = "entries"
        /\ mode' = m
        BY <1>3 DEF Begin, Running, Pending
  <2>6. EntryInv'
        BY <2>2, <2>4, <2>5 DEF EntryInv, Job
  <2>7. DOMAIN own.jobs \subseteq DOMAIN own'.jobs
        BY <1>2, <2>2, <2>4, TablesType
  <2>8. TableInv(own', Running', {})
        BY <1>1, <2>2, <2>4, <2>5, <2>7, JobTables
  <2>9. QED
        BY <1>1, <2>5, <2>6, <2>8, TablesNext
<1>4. CASE Succeed
  <2>1. /\ Job \in DOMAIN own.jobs /\ phase = "entries" /\ phase' = "returned"
        /\ mode' = mode
        BY <1>4 DEF Succeed, TypeInv, PlaceInv
  <2>2. PICK health \in {"ok", "empty"} : own' = Ended("succeeded", health, stats)
        BY <1>4 DEF Succeed
  <2>3. /\ own' \in Tables /\ own'.raws = own.raws /\ own'.items = own.items
        /\ Len(own'.jobs) = Len(own.jobs)
        /\ \A j \in DOMAIN own.jobs \ {Job} : own'.jobs[j] = own.jobs[j]
        /\ own'.jobs[Job].status = "succeeded" /\ own'.jobs[Job].mode = own.jobs[Job].mode
        BY <1>1, <2>1, <2>2, EndedType DEF TypeInv, TypeOK
  <2>4. Running = {Job} /\ Running' = {} /\ Pending' = {}
        BY <2>1 DEF Running, Pending
  <2>5. EntryInv'
        BY <2>1 DEF EntryInv
  <2>6. DOMAIN own.jobs = DOMAIN own'.jobs
        BY <1>1, <2>3, TablesType
  <2>7. TableInv(own', {}, {})
        BY <1>1, <2>3, <2>4, <2>6, JobTables
  <2>8. QED
        BY <1>1, <2>4, <2>5, <2>7, TablesNext
<1>5. QED
      BY <1>3, <1>4

(* One step of a crawl or of its caller.                                   *)
LEMMA OutcomeStep == TypeInv /\ OutcomeInv /\ [Next]_vars => OutcomeInv'
<1> SUFFICES ASSUME TypeInv, OutcomeInv, [Next]_vars PROVE OutcomeInv'
    OBVIOUS
<1>1. TableInv(db, {}, {})
      BY DEF OutcomeInv
<1>2. ASSUME phase' = "raised", db' = db PROVE OutcomeInv'
      BY <1>2 DEF OutcomeInv, TableInv, RefsInv, RestInv, AccountedInv, Rests,
         Accounted, FailedIn, DocsIn
<1>3. CASE Commit
  <2>1. TableInv(own, {}, {}) /\ own' = own /\ db' = own /\ phase' = "idle"
        BY <1>3 DEF Commit, OutcomeInv, Running, Pending
  <2>2. Running' = {} /\ Pending' = {} /\ EntryInv'
        BY <2>1 DEF Running, Pending, EntryInv
  <2>3. QED
        BY <2>1, <2>2, TablesNext
<1>4. CASE RollBack
  <2>1. own' = db /\ db' = db /\ phase' = "idle"
        BY <1>4 DEF RollBack
  <2>2. Running' = {} /\ Pending' = {} /\ EntryInv'
        BY <2>1 DEF Running, Pending, EntryInv
  <2>3. QED
        BY <1>1, <2>1, <2>2, TablesNext
<1>5. CASE UNCHANGED vars
  <2>1. /\ own' = own /\ db' = db /\ phase' = phase /\ mode' = mode
        /\ entry' = entry /\ page' = page
        BY <1>5 DEF vars
  <2>2. CASE phase = "raised"
        BY <1>2, <2>1, <2>2
  <2>3. CASE phase # "raised"
    <3>1. Running' = Running /\ Pending' = Pending
          BY <2>1 DEF Running, Pending, Job
    <3>2. EntryInv'
          BY <2>1, <2>3 DEF OutcomeInv, EntryInv, FailedIn, DocsIn, Job, Url
    <3>3. QED
          BY <1>1, <2>1, <2>3, <3>1, <3>2, TablesNext DEF OutcomeInv
  <2>4. QED
        BY <2>2, <2>3
<1>6. CASE Raising
      BY <1>2, <1>6 DEF Raising, Raise
<1>7. QED
      BY <1>3, <1>4, <1>5, <1>6, Steps, RowOutcome, BuildOutcome, JobOutcome

(* No committed entry is without an outcome (pipeline.py:56-119,           *)
(* canonical.py:88-133, 162-195).                                          *)
THEOREM EntriesEnd == Spec => []EntriesAccounted
<1>1. TypeInv /\ OutcomeInv => EntriesAccounted
  <2> SUFFICES ASSUME TypeInv, OutcomeInv, NEW d \in DOMAIN db.raws,
                      db.raws[d].method = "entry", ~Failure(d),
                      db.items[db.raws[d].url] = None
               PROVE  \E u \in Urls : \E e \in Documents(u) : db.raws[e].entry = d
      BY DEF EntriesAccounted
  <2>1. Accounted(db, d) /\ ~FailedIn(db, d)
        BY DEF OutcomeInv, TableInv, AccountedInv, Failure, FailedIn
  <2>2. QED
        BY <2>1 DEF Accounted, Documents
<1>2. QED
      BY <1>1, TypeInit, TypeStep, OutcomeInit, OutcomeStep, PTL DEF Spec

(* What an item rests on never failed (pipeline.py:56-108,                 *)
(* canonical.py:66-133).                                                   *)
THEOREM ItemsRest == Spec => []ItemsRestOnSuccess
<1>1. OutcomeInv => ItemsRestOnSuccess
  <2> SUFFICES ASSUME OutcomeInv, NEW u \in Urls
               PROVE  /\ db.items[u] # None => db.raws[db.items[u].raw].url = u
                      /\ \A d \in DocsIn(db, u) : Rests(db, u, d, {})
      BY DEF ItemsRestOnSuccess, Rests, DocsIn, Documents, FailedIn, Failure
  <2>1. QED
        BY DEF OutcomeInv, TableInv, RestInv
<1>2. QED
      BY <1>1, TypeInit, TypeStep, OutcomeInit, OutcomeStep, PTL DEF Spec

-----------------------------------------------------------------------------
(* The counters.                                                           *)

RowsIn(t, j, m) == {d \in DOMAIN t.raws : t.raws[d].job = j /\ t.raws[d].method = m}

MediaIn(t, j) == {d \in RowsIn(t, j, "entry") : t.raws[d].media = 1}

BuiltIn(t, j) == {u \in Urls : t.items[u] # None /\ t.raws[t.items[u].raw].job = j}

(* StatsMatchRows, of one job; while it is at an entry, that has been      *)
(* counted and has not ended.                                              *)
Matches(t, j, st, open) ==
    /\ st["entries"] = Cardinality(RowsIn(t, j, "entry"))
    /\ st["failed"] = Cardinality(RowsIn(t, j, "error"))
    /\ st["raw"] = st["entries"] + st["failed"] + Cardinality(RowsIn(t, j, "page"))
    /\ st["media"] = Cardinality(MediaIn(t, j))
    /\ st["rejected"] <= st["failed"]
    /\ st["content"] + st["failed"] + open <= st["entries"]
    /\ IsFiniteSet(BuiltIn(t, j)) /\ st["content"] >= Cardinality(BuiltIn(t, j))

Open == IF phase = "entries" THEN 0 ELSE 1

OwnStats ==
    /\ \A j \in DOMAIN own.jobs \ Running : Matches(own, j, own.jobs[j].stats, 0)
    /\ \A j \in Running : Matches(own, j, stats, Open)

StatsInv ==
    /\ \A j \in DOMAIN db.jobs : Matches(db, j, db.jobs[j].stats, 0)
    /\ phase # "raised" => OwnStats

(* There are finitely many rows, and as many with one more.                *)
LEMMA RowsFinite ==
    ASSUME NEW t \in Tables, NEW j, NEW m
    PROVE  /\ IsFiniteSet(RowsIn(t, j, m)) /\ IsFiniteSet(MediaIn(t, j))
           /\ Cardinality(RowsIn(t, j, m)) \in Nat /\ Cardinality(MediaIn(t, j)) \in Nat
<1>1. IsFiniteSet(DOMAIN t.raws)
      BY TablesType, FS_Interval
<1>2. RowsIn(t, j, m) \in SUBSET DOMAIN t.raws /\ MediaIn(t, j) \in SUBSET DOMAIN t.raws
      BY DEF RowsIn, MediaIn
<1>3. IsFiniteSet(RowsIn(t, j, m)) /\ IsFiniteSet(MediaIn(t, j))
      BY <1>1, <1>2, FS_Subset
<1>4. QED
      BY <1>3, FS_CardinalityType

LEMMA GrownCounts ==
    ASSUME NEW t \in Tables, NEW t2 \in Tables, NEW r \in Raws, Grown(t, t2, r),
           RefsInv(t), NEW j
    PROVE  /\ \A m : IF r.job = j /\ r.method = m
                     THEN Cardinality(RowsIn(t2, j, m)) = Cardinality(RowsIn(t, j, m)) + 1
                     ELSE RowsIn(t2, j, m) = RowsIn(t, j, m)
           /\ IF r.job = j /\ r.method = "entry" /\ r.media = 1
              THEN Cardinality(MediaIn(t2, j)) = Cardinality(MediaIn(t, j)) + 1
              ELSE MediaIn(t2, j) = MediaIn(t, j)
           /\ BuiltIn(t2, j) = BuiltIn(t, j)
<1> DEFINE n == Len(t.raws) + 1
<1>1. /\ DOMAIN t2.raws = DOMAIN t.raws \cup {n} /\ n \notin DOMAIN t.raws
      /\ \A d \in DOMAIN t.raws : t2.raws[d] = t.raws[d]
      /\ t2.raws[n] = r
      BY GrownRows
<1> HIDE DEF n
<1>2. ASSUME NEW m
      PROVE  IF r.job = j /\ r.method = m
             THEN Cardinality(RowsIn(t2, j, m)) = Cardinality(RowsIn(t, j, m)) + 1
             ELSE RowsIn(t2, j, m) = RowsIn(t, j, m)
  <2>1. CASE r.job = j /\ r.method = m
    <3>1. RowsIn(t2, j, m) = RowsIn(t, j, m) \cup {n} /\ n \notin RowsIn(t, j, m)
          BY <1>1, <2>1 DEF RowsIn
    <3>2. IsFiniteSet(RowsIn(t, j, m))
          BY RowsFinite
    <3>3. Cardinality(RowsIn(t2, j, m)) = Cardinality(RowsIn(t, j, m)) + 1
          BY <3>1, <3>2, FS_AddElement
    <3>4. QED
          BY <2>1, <3>3
  <2>2. CASE ~(r.job = j /\ r.method = m)
    <3>1. RowsIn(t2, j, m) = RowsIn(t, j, m)
          BY <1>1, <2>2 DEF RowsIn
    <3>2. QED
          BY <2>2, <3>1
  <2>3. QED
        BY <2>1, <2>2
<1>3. IF r.job = j /\ r.method = "entry" /\ r.media = 1
      THEN Cardinality(MediaIn(t2, j)) = Cardinality(MediaIn(t, j)) + 1
      ELSE MediaIn(t2, j) = MediaIn(t, j)
  <2>1. CASE r.job = j /\ r.method = "entry" /\ r.media = 1
    <3>1. MediaIn(t2, j) = MediaIn(t, j) \cup {n} /\ n \notin MediaIn(t, j)
          BY <1>1, <2>1 DEF MediaIn, RowsIn
    <3>2. IsFiniteSet(MediaIn(t, j))
          BY RowsFinite
    <3>3. Cardinality(MediaIn(t2, j)) = Cardinality(MediaIn(t, j)) + 1
          BY <3>1, <3>2, FS_AddElement
    <3>4. QED
          BY <2>1, <3>3
  <2>2. CASE ~(r.job = j /\ r.method = "entry" /\ r.media = 1)
    <3>1. MediaIn(t2, j) = MediaIn(t, j)
          BY <1>1, <2>2 DEF MediaIn, RowsIn
    <3>2. QED
          BY <2>2, <3>1
  <2>3. QED
        BY <2>1, <2>2
<1>4. BuiltIn(t2, j) = BuiltIn(t, j)
  <2>1. \A u \in Urls : t.items[u] # None => t.items[u].raw \in DOMAIN t.raws
        BY DEF RefsInv, DocsIn
  <2>2. QED
        BY <1>1, <2>1 DEF BuiltIn, Grown
<1>5. QED
      BY <1>2, <1>3, <1>4

(* The rows of other jobs stay, and so do their counters.                  *)
LEMMA OtherJobs ==
    ASSUME NEW t \in Tables, NEW t2 \in Tables, NEW r \in Raws, Grown(t, t2, r),
           RefsInv(t), NEW j, j # r.job, NEW st, Matches(t, j, st, 0)
    PROVE  Matches(t2, j, st, 0)
<1>1. /\ \A m : RowsIn(t2, j, m) = RowsIn(t, j, m)
      /\ MediaIn(t2, j) = MediaIn(t, j) /\ BuiltIn(t2, j) = BuiltIn(t, j)
      BY GrownCounts
<1>2. QED
      BY <1>1 DEF Matches

(* The counters after a step.                                              *)
LEMMA StatsNext ==
    ASSUME StatsInv, db' = db,
           \A j \in DOMAIN own'.jobs \ Running' : Matches(own', j, own'.jobs[j].stats, 0),
           \A j \in Running' : Matches(own', j, stats', Open')
    PROVE  StatsInv'
<1>1. \A j \in DOMAIN own'.jobs \ Running' : Matches(own, j, own.jobs[j].stats, 0)'
      BY DEF Matches, RowsIn, MediaIn, BuiltIn
<1>2. \A j \in Running' : Matches(own, j, stats, Open)'
      BY DEF Matches, RowsIn, MediaIn, BuiltIn
<1>3. \A j \in DOMAIN db'.jobs : Matches(db, j, db.jobs[j].stats, 0)'
  <2>1. \A j \in DOMAIN db'.jobs : Matches(db', j, db'.jobs[j].stats, 0)
        BY DEF StatsInv
  <2>2. QED
        BY <2>1 DEF Matches, RowsIn, MediaIn, BuiltIn
<1>4. QED
      BY <1>1, <1>2, <1>3 DEF StatsInv, OwnStats

(* A row is added, and counted.                                            *)
LEMMA RowStats ==
    ASSUME TypeInv, OutcomeInv, StatsInv, Taking \/ FetchPage \/ Reporting
    PROVE  StatsInv'
<1>1. /\ own \in Tables /\ Job \in DOMAIN own.jobs /\ phase \in {"entries", "entry", "page"}
      /\ RefsInv(own) /\ stats \in [Counters -> Nat] /\ Running = {Job}
      /\ Matches(own, Job, stats, Open)
      /\ \A j \in DOMAIN own.jobs \ {Job} : Matches(own, j, own.jobs[j].stats, 0)
  <2>1. /\ own \in Tables /\ Job \in DOMAIN own.jobs
        /\ phase \in {"entries", "entry", "page"} /\ stats \in [Counters -> Nat]
        BY DEF Taking, TakeEntry, FetchPage, Reporting, TypeInv, TypeOK, PlaceInv
  <2>2. QED
        BY <2>1 DEF OutcomeInv, Running, TableInv, StatsInv, OwnStats
<1>2. \A c \in Counters : stats[c] \in Nat
      BY <1>1
<1>3. \A m : Cardinality(RowsIn(own, Job, m)) \in Nat
      BY <1>1, RowsFinite
<1>4. Cardinality(MediaIn(own, Job)) \in Nat
      BY <1>1, RowsFinite
<1>5. ASSUME NEW r \in Raws, own' \in Tables, Grown(own, own', r), r.job = Job,
             phase' \in {"entries", "entry", "page"}, db' = db,
             Matches(own', Job, stats', Open')
      PROVE  StatsInv'
  <2>1. own'.jobs = own.jobs /\ Job' = Job /\ Running' = {Job}
        BY <1>5 DEF Grown, Job, Running
  <2>2. \A j \in DOMAIN own'.jobs \ Running' : Matches(own', j, own'.jobs[j].stats, 0)
        BY <1>1, <1>5, <2>1, OtherJobs
  <2>3. QED
        BY <1>5, <2>1, <2>2, StatsNext
<1>6. CASE Taking
  <2>1. PICK u \in Urls, n \in 0 .. 1 : TakeEntry(u, n)
        BY <1>6 DEF Taking
  <2> DEFINE r == RowOf("entry", u, NewRow, n)
             S == {"entries", "raw"} \cup IF n = 1 THEN {"media"} ELSE {}
  <2>2. NewRow \in Nat
        BY <1>1, TablesType DEF NewRow
  <2>3. /\ r \in Raws /\ own' \in Tables /\ Grown(own, own', r)
        /\ r.job = Job /\ r.method = "entry" /\ r.entry = NewRow /\ r.media = n
        BY <1>1, <2>1, <2>2, AppendedGrows DEF TakeEntry
  <2> HIDE DEF r
  <2>4. /\ Cardinality(RowsIn(own', Job, "entry")) = Cardinality(RowsIn(own, Job, "entry")) + 1
        /\ \A m : m # "entry" => RowsIn(own', Job, m) = RowsIn(own, Job, m)
        /\ Cardinality(MediaIn(own', Job)) = Cardinality(MediaIn(own, Job)) + n
        /\ BuiltIn(own', Job) = BuiltIn(own, Job)
    <3>1. (r.media = 1 /\ n = 1) \/ (r.media # 1 /\ n = 0)
          BY <2>3
    <3>2. QED
          BY <1>1, <1>4, <2>3, <3>1, GrownCounts
  <2>5. /\ stats' = Counted(S) /\ phase = "entries" /\ phase' = "entry" /\ db' = db
        BY <2>1 DEF TakeEntry
  <2>6. /\ stats'["entries"] = stats["entries"] + 1 /\ stats'["raw"] = stats["raw"] + 1
        /\ stats'["media"] = stats["media"] + n
        /\ \A c \in {"failed", "rejected", "content"} : stats'[c] = stats[c]
        BY <1>2, <2>5 DEF Counted, Counters
  <2>7. Matches(own', Job, stats', 1)
        BY <1>1, <1>2, <1>3, <1>4, <2>4, <2>5, <2>6 DEF Matches, Open, Counters
  <2>8. QED
        BY <1>5, <2>3, <2>5, <2>7 DEF Open
<1>7. CASE FetchPage
  <2> DEFINE r == RowOf("page", Url, entry, own.raws[entry].media)
  <2>1. /\ r \in Raws /\ own' \in Tables /\ Grown(own, own', r)
        /\ r.job = Job /\ r.method = "page"
        BY <1>1, <1>7, EntryType, AppendedGrows DEF FetchPage
  <2> HIDE DEF r
  <2>2. /\ Cardinality(RowsIn(own', Job, "page")) = Cardinality(RowsIn(own, Job, "page")) + 1
        /\ \A m : m # "page" => RowsIn(own', Job, m) = RowsIn(own, Job, m)
        /\ MediaIn(own', Job) = MediaIn(own, Job)
        /\ BuiltIn(own', Job) = BuiltIn(own, Job)
        BY <1>1, <2>1, GrownCounts
  <2>3. /\ stats' = Counted({"raw"}) /\ phase = "entry" /\ phase' = "page" /\ db' = db
        BY <1>7 DEF FetchPage
  <2>4. /\ stats'["raw"] = stats["raw"] + 1
        /\ \A c \in Counters \ {"raw"} : stats'[c] = stats[c]
        BY <1>2, <2>3 DEF Counted, Counters
  <2>5. Matches(own', Job, stats', 1)
        BY <1>1, <1>2, <1>3, <1>4, <2>2, <2>3, <2>4 DEF Matches, Open, Counters
  <2>6. QED
        BY <1>5, <2>1, <2>3, <2>5 DEF Open
<1>8. CASE Reporting
  <2>1. PICK S \in {{}, {"rejected"}} : Evidence(S)
        BY <1>8 DEF Reporting
  <2> DEFINE r == RowOf("error", Url, entry, 0)
  <2>2. /\ r \in Raws /\ own' \in Tables /\ Grown(own, own', r)
        /\ r.job = Job /\ r.method = "error" /\ phase \in {"entry", "page"}
        BY <1>1, <1>8, <2>1, EntryType, AppendedGrows DEF Reporting, Evidence
  <2> HIDE DEF r
  <2>3. /\ Cardinality(RowsIn(own', Job, "error")) = Cardinality(RowsIn(own, Job, "error")) + 1
        /\ \A m : m # "error" => RowsIn(own', Job, m) = RowsIn(own, Job, m)
        /\ MediaIn(own', Job) = MediaIn(own, Job)
        /\ BuiltIn(own', Job) = BuiltIn(own, Job)
        BY <1>1, <2>2, GrownCounts
  <2>4. /\ stats' = Counted({"failed", "raw"} \cup S) /\ phase' = "entries" /\ db' = db
        BY <2>1 DEF Evidence
  <2>5. /\ stats'["raw"] = stats["raw"] + 1 /\ stats'["failed"] = stats["failed"] + 1
        /\ stats'["rejected"] <= stats["rejected"] + 1
        /\ \A c \in {"entries", "media", "content"} : stats'[c] = stats[c]
        BY <1>2, <2>4 DEF Counted, Counters
  <2>6. Matches(own', Job, stats', 0)
        BY <1>1, <1>2, <1>3, <1>4, <2>2, <2>3, <2>4, <2>5, CountedType
           DEF Matches, Open, Counters
  <2>7. QED
        BY <1>5, <2>2, <2>4, <2>6 DEF Open
<1>9. QED
      BY <1>6, <1>7, <1>8

(* Fewer items are built from the rows of the job.                         *)
LEMMA FewerBuilt ==
    ASSUME NEW t \in Tables, NEW t2 \in Tables, t2.raws = t.raws, NEW j,
           NEW st \in [Counters -> Nat], NEW open, Matches(t, j, st, open),
           BuiltIn(t2, j) \subseteq BuiltIn(t, j)
    PROVE  Matches(t2, j, st, open)
<1>1. /\ \A m : RowsIn(t2, j, m) = RowsIn(t, j, m)
      /\ MediaIn(t2, j) = MediaIn(t, j)
      BY DEF RowsIn, MediaIn
<1>2. IsFiniteSet(BuiltIn(t, j)) /\ st["content"] >= Cardinality(BuiltIn(t, j))
      BY DEF Matches
<1>3. /\ IsFiniteSet(BuiltIn(t2, j))
      /\ Cardinality(BuiltIn(t2, j)) <= Cardinality(BuiltIn(t, j))
      BY <1>2, FS_Subset
<1>4. Cardinality(BuiltIn(t, j)) \in Nat /\ Cardinality(BuiltIn(t2, j)) \in Nat
      BY <1>2, <1>3, FS_CardinalityType
<1>5. st["content"] \in Nat
      BY DEF Counters
<1>6. st["content"] >= Cardinality(BuiltIn(t2, j))
      BY <1>2, <1>3, <1>4, <1>5
<1>7. QED
      BY <1>1, <1>3, <1>6 DEF Matches

(* The document of an entry becomes part of an item: it is counted if the  *)
(* item is built from it.                                                  *)
LEMMA BuildStats == ASSUME TypeInv, OutcomeInv, StatsInv, Building PROVE StatsInv'
<1>1. /\ own \in Tables /\ phase \in {"entry", "page"} /\ phase' = "entries"
      /\ UNCHANGED <<db, mode, entry, page>>
      /\ Running = {Job} /\ EntryInv /\ RefsInv(own) /\ stats \in [Counters -> Nat]
      /\ Matches(own, Job, stats, 1)
      /\ \A j \in DOMAIN own.jobs \ {Job} : Matches(own, j, own.jobs[j].stats, 0)
  <2>1. /\ own \in Tables /\ phase \in {"entry", "page"} /\ phase' = "entries"
        /\ UNCHANGED <<db, mode, entry, page>> /\ stats \in [Counters -> Nat]
        BY DEF Building, TypeInv, TypeOK
  <2>2. Running = {Job} /\ Open = 1
        BY <2>1 DEF Running, Open
  <2>3. OwnStats /\ EntryInv /\ RefsInv(own)
        BY <2>1 DEF StatsInv, OutcomeInv, TableInv
  <2>4. Matches(own, Job, stats, 1)
        BY <2>2, <2>3 DEF OwnStats
  <2>5. \A j \in DOMAIN own.jobs \ {Job} : Matches(own, j, own.jobs[j].stats, 0)
        BY <2>2, <2>3 DEF OwnStats
  <2>6. QED
        BY <2>1, <2>2, <2>3, <2>4, <2>5
<1>2. PICK d \in {entry, page} : \E items \in OfPage(d) \cup OfEntry(d) :
        /\ phase = "entry" => mode = "list" /\ d = entry
        /\ phase = "page" => d = page
        /\ own' = [own EXCEPT !.items = items]
        /\ \E S \in {{"content"}, {"content", "trend"}} :
                stats' = IF BuiltFrom(items, d) THEN Counted(S) ELSE stats
      BY DEF Building
<1>3. PICK items \in OfPage(d) \cup OfEntry(d) :
        /\ own' = [own EXCEPT !.items = items]
        /\ \E S \in {{"content"}, {"content", "trend"}} :
                stats' = IF BuiltFrom(items, d) THEN Counted(S) ELSE stats
      BY <1>2
<1>4. /\ d \in DOMAIN own.raws /\ d \in Nat /\ Url \in Urls
      BY <1>1, <1>2, EntryType, TablesType DEF TypeInv, PlaceInv
<1>5. own.raws[d].job = Job
  <2>1. CASE phase = "entry"
        BY <1>2, <2>1 DEF EntryInv, OutcomeInv
  <2>2. CASE phase = "page"
        BY <1>2, <2>2 DEF EntryInv, OutcomeInv
  <2>3. QED
        BY <1>1, <2>1, <2>2
<1>6. /\ own' \in Tables /\ own'.items = items /\ own'.raws = own.raws
      /\ own'.jobs = own.jobs /\ Shape(items, d)
      BY <1>1, <1>3, <1>4, Placed, ItemsType
<1>7. /\ Running' = {Job} /\ Open' = 0
      BY <1>1, <1>6 DEF Running, Open, Job
<1>8. ASSUME NEW j \in DOMAIN own.jobs \ {Job} PROVE Matches(own', j, own'.jobs[j].stats, 0)
  <2>1. BuiltIn(own', j) \subseteq BuiltIn(own, j)
        BY <1>4, <1>5, <1>6, <1>8 DEF BuiltIn, Shape
  <2>2. own.jobs[j].stats \in [Counters -> Nat]
        BY <1>1, <1>8, TablesType DEF Jobs
  <2>3. Matches(own, j, own.jobs[j].stats, 0)
        BY <1>1, <1>8
  <2>4. QED
        BY <1>1, <1>6, <2>1, <2>2, <2>3, FewerBuilt
<1>9. /\ stats["content"] \in Nat /\ stats["entries"] \in Nat /\ stats["failed"] \in Nat
       BY <1>1 DEF Counters
<1>10. /\ \A c \in Counters \ {"content", "trend"} : stats'[c] = stats[c]
       /\ stats'["content"] =
            IF BuiltFrom(items, d) THEN stats["content"] + 1 ELSE stats["content"]
       BY <1>1, <1>3, CountedType DEF Counters
<1>11. /\ IsFiniteSet(BuiltIn(own', Job))
       /\ Cardinality(BuiltIn(own', Job)) <= stats'["content"]
  <2>1. /\ IsFiniteSet(BuiltIn(own, Job))
        /\ stats["content"] >= Cardinality(BuiltIn(own, Job))
        BY <1>1 DEF Matches
  <2>2. Cardinality(BuiltIn(own, Job)) \in Nat
        BY <2>1, FS_CardinalityType
  <2>3. CASE items[Url] # None /\ items[Url].raw = d
                /\ \A u \in Urls \ {Url} : items[u] = own.items[u]
    <3>1. BuiltFrom(items, d)
          BY <1>4, <2>3 DEF BuiltFrom
    <3>2. BuiltIn(own', Job) \subseteq BuiltIn(own, Job) \cup {Url}
          BY <1>6, <2>3 DEF BuiltIn
    <3>3. /\ IsFiniteSet(BuiltIn(own, Job) \cup {Url})
          /\ Cardinality(BuiltIn(own, Job) \cup {Url}) <= Cardinality(BuiltIn(own, Job)) + 1
      <4>1. /\ IsFiniteSet(BuiltIn(own, Job) \cup {Url})
            /\ Cardinality(BuiltIn(own, Job) \cup {Url}) =
                IF Url \in BuiltIn(own, Job) THEN Cardinality(BuiltIn(own, Job))
                ELSE Cardinality(BuiltIn(own, Job)) + 1
            BY <2>1, FS_AddElement
      <4>2. QED
            BY <2>2, <4>1
    <3>4. /\ IsFiniteSet(BuiltIn(own', Job))
          /\ Cardinality(BuiltIn(own', Job)) <= Cardinality(BuiltIn(own, Job) \cup {Url})
          BY <3>2, <3>3, FS_Subset
    <3>5. /\ Cardinality(BuiltIn(own', Job)) \in Nat
          /\ Cardinality(BuiltIn(own, Job) \cup {Url}) \in Nat
          BY <3>3, <3>4, FS_CardinalityType
    <3>6. stats'["content"] = stats["content"] + 1
          BY <1>10, <3>1
    <3>7. QED
          BY <1>9, <2>1, <2>2, <3>3, <3>4, <3>5, <3>6
  <2>4. CASE BuiltIn(own', Job) = BuiltIn(own, Job)
    <3>1. stats'["content"] \in {stats["content"], stats["content"] + 1}
          BY <1>10
    <3>2. QED
          BY <1>9, <2>1, <2>2, <2>4, <3>1
  <2>5. ASSUME NEW v \in Urls, own.items[v] # None /\ items[v] # None,
               items[v].raw = own.items[v].raw,
               \A u \in Urls \ {v} : items[u] = own.items[u]
        PROVE  BuiltIn(own', Job) = BuiltIn(own, Job)
        BY <1>6, <2>5 DEF BuiltIn
  <2>6. items = own.items => BuiltIn(own', Job) = BuiltIn(own, Job)
        BY <1>6 DEF BuiltIn
  <2>7. QED
        BY <1>6, <2>3, <2>4, <2>5, <2>6 DEF Shape
<1>12. Matches(own', Job, stats', 0)
  <2>1. /\ \A m : RowsIn(own', Job, m) = RowsIn(own, Job, m)
        /\ MediaIn(own', Job) = MediaIn(own, Job)
        BY <1>6 DEF RowsIn, MediaIn
  <2>2. /\ stats'["entries"] = stats["entries"] /\ stats'["failed"] = stats["failed"]
        /\ stats'["raw"] = stats["raw"] /\ stats'["media"] = stats["media"]
        /\ stats'["rejected"] = stats["rejected"]
        /\ stats'["content"] \in {stats["content"], stats["content"] + 1}
        BY <1>10 DEF Counters
  <2>3. /\ stats["content"] + stats["failed"] + 1 <= stats["entries"]
        BY <1>1 DEF Matches
  <2>4. stats'["content"] + stats'["failed"] + 0 <= stats'["entries"]
        BY <1>9, <2>2, <2>3
  <2>5. Cardinality(BuiltIn(own', Job)) \in Nat /\ stats'["content"] \in Nat
        BY <1>9, <1>11, <2>2, FS_CardinalityType
  <2>6. stats'["content"] >= Cardinality(BuiltIn(own', Job))
        BY <1>11, <2>5
  <2>7. QED
        BY <1>1, <1>11, <2>1, <2>2, <2>4, <2>6 DEF Matches
<1>13. QED
      BY <1>1, <1>6, <1>7, <1>8, <1>12, StatsNext

(* A crawl begins, with no rows, or has succeeded.                         *)
LEMMA JobStats ==
    ASSUME TypeInv, OutcomeInv, StatsInv, (\E m \in Modes : Begin(m)) \/ Succeed
    PROVE  StatsInv'
<1>1. /\ own \in Tables /\ phase # "raised" /\ db' = db /\ RefsInv(own) /\ OwnStats
      BY DEF Begin, Succeed, TypeInv, TypeOK, OutcomeInv, TableInv, StatsInv
<1>2. /\ Len(own.jobs) \in Nat /\ DOMAIN own.jobs = 1 .. Len(own.jobs)
      BY <1>1, TablesType
<1>3. ASSUME NEW j, NEW st, NEW open, Matches(own, j, st, open),
             own'.raws = own.raws, own'.items = own.items
      PROVE  Matches(own', j, st, open)
      BY <1>3 DEF Matches, RowsIn, MediaIn, BuiltIn
<1>4. ASSUME NEW m \in Modes, Begin(m) PROVE StatsInv'
  <2> DEFINE row == [status |-> "running", mode |-> m, stats |-> Zero]
             jobs == Append(own.jobs, row)
             k == Len(own.jobs) + 1
  <2>1. row \in Jobs
        BY DEF Jobs, Zero
  <2>2. /\ jobs \in Seq(Jobs) /\ Len(jobs) = k
        /\ \A j \in DOMAIN own.jobs : jobs[j] = own.jobs[j]
        BY <1>1, <1>2, <2>1, TablesType
  <2>3. own' = [own EXCEPT !.jobs = jobs]
        BY <1>4 DEF Begin
  <2>4. /\ own' \in Tables /\ own'.jobs = jobs /\ own'.raws = own.raws
        /\ own'.items = own.items
        BY <1>1, <2>2, <2>3 DEF Tables
  <2>5. /\ Running = {} /\ Running' = {k} /\ Open' = 0 /\ stats' = Zero
        BY <1>4, <2>2, <2>4 DEF Begin, Running, Open, Job
  <2>6. /\ \A m2 : RowsIn(own', k, m2) = {}
        /\ MediaIn(own', k) = {} /\ BuiltIn(own', k) = {}
    <3>1. k \notin DOMAIN own.jobs
          BY <1>2
    <3>2. \A d \in DOMAIN own.raws : own.raws[d].job # k
          BY <1>1, <3>1 DEF RefsInv
    <3>3. \A u \in Urls : own.items[u] # None => own.items[u].raw \in DOMAIN own.raws
          BY <1>1 DEF RefsInv, DocsIn
    <3>4. QED
          BY <2>4, <3>2, <3>3 DEF RowsIn, MediaIn, BuiltIn
  <2>7. Matches(own', k, stats', Open')
    <3>1. /\ Cardinality(BuiltIn(own', k)) = 0 /\ IsFiniteSet(BuiltIn(own', k))
          /\ Cardinality(MediaIn(own', k)) = 0
          /\ \A m2 : Cardinality(RowsIn(own', k, m2)) = 0
          BY <2>6, FS_EmptySet
    <3>2. \A c \in Counters : stats'[c] = 0
          BY <2>5 DEF Zero
    <3>3. QED
          BY <2>5, <3>1, <3>2 DEF Matches, Counters
  <2>8. ASSUME NEW j \in DOMAIN own'.jobs \ Running'
        PROVE  Matches(own', j, own'.jobs[j].stats, 0)
    <3>1. j \in DOMAIN own.jobs /\ own'.jobs[j] = own.jobs[j]
          BY <1>2, <2>2, <2>4, <2>5, <2>8, TablesType
    <3>2. Matches(own, j, own.jobs[j].stats, 0)
          BY <1>1, <2>5, <3>1 DEF OwnStats
    <3>3. QED
          BY <1>3, <2>4, <3>1, <3>2
  <2>9. QED
        BY <1>1, <2>5, <2>7, <2>8, StatsNext
<1>5. CASE Succeed
  <2>1. /\ Job \in DOMAIN own.jobs /\ phase = "entries" /\ phase' = "returned"
        /\ stats' = stats /\ mode \in Modes /\ stats \in [Counters -> Nat]
        BY <1>5 DEF Succeed, TypeInv, TypeOK, PlaceInv
  <2>2. PICK health \in {"ok", "empty"} : own' = Ended("succeeded", health, stats)
        BY <1>5 DEF Succeed
  <2>3. /\ own' \in Tables /\ own'.raws = own.raws /\ own'.items = own.items
        /\ Len(own'.jobs) = Len(own.jobs)
        /\ \A j \in DOMAIN own.jobs \ {Job} : own'.jobs[j] = own.jobs[j]
        /\ own'.jobs[Job].stats = stats
        BY <1>1, <2>1, <2>2, EndedType
  <2>4. Running = {Job} /\ Running' = {} /\ Open = 0
        BY <2>1 DEF Running, Open
  <2>5. DOMAIN own'.jobs = DOMAIN own.jobs
        BY <1>1, <2>3, TablesType
  <2>6. Matches(own, Job, stats, 0)
        BY <1>1, <2>4 DEF OwnStats
  <2>7. ASSUME NEW j \in DOMAIN own'.jobs \ Running'
        PROVE  Matches(own', j, own'.jobs[j].stats, 0)
    <3>1. CASE j = Job
          BY <1>3, <2>3, <2>6, <3>1
    <3>2. CASE j # Job
      <4>1. j \in DOMAIN own.jobs \ {Job}
            BY <2>5, <2>7, <3>2
      <4>2. Matches(own, j, own.jobs[j].stats, 0)
            BY <1>1, <2>4, <4>1 DEF OwnStats
      <4>3. QED
            BY <1>3, <2>3, <4>1, <4>2
    <3>3. QED
          BY <3>1, <3>2
  <2>8. QED
        BY <1>1, <2>4, <2>7, StatsNext
<1>6. QED
      BY <1>4, <1>5

LEMMA StatsInit == Init => StatsInv
BY DEF Init, StatsInv, OwnStats, Running

(* One step of a crawl or of its caller.                                   *)
LEMMA StatsStep ==
    ASSUME TypeInv, OutcomeInv, StatsInv, [Next]_vars
    PROVE  StatsInv'
<1>1. ASSUME phase' = "raised", db' = db PROVE StatsInv'
  <2>1. \A j \in DOMAIN db'.jobs : Matches(db', j, db'.jobs[j].stats, 0)
        BY <1>1 DEF StatsInv
  <2>2. \A j \in DOMAIN db'.jobs : Matches(db, j, db.jobs[j].stats, 0)'
        BY <2>1 DEF Matches, RowsIn, MediaIn, BuiltIn
  <2>3. QED
        BY <1>1, <2>2 DEF StatsInv
<1>2. CASE Commit
  <2>1. /\ own' = own /\ db' = own /\ phase' = "idle" /\ Running = {} /\ OwnStats
        BY <1>2 DEF Commit, StatsInv, Running
  <2>2. \A j \in DOMAIN own.jobs : Matches(own, j, own.jobs[j].stats, 0)
        BY <2>1 DEF OwnStats
  <2>3. /\ \A j \in DOMAIN own'.jobs : Matches(own', j, own'.jobs[j].stats, 0)
        /\ \A j \in DOMAIN db'.jobs : Matches(db', j, db'.jobs[j].stats, 0)
        BY <2>1, <2>2
  <2>4. QED
        BY <2>1, <2>3 DEF StatsInv, OwnStats, Running, Matches, RowsIn, MediaIn, BuiltIn
<1>3. CASE RollBack
  <2>1. own' = db /\ db' = db /\ phase' = "idle"
        BY <1>3 DEF RollBack
  <2>2. /\ \A j \in DOMAIN own'.jobs : Matches(own', j, own'.jobs[j].stats, 0)
        /\ \A j \in DOMAIN db'.jobs : Matches(db', j, db'.jobs[j].stats, 0)
        BY <2>1 DEF StatsInv
  <2>3. QED
        BY <2>1, <2>2 DEF StatsInv, OwnStats, Running, Matches, RowsIn, MediaIn, BuiltIn
<1>4. CASE UNCHANGED vars
  <2>1. db' = db /\ own' = own /\ stats' = stats /\ phase' = phase
        BY <1>4 DEF vars
  <2>2. CASE phase = "raised"
        BY <1>1, <2>1, <2>2
  <2>3. CASE phase # "raised"
    <3>1. Running' = Running /\ Open' = Open
          BY <2>1 DEF Running, Open, Job
    <3>2. OwnStats
          BY <2>3 DEF StatsInv
    <3>3. QED
          BY <2>1, <3>1, <3>2, StatsNext DEF OwnStats
  <2>4. QED
        BY <2>2, <2>3
<1>5. CASE Raising
      BY <1>1, <1>5 DEF Raising, Raise
<1>6. QED
      BY <1>2, <1>3, <1>4, <1>5, Steps, RowStats, BuildStats, JobStats

(* The counters of a committed job are those of its rows                   *)
(* (pipeline.py:39-119).                                                   *)
THEOREM StatsMatch == Spec => []StatsMatchRows
<1>1. TypeInv /\ StatsInv => StatsMatchRows
  <2> SUFFICES ASSUME TypeInv, StatsInv PROVE StatsMatchRows
      OBVIOUS
  <2>1. ASSUME NEW j
        PROVE  /\ \A m : Rows(j, m) = RowsIn(db, j, m)
               /\ {d \in Rows(j, "entry") : db.raws[d].media = 1} = MediaIn(db, j)
               /\ {u \in Urls : db.items[u] # None /\ db.raws[db.items[u].raw].job = j}
                    = BuiltIn(db, j)
        BY DEF Rows, RowsIn, MediaIn, BuiltIn
  <2>2. ASSUME NEW j \in DOMAIN db.jobs
        PROVE  /\ Matches(db, j, db.jobs[j].stats, 0)
               /\ db.jobs[j].stats["content"] \in Nat /\ db.jobs[j].stats["failed"] \in Nat
    <3>1. Matches(db, j, db.jobs[j].stats, 0)
          BY DEF StatsInv
    <3>2. db \in Tables
          BY DEF TypeInv, TypeOK
    <3>3. db.jobs[j] \in Jobs
          BY <3>2, TablesType
    <3>4. QED
          BY <3>1, <3>3 DEF Jobs, Counters
  <2>3. ASSUME NEW j \in DOMAIN db.jobs
        PROVE  LET st == db.jobs[j].stats
               IN  /\ st["entries"] = Cardinality(RowsIn(db, j, "entry"))
                   /\ st["failed"] = Cardinality(RowsIn(db, j, "error"))
                   /\ st["raw"] =
                        st["entries"] + st["failed"] + Cardinality(RowsIn(db, j, "page"))
                   /\ st["media"] = Cardinality(MediaIn(db, j))
                   /\ st["rejected"] <= st["failed"]
                   /\ st["content"] + st["failed"] <= st["entries"]
                   /\ st["content"] >= Cardinality(BuiltIn(db, j))
        BY <2>2 DEF Matches
  <2>4. QED
        BY <2>1, <2>3 DEF StatsMatchRows
<1>2. QED
      BY <1>1, TypeInit, TypeStep, OutcomeInit, OutcomeStep, StatsInit, StatsStep, PTL DEF Spec
=============================================================================
