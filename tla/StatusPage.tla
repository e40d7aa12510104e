------------------------------ MODULE StatusPage ------------------------------
(***************************************************************************)
(* The status page of the dashboard: the browser's requests for it         *)
(* (scripts/dashboard.html) and the statements that answer one             *)
(* (scripts/dashboard.py), while crawls and relay runs commit.             *)
(*                                                                         *)
(* A request is answered by one statement after another, each of which     *)
(* sees what is committed when it runs: the figures of an answer are of    *)
(* different moments.  Of the figures this module keeps those that are     *)
(* computed from two of them: the published events and the last page of    *)
(* the jobs.  The pages are cut from a list that grows and whose order is  *)
(* open among jobs that started at the same time, as do the jobs of one    *)
(* transaction.  Answers may come late, in any order or not at all.        *)
(***************************************************************************)
EXTENDS Integers, FiniteSets

CONSTANTS
    Jobs,         \* rows of crawl_jobs
    Started,      \* started_at of each job
    Limit,        \* JOBS_LIMIT, within what the server allows
    MaxEvent,     \* bound: events of the outbox
    MaxRequest,   \* bound: requests of the browser
    None          \* no answer yet

ASSUME StatusAssumption ==
    /\ IsFiniteSet(Jobs)
    /\ Started \in [Jobs -> Nat]
    /\ Limit \in 1 .. 100
    /\ MaxEvent \in Nat /\ MaxRequest \in Nat

VARIABLES
    jobs,        \* the jobs that are committed
    stored,      \* how many events are committed ...
    published,   \* ... and how many of these are published
    request,     \* the last request: what its statements have read so far
    late,        \* answers to earlier requests that have not arrived
    seq,         \* the browser: the number of its last request,
    offset,      \* the page it asks for (jobsOffset),
    shown,       \* the answer it shows (data),
    stale,       \* and whether it says that it could not be refreshed
    owed         \* jobs the first page was cut from that no page has shown
                 \* since, while the user has gone from page to page

tables == <<jobs, stored, published>>
browser == <<seq, offset, shown, stale, owed>>
vars == <<tables, request, late, browser>>

(* A request: its number, where it is, the page it asks for, the counts it *)
(* has read, the jobs when it counted them and when it read the page, and  *)
(* the page.                                                               *)
Progress == [no : 0 .. MaxRequest,
             at : {"total", "pending", "count", "page", "sent", "over"},
             offset : Nat, total : Nat, pending : Nat,
             counted : SUBSET Jobs, known : SUBSET Jobs, rows : SUBSET Jobs]

Over == [no |-> 0, at |-> "over", offset |-> 0, total |-> 0, pending |-> 0,
         counted |-> {}, known |-> {}, rows |-> {}]

Init ==
    /\ jobs = {}
    /\ stored = 0
    /\ published = 0
    /\ request = Over
    /\ late = {}
    /\ seq = 0
    /\ offset = 0
    /\ shown = None
    /\ stale = FALSE
    /\ owed = {}

-----------------------------------------------------------------------------
(* What the other processes commit.                                        *)

(* A crawl, or the crawls of a soak's iteration at once, and their events. *)
CommitCrawls(new, n) ==
    /\ new # {} /\ new \cap jobs = {}
    /\ stored + n <= MaxEvent
    /\ jobs' = jobs \cup new
    /\ stored' = stored + n
    /\ UNCHANGED <<published, request, late, browser>>

(* A relay run.                                                            *)
CommitRelay(n) ==
    /\ published + n <= stored
    /\ published' = published + n
    /\ UNCHANGED <<jobs, stored, request, late, browser>>

-----------------------------------------------------------------------------
(* _status, one statement at a time.                                       *)

(* A statement of the last request; what the statements of earlier ones    *)
(* still read is never looked at.                                          *)
Reads(from, progress) ==
    /\ request.at = from
    /\ request' = progress
    /\ UNCHANGED <<tables, late, browser>>

(* outbox_total, then outbox_pending.                                      *)
CountEvents == Reads("total", [request EXCEPT !.at = "pending", !.total = stored])

CountPending ==
    Reads("pending", [request EXCEPT !.at = "count", !.pending = stored - published])

(* jobs_total ...                                                          *)
CountJobs == Reads("count", [request EXCEPT !.at = "page", !.counted = jobs])

NotOlder(S, T) == \A j \in S, k \in T : Started[j] >= Started[k]

AtMost(n, S) == IF Cardinality(S) < n THEN Cardinality(S) ELSE n

(* A page of the jobs, newest first: some order skips the jobs before it.  *)
IsPage(rows, o) ==
    \E skipped \in SUBSET jobs :
        LET left == jobs \ skipped
        IN  /\ Cardinality(skipped) = AtMost(o, jobs)
            /\ NotOlder(skipped, left)
            /\ rows \subseteq left
            /\ Cardinality(rows) = AtMost(Limit, left)
            /\ NotOlder(rows, left \ rows)

(* ... and the page.                                                       *)
ReadPage(rows) ==
    /\ IsPage(rows, request.offset)
    /\ Reads("page", [request EXCEPT !.at = "sent", !.known = jobs, !.rows = rows])

-----------------------------------------------------------------------------
(* The browser.                                                            *)

(* What the page makes of an answer.                                       *)
Figure(answer) == answer.total - answer.pending

HasNextShort(answer) == answer.offset + Limit < Cardinality(answer.counted) - 1

HasNext(answer) == answer.offset + Limit < Cardinality(answer.counted)

HasPrev(answer) == answer.offset > 0

(* The last request is on its way.                                         *)
Waiting == request.at # "over"

(* load(): a request for a page, whatever others are on their way.         *)
Load(o) ==
    /\ seq < MaxRequest
    /\ seq' = seq + 1
    /\ offset' = o
    /\ request' = [Over EXCEPT !.no = seq + 1, !.at = "total", !.offset = o]
    /\ late' = IF request.at = "sent" THEN late \cup {request} ELSE late
    /\ UNCHANGED <<tables, shown, stale, owed>>

(* The page is loaded and refreshed, also after every change made on it.   *)
Refresh == Load(offset)

(* The buttons follow the page that is shown, and are there before one is. *)
NextPage == (shown # None => HasNext(shown)) /\ Load(offset + Limit)

PreviousPageUnchecked == (shown # None => HasPrev(shown)) /\ Load(offset - Limit)

PreviousPage ==
    /\ shown # None => HasPrev(shown)
    /\ Load(IF offset < Limit THEN 0 ELSE offset - Limit)

(* The jobs still owed after an answer: the first page begins again, a     *)
(* page beyond the next one ends the walk.                                 *)
OwedAfter(answer) ==
    IF answer.offset = 0 THEN answer.known \ answer.rows
    ELSE IF shown = None \/ answer.offset > shown.offset + Limit THEN {}
    ELSE owed \ answer.rows

(* The answer to the last request is shown ...                             *)
Answer ==
    /\ request.at = "sent"
    /\ request' = Over
    /\ shown' = request
    /\ stale' = FALSE
    /\ owed' = OwedAfter(request)
    /\ UNCHANGED <<tables, late, seq, offset>>

SupersededShown(answer) ==
    /\ late' = late \ {answer}
    /\ shown' = answer
    /\ stale' = FALSE
    /\ owed' = OwedAfter(answer)
    /\ UNCHANGED <<tables, request, seq, offset>>

(* ... the answer to an earlier one is not, nor its failure.               *)
Superseded(answer) ==
    /\ late' = late \ {answer}
    /\ UNCHANGED <<tables, request, browser>>

(* The last request fails, on its way or in a statement: what is shown     *)
(* stays, and so does its page.                                            *)
Fail ==
    /\ Waiting
    /\ request' = Over
    /\ stale' = TRUE
    /\ offset' = IF shown = None THEN offset ELSE shown.offset
    /\ UNCHANGED <<tables, late, seq, shown, owed>>

-----------------------------------------------------------------------------

PendingFirst ==
    Reads("total", [request EXCEPT !.at = "pending", !.pending = stored - published])

EventsSecond == Reads("pending", [request EXCEPT !.at = "count", !.total = stored])

ServerSwapped ==
    \/ PendingFirst \/ EventsSecond \/ CountJobs
    \/ \E rows \in SUBSET jobs : ReadPage(rows)

Server ==
    \/ CountEvents \/ CountPending \/ CountJobs
    \/ \E rows \in SUBSET jobs : ReadPage(rows)

Next ==
    \/ \E new \in SUBSET Jobs, n \in 0 .. MaxEvent : CommitCrawls(new, n)
    \/ \E n \in 1 .. MaxEvent : CommitRelay(n)
    \/ Server \/ Answer \/ Fail \/ \E answer \in late : Superseded(answer)
    \/ Refresh \/ NextPage \/ PreviousPage

Spec == Init /\ [][Next]_vars

-----------------------------------------------------------------------------
(* Properties.                                                             *)

(* Types, and that requests are numbered in the order they are sent        *)
(* (dashboard.html:54, 65).                                                *)
TypeOK ==
    /\ jobs \subseteq Jobs
    /\ stored \in 0 .. MaxEvent
    /\ published \in 0 .. stored
    /\ request \in Progress
    /\ late \subseteq Progress
    /\ seq \in 0 .. MaxRequest
    /\ offset \in Nat
    /\ shown \in Progress \cup {None}
    /\ stale \in BOOLEAN
    /\ owed \subseteq jobs
    /\ Waiting => request.no = seq
    /\ \A answer \in late : answer.no < seq

(* The page never shows more events as published than there are, though    *)
(* the two counts it subtracts are of different moments (it may show fewer,*)
(* even less than none) (dashboard.py:241-250).                            *)
PublishedNotOverstated == shown # None => Figure(shown) <= published

(* Who goes through the pages of the jobs until no next one is offered has *)
(* seen every job the first page was cut from, however many were committed *)
(* meanwhile, unless one was committed between the count and the page of   *)
(* the last answer, or another job started at the same time                *)
(* (dashboard.py:296-302, 397-403).                                        *)
JobsShown ==
    shown # None /\ ~HasNext(shown) =>
        \A j \in owed :
            \/ shown.known # shown.counted
            \/ \E k \in jobs \ {j} : Started[k] = Started[j]

(* Whatever order answers and failures come in, the buttons go on from the *)
(* page that is shown once no request is on its way, and that is the answer*)
(* to the last request or is marked as stale (dashboard.html:65, 89).      *)
ViewSettled ==
    ~Waiting /\ shown # None =>
        /\ offset = shown.offset
        /\ stale \/ shown.no = seq
=============================================================================
