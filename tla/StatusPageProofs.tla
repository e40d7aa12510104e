--------------------------- MODULE StatusPageProofs ---------------------------
(* Proofs about StatusPage, for any jobs, page size, number of events and  *)
(* of requests.                                                            *)
EXTENDS StatusPage, FiniteSetTheorems, TLAPS

USE StatusAssumption

-----------------------------------------------------------------------------
(* What the statements of a request have read.                             *)

Counted == request.at \in {"count", "page", "sent"}

(* The figure is never ahead of the tables: the second count it rests on   *)
(* is of a later moment than the first.                                    *)
FigureInv ==
    /\ request.at = "pending" => request.total <= stored
    /\ Counted => Figure(request) <= published
    /\ shown # None => Figure(shown) <= published

(* Jobs are never deleted: a page was cut from some of those there are,    *)
(* and from all of which the page that is shown was cut.                   *)
KnownInv ==
    /\ request.at = "sent" =>
            /\ request.known \subseteq jobs
            /\ shown # None => shown.known \subseteq request.known
    /\ shown # None => shown.known \subseteq jobs

(* The buttons go on from the page of the last request, or of the answer   *)
(* to it.                                                                  *)
ViewInv == (Waiting => offset = request.offset) /\ ViewSettled

TypeInv == TypeOK /\ KnownInv /\ FigureInv /\ ViewInv

(* No request is a request like any other.                                 *)
LEMMA OverType == Over \in Progress /\ Over.at = "over"
BY DEF Over, Progress

(* Nothing is stored, asked for or shown.                                  *)
LEMMA TypeInit == Init => TypeInv
<1> SUFFICES ASSUME Init PROVE TypeInv
    OBVIOUS
<1>0. stale \in BOOLEAN
      BY Zenon DEF Init
<1>1. TypeOK
  <2>1. request \in Progress /\ ~Waiting
        BY OverType DEF Init, Waiting
  <2>2. QED
        BY <1>0, <2>1 DEF Init, TypeOK
<1>2. KnownInv /\ FigureInv /\ ViewInv
      BY OverType DEF Init, KnownInv, FigureInv, ViewInv, ViewSettled, Counted, Waiting
<1>3. QED
      BY <1>1, <1>2 DEF TypeInv

(* What the other processes commit adds jobs, events and publications.     *)
LEMMA CommitsKeep ==
    ASSUME TypeInv,
           \/ \E new \in SUBSET Jobs, n \in 0 .. MaxEvent : CommitCrawls(new, n)
           \/ \E n \in 1 .. MaxEvent : CommitRelay(n)
    PROVE  TypeInv'
<1>1. /\ UNCHANGED <<request, late, seq, offset, shown, stale, owed>>
      /\ jobs \subseteq jobs' /\ jobs' \subseteq Jobs
      /\ stored <= stored' /\ published <= published'
      /\ stored' \in 0 .. MaxEvent /\ published' \in 0 .. stored'
      BY DEF CommitCrawls, CommitRelay, browser, TypeInv, TypeOK
<1>2. TypeOK'
      BY <1>1 DEF TypeInv, TypeOK, Waiting
<1>3. KnownInv' /\ ViewInv'
      BY <1>1 DEF TypeInv, KnownInv, ViewInv, ViewSettled, Waiting
<1>4. FigureInv'
      BY <1>1 DEF TypeInv, TypeOK, FigureInv, Counted, Figure, Progress
<1>5. QED
      BY <1>2, <1>3, <1>4 DEF TypeInv

(* A statement reads the tables as they are.                               *)
LEMMA ServerKeeps == ASSUME TypeInv, Server PROVE TypeInv'
<1>0. /\ request \in Progress /\ jobs \subseteq Jobs
      /\ stored \in Nat /\ stored - published \in Nat
      BY DEF TypeInv, TypeOK
<1>1. /\ UNCHANGED <<jobs, stored, published, late, seq, offset, shown, stale, owed>>
      /\ request' \in Progress
      /\ request'.no = request.no /\ request'.offset = request.offset
      /\ request.at # "over" /\ request'.at # "over"
      /\ request'.at = "sent" => request'.known = jobs
  <2>1. CASE CountEvents
        BY <1>0, <2>1 DEF CountEvents, Reads, tables, browser, Progress
  <2>2. CASE CountPending
        BY <1>0, <2>2 DEF CountPending, Reads, tables, browser, Progress
  <2>3. CASE CountJobs
        BY <1>0, <2>3 DEF CountJobs, Reads, tables, browser, Progress
  <2>4. ASSUME NEW rows \in SUBSET jobs, ReadPage(rows)
        PROVE  <1>1!:
        BY <1>0, <2>4 DEF ReadPage, Reads, tables, browser, Progress
  <2>5. QED
        BY <2>1, <2>2, <2>3, <2>4 DEF Server
<1>2. TypeOK'
      BY <1>1 DEF TypeInv, TypeOK, Waiting
<1>3. KnownInv'
      BY <1>1 DEF TypeInv, KnownInv
<1>4. ViewInv'
      BY <1>1 DEF TypeInv, ViewInv, ViewSettled, Waiting
<1>5. FigureInv'
  <2>1. CASE CountEvents
        BY <1>1, <2>1 DEF CountEvents, Reads, TypeInv, TypeOK, FigureInv, Counted,
           Figure, Progress
  <2>2. CASE CountPending
        BY <1>1, <2>2 DEF CountPending, Reads, TypeInv, TypeOK, FigureInv, Counted,
           Figure, Progress
  <2>3. CASE CountJobs \/ \E rows \in SUBSET jobs : ReadPage(rows)
        BY <1>1, <2>3 DEF CountJobs, ReadPage, Reads, TypeInv, TypeOK, FigureInv,
           Counted, Figure, Progress
  <2>4. QED
        BY <2>1, <2>2, <2>3 DEF Server
<1>6. QED
      BY <1>2, <1>3, <1>4, <1>5 DEF TypeInv

(* A request supersedes the one before it.                                 *)
LEMMA LoadKeeps == ASSUME TypeInv, NEW o \in Nat, Load(o) PROVE TypeInv'
<1>1. /\ UNCHANGED <<jobs, stored, published, shown, stale, owed>>
      /\ seq' = seq + 1 /\ seq' \in 0 .. MaxRequest /\ offset' = o
      /\ request' = [Over EXCEPT !.no = seq + 1, !.at = "total", !.offset = o]
      /\ request' \in Progress
      /\ late' \subseteq late \cup (IF Waiting THEN {request} ELSE {})
  <2>1. /\ seq + 1 \in 0 .. MaxRequest /\ request \in Progress
        /\ request' = [Over EXCEPT !.no = seq + 1, !.at = "total", !.offset = o]
        BY DEF Load, TypeInv, TypeOK
  <2>2. request' \in Progress
        BY <2>1 DEF Over, Progress
  <2>3. QED
        BY <2>1, <2>2 DEF Load, tables, Waiting
<1>2. /\ request'.no = seq' /\ request'.at = "total" /\ request'.offset = offset'
      BY <1>1 DEF Over
<1>3. \A answer \in late' : answer.no < seq'
      BY <1>1 DEF TypeInv, TypeOK, Progress
<1>4. TypeOK'
      BY <1>1, <1>2, <1>3 DEF TypeInv, TypeOK, Waiting
<1>5. KnownInv' /\ FigureInv' /\ ViewInv'
      BY <1>1, <1>2 DEF TypeInv, KnownInv, FigureInv, ViewInv, ViewSettled, Counted, Waiting
<1>6. QED
      BY <1>4, <1>5 DEF TypeInv

(* The buttons ask for a page.                                             *)
LEMMA ButtonsLoad ==
    ASSUME TypeOK, Refresh \/ NextPage \/ PreviousPage
    PROVE  \E o \in Nat : Load(o)
BY DEF TypeOK, Refresh, NextPage, PreviousPage

(* The answer to the last request is shown.                                *)
LEMMA AnswerKeeps == ASSUME TypeInv, Answer PROVE TypeInv'
<1>1. /\ UNCHANGED <<jobs, stored, published, late, seq, offset>>
      /\ request.at = "sent" /\ request' = Over /\ shown' = request /\ stale' = FALSE
      /\ owed' = OwedAfter(request)
      BY DEF Answer, tables
<1>2. owed' \subseteq jobs
      BY <1>1 DEF TypeInv, TypeOK, KnownInv, OwedAfter
<1>3. TypeOK'
  <2>1. stale' \in BOOLEAN
        BY <1>1, Zenon
  <2>2. request' \in Progress /\ ~Waiting'
        BY <1>1, OverType DEF Waiting
  <2>3. QED
        BY <1>1, <1>2, <2>1, <2>2 DEF TypeInv, TypeOK
<1>4. KnownInv' /\ FigureInv' /\ ViewInv'
      BY <1>1 DEF TypeInv, TypeOK, KnownInv, FigureInv, ViewInv, ViewSettled, Counted,
         Waiting, Over
<1>5. QED
      BY <1>3, <1>4 DEF TypeInv

(* A failure, and what comes too late, leave what is shown.                *)
LEMMA FailKeeps ==
    ASSUME TypeInv, Fail \/ \E answer \in late : Superseded(answer) PROVE TypeInv'
<1>1. CASE Fail
  <2>1. /\ UNCHANGED <<jobs, stored, published, late, seq, shown, owed>>
        /\ request' = Over /\ stale' = TRUE
        /\ offset' = IF shown = None THEN offset ELSE shown.offset
        BY <1>1 DEF Fail, tables
  <2>2. TypeOK'
        BY <2>1 DEF TypeInv, TypeOK, Over, Progress, Waiting
  <2>3. KnownInv' /\ FigureInv' /\ ViewInv'
        BY <2>1 DEF TypeInv, KnownInv, FigureInv, ViewInv, ViewSettled, Counted,
           Waiting, Over
  <2>4. QED
        BY <2>2, <2>3 DEF TypeInv
<1>2. CASE \E answer \in late : Superseded(answer)
  <2>1. /\ UNCHANGED <<jobs, stored, published, request, seq, offset, shown, stale, owed>>
        /\ late' \subseteq late
        BY <1>2 DEF Superseded, tables, browser
  <2>2. QED
        BY <2>1 DEF TypeInv, TypeOK, KnownInv, FigureInv, ViewInv, ViewSettled, Counted,
           Waiting, Figure
<1>3. QED
      BY <1>1, <1>2

(* One step of the server, the browser or another process.                 *)
LEMMA TypeStep == TypeInv /\ [Next]_vars => TypeInv'
<1> SUFFICES ASSUME TypeInv, [Next]_vars PROVE TypeInv'
    OBVIOUS
<1>1. CASE UNCHANGED vars
      BY <1>1 DEF vars, tables, browser, TypeInv, TypeOK, KnownInv, FigureInv, ViewInv,
         ViewSettled, Counted, Waiting, Figure
<1>2. CASE Refresh \/ NextPage \/ PreviousPage
      BY <1>2, ButtonsLoad, LoadKeeps DEF TypeInv
<1>3. QED
      BY <1>1, <1>2, CommitsKeep, ServerKeeps, AnswerKeeps, FailKeeps DEF Next

(* The types are kept, and the order of the requests (dashboard.html:65).  *)
THEOREM TypeCorrect == Spec => []TypeOK
<1>1. TypeInv => TypeOK
      BY DEF TypeInv
<1>2. QED
      BY <1>1, TypeInit, TypeStep, PTL DEF Spec

(* The page never shows more events as published than there are            *)
(* (dashboard.py:241-250): the pending events are counted after all of     *)
(* them.                                                                   *)
THEOREM NeverOverstated == Spec => []PublishedNotOverstated
<1>1. TypeInv => PublishedNotOverstated
      BY DEF TypeInv, FigureInv, PublishedNotOverstated
<1>2. QED
      BY <1>1, TypeInit, TypeStep, PTL DEF Spec

(* Once no request is on its way, the buttons and what is shown agree      *)
(* (dashboard.html:65, 89).                                                *)
THEOREM ViewSettles == Spec => []ViewSettled
<1>1. TypeInv => ViewSettled
      BY DEF TypeInv, ViewInv
<1>2. QED
      BY <1>1, TypeInit, TypeStep, PTL DEF Spec
-----------------------------------------------------------------------------
(* The walk through the pages.                                             *)

(* The jobs of S that come before j in every order of a page.              *)
Newer(j, S) == {k \in S : Started[k] > Started[j]}

(* No other job of S started when j did.                                   *)
Single(j, S) == \A k \in S \ {j} : Started[k] # Started[j]

(* IsPage, of the jobs that were there when the page was read.             *)
CutFrom(rows, o, S) ==
    \E skipped \in SUBSET S :
        /\ Cardinality(skipped) = AtMost(o, S)
        /\ NotOlder(skipped, S \ skipped)
        /\ rows \subseteq S \ skipped
        /\ Cardinality(rows) = AtMost(Limit, S \ skipped)
        /\ NotOlder(rows, (S \ skipped) \ rows)

(* A job that is owed lies beyond the page that is shown: as many jobs as  *)
(* would fill the pages up to this one are newer.                          *)
WalkInv ==
    /\ request.at = "sent" => CutFrom(request.rows, request.offset, request.known)
    /\ shown # None => \A j \in owed :
            /\ j \in shown.known
            /\ Single(j, jobs) =>
                    Cardinality(Newer(j, shown.known)) >= shown.offset + Limit

(* Subsets of the jobs are finite, and more of them count more.            *)
LEMMA JobsCount ==
    ASSUME NEW S \in SUBSET Jobs, NEW T \in SUBSET S
    PROVE  /\ IsFiniteSet(T) /\ Cardinality(T) \in Nat /\ Cardinality(S) \in Nat
           /\ Cardinality(T) <= Cardinality(S)
           /\ Cardinality(S) = Cardinality(T) => S = T
<1>1. IsFiniteSet(S)
      BY FS_Subset
<1>2. QED
      BY <1>1, FS_Subset, FS_CardinalityType

(* A job that no page before this one could show, and this one does not,   *)
(* lies beyond it.                                                         *)
LEMMA Beyond ==
    ASSUME NEW S \in SUBSET Jobs, NEW o \in Nat, NEW rows, CutFrom(rows, o, S),
           NEW j \in S \ rows, Single(j, S), Cardinality(Newer(j, S)) >= o
    PROVE  Cardinality(Newer(j, S)) >= o + Limit
<1>1. PICK skipped \in SUBSET S :
            /\ Cardinality(skipped) = AtMost(o, S)
            /\ NotOlder(skipped, S \ skipped)
            /\ rows \subseteq S \ skipped
            /\ Cardinality(rows) = AtMost(Limit, S \ skipped)
            /\ NotOlder(rows, (S \ skipped) \ rows)
      BY DEF CutFrom
<1> DEFINE left == S \ skipped
<1>2. /\ \A k \in S : Started[k] \in Nat
      /\ Newer(j, S) \in SUBSET S /\ rows \in SUBSET left /\ left \in SUBSET S
      /\ skipped \in SUBSET Jobs
      BY <1>1 DEF Newer
<1>3. Cardinality(S) \in Nat /\ Cardinality(left) \in Nat /\ Cardinality(skipped) \in Nat
      BY <1>2, JobsCount
<1>4. j \notin skipped
  <2> SUFFICES ASSUME j \in skipped PROVE FALSE
      OBVIOUS
  <2>1. Newer(j, S) \in SUBSET (skipped \ {j})
        BY <1>1, <1>2 DEF Newer, NotOlder
  <2>2. IsFiniteSet(skipped) /\ Cardinality(skipped \ {j}) = Cardinality(skipped) - 1
        BY <1>2, JobsCount, FS_RemoveElement
  <2>3. Cardinality(Newer(j, S)) <= Cardinality(skipped) - 1
        BY <1>2, <2>1, <2>2, JobsCount
  <2>4. Cardinality(skipped) <= o
        BY <1>1, <1>3 DEF AtMost
  <2>5. Cardinality(Newer(j, S)) \in Nat
        BY <1>2, JobsCount
  <2>6. QED
        BY <1>3, <2>3, <2>4, <2>5
<1>5. Cardinality(skipped) = o
      BY <1>1, <1>3, <1>4, JobsCount DEF AtMost
<1>6. Cardinality(rows) = Limit
  <2>1. Cardinality(rows) = Cardinality(left) => rows = left
        BY <1>2, JobsCount
  <2>2. rows # left
        BY <1>4
  <2>3. QED
        BY <1>1, <2>1, <2>2 DEF AtMost
<1>7. skipped \cup rows \in SUBSET Newer(j, S)
  <2>1. j \in left /\ j \in left \ rows /\ \A k \in S \ {j} : Started[k] # Started[j]
        BY <1>4 DEF Single
  <2>2. \A k \in skipped \cup rows : k \in S /\ k # j /\ Started[k] >= Started[j]
        BY <1>1, <1>4, <2>1 DEF NotOlder
  <2>3. QED
        BY <1>2, <2>1, <2>2 DEF Newer
<1>8. Cardinality(skipped \cup rows) = o + Limit
  <2>1. IsFiniteSet(skipped) /\ IsFiniteSet(rows) /\ skipped \cap rows = {}
        BY <1>1, <1>2, JobsCount
  <2>2. Cardinality(skipped \cup rows)
            = Cardinality(skipped) + Cardinality(rows) - Cardinality({})
        BY <2>1, FS_Union
  <2>3. QED
        BY <1>5, <1>6, <2>2, FS_EmptySet
<1>9. QED
      BY <1>2, <1>7, <1>8, JobsCount

(* Nothing is owed when the page is loaded.                                *)
LEMMA WalkInit == Init => WalkInv
BY OverType DEF Init, WalkInv

(* The answer to the last request takes the walk on, or begins it again.   *)
LEMMA AnswerWalks == ASSUME TypeInv, WalkInv, Answer PROVE WalkInv'
<1>1. /\ request.at = "sent" /\ request' = Over /\ shown' = request /\ jobs' = jobs
      /\ owed' = OwedAfter(request)
      /\ request \in Progress /\ request.known \in SUBSET Jobs
      /\ request.known \subseteq jobs
      /\ CutFrom(request.rows, request.offset, request.known)
      BY DEF Answer, tables, TypeInv, TypeOK, KnownInv, WalkInv, Progress
<1>2. ASSUME NEW j \in owed'
      PROVE  j \in request.known /\ j \notin request.rows
      BY <1>1, <1>2 DEF OwedAfter, TypeInv, KnownInv, WalkInv
<1>3. ASSUME NEW j \in owed', Single(j, jobs)
      PROVE  Cardinality(Newer(j, request.known)) >= request.offset + Limit
  <2>1. Cardinality(Newer(j, request.known)) \in Nat
        BY <1>1, JobsCount DEF Newer
  <2>2. Cardinality(Newer(j, request.known)) >= request.offset
    <3>1. CASE request.offset = 0
          BY <2>1, <3>1
    <3>2. CASE request.offset # 0
      <4>1. /\ j \in owed /\ shown # None
            /\ request.offset <= shown.offset + Limit
            BY <1>1, <3>2 DEF OwedAfter, TypeInv, TypeOK, Progress
      <4>2. shown \in Progress /\ shown.known \in SUBSET request.known
            BY <1>1, <4>1 DEF TypeInv, TypeOK, KnownInv
      <4>3. Cardinality(Newer(j, shown.known)) >= shown.offset + Limit
            BY <1>3, <4>1 DEF WalkInv
      <4>4. /\ Newer(j, shown.known) \in SUBSET Newer(j, request.known)
            /\ Newer(j, request.known) \in SUBSET Jobs
            BY <1>1, <4>2 DEF Newer
      <4>5. Cardinality(Newer(j, shown.known)) <= Cardinality(Newer(j, request.known))
            /\ Cardinality(Newer(j, shown.known)) \in Nat
            BY <4>4, JobsCount
      <4>6. QED
            BY <1>1, <2>1, <4>1, <4>2, <4>3, <4>5 DEF Progress
    <3>3. QED
          BY <3>1, <3>2
  <2>3. Single(j, request.known) /\ request.offset \in Nat
        BY <1>1, <1>3 DEF Single, Progress
  <2>4. QED
        BY <1>1, <1>2, <2>2, <2>3, Beyond
<1>4. QED
      BY <1>1, <1>2, <1>3, OverType DEF WalkInv

(* Any other step leaves the walk; jobs that are committed may end that a  *)
(* job is single, and never begin it.                                      *)
LEMMA WalkStep == TypeInv /\ WalkInv /\ [Next]_vars => WalkInv'
<1> SUFFICES ASSUME TypeInv, WalkInv, [Next]_vars PROVE WalkInv'
    OBVIOUS
<1>1. CASE Answer
      BY <1>1, AnswerWalks
<1>2. ASSUME jobs \subseteq jobs', UNCHANGED <<shown, owed>>,
             request'.at = "sent" =>
                CutFrom(request.rows, request.offset, request.known)' 
      PROVE  WalkInv'
  <2>1. \A j : Single(j, jobs)' => Single(j, jobs)
        BY <1>2 DEF Single
  <2>2. QED
        BY <1>2, <2>1 DEF WalkInv, Newer
<1>3. ASSUME NEW rows \in SUBSET jobs, ReadPage(rows) PROVE WalkInv'
  <2>1. /\ request' = [request EXCEPT !.at = "sent", !.known = jobs, !.rows = rows]
        /\ UNCHANGED <<jobs, shown, owed>> /\ IsPage(rows, request.offset)
        /\ request \in Progress
        BY <1>3 DEF ReadPage, Reads, tables, browser, TypeInv, TypeOK
  <2>2. request'.rows = rows /\ request'.offset = request.offset /\ request'.known = jobs
        BY <2>1 DEF Progress
  <2>3. CutFrom(rows, request.offset, jobs)
        BY <2>1 DEF IsPage, CutFrom
  <2>4. CutFrom(request'.rows, request'.offset, request'.known)
        BY <2>2, <2>3
  <2>5. CutFrom(request.rows, request.offset, request.known)'
        BY <2>4 DEF CutFrom, AtMost, NotOlder
  <2>6. QED
        BY <1>2, <2>1, <2>5
<1>4. CASE UNCHANGED <<request, shown, owed>> /\ jobs \subseteq jobs'
      BY <1>2, <1>4 DEF WalkInv, CutFrom, AtMost, NotOlder
<1>5. CASE UNCHANGED <<jobs, shown, owed>> /\ request'.at # "sent"
      BY <1>2, <1>5
<1>6. CASE UNCHANGED vars
      BY <1>4, <1>6 DEF vars, tables, browser
<1>7. ASSUME \/ \E new \in SUBSET Jobs, n \in 0 .. MaxEvent : CommitCrawls(new, n)
             \/ \E n \in 1 .. MaxEvent : CommitRelay(n)
             \/ \E answer \in late : Superseded(answer)
      PROVE  WalkInv'
      BY <1>4, <1>7 DEF CommitCrawls, CommitRelay, Superseded, tables, browser
<1>8. ASSUME CountEvents \/ CountPending \/ CountJobs PROVE WalkInv'
      BY <1>5, <1>8 DEF CountEvents, CountPending, CountJobs, Reads, tables, browser,
         TypeInv, TypeOK, Progress
<1>9. CASE Fail
      BY <1>5, <1>9, OverType DEF Fail, tables
<1>10. CASE Refresh \/ NextPage \/ PreviousPage
  <2>1. PICK o \in Nat : Load(o)
        BY <1>10, ButtonsLoad DEF TypeInv
  <2>2. QED
        BY <1>5, <2>1 DEF Load, tables, Over
<1>11. QED
      BY <1>1, <1>3, <1>6, <1>7, <1>8, <1>9, <1>10 DEF Next, Server

(* Who goes through the pages until none is offered has seen every job the *)
(* first page was cut from, unless a job was committed between the count   *)
(* and the page of the last answer, or two started at the same time        *)
(* (dashboard.py:296-302, 397-403): what is left would be older than as    *)
(* many jobs as there are.                                                 *)
THEOREM WalkShowsJobs == Spec => []JobsShown
<1>1. TypeInv /\ WalkInv => JobsShown
  <2> SUFFICES ASSUME TypeInv, WalkInv, shown # None, ~HasNext(shown), NEW j \in owed,
                      shown.known = shown.counted,
                      ~\E k \in jobs \ {j} : Started[k] = Started[j]
               PROVE  FALSE
      BY DEF JobsShown
  <2>1. /\ shown \in Progress /\ shown.known \in SUBSET Jobs /\ shown.offset \in Nat
        /\ j \in shown.known /\ j \in Jobs
        BY DEF TypeInv, TypeOK, WalkInv, Progress
  <2>2. Cardinality(Newer(j, shown.known)) >= shown.offset + Limit
        BY DEF WalkInv, Single
  <2>3. /\ Newer(j, shown.known) \in SUBSET shown.known
        /\ Newer(j, shown.known) # shown.known
        BY <2>1 DEF Newer
  <2>4. /\ Cardinality(Newer(j, shown.known)) < Cardinality(shown.known)
        /\ Cardinality(shown.known) \in Nat
        /\ Cardinality(Newer(j, shown.known)) \in Nat
    <3>1. /\ Cardinality(Newer(j, shown.known)) <= Cardinality(shown.known)
          /\ Cardinality(shown.known) \in Nat
          /\ Cardinality(Newer(j, shown.known)) \in Nat
          /\ Cardinality(shown.known) # Cardinality(Newer(j, shown.known))
          BY <2>1, <2>3, JobsCount
    <3>2. QED
          BY <3>1
  <2>5. shown.offset + Limit >= Cardinality(shown.known)
    <3>1. ~(shown.offset + Limit < Cardinality(shown.known))
          BY DEF HasNext
    <3>2. QED
          BY <2>1, <2>4, <3>1
  <2>6. QED
        BY <2>1, <2>2, <2>4, <2>5
<1>2. QED
      BY <1>1, TypeInit, TypeStep, WalkInit, WalkStep, PTL DEF Spec
=============================================================================
