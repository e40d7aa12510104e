------------------------------ MODULE Sources -------------------------------
(***************************************************************************)
(* The table of sources while requests of the dashboard create sources     *)
(* (scripts/dashboard.py) and OPML files are imported (sources/opml.py),   *)
(* each in a session of its own.  create_source looks for the feed, then   *)
(* inserts the source and its health; a feed that is there is refused,     *)
(* which ends a request and is passed over by an import.  Between the look *)
(* and the INSERT other sessions go on: the unique key of feed_url has the *)
(* last word, with an error that nothing between here and the session's    *)
(* end catches.                                                            *)
(*                                                                         *)
(* A row that is rolled back leaves its id to another one: nothing ever    *)
(* refers to it.  No code deletes a source.                                *)
(***************************************************************************)
EXTENDS Naturals, Sequences, FiniteSets

CONSTANTS
    Sessions,   \* requests and imports that may run at the same time
    Feeds,      \* feed_urls
    Files,      \* OPML files: the sequences of their feeds
    MaxSource,  \* bound: ids of sources are 1 .. MaxSource
    NoFeed,     \* the feed_url of a source without a feed (NULL)
    None        \* no row, no session

ASSUME SourcesAssumption ==
    /\ MaxSource \in Nat
    /\ Files \subseteq Seq(Feeds)
    /\ NoFeed \notin Feeds

Ids == 1 .. MaxSource

VARIABLES
    source,   \* the rows, committed or not
    session   \* the sessions

vars == <<source, session>>

(* A row: its feed_url, whether its health row is there, and the session   *)
(* that inserted it, until the commit.                                     *)
Rows == [feed : Feeds \cup {NoFeed}, health : BOOLEAN, tx : Sessions \cup {None}]

ASSUME NoneAssumption == None \notin Sessions \cup Rows

(* A session: the feeds it goes through, the next of them, the row it is   *)
(* at, and how many sources it has created.                                *)
States == [pc : {"idle", "look", "insert", "health"},
           work : {"none", "create", "import"},
           file : Seq(Feeds \cup {NoFeed}), next : Nat, id : 0 .. MaxSource,
           imported : Nat]

Idle == [pc |-> "idle", work |-> "none", file |-> <<>>, next |-> 1, id |-> 0,
         imported |-> 0]

Init ==
    /\ source = [i \in Ids |-> None]
    /\ session = [s \in Sessions |-> Idle]

-----------------------------------------------------------------------------
(* What a session sees and what stops it.                                  *)

Committed(i) == source[i] # None /\ source[i].tx = None

Own(s, i) == source[i] # None /\ source[i].tx = s

LeftToDo(s) == session[s].next <= Len(session[s].file)

Wanted(s) == session[s].file[session[s].next]

(* The rows with the feed a session wants to create; NULLs are all         *)
(* different.                                                              *)
OfWanted(s) ==
    {i \in Ids : source[i] # None /\ Wanted(s) # NoFeed /\ source[i].feed = Wanted(s)}

(* The look finds the feed: committed, or inserted by the session itself.  *)
Found(s) == \E i \in OfWanted(s) : Committed(i) \/ Own(s, i)

TakenNever(s) == FALSE

(* The unique key of feed_url: a row was committed since the look ...      *)
Taken(s) == \E i \in OfWanted(s) : Committed(i)

(* ... or is inserted by another transaction, which has not ended.         *)
WaitsFor(s, other) ==
    /\ session[s].pc = "insert"
    /\ other # s
    /\ \E i \in OfWanted(s) : Own(other, i)

(* Transactions that wait for each other in a circle.                      *)
Deadlocked(s) ==
    \E T \in SUBSET Sessions :
        /\ s \in T
        /\ \A t \in T : /\ \E u \in T : WaitsFor(t, u)
                        /\ \E u \in T : WaitsFor(u, t)

-----------------------------------------------------------------------------
(* Sessions begin and end.                                                 *)

Begin(s, work, file) ==
    /\ session[s].pc = "idle"
    /\ session' = [session EXCEPT ![s] =
            [Idle EXCEPT !.pc = "look", !.work = work, !.file = file]]
    /\ UNCHANGED source

(* Bound: there are ids for every feed and for the sources without one.    *)
RoomForNoFeed ==
    Cardinality({i \in Ids : source[i] # None /\ source[i].feed = NoFeed})
        + Cardinality({s \in Sessions : session[s].file = <<NoFeed>>})
        + Cardinality(Feeds) < MaxSource

(* POST /api/sources, after its checks.                                    *)
BeginCreate(s, f) ==
    /\ f = NoFeed => RoomForNoFeed
    /\ Begin(s, "create", <<f>>)

(* source import.                                                          *)
BeginImport(s, file) == Begin(s, "import", file)

RollBackLater(s) ==
    /\ session' = [session EXCEPT ![s] = Idle]
    /\ UNCHANGED source

RollBack(s) ==
    /\ source' = [i \in Ids |-> IF Own(s, i) THEN None ELSE source[i]]
    /\ session' = [session EXCEPT ![s] = Idle]

CommitEarly(s) ==
    /\ session[s].pc = "health"
    /\ source' = [i \in Ids |->
            IF Own(s, i) THEN [source[i] EXCEPT !.tx = None] ELSE source[i]]
    /\ session' = [session EXCEPT ![s] = Idle]

Commit(s) ==
    /\ session[s].pc = "look"
    /\ ~LeftToDo(s)
    /\ source' = [i \in Ids |->
            IF Own(s, i) THEN [source[i] EXCEPT !.tx = None] ELSE source[i]]
    /\ session' = [session EXCEPT ![s] = Idle]

(* The process dies, or its connection does.                               *)
Crash(s) == session[s].pc # "idle" /\ RollBack(s)

-----------------------------------------------------------------------------
(* create_source.                                                          *)

(* The feed is not there: the source is to be inserted.                    *)
Look(s) ==
    /\ session[s].pc = "look"
    /\ LeftToDo(s)
    /\ ~Found(s)
    /\ session' = [session EXCEPT ![s].pc = "insert"]
    /\ UNCHANGED source

PassOverRest(s) ==
    /\ session[s].pc = "look"
    /\ LeftToDo(s)
    /\ Found(s)
    /\ session[s].work = "import"
    /\ session' = [session EXCEPT ![s].next = Len(session[s].file) + 1]
    /\ UNCHANGED source

(* It is there: ValueError, which an import passes over ...                *)
PassOver(s) ==
    /\ session[s].pc = "look"
    /\ LeftToDo(s)
    /\ Found(s)
    /\ session[s].work = "import"
    /\ session' = [session EXCEPT ![s].next = @ + 1]
    /\ UNCHANGED source

(* ... and a request is refused with.                                      *)
Refuse(s) ==
    /\ session[s].pc = "look"
    /\ LeftToDo(s)
    /\ Found(s)
    /\ session[s].work = "create"
    /\ RollBack(s)

Insert(s) ==
    /\ session[s].pc = "insert"
    /\ ~Taken(s)
    /\ \A other \in Sessions : ~WaitsFor(s, other)
    /\ \E i \in Ids :
        /\ source[i] = None
        /\ \A j \in 1 .. i - 1 : source[j] # None
        /\ source' = [source EXCEPT ![i] =
                [feed |-> Wanted(s), health |-> FALSE, tx |-> s]]
        /\ session' = [session EXCEPT ![s].pc = "health", ![s].id = i]

(* The health row: the source is created.                                  *)
InsertHealth(s) ==
    /\ session[s].pc = "health"
    /\ source' = [source EXCEPT ![session[s].id].health = TRUE]
    /\ session' = [session EXCEPT ![s].pc = "look", ![s].next = @ + 1,
                                  ![s].imported = @ + 1]

ConflictRetried(s) ==
    /\ session[s].pc = "insert"
    /\ Taken(s)
    /\ UNCHANGED vars

(* The key refuses the row: the session ends, with all it has inserted.    *)
Conflict(s) ==
    /\ session[s].pc = "insert"
    /\ Taken(s)
    /\ RollBack(s)

(* The database ends one of the transactions that wait for each other.     *)
Victim(s) == Deadlocked(s) /\ RollBack(s)

Step(s) ==
    \/ Look(s) \/ PassOver(s) \/ Refuse(s) \/ Insert(s) \/ InsertHealth(s)
    \/ Conflict(s) \/ Victim(s) \/ Commit(s)

Next ==
    \E s \in Sessions :
        \/ \E f \in Feeds \cup {NoFeed} : BeginCreate(s, f)
        \/ \E file \in Files : BeginImport(s, file)
        \/ Step(s) \/ Crash(s)

Spec == Init /\ [][Next]_vars

(* A session goes on; one that waits for a key is woken when the           *)
(* transaction it waits for has ended, and gets its turn.                  *)
FairSpec == Spec /\ \A s \in Sessions : SF_vars(Step(s))

-----------------------------------------------------------------------------
(* Properties.                                                             *)

(* Types, and that rows which are not committed are those of a session at  *)
(* work (db/models.py:26-59).                                              *)
TypeOK ==
    /\ source \in [Ids -> Rows \cup {None}]
    /\ session \in [Sessions -> States]
    /\ \A i \in Ids, s \in Sessions : Own(s, i) => session[s].pc # "idle"

(* However creations and imports race, no feed is a source twice           *)
(* (repository.py:18-21, db/models.py:31).                                 *)
FeedsUnique ==
    \A i, j \in Ids :
        Committed(i) /\ Committed(j) /\ source[i].feed = source[j].feed =>
            i = j \/ source[i].feed = NoFeed

(* No source is ever seen without its health row, whatever ends the        *)
(* session that creates it (repository.py:29-32).                          *)
SourcesHaveHealth == \A i \in Ids : Committed(i) => source[i].health

(* An import that comes to its end has every feed of its file as a source, *)
(* its own or one that is committed, and reports how many are its own      *)
(* (opml.py:11-28, cli.py:33-38).                                          *)
ImportComplete ==
    \A s \in Sessions :
        session[s].pc = "look" /\ session[s].work = "import" /\ ~LeftToDo(s) =>
            /\ \A k \in DOMAIN session[s].file : \E i \in Ids :
                  (Committed(i) \/ Own(s, i)) /\ source[i].feed = session[s].file[k]
            /\ session[s].imported = Cardinality({i \in Ids : Own(s, i)})

(* Every request and every import ends, also imports that wait for each    *)
(* other's feeds (dashboard.py:408-429, opml.py:11-28).                    *)
SessionsEnd == \A s \in Sessions : session[s].pc # "idle" ~> session[s].pc = "idle"
=============================================================================
