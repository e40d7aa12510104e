----------------------------- MODULE Scheduler ------------------------------
(***************************************************************************)
(* Who crawls which source and when, and what of it is committed: the      *)
(* resident scheduler (scripts/scheduler_run.py, ingest/scheduler.py), the *)
(* dashboard's crawl and toggle requests (scripts/dashboard.py) and the    *)
(* command line's round over all sources (cli.py), each in a session of    *)
(* its own around crawl_source, of which this module keeps the health      *)
(* record (ingest/pipeline.py, sources/health.py).                         *)
(*                                                                         *)
(* A time is kept as an age in units of the clock, capped at Interval: a   *)
(* source is due or not, older makes no difference.                        *)
(***************************************************************************)
EXTENDS Naturals

CONSTANTS
    Sources,    \* rows of sources
    Scheduler,  \* the resident scheduler
    Others,     \* sessions beside it: requests of the dashboard and rounds
                \* of the command line, each process one at a time
    Interval,   \* interval_min of every source, in units of the clock
    Unchecked,  \* sources whose interval_min nobody has checked
    MaxFaults,  \* bound: crashes of a process
    None        \* no source, no row, no time

Callers == {Scheduler} \cup Others

ASSUME SchedulerAssumption ==
    /\ Scheduler \notin Others
    /\ Unchecked \subseteq Sources
    /\ Interval \in Nat \ {0} /\ MaxFaults \in Nat

Ages == 0 .. Interval

(* A row of source_health.  fail_count is 0 or more.                       *)
Health == [age : Ages \cup {None}, status : {"unknown", "ok", "failed"},
           fails : {"zero", "some"}]

ASSUME NoneAssumption == None \notin Sources \cup Health \cup Ages

VARIABLES
    enabled,    \* sources.enabled, committed
    malformed,  \* sources whose interval_min is no number
    health,     \* source_health, committed
    kind,       \* per caller: what it is running
    phase,      \* per caller: between crawls, in one, or where it ended
    todo,       \* per caller: the sources it has listed and not begun
    current,    \* per caller: the source of its crawl
    own,        \* per caller: the source_health rows its session has written
    rest,       \* per source: age of the end of the scheduler's last crawl
                \* that was committed,
                \* or Interval if a request has put back its time
    extra,      \* per source: crawls the scheduler began since its stop
    faults      \* crashes so far

vars == <<enabled, malformed, health, kind, phase, todo, current, own, rest, extra,
          faults>>

Init ==
    /\ enabled = [s \in Sources |-> TRUE]
    /\ malformed \in SUBSET Unchecked
    /\ health = [s \in Sources |-> [age |-> None, status |-> "unknown",
                                    fails |-> "zero"]]
    /\ kind = [c \in Callers |-> "none"]
    /\ phase = [c \in Callers |-> "idle"]
    /\ todo = [c \in Callers |-> {}]
    /\ current = [c \in Callers |-> None]
    /\ own = [c \in Callers |-> [s \in Sources |-> None]]
    /\ rest = [s \in Sources |-> Interval]
    /\ extra = [s \in Sources |-> 0]
    /\ faults = 0

-----------------------------------------------------------------------------
(* sources/health.py: the row of a source after an attempt, a success, a   *)
(* failure.                                                                *)

Row(c, s) == IF own[c][s] # None THEN own[c][s] ELSE health[s]

Attempted(h) == [h EXCEPT !.age = 0]
Succeeded(h) == [Attempted(h) EXCEPT !.status = "ok", !.fails = "zero"]
Failed(h) == [Attempted(h) EXCEPT !.status = "failed", !.fails = "some"]

Write(c, s, h) == own' = [own EXCEPT ![c] = [@ EXCEPT ![s] = h]]

Forget(c) == own' = [own EXCEPT ![c] = [s \in Sources |-> None]]

(* The session's commit: its rows replace the committed ones.              *)
CommitRows(c) ==
    /\ health' = [s \in Sources |-> Row(c, s)]
    /\ Forget(c)

Phase(c, from, to) == phase[c] = from /\ phase' = [phase EXCEPT ![c] = to]

-----------------------------------------------------------------------------
(* What a caller goes through.                                             *)

DueWhenStopped == {s \in Sources : health[s].age \in {None, Interval}}

DueEarly == {s \in Sources : enabled[s] /\ health[s].age # 0}

(* due_sources: enabled, and never attempted or not since Interval.        *)
Due == {s \in Sources : enabled[s] /\ health[s].age \in {None, Interval}}

Enabled == {s \in Sources : enabled[s]}

List(c, k, sources) ==
    /\ Phase(c, "idle", "next")
    /\ kind' = [kind EXCEPT ![c] = k]
    /\ todo' = [todo EXCEPT ![c] = sources]
    /\ UNCHANGED <<enabled, malformed, health, current, own, rest, extra, faults>>

(* due_sources reads the interval of every enabled source: one that is no  *)
(* number raises, and neither run_tick nor main catches it.  The process   *)
(* ends as it began, whoever starts it again.                              *)
Readable == \A s \in malformed : ~enabled[s]

(* run_tick lists the due sources, run --all the enabled ones, a request   *)
(* of the dashboard has one, enabled or not.                               *)
StartTick == Readable /\ List(Scheduler, "tick", Due)
StartRound(c) == List(c, "round", Enabled)
Request(c, s) == List(c, "request", {s})

(* crawl_source begins: mark_attempt.                                      *)
BeginCrawl(c, s) ==
    /\ Phase(c, "next", "crawl")
    /\ s \in todo[c]
    /\ todo' = [todo EXCEPT ![c] = @ \ {s}]
    /\ current' = [current EXCEPT ![c] = s]
    /\ Write(c, s, Attempted(Row(c, s)))
    /\ extra' = IF c = Scheduler /\ ~enabled[s] /\ extra[s] < 2
                THEN [extra EXCEPT ![s] = @ + 1] ELSE extra
    /\ UNCHANGED <<enabled, malformed, health, kind, rest, faults>>

(* It returns: every entry has been stored or kept as a failure.           *)
Return(c) ==
    /\ Phase(c, "crawl", "returned")
    /\ Write(c, current[c], Succeeded(Row(c, current[c])))
    /\ UNCHANGED <<enabled, malformed, health, kind, todo, current, rest, extra, faults>>

(* It raises: the adapter, a trend entry or the database has failed.  The  *)
(* failure is written in the session, then the exception goes on.          *)
Raise(c) ==
    /\ Phase(c, "crawl", "raised")
    /\ Write(c, current[c], Failed(Row(c, current[c])))
    /\ UNCHANGED <<enabled, malformed, health, kind, todo, current, rest, extra, faults>>

-----------------------------------------------------------------------------
(* What the caller does next.                                              *)

LeaveCrawlKeeping(c) == UNCHANGED current

(* The loop over the listed sources takes up the next one.                 *)
LeaveCrawl(c) == current' = [current EXCEPT ![c] = None]

(* The session wrote its time before another one that committed before it. *)
PutsBack(c, s) == health[s].age \in Ages /\ health[s].age < own[c][s].age

(* run_tick and _run_crawl commit each crawl that returns.  A request whose*)
(* flush waited for the scheduler's lock on the row commits the time it    *)
(* read before it waited.                                                  *)
CommitCrawl(c) ==
    /\ kind[c] # "round"
    /\ Phase(c, "returned", "next")
    /\ LeaveCrawl(c)
    /\ CommitRows(c)
    /\ LET s == current[c]
       IN  rest' = IF c = Scheduler THEN [rest EXCEPT ![s] = own[c][s].age]
                   ELSE IF PutsBack(c, s) THEN [rest EXCEPT ![s] = Interval]
                   ELSE rest
    /\ UNCHANGED <<enabled, malformed, kind, todo, extra, faults>>

AfterFailureStop(c) == {}

(* The sources left after a failed one: run_tick goes on.                  *)
AfterFailure(c) == todo[c]

(* run_tick rolls back and goes on with the next source.                   *)
RollBackCrawl ==
    /\ Phase(Scheduler, "raised", "next")
    /\ LeaveCrawl(Scheduler)
    /\ Forget(Scheduler)
    /\ todo' = [todo EXCEPT ![Scheduler] = AfterFailure(Scheduler)]
    /\ UNCHANGED <<enabled, malformed, health, kind, rest, extra, faults>>

(* The session is closed without a commit and the caller ends.             *)
Drop(c) ==
    /\ phase' = [phase EXCEPT ![c] = "idle"]
    /\ kind' = [kind EXCEPT ![c] = "none"]
    /\ todo' = [todo EXCEPT ![c] = {}]
    /\ LeaveCrawl(c)
    /\ Forget(c)
    /\ UNCHANGED <<enabled, malformed, health, rest, extra>>

(* The exception leaves run --all, or the dashboard's request.             *)
GiveUp(c) ==
    /\ c # Scheduler
    /\ phase[c] = "raised"
    /\ Drop(c)
    /\ UNCHANGED faults

(* run --all adds up the counters crawl_source returns: total has no entry *)
(* for "rejected", "media" and "trend", and the KeyError of the first      *)
(* crawl that returns ends the round before its commit.                    *)
KeyError(c) ==
    /\ kind[c] = "round"
    /\ phase[c] = "returned"
    /\ Drop(c)
    /\ UNCHANGED faults

(* Nothing is left: run_tick writes its heartbeat and sleeps, a round of   *)
(* no source ends, the request is answered.                                *)
Finish(c) ==
    /\ Phase(c, "next", "idle")
    /\ todo[c] = {}
    /\ kind' = [kind EXCEPT ![c] = "none"]
    /\ UNCHANGED <<enabled, malformed, health, own, todo, current, rest, extra, faults>>

(* The process dies, and is started again.                                 *)
Crash(c) ==
    /\ phase[c] # "idle"
    /\ faults < MaxFaults
    /\ faults' = faults + 1
    /\ Drop(c)

-----------------------------------------------------------------------------
(* The operator and the clock.                                             *)

(* _toggle_source.                                                         *)
Toggle(s) ==
    /\ enabled' = [enabled EXCEPT ![s] = ~@]
    /\ extra' = [extra EXCEPT ![s] = 0]
    /\ UNCHANGED <<malformed, health, kind, phase, todo, current, own, rest, faults>>

Older(age) == IF age \in Ages /\ age < Interval THEN age + 1 ELSE age

Aged(h) == IF h = None THEN None ELSE [h EXCEPT !.age = Older(@)]

Time ==
    /\ health' = [s \in Sources |-> Aged(health[s])]
    /\ own' = [c \in Callers |-> [s \in Sources |-> Aged(own[c][s])]]
    /\ rest' = [s \in Sources |-> Older(rest[s])]
    /\ UNCHANGED <<enabled, malformed, kind, phase, todo, current, extra, faults>>

-----------------------------------------------------------------------------

SchedulerStep ==
    \/ StartTick \/ Return(Scheduler) \/ Raise(Scheduler)
    \/ CommitCrawl(Scheduler) \/ RollBackCrawl \/ Finish(Scheduler)
    \/ \E s \in Sources : BeginCrawl(Scheduler, s)

OtherStep(c) ==
    \/ StartRound(c) \/ Return(c) \/ Raise(c) \/ CommitCrawl(c) \/ GiveUp(c)
    \/ KeyError(c) \/ Finish(c)
    \/ \E s \in Sources : Request(c, s) \/ BeginCrawl(c, s)

Next ==
    \/ SchedulerStep
    \/ \E c \in Others : OtherStep(c)
    \/ \E c \in Callers : Crash(c)
    \/ \E s \in Sources : Toggle(s)
    \/ Time

Spec == Init /\ [][Next]_vars

(* The scheduler's loop goes on: it sleeps for a bounded time, a crawl     *)
(* ends (each request has a timeout), a crashed process is started again.  *)
FairSpec == Spec /\ WF_vars(SchedulerStep)

-----------------------------------------------------------------------------
(* Properties.                                                             *)

(* Types, and that a caller holds a source exactly while it crawls         *)
(* (db/models.py:26-59).                                                   *)
TypeOK ==
    /\ enabled \in [Sources -> BOOLEAN]
    /\ malformed \subseteq Sources
    /\ health \in [Sources -> Health]
    /\ kind \in [Callers -> {"none", "tick", "round", "request"}]
    /\ phase \in [Callers -> {"idle", "next", "crawl", "returned", "raised"}]
    /\ todo \in [Callers -> SUBSET Sources]
    /\ current \in [Callers -> Sources \cup {None}]
    /\ own \in [Callers -> [Sources -> Health \cup {None}]]
    /\ rest \in [Sources -> Ages]
    /\ extra \in [Sources -> 0 .. 2]
    /\ faults \in 0 .. MaxFaults
    /\ \A c \in Callers :
          current[c] # None <=> phase[c] \in {"crawl", "returned", "raised"}

(* The scheduler lets the interval pass between a crawl it has committed   *)
(* and the next of the same source, whatever requests, stops and rounds    *)
(* come in between and however long a tick takes, unless a request has put *)
(* back the time of the record (ingest/scheduler.py:16-25,                 *)
(* sources/health.py:20-21).                                               *)
Spacing ==
    [][\A s \in Sources :
          current[Scheduler] # s /\ current'[Scheduler] = s
              => rest[s] = Interval]_vars

(* A source that was stopped while a tick had it listed is crawled once    *)
(* more at most (ingest/scheduler.py:13, scheduler_run.py:57-66).          *)
StopsSoon == \A s \in Sources : extra[s] <= 1

(* A failing source never keeps another from being crawled, and only one   *)
(* thing does: a source that is due is crawled unless it is stopped or     *)
(* crawled by a request, or a source whose interval is no number is        *)
(* enabled (scheduler_run.py:57-68, ingest/scheduler.py:16).               *)
NoStarvation ==
    \A s \in Sources :
        (s \in Due) ~> (current[Scheduler] = s \/ s \notin Due \/ ~Readable)

(* Every crawl updates source_health, failures too: a crawl that raised    *)
(* and whose process did not die leaves the source marked failed           *)
(* (pipeline.py:122-126; scheduler_run.py:64-68, dashboard.py:456-462).    *)
FailureRecorded ==
    [][\A c \in Callers :
          phase[c] = "raised" /\ phase'[c] # "raised" /\ faults' = faults
              => health'[current[c]].status = "failed"]_vars
=============================================================================
