------------------------------- MODULE Relay --------------------------------
(***************************************************************************)
(* The transactional outbox: relay runs that select the unpublished rows   *)
(* of outbox_events, hand each to a publisher and mark it, and commit the  *)
(* marks of the batch together (events/outbox.py relay_once,               *)
(* scripts/relay.py, scripts/scheduler_run.py with --relay); the Redis     *)
(* publisher and its Lua script (events/publishers.py).                    *)
(*                                                                         *)
(* Several relay runs may overlap: nothing locks the rows that were        *)
(* selected.  Redis executes the script without interleaving, but does not *)
(* undo it when a command in it fails.                                     *)
(***************************************************************************)
EXTENDS Naturals, Sequences, FiniteSets

CONSTANTS
    Relays,     \* relay runs that may overlap
    LogRelays,  \* those without a consumer: scheduler_run --relay, the soak
    Contents,   \* content items
    MaxEvent,   \* bound: outbox ids are 1 .. MaxEvent
    NoContent,  \* the item of an outbox id that has no row
    MaxFaults   \* bound: failed calls, crashes and expired markers

ASSUME RelayAssumption ==
    /\ LogRelays \subseteq Relays
    /\ NoContent \notin Contents
    /\ MaxEvent \in Nat /\ MaxFaults \in Nat

Events == 1 .. MaxEvent

VARIABLES
    row,        \* the transaction of each outbox row: how far it is
    content,    \* the content item of each row
    published,  \* rows whose published_at is set, committed
    queue,      \* the Redis list L1 reads
    markers,    \* events whose acceptance marker is set in Redis
    printed,    \* events a publisher without a consumer has taken
    batch,      \* per relay run: the rows it has selected and not yet done
    marks,      \* per relay run: the rows it has marked, uncommitted
    running,    \* relay runs in progress
    lost,       \* per event: markers that expired or were not set
    faults      \* faults so far

redis == <<queue, markers, lost>>
vars == <<row, content, published, queue, markers, printed, batch, marks,
          running, lost, faults>>

(* The table, filled by crawls in transactions of their own.               *)
Rows == INSTANCE OutboxRows

Init ==
    /\ Rows!Init
    /\ published = {}
    /\ queue = <<>>
    /\ markers = {}
    /\ printed = {}
    /\ batch = [r \in Relays |-> {}]
    /\ marks = [r \in Relays |-> {}]
    /\ running = {}
    /\ lost = [e \in Events |-> 0]
    /\ faults = 0

Fault == faults < MaxFaults /\ faults' = faults + 1

-----------------------------------------------------------------------------
(* The crawl transactions that fill the outbox.                            *)

Emit(e, k) ==
    /\ Rows!Emit(e, k)
    /\ UNCHANGED <<published, redis, printed, batch, marks, running, faults>>

EndEmit(K) ==
    /\ Rows!CommitEmit(K) \/ Rows!UndoEmit(K)
    /\ UNCHANGED <<published, redis, printed, batch, marks, running, faults>>

-----------------------------------------------------------------------------
(* A relay run.                                                            *)

UnpublishedAfterLast ==
    {e \in Events : row[e] = "committed" /\ \A f \in published : e > f}

(* The rows relay_once selects ...                                         *)
Unpublished == {e \in Events : row[e] = "committed" /\ e \notin published}

AnyOf(r) == batch[r]

(* ... in the order of their ids.                                          *)
First(r) == {e \in batch[r] : \A f \in batch[r] : e <= f}

NeverAccepted(e) == FALSE

(* EXISTS of the acceptance marker.                                        *)
Accepted(e) == e \in markers

Select(r) ==
    /\ r \notin running
    /\ Unpublished # {}
    /\ running' = running \cup {r}
    /\ batch' = [batch EXCEPT ![r] = Unpublished]
    /\ UNCHANGED <<row, content, published, redis, printed, marks, faults>>

(* The publisher has returned: published_at is set, not yet committed.     *)
Mark(r, e) ==
    /\ batch' = [batch EXCEPT ![r] = @ \ {e}]
    /\ marks' = [marks EXCEPT ![r] = @ \cup {e}]
    /\ UNCHANGED running

(* The script finds the marker and returns 0.                              *)
Skip(r) ==
    /\ r \notin LogRelays
    /\ \E e \in First(r) : Accepted(e) /\ Mark(r, e)
    /\ UNCHANGED <<row, content, published, redis, printed, faults>>

(* The script pushes the envelope and sets the marker.                     *)
Push(r) ==
    /\ r \notin LogRelays
    /\ \E e \in First(r) :
        /\ ~Accepted(e)
        /\ queue' = Append(queue, e)
        /\ markers' = markers \cup {e}
        /\ Mark(r, e)
    /\ UNCHANGED <<row, content, published, lost, printed, faults>>

(* The scheduler's publisher prints the event, the soak's does nothing.    *)
PrintEvent(r) ==
    /\ r \in LogRelays
    /\ \E e \in First(r) : printed' = printed \cup {e} /\ Mark(r, e)
    /\ UNCHANGED <<row, content, published, redis, faults>>

(* The end of the batch: one commit of all its marks.                      *)
CommitMarks(r) ==
    /\ r \in running
    /\ batch[r] = {}
    /\ published' = published \cup marks[r]
    /\ marks' = [marks EXCEPT ![r] = {}]
    /\ running' = running \ {r}
    /\ UNCHANGED <<row, content, redis, printed, batch, faults>>

-----------------------------------------------------------------------------
(* Faults.                                                                 *)

RollbackKeepingMarks(r) ==
    /\ batch' = [batch EXCEPT ![r] = {}]
    /\ running' = running \ {r}
    /\ UNCHANGED marks

(* An exception leaves relay_once and the session: no mark is kept.        *)
Rollback(r) ==
    /\ batch' = [batch EXCEPT ![r] = {}]
    /\ marks' = [marks EXCEPT ![r] = {}]
    /\ running' = running \ {r}

(* The run crashes, or Redis or the database cannot be reached.            *)
Fail(r) ==
    /\ r \in running
    /\ Rollback(r)
    /\ Fault
    /\ UNCHANGED <<row, content, published, redis, printed>>

MarkerFirst(e) ==
    /\ markers' = markers \cup {e}
    /\ UNCHANGED queue

(* The script stops at its second write: pushed, no marker.                *)
HalfScript(e) ==
    /\ queue' = Append(queue, e)
    /\ UNCHANGED markers

SetFails(r) ==
    /\ r \notin LogRelays
    /\ \E e \in First(r) :
        /\ ~Accepted(e)
        /\ HalfScript(e)
        /\ lost' = [lost EXCEPT ![e] = @ + 1]
    /\ Rollback(r)
    /\ Fault
    /\ UNCHANGED <<row, content, published, printed>>

(* The script has run, its answer does not arrive.                         *)
AnswerLost(r) ==
    /\ r \notin LogRelays
    /\ \E e \in First(r) :
        /\ ~Accepted(e)
        /\ queue' = Append(queue, e)
        /\ markers' = markers \cup {e}
    /\ Rollback(r)
    /\ Fault
    /\ UNCHANGED <<row, content, published, lost, printed>>

(* EX ttl_sec: the marker is forgotten after a week.                       *)
Expire(e) ==
    /\ e \in markers
    /\ markers' = markers \ {e}
    /\ lost' = [lost EXCEPT ![e] = @ + 1]
    /\ Fault
    /\ UNCHANGED <<row, content, published, queue, printed, batch, marks, running>>

-----------------------------------------------------------------------------

RelayStep(r) ==
    Select(r) \/ Skip(r) \/ Push(r) \/ PrintEvent(r) \/ CommitMarks(r)

Next ==
    \/ \E e \in Events, k \in Contents : Emit(e, k)
    \/ \E K \in SUBSET Contents : EndEmit(K)
    \/ \E e \in Events : Expire(e)
    \/ \E r \in Relays : RelayStep(r) \/ Fail(r) \/ SetFails(r) \/ AnswerLost(r)

Spec == Init /\ [][Next]_vars

(* A run that has begun goes on, and a timer starts the next one: relay.py *)
(* itself does one batch, scheduler_run --relay one per tick.              *)
FairSpec == Spec /\ \A r \in Relays : WF_vars(RelayStep(r))

-----------------------------------------------------------------------------
(* Properties.                                                             *)

Queued == {queue[n] : n \in 1 .. Len(queue)}

(* Types, and that a run that is over has left nothing behind              *)
(* (outbox.py:33-45).                                                      *)
TypeOK ==
    /\ row \in [Events -> {"free", "open", "committed", "gone"}]
    /\ content \in [Events -> Contents \cup {NoContent}]
    /\ published \subseteq Events
    /\ queue \in Seq(Events)
    /\ markers \subseteq Events
    /\ printed \subseteq Events
    /\ batch \in [Relays -> SUBSET Events]
    /\ marks \in [Relays -> SUBSET Events]
    /\ running \subseteq Relays
    /\ lost \in [Events -> Nat]
    /\ faults \in 0 .. MaxFaults
    /\ \A r \in Relays \ running : batch[r] = {} /\ marks[r] = {}

(* An event is queued again only after its marker expired or was not set:  *)
(* overlapping runs, crashes before the commit of the marks and lost       *)
(* answers alone never duplicate it (publishers.py:6-16, outbox.py:37-44). *)
DuplicatesAccounted ==
    \A e \in Events :
        Cardinality({n \in 1 .. Len(queue) : queue[n] = e}) <= 1 + lost[e]

(* L1's queue gets the events of an item in the order of its versions, and *)
(* misses none that is marked published but those that a run without a     *)
(* consumer has taken (outbox.py:33-45, publishers.py:6-16,                *)
(* scheduler_run.py:40-41, 69-71).                                         *)
Promise == INSTANCE Delivery WITH
    content <- [e \in Events |->
                   IF row[e] = "committed" THEN content[e] ELSE NoContent],
    handed <- Queued,
    struck <- published

DeliveryKept == Promise!Spec

(* Whatever is committed to the outbox is eventually published, also when  *)
(* it commits after events with later ids (outbox.py:33-35).               *)
EventuallyPublished ==
    \A e \in Events : row[e] = "committed" ~> e \in published
=============================================================================
