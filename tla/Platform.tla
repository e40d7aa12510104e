------------------------------- MODULE Platform -------------------------------
(***************************************************************************)
(* L0 from the crawl to L1: the crawls of Ingest, the ids their events get *)
(* in outbox_events (events/outbox.py emit, db/models.py), and a relay, of *)
(* which only what Delivery promises is known (Relay implements Delivery   *)
(* over any table filled as in OutboxRows; the crawls here fill it so).    *)
(***************************************************************************)
EXTENDS Ingest, Sequences

CONSTANTS
    MaxEvent,   \* bound: outbox ids are 1 .. MaxEvent
    MaxPrinted  \* bound: rows that runs without a consumer take

ASSUME PlatformAssumption ==
    /\ MaxEvent \in Nat /\ MaxPrinted \in Nat
    /\ NoRow \notin Event

VARIABLES
    payload,    \* the event in each outbox row
    stage,      \* of each outbox row, how far its transaction is
    handed,     \* rows whose event has reached the queue L1 reads
    printed,    \* rows whose event a run without a consumer has taken
    struck      \* rows that are marked published

log == <<payload, stage>>
relayed == <<handed, printed, struck>>
platformVars == <<vars, payload, stage, handed, printed, struck>>

Ids == 1 .. MaxEvent

(* The items of the rows, and of those a relay can see.                    *)
ItemOf == [e \in Ids |-> IF payload[e] = NoRow THEN NoRow ELSE payload[e].item]
Readable ==
    [e \in Ids |-> IF stage[e] = "committed" THEN payload[e].item ELSE NoRow]

Relaying == INSTANCE Delivery
    WITH Contents <- ItemIds, NoContent <- NoRow, content <- Readable

PlatformInit ==
    /\ Init
    /\ payload = [e \in Ids |-> NoRow]
    /\ stage = [e \in Ids |-> "free"]
    /\ handed = {}
    /\ printed = {}
    /\ struck = {}

-----------------------------------------------------------------------------

NextFree(e) == stage[e] = "free" /\ \A f \in 1 .. e - 1 : stage[f] # "free"

NumberCommitted(c) ==
    LET new == txEvents'[c] \ txEvents[c]
        taken == {e \in Ids : NextFree(e) /\ new # {}}
    IN  /\ \E e \in Ids : NextFree(e)
        /\ payload' = [e \in Ids |->
                        IF e \in taken THEN CHOOSE x \in new : TRUE ELSE payload[e]]
        /\ stage' = [e \in Ids |-> IF e \in taken THEN "committed" ELSE stage[e]]

(* emit: an event that is not there yet is inserted under the next id.     *)
Number(c) ==
    LET new == txEvents'[c] \ txEvents[c]
        taken == {e \in Ids : NextFree(e) /\ new # {}}
    IN  /\ \E e \in Ids : NextFree(e)
        /\ payload' = [e \in Ids |->
                        IF e \in taken THEN CHOOSE x \in new : TRUE ELSE payload[e]]
        /\ stage' = [e \in Ids |-> IF e \in taken THEN "open" ELSE stage[e]]

(* The rows a session has inserted.                                        *)
Own(c) == {e \in Ids : stage[e] = "open" /\ payload[e] \in txEvents[c]}

(* They become visible with its commit.                                    *)
Keep(c) ==
    /\ stage' = [e \in Ids |-> IF e \in Own(c) THEN "committed" ELSE stage[e]]
    /\ UNCHANGED payload

VanishKept(c) == Keep(c)

(* Rolled back, its events have no row.                                    *)
Vanish(c) ==
    /\ stage' = [e \in Ids |-> IF e \in Own(c) THEN "gone" ELSE stage[e]]
    /\ payload' = [e \in Ids |-> IF e \in Own(c) THEN NoRow ELSE payload[e]]

(* One step of a crawl, with the ids of what it inserts or ends.           *)
CrawlStep(c) ==
    /\ \/ /\ \/ TakeEntry(c) \/ Reject(c) \/ ProbeUrl(c) \/ ProbeText(c)
             \/ Unchanged(c) \/ Resight(c) \/ Link(c)
          /\ UNCHANGED log
       \/ (Revise(c) \/ Create(c)) /\ Number(c)
       \/ Commit(c) /\ Keep(c)
       \/ Abort(c) /\ Vanish(c)
    /\ UNCHANGED relayed

(* A run without a consumer takes an event.                                *)
PrintEvent(e) == Cardinality(printed \cup {e}) <= MaxPrinted /\ Relaying!Divert(e)

(* relay_once with its publisher, Redis' of relay.py, which hands over, or *)
(* the log's of scheduler_run --relay or the soak's, which do not; and the *)
(* commit of its marks.                                                    *)
RelayRun ==
    /\ UNCHANGED <<vars, log>>
    /\ \/ Relaying!Strike
       \/ \E e \in Ids : Relaying!HandOver(e) \/ PrintEvent(e)

PlatformNext == RelayRun \/ \E c \in Crawlers : CrawlStep(c)

PlatformSpec == PlatformInit /\ [][PlatformNext]_platformVars

-----------------------------------------------------------------------------
(* Properties.                                                             *)

(* The crawls fill the outbox the way Relay relies on: ids without holes,  *)
(* and a transaction ends with all its rows, which are of items that no    *)
(* other open transaction has rows of (outbox.py:15-24,                    *)
(* canonical.py:65-86, 104-133).                                           *)
Rows == INSTANCE OutboxRows
    WITH Contents <- ItemIds, NoContent <- NoRow, row <- stage,
         content <- ItemOf

RowsKept == Rows!Spec

(* What L1 has been handed of an item, the versions a run without a        *)
(* consumer has taken, and the versions still to be handed over.           *)
HandedOf(i) == {e \in handed : payload[e].item = i}

Learned ==
    [i \in ItemIds |->
        [v \in {payload[e].version : e \in HandedOf(i)} |->
            (CHOOSE x \in {payload[e] : e \in HandedOf(i)} : x.version = v).hash]]

Printed ==
    [i \in ItemIds |-> {payload[e].version : e \in {f \in printed : payload[f].item = i}}]

Due ==
    [i \in ItemIds |->
        {payload[e].version : e \in {f \in Ids \ struck : Readable[f] = i}}]

(* L0 as a whole implements Feed: L1 gets the texts of an item in the      *)
(* order the item had them and misses none but those that a relay run      *)
(* without a consumer has marked published, whatever crawls race, roll     *)
(* back or commit late and however relay runs of both sorts overlap        *)
(* (canonical.py:61-86, 104-133; outbox.py:15-45; scheduler_run.py:69-71). *)
L1Feed == INSTANCE Feed
    WITH Contents <- ItemIds, NoText <- NoRow, told <- Told, text <- Text,
         learned <- Learned, printed <- Printed, due <- Due

FeedKept == L1Feed!FeedSpec

(* Of an item none of whose events a run without a consumer has taken, L1  *)
(* has the first texts, in their order and without a hole                  *)
(* (outbox.py:33-45, relay.py:14-21).                                      *)
LearnedWhole ==
    \A i \in ItemIds : Printed[i] = {} =>
        \A v \in DOMAIN Learned[i] :
            /\ 1 .. v \subseteq DOMAIN Learned[i]
            /\ v \in 1 .. Len(Told[i])
            /\ Learned[i][v] = Told[i][v]
=============================================================================
