------------------------------ MODULE Delivery ------------------------------
(* What the outbox promises to L1: an event is handed over only once it is *)
(* committed, and, of one content item, never before an earlier event of   *)
(* the item that is still to be handed over.  It is struck off only after  *)
(* L1 has it or a relay run without a consumer, a log's, has taken it:     *)
(* nothing else keeps an event from L1.                                    *)
EXTENDS Naturals

CONSTANTS
    Contents,   \* content items
    MaxEvent,   \* outbox_events ids are 1 .. MaxEvent
    NoContent   \* the item of an id that is not committed

Events == 1 .. MaxEvent

VARIABLES
    content,    \* the item of each committed event
    handed,     \* events that have reached the queue L1 reads
    printed,    \* events a run without a consumer has taken
    struck      \* events no run will select any more

dvars == <<content, handed, printed, struck>>

Init ==
    /\ content = [e \in Events |-> NoContent]
    /\ handed = {}
    /\ printed = {}
    /\ struck = {}

(* A crawl transaction commits some events.                                *)
Store ==
    /\ content' \in [Events -> Contents \cup {NoContent}]
    /\ \A e \in Events : content[e] # NoContent => content'[e] = content[e]
    /\ UNCHANGED <<handed, printed, struck>>

HandOver(e) ==
    /\ content[e] # NoContent
    /\ \A f \in 1 .. e - 1 : content[f] = content[e] => f \in handed \cup struck
    /\ handed' = handed \cup {e}
    /\ UNCHANGED <<content, printed, struck>>

Divert(e) ==
    /\ content[e] # NoContent
    /\ printed' = printed \cup {e}
    /\ UNCHANGED <<content, handed, struck>>

Strike ==
    /\ struck' \in SUBSET (handed \cup printed)
    /\ struck \subseteq struck'
    /\ UNCHANGED <<content, handed, printed>>

Next == Store \/ Strike \/ \E e \in Events : HandOver(e) \/ Divert(e)

Spec == Init /\ [][Next]_dvars
=============================================================================
