------------------------------ MODULE OutboxRows ------------------------------
(***************************************************************************)
(* The outbox table as the crawls fill it, which is all a relay run can    *)
(* know of them: ids in the order of the inserts, transactions that end in *)
(* any order (events/outbox.py emit).  Platform fills the table this way,  *)
(* Relay empties one that is filled this way.                              *)
(***************************************************************************)
EXTENDS Naturals

CONSTANTS
    Contents,   \* content items
    MaxEvent,   \* bound: outbox ids are 1 .. MaxEvent
    NoContent   \* the item of an id that has no row

Events == 1 .. MaxEvent

VARIABLES
    row,        \* of each outbox row, how far its transaction is
    content     \* the content item of each row

Init ==
    /\ row = [e \in Events |-> "free"]
    /\ content = [e \in Events |-> NoContent]

(* emit and flush: the next id.                                            *)
Emit(e, k) ==
    /\ row[e] = "free"
    /\ \A f \in 1 .. e - 1 : row[f] # "free"
    /\ row' = [row EXCEPT ![e] = "open"]
    /\ content' = [content EXCEPT ![e] = k]

OpenOf(K) == {e \in Events : row[e] = "open" /\ content[e] \in K}

(* A transaction with events of the items K ends, before or after others   *)
(* with later ids.  It holds the rows of its items, so that no open event  *)
(* of them is another's.                                                   *)
CommitEmit(K) ==
    /\ OpenOf(K) # {}
    /\ row' = [e \in Events |-> IF e \in OpenOf(K) THEN "committed" ELSE row[e]]
    /\ UNCHANGED content

(* A rollback takes the rows back, and their ids are not used again.       *)
UndoEmit(K) ==
    /\ OpenOf(K) # {}
    /\ row' = [e \in Events |-> IF e \in OpenOf(K) THEN "gone" ELSE row[e]]
    /\ content' = [e \in Events |->
                      IF e \in OpenOf(K) THEN NoContent ELSE content[e]]

Next ==
    \/ \E e \in Events, k \in Contents : Emit(e, k)
    \/ \E K \in SUBSET Contents : CommitEmit(K) \/ UndoEmit(K)

Spec == Init /\ [][Next]_<<row, content>>
=============================================================================
