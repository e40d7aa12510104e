----------------------------- MODULE RelayProofs -----------------------------
(***************************************************************************)
(* Proofs about Relay, for any number of overlapping relay runs, events,   *)
(* content items and faults: types, the account of duplicates, and that    *)
(* the relay implements Delivery.                                          *)
(***************************************************************************)
EXTENDS Relay, FiniteSetTheorems, TLAPS

(* A row that has been inserted has its item, one that was taken back none.*)
ContentOK ==
    \A e \in Events :
        /\ row[e] \in {"open", "committed"} => content[e] \in Contents
        /\ row[e] = "gone" => content[e] = NoContent

TypeInv == TypeOK /\ ContentOK

-----------------------------------------------------------------------------
(* Types.                                                                  *)

(* Before the first crawl no event is queued, marked or selected.          *)
LEMMA TypeInit == Init => TypeInv
BY RelayAssumption DEF Init, Rows!Init, Rows!Events, Events, TypeInv, TypeOK,
                       ContentOK

(* An insert takes the next id and nothing else (outbox.py:15-24).         *)
LEMMA EmitRows ==
    ASSUME NEW e \in Events, NEW k \in Contents, Emit(e, k)
    PROVE  /\ row[e] = "free" /\ \A f \in 1 .. e - 1 : row[f] # "free"
           /\ row' = [row EXCEPT ![e] = "open"]
           /\ content' = [content EXCEPT ![e] = k]
           /\ UNCHANGED <<published, redis, printed, batch, marks, running, faults>>
BY DEF Emit, Rows!Emit

(* A crawl's transaction ends for all its rows alike.                      *)
LEMMA EndRows ==
    ASSUME TypeInv, NEW K \in SUBSET Contents, EndEmit(K)
    PROVE  /\ \E end \in {"committed", "gone"} :
                 /\ row' = [e \in Events |->
                              IF row[e] = "open" /\ content[e] \in K
                              THEN end ELSE row[e]]
                 /\ content' = [e \in Events |->
                                  IF row[e] = "open" /\ content[e] \in K
                                     /\ end = "gone"
                                  THEN NoContent ELSE content[e]]
           /\ UNCHANGED <<published, redis, printed, batch, marks, running, faults>>
<1> USE DEF Events, Rows!Events, Rows!OpenOf
<1>1. content = [e \in Events |-> content[e]]
  BY DEF TypeInv, TypeOK
<1>2. CASE Rows!CommitEmit(K)
  <2>1. row' = [e \in Events |-> IF row[e] = "open" /\ content[e] \in K
                                 THEN "committed" ELSE row[e]]
    BY <1>2 DEF Rows!CommitEmit
  <2> QED
    BY <1>1, <1>2, <2>1 DEF Rows!CommitEmit, EndEmit
<1>3. CASE Rows!UndoEmit(K)
  <2>1. row' = [e \in Events |-> IF row[e] = "open" /\ content[e] \in K
                                 THEN "gone" ELSE row[e]]
    BY <1>3 DEF Rows!UndoEmit
  <2>2. content' = [e \in Events |-> IF row[e] = "open" /\ content[e] \in K
                                     THEN NoContent ELSE content[e]]
    BY <1>3 DEF Rows!UndoEmit
  <2> QED
    BY <2>1, <2>2 DEF EndEmit
<1> QED
  BY <1>2, <1>3 DEF EndEmit

(* A Boolean account of a fault keeps within its bound.                    *)
LEMMA FaultType ==
    ASSUME faults \in 0 .. MaxFaults, Fault
    PROVE  faults' \in 0 .. MaxFaults
BY RelayAssumption DEF Fault

(* What a run has selected is left, a member at a time: Mark               *)
(* (outbox.py:37-42).                                                      *)
LEMMA MarkType ==
    ASSUME TypeInv, NEW r \in Relays, NEW e \in First(r), Mark(r, e)
    PROVE  /\ e \in Events /\ r \in running
           /\ batch' \in [Relays -> SUBSET Events]
           /\ marks' \in [Relays -> SUBSET Events]
           /\ running' \subseteq Relays
           /\ \A s \in Relays \ running' : batch'[s] = {} /\ marks'[s] = {}
<1>1. e \in batch[r] /\ e \in Events
  BY DEF First, TypeInv, TypeOK
<1>2. r \in running
  BY <1>1 DEF TypeInv, TypeOK
<1> QED
  BY <1>1, <1>2 DEF Mark, TypeInv, TypeOK

(* A rollback leaves a run as it was before it began (outbox.py:37-45).    *)
LEMMA RollbackType ==
    ASSUME TypeInv, NEW r \in Relays, Rollback(r)
    PROVE  /\ batch' \in [Relays -> SUBSET Events]
           /\ marks' \in [Relays -> SUBSET Events]
           /\ running' \subseteq Relays
           /\ \A s \in Relays \ running' : batch'[s] = {} /\ marks'[s] = {}
BY DEF Rollback, TypeInv, TypeOK

(* Every step of the system keeps the types.                               *)
LEMMA TypeStep == TypeInv /\ [Next]_vars => TypeInv'
<1> SUFFICES ASSUME TypeInv, [Next]_vars PROVE TypeInv'
  OBVIOUS
<1> USE RelayAssumption
<1>1. ASSUME NEW e \in Events, NEW k \in Contents, Emit(e, k) PROVE TypeInv'
  <2>1. /\ row' = [row EXCEPT ![e] = "open"]
        /\ content' = [content EXCEPT ![e] = k]
        /\ UNCHANGED <<published, queue, markers, lost, printed, batch, marks,
                       running, faults>>
    BY <1>1, EmitRows DEF redis
  <2>2. /\ row' \in [Events -> {"free", "open", "committed", "gone"}]
        /\ content' \in [Events -> Contents \cup {NoContent}]
    BY <2>1 DEF TypeInv, TypeOK
  <2>3. ContentOK'
    BY <2>1 DEF TypeInv, TypeOK, ContentOK
  <2> QED
    BY <2>1, <2>2, <2>3 DEF TypeInv, TypeOK
<1>2. ASSUME NEW K \in SUBSET Contents, EndEmit(K) PROVE TypeInv'
  <2>1. PICK end \in {"committed", "gone"} :
            /\ row' = [e \in Events |-> IF row[e] = "open" /\ content[e] \in K
                                        THEN end ELSE row[e]]
            /\ content' = [e \in Events |->
                             IF row[e] = "open" /\ content[e] \in K
                                /\ end = "gone"
                             THEN NoContent ELSE content[e]]
    BY <1>2, EndRows
  <2>2. /\ row' \in [Events -> {"free", "open", "committed", "gone"}]
        /\ content' \in [Events -> Contents \cup {NoContent}]
    BY <2>1 DEF TypeInv, TypeOK
  <2>3. ContentOK'
    BY <2>1 DEF TypeInv, TypeOK, ContentOK
  <2> QED
    BY <1>2, <2>2, <2>3, EndRows DEF TypeInv, TypeOK, redis
<1>3. ASSUME NEW e \in Events, Expire(e) PROVE TypeInv'
  <2>1. faults' \in 0 .. MaxFaults
    BY <1>3, FaultType DEF Expire, TypeInv, TypeOK
  <2>2. lost' \in [Events -> Nat]
    BY <1>3 DEF Expire, TypeInv, TypeOK
  <2> QED
    BY <1>3, <2>1, <2>2 DEF Expire, TypeInv, TypeOK, ContentOK
<1>4. ASSUME NEW r \in Relays, Select(r) PROVE TypeInv'
  BY <1>4 DEF Select, Unpublished, TypeInv, TypeOK, ContentOK, redis
<1>5. ASSUME NEW r \in Relays, Skip(r) PROVE TypeInv'
  <2>1. PICK e \in First(r) : Mark(r, e)
    BY <1>5 DEF Skip
  <2> QED
    BY <1>5, <2>1, MarkType DEF Skip, TypeInv, TypeOK, ContentOK, redis
<1>6. ASSUME NEW r \in Relays, Push(r) PROVE TypeInv'
  <2>1. PICK e \in First(r) :
            queue' = Append(queue, e) /\ markers' = markers \cup {e} /\ Mark(r, e)
    BY <1>6 DEF Push
  <2>2. e \in Events
    BY <2>1, MarkType
  <2>3. queue' \in Seq(Events) /\ markers' \subseteq Events
    BY <2>1, <2>2 DEF TypeInv, TypeOK
  <2> QED
    BY <1>6, <2>1, <2>3, MarkType DEF Push, TypeInv, TypeOK, ContentOK
<1>7. ASSUME NEW r \in Relays, PrintEvent(r) PROVE TypeInv'
  <2>1. PICK e \in First(r) : printed' = printed \cup {e} /\ Mark(r, e)
    BY <1>7 DEF PrintEvent
  <2>2. e \in Events
    BY <2>1, MarkType
  <2> QED
    BY <1>7, <2>1, <2>2, MarkType
       DEF PrintEvent, TypeInv, TypeOK, ContentOK, redis
<1>8. ASSUME NEW r \in Relays, CommitMarks(r) PROVE TypeInv'
  BY <1>8 DEF CommitMarks, TypeInv, TypeOK, ContentOK, redis
<1>9. ASSUME NEW r \in Relays, Fail(r) PROVE TypeInv'
  BY <1>9, RollbackType, FaultType DEF Fail, TypeInv, TypeOK, ContentOK, redis
<1>10. ASSUME NEW r \in Relays, SetFails(r) PROVE TypeInv'
  <2>1. PICK e \in First(r) : /\ queue' = Append(queue, e) /\ markers' = markers
                              /\ lost' = [lost EXCEPT ![e] = @ + 1]
    BY <1>10 DEF SetFails, HalfScript
  <2>2. e \in Events
    BY <2>1 DEF First, TypeInv, TypeOK
  <2>3. queue' \in Seq(Events) /\ lost' \in [Events -> Nat]
    BY <2>1, <2>2 DEF TypeInv, TypeOK
  <2>4. faults' \in 0 .. MaxFaults
    BY <1>10, FaultType DEF SetFails, TypeInv, TypeOK
  <2> QED
    BY <1>10, <2>1, <2>3, <2>4, RollbackType
       DEF SetFails, TypeInv, TypeOK, ContentOK
<1>11. ASSUME NEW r \in Relays, AnswerLost(r) PROVE TypeInv'
  <2>1. PICK e \in First(r) :
            queue' = Append(queue, e) /\ markers' = markers \cup {e}
    BY <1>11 DEF AnswerLost
  <2>2. e \in Events
    BY <2>1 DEF First, TypeInv, TypeOK
  <2>3. queue' \in Seq(Events) /\ markers' \subseteq Events
    BY <2>1, <2>2 DEF TypeInv, TypeOK
  <2>4. faults' \in 0 .. MaxFaults
    BY <1>11, FaultType DEF AnswerLost, TypeInv, TypeOK
  <2> QED
    BY <1>11, <2>3, <2>4, RollbackType
       DEF AnswerLost, TypeInv, TypeOK, ContentOK
<1>12. CASE UNCHANGED vars
  BY <1>12 DEF vars, TypeInv, TypeOK, ContentOK
<1> QED
  BY <1>1, <1>2, <1>3, <1>4, <1>5, <1>6, <1>7, <1>8, <1>9, <1>10, <1>11, <1>12
     DEF Next, RelayStep

(* The tables, Redis and the relay runs keep their types, and a run that   *)
(* is over has left neither rows nor marks behind (outbox.py:33-45).       *)
THEOREM TypeCorrect == Spec => []TypeOK
<1>1. Spec => []TypeInv
  BY TypeInit, TypeStep, PTL DEF Spec
<1>2. TypeInv => TypeOK
  BY DEF TypeInv
<1> QED
  BY <1>1, <1>2, PTL

-----------------------------------------------------------------------------
(* Duplicates.  The number of copies of an event in the queue exceeds the  *)
(* markers lost of it by one at most, and not at all while it has no       *)
(* marker: that is what a script that finds no marker relies on.           *)

Copies(q, e) == {n \in 1 .. Len(q) : q[n] = e}

CopiesInv ==
    \A e \in Events :
        Cardinality(Copies(queue, e)) <= lost[e] + (IF e \in markers THEN 1 ELSE 0)

(* RPUSH adds one copy of the event it pushes, and none of another.        *)
LEMMA CopiesAppend ==
    ASSUME NEW q \in Seq(Events), NEW e \in Events, NEW f \in Events
    PROVE  /\ Cardinality(Copies(q, f)) \in Nat
           /\ Cardinality(Copies(Append(q, e), f)) =
                Cardinality(Copies(q, f)) + (IF e = f THEN 1 ELSE 0)
<1>1. IsFiniteSet(1 .. Len(q))
  BY FS_Interval
<1>2. IsFiniteSet(Copies(q, f))
  BY <1>1, FS_Subset DEF Copies
<1>3. CASE e = f
  <2>1. Copies(Append(q, e), f) = Copies(q, f) \cup {Len(q) + 1}
    BY <1>3 DEF Copies
  <2>2. Len(q) + 1 \notin Copies(q, f)
    BY DEF Copies
  <2> QED
    BY <1>2, <1>3, <2>1, <2>2, FS_AddElement, FS_CardinalityType
<1>4. CASE e # f
  <2>1. Copies(Append(q, e), f) = Copies(q, f)
    BY <1>4 DEF Copies
  <2> QED
    BY <1>2, <1>4, <2>1, FS_CardinalityType
<1> QED
  BY <1>3, <1>4

(* At the start the queue is empty.                                        *)
LEMMA CopiesInit == Init => CopiesInv
<1> SUFFICES ASSUME Init, NEW e \in Events
             PROVE  Cardinality(Copies(queue, e)) <= 0
  BY DEF Init, CopiesInv
<1>1. Copies(queue, e) = {}
  BY DEF Init, Copies
<1> QED
  BY <1>1, FS_EmptySet

(* Each way a marker or a copy appears or disappears keeps the account.    *)
LEMMA CopiesStep == TypeInv /\ CopiesInv /\ [Next]_vars => CopiesInv'
<1> DEFINE Kept(f) == Cardinality(Copies(queue, f))' <=
                        lost'[f] + (IF f \in markers' THEN 1 ELSE 0)
<1> SUFFICES ASSUME TypeInv, CopiesInv, [Next]_vars, NEW f \in Events
             PROVE  Kept(f)
  BY DEF CopiesInv
<1>t. /\ queue \in Seq(Events) /\ lost \in [Events -> Nat]
      /\ batch \in [Relays -> SUBSET Events]
  BY DEF TypeInv, TypeOK
<1>n. /\ Cardinality(Copies(queue, f)) \in Nat
      /\ Cardinality(Copies(queue, f)) <=
            lost[f] + (IF f \in markers THEN 1 ELSE 0)
  BY <1>t, CopiesAppend DEF CopiesInv
<1>1. CASE UNCHANGED redis
  BY <1>1, <1>n DEF redis, Copies
<1>2. ASSUME NEW e \in Events, Expire(e) PROVE Kept(f)
  <2>1. Copies(queue, f)' = Copies(queue, f)
    BY <1>2 DEF Expire, Copies
  <2>2. CASE e = f
    BY <1>2, <1>n, <1>t, <2>1, <2>2 DEF Expire
  <2>3. CASE e # f
    BY <1>2, <1>n, <1>t, <2>1, <2>3 DEF Expire
  <2> QED
    BY <2>2, <2>3
<1>3. ASSUME NEW e \in Events, ~Accepted(e), queue' = Append(queue, e),
             markers' = markers \cup {e}, lost' = lost
      PROVE  Kept(f)
  <2>1. Cardinality(Copies(queue, f))' =
            Cardinality(Copies(queue, f)) + (IF e = f THEN 1 ELSE 0)
    BY <1>3, <1>t, CopiesAppend
  <2> QED
    BY <1>3, <1>n, <1>t, <2>1 DEF Accepted
<1>4. ASSUME NEW e \in Events, ~Accepted(e), HalfScript(e),
             lost' = [lost EXCEPT ![e] = @ + 1]
      PROVE  Kept(f)
  <2>1. Cardinality(Copies(queue, f))' =
            Cardinality(Copies(queue, f)) + (IF e = f THEN 1 ELSE 0)
    BY <1>4, <1>t, CopiesAppend DEF HalfScript
  <2>2. lost'[f] = lost[f] + (IF e = f THEN 1 ELSE 0)
    BY <1>4, <1>t
  <2> QED
    BY <1>4, <1>n, <1>t, <2>1, <2>2 DEF HalfScript, Accepted
<1>5. ASSUME NEW r \in Relays, Push(r) PROVE Kept(f)
  BY <1>5, <1>3, <1>t DEF Push, First
<1>6. ASSUME NEW r \in Relays, SetFails(r) PROVE Kept(f)
  BY <1>6, <1>4, <1>t DEF SetFails, First
<1>7. ASSUME NEW r \in Relays, AnswerLost(r) PROVE Kept(f)
  BY <1>7, <1>3, <1>t DEF AnswerLost, First
<1>8. CASE UNCHANGED vars
  BY <1>8, <1>1 DEF vars, redis
<1> QED
  BY <1>1, <1>2, <1>5, <1>6, <1>7, <1>8
     DEF Next, RelayStep, Emit, EndEmit, Select, Skip, PrintEvent, CommitMarks,
         Fail

(* An event is queued again only if its marker expired or was not set:     *)
(* publishers.py:6-16 against any overlap, crash or lost answer.           *)
THEOREM Accounted == Spec => []DuplicatesAccounted
<1>1. Spec => [](TypeInv /\ CopiesInv)
  BY TypeInit, TypeStep, CopiesInit, CopiesStep, PTL DEF Spec
<1>2. TypeInv /\ CopiesInv => DuplicatesAccounted
  <2> SUFFICES ASSUME TypeInv, CopiesInv, NEW e \in Events
               PROVE  Cardinality(Copies(queue, e)) <= 1 + lost[e]
    BY DEF DuplicatesAccounted, Copies
  <2>1. queue \in Seq(Events) /\ lost[e] \in Nat
    BY DEF TypeInv, TypeOK
  <2>2. Cardinality(Copies(queue, e)) \in Nat
    BY <2>1, CopiesAppend
  <2> QED
    BY <2>1, <2>2 DEF CopiesInv
<1> QED
  BY <1>1, <1>2, PTL

-----------------------------------------------------------------------------
(* Delivery.  A run hands over the rows it selected in the order of their  *)
(* ids; the earlier rows of an item that it did not select had been        *)
(* published when it selected, because an item's rows commit in the order  *)
(* of their ids or together.  What a run without a consumer marks, L1 need *)
(* not have.                                                               *)

Reached == Queued \cup printed

(* Rows get their ids in order, and while a row is open, so are the later  *)
(* rows of its item: they are of the transaction that holds the item.      *)
IdsInOrder ==
    \A e \in Events : \A f \in 1 .. e - 1 :
        row[e] # "free" => row[f] # "free"
                           /\ (row[f] = "open" /\ content[f] = content[e]
                                   => row[e] = "open")

SelectedCommitted == \A r \in Relays : \A e \in batch[r] : row[e] = "committed"

(* Nothing is marked, or has a marker in Redis, that no publisher has      *)
(* taken; what a run with the Redis publisher marks, L1 has.               *)
MarkedReached ==
    /\ markers \subseteq Queued
    /\ published \subseteq Reached
    /\ \A r \in Relays : marks[r] \subseteq Reached
    /\ \A r \in Relays \ LogRelays : marks[r] \subseteq Queued

Before(e, f) == f < e /\ row[f] = "committed" /\ content[f] = content[e]

Preceded ==
    \A r \in Relays : \A e \in batch[r] : \A f \in Events :
        Before(e, f) => f \in published \cup marks[r] \cup batch[r]

DeliveryInv ==
    TypeInv /\ IdsInOrder /\ SelectedCommitted /\ MarkedReached /\ Preceded

(* RPUSH makes the event it pushes reach L1, and only that one.            *)
LEMMA QueuedAppend ==
    ASSUME queue \in Seq(Events), NEW e \in Events, queue' = Append(queue, e)
    PROVE  Queued' = Queued \cup {e}
BY DEF Queued

(* At the start nothing is stored, selected or marked.                     *)
LEMMA DeliveryInit == Init => DeliveryInv
BY TypeInit DEF Init, Rows!Init, Rows!Events, Events, DeliveryInv, IdsInOrder, SelectedCommitted,
                MarkedReached, Preceded

(* An insert changes none of the rows that have been inserted before.      *)
LEMMA EmitDelivery ==
    ASSUME DeliveryInv, NEW e \in Events, NEW k \in Contents, Emit(e, k)
    PROVE  IdsInOrder' /\ SelectedCommitted' /\ MarkedReached' /\ Preceded'
<1>e. /\ row[e] = "free" /\ \A f \in 1 .. e - 1 : row[f] # "free"
      /\ row' = [row EXCEPT ![e] = "open"]
      /\ content' = [content EXCEPT ![e] = k]
      /\ UNCHANGED <<published, queue, markers, printed, batch, marks>>
  BY EmitRows DEF redis
<1>t. /\ row \in [Events -> {"free", "open", "committed", "gone"}]
      /\ content \in [Events -> Contents \cup {NoContent}]
      /\ batch \in [Relays -> SUBSET Events]
  BY DEF DeliveryInv, TypeInv, TypeOK
<1> USE DEF DeliveryInv, Events
<1>1. MarkedReached'
  BY <1>e DEF MarkedReached, Reached, Queued
<1>2. SelectedCommitted'
  BY <1>e, <1>t DEF SelectedCommitted
<1>3. IdsInOrder'
  <2> SUFFICES ASSUME NEW g \in Events, NEW f \in 1 .. g - 1, row'[g] # "free"
               PROVE  /\ row'[f] # "free"
                      /\ row'[f] = "open" /\ content'[f] = content'[g]
                            => row'[g] = "open"
    BY DEF IdsInOrder
  <2>1. f \in Events /\ f # g
    BY RelayAssumption
  <2>2. CASE g = e
    BY <2>1, <2>2, <1>e, <1>t
  <2>3. CASE g # e
    <3>1. row[g] # "free" /\ f # e
      BY <2>3, <1>e, <1>t DEF IdsInOrder
    <3> QED
      BY <2>1, <2>3, <3>1, <1>e, <1>t DEF IdsInOrder
  <2> QED
    BY <2>2, <2>3
<1>4. Preceded'
  BY <1>e, <1>t DEF Preceded, Before, SelectedCommitted
<1> QED
  BY <1>1, <1>2, <1>3, <1>4

(* A row that commits late was open when no later row of its item was      *)
(* committed, so that no selected row comes after it.                      *)
LEMMA EndDelivery ==
    ASSUME DeliveryInv, NEW K \in SUBSET Contents, EndEmit(K)
    PROVE  IdsInOrder' /\ SelectedCommitted' /\ MarkedReached' /\ Preceded'
<1> USE RelayAssumption DEF DeliveryInv, TypeInv, TypeOK, redis
<1>r. PICK end \in {"committed", "gone"} :
        /\ row' = [e \in Events |-> IF row[e] = "open" /\ content[e] \in K
                                    THEN end ELSE row[e]]
        /\ content' = [e \in Events |->
                         IF row[e] = "open" /\ content[e] \in K /\ end = "gone"
                         THEN NoContent ELSE content[e]]
  BY EndRows
<1>e. UNCHANGED <<published, queue, markers, printed, batch, marks>>
  BY EndRows
<1>1. MarkedReached'
  BY <1>e DEF MarkedReached, Reached, Queued
<1>2. SelectedCommitted'
  BY <1>r, <1>e DEF SelectedCommitted
<1>3. IdsInOrder'
  <2> SUFFICES ASSUME NEW g \in Events, NEW f \in 1 .. g - 1, row'[g] # "free"
               PROVE  /\ row'[f] # "free"
                      /\ row'[f] = "open" /\ content'[f] = content'[g]
                            => row'[g] = "open"
    BY DEF IdsInOrder
  <2>1. f \in Events /\ f # g
    BY DEF Events
  <2>2. /\ row[g] # "free" /\ row[f] # "free"
        /\ row[f] = "open" /\ content[f] = content[g] => row[g] = "open"
    BY <1>r DEF IdsInOrder
  <2>3. row'[f] # "free"
    BY <1>r, <2>1, <2>2
  <2>4. ASSUME row'[f] = "open", content'[f] = content'[g] PROVE row'[g] = "open"
    <3>1. row[f] = "open" /\ content[f] \in Contents /\ content'[f] = content[f]
          /\ content[f] \notin K
      BY <1>r, <2>1, <2>4 DEF ContentOK
    <3>2. content'[g] = content[g]
      BY <1>r, <2>4, <3>1
    <3> QED
      BY <1>r, <2>2, <2>4, <3>1, <3>2
  <2> QED
    BY <2>3, <2>4
<1>4. Preceded'
  <2> SUFFICES ASSUME NEW r \in Relays, NEW g \in batch[r], NEW f \in Events,
                      Before(g, f)'
               PROVE  f \in published \cup marks[r] \cup batch[r]
    BY <1>e DEF Preceded
  <2>1. g \in Events /\ row[g] = "committed" /\ f < g /\ row'[f] = "committed"
    BY DEF SelectedCommitted, Before
  <2>2. content'[f] = content'[g] /\ content'[g] = content[g]
    BY <1>r, <2>1 DEF Before
  <2>3. row[f] \in {"open", "committed"} /\ content'[f] = content[f]
    BY <1>r, <2>1, <2>2 DEF ContentOK
  <2>4. row[f] # "open"
    <3>1. f \in 1 .. g - 1
      BY <2>1 DEF Events
    <3>2. row[f] = "open" /\ content[f] = content[g] => row[g] = "open"
      BY <2>1, <3>1 DEF IdsInOrder
    <3> QED
      BY <2>1, <2>2, <2>3, <3>2
  <2> QED
    BY <2>1, <2>2, <2>3, <2>4 DEF Preceded, Before
<1> QED
  BY <1>1, <1>2, <1>3, <1>4

(* The publisher returns for a row that it has taken: the mark takes the   *)
(* place of the selection (outbox.py:37-42).                               *)
LEMMA MarkDelivery ==
    ASSUME DeliveryInv, NEW r \in Relays, NEW e \in First(r), Mark(r, e),
           UNCHANGED <<row, content, published>>,
           Reached \subseteq Reached', e \in Reached', markers' \subseteq Queued',
           Queued \subseteq Queued', r \notin LogRelays => e \in Queued'
    PROVE  IdsInOrder' /\ SelectedCommitted' /\ MarkedReached' /\ Preceded'
<1> USE DEF DeliveryInv, TypeInv, TypeOK
<1>1. IdsInOrder'
  BY DEF IdsInOrder
<1>2. \A s \in Relays : batch'[s] \subseteq batch[s]
  BY DEF Mark
<1>3. SelectedCommitted'
  BY <1>2 DEF SelectedCommitted
<1>4. \A s \in Relays : marks'[s] \subseteq marks[s] \cup {e}
  BY DEF Mark
<1>5. MarkedReached'
  <2>1. ASSUME NEW s \in Relays \ LogRelays PROVE marks'[s] \subseteq Queued'
    <3>1. s # r => marks'[s] = marks[s]
      BY DEF Mark
    <3> QED
      BY <1>4, <3>1 DEF MarkedReached
  <2> QED
    BY <1>4, <2>1 DEF MarkedReached
<1>6. \A s \in Relays : batch[s] \cup marks[s] \subseteq batch'[s] \cup marks'[s]
  BY DEF Mark
<1>7. Preceded'
  BY <1>2, <1>6 DEF Preceded, Before
<1> QED
  BY <1>1, <1>3, <1>5, <1>7

(* A run that fails forgets selection and marks; what it handed over stays.*)
LEMMA RollbackDelivery ==
    ASSUME DeliveryInv, NEW r \in Relays, Rollback(r),
           UNCHANGED <<row, content, published>>,
           Reached \subseteq Reached', Queued \subseteq Queued', markers' \subseteq Queued'
    PROVE  IdsInOrder' /\ SelectedCommitted' /\ MarkedReached' /\ Preceded'
<1> USE DEF DeliveryInv, TypeInv, TypeOK
<1>1. \A s \in Relays : batch'[s] \subseteq batch[s] /\ marks'[s] \subseteq marks[s]
  BY DEF Rollback
<1>2. IdsInOrder' /\ SelectedCommitted' /\ MarkedReached'
  BY <1>1 DEF IdsInOrder, SelectedCommitted, MarkedReached
<1>3. \A s \in Relays : batch'[s] = {} \/ (s # r /\ marks'[s] = marks[s]
                                              /\ batch'[s] = batch[s])
  BY DEF Rollback
<1>4. Preceded'
  BY <1>3 DEF Preceded, Before
<1> QED
  BY <1>2, <1>4

(* A script that pushes makes its event reach L1 and keeps what had.       *)
LEMMA PushReached ==
    ASSUME DeliveryInv, NEW r \in Relays, NEW e \in First(r),
           queue' = Append(queue, e), UNCHANGED printed
    PROVE  /\ e \in Events
           /\ Queued' = Queued \cup {e} /\ Reached' = Reached \cup {e}
           /\ markers' \subseteq markers \cup {e} => markers' \subseteq Queued'
<1>1. e \in Events /\ queue \in Seq(Events)
  BY DEF First, DeliveryInv, TypeInv, TypeOK
<1>2. Queued' = Queued \cup {e}
  BY <1>1, QueuedAppend
<1> QED
  BY <1>1, <1>2 DEF Reached, DeliveryInv, MarkedReached

(* Each part of the invariant under each action.                           *)
LEMMA DeliveryStep == DeliveryInv /\ [Next]_vars => DeliveryInv'
<1> SUFFICES ASSUME DeliveryInv, [Next]_vars
             PROVE  IdsInOrder' /\ SelectedCommitted' /\ MarkedReached' /\ Preceded'
  BY TypeStep DEF DeliveryInv
<1>t. /\ batch \in [Relays -> SUBSET Events] /\ marks \in [Relays -> SUBSET Events]
      /\ \A e \in Events : row[e] \in {"free", "open", "committed", "gone"}
  BY DEF DeliveryInv, TypeInv, TypeOK
<1>m. markers \subseteq Queued
  BY DEF DeliveryInv, MarkedReached
<1> DEFINE Kept == IdsInOrder' /\ SelectedCommitted' /\ MarkedReached' /\ Preceded'
<1>1. ASSUME NEW e \in Events, NEW k \in Contents, Emit(e, k) PROVE Kept
  BY <1>1, EmitDelivery
<1>2. ASSUME NEW K \in SUBSET Contents, EndEmit(K) PROVE Kept
  BY <1>2, EndDelivery
<1>3. ASSUME NEW e \in Events, Expire(e) PROVE Kept
  BY <1>3 DEF Expire, DeliveryInv, IdsInOrder, SelectedCommitted, MarkedReached,
              Preceded, Before, Reached, Queued
<1>4. ASSUME NEW r \in Relays, Select(r) PROVE Kept
  <2>1. IdsInOrder' /\ MarkedReached'
    BY <1>4 DEF Select, redis, DeliveryInv, IdsInOrder, MarkedReached, Reached,
                Queued
  <2>2. SelectedCommitted'
    BY <1>4, <1>t DEF Select, Unpublished, DeliveryInv, SelectedCommitted
  <2>3. Preceded'
    BY <1>4, <1>t DEF Select, Unpublished, DeliveryInv, Preceded, Before
  <2> QED
    BY <2>1, <2>2, <2>3
<1>5. ASSUME NEW r \in Relays, Skip(r) PROVE Kept
  <2>1. PICK e \in First(r) : e \in markers /\ Mark(r, e)
    BY <1>5 DEF Skip, Accepted
  <2>2. Reached' = Reached /\ Queued' = Queued /\ markers' = markers
    BY <1>5 DEF Skip, redis, Reached, Queued
  <2>3. e \in Reached' /\ e \in Queued'
    BY <1>m, <2>1, <2>2 DEF Reached
  <2> QED
    BY <1>5, <1>m, <2>1, <2>2, <2>3, MarkDelivery DEF Skip
<1>6. ASSUME NEW r \in Relays, Push(r) PROVE Kept
  <2>1. PICK e \in First(r) :
            queue' = Append(queue, e) /\ markers' = markers \cup {e} /\ Mark(r, e)
    BY <1>6 DEF Push
  <2>2. /\ Queued' = Queued \cup {e} /\ Reached' = Reached \cup {e}
        /\ markers' \subseteq Queued'
    BY <1>6, <2>1, PushReached DEF Push
  <2> QED
    BY <1>6, <2>1, <2>2, MarkDelivery DEF Push
<1>7. ASSUME NEW r \in Relays, PrintEvent(r) PROVE Kept
  <2>1. PICK e \in First(r) : printed' = printed \cup {e} /\ Mark(r, e)
    BY <1>7 DEF PrintEvent
  <2>2. Queued' = Queued /\ markers' = markers /\ Reached' = Reached \cup {e}
    BY <1>7, <2>1 DEF PrintEvent, redis, Queued, Reached
  <2> QED
    BY <1>7, <1>m, <2>1, <2>2, MarkDelivery DEF PrintEvent
<1>8. ASSUME NEW r \in Relays, CommitMarks(r) PROVE Kept
  <2>1. IdsInOrder' /\ SelectedCommitted'
    BY <1>8 DEF CommitMarks, DeliveryInv, IdsInOrder, SelectedCommitted
  <2>2. MarkedReached'
    BY <1>8, <1>t DEF CommitMarks, redis, DeliveryInv, MarkedReached, Reached, Queued
  <2>3. Preceded'
    BY <1>8, <1>t DEF CommitMarks, DeliveryInv, Preceded, Before
  <2> QED
    BY <2>1, <2>2, <2>3
<1>9. ASSUME NEW r \in Relays, Fail(r) PROVE Kept
  <2>1. Queued' = Queued /\ markers' = markers /\ Reached' = Reached
    BY <1>9 DEF Fail, redis, Queued, Reached
  <2> QED
    BY <1>9, <1>m, <2>1, RollbackDelivery DEF Fail
<1>10. ASSUME NEW r \in Relays, SetFails(r) PROVE Kept
  <2>1. PICK e \in First(r) : queue' = Append(queue, e) /\ markers' = markers
    BY <1>10 DEF SetFails, HalfScript
  <2>2. /\ Queued' = Queued \cup {e} /\ Reached' = Reached \cup {e}
        /\ markers' \subseteq Queued'
    BY <1>10, <2>1, PushReached DEF SetFails
  <2> QED
    BY <1>10, <2>2, RollbackDelivery DEF SetFails
<1>11. ASSUME NEW r \in Relays, AnswerLost(r) PROVE Kept
  <2>1. PICK e \in First(r) :
            queue' = Append(queue, e) /\ markers' = markers \cup {e}
    BY <1>11 DEF AnswerLost
  <2>2. /\ Queued' = Queued \cup {e} /\ Reached' = Reached \cup {e}
        /\ markers' \subseteq Queued'
    BY <1>11, <2>1, PushReached DEF AnswerLost
  <2> QED
    BY <1>11, <2>2, RollbackDelivery DEF AnswerLost
<1>12. CASE UNCHANGED vars
  BY <1>12 DEF vars, DeliveryInv, IdsInOrder, SelectedCommitted, MarkedReached,
               Preceded, Before, Reached, Queued
<1> QED
  BY <1>1, <1>2, <1>3, <1>4, <1>5, <1>6, <1>7, <1>8, <1>9, <1>10, <1>11, <1>12
     DEF Next, RelayStep

(* A selected row is committed, and has its item.                          *)
LEMMA SelectedItem ==
    ASSUME DeliveryInv, NEW r \in Relays, NEW e \in First(r)
    PROVE  /\ e \in Events /\ e \in batch[r] /\ row[e] = "committed"
           /\ content[e] \in Contents /\ content[e] # NoContent
BY RelayAssumption
   DEF First, DeliveryInv, SelectedCommitted, TypeInv, TypeOK, ContentOK

(* The first row of a run with the Redis publisher may be handed over: L1  *)
(* has the earlier rows of its item, or some run has marked them.          *)
LEMMA FirstInOrder ==
    ASSUME DeliveryInv, NEW r \in Relays \ LogRelays, NEW e \in First(r),
           Queued' = Queued \cup {e}, UNCHANGED <<row, content, published, printed>>
    PROVE  Promise!HandOver(e) /\ e \in Events
<1>t. batch \in [Relays -> SUBSET Events]
  BY DEF DeliveryInv, TypeInv, TypeOK
<1>1. /\ e \in Events /\ e \in batch[r] /\ row[e] = "committed"
      /\ content[e] \in Contents /\ content[e] # NoContent
  BY SelectedItem
<1>2. ASSUME NEW f \in 1 .. e - 1, Before(e, f) PROVE f \in Queued \cup published
  <2>1. f \in Events /\ f < e
    BY <1>1, RelayAssumption DEF Events
  <2>2. f \notin batch[r]
    BY <1>1, <1>t, <2>1 DEF First, Events
  <2>3. f \in published \cup marks[r]
    BY <1>1, <1>2, <2>1, <2>2 DEF DeliveryInv, Preceded
  <2> QED
    BY <2>3 DEF DeliveryInv, MarkedReached
<1>3. \A f \in 1 .. e - 1 : f \in Events /\ f < e
  BY <1>1, RelayAssumption DEF Events
<1>4. \A f \in 1 .. e - 1 :
        (IF row[f] = "committed" THEN content[f] ELSE NoContent) = content[e]
            => f \in Queued \cup published
  BY <1>1, <1>2, <1>3 DEF Before
<1> QED
  BY <1>1, <1>3, <1>4 DEF Promise!HandOver

(* Each step of the relay is a step of Delivery or changes nothing of it.  *)
LEMMA DeliveryRefines == DeliveryInv /\ [Next]_vars => [Promise!Next]_Promise!dvars
<1> SUFFICES ASSUME DeliveryInv, [Next]_vars
             PROVE  Promise!Next \/ UNCHANGED Promise!dvars
  OBVIOUS
<1> USE DEF Promise!dvars, Promise!Next, Promise!Events, Events
<1>s. ASSUME UNCHANGED <<row, content, published, printed>>, Queued' = Queued
      PROVE  UNCHANGED Promise!dvars
  BY <1>s
<1>1. ASSUME NEW e \in Events, NEW k \in Contents, Emit(e, k)
      PROVE  UNCHANGED Promise!dvars
  <2>1. /\ row[e] = "free"
        /\ row' = [row EXCEPT ![e] = "open"]
        /\ content' = [content EXCEPT ![e] = k]
        /\ UNCHANGED <<queue, printed, published>>
    BY <1>1, EmitRows DEF redis
  <2>2. \A f \in Events :
            /\ row'[f] = "committed" <=> row[f] = "committed"
            /\ row[f] = "committed" => content'[f] = content[f]
    BY <2>1 DEF DeliveryInv, TypeInv, TypeOK
  <2> QED
    BY <2>1, <2>2 DEF Queued
<1>2. ASSUME NEW K \in SUBSET Contents, EndEmit(K) PROVE Promise!Next
  <2>1. UNCHANGED <<queue, printed, published>>
    BY <1>2, EndRows DEF DeliveryInv, redis
  <2>2. PICK end \in {"committed", "gone"} :
            /\ row' = [e \in Events |-> IF row[e] = "open" /\ content[e] \in K
                                        THEN end ELSE row[e]]
            /\ content' = [e \in Events |->
                             IF row[e] = "open" /\ content[e] \in K
                                /\ end = "gone"
                             THEN NoContent ELSE content[e]]
    BY <1>2, EndRows DEF DeliveryInv
  <2>3. \A e \in Events :
            /\ row'[e] = "committed" => content'[e] \in Contents
            /\ row[e] = "committed" =>
                  row'[e] = "committed" /\ content'[e] = content[e]
    BY <2>2 DEF DeliveryInv, TypeInv, TypeOK, ContentOK
  <2>4. Promise!Store
    BY <2>1, <2>3 DEF Promise!Store, Queued
  <2> QED
    BY <2>4
<1>3. ASSUME NEW e \in Events, Expire(e) PROVE UNCHANGED Promise!dvars
  BY <1>3, <1>s DEF Expire, Queued
<1>4. ASSUME NEW r \in Relays, Select(r) \/ Skip(r) \/ Fail(r)
      PROVE  UNCHANGED Promise!dvars
  BY <1>4, <1>s DEF Select, Skip, Fail, redis, Queued
<1>5. ASSUME NEW r \in Relays, Push(r) \/ SetFails(r) \/ AnswerLost(r)
      PROVE  Promise!Next
  <2>1. PICK e \in First(r) : queue' = Append(queue, e)
    BY <1>5 DEF Push, SetFails, AnswerLost, HalfScript
  <2>2. /\ r \in Relays \ LogRelays
        /\ UNCHANGED <<row, content, published, printed>>
    BY <1>5 DEF Push, SetFails, AnswerLost
  <2>3. Queued' = Queued \cup {e}
    BY <2>1, <2>2, PushReached
  <2> QED
    BY <2>2, <2>3, FirstInOrder
<1>6. ASSUME NEW r \in Relays, PrintEvent(r) PROVE Promise!Next
  <2>1. PICK e \in First(r) : printed' = printed \cup {e}
    BY <1>6 DEF PrintEvent
  <2>2. UNCHANGED <<row, content, published>> /\ Queued' = Queued
    BY <1>6 DEF PrintEvent, redis, Queued
  <2>3. Promise!Divert(e) /\ e \in Events
    BY <2>1, <2>2, SelectedItem DEF Promise!Divert
  <2> QED
    BY <2>3
<1>7. ASSUME NEW r \in Relays, CommitMarks(r) PROVE Promise!Next
  <2>1. Promise!Strike
    BY <1>7 DEF CommitMarks, redis, Queued, Reached, DeliveryInv, MarkedReached,
                Promise!Strike
  <2> QED
    BY <2>1
<1>8. CASE UNCHANGED vars
  BY <1>8, <1>s DEF vars, Queued
<1> QED
  BY <1>1, <1>2, <1>3, <1>4, <1>5, <1>6, <1>7, <1>8 DEF Next, RelayStep

(* L1 misses no event but those a run without a consumer has taken, and    *)
(* gets an item's in order: relay_once and the script implement Delivery   *)
(* (outbox.py:33-45, publishers.py:6-16), whatever runs overlap, fail or   *)
(* lose answers.                                                           *)
THEOREM Implements == Spec => DeliveryKept
<1>1. Spec => []DeliveryInv
  BY DeliveryInit, DeliveryStep, PTL DEF Spec
<1>2. Init => Promise!Init
  BY DEF Init, Rows!Init, Rows!Events, Promise!Init, Promise!Events, Events,
         Queued
<1>3. DeliveryInv /\ [Next]_vars => [Promise!Next]_Promise!dvars
  BY DeliveryRefines
<1> QED
  BY <1>1, <1>2, <1>3, PTL DEF Spec, DeliveryKept, Promise!Spec
=============================================================================
