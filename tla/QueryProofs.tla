---------------------------- MODULE QueryProofs -----------------------------
(* Machine-checked proofs about Query, for any number of readers, items,   *)
(* classes and page sizes.                                                 *)
EXTENDS Query, FiniteSetTheorems, TLAPS

(* A walk that goes on has returned what it was due up to its cursor, and  *)
(* nothing beyond; what it is due stays visible, and in its class.         *)
WalkInv ==
    \A r \in Readers :
        /\ walk[r].due \subseteq Matching(walk[r].class)
        /\ walk[r].pc = "idle" => walk[r].seen = {}
        /\ walk[r].pc = "walking" =>
              /\ \A i \in walk[r].due : i <= walk[r].cursor => i \in walk[r].seen
              /\ \A i \in walk[r].seen : i <= walk[r].cursor
        /\ walk[r].pc = "ended" => walk[r].due \subseteq walk[r].seen

QueryInv == TypeOK /\ WalkInv /\ NoneTwice

-----------------------------------------------------------------------------
(* Pages.                                                                  *)

(* What a reader may be shown is finite.                                   *)
LEMMA BehindFinite ==
    ASSUME NEW r \in Readers
    PROVE  /\ Behind(r) \subseteq Items
           /\ IsFiniteSet(Behind(r))
           /\ \A S \in SUBSET Items : IsFiniteSet(S) /\ Cardinality(S) \in Nat
<1>1. IsFiniteSet(Items)
  BY FS_Interval, QueryAssumption DEF Items
<1>2. \A S \in SUBSET Items : IsFiniteSet(S) /\ Cardinality(S) \in Nat
  BY <1>1, FS_Subset, FS_CardinalityType
<1>3. Behind(r) \subseteq Items
  BY DEF Behind, Matching
<1> QED
  BY <1>2, <1>3

(* The last page shows all that is behind the cursor (api.py:60-62).       *)
LEMMA LastPage ==
    ASSUME NEW r \in Readers, NEW n \in Limits, ~More(r, n),
           NEW page \in SUBSET Behind(r), IsPage(r, n, page)
    PROVE  page = Behind(r)
<1>1. CASE page = Behind(r)
  BY <1>1
<1>2. CASE Cardinality(page) = n
  <2>1. /\ Cardinality(Behind(r)) \in Nat
        /\ Cardinality(page) <= Cardinality(Behind(r))
        /\ Cardinality(Behind(r)) = Cardinality(page) => Behind(r) = page
    BY BehindFinite, FS_Subset
  <2>2. Cardinality(Behind(r)) <= n
    BY <2>1, QueryAssumption DEF More
  <2> QED
    BY <1>2, <2>1, <2>2, QueryAssumption
<1> QED
  BY <1>1, <1>2 DEF IsPage

-----------------------------------------------------------------------------
(* The steps.                                                              *)

(* Before the first crawl and the first walk the invariant holds.          *)
LEMMA QueryInit == Init => QueryInv
<1> SUFFICES ASSUME Init PROVE QueryInv
  OBVIOUS
<1>1. TypeOK
  BY QueryAssumption DEF Init, TypeOK, Walks, Items
<1>2. NoneTwice
  BY FS_EmptySet DEF Init, NoneTwice
<1>3. WalkInv
  BY DEF Init, WalkInv
<1> QED
  BY <1>1, <1>2, <1>3 DEF QueryInv

(* A crawl only adds to what walks can return (canonical.py:104-118,       *)
(* 179-193).                                                               *)
LEMMA CrawlStep ==
    ASSUME QueryInv, NEW i \in Items,
           EndInsert(i) \/ \E c \in Classes : Insert(i, c)
    PROVE  QueryInv'
<1> USE QueryAssumption DEF QueryInv
<1>1. walk' = walk
  BY DEF EndInsert, Insert
<1>2. TypeOK'
  BY <1>1 DEF TypeOK, EndInsert, Insert
<1>3. \A c \in Classes \cup {None} : Matching(c) \subseteq Matching(c)'
  BY DEF TypeOK, Matching, EndInsert, Insert
<1>4. WalkInv'
  BY <1>1, <1>3 DEF TypeOK, Walks, WalkInv
<1>5. NoneTwice'
  BY <1>1 DEF NoneTwice
<1> QED
  BY <1>2, <1>4, <1>5

(* A walk after a page is a walk (contracts.py:20-39).                      *)
LEMMA ShownIsWalk ==
    ASSUME NEW w \in Walks, NEW pc \in {"walking", "ended"},
           NEW cursor \in Items \cup {0}, NEW page \in SUBSET Items,
           IsFiniteSet(page)
    PROVE  /\ Shown(w, page, pc, cursor) \in Walks
           /\ Shown(w, page, pc, cursor).pc = pc
           /\ Shown(w, page, pc, cursor).cursor = cursor
           /\ Shown(w, page, pc, cursor).seen = w.seen \cup page
           /\ Shown(w, page, pc, cursor).returned = w.returned + Cardinality(page)
           /\ Shown(w, page, pc, cursor).class = w.class
           /\ Shown(w, page, pc, cursor).due = w.due
<1> DEFINE n == Cardinality(page)
<1>1. /\ n \in Nat /\ w.returned + n \in Nat
      /\ w.seen \cup page \in SUBSET Items /\ cursor \in 0 .. MaxItem
  <2>1. n \in Nat
    BY FS_CardinalityType
  <2>2. cursor \in 0 .. MaxItem
    BY QueryAssumption DEF Items
  <2>3. w.returned \in Nat /\ w.seen \in SUBSET Items
    BY DEF Walks
  <2>4. w.seen \cup page \in SUBSET Items
    BY <2>3
  <2> HIDE DEF n
  <2>5. w.returned + n \in Nat
    BY <2>1, <2>3
  <2> QED
    BY <2>1, <2>2, <2>4, <2>5
<1>2. Shown(w, page, pc, cursor) =
        [w EXCEPT !.pc = pc, !.cursor = cursor, !.seen = @ \cup page,
                  !.returned = @ + n]
  BY DEF Shown
<1> HIDE DEF n
<1>3. /\ Shown(w, page, pc, cursor).pc = pc
      /\ Shown(w, page, pc, cursor).cursor = cursor
      /\ Shown(w, page, pc, cursor).seen = w.seen \cup page
      /\ Shown(w, page, pc, cursor).returned = w.returned + n
      /\ Shown(w, page, pc, cursor).class = w.class
      /\ Shown(w, page, pc, cursor).due = w.due
  BY <1>2 DEF Walks
<1>4. Shown(w, page, pc, cursor) \in Walks
  BY <1>1, <1>2 DEF Walks
<1> QED
  BY <1>3, <1>4 DEF n

(* A page adds items to a walk that the walk has not returned before: they *)
(* are beyond its cursor (api.py:56-60).                                   *)
LEMMA ShowStep ==
    ASSUME QueryInv, NEW r \in Readers, walk[r].pc = "walking",
           NEW page \in SUBSET Behind(r), NEW pc \in {"walking", "ended"},
           NEW cursor \in walk[r].seen \cup page \cup {0},
           Show(r, page, pc, cursor)
    PROVE  /\ TypeOK' /\ NoneTwice'
           /\ walk'[r].due = walk[r].due /\ walk'[r].class = walk[r].class
           /\ walk'[r].seen = walk[r].seen \cup page
           /\ walk'[r].cursor = cursor /\ walk'[r].pc = pc
           /\ \A q \in Readers \ {r} : walk'[q] = walk[q]
           /\ \A c : Matching(c)' = Matching(c)
<1> USE QueryAssumption DEF QueryInv
<1> DEFINE new == Shown(walk[r], page, pc, cursor)
<1>1. /\ page \subseteq Items
      /\ IsFiniteSet(page) /\ Cardinality(page) \in Nat
      /\ \A i \in page : row[i] = "committed" /\ i > walk[r].cursor
  BY BehindFinite DEF Behind, Matching
<1>2. /\ walk[r] \in Walks
      /\ walk[r].seen \in SUBSET Items
      /\ walk[r].returned \in Nat
      /\ walk[r].cursor \in 0 .. MaxItem
  BY DEF TypeOK, Walks
<1>3. /\ walk' = [walk EXCEPT ![r] = new]
      /\ UNCHANGED <<row, class>>
  BY DEF Show
<1>4. /\ new \in Walks
      /\ new.cursor \in new.seen \cup {0}
      /\ new.seen = walk[r].seen \cup page
      /\ new.returned = walk[r].returned + Cardinality(page)
      /\ new.pc = pc /\ new.cursor = cursor
      /\ new.class = walk[r].class /\ new.due = walk[r].due
  <2>1. cursor \in Items \cup {0}
    BY <1>1, <1>2
  <2>2. page \in SUBSET Items /\ IsFiniteSet(page)
    BY <1>1
  <2>3. /\ new \in Walks
        /\ new.pc = pc
        /\ new.cursor = cursor
        /\ new.seen = walk[r].seen \cup page
        /\ new.returned = walk[r].returned + Cardinality(page)
        /\ new.class = walk[r].class
        /\ new.due = walk[r].due
    <3> DEFINE w == walk[r]
    <3>1. w \in Walks
      BY <1>2
    <3> HIDE DEF w
    <3>2. /\ Shown(w, page, pc, cursor) \in Walks
          /\ Shown(w, page, pc, cursor).pc = pc
          /\ Shown(w, page, pc, cursor).cursor = cursor
          /\ Shown(w, page, pc, cursor).seen = w.seen \cup page
          /\ Shown(w, page, pc, cursor).returned = w.returned + Cardinality(page)
          /\ Shown(w, page, pc, cursor).class = w.class
          /\ Shown(w, page, pc, cursor).due = w.due
      BY ONLY <2>1, <2>2, <3>1, pc \in {"walking", "ended"}, ShownIsWalk
    <3> QED
      BY <3>2 DEF w
  <2> HIDE DEF new
  <2> QED
    BY <2>3
<1>5. TypeOK'
  BY <1>3, <1>4 DEF TypeOK
<1>6. new.returned = Cardinality(new.seen)
  <2>1. walk[r].seen \cap page = {}
    BY <1>1, <1>2 DEF WalkInv, Items
  <2>2. /\ IsFiniteSet(walk[r].seen)
        /\ Cardinality(walk[r].seen) \in Nat
    BY <1>2, BehindFinite
  <2>3. Cardinality(walk[r].seen \cup page) =
            Cardinality(walk[r].seen) + Cardinality(page)
    <3>1. Cardinality(walk[r].seen \cap page) = 0
      BY <2>1, FS_EmptySet
    <3>2. Cardinality(walk[r].seen \cup page) =
              Cardinality(walk[r].seen) + Cardinality(page)
                  - Cardinality(walk[r].seen \cap page)
      BY <1>1, <2>2, FS_Union
    <3> QED
      BY <1>1, <2>2, <3>1, <3>2
  <2> QED
    BY <1>4, <2>3 DEF NoneTwice
<1>7. NoneTwice'
  BY <1>3, <1>6 DEF NoneTwice, TypeOK
<1>8. /\ walk'[r] = new
      /\ \A q \in Readers \ {r} : walk'[q] = walk[q]
      /\ \A c : Matching(c)' = Matching(c)
  BY <1>3 DEF TypeOK, Matching
<1> QED
  BY <1>4, <1>5, <1>7, <1>8

(* A walk begins with nothing returned (api.py:43-57).                     *)
LEMMA BeginStep ==
    ASSUME QueryInv, NEW r \in Readers, NEW c \in Classes, BeginWalk(r, c)
    PROVE  QueryInv'
<1> USE QueryAssumption DEF QueryInv
<1> DEFINE new == [pc |-> "walking", class |-> c, cursor |-> 0, seen |-> {},
                   returned |-> 0, due |-> Matching(c)]
<1>1. walk' = [walk EXCEPT ![r] = new] /\ new \in Walks
  BY DEF BeginWalk, Walks, Matching, Items
<1>2. TypeOK'
  BY <1>1 DEF TypeOK, BeginWalk
<1>3. WalkInv'
  <2>1. \A i \in Matching(c) : ~(i <= 0)
    BY DEF Matching, Items
  <2>2. \A k : Matching(k)' = Matching(k)
    BY DEF Matching, BeginWalk
  <2> QED
    BY <1>1, <2>1, <2>2 DEF WalkInv, TypeOK
<1>4. NoneTwice'
  BY <1>1, FS_EmptySet DEF NoneTwice, TypeOK
<1> QED
  BY <1>2, <1>3, <1>4

(* A page that is not the last one ends at the new cursor, and leaves      *)
(* nothing out below it (api.py:55-62).                                    *)
LEMMA PageStep ==
    ASSUME QueryInv, NEW r \in Readers, NEW n \in Limits, ReadPage(r, n)
    PROVE  QueryInv'
<1> USE QueryAssumption DEF QueryInv
<1>1. PICK page \in SUBSET Behind(r), i \in Items :
        /\ IsPage(r, n, page)
        /\ NextCursor(r, page, i)
        /\ Show(r, page, "walking", i)
  BY DEF ReadPage
<1>2. walk[r].pc = "walking"
  BY DEF ReadPage
<1>3. /\ TypeOK' /\ NoneTwice'
      /\ walk'[r].due = walk[r].due /\ walk'[r].class = walk[r].class
      /\ walk'[r].seen = walk[r].seen \cup page
      /\ walk'[r].cursor = i /\ walk'[r].pc = "walking"
      /\ \A q \in Readers \ {r} : walk'[q] = walk[q]
      /\ \A c : Matching(c)' = Matching(c)
  <2>1. i \in walk[r].seen \cup page \cup {0}
    BY <1>1 DEF NextCursor
  <2> QED
    BY <1>1, <1>2, <2>1, ShowStep
<1>4. /\ walk[r].due \subseteq Matching(walk[r].class)
      /\ \A j \in walk[r].due : j <= walk[r].cursor => j \in walk[r].seen
      /\ \A j \in walk[r].seen : j <= walk[r].cursor
      /\ walk[r].cursor \in Nat /\ walk[r].seen \subseteq Items
      /\ Matching(walk[r].class) \subseteq Items
      /\ i > walk[r].cursor
  BY <1>1, <1>2 DEF WalkInv, TypeOK, Walks, Matching, NextCursor, Behind
<1>5. \A j \in walk[r].due : j <= i => j \in walk[r].seen \cup page
  BY <1>1, <1>4 DEF IsPage, NextCursor, Behind, Items
<1>6. \A j \in walk[r].seen \cup page : j <= i
  <2>1. \A j \in page : j <= i
    BY <1>1 DEF NextCursor
  <2>2. \A j \in walk[r].seen : j <= i
    <3> SUFFICES ASSUME NEW j \in walk[r].seen PROVE j <= i
      OBVIOUS
    <3>1. j \in Nat /\ i \in Nat /\ j <= walk[r].cursor
      BY <1>4 DEF Items
    <3> QED
      BY <1>4, <3>1
  <2> QED
    BY <2>1, <2>2
<1>7. WalkInv'
  BY <1>3, <1>4, <1>5, <1>6 DEF WalkInv
<1> QED
  BY <1>3, <1>7

(* After the last page the walk has returned all it was due.               *)
LEMMA LastStep ==
    ASSUME QueryInv, NEW r \in Readers, NEW n \in Limits, ReadLastPage(r, n)
    PROVE  QueryInv'
<1> USE QueryAssumption DEF QueryInv
<1>1. PICK page \in SUBSET Behind(r) :
        IsPage(r, n, page) /\ Show(r, page, "ended", walk[r].cursor)
  BY DEF ReadLastPage
<1>2. walk[r].pc = "walking" /\ ~More(r, n)
  BY DEF ReadLastPage
<1>3. /\ TypeOK' /\ NoneTwice'
      /\ walk'[r].due = walk[r].due /\ walk'[r].class = walk[r].class
      /\ walk'[r].seen = walk[r].seen \cup page /\ walk'[r].pc = "ended"
      /\ \A q \in Readers \ {r} : walk'[q] = walk[q]
      /\ \A c : Matching(c)' = Matching(c)
  <2>1. PICK cursor \in walk[r].seen \cup page \cup {0}, pc \in {"walking", "ended"} :
            pc = "ended" /\ Show(r, page, pc, cursor)
    BY <1>1 DEF TypeOK
  <2>2. /\ TypeOK' /\ NoneTwice'
        /\ walk'[r].due = walk[r].due /\ walk'[r].class = walk[r].class
        /\ walk'[r].seen = walk[r].seen \cup page
        /\ walk'[r].cursor = cursor /\ walk'[r].pc = pc
        /\ \A q \in Readers \ {r} : walk'[q] = walk[q]
        /\ \A c : Matching(c)' = Matching(c)
    <3> HIDE DEF QueryInv
    <3> QED
      BY <1>2, <2>1, ShowStep
  <2> QED
    BY <2>1, <2>2
<1>4. page = Behind(r)
  BY <1>1, <1>2, LastPage
<1>5. walk[r].due \subseteq walk[r].seen \cup page
  BY <1>2, <1>4 DEF WalkInv, TypeOK, Walks, Behind, Matching, Items
<1>6. WalkInv'
  BY <1>3, <1>5 DEF WalkInv
<1> QED
  BY <1>3, <1>6

(* Every step keeps the invariant.                                         *)
LEMMA QueryStep == QueryInv /\ [Next]_vars => QueryInv'
<1> SUFFICES ASSUME QueryInv, [Next]_vars PROVE QueryInv'
  OBVIOUS
<1>1. CASE \E i \in Items : EndInsert(i) \/ \E c \in Classes : Insert(i, c)
  BY <1>1, CrawlStep
<1>2. ASSUME NEW r \in Readers, NEW c \in Classes, BeginWalk(r, c)
      PROVE  QueryInv'
  BY <1>2, BeginStep
<1>3. ASSUME NEW r \in Readers, NEW n \in Limits, ReadPage(r, n)
      PROVE  QueryInv'
  BY <1>3, PageStep
<1>4. ASSUME NEW r \in Readers, NEW n \in Limits, ReadLastPage(r, n)
      PROVE  QueryInv'
  BY <1>4, LastStep
<1>5. CASE UNCHANGED vars
  BY <1>5 DEF vars, QueryInv, TypeOK, WalkInv, NoneTwice, Matching
<1> QED
  BY <1>1, <1>2, <1>3, <1>4, <1>5 DEF Next

(* A cursor is the id of a returned item, for any number of readers and    *)
(* items (api.py:40-63, contracts.py:20-39).                               *)
THEOREM TypeCorrect == Spec => []TypeOK
<1>1. QueryInv => TypeOK
  BY DEF QueryInv
<1> QED
  BY <1>1, QueryInit, QueryStep, PTL DEF Spec

(* A walk returns all that matched when it began, whatever the page sizes  *)
(* and the inserts and roll-backs between its pages (api.py:55-62).        *)
THEOREM WalksComplete == Spec => []WalkComplete
<1>1. QueryInv => WalkComplete
  BY DEF QueryInv, WalkInv, WalkComplete
<1> QED
  BY <1>1, QueryInit, QueryStep, PTL DEF Spec

(* A walk returns nothing twice (api.py:55-62).                            *)
THEOREM WalksNoneTwice == Spec => []NoneTwice
<1>1. QueryInv => NoneTwice
  BY DEF QueryInv
<1> QED
  BY <1>1, QueryInit, QueryStep, PTL DEF Spec
=============================================================================
