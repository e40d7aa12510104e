------------------------------- MODULE Query --------------------------------
(***************************************************************************)
(* The internal query API by which L1 pulls content (query/api.py): walks  *)
(* over the pages of list_contents by a cursor, while crawls insert items  *)
(* (ingest/canonical.py).  get_content is in ObjectStore.                  *)
(*                                                                         *)
(* An id is taken by the INSERT and visible with the commit, so ids do not *)
(* become visible in their order.  The conditions on status and fetched_at *)
(* are on columns that are not written after the INSERT: they are one      *)
(* attribute here, the item's class.                                       *)
(***************************************************************************)
EXTENDS Naturals, FiniteSets

CONSTANTS
    Readers,    \* consumers that walk the pages
    MaxItem,    \* bound: ids of content_items are 1 .. MaxItem
    Classes,    \* what status and since tell apart
    Limits,     \* page sizes a call may ask for
    None        \* no class

ASSUME QueryAssumption ==
    /\ MaxItem \in Nat
    /\ Limits \subseteq 1 .. 500
    /\ None \notin Classes

Items == 1 .. MaxItem

VARIABLES
    row,        \* the transaction that inserts each item: how far it is
    class,      \* the item's class
    walk        \* per reader: its walk over the pages

vars == <<row, class, walk>>

(* A walk: its filter, its cursor (0: none), the items it has returned and *)
(* in how many rows, and the items it had to return when it began.         *)
Walks == [pc : {"idle", "walking", "ended"}, class : Classes \cup {None},
          cursor : 0 .. MaxItem, seen : SUBSET Items, returned : Nat,
          due : SUBSET Items]

Init ==
    /\ row = [i \in Items |-> "free"]
    /\ class = [i \in Items |-> None]
    /\ walk = [r \in Readers |-> [pc |-> "idle", class |-> None, cursor |-> 0,
                                  seen |-> {}, returned |-> 0, due |-> {}]]

-----------------------------------------------------------------------------
(* The crawls.                                                             *)

(* build_content_item or build_trend_item inserts the item: the next id.   *)
Insert(i, c) ==
    /\ row[i] = "free"
    /\ \A j \in 1 .. i - 1 : row[j] # "free"
    /\ row' = [row EXCEPT ![i] = "open"]
    /\ class' = [class EXCEPT ![i] = c]
    /\ UNCHANGED walk

(* Its transaction ends, in any order.                                     *)
EndInsert(i) ==
    /\ row[i] = "open"
    /\ \E end \in {"committed", "gone"} : row' = [row EXCEPT ![i] = end]
    /\ UNCHANGED <<class, walk>>

-----------------------------------------------------------------------------
(* The reader.                                                             *)

Matching(c) == {i \in Items : row[i] = "committed" /\ class[i] = c}

BeginWalk(r, c) ==
    /\ walk[r].pc # "walking"
    /\ walk' = [walk EXCEPT ![r] =
            [pc |-> "walking", class |-> c, cursor |-> 0, seen |-> {},
             returned |-> 0, due |-> Matching(c)]]
    /\ UNCHANGED <<row, class>>

FromCursor(r) == {i \in Matching(walk[r].class) : i >= walk[r].cursor}

(* The rows behind the cursor.                                             *)
Behind(r) == {i \in Matching(walk[r].class) : i > walk[r].cursor}

(* A page: the first n of them in the order of their ids, or all.          *)
IsPage(r, n, page) ==
    /\ page \subseteq Behind(r)
    /\ \A i \in page, j \in Behind(r) : j < i => j \in page
    /\ Cardinality(page) <= n
    /\ page = Behind(r) \/ Cardinality(page) = n

NeverMore(r, n) == FALSE

(* Of limit + 1 rows that were selected, more came than the page shows.    *)
More(r, n) == Cardinality(Behind(r)) > n

FirstBeyond(r, page, i) ==
    i \in Behind(r) \ page /\ \A j \in Behind(r) \ page : i <= j

(* next_cursor: the last id of the page.                                   *)
NextCursor(r, page, i) == i \in page /\ \A j \in page : j <= i

(* The walk after a page.                                                  *)
Shown(w, page, pc, cursor) ==
    [w EXCEPT !.pc = pc, !.cursor = cursor, !.seen = @ \cup page,
              !.returned = @ + Cardinality(page)]

Show(r, page, pc, cursor) ==
    /\ walk' = [walk EXCEPT ![r] = Shown(walk[r], page, pc, cursor)]
    /\ UNCHANGED <<row, class>>

(* A page, with a cursor for the next one ...                              *)
ReadPage(r, n) ==
    /\ walk[r].pc = "walking"
    /\ More(r, n)
    /\ \E page \in SUBSET Behind(r), i \in Items :
        /\ IsPage(r, n, page)
        /\ NextCursor(r, page, i)
        /\ Show(r, page, "walking", i)

(* ... or without: the walk is at its end.                                 *)
ReadLastPage(r, n) ==
    /\ walk[r].pc = "walking"
    /\ ~More(r, n)
    /\ \E page \in SUBSET Behind(r) :
        /\ IsPage(r, n, page)
        /\ Show(r, page, "ended", walk[r].cursor)

Next ==
    \/ \E i \in Items : EndInsert(i) \/ \E c \in Classes : Insert(i, c)
    \/ \E r \in Readers :
        \/ \E c \in Classes : BeginWalk(r, c)
        \/ \E n \in Limits : ReadPage(r, n) \/ ReadLastPage(r, n)

Spec == Init /\ [][Next]_vars

-----------------------------------------------------------------------------
(* Properties.                                                             *)

(* Types, and that a cursor is the id of an item the walk has returned     *)
(* (db/models.py:97-119, query/contracts.py:20-39).                        *)
TypeOK ==
    /\ row \in [Items -> {"free", "open", "committed", "gone"}]
    /\ class \in [Items -> Classes \cup {None}]
    /\ walk \in [Readers -> Walks]
    /\ \A r \in Readers : walk[r].cursor \in walk[r].seen \cup {0}

(* A walk returns every matching item that was there when it began,        *)
(* whatever the sizes of its pages and whatever is committed or rolled     *)
(* back between them (api.py:55-62).                                       *)
WalkComplete ==
    \A r \in Readers : walk[r].pc = "ended" => walk[r].due \subseteq walk[r].seen

(* A walk returns no item twice, also when items appear between its pages  *)
(* (api.py:55-62).                                                         *)
NoneTwice == \A r \in Readers : walk[r].returned = Cardinality(walk[r].seen)

(* A walk leaves nothing out: every matching item below the last one it    *)
(* has returned, if it is committed when the walk ends, is returned too    *)
(* (docs/L0-开发Plan-详尽版.html:428).                                      *)
NothingLeftOut ==
    [][\A r \in Readers :
          walk[r].pc = "walking" /\ walk'[r].pc = "ended" =>
              \A i \in Matching(walk[r].class), j \in walk'[r].seen :
                  i < j => i \in walk'[r].seen]_vars
=============================================================================
