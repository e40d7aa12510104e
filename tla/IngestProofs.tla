---------------------------- MODULE IngestProofs ----------------------------
(* Machine-checked proofs about Ingest and about Platform, for any number  *)
(* of crawlers, URLs, texts, items, raw documents and outbox ids.          *)
EXTENDS Platform, SequenceTheorems, TLAPS

(* What a session remembers of its current entry is there: its raw         *)
(* document is in its own transaction, and the item it read is visible.    *)
WorkOK ==
    \A c \in Crawlers :
        /\ work[c].pc # "fetch" =>
              /\ work[c].raw \in RawIds
              /\ txRaws[c][work[c].raw] # NoRow
        /\ work[c].pc = "save" /\ work[c].result # "NEW" =>
              /\ work[c].item \in ItemIds
              /\ work[c].seen \in Item
              /\ Row(c, work[c].item) # NoRow

TypeInv == TypeOK /\ WorkOK

(* Empty tables and idle sessions have their types (db/models.py:97-152).  *)
LEMMA TypeInit == Init => TypeInv
BY NoRowAssumption DEF Init, TypeInv, TypeOK, WorkOK, Idle, Work

(* The rows a session sees are rows.                                       *)
LEMMA RowType ==
    ASSUME TypeOK, NEW c \in Crawlers, NEW i \in ItemIds
    PROVE  Row(c, i) \in Item \cup {NoRow}
BY DEF TypeOK, Row

(* A session that is past the fetch has a raw document, its own or a       *)
(* committed one (raw_store.py:42-57).                                     *)
LEMMA EntryType ==
    ASSUME TypeOK, WorkOK, NEW c \in Crawlers, work[c].pc # "fetch"
    PROVE  Entry(c) \in Raw /\ work[c].raw \in RawIds
BY DEF TypeOK, WorkOK, Entry, RawRow

(* classify returns a result, and the item it read when there is one.      *)
LEMMA DecideType ==
    ASSUME TypeOK, WorkOK, NEW c \in Crawlers, NEW result \in Results,
           NEW i \in ItemIds \cup {NoRow},
           work[c].pc # "fetch",
           i = NoRow => result = "NEW",
           i # NoRow => i \in Visible(c),
           Decide(c, result, i), UNCHANGED <<tables, txs>>
    PROVE  TypeOK' /\ WorkOK'
<1> DEFINE entry == [pc |-> "save", raw |-> work[c].raw, result |-> result,
                     item |-> i, seen |-> IF i = NoRow THEN NoRow ELSE Row(c, i)]
<1>1. /\ entry \in Work
      /\ entry.raw = work[c].raw /\ entry.result = result /\ entry.item = i
      /\ i # NoRow => entry.seen \in Item
      BY RowType DEF TypeOK, WorkOK, Work, Visible
<1>2. work' = [work EXCEPT ![c] = entry]
      BY DEF Decide
<1> HIDE DEF entry
<1>3. QED
      BY <1>1, <1>2, NoRowAssumption
      DEF TypeOK, WorkOK, Row, tables, txs, Visible

(* The rows two of the updates write.                                      *)
LEMMA ResightRow ==
    ASSUME NEW row \in Item, NEW r \in RawIds, NEW m \in SUBSET RawIds,
           NEW new, new = [row EXCEPT !.raw = r, !.variants = m]
    PROVE  /\ new \in Item
           /\ new.version = row.version /\ new.hash = row.hash /\ new.raw = r
           /\ new.url = row.url /\ new.status = row.status
           /\ new.variants = m
BY DEF Item

(* The update of a representative changes its variants only                *)
(* (canonical.py:95-101).                                                  *)
LEMMA LinkRow ==
    ASSUME NEW row \in Item, NEW m \in SUBSET RawIds,
           NEW new, new = [row EXCEPT !.variants = m]
    PROVE  /\ new \in Item
           /\ new.version = row.version /\ new.hash = row.hash /\ new.raw = row.raw
           /\ new.url = row.url /\ new.status = row.status
           /\ new.variants = m
BY DEF Item

(* The flush of well-formed rows keeps the types.                          *)
LEMMA FlushType ==
    ASSUME TypeOK, WorkOK, NEW c \in Crawlers, NEW i \in ItemIds, NEW row \in Item,
           NEW newVersions \in SUBSET Version, NEW newEvents \in SUBSET Event,
           Flush(c, i, row, newVersions, newEvents)
    PROVE  TypeOK' /\ WorkOK'
<1>1. row # NoRow
      BY NoRowAssumption
<1>2. TypeOK'
      BY <1>1 DEF Flush, Done, TypeOK, tables, Work, Idle
<1>3. WorkOK'
      BY <1>1 DEF Flush, Done, TypeOK, WorkOK, Row, tables, Idle
<1>4. QED
      BY <1>2, <1>3

(* What an entry at its save step has read.                                *)
LEMMA SaveType ==
    ASSUME TypeOK, WorkOK, NEW c \in Crawlers, work[c].pc = "save"
    PROVE  /\ Entry(c).url \in Urls /\ Entry(c).text \in Texts
           /\ Entry(c).html \in BOOLEAN
           /\ work[c].raw \in RawIds
           /\ work[c].result # "NEW" =>
                /\ work[c].item \in ItemIds
                /\ work[c].seen \in Item
                /\ work[c].seen.version \in Nat \ {0}
                /\ work[c].seen.variants \subseteq RawIds
                /\ Row(c, work[c].item) \in Item
                /\ Row(c, work[c].item).variants \subseteq RawIds
<1>1. Entry(c) \in Raw /\ work[c].raw \in RawIds
      BY EntryType DEF TypeInv
<1>2. ASSUME work[c].result # "NEW"
      PROVE  /\ work[c].item \in ItemIds
             /\ work[c].seen \in Item
             /\ Row(c, work[c].item) \in Item
      BY <1>2, RowType DEF WorkOK
<1>3. QED
      BY <1>1, <1>2 DEF Raw, Item

(* emit adds an event of the item.                                         *)
LEMMA EmittedType ==
    ASSUME NEW c \in Crawlers, NEW i \in ItemIds, NEW v \in Nat, NEW h \in Texts
    PROVE  Emitted(c, i, v, h) \in SUBSET Event
BY DEF Emitted, Event

(* One step of one session keeps the types.                                *)
LEMMA TypeStep == TypeInv /\ [Next]_vars => TypeInv'
<1> SUFFICES ASSUME TypeOK, WorkOK, [Next]_vars PROVE TypeOK' /\ WorkOK'
    BY DEF TypeInv
<1>1. CASE UNCHANGED vars
    BY <1>1 DEF vars, TypeOK, WorkOK, Row
<1>2. ASSUME NEW c \in Crawlers, TakeEntry(c) PROVE TypeOK' /\ WorkOK'
  <2>1. PICK r \in RawIds, u \in Urls, t \in Texts, page \in BOOLEAN :
            /\ txRaws' = [txRaws EXCEPT ![c] =
                    [@ EXCEPT ![r] = [url |-> u, text |-> t, html |-> page]]]
            /\ work' = [work EXCEPT ![c] = [Idle EXCEPT !.pc = "url", !.raw = r]]
        BY <1>2 DEF TakeEntry
  <2> DEFINE row == [url |-> u, text |-> t, html |-> page]
             entry == [Idle EXCEPT !.pc = "url", !.raw = r]
  <2>2. row \in Raw /\ row # NoRow
        BY NoRowAssumption DEF Raw
  <2>3. entry \in Work /\ entry.pc = "url" /\ entry.raw = r
        BY DEF Work, Idle
  <2>4. /\ txRaws' = [txRaws EXCEPT ![c] = [@ EXCEPT ![r] = row]]
        /\ work' = [work EXCEPT ![c] = entry]
        BY <2>1
  <2> HIDE DEF row, entry
  <2>5. TypeOK'
        BY <1>2, <2>2, <2>3, <2>4 DEF TakeEntry, TypeOK, tables
  <2>6. WorkOK'
        BY <1>2, <2>2, <2>3, <2>4 DEF TakeEntry, TypeOK, WorkOK, Row, tables
  <2>7. QED
        BY <2>5, <2>6
<1>3. ASSUME NEW c \in Crawlers, Reject(c) PROVE TypeOK' /\ WorkOK'
    BY <1>3 DEF Reject, TypeOK, WorkOK, Row, tables, txs, Work, Idle
<1>4. ASSUME NEW c \in Crawlers, ProbeUrl(c) PROVE TypeOK' /\ WorkOK'
  <2>1. CASE \E i \in Visible(c) : Decide(c, "SAME_URL", i)
    <3>1. PICK i \in Visible(c) : Decide(c, "SAME_URL", i)
          BY <2>1
    <3>2. i \in ItemIds /\ i # NoRow
          BY NoRowAssumption DEF Visible
    <3>3. work[c].pc # "fetch" /\ UNCHANGED <<tables, txs>>
          BY <1>4 DEF ProbeUrl
    <3>4. QED
          BY <3>1, <3>2, <3>3, DecideType DEF Results
  <2>2. CASE work' = [work EXCEPT ![c] = [@ EXCEPT !.pc = "text"]]
    <3>1. [work[c] EXCEPT !.pc = "text"] \in Work
          BY DEF TypeOK, Work
    <3>2. QED
          BY <1>4, <2>2, <3>1 DEF ProbeUrl, TypeOK, WorkOK, Row, tables, txs, Work
  <2>3. QED
    <3>1. SameUrl(c) \subseteq Visible(c)
          BY DEF SameUrl
    <3>2. QED
          BY <1>4, <2>1, <2>2, <3>1 DEF ProbeUrl
<1>5. ASSUME NEW c \in Crawlers, ProbeText(c) PROVE TypeOK' /\ WorkOK'
  <2>1. work[c].pc # "fetch" /\ UNCHANGED <<tables, txs>>
        BY <1>5 DEF ProbeText
  <2>2. CASE Decide(c, "NEW", NoRow)
        BY <2>1, <2>2, DecideType DEF Results
  <2>3. CASE \E i \in Visible(c) : Decide(c, "LIKE", i)
    <3>1. PICK i \in Visible(c) : Decide(c, "LIKE", i)
          BY <2>3
    <3>2. i \in ItemIds /\ i # NoRow
          BY NoRowAssumption DEF Visible
    <3>3. QED
          BY <2>1, <3>1, <3>2, DecideType DEF Results
  <2>4. QED
        BY <1>5, <2>2, <2>3 DEF ProbeText
<1>6. ASSUME NEW c \in Crawlers, Unchanged(c) PROVE TypeOK' /\ WorkOK'
    BY <1>6 DEF Unchanged, Done, TypeOK, WorkOK, Row, tables, txs, Work, Idle
<1>7. ASSUME NEW c \in Crawlers, Revise(c) PROVE TypeOK' /\ WorkOK'
  <2> DEFINE i == work[c].item
             v == work[c].seen.version + 1
             h == Entry(c).text
             r == work[c].raw
             row == Revised(c, i, v, h, r)
             version == [item |-> i, version |-> v, hash |-> h, raw |-> r]
  <2>1. /\ i \in ItemIds /\ v \in Nat \ {0} /\ h \in Texts /\ r \in RawIds
        /\ Row(c, i) \in Item
        BY <1>7, SaveType DEF Revise, Saving
  <2>2. Flush(c, i, row, {version}, Emitted(c, i, v, h))
        BY <1>7 DEF Revise
  <2>3. row \in Item
    <3> HIDE DEF i, v, h, r
    <3>1. QED
          BY <2>1 DEF Item, Revised
  <2>4. {version} \in SUBSET Version
        BY <2>1 DEF Version
  <2>5. Emitted(c, i, v, h) \in SUBSET Event
        BY <2>1, EmittedType
  <2> HIDE DEF i, v, h, r, row, version
  <2>6. QED
        BY <2>1, <2>2, <2>3, <2>4, <2>5, FlushType
<1>8. ASSUME NEW c \in Crawlers, Resight(c) PROVE TypeOK' /\ WorkOK'
  <2> DEFINE i == work[c].item
             row(m) == [Row(c, i) EXCEPT !.raw = work[c].raw, !.variants = m]
  <2>1. PICK m \in {work[c].seen.variants, Row(c, i).variants} :
            Flush(c, i, row(m), {}, {})
        BY <1>8 DEF Resight
  <2>2. /\ i \in ItemIds /\ work[c].raw \in RawIds /\ m \in SUBSET RawIds
        /\ Row(c, i) \in Item
        BY <1>8, SaveType DEF Resight, Saving
  <2>3. row(m) \in Item
        BY <2>2, ResightRow
  <2> HIDE DEF i, row
  <2>4. QED
        BY <2>1, <2>2, <2>3, FlushType
<1>9. ASSUME NEW c \in Crawlers, Link(c) PROVE TypeOK' /\ WorkOK'
  <2> DEFINE i == work[c].item
             row == Linked(c, i, work[c].seen.variants \cup {work[c].raw})
  <2>1. Flush(c, i, row, {}, {})
        BY <1>9 DEF Link
  <2>2. /\ i \in ItemIds /\ Row(c, i) \in Item
        /\ work[c].seen.variants \cup {work[c].raw} \in SUBSET RawIds
        BY <1>9, SaveType DEF Link, Saving
  <2>3. row \in Item
        BY <2>2, LinkRow DEF Linked
  <2> HIDE DEF i, row
  <2>4. QED
        BY <2>1, <2>2, <2>3, FlushType
<1>10. ASSUME NEW c \in Crawlers, Create(c) PROVE TypeOK' /\ WorkOK'
  <2> DEFINE e == Entry(c)
             row == [url |-> e.url, hash |-> e.text, version |-> InitialVersion,
                     raw |-> work[c].raw, variants |-> {},
                     status |-> IF e.html THEN "WAIT_FILTER" ELSE "TREND"]
             first(i) == [item |-> i, version |-> 1, hash |-> e.text,
                          raw |-> work[c].raw]
             rows(i) == IF e.html THEN {first(i)} ELSE {}
  <2>1. PICK i \in ItemIds : Flush(c, i, row, rows(i), Emitted(c, i, InitialVersion, e.text))
        BY <1>10 DEF Create
  <2>2. e.url \in Urls /\ e.text \in Texts /\ work[c].raw \in RawIds
        BY <1>10, SaveType DEF Create, Saving
  <2>3. row \in Item
        BY <2>2 DEF Item, InitialVersion
  <2>4. rows(i) \in SUBSET Version
        BY <2>2 DEF Version
  <2>5. Emitted(c, i, InitialVersion, e.text) \in SUBSET Event
        BY <2>2, EmittedType DEF InitialVersion
  <2> HIDE DEF e, row, rows
  <2>6. QED
        BY <2>1, <2>3, <2>4, <2>5, FlushType
<1>11. ASSUME NEW c \in Crawlers, Discard(c), UNCHANGED tables PROVE TypeOK' /\ WorkOK'
    BY <1>11, NoRowAssumption DEF Discard, TypeOK, WorkOK, Row, tables, Work, Idle
<1>12. ASSUME NEW c \in Crawlers, Commit(c) PROVE TypeOK' /\ WorkOK'
    BY <1>12, NoRowAssumption DEF Commit, Discard, TypeOK, WorkOK, Row, RawRow, Work, Idle
<1>13. QED
    BY <1>1, <1>2, <1>3, <1>4, <1>5, <1>6, <1>7, <1>8, <1>9, <1>10, <1>11, <1>12
    DEF Next, Abort

(* A rebuild replaces a text.                                              *)
LEMMA RebuildRow ==
    ASSUME TypeOK, NEW i \in ItemIds, Rebuild(i)
    PROVE  /\ \A c \in Crawlers : ~Open(c)
           /\ items[i] \in Item /\ items'[i] \in Item
           /\ items'[i].variants = items[i].variants
           /\ items'[i].version = items[i].version
           /\ items'[i].url = items[i].url /\ items'[i].raw = items[i].raw
           /\ items'[i].status = items[i].status
           /\ \A j \in ItemIds \ {i} : items'[j] = items[j]
           /\ items' \in [ItemIds -> Item \cup {NoRow}]
           /\ UNCHANGED <<versions, outbox, raws, txs, work>>
<1>1. PICK t \in Texts : items' = [items EXCEPT ![i] = Rebuilt(i, t)]
      BY DEF Rebuild
<1>2. items[i] \in Item
      BY DEF Rebuild, TypeOK
<1>3. /\ Rebuilt(i, t) \in Item
      /\ Rebuilt(i, t).variants = items[i].variants
      /\ Rebuilt(i, t).version = items[i].version
      /\ Rebuilt(i, t).url = items[i].url /\ Rebuilt(i, t).raw = items[i].raw
      /\ Rebuilt(i, t).status = items[i].status
      BY <1>2 DEF Rebuilt, Item
<1>4. QED
      BY <1>1, <1>2, <1>3 DEF Rebuild, TypeOK

(* Types under rebuilds, too.                                              *)
LEMMA RebuildType == TypeInv /\ [RebuildNext]_vars => TypeInv'
<1>1. ASSUME TypeInv, NEW i \in ItemIds, Rebuild(i) PROVE TypeInv'
  <2>1. TypeOK'
        BY <1>1, RebuildRow DEF TypeInv, TypeOK, txs
  <2>2. \A j \in ItemIds : items[j] # NoRow => items'[j] # NoRow
        BY <1>1, RebuildRow, NoRowAssumption DEF TypeInv
  <2>3. WorkOK'
        BY <1>1, <2>2, RebuildRow DEF TypeInv, WorkOK, Row, txs
  <2>4. QED
        BY <2>1, <2>3 DEF TypeInv
<1>2. QED
      BY <1>1, TypeStep DEF RebuildNext

(* The tables, each session's own rows and its current entry keep their    *)
(* types, at every step of every crawl (db/models.py:75-152).              *)
THEOREM TypeCorrect == RebuildSpec => []TypeOK
<1>1. Init => TypeInv
      BY TypeInit
<1>2. TypeInv /\ [RebuildNext]_vars => TypeInv'
      BY RebuildType
<1>3. TypeInv => TypeOK
      BY DEF TypeInv
<1>4. QED
      BY <1>1, <1>2, <1>3, PTL DEF RebuildSpec

-----------------------------------------------------------------------------
(* The history of an item, as the session that may still extend it sees    *)
(* it: every version up to the row's has its event and its version row,    *)
(* and nothing else is recorded of the item.                               *)
Recorded(row, i, events, rows) ==
    /\ \A v \in 1 .. row.version :
          \E e \in events : e.item = i /\ e.version = v
    /\ \A v \in FirstRow(row) .. row.version :
          \E x \in rows : x.item = i /\ x.version = v
    /\ \A e \in events : e.item = i => e.version \in 1 .. row.version
    /\ \A x \in rows : x.item = i => x.version \in 1 .. row.version
    /\ \A x, y \in rows :
          x.item = i /\ y.item = i /\ x.version = y.version => x = y
    /\ \A x \in rows, e \in events :
          x.item = i /\ e.item = i /\ x.version = e.version => x.hash = e.hash

Silent(i, events, rows) ==
    /\ \A e \in events : e.item # i
    /\ \A x \in rows : x.item # i

(* Two sessions never hold the same row.                                   *)
LocksDisjoint ==
    \A c, d \in Crawlers, i \in ItemIds :
        c # d => txItems[c][i] = NoRow \/ txItems[d][i] = NoRow

Committed ==
    \A i \in ItemIds :
        IF items[i] # NoRow THEN Recorded(items[i], i, outbox, versions)
                            ELSE Silent(i, outbox, versions)

Pending ==
    \A c \in Crawlers, i \in ItemIds :
        IF txItems[c][i] # NoRow
        THEN Recorded(txItems[c][i], i, outbox \cup txEvents[c],
                      versions \cup txVersions[c])
        ELSE Silent(i, txEvents[c], txVersions[c])

(* new is a later state of the item than old.                              *)
Follows(old, new) == old.version <= new.version /\ old.status = new.status

PendingFollows ==
    \A c \in Crawlers, i \in ItemIds :
        items[i] # NoRow /\ txItems[c][i] # NoRow => Follows(items[i], txItems[c][i])

(* The row a session read may be stale, but is never ahead.                *)
SeenBehind ==
    \A c \in Crawlers :
        work[c].pc = "save" /\ work[c].result # "NEW" =>
            work[c].seen.version <= Row(c, work[c].item).version

HistoryInv ==
    LocksDisjoint /\ Committed /\ Pending /\ PendingFollows /\ SeenBehind

(* With empty tables nothing is recorded of any item.                      *)
LEMMA HistoryInit == Init => HistoryInv
BY DEF Init, HistoryInv, LocksDisjoint, Committed, Pending, PendingFollows,
       SeenBehind, Silent, Idle

(* What is recorded of other items changes nothing.                        *)
LEMMA RecordedFrame ==
    ASSUME NEW row, NEW i, NEW E, NEW V, NEW E2, NEW V2,
           Recorded(row, i, E, V), E \subseteq E2, V \subseteq V2,
           Silent(i, E2 \ E, V2 \ V)
    PROVE  Recorded(row, i, E2, V2)
BY DEF Recorded, Silent

(* A later state of a later state of an item is a later state of it.       *)
LEMMA FollowsTransitive ==
    ASSUME NEW x \in Item, NEW y \in Item, NEW z \in Item,
           Follows(x, y), Follows(y, z)
    PROVE  Follows(x, z)
BY DEF Follows, Item

(* The history of a row as a session sees it is complete.                  *)
LEMMA RowRecorded ==
    ASSUME TypeOK, HistoryInv, NEW c \in Crawlers, NEW i \in ItemIds,
           Row(c, i) # NoRow
    PROVE  Recorded(Row(c, i), i, outbox \cup txEvents[c], versions \cup txVersions[c])
<1>1. CASE txItems[c][i] # NoRow
      BY <1>1 DEF HistoryInv, Pending, Row
<1>2. CASE txItems[c][i] = NoRow
  <2>1. Recorded(items[i], i, outbox, versions)
        BY <1>2 DEF HistoryInv, Committed, Row
  <2>2. Silent(i, txEvents[c], txVersions[c])
        BY <1>2 DEF HistoryInv, Pending
  <2>3. Silent(i, (outbox \cup txEvents[c]) \ outbox,
                  (versions \cup txVersions[c]) \ versions)
        BY <2>2 DEF Silent
  <2>4. QED
        BY <1>2, <2>1, <2>3, RecordedFrame DEF Row
<1>3. QED
      BY <1>1, <1>2

(* A flush keeps the history of every item complete when the session may   *)
(* hold the row, writes a later state of it and records that state.        *)
LEMMA FlushHistory ==
    ASSUME TypeOK, HistoryInv, NEW c \in Crawlers, NEW i \in ItemIds,
           NEW row \in Item, NEW newVersions, NEW newEvents,
           Flush(c, i, row, newVersions, newEvents),
           Unlocked(c, i),
           \A x \in newVersions : x.item = i,
           \A e \in newEvents : e.item = i,
           Row(c, i) # NoRow => Follows(Row(c, i), row),
           Recorded(row, i, outbox \cup (txEvents[c] \cup newEvents),
                            versions \cup (txVersions[c] \cup newVersions))
    PROVE  HistoryInv'
<1>1. /\ txItems' = [txItems EXCEPT ![c] = [@ EXCEPT ![i] = row]]
      /\ txVersions' = [txVersions EXCEPT ![c] = @ \cup newVersions]
      /\ txEvents' = [txEvents EXCEPT ![c] = @ \cup newEvents]
      /\ work' = [work EXCEPT ![c] = Idle]
      /\ items' = items /\ outbox' = outbox /\ versions' = versions
      BY DEF Flush, Done, tables
<1>2. row # NoRow
      BY NoRowAssumption
<1>3. /\ \A d \in Crawlers, j \in ItemIds :
            txItems'[d][j] = IF d = c /\ j = i THEN row ELSE txItems[d][j]
      /\ \A d \in Crawlers \ {c} :
            txVersions'[d] = txVersions[d] /\ txEvents'[d] = txEvents[d]
      /\ txVersions'[c] = txVersions[c] \cup newVersions
      /\ txEvents'[c] = txEvents[c] \cup newEvents
      BY <1>1 DEF TypeOK
<1>4. LocksDisjoint'
      BY <1>2, <1>3 DEF HistoryInv, LocksDisjoint, Unlocked
<1>5. Committed'
      BY <1>1 DEF HistoryInv, Committed
<1>6. Pending'
  <2> SUFFICES ASSUME NEW d \in Crawlers, NEW j \in ItemIds
               PROVE  IF txItems'[d][j] # NoRow
                      THEN Recorded(txItems'[d][j], j, outbox' \cup txEvents'[d],
                                    versions' \cup txVersions'[d])
                      ELSE Silent(j, txEvents'[d], txVersions'[d])
      BY DEF Pending
  <2>1. CASE d # c
    <3>1. /\ txItems'[d][j] = txItems[d][j]
          /\ outbox' \cup txEvents'[d] = outbox \cup txEvents[d]
          /\ versions' \cup txVersions'[d] = versions \cup txVersions[d]
          /\ txEvents'[d] = txEvents[d] /\ txVersions'[d] = txVersions[d]
          BY <1>1, <1>3, <2>1
    <3>2. IF txItems[d][j] # NoRow
          THEN Recorded(txItems[d][j], j, outbox \cup txEvents[d],
                        versions \cup txVersions[d])
          ELSE Silent(j, txEvents[d], txVersions[d])
          BY DEF HistoryInv, Pending
    <3>3. QED
          BY <3>1, <3>2
  <2>2. CASE d = c /\ j = i
        BY <1>1, <1>2, <1>3, <2>2
  <2>3. CASE d = c /\ j # i /\ txItems[c][j] # NoRow
    <3>1. Recorded(txItems[c][j], j, outbox \cup txEvents[c],
                   versions \cup txVersions[c])
          BY <2>3 DEF HistoryInv, Pending
    <3>2. Silent(j, (outbox' \cup txEvents'[c]) \ (outbox \cup txEvents[c]),
                    (versions' \cup txVersions'[c]) \ (versions \cup txVersions[c]))
          BY <1>1, <1>3, <2>3 DEF Silent
    <3>3. QED
          BY <1>1, <1>3, <2>3, <3>1, <3>2, RecordedFrame
  <2>4. CASE d = c /\ j # i /\ txItems[c][j] = NoRow
    <3>1. Silent(j, txEvents[c], txVersions[c])
          BY <2>4 DEF HistoryInv, Pending
    <3>2. Silent(j, txEvents[c] \cup newEvents, txVersions[c] \cup newVersions)
          BY <2>4, <3>1 DEF Silent
    <3>3. QED
          BY <1>3, <2>4, <3>2
  <2>5. QED
        BY <2>1, <2>2, <2>3, <2>4
<1>7. PendingFollows'
  <2>1. ASSUME items[i] # NoRow PROVE Follows(items[i], row)
    <3>1. CASE txItems[c][i] = NoRow
          BY <2>1, <3>1 DEF Row
    <3>2. CASE txItems[c][i] # NoRow
          BY <2>1, <3>2, FollowsTransitive
          DEF HistoryInv, PendingFollows, Row, TypeOK
    <3>3. QED
          BY <3>1, <3>2
  <2>2. QED
        BY <1>1, <1>3, <2>1 DEF HistoryInv, PendingFollows
<1>8. SeenBehind'
      BY <1>1, <1>3 DEF HistoryInv, SeenBehind, Row, Idle, TypeOK
<1>9. QED
      BY <1>4, <1>5, <1>6, <1>7, <1>8 DEF HistoryInv

(* Steps that write nothing, and a rollback.                               *)
LEMMA QuietHistory ==
    ASSUME TypeOK, HistoryInv, UNCHANGED <<items, versions, outbox, txItems,
                                           txVersions, txEvents>>,
           NEW c \in Crawlers,
           \A d \in Crawlers \ {c} : work'[d] = work[d],
           work'[c].pc = "save" /\ work'[c].result # "NEW" =>
                work'[c].seen = Row(c, work'[c].item) /\ work'[c].seen \in Item
    PROVE  HistoryInv'
<1>1. LocksDisjoint' /\ Committed' /\ Pending' /\ PendingFollows'
      BY DEF HistoryInv, LocksDisjoint, Committed, Pending, PendingFollows
<1>2. SeenBehind'
  <2> SUFFICES ASSUME NEW d \in Crawlers, work'[d].pc = "save", work'[d].result # "NEW"
               PROVE  work'[d].seen.version <= (Row(d, work[d].item)').version
      BY DEF SeenBehind
  <2>1. Row(d, work[d].item)' = Row(d, work'[d].item)
        BY DEF Row
  <2>2. CASE d = c
        BY <2>1, <2>2 DEF Item
  <2>3. CASE d # c
        BY <2>1, <2>3 DEF HistoryInv, SeenBehind
  <2>4. QED
        BY <2>2, <2>3
<1>3. QED
      BY <1>1, <1>2 DEF HistoryInv

(* A rollback takes away what the session alone had recorded, and leaves   *)
(* the histories of the tables and of the other sessions as they were      *)
(* (scheduler_run.py:64-65).                                               *)
LEMMA DiscardHistory ==
    ASSUME TypeOK, HistoryInv, NEW c \in Crawlers, Discard(c), UNCHANGED tables
    PROVE  HistoryInv'
<1>1. /\ items' = items /\ outbox' = outbox /\ versions' = versions
      /\ \A i \in ItemIds : txItems'[c][i] = NoRow
      /\ txVersions'[c] = {} /\ txEvents'[c] = {}
      /\ work'[c].pc = "fetch"
      /\ \A d \in Crawlers \ {c} :
            /\ txItems'[d] = txItems[d] /\ txVersions'[d] = txVersions[d]
            /\ txEvents'[d] = txEvents[d] /\ work'[d] = work[d]
      BY DEF Discard, tables, TypeOK, Idle
<1>2. LocksDisjoint' /\ Committed' /\ PendingFollows'
      BY <1>1 DEF HistoryInv, LocksDisjoint, Committed, PendingFollows
<1>3. Pending'
  <2> SUFFICES ASSUME NEW d \in Crawlers, NEW i \in ItemIds
               PROVE  IF txItems'[d][i] # NoRow
                      THEN Recorded(txItems'[d][i], i, outbox' \cup txEvents'[d],
                                    versions' \cup txVersions'[d])
                      ELSE Silent(i, txEvents'[d], txVersions'[d])
      BY DEF Pending
  <2>1. CASE d = c
        BY <1>1, <2>1 DEF Silent
  <2>2. CASE d # c
    <3>1. IF txItems[d][i] # NoRow
          THEN Recorded(txItems[d][i], i, outbox \cup txEvents[d],
                        versions \cup txVersions[d])
          ELSE Silent(i, txEvents[d], txVersions[d])
          BY DEF HistoryInv, Pending
    <3>2. QED
          BY <1>1, <2>2, <3>1
  <2>3. QED
        BY <2>1, <2>2
<1>4. SeenBehind'
  <2> SUFFICES ASSUME NEW d \in Crawlers, work'[d].pc = "save", work'[d].result # "NEW"
               PROVE  work'[d].seen.version <= (Row(d, work[d].item)').version
      BY DEF SeenBehind
  <2>1. d # c /\ work'[d] = work[d]
        BY <1>1
  <2>2. Row(d, work[d].item)' = Row(d, work[d].item)
        BY <1>1, <2>1 DEF Row
  <2>3. QED
        BY <2>1, <2>2 DEF HistoryInv, SeenBehind
<1>5. QED
      BY <1>2, <1>3, <1>4 DEF HistoryInv

(* A commit publishes complete histories, and takes nothing from what the  *)
(* other sessions hold.                                                    *)
LEMMA CommitHistory ==
    ASSUME TypeOK, WorkOK, HistoryInv, NEW c \in Crawlers, Commit(c)
    PROVE  HistoryInv'
<1>1. /\ \A i \in ItemIds : items'[i] = Row(c, i)
      /\ outbox' = outbox \cup txEvents[c]
      /\ versions' = versions \cup txVersions[c]
      /\ \A i \in ItemIds : txItems'[c][i] = NoRow
      /\ txVersions'[c] = {} /\ txEvents'[c] = {}
      /\ work'[c].pc = "fetch"
      /\ \A d \in Crawlers \ {c} :
            /\ txItems'[d] = txItems[d] /\ txVersions'[d] = txVersions[d]
            /\ txEvents'[d] = txEvents[d] /\ work'[d] = work[d]
      BY DEF Commit, Discard, TypeOK, Idle
<1>2. LocksDisjoint'
      BY <1>1 DEF HistoryInv, LocksDisjoint
<1>3. Committed'
  <2> SUFFICES ASSUME NEW i \in ItemIds
               PROVE  IF items'[i] # NoRow
                      THEN Recorded(items'[i], i, outbox', versions')
                      ELSE Silent(i, outbox', versions')
      BY DEF Committed
  <2>1. CASE Row(c, i) # NoRow
        BY <1>1, <2>1, RowRecorded
  <2>2. CASE Row(c, i) = NoRow
    <3>1. items[i] = NoRow /\ txItems[c][i] = NoRow
          BY <2>2 DEF Row
    <3>2. Silent(i, outbox, versions) /\ Silent(i, txEvents[c], txVersions[c])
          BY <3>1 DEF HistoryInv, Committed, Pending
    <3>3. QED
          BY <1>1, <2>2, <3>2 DEF Silent
  <2>3. QED
        BY <2>1, <2>2
<1>4. ASSUME NEW d \in Crawlers, d # c, NEW i \in ItemIds, txItems[d][i] # NoRow
      PROVE  txItems[c][i] = NoRow /\ Silent(i, txEvents[c], txVersions[c])
      BY <1>4 DEF HistoryInv, LocksDisjoint, Pending
<1>5. Pending'
  <2> SUFFICES ASSUME NEW d \in Crawlers, NEW i \in ItemIds
               PROVE  IF txItems'[d][i] # NoRow
                      THEN Recorded(txItems'[d][i], i, outbox' \cup txEvents'[d],
                                    versions' \cup txVersions'[d])
                      ELSE Silent(i, txEvents'[d], txVersions'[d])
      BY DEF Pending
  <2>1. CASE d = c
        BY <1>1, <2>1 DEF Silent
  <2>2. CASE d # c /\ txItems[d][i] # NoRow
    <3>1. Recorded(txItems[d][i], i, outbox \cup txEvents[d],
                   versions \cup txVersions[d])
          BY <2>2 DEF HistoryInv, Pending
    <3>2. Silent(i, (outbox' \cup txEvents'[d]) \ (outbox \cup txEvents[d]),
                    (versions' \cup txVersions'[d]) \ (versions \cup txVersions[d]))
          BY <1>1, <1>4, <2>2 DEF Silent
    <3>3. /\ outbox \cup txEvents[d] \subseteq outbox' \cup txEvents'[d]
          /\ versions \cup txVersions[d] \subseteq versions' \cup txVersions'[d]
          /\ txItems'[d][i] = txItems[d][i]
          BY <1>1, <2>2
    <3>4. QED
          BY <2>2, <3>1, <3>2, <3>3, RecordedFrame
  <2>3. CASE d # c /\ txItems[d][i] = NoRow
    <3>1. Silent(i, txEvents[d], txVersions[d])
          BY <2>3 DEF HistoryInv, Pending
    <3>2. QED
          BY <1>1, <2>3, <3>1
  <2>4. QED
        BY <2>1, <2>2, <2>3
<1>6. PendingFollows'
      BY <1>1, <1>4 DEF HistoryInv, PendingFollows, Row
<1>7. SeenBehind'
  <2> SUFFICES ASSUME NEW d \in Crawlers, work'[d].pc = "save", work'[d].result # "NEW"
               PROVE  work'[d].seen.version <= (Row(d, work[d].item)').version
      BY DEF SeenBehind
  <2>1. d # c /\ work'[d] = work[d]
        BY <1>1
  <2> DEFINE i == work[d].item
  <2>2. /\ i \in ItemIds /\ Row(d, i) # NoRow
        /\ work[d].seen \in Item /\ Row(d, i) \in Item
        /\ work[d].seen.version <= Row(d, i).version
        BY <2>1, RowType DEF WorkOK, HistoryInv, SeenBehind
  <2>3. Row(d, i)' = IF txItems[d][i] # NoRow THEN txItems[d][i] ELSE Row(c, i)
        BY <1>1, <2>1, <2>2 DEF Row
  <2>4. CASE txItems[d][i] # NoRow
        BY <2>1, <2>2, <2>3, <2>4 DEF Row
  <2>5. CASE txItems[d][i] = NoRow
    <3>1. Row(d, i) = items[i]
          BY <2>5 DEF Row
    <3>2. Row(c, i) \in Item /\ items[i].version <= Row(c, i).version
          BY <2>2, <3>1, RowType
          DEF HistoryInv, PendingFollows, Follows, Row, TypeOK, Item
    <3>3. QED
          BY <2>1, <2>2, <2>3, <2>5, <3>1, <3>2 DEF Item
  <2>6. QED
        BY <2>4, <2>5
<1>8. QED
      BY <1>2, <1>3, <1>5, <1>6, <1>7 DEF HistoryInv

(* An item that was read is visible, at the version read or a later one.   *)
LEMMA SeenRow ==
    ASSUME TypeOK, WorkOK, HistoryInv, NEW c \in Crawlers,
           work[c].pc = "save", work[c].result # "NEW"
    PROVE  /\ work[c].item \in ItemIds
           /\ Row(c, work[c].item) \in Item /\ Row(c, work[c].item) # NoRow
           /\ work[c].seen.version \in Nat \ {0}
           /\ work[c].seen.version <= Row(c, work[c].item).version
BY SaveType DEF WorkOK, HistoryInv, SeenBehind

(* Because the row is locked and the version's key is free, the version    *)
(* read is still the current one, and emit finds its key unused            *)
(* (canonical.py:66-84, outbox.py:15-24).                                  *)
LEMMA ReviseFacts ==
    ASSUME TypeOK, WorkOK, HistoryInv, NEW c \in Crawlers, Revise(c)
    PROVE  LET i == work[c].item
               v == work[c].seen.version + 1
               h == Entry(c).text
           IN  /\ i \in ItemIds /\ h \in Texts /\ work[c].raw \in RawIds
               /\ Row(c, i) \in Item /\ Row(c, i) # NoRow
               /\ Row(c, i).version \in Nat /\ v \in Nat /\ v >= 2
               /\ v = Row(c, i).version + 1
               /\ Recorded(Row(c, i), i, outbox \cup txEvents[c],
                                         versions \cup txVersions[c])
               /\ Emitted(c, i, v, h) = {[item |-> i, version |-> v, hash |-> h]}
<1> DEFINE i == work[c].item
           v == work[c].seen.version + 1
           h == Entry(c).text
           old == Row(c, i)
<1>1. /\ work[c].pc = "save" /\ work[c].result # "NEW" /\ ~VersionTaken(c, i, v)
      BY DEF Revise, Saving
<1>2. /\ i \in ItemIds /\ h \in Texts /\ work[c].raw \in RawIds
      /\ old \in Item /\ old # NoRow
      /\ v \in Nat /\ v >= 2 /\ v <= old.version + 1
      /\ old.version \in Nat
      BY <1>1, SaveType, SeenRow DEF Item
<1>3. Recorded(old, i, outbox \cup txEvents[c], versions \cup txVersions[c])
      BY <1>2, RowRecorded
<1>4. v = old.version + 1
  <2>1. FirstRow(old) \in {1, 2}
        BY DEF FirstRow
  <2>2. v \notin FirstRow(old) .. old.version
        BY <1>1, <1>3 DEF VersionTaken, Recorded
  <2>3. QED
        BY <1>2, <2>1, <2>2
<1>5. \A e \in outbox \cup txEvents[c] : ~(e.item = i /\ e.version = v)
      BY <1>2, <1>3, <1>4 DEF Recorded
<1>6. Emitted(c, i, v, h) = {[item |-> i, version |-> v, hash |-> h]}
      BY <1>5 DEF Emitted
<1>7. QED
      BY <1>2, <1>3, <1>4, <1>6

(* The next version is recorded right after the one that was read.         *)
LEMMA ReviseHistory ==
    ASSUME TypeOK, WorkOK, HistoryInv, NEW c \in Crawlers, Revise(c)
    PROVE  HistoryInv'
<1> DEFINE i == work[c].item
           v == work[c].seen.version + 1
           h == Entry(c).text
           r == work[c].raw
           old == Row(c, i)
           row == Revised(c, i, v, h, r)
           version == [item |-> i, version |-> v, hash |-> h, raw |-> r]
           event == [item |-> i, version |-> v, hash |-> h]
           E == outbox \cup txEvents[c]
           V == versions \cup txVersions[c]
<1>1. /\ Unlocked(c, i)
      /\ Flush(c, i, row, {version}, Emitted(c, i, v, h))
      BY DEF Revise, Saving
<1>2. /\ i \in ItemIds /\ h \in Texts /\ r \in RawIds
      /\ old \in Item /\ old # NoRow
      /\ v \in Nat /\ v >= 2 /\ old.version \in Nat
      BY ReviseFacts
<1>3. Recorded(old, i, E, V)
      BY ReviseFacts
<1>4. v = old.version + 1
      BY ReviseFacts
<1>5. Emitted(c, i, v, h) = {event}
      BY ReviseFacts
<1>6. /\ row \in Item /\ row.version = v /\ row.hash = h
      /\ row.status = old.status
  <2>1. v \in Nat \ {0}
        BY <1>2
  <2> HIDE DEF i, v, h, r
  <2>2. row \in Item
        BY <1>2, <2>1 DEF Item, Revised
  <2>3. row.version = v /\ row.hash = h /\ row.status = old.status
        BY <1>2, <2>1 DEF Item, Revised
  <2>4. QED
        BY <2>2, <2>3
<1>7. Follows(old, row)
      BY <1>2, <1>4, <1>6 DEF Follows
<1>8. /\ version.item = i /\ version.version = v /\ version.hash = h
      /\ event.item = i /\ event.version = v /\ event.hash = h
      OBVIOUS
<1> HIDE DEF i, v, h, r, old, row, version, event
<1>9. Recorded(row, i, E \cup {event}, V \cup {version})
  <2>1. FirstRow(row) = FirstRow(old) /\ FirstRow(old) \in {1, 2}
        BY <1>6 DEF FirstRow
  <2>2. ASSUME NEW n \in 1 .. row.version
        PROVE  n \in 1 .. old.version \/ n = v
        BY <1>2, <1>4, <1>6
  <2>3. ASSUME NEW n \in FirstRow(row) .. row.version
        PROVE  n \in FirstRow(old) .. old.version \/ n = v
        BY <1>2, <1>4, <1>6, <2>1
  <2>4. ASSUME NEW n \in 1 .. old.version
        PROVE  n \in 1 .. row.version /\ n # v /\ n # row.version
        BY <1>2, <1>4, <1>6
  <2>5. v \in 1 .. row.version
        BY <1>2, <1>6
  <2> HIDE DEF E, V
  <2>6. \A n \in 1 .. row.version :
            \E e \in E \cup {event} : e.item = i /\ e.version = n
        BY <1>3, <1>8, <2>2 DEF Recorded
  <2>7. \A n \in FirstRow(row) .. row.version :
            \E x \in V \cup {version} : x.item = i /\ x.version = n
        BY <1>3, <1>8, <2>3 DEF Recorded
  <2>8. \A e \in E : e.item = i =>
            e.version \in 1 .. row.version /\ e.version # row.version
                                           /\ e.version # v
        BY <1>3, <2>4 DEF Recorded
  <2>9. \A x \in V : x.item = i => x.version \in 1 .. row.version /\ x.version # v
        BY <1>3, <2>4 DEF Recorded
  <2>10. \A x \in V \cup {version}, e \in E \cup {event} :
            x.item = i /\ e.item = i /\ x.version = e.version => x.hash = e.hash
        BY <1>3, <1>8, <2>8, <2>9 DEF Recorded
  <2>11. \A x, y \in V \cup {version} :
            x.item = i /\ y.item = i /\ x.version = y.version => x = y
        BY <1>3, <1>8, <2>9 DEF Recorded
  <2>12. QED
        BY <1>6, <1>8, <2>5, <2>6, <2>7, <2>8, <2>9, <2>10, <2>11 DEF Recorded
<1>10. /\ E \cup {event} = outbox \cup (txEvents[c] \cup {event})
       /\ V \cup {version} = versions \cup (txVersions[c] \cup {version})
      OBVIOUS
<1>11. Flush(c, i, row, {version}, {event})
      BY <1>1, <1>5 DEF i, v, h, r, row, version, event
<1>12. Unlocked(c, i) /\ (Row(c, i) # NoRow => Follows(Row(c, i), row))
      BY <1>1, <1>7 DEF i, old
<1>13. Recorded(row, i, outbox \cup (txEvents[c] \cup {event}),
                        versions \cup (txVersions[c] \cup {version}))
      BY <1>9, <1>10
<1> HIDE DEF E, V
<1>14. QED
      BY <1>2, <1>6, <1>8, <1>11, <1>12, <1>13, FlushHistory

(* A meta or lineage update records nothing and changes neither text nor   *)
(* version.                                                                *)
LEMMA TouchHistory ==
    ASSUME TypeOK, HistoryInv, NEW c \in Crawlers, NEW i \in ItemIds,
           NEW row \in Item, Flush(c, i, row, {}, {}), Unlocked(c, i),
           Row(c, i) \in Item, Row(c, i) # NoRow,
           row.version = Row(c, i).version, row.hash = Row(c, i).hash,
           row.status = Row(c, i).status
    PROVE  HistoryInv'
<1>1. Follows(Row(c, i), row)
      BY DEF Follows, Item
<1>2. Recorded(row, i, outbox \cup txEvents[c], versions \cup txVersions[c])
      BY RowRecorded DEF Recorded, FirstRow
<1>3. Recorded(row, i, outbox \cup (txEvents[c] \cup {}),
                       versions \cup (txVersions[c] \cup {}))
      BY <1>2
<1>4. QED
      BY <1>1, <1>3, FlushHistory

(* A new item is born with the event of its first version and, from a      *)
(* page, its version row (canonical.py:104-133, 178-195): the id is new,   *)
(* so nothing was recorded of it.                                          *)
LEMMA CreateHistory ==
    ASSUME TypeOK, WorkOK, HistoryInv, NEW c \in Crawlers, Create(c)
    PROVE  HistoryInv'
<1> DEFINE e == Entry(c)
           row == [url |-> e.url, hash |-> e.text, version |-> InitialVersion,
                   raw |-> work[c].raw, variants |-> {},
                   status |-> IF e.html THEN "WAIT_FILTER" ELSE "TREND"]
           first(i) == [item |-> i, version |-> 1, hash |-> e.text,
                        raw |-> work[c].raw]
           rows(i) == IF e.html THEN {first(i)} ELSE {}
           event(i) == [item |-> i, version |-> 1, hash |-> e.text]
<1>1. PICK i \in ItemIds :
        /\ items[i] = NoRow
        /\ \A d \in Crawlers : txItems[d][i] = NoRow
        /\ Flush(c, i, row, rows(i), Emitted(c, i, InitialVersion, e.text))
      BY DEF Create
<1>2. /\ e.url \in Urls /\ e.text \in Texts /\ e.html \in BOOLEAN
      /\ work[c].raw \in RawIds
      BY SaveType DEF Create, Saving
<1>3. /\ Silent(i, outbox, versions) /\ Silent(i, txEvents[c], txVersions[c])
      /\ Unlocked(c, i) /\ Row(c, i) = NoRow
      BY <1>1 DEF HistoryInv, Committed, Pending, Unlocked, Row
<1>4. Emitted(c, i, InitialVersion, e.text) = {event(i)}
      BY <1>3 DEF Emitted, Silent, InitialVersion
<1>5. /\ row \in Item /\ row.version = 1 /\ row.hash = e.text
      /\ FirstRow(row) = IF e.html THEN 1 ELSE 2
      BY <1>2 DEF Item, FirstRow, InitialVersion
<1>6. /\ \A x \in rows(i) : x.item = i /\ x.version = 1 /\ x.hash = e.text
      /\ e.html => \E x \in rows(i) : x.item = i /\ x.version = 1
      /\ event(i).item = i /\ event(i).version = 1 /\ event(i).hash = e.text
      /\ \A x, y \in rows(i) : x = y
  <2>1. /\ first(i).item = i /\ first(i).version = 1 /\ first(i).hash = e.text
        /\ event(i).item = i /\ event(i).version = 1 /\ event(i).hash = e.text
        OBVIOUS
  <2>2. /\ e.html => rows(i) = {first(i)}
        /\ ~e.html => rows(i) = {}
        OBVIOUS
  <2> HIDE DEF e, first, rows, event
  <2>3. QED
        BY <2>1, <2>2
<1>7. Flush(c, i, row, rows(i), {event(i)})
      BY <1>1, <1>4
<1> HIDE DEF e, row, rows, event
<1>8. Recorded(row, i, outbox \cup (txEvents[c] \cup {event(i)}),
                       versions \cup (txVersions[c] \cup rows(i)))
  <2>1. /\ \A y \in outbox \cup (txEvents[c] \cup {event(i)}) :
              y.item = i => y.version = 1 /\ y.hash = row.hash
        /\ \A x \in versions \cup (txVersions[c] \cup rows(i)) :
              x.item = i => x.version = 1 /\ x.hash = row.hash
        BY <1>3, <1>5, <1>6 DEF Silent
  <2>2. /\ \E y \in outbox \cup (txEvents[c] \cup {event(i)}) :
              y.item = i /\ y.version = 1
        /\ e.html => \E x \in versions \cup (txVersions[c] \cup rows(i)) :
              x.item = i /\ x.version = 1
        BY <1>6
  <2>3. \A x, y \in versions \cup (txVersions[c] \cup rows(i)) :
            x.item = i /\ y.item = i => x = y
        BY <1>3, <1>6 DEF Silent
  <2>4. QED
        BY <1>2, <1>5, <2>1, <2>2, <2>3 DEF Recorded
<1>9. QED
      BY <1>3, <1>5, <1>6, <1>7, <1>8, FlushHistory

(* One step keeps every history complete.                                  *)
LEMMA HistoryStep == TypeInv /\ HistoryInv /\ [Next]_vars => HistoryInv'
<1> SUFFICES ASSUME TypeOK, WorkOK, HistoryInv, [Next]_vars PROVE HistoryInv'
    BY DEF TypeInv
<1>1. CASE UNCHANGED vars
    BY <1>1 DEF vars, HistoryInv, LocksDisjoint, Committed, Pending,
                PendingFollows, SeenBehind, Row
<1>2. ASSUME NEW c \in Crawlers, TakeEntry(c) PROVE HistoryInv'
  <2>1. /\ UNCHANGED <<items, versions, outbox, txItems, txVersions, txEvents>>
        /\ \A d \in Crawlers \ {c} : work'[d] = work[d]
        /\ work'[c].pc = "url"
        BY <1>2 DEF TakeEntry, tables, TypeOK, Idle
  <2>2. QED
        BY <2>1, QuietHistory
<1>3. ASSUME NEW c \in Crawlers, Reject(c) \/ Unchanged(c) PROVE HistoryInv'
  <2>1. /\ UNCHANGED <<items, versions, outbox, txItems, txVersions, txEvents>>
        /\ \A d \in Crawlers \ {c} : work'[d] = work[d]
        /\ work'[c].pc = "fetch"
        BY <1>3 DEF Reject, Unchanged, Done, tables, txs, TypeOK, Idle
  <2>2. QED
        BY <2>1, QuietHistory
<1>4. ASSUME NEW c \in Crawlers, ProbeUrl(c) \/ ProbeText(c) PROVE HistoryInv'
  <2>1. /\ UNCHANGED <<items, versions, outbox, txItems, txVersions, txEvents>>
        /\ \A d \in Crawlers \ {c} : work'[d] = work[d]
        BY <1>4 DEF ProbeUrl, ProbeText, Decide, tables, txs, TypeOK
  <2>2. work'[c].pc = "save" /\ work'[c].result # "NEW" =>
            work'[c].seen = Row(c, work'[c].item) /\ work'[c].seen \in Item
    <3>1. CASE work' = [work EXCEPT ![c] = [@ EXCEPT !.pc = "text"]]
          BY <3>1 DEF TypeOK, Work
    <3>2. CASE \E i \in Visible(c), result \in Results : Decide(c, result, i)
      <4>1. PICK i \in Visible(c), result \in Results : Decide(c, result, i)
            BY <3>2
      <4>2. i # NoRow /\ Row(c, i) \in Item
            BY RowType, NoRowAssumption DEF Visible
      <4>3. QED
            BY <4>1, <4>2 DEF Decide, TypeOK
    <3>3. CASE Decide(c, "NEW", NoRow)
          BY <3>3 DEF Decide, TypeOK
    <3>4. SameUrl(c) \subseteq Visible(c)
          BY DEF SameUrl
    <3>5. QED
          BY <1>4, <3>1, <3>2, <3>3, <3>4 DEF ProbeUrl, ProbeText, Results
  <2>3. QED
        BY <2>1, <2>2, QuietHistory
<1>5. ASSUME NEW c \in Crawlers, Revise(c) PROVE HistoryInv'
    BY <1>5, ReviseHistory
<1>6. ASSUME NEW c \in Crawlers, Resight(c) PROVE HistoryInv'
  <2> DEFINE i == work[c].item
             row(m) == [Row(c, i) EXCEPT !.raw = work[c].raw, !.variants = m]
  <2>1. PICK m \in {work[c].seen.variants, Row(c, i).variants} :
            Flush(c, i, row(m), {}, {})
        BY <1>6 DEF Resight
  <2>2. /\ i \in ItemIds /\ work[c].raw \in RawIds /\ m \in SUBSET RawIds
        /\ Row(c, i) \in Item /\ Row(c, i) # NoRow /\ Unlocked(c, i)
        BY <1>6, SaveType, SeenRow DEF Resight, Saving
  <2>3. /\ row(m) \in Item /\ row(m).version = Row(c, i).version
        /\ row(m).hash = Row(c, i).hash /\ row(m).status = Row(c, i).status
    <3> HIDE DEF i
    <3>1. QED
          BY <2>2 DEF Item, InitialVersion
  <2> HIDE DEF i, row
  <2>4. QED
        BY <2>1, <2>2, <2>3, TouchHistory
<1>7. ASSUME NEW c \in Crawlers, Link(c) PROVE HistoryInv'
  <2> DEFINE i == work[c].item
             row == Linked(c, i, work[c].seen.variants \cup {work[c].raw})
  <2>1. Flush(c, i, row, {}, {})
        BY <1>7 DEF Link
  <2>2. /\ i \in ItemIds /\ Row(c, i) \in Item /\ Row(c, i) # NoRow
        /\ work[c].seen.variants \cup {work[c].raw} \in SUBSET RawIds
        /\ Unlocked(c, i)
        BY <1>7, SaveType, SeenRow DEF Link, Saving
  <2>3. /\ row \in Item /\ row.version = Row(c, i).version
        /\ row.hash = Row(c, i).hash /\ row.status = Row(c, i).status
        BY <2>2, LinkRow DEF Linked
  <2> HIDE DEF i, row
  <2>4. QED
        BY <2>1, <2>2, <2>3, TouchHistory
<1>8. ASSUME NEW c \in Crawlers, Create(c) PROVE HistoryInv'
    BY <1>8, CreateHistory
<1>9. ASSUME NEW c \in Crawlers, Abort(c) PROVE HistoryInv'
    BY <1>9, DiscardHistory DEF Abort
<1>10. ASSUME NEW c \in Crawlers, Commit(c) PROVE HistoryInv'
    BY <1>10, CommitHistory
<1>11. QED
    BY <1>1, <1>2, <1>3, <1>4, <1>5, <1>6, <1>7, <1>8, <1>9, <1>10 DEF Next

(* A rebuild changes neither versions nor what is recorded of them, only   *)
(* the text an item shows.                                                 *)
LEMMA RebuildHistory ==
    ASSUME TypeOK, WorkOK, HistoryInv, NEW i \in ItemIds, Rebuild(i)
    PROVE  HistoryInv'
<1>1. /\ \A j \in ItemIds : items'[j] = NoRow <=> items[j] = NoRow
      /\ \A j \in ItemIds : items[j] # NoRow =>
            /\ items'[j].version = items[j].version
            /\ items'[j].status = items[j].status
      /\ UNCHANGED <<versions, outbox, txItems, txVersions, txEvents, work>>
      BY RebuildRow, NoRowAssumption DEF txs
<1>2. LocksDisjoint' /\ Pending'
      BY <1>1 DEF HistoryInv, LocksDisjoint, Pending
<1>3. Committed'
  <2> SUFFICES ASSUME NEW j \in ItemIds
               PROVE  IF items'[j] # NoRow
                      THEN Recorded(items'[j], j, outbox', versions')
                      ELSE Silent(j, outbox', versions')
      BY DEF Committed
  <2>1. CASE items[j] = NoRow
        BY <1>1, <2>1 DEF HistoryInv, Committed
  <2>2. CASE items[j] # NoRow
    <3>1. Recorded(items[j], j, outbox, versions)
          BY <2>2 DEF HistoryInv, Committed
    <3>2. Recorded(items'[j], j, outbox, versions)
          BY <1>1, <2>2, <3>1 DEF Recorded, FirstRow
    <3>3. QED
          BY <1>1, <2>2, <3>2
  <2>3. QED
        BY <2>1, <2>2
<1>4. PendingFollows'
      BY <1>1 DEF HistoryInv, PendingFollows, Follows
<1>5. SeenBehind'
  <2> SUFFICES ASSUME NEW c \in Crawlers, work[c].pc = "save", work[c].result # "NEW"
               PROVE  work[c].seen.version <= (Row(c, work[c].item)').version
      BY <1>1 DEF SeenBehind
  <2>1. work[c].item \in ItemIds /\ Row(c, work[c].item) # NoRow
        BY DEF WorkOK
  <2>2. (Row(c, work[c].item)').version = Row(c, work[c].item).version
        BY <1>1, <2>1 DEF Row
  <2>3. QED
        BY <2>2 DEF HistoryInv, SeenBehind
<1>6. QED
      BY <1>2, <1>3, <1>4, <1>5 DEF HistoryInv

(* The strengthened invariant: as any session sees it, the history of an   *)
(* item is complete up to its row's version, only the session that has the *)
(* row's lock extends it, and a row that was read is never ahead of the    *)
(* row in the table (canonical.py:61-86, 104-133; outbox.py:15-24).        *)
THEOREM HistoryCorrect == RebuildSpec => [](TypeInv /\ HistoryInv)
<1>1. Init => TypeInv /\ HistoryInv
      BY TypeInit, HistoryInit
<1>2. TypeInv /\ HistoryInv /\ [RebuildNext]_vars => (TypeInv /\ HistoryInv)'
      BY RebuildType, HistoryStep, RebuildHistory DEF RebuildNext, TypeInv
<1>3. QED
      BY <1>1, <1>2, PTL DEF RebuildSpec

(* No version of an item is ever missing from the outbox, whatever         *)
(* sessions race for the item or roll back, and rebuilds or not            *)
(* (canonical.py:65-85, 119-132; outbox.py:15-24).                         *)
THEOREM Announced == RebuildSpec => []EveryVersionAnnounced
<1>1. HistoryInv => EveryVersionAnnounced
      BY DEF HistoryInv, Committed, Recorded, EveryVersionAnnounced, Items
<1>2. QED
      BY <1>1, HistoryCorrect, PTL

(* Version rows and events of an item are complete, agree on the hash and  *)
(* never run ahead of it, also when items are rebuilt between the crawls   *)
(* (canonical.py:66-84, 119-132, 191-194, 208-241).                        *)
THEOREM Complete == RebuildSpec => []HistoryComplete
<1>1. TypeInv /\ HistoryInv => HistoryComplete
  <2> SUFFICES ASSUME TypeOK, HistoryInv PROVE HistoryComplete
      BY DEF TypeInv
  <2>1. \A i \in Items : Recorded(items[i], i, outbox, versions)
        BY DEF HistoryInv, Committed, Items
  <2>2. \A x \in versions \cup outbox : x.item \in ItemIds
        BY DEF TypeOK, Version, Event
  <2>3. \A x \in versions \cup outbox : x.item \in Items
        BY <2>2 DEF HistoryInv, Committed, Silent, Items
  <2>4. QED
        BY <2>1, <2>3 DEF Recorded, HistoryComplete, Items
<1>2. QED
      BY <1>1, HistoryCorrect, PTL

-----------------------------------------------------------------------------
(* The text an item shows.  From here on there are no rebuilds, which      *)
(* change it behind the versions.                                          *)

(* The event of a row's version has the text of the row.                   *)
ShownRow(row, i, events) ==
    \A e \in events : e.item = i /\ e.version = row.version => e.hash = row.hash

(* It does for committed rows and for a session's own, which only differs  *)
(* from the committed one in text when it has another version.             *)
Shows ==
    \A i \in ItemIds :
        /\ items[i] # NoRow => ShownRow(items[i], i, outbox)
        /\ \A c \in Crawlers : txItems[c][i] # NoRow =>
              /\ ShownRow(txItems[c][i], i, outbox \cup txEvents[c])
              /\ items[i] # NoRow /\ items[i].version = txItems[c][i].version
                    => items[i].hash = txItems[c][i].hash

(* No rows, no texts.                                                      *)
LEMMA ShowsInit == Init => Shows
BY DEF Init, Shows

(* The event of the version a session sees has the text it sees.           *)
LEMMA RowShown ==
    ASSUME TypeOK, HistoryInv, Shows, NEW c \in Crawlers, NEW i \in ItemIds,
           Row(c, i) # NoRow
    PROVE  ShownRow(Row(c, i), i, outbox \cup txEvents[c])
<1>1. CASE txItems[c][i] # NoRow
      BY <1>1 DEF Shows, Row
<1>2. CASE txItems[c][i] = NoRow
      BY <1>2 DEF Shows, Row, ShownRow, HistoryInv, Pending, Silent
<1>3. QED
      BY <1>1, <1>2

(* A flush of a row whose version has the row's text keeps all others.     *)
LEMMA FlushShows ==
    ASSUME TypeOK, Shows, NEW c \in Crawlers, NEW i \in ItemIds,
           NEW row \in Item, NEW newVersions, NEW newEvents,
           Flush(c, i, row, newVersions, newEvents),
           \A e \in newEvents : e.item = i,
           ShownRow(row, i, outbox \cup (txEvents[c] \cup newEvents)),
           items[i] # NoRow /\ items[i].version = row.version
                => items[i].hash = row.hash
    PROVE  Shows'
<1>1. /\ items' = items /\ outbox' = outbox
      /\ \A d \in Crawlers, j \in ItemIds :
            txItems'[d][j] = IF d = c /\ j = i THEN row ELSE txItems[d][j]
      /\ \A d \in Crawlers \ {c} : txEvents'[d] = txEvents[d]
      /\ txEvents'[c] = txEvents[c] \cup newEvents
      BY DEF Flush, tables, TypeOK
<1>2. ASSUME NEW j \in ItemIds, NEW d \in Crawlers, txItems'[d][j] # NoRow
      PROVE  ShownRow(txItems'[d][j], j, outbox \cup txEvents'[d])
  <2>1. CASE d = c /\ j = i
        BY <1>1, <2>1
  <2>2. CASE ~(d = c /\ j = i)
    <3>1. ShownRow(txItems[d][j], j, outbox \cup txEvents[d])
          BY <1>1, <1>2, <2>2 DEF Shows
    <3>2. QED
          BY <1>1, <2>2, <3>1 DEF ShownRow
  <2>3. QED
        BY <2>1, <2>2
<1>3. ASSUME NEW j \in ItemIds, items'[j] # NoRow
      PROVE  ShownRow(items'[j], j, outbox')
      BY <1>1, <1>3 DEF Shows
<1>4. ASSUME NEW j \in ItemIds, NEW d \in Crawlers, txItems'[d][j] # NoRow,
             items'[j] # NoRow, items'[j].version = txItems'[d][j].version
      PROVE  items'[j].hash = txItems'[d][j].hash
  <2>1. CASE d = c /\ j = i
        BY <1>1, <1>4, <2>1
  <2>2. CASE ~(d = c /\ j = i)
        BY <1>1, <1>4, <2>2 DEF Shows
  <2>3. QED
        BY <2>1, <2>2
<1>5. ASSUME NEW j \in ItemIds, NEW d \in Crawlers, txItems'[d][j] # NoRow
      PROVE  /\ ShownRow(txItems'[d][j], j, outbox' \cup txEvents'[d])
             /\ items'[j] # NoRow /\ items'[j].version = txItems'[d][j].version
                    => items'[j].hash = txItems'[d][j].hash
  <2>1. ShownRow(txItems'[d][j], j, outbox' \cup txEvents'[d])
        BY <1>1, <1>2, <1>5
  <2>2. ASSUME items'[j] # NoRow, items'[j].version = txItems'[d][j].version
        PROVE  items'[j].hash = txItems'[d][j].hash
        BY <1>4, <1>5, <2>2
  <2>3. QED
        BY <2>1, <2>2
<1>6. QED
      BY <1>3, <1>5 DEF Shows

(* A revision brings its text and its version together (canonical.py:65-84)*)
LEMMA ReviseShows ==
    ASSUME TypeOK, WorkOK, HistoryInv, Shows, NEW c \in Crawlers, Revise(c)
    PROVE  Shows'
<1> DEFINE i == work[c].item
           v == work[c].seen.version + 1
           h == Entry(c).text
           r == work[c].raw
           old == Row(c, i)
           row == Revised(c, i, v, h, r)
           event == [item |-> i, version |-> v, hash |-> h]
           E == outbox \cup txEvents[c]
<1>1. Flush(c, i, row, {[item |-> i, version |-> v, hash |-> h, raw |-> r]}, {event})
      BY ReviseFacts DEF Revise
<1>2. /\ i \in ItemIds /\ h \in Texts /\ r \in RawIds
      /\ old \in Item /\ old # NoRow
      /\ old.version \in Nat /\ v \in Nat /\ v = old.version + 1
      /\ \A e \in E : e.item = i => e.version \in 1 .. old.version
      BY ReviseFacts DEF Recorded
<1>3. items[i] # NoRow => items[i].version \in Nat /\ items[i].version <= old.version
      BY <1>2 DEF Row, HistoryInv, PendingFollows, Follows, TypeOK, Item
<1>4. row \in Item /\ row.version = v /\ row.hash = h
  <2>1. v \in Nat \ {0}
        BY <1>2
  <2> HIDE DEF i, v, h, r
  <2>2. QED
        BY <1>2, <2>1 DEF Item, Revised
<1>5. event.item = i /\ event.version = v /\ event.hash = h
      OBVIOUS
<1> HIDE DEF i, v, h, r, old, row, event
<1>6. ShownRow(row, i, outbox \cup (txEvents[c] \cup {event}))
      BY <1>2, <1>4, <1>5 DEF ShownRow
<1>7. items[i] # NoRow => items[i].version # row.version
      BY <1>2, <1>3, <1>4
<1>8. QED
      BY <1>1, <1>2, <1>4, <1>5, <1>6, <1>7, FlushShows

(* An update of lineage or variants leaves text and version.               *)
LEMMA TouchShows ==
    ASSUME TypeOK, HistoryInv, Shows, NEW c \in Crawlers, NEW i \in ItemIds,
           NEW row \in Item, Flush(c, i, row, {}, {}),
           Row(c, i) # NoRow,
           row.version = Row(c, i).version, row.hash = Row(c, i).hash
    PROVE  Shows'
<1>1. ShownRow(row, i, outbox \cup (txEvents[c] \cup {}))
      BY RowShown DEF ShownRow
<1>2. items[i] # NoRow /\ items[i].version = row.version => items[i].hash = row.hash
      BY DEF Shows, Row
<1>3. QED
      BY <1>1, <1>2, FlushShows

(* A new item shows the text its first event has (canonical.py:104-133).   *)
LEMMA CreateShows ==
    ASSUME TypeOK, WorkOK, HistoryInv, Shows, NEW c \in Crawlers, Create(c)
    PROVE  Shows'
<1> DEFINE h == Entry(c).text
           event(i) == [item |-> i, version |-> 1, hash |-> h]
           rows(i) == IF Entry(c).html
                      THEN {[item |-> i, version |-> 1, hash |-> h,
                             raw |-> work[c].raw]}
                      ELSE {}
           row == [url |-> Entry(c).url, hash |-> h,
                   version |-> InitialVersion, raw |-> work[c].raw,
                   variants |-> {},
                   status |-> IF Entry(c).html THEN "WAIT_FILTER" ELSE "TREND"]
<1>1. PICK i \in ItemIds :
        /\ items[i] = NoRow
        /\ \A d \in Crawlers : txItems[d][i] = NoRow
        /\ Flush(c, i, row, rows(i), Emitted(c, i, InitialVersion, h))
      BY DEF Create
<1>2. Silent(i, outbox, versions) /\ Silent(i, txEvents[c], txVersions[c])
      BY <1>1 DEF HistoryInv, Committed, Pending
<1>3. Emitted(c, i, InitialVersion, h) = {event(i)}
      BY <1>2 DEF Emitted, Silent, InitialVersion
<1>4. event(i).item = i /\ event(i).version = 1 /\ event(i).hash = h
      OBVIOUS
<1>5. row \in Item /\ row.hash = h
  <2>1. /\ Entry(c).url \in Urls /\ Entry(c).text \in Texts
        /\ work[c].raw \in RawIds
        BY SaveType DEF Create, Saving
  <2>2. QED
        BY <1>1, <2>1 DEF Item, InitialVersion
<1>6. Flush(c, i, row, rows(i), {event(i)})
      BY <1>1, <1>3
<1>9. row.version = 1
      BY DEF InitialVersion
<1> HIDE DEF h, event, row, rows
<1>7. ShownRow(row, i, outbox \cup (txEvents[c] \cup {event(i)}))
      BY <1>2, <1>4, <1>5 DEF ShownRow, Silent
<1>8. QED
      BY <1>1, <1>4, <1>5, <1>6, <1>7, FlushShows

(* A rollback takes the session's rows away.                               *)
LEMMA DiscardShows ==
    ASSUME TypeOK, Shows, NEW c \in Crawlers, Discard(c), UNCHANGED tables
    PROVE  Shows'
<1>1. /\ items' = items /\ outbox' = outbox
      /\ \A i \in ItemIds : txItems'[c][i] = NoRow
      /\ \A d \in Crawlers \ {c} :
            txItems'[d] = txItems[d] /\ txEvents'[d] = txEvents[d]
      BY DEF Discard, tables, TypeOK
<1>2. QED
      BY <1>1 DEF Shows

(* A commit publishes rows together with the events of their versions.     *)
LEMMA CommitShows ==
    ASSUME TypeOK, HistoryInv, Shows, NEW c \in Crawlers, Commit(c)
    PROVE  Shows'
<1>1. /\ \A i \in ItemIds : items'[i] = Row(c, i)
      /\ outbox' = outbox \cup txEvents[c]
      /\ \A i \in ItemIds : txItems'[c][i] = NoRow
      /\ \A d \in Crawlers \ {c} :
            txItems'[d] = txItems[d] /\ txEvents'[d] = txEvents[d]
      BY DEF Commit, Discard, TypeOK
<1>2. ASSUME NEW i \in ItemIds, items'[i] # NoRow
      PROVE  ShownRow(items'[i], i, outbox')
      BY <1>1, <1>2, RowShown
<1>3. ASSUME NEW i \in ItemIds, NEW d \in Crawlers, txItems'[d][i] # NoRow
      PROVE  /\ ShownRow(txItems'[d][i], i, outbox' \cup txEvents'[d])
             /\ items'[i] # NoRow /\ items'[i].version = txItems'[d][i].version
                    => items'[i].hash = txItems'[d][i].hash
  <2>1. d # c /\ txItems[d][i] # NoRow
        BY <1>1, <1>3
  <2>2. txItems[c][i] = NoRow /\ Silent(i, txEvents[c], txVersions[c])
        BY <2>1 DEF HistoryInv, LocksDisjoint, Pending
  <2>3. items'[i] = items[i]
        BY <1>1, <2>2 DEF Row
  <2>4. ShownRow(txItems[d][i], i, outbox \cup txEvents[d])
        BY <2>1 DEF Shows
  <2>5. QED
        BY <1>1, <2>1, <2>2, <2>3, <2>4 DEF Shows, ShownRow, Silent
<1>4. QED
      BY <1>2, <1>3 DEF Shows

(* One step of one session keeps text and version together.                *)
LEMMA ShowsStep == TypeInv /\ HistoryInv /\ Shows /\ [Next]_vars => Shows'
<1> SUFFICES ASSUME TypeOK, WorkOK, HistoryInv, Shows, [Next]_vars PROVE Shows'
    BY DEF TypeInv
<1>1. CASE UNCHANGED <<items, outbox, txItems, txEvents>>
    BY <1>1 DEF Shows
<1>2. ASSUME NEW c \in Crawlers,
             \/ TakeEntry(c) \/ Reject(c) \/ ProbeUrl(c) \/ ProbeText(c)
             \/ Unchanged(c)
      PROVE  UNCHANGED <<items, outbox, txItems, txEvents>>
    BY <1>2 DEF TakeEntry, Reject, ProbeUrl, ProbeText, Unchanged, tables, txs
<1>3. ASSUME NEW c \in Crawlers, Revise(c) PROVE Shows'
    BY <1>3, ReviseShows
<1>4. ASSUME NEW c \in Crawlers, Resight(c) PROVE Shows'
  <2> DEFINE i == work[c].item
             row(m) == [Row(c, i) EXCEPT !.raw = work[c].raw, !.variants = m]
  <2>1. PICK m \in {work[c].seen.variants, Row(c, i).variants} :
            Flush(c, i, row(m), {}, {})
        BY <1>4 DEF Resight
  <2>2. /\ i \in ItemIds /\ work[c].raw \in RawIds /\ m \in SUBSET RawIds
        /\ Row(c, i) \in Item /\ Row(c, i) # NoRow
        BY <1>4, SaveType, SeenRow DEF Resight, Saving
  <2>3. /\ row(m) \in Item /\ row(m).version = Row(c, i).version
        /\ row(m).hash = Row(c, i).hash
    <3>1. ASSUME NEW old \in Item, NEW r \in RawIds, NEW n \in SUBSET RawIds
          PROVE  LET new == [old EXCEPT !.raw = r, !.variants = n]
                 IN  /\ new \in Item /\ new.version = old.version
                     /\ new.hash = old.hash
          BY DEF Item
    <3> HIDE DEF i
    <3>2. QED
          BY <2>2, <3>1
  <2> HIDE DEF i, row
  <2>4. QED
        BY <2>1, <2>2, <2>3, TouchShows
<1>5. ASSUME NEW c \in Crawlers, Link(c) PROVE Shows'
  <2> DEFINE i == work[c].item
             row == Linked(c, i, work[c].seen.variants \cup {work[c].raw})
  <2>1. Flush(c, i, row, {}, {})
        BY <1>5 DEF Link
  <2>2. /\ i \in ItemIds /\ Row(c, i) \in Item /\ Row(c, i) # NoRow
        /\ work[c].seen.variants \cup {work[c].raw} \in SUBSET RawIds
        BY <1>5, SaveType, SeenRow DEF Link, Saving
  <2>3. row \in Item /\ row.version = Row(c, i).version /\ row.hash = Row(c, i).hash
    <3> DEFINE m == work[c].seen.variants \cup {work[c].raw}
    <3>1. m \in SUBSET RawIds /\ row = [Row(c, i) EXCEPT !.variants = m]
          BY <2>2 DEF Linked
    <3> HIDE DEF i, m, row
    <3>2. QED
          BY <2>2, <3>1, LinkRow
  <2> HIDE DEF i, row
  <2>4. QED
        BY <2>1, <2>2, <2>3, TouchShows
<1>6. ASSUME NEW c \in Crawlers, Create(c) PROVE Shows'
    BY <1>6, CreateShows
<1>7. ASSUME NEW c \in Crawlers, Abort(c) PROVE Shows'
    BY <1>7, DiscardShows DEF Abort
<1>8. ASSUME NEW c \in Crawlers, Commit(c) PROVE Shows'
    BY <1>8, CommitShows
<1>9. QED
    BY <1>1, <1>2, <1>3, <1>4, <1>5, <1>6, <1>7, <1>8 DEF Next, vars

(* Text and version of an item change together in every crawl.             *)
LEMMA ShowsCorrect == Spec => [](TypeInv /\ HistoryInv /\ Shows)
<1>1. Init => TypeInv /\ HistoryInv /\ Shows
      BY TypeInit, HistoryInit, ShowsInit
<1>2. TypeInv /\ HistoryInv /\ Shows /\ [Next]_vars => (TypeInv /\ HistoryInv /\ Shows)'
      BY TypeStep, HistoryStep, ShowsStep
<1>3. QED
      BY <1>1, <1>2, PTL DEF Spec

(* An item shows the text of the version L1 was told last                  *)
(* (canonical.py:65-84).                                                   *)
THEOREM Latest == Spec => []CurrentIsLatest
<1>1. Shows => CurrentIsLatest
      BY DEF Shows, ShownRow, CurrentIsLatest, Items
<1>2. QED
      BY <1>1, ShowsCorrect, PTL

(* No crawl changes the text of an item without a higher version number    *)
(* (canonical.py:65-85).                                                   *)
THEOREM NoSilentChange == Spec => HashChangeBumpsVersion
<1>1. TypeInv /\ HistoryInv /\ Shows /\ [Next]_vars =>
        [\A i \in Items : items'[i] # NoRow
            /\ items'[i].version >= items[i].version
            /\ (items'[i].hash # items[i].hash =>
                    items'[i].version > items[i].version)]_vars
  <2> SUFFICES ASSUME TypeOK, WorkOK, HistoryInv, Shows, Next,
                      NEW i \in ItemIds, items[i] # NoRow
               PROVE  /\ items'[i] # NoRow
                      /\ items'[i].version >= items[i].version
                      /\ (items'[i].hash # items[i].hash =>
                            items'[i].version > items[i].version)
      BY DEF TypeInv, Items
  <2>1. items[i] \in Item
        BY DEF TypeOK
  <2>2. CASE items' = items
        BY <2>1, <2>2 DEF Item
  <2>3. ASSUME NEW c \in Crawlers, Commit(c)
        PROVE  /\ items'[i] # NoRow
               /\ items'[i].version >= items[i].version
               /\ (items'[i].hash # items[i].hash =>
                     items'[i].version > items[i].version)
    <3>1. items'[i] = Row(c, i)
          BY <2>3 DEF Commit
    <3>2. CASE txItems[c][i] = NoRow
          BY <2>1, <3>1, <3>2 DEF Row, Item
    <3>3. CASE txItems[c][i] # NoRow
      <4>1. txItems[c][i] \in Item
            BY <3>3 DEF TypeOK
      <4>2. Follows(items[i], txItems[c][i])
            BY <3>3 DEF HistoryInv, PendingFollows
      <4>3. items[i].version = txItems[c][i].version
                    => items[i].hash = txItems[c][i].hash
            BY <3>3 DEF Shows
      <4>4. QED
            BY <2>1, <3>1, <3>3, <4>1, <4>2, <4>3 DEF Row, Follows, Item
    <3>4. QED
          BY <3>2, <3>3
  <2>4. ASSUME NEW c \in Crawlers, ~Commit(c),
               \/ TakeEntry(c) \/ Reject(c) \/ ProbeUrl(c) \/ ProbeText(c)
               \/ Unchanged(c) \/ Revise(c) \/ Resight(c) \/ Link(c) \/ Create(c)
               \/ Abort(c)
        PROVE  items' = items
        BY <2>4 DEF TakeEntry, Reject, ProbeUrl, ProbeText, Unchanged, Revise,
                    Resight, Link, Create, Abort, Flush, tables
  <2>5. QED
        BY <2>2, <2>3, <2>4 DEF Next
<1>2. QED
      BY <1>1, ShowsCorrect, PTL DEF Spec, HashChangeBumpsVersion

-----------------------------------------------------------------------------
(* The implementation of ContentHistory.                                   *)

(* No two events of an item's version differ, and no version repeats the   *)
(* text of the one before it.                                              *)
Chain(i, events) ==
    \A e, f \in events : e.item = i /\ f.item = i =>
        /\ e.version = f.version => e.hash = f.hash
        /\ f.version = e.version + 1 => e.hash # f.hash

(* The chains of an item's texts, as committed and as each session sees    *)
(* them, and that a row that is not stale has the text that was read.      *)
Chains ==
    \A i \in ItemIds :
        Chain(i, outbox) /\ \A c \in Crawlers : Chain(i, outbox \cup txEvents[c])

SeenSame ==
    \A c \in Crawlers :
        work[c].pc = "save" /\ work[c].result # "NEW"
            /\ work[c].seen.version = Row(c, work[c].item).version
                => work[c].seen.hash = Row(c, work[c].item).hash

ChainInv == Chains /\ SeenSame

(* Without events there is nothing to repeat.                              *)
LEMMA ChainInit == Init => ChainInv
BY DEF Init, ChainInv, Chains, Chain, SeenSame, Idle

(* Steps that write nothing: what has just been read is not stale.         *)
LEMMA QuietChain ==
    ASSUME TypeOK, ChainInv, UNCHANGED <<items, outbox, txItems, txEvents>>,
           NEW c \in Crawlers,
           \A d \in Crawlers \ {c} : work'[d] = work[d],
           work'[c].pc = "save" /\ work'[c].result # "NEW" =>
                work'[c].seen = Row(c, work'[c].item)
    PROVE  ChainInv'
<1>1. Chains'
      BY DEF ChainInv, Chains
<1>2. SeenSame'
      BY DEF ChainInv, SeenSame, Row
<1>3. QED
      BY <1>1, <1>2 DEF ChainInv

(* A flush that continues the chain of its item keeps all chains.          *)
LEMMA FlushChain ==
    ASSUME TypeOK, ChainInv, NEW c \in Crawlers, NEW i \in ItemIds,
           NEW row, NEW newVersions, NEW newEvents,
           Flush(c, i, row, newVersions, newEvents),
           \A e \in newEvents : e.item = i,
           Chain(i, outbox \cup (txEvents[c] \cup newEvents))
    PROVE  ChainInv'
<1>1. /\ outbox' = outbox /\ items' = items
      /\ txEvents'[c] = txEvents[c] \cup newEvents
      /\ work'[c].pc = "fetch"
      /\ \A d \in Crawlers \ {c} : /\ txEvents'[d] = txEvents[d]
                                   /\ txItems'[d] = txItems[d]
                                   /\ work'[d] = work[d]
      BY DEF Flush, Done, tables, TypeOK, Idle
<1>2. Chains'
  <2> SUFFICES ASSUME NEW j \in ItemIds, NEW d \in Crawlers
               PROVE  Chain(j, outbox \cup txEvents'[d])
      BY <1>1 DEF ChainInv, Chains
  <2>1. CASE d # c
        BY <1>1, <2>1 DEF ChainInv, Chains
  <2>2. CASE d = c /\ j = i
        BY <1>1, <2>2
  <2>3. CASE d = c /\ j # i
    <3>1. Chain(j, outbox \cup txEvents[c])
          BY DEF ChainInv, Chains
    <3>2. QED
          BY <1>1, <2>3, <3>1 DEF Chain
  <2>4. QED
        BY <2>1, <2>2, <2>3
<1>3. SeenSame'
  <2> SUFFICES ASSUME NEW d \in Crawlers, d # c,
                      work'[d].pc = "save", work'[d].result # "NEW",
                      work'[d].seen.version = (Row(d, work[d].item)').version
               PROVE  work'[d].seen.hash = (Row(d, work[d].item)').hash
      BY <1>1 DEF SeenSame
  <2>1. work'[d] = work[d] /\ Row(d, work[d].item)' = Row(d, work[d].item)
        BY <1>1 DEF Row
  <2>2. QED
        BY <2>1 DEF ChainInv, SeenSame
<1>4. QED
      BY <1>2, <1>3 DEF ChainInv

(* A revision adds a text that differs from the last one: what was read is *)
(* not stale (canonical.py:61-84).                                         *)
LEMMA ReviseChain ==
    ASSUME TypeOK, WorkOK, HistoryInv, Shows, ChainInv, NEW c \in Crawlers, Revise(c)
    PROVE  ChainInv'
<1> DEFINE i == work[c].item
           v == work[c].seen.version + 1
           h == Entry(c).text
           r == work[c].raw
           old == Row(c, i)
           event == [item |-> i, version |-> v, hash |-> h]
           E == outbox \cup txEvents[c]
<1>1. Flush(c, i, Revised(c, i, v, h, r),
            {[item |-> i, version |-> v, hash |-> h, raw |-> r]}, {event})
      BY ReviseFacts DEF Revise
<1>2. /\ i \in ItemIds /\ old.version \in Nat /\ v = old.version + 1
      /\ \A e \in E : e.item = i =>
            /\ e.version \in 1 .. old.version
            /\ e.version = old.version => e.hash = old.hash
      BY ReviseFacts, RowShown DEF Recorded, ShownRow
<1>3. h # old.hash
  <2>1. /\ work[c].pc = "save" /\ work[c].result # "NEW"
        /\ work[c].seen.hash # h
        BY DEF Revise, Saving, Changed
  <2>2. work[c].seen.version \in Nat
        BY <2>1, SaveType
  <2>3. work[c].seen.version = old.version
        BY <1>2, <2>2
  <2>4. QED
        BY <2>1, <2>3 DEF ChainInv, SeenSame
<1>4. Chain(i, E)
      BY <1>2 DEF ChainInv, Chains
<1>5. event.item = i /\ event.version = v /\ event.hash = h
      OBVIOUS
<1> HIDE DEF i, v, h, r, old, event, E
<1>6. Chain(i, E \cup {event})
  <2> SUFFICES ASSUME NEW e \in E \cup {event}, NEW f \in E \cup {event},
                      e.item = i, f.item = i
               PROVE  /\ e.version = f.version => e.hash = f.hash
                      /\ f.version = e.version + 1 => e.hash # f.hash
      BY DEF Chain
  <2>1. CASE e \in E /\ f \in E
        BY <1>4, <2>1 DEF Chain
  <2>2. CASE e \in E /\ f = event
        BY <1>2, <1>3, <1>5, <2>2
  <2>3. CASE e = event /\ f \in E
        BY <1>2, <1>5, <2>3
  <2>4. CASE e = event /\ f = event
        BY <1>2, <1>5, <2>4
  <2>5. QED
        BY <2>1, <2>2, <2>3, <2>4
<1>7. E \cup {event} = outbox \cup (txEvents[c] \cup {event})
      BY DEF E
<1>8. Chain(i, outbox \cup (txEvents[c] \cup {event}))
      BY <1>6, <1>7
<1>9. QED
      BY <1>1, <1>2, <1>5, <1>8, FlushChain

(* A new item has no chain yet, and begins one with a single event         *)
(* (canonical.py:104-133, 178-195).                                        *)
LEMMA CreateChain ==
    ASSUME TypeOK, HistoryInv, ChainInv, NEW c \in Crawlers, Create(c)
    PROVE  ChainInv'
<1> DEFINE h == Entry(c).text
           event(i) == [item |-> i, version |-> 1, hash |-> h]
<1>1. PICK i, row, rows :
        /\ i \in ItemIds /\ items[i] = NoRow
        /\ \A d \in Crawlers : txItems[d][i] = NoRow
        /\ Flush(c, i, row, rows, Emitted(c, i, InitialVersion, h))
      BY DEF Create
<1>2. Silent(i, outbox, versions) /\ Silent(i, txEvents[c], txVersions[c])
      BY <1>1 DEF HistoryInv, Committed, Pending
<1>3. Emitted(c, i, InitialVersion, h) = {event(i)}
      BY <1>2 DEF Emitted, Silent, InitialVersion
<1>4. event(i).item = i /\ event(i).version = 1 /\ event(i).hash = h
      OBVIOUS
<1>5. Flush(c, i, row, rows, {event(i)})
      BY <1>1, <1>3
<1> HIDE DEF h, event
<1>6. Chain(i, outbox \cup (txEvents[c] \cup {event(i)}))
      BY <1>2, <1>4 DEF Chain, Silent
<1>7. QED
      BY <1>1, <1>4, <1>5, <1>6, FlushChain

(* A rollback takes a session's events away.                               *)
LEMMA DiscardChain ==
    ASSUME TypeOK, ChainInv, NEW c \in Crawlers, Discard(c), UNCHANGED tables
    PROVE  ChainInv'
<1>1. /\ outbox' = outbox /\ items' = items
      /\ txEvents'[c] = {} /\ work'[c].pc = "fetch"
      /\ \A d \in Crawlers \ {c} : /\ txEvents'[d] = txEvents[d]
                                   /\ txItems'[d] = txItems[d]
                                   /\ work'[d] = work[d]
      BY DEF Discard, tables, TypeOK, Idle
<1>2. Chains'
      BY <1>1 DEF ChainInv, Chains
<1>3. SeenSame'
  <2> SUFFICES ASSUME NEW d \in Crawlers, d # c,
                      work'[d].pc = "save", work'[d].result # "NEW",
                      work'[d].seen.version = (Row(d, work[d].item)').version
               PROVE  work'[d].seen.hash = (Row(d, work[d].item)').hash
      BY <1>1 DEF SeenSame
  <2>1. work'[d] = work[d] /\ Row(d, work[d].item)' = Row(d, work[d].item)
        BY <1>1 DEF Row
  <2>2. QED
        BY <2>1 DEF ChainInv, SeenSame
<1>4. QED
      BY <1>2, <1>3 DEF ChainInv

(* A commit adds events of items of which no other session has any, and a  *)
(* row that was read keeps its text as long as it keeps its version.       *)
LEMMA CommitChain ==
    ASSUME TypeOK, WorkOK, HistoryInv, Shows, ChainInv, NEW c \in Crawlers, Commit(c)
    PROVE  ChainInv'
<1>1. /\ \A i \in ItemIds : items'[i] = Row(c, i)
      /\ outbox' = outbox \cup txEvents[c]
      /\ txEvents'[c] = {} /\ work'[c].pc = "fetch"
      /\ \A d \in Crawlers \ {c} : /\ txEvents'[d] = txEvents[d]
                                   /\ txItems'[d] = txItems[d]
                                   /\ work'[d] = work[d]
      BY DEF Commit, Discard, TypeOK, Idle
<1>2. Chains'
  <2> SUFFICES ASSUME NEW i \in ItemIds
               PROVE  /\ Chain(i, outbox')
                      /\ \A d \in Crawlers : Chain(i, outbox' \cup txEvents'[d])
      BY DEF Chains
  <2>1. Chain(i, outbox') /\ Chain(i, outbox' \cup txEvents'[c])
        BY <1>1 DEF ChainInv, Chains
  <2>2. ASSUME NEW d \in Crawlers, d # c PROVE Chain(i, outbox' \cup txEvents'[d])
    <3>1. CASE txItems[c][i] = NoRow
      <4>1. \A e \in txEvents[c] : e.item # i
            BY <3>1 DEF HistoryInv, Pending, Silent
      <4>2. Chain(i, outbox \cup txEvents[d])
            BY DEF ChainInv, Chains
      <4>3. QED
            BY <1>1, <2>2, <4>1, <4>2 DEF Chain
    <3>2. CASE txItems[c][i] # NoRow
      <4>1. \A e \in txEvents[d] : e.item # i
            BY <2>2, <3>2 DEF HistoryInv, LocksDisjoint, Pending, Silent
      <4>2. Chain(i, outbox \cup txEvents[c])
            BY DEF ChainInv, Chains
      <4>3. QED
            BY <1>1, <2>2, <4>1, <4>2 DEF Chain
    <3>3. QED
          BY <3>1, <3>2
  <2>3. QED
        BY <2>1, <2>2
<1>3. SeenSame'
  <2> SUFFICES ASSUME NEW d \in Crawlers, d # c,
                      work'[d].pc = "save", work'[d].result # "NEW",
                      work'[d].seen.version = (Row(d, work[d].item)').version
               PROVE  work'[d].seen.hash = (Row(d, work[d].item)').hash
      BY <1>1 DEF SeenSame
  <2> DEFINE i == work[d].item
             seen == work[d].seen
  <2>1. /\ work'[d] = work[d] /\ work[d].pc = "save" /\ work[d].result # "NEW"
        /\ i \in ItemIds /\ seen \in Item
        /\ Row(d, i) \in Item /\ Row(d, i) # NoRow
        /\ seen.version <= Row(d, i).version
        /\ seen.version = Row(d, i).version => seen.hash = Row(d, i).hash
        BY <1>1, RowType DEF WorkOK, HistoryInv, SeenBehind, ChainInv, SeenSame
  <2>2. Row(d, i)' = IF txItems[d][i] # NoRow THEN txItems[d][i] ELSE Row(c, i)
        BY <1>1, <2>1 DEF Row
  <2>3. CASE txItems[d][i] # NoRow
        BY <2>1, <2>2, <2>3 DEF Row
  <2>4. CASE txItems[d][i] = NoRow
    <3>1. Row(d, i) = items[i]
          BY <2>4 DEF Row
    <3>2. /\ Row(c, i) \in Item
          /\ items[i].version <= Row(c, i).version
          /\ items[i].version = Row(c, i).version => items[i].hash = Row(c, i).hash
      <4>1. Row(c, i) \in Item /\ items[i] \in Item /\ items[i] # NoRow
            BY <2>1, <3>1, RowType, NoRowAssumption DEF Row, TypeOK
      <4>2. CASE txItems[c][i] = NoRow
            BY <4>1, <4>2 DEF Row, Item
      <4>3. CASE txItems[c][i] # NoRow
        <5>1. Follows(items[i], txItems[c][i])
              BY <2>1, <4>1, <4>3 DEF HistoryInv, PendingFollows
        <5>2. items[i].version = txItems[c][i].version
                    => items[i].hash = txItems[c][i].hash
              BY <2>1, <4>1, <4>3 DEF Shows
        <5>3. QED
              BY <4>1, <4>3, <5>1, <5>2 DEF Row, Follows
      <4>4. QED
            BY <4>2, <4>3
    <3>3. QED
          BY <2>1, <2>2, <2>4, <3>1, <3>2 DEF Item
  <2>5. QED
        BY <2>3, <2>4
<1>4. QED
      BY <1>2, <1>3 DEF ChainInv

(* One step of one session keeps the chains.                               *)
LEMMA ChainStep ==
    TypeInv /\ HistoryInv /\ Shows /\ ChainInv /\ [Next]_vars => ChainInv'
<1> SUFFICES ASSUME TypeOK, WorkOK, HistoryInv, Shows, ChainInv, [Next]_vars
             PROVE  ChainInv'
    BY DEF TypeInv
<1>1. CASE UNCHANGED vars
    BY <1>1 DEF vars, ChainInv, Chains, SeenSame, Row
<1>2. ASSUME NEW c \in Crawlers, TakeEntry(c) \/ Reject(c) \/ Unchanged(c)
      PROVE  ChainInv'
  <2>1. /\ UNCHANGED <<items, outbox, txItems, txEvents>>
        /\ \A d \in Crawlers \ {c} : work'[d] = work[d]
        /\ work'[c].pc \in {"url", "fetch"}
    <3>1. CASE TakeEntry(c)
          BY <3>1 DEF TakeEntry, tables, TypeOK, Idle
    <3>2. CASE Reject(c) \/ Unchanged(c)
          BY <3>2 DEF Reject, Unchanged, Done, tables, txs, TypeOK, Idle
    <3>3. QED
          BY <1>2, <3>1, <3>2
  <2>2. QED
        BY <2>1, QuietChain
<1>3. ASSUME NEW c \in Crawlers, ProbeUrl(c) \/ ProbeText(c) PROVE ChainInv'
  <2>1. /\ UNCHANGED <<items, outbox, txItems, txEvents>>
        /\ \A d \in Crawlers \ {c} : work'[d] = work[d]
        BY <1>3 DEF ProbeUrl, ProbeText, Decide, tables, txs, TypeOK
  <2>2. work'[c].pc = "save" /\ work'[c].result # "NEW" =>
            work'[c].seen = Row(c, work'[c].item)
    <3>1. CASE work' = [work EXCEPT ![c] = [@ EXCEPT !.pc = "text"]]
          BY <3>1 DEF TypeOK, Work
    <3>2. CASE \E i \in Visible(c), result \in Results : Decide(c, result, i)
      <4>1. PICK i \in Visible(c), result \in Results : Decide(c, result, i)
            BY <3>2
      <4>2. i # NoRow
            BY NoRowAssumption DEF Visible
      <4>3. QED
            BY <4>1, <4>2 DEF Decide, TypeOK
    <3>3. CASE Decide(c, "NEW", NoRow)
          BY <3>3 DEF Decide, TypeOK
    <3>4. SameUrl(c) \subseteq Visible(c)
          BY DEF SameUrl
    <3>5. QED
          BY <1>3, <3>1, <3>2, <3>3, <3>4 DEF ProbeUrl, ProbeText, Results
  <2>3. QED
        BY <2>1, <2>2, QuietChain
<1>4. ASSUME NEW c \in Crawlers, Revise(c) PROVE ChainInv'
    BY <1>4, ReviseChain
<1>5. ASSUME NEW c \in Crawlers, Resight(c) \/ Link(c) PROVE ChainInv'
  <2>1. PICK row : Flush(c, work[c].item, row, {}, {})
        BY <1>5 DEF Resight, Link
  <2>2. work[c].item \in ItemIds
        BY <1>5, SeenRow DEF Resight, Link, Saving
  <2>3. Chain(work[c].item, outbox \cup (txEvents[c] \cup {}))
        BY <2>2 DEF ChainInv, Chains
  <2>4. QED
        BY <2>1, <2>2, <2>3, FlushChain
<1>6. ASSUME NEW c \in Crawlers, Create(c) PROVE ChainInv'
    BY <1>6, CreateChain
<1>7. ASSUME NEW c \in Crawlers, Abort(c) PROVE ChainInv'
    BY <1>7, DiscardChain DEF Abort
<1>8. ASSUME NEW c \in Crawlers, Commit(c) PROVE ChainInv'
    BY <1>8, CommitChain
<1>9. QED
    BY <1>1, <1>2, <1>3, <1>4, <1>5, <1>6, <1>7, <1>8 DEF Next

(* What L1 was told as a version is the hash of its one event.             *)
LEMMA TextOfEvent ==
    ASSUME TypeOK, Chains, NEW i \in ItemIds, NEW v,
           NEW e \in outbox, e.item = i, e.version = v
    PROVE  TextOf(i, v) = e.hash /\ TextOf(i, v) \in Texts
<1>1. e.hash \in Texts
      BY DEF TypeOK, Event
<1>2. \E f \in outbox : f.item = i /\ f.version = v /\ f.hash = TextOf(i, v)
      BY <1>1 DEF TextOf
<1>3. QED
      BY <1>1, <1>2 DEF Chains, Chain

(* The history of an item as a sequence.                                   *)
LEMMA ToldSequence ==
    ASSUME TypeOK, Committed, Chains, NEW i \in ItemIds
    PROVE  LET n == IF items[i] = NoRow THEN 0 ELSE items[i].version
           IN  /\ n \in Nat /\ (n = 0 <=> items[i] = NoRow)
               /\ Told[i] \in Seq(Texts) /\ Len(Told[i]) = n
               /\ \A v \in 1 .. n : Told[i][v] = TextOf(i, v)
<1> DEFINE n == IF items[i] = NoRow THEN 0 ELSE items[i].version
<1>1. n \in Nat /\ (n = 0 <=> items[i] = NoRow)
      BY DEF TypeOK, Item
<1>2. ASSUME NEW v \in 1 .. n PROVE TextOf(i, v) \in Texts
  <2>1. items[i] # NoRow /\ v \in 1 .. items[i].version
        BY <1>1, <1>2
  <2>2. PICK e \in outbox : e.item = i /\ e.version = v
        BY <2>1 DEF Committed, Recorded
  <2>3. QED
        BY <2>2, TextOfEvent
<1>3. Told[i] = [v \in 1 .. n |-> TextOf(i, v)]
      BY DEF Told
<1> HIDE DEF n
<1>4. Told[i] \in [1 .. n -> Texts]
      BY <1>2, <1>3
<1>5. Told[i] \in Seq(Texts)
      BY <1>1, <1>4, SeqDef
<1>6. Len(Told[i]) = n
  <2>1. DOMAIN Told[i] = 1 .. n
        BY <1>4
  <2>2. Len(Told[i]) \in Nat /\ DOMAIN Told[i] = 1 .. Len(Told[i])
        BY <1>5, LenProperties
  <2>3. QED
        BY <1>1, <2>1, <2>2
<1>7. QED
      BY <1>1, <1>3, <1>5, <1>6 DEF n

(* What the events of a later state of the outbox tell of the versions an  *)
(* item had already is what was told of them.                              *)
LEMMA TextOfKept ==
    ASSUME TypeOK, TypeOK', Committed, Chains, Chains', outbox \subseteq outbox',
           NEW i \in ItemIds, items[i] # NoRow, NEW v \in 1 .. items[i].version
    PROVE  TextOf(i, v)' = TextOf(i, v)
<1>1. PICK e \in outbox : e.item = i /\ e.version = v
      BY DEF Committed, Recorded
<1>2. TextOf(i, v) = e.hash
      BY <1>1, TextOfEvent
<1>3. \E f \in outbox' : f.item = i /\ f.version = v /\ f.hash = TextOf(i, v)'
  <2>1. e \in outbox' /\ e.hash \in Texts
        BY <1>1 DEF TypeOK, Event
  <2>2. QED
        BY <1>1, <2>1 DEF TextOf
<1>4. QED
      BY <1>1, <1>2, <1>3 DEF Chains, Chain

(* The histories are those of the items: without repetition, and up to the *)
(* text an item shows.                                                     *)
ToldWhole ==
    /\ Told \in [ItemIds -> Seq(Texts)]
    /\ \A i \in ItemIds :
        /\ items[i] = NoRow <=> Told[i] = <<>>
        /\ items[i] # NoRow =>
            /\ Len(Told[i]) = items[i].version
            /\ Told[i][Len(Told[i])] = items[i].hash
        /\ \A v \in 1 .. Len(Told[i]) : Told[i][v] = TextOf(i, v)
        /\ \A v \in 1 .. Len(Told[i]) - 1 : Told[i][v + 1] # Told[i][v]

(* Complete histories without repetition are told as such.                 *)
LEMMA ToldIsWhole == TypeOK /\ Committed /\ Shows /\ Chains => ToldWhole
<1> SUFFICES ASSUME TypeOK, Committed, Shows, Chains PROVE ToldWhole
    OBVIOUS
<1>1. Told \in [ItemIds -> Seq(Texts)]
  <2>1. \A i \in ItemIds : Told[i] \in Seq(Texts)
        BY ToldSequence
  <2>2. QED
        BY <2>1 DEF Told
<1>2. ASSUME NEW i \in ItemIds
      PROVE  /\ items[i] = NoRow <=> Told[i] = <<>>
             /\ items[i] # NoRow =>
                  /\ Len(Told[i]) = items[i].version
                  /\ Told[i][Len(Told[i])] = items[i].hash
             /\ \A v \in 1 .. Len(Told[i]) : Told[i][v] = TextOf(i, v)
             /\ \A v \in 1 .. Len(Told[i]) - 1 : Told[i][v + 1] # Told[i][v]
  <2> DEFINE n == IF items[i] = NoRow THEN 0 ELSE items[i].version
  <2>1. /\ n \in Nat /\ (n = 0 <=> items[i] = NoRow)
        /\ Told[i] \in Seq(Texts) /\ Len(Told[i]) = n
        /\ \A v \in 1 .. n : Told[i][v] = TextOf(i, v)
        BY ToldSequence
  <2>2. items[i] = NoRow <=> Told[i] = <<>>
        BY <2>1, EmptySeq
  <2>3. ASSUME NEW v \in 1 .. n
        PROVE  \E e \in outbox : e.item = i /\ e.version = v /\ e.hash = TextOf(i, v)
    <3>1. PICK e \in outbox : e.item = i /\ e.version = v
          BY <2>1 DEF Committed, Recorded
    <3>2. QED
          BY <3>1, TextOfEvent
  <2>4. ASSUME items[i] # NoRow PROVE Told[i][n] = items[i].hash
    <3>1. n \in 1 .. n /\ n = items[i].version
          BY <2>1, <2>4
    <3>2. PICK e \in outbox : e.item = i /\ e.version = n /\ e.hash = TextOf(i, n)
          BY <2>3, <3>1
    <3>3. e.hash = items[i].hash
          BY <2>4, <3>1, <3>2 DEF Shows, ShownRow
    <3>4. QED
          BY <2>1, <3>1, <3>2, <3>3
  <2>5. ASSUME NEW v \in 1 .. n - 1 PROVE Told[i][v + 1] # Told[i][v]
    <3>1. v \in 1 .. n /\ v + 1 \in 1 .. n
          BY <2>1
    <3>2. PICK e \in outbox : e.item = i /\ e.version = v /\ e.hash = TextOf(i, v)
          BY <2>3, <3>1
    <3>3. PICK g \in outbox : g.item = i /\ g.version = v + 1 /\ g.hash = TextOf(i, v + 1)
          BY <2>3, <3>1
    <3>4. e.hash # g.hash
          BY <3>2, <3>3 DEF Chains, Chain
    <3>5. QED
          BY <2>1, <3>1, <3>2, <3>3, <3>4
  <2> HIDE DEF n
  <2>6. items[i] # NoRow => n = items[i].version
        BY DEF n
  <2>7. QED
        BY <2>1, <2>2, <2>4, <2>5, <2>6
<1>3. QED
      BY <1>1, <1>2 DEF ToldWhole

(* A commit tells L1 of new texts only, after those it was told before.    *)
LEMMA CommitTells ==
    ASSUME TypeOK, TypeOK', HistoryInv, HistoryInv', ChainInv, ChainInv',
           ToldWhole, ToldWhole', NEW c \in Crawlers, Commit(c)
    PROVE  History!Tell
<1>1. Told' \in [ItemIds -> Seq(Texts)]
      BY DEF ToldWhole
<1>2. ASSUME NEW i \in ItemIds PROVE History!Extends(Told[i], Told'[i])
  <2>1. /\ Told[i] \in Seq(Texts) /\ Told'[i] \in Seq(Texts)
        /\ Len(Told[i]) \in Nat /\ Len(Told'[i]) \in Nat
        BY <1>1, LenProperties DEF ToldWhole
  <2>2. \A v \in 1 .. Len(Told'[i]) - 1 : Told'[i][v + 1] # Told'[i][v]
        BY DEF ToldWhole
  <2>3. CASE items[i] = NoRow
    <3>1. Len(Told[i]) = 0
          BY <2>3, EmptySeq DEF ToldWhole
    <3>2. QED
          BY <2>1, <2>2, <3>1 DEF History!Extends
  <2>4. CASE items[i] # NoRow
    <3>1. items'[i] = Row(c, i) /\ outbox \subseteq outbox'
          BY DEF Commit
    <3>2. /\ items'[i] # NoRow
          /\ items[i].version \in Nat /\ items'[i].version \in Nat
          /\ items[i].version <= items'[i].version
      <4>1. CASE txItems[c][i] = NoRow
            BY <2>4, <3>1, <4>1 DEF Row, TypeOK, Item
      <4>2. CASE txItems[c][i] # NoRow
            BY <2>4, <3>1, <4>2
            DEF Row, TypeOK, Item, HistoryInv, PendingFollows, Follows
      <4>3. QED
            BY <4>1, <4>2
    <3>3. Len(Told[i]) = items[i].version /\ Len(Told'[i]) = items'[i].version
          BY <2>4, <3>2 DEF ToldWhole
    <3>4. ASSUME NEW v \in 1 .. Len(Told[i]) PROVE Told'[i][v] = Told[i][v]
      <4>1. v \in 1 .. items[i].version /\ v \in 1 .. Len(Told'[i])
            BY <3>2, <3>3
      <4>2. TextOf(i, v)' = TextOf(i, v)
            BY <2>4, <3>1, <4>1, TextOfKept DEF HistoryInv, ChainInv
      <4>3. QED
            BY <4>1, <4>2 DEF ToldWhole
    <3>5. QED
          BY <2>1, <2>2, <3>2, <3>3, <3>4 DEF History!Extends
  <2>5. QED
        BY <2>3, <2>4
<1>3. Text' = [i \in ItemIds |-> History!Shown(Told'[i])]
  <2>1. ASSUME NEW i \in ItemIds
        PROVE  (IF items'[i] = NoRow THEN NoRow ELSE items'[i].hash)
                    = History!Shown(Told'[i])
        BY DEF ToldWhole, History!Shown
  <2>2. QED
        BY <2>1 DEF Text
<1>4. QED
      BY <1>1, <1>2, <1>3 DEF History!Tell

(* What neither items nor the outbox notice, the histories do not.         *)
LEMMA QuietTold ==
    ASSUME items' = items, outbox' = outbox
    PROVE  Told' = Told /\ Text' = Text
<1>1. \A i \in ItemIds, v \in Nat : TextOf(i, v)' = TextOf(i, v)
      BY DEF TextOf
<1>2. ASSUME NEW i \in ItemIds
      PROVE  [v \in 1 .. (IF items'[i] = NoRow THEN 0 ELSE items'[i].version)
                    |-> TextOf(i, v)']
               = [v \in 1 .. (IF items[i] = NoRow THEN 0 ELSE items[i].version)
                    |-> TextOf(i, v)]
      BY <1>1
<1>3. QED
      BY <1>2 DEF Told, Text

(* Nothing is told of items that are not there yet.                        *)
LEMMA ToldInit == Init => History!Init
<1> SUFFICES ASSUME Init PROVE History!Init
    OBVIOUS
<1>1. ToldWhole
      BY TypeInit, HistoryInit, ShowsInit, ChainInit, ToldIsWhole
      DEF TypeInv, HistoryInv, ChainInv
<1>2. Told = [i \in ItemIds |-> <<>>]
  <2>1. \A i \in ItemIds : Told[i] = <<>>
        BY <1>1 DEF Init, ToldWhole
  <2>2. QED
        BY <2>1 DEF Told
<1>3. Text = [i \in ItemIds |-> NoRow]
      BY DEF Init, Text
<1>4. QED
      BY <1>2, <1>3 DEF History!Init

(* The canonical layer implements ContentHistory: every text an item ever  *)
(* shows is told as its next version in the same commit, nothing told is   *)
(* rewritten, and no version repeats the one before it, however many       *)
(* crawls race for the item (canonical.py:61-86, 104-133; outbox.py:15-24).*)
THEOREM HistoriesTold == Spec => HistoryKept
<1> DEFINE Inv == TypeInv /\ HistoryInv /\ Shows /\ ChainInv /\ ToldWhole
<1>1. TypeInv /\ HistoryInv /\ Shows /\ ChainInv => ToldWhole
      BY ToldIsWhole DEF TypeInv, HistoryInv, ChainInv
<1>2. Init => Inv
      BY <1>1, TypeInit, HistoryInit, ShowsInit, ChainInit
<1>3. TypeInv /\ HistoryInv /\ Shows /\ ChainInv /\ [Next]_vars
            => (TypeInv /\ HistoryInv /\ Shows /\ ChainInv)'
      BY TypeStep, HistoryStep, ShowsStep, ChainStep
<1>4. (TypeInv /\ HistoryInv /\ Shows /\ ChainInv => ToldWhole)'
      BY <1>1, PTL
<1>5. Inv /\ [Next]_vars => Inv'
      BY <1>3, <1>4
<1>6. Init => History!Init
      BY ToldInit
<1>7. Inv /\ Inv' /\ [Next]_vars => [History!Tell]_<<Told, Text>>
  <2> SUFFICES ASSUME Inv, Inv', [Next]_vars
               PROVE  History!Tell \/ UNCHANGED <<Told, Text>>
      OBVIOUS
  <2>1. ASSUME NEW c \in Crawlers, Commit(c) PROVE History!Tell
        BY <2>1, CommitTells DEF TypeInv
  <2>2. CASE items' = items /\ outbox' = outbox
        BY <2>2, QuietTold
  <2>3. ASSUME NEW c \in Crawlers, ~Commit(c),
               \/ TakeEntry(c) \/ Reject(c) \/ ProbeUrl(c) \/ ProbeText(c)
               \/ Unchanged(c) \/ Revise(c) \/ Resight(c) \/ Link(c) \/ Create(c)
               \/ Abort(c)
        PROVE  items' = items /\ outbox' = outbox
        BY <2>3 DEF TakeEntry, Reject, ProbeUrl, ProbeText, Unchanged, Revise,
                    Resight, Link, Create, Abort, Flush, tables
  <2>4. CASE UNCHANGED vars
        BY <2>2, <2>4 DEF vars
  <2>5. QED
        BY <2>1, <2>2, <2>3, <2>4 DEF Next
<1>8. QED
      BY <1>2, <1>5, <1>6, <1>7, PTL DEF Spec, HistoryKept, History!Spec

-----------------------------------------------------------------------------
(* The lineage of items and versions.                                      *)

(* An item's document is of its URL, and its variants are documents.       *)
ItemLineage(row, docs) ==
    /\ docs[row.raw] # NoRow
    /\ docs[row.raw].url = row.url
    /\ \A r \in row.variants : docs[r] # NoRow

(* A version's document is the page of the URL whose text it is.           *)
VersionLineage(x, url, docs) ==
    /\ docs[x.raw] # NoRow
    /\ docs[x.raw].html
    /\ docs[x.raw].text = x.hash
    /\ docs[x.raw].url = url

(* The documents as a session sees them.                                   *)
Docs(c) == [r \in RawIds |-> RawRow(c, r)]

(* A document a session adds is new, and no other session's.               *)
RawsDisjoint ==
    \A c \in Crawlers, r \in RawIds : txRaws[c][r] # NoRow =>
        /\ raws[r] = NoRow
        /\ \A d \in Crawlers \ {c} : txRaws[d][r] = NoRow

CommittedLineage ==
    /\ \A i \in ItemIds : items[i] # NoRow => ItemLineage(items[i], raws)
    /\ \A x \in versions :
          items[x.item] # NoRow /\ VersionLineage(x, items[x.item].url, raws)

PendingLineage ==
    /\ \A c \in Crawlers, i \in ItemIds : txItems[c][i] # NoRow =>
          /\ ItemLineage(txItems[c][i], Docs(c))
          /\ items[i] # NoRow => items[i].url = txItems[c][i].url
    /\ \A c \in Crawlers : \A x \in txVersions[c] :
          /\ txItems[c][x.item] # NoRow
          /\ VersionLineage(x, txItems[c][x.item].url, Docs(c))

(* What a session has read of an item: documents it sees, and the URL.     *)
SeenLineage ==
    \A c \in Crawlers :
        work[c].pc = "save" /\ work[c].result # "NEW" =>
            /\ \A r \in work[c].seen.variants : RawRow(c, r) # NoRow
            /\ work[c].result = "SAME_URL" =>
                    Row(c, work[c].item).url = Entry(c).url

LineageInv == RawsDisjoint /\ CommittedLineage /\ PendingLineage /\ SeenLineage

(* With empty tables there is nothing to lead back.                        *)
LEMMA LineageInit == Init => LineageInv
BY DEF Init, LineageInv, RawsDisjoint, CommittedLineage, PendingLineage,
       SeenLineage, Idle

(* What is committed stays as it is for a session that adds documents.     *)
LEMMA DocsGrow ==
    ASSUME TypeOK, RawsDisjoint, NEW c \in Crawlers, NEW r \in RawIds,
           raws[r] # NoRow
    PROVE  RawRow(c, r) = raws[r]
BY DEF RawsDisjoint, RawRow

(* More documents change no lineage.                                       *)
LEMMA LineageFrame ==
    ASSUME NEW D, NEW D2, \A r \in RawIds : D[r] # NoRow => D2[r] = D[r]
    PROVE  /\ \A row \in Item : ItemLineage(row, D) => ItemLineage(row, D2)
           /\ \A u : \A x \in Version : VersionLineage(x, u, D) => VersionLineage(x, u, D2)
BY DEF ItemLineage, VersionLineage, Item, Version

(* The row a session sees leads back to documents it sees.                 *)
LEMMA RowLineage ==
    ASSUME TypeOK, LineageInv, NEW c \in Crawlers, NEW i \in ItemIds,
           Row(c, i) # NoRow
    PROVE  /\ ItemLineage(Row(c, i), Docs(c))
           /\ items[i] # NoRow => items[i].url = Row(c, i).url
<1>1. CASE txItems[c][i] # NoRow
      BY <1>1 DEF LineageInv, PendingLineage, Row
<1>2. CASE txItems[c][i] = NoRow
  <2>1. items[i] \in Item /\ ItemLineage(items[i], raws)
        BY <1>2 DEF LineageInv, CommittedLineage, Row, TypeOK
  <2>2. \A r \in RawIds : raws[r] # NoRow => Docs(c)[r] = raws[r]
        BY DocsGrow DEF LineageInv, Docs
  <2>3. ItemLineage(items[i], Docs(c))
        BY <2>1, <2>2, LineageFrame
  <2>4. QED
        BY <1>2, <2>3 DEF Row
<1>3. QED
      BY <1>1, <1>2

(* Steps that write nothing: what was read leads back to documents.        *)
LEMMA QuietLineage ==
    ASSUME TypeOK, LineageInv, UNCHANGED <<tables, txs>>, NEW c \in Crawlers,
           \A d \in Crawlers \ {c} : work'[d] = work[d],
           work'[c].pc = "save" /\ work'[c].result # "NEW" =>
                /\ work'[c].item \in Visible(c)
                /\ work'[c].seen = Row(c, work'[c].item)
                /\ work'[c].raw = work[c].raw
                /\ work'[c].result = "SAME_URL" => work'[c].item \in SameUrl(c)
    PROVE  LineageInv'
<1>1. \A d \in Crawlers, r \in RawIds, i \in ItemIds :
            /\ RawRow(d, r)' = RawRow(d, r) /\ Row(d, i)' = Row(d, i)
            /\ Docs(d)' = Docs(d)
      BY DEF RawRow, Row, Docs, tables, txs
<1>2. RawsDisjoint' /\ CommittedLineage'
      BY DEF LineageInv, RawsDisjoint, CommittedLineage, tables, txs
<1>3. PendingLineage'
      BY DEF LineageInv, PendingLineage, ItemLineage, VersionLineage, Docs, RawRow,
             tables, txs
<1>4. SeenLineage'
  <2> SUFFICES ASSUME NEW d \in Crawlers, work'[d].pc = "save", work'[d].result # "NEW"
               PROVE  /\ \A r \in work'[d].seen.variants : RawRow(d, r)' # NoRow
                      /\ work'[d].result = "SAME_URL" =>
                            (Row(d, work[d].item)').url = Entry(d)'.url
      BY DEF SeenLineage
  <2>1. CASE d # c
        BY <2>1 DEF LineageInv, SeenLineage, RawRow, Row, Entry, tables, txs
  <2>2. CASE d = c
    <3> DEFINE i == work'[c].item
    <3>1. /\ i \in ItemIds /\ Row(c, i) # NoRow /\ work'[c].seen = Row(c, i)
          /\ work'[c].result = "SAME_URL" => Row(c, i).url = Entry(c).url
          BY <2>2 DEF Visible, SameUrl
    <3>2. Row(c, i) \in Item /\ ItemLineage(Row(c, i), Docs(c))
          BY <3>1, RowLineage, RowType
    <3>3. \A r \in Row(c, i).variants : RawRow(c, r) # NoRow
          BY <3>2 DEF ItemLineage, Docs, Item
    <3>4. (Row(c, work[c].item)').url = Row(c, i).url /\ Entry(c)' = Entry(c)
          BY <2>2 DEF Row, Entry, RawRow, tables, txs
    <3>5. \A r : RawRow(c, r)' = RawRow(c, r)
          BY DEF RawRow, tables, txs
    <3>6. QED
          BY <2>2, <3>1, <3>3, <3>4, <3>5
  <2>3. QED
        BY <2>1, <2>2
<1>5. QED
      BY <1>2, <1>3, <1>4 DEF LineageInv

(* Steps that only add documents.                                          *)
LEMMA GrowPending ==
    ASSUME TypeOK, PendingLineage,
           UNCHANGED <<items, txItems, txVersions>>,
           \A d \in Crawlers, r \in RawIds :
                RawRow(d, r) # NoRow => RawRow(d, r)' = RawRow(d, r)
    PROVE  PendingLineage'
<1>1. ASSUME NEW d \in Crawlers
      PROVE  /\ \A row \in Item : ItemLineage(row, Docs(d)) => ItemLineage(row, Docs(d)')
             /\ \A u : \A x \in Version : VersionLineage(x, u, Docs(d)) =>
                    VersionLineage(x, u, Docs(d)')
  <2>1. \A r \in RawIds : Docs(d)[r] # NoRow => Docs(d)'[r] = Docs(d)[r]
        BY DEF Docs
  <2>2. QED
        BY <2>1, LineageFrame
<1>2. ASSUME NEW d \in Crawlers, NEW i \in ItemIds, txItems'[d][i] # NoRow
      PROVE  /\ ItemLineage(txItems'[d][i], Docs(d)')
             /\ items'[i] # NoRow => items'[i].url = txItems'[d][i].url
  <2>1. txItems[d][i] \in Item /\ ItemLineage(txItems[d][i], Docs(d))
        BY <1>2 DEF PendingLineage, TypeOK
  <2>2. QED
        BY <1>1, <1>2, <2>1 DEF PendingLineage
<1>3. ASSUME NEW d \in Crawlers, NEW x \in txVersions'[d]
      PROVE  /\ txItems'[d][x.item] # NoRow
             /\ VersionLineage(x, txItems'[d][x.item].url, Docs(d)')
  <2>1. x \in Version
        BY DEF TypeOK
  <2>2. QED
        BY <1>1, <2>1 DEF PendingLineage
<1>4. QED
      BY <1>2, <1>3 DEF PendingLineage

(* The document of an entry takes an id no other has.                      *)
LEMMA TakeLineage ==
    ASSUME TypeOK, WorkOK, LineageInv, NEW c \in Crawlers, TakeEntry(c)
    PROVE  LineageInv'
<1>1. PICK r \in RawIds, row \in Raw :
        /\ raws[r] = NoRow
        /\ \A d \in Crawlers : txRaws[d][r] = NoRow
        /\ txRaws' = [txRaws EXCEPT ![c] = [@ EXCEPT ![r] = row]]
        /\ work'[c].pc = "url"
        /\ \A d \in Crawlers \ {c} : work'[d] = work[d]
  <2>1. PICK r \in RawIds, u \in Urls, t \in Texts, page \in BOOLEAN :
        /\ raws[r] = NoRow
        /\ \A d \in Crawlers : txRaws[d][r] = NoRow
        /\ txRaws' = [txRaws EXCEPT
                ![c] = [@ EXCEPT ![r] = [url |-> u, text |-> t, html |-> page]]]
        /\ work' = [work EXCEPT ![c] = [Idle EXCEPT !.pc = "url", !.raw = r]]
        BY DEF TakeEntry
  <2>2. [url |-> u, text |-> t, html |-> page] \in Raw
        BY DEF Raw
  <2>3. work'[c].pc = "url"
        BY <2>1 DEF TypeOK, Idle
  <2>4. \A d \in Crawlers \ {c} : work'[d] = work[d]
        BY <2>1 DEF TypeOK
  <2>5. QED
        BY <2>1, <2>2, <2>3, <2>4
<1>2. UNCHANGED <<items, versions, raws, txItems, txVersions>>
      BY DEF TakeEntry, tables
<1>3. row # NoRow
      BY NoRowAssumption
<1>4. \A d \in Crawlers, q \in RawIds :
        txRaws'[d][q] = IF d = c /\ q = r THEN row ELSE txRaws[d][q]
      BY <1>1 DEF TypeOK
<1>5. \A d \in Crawlers, q \in RawIds :
        RawRow(d, q) # NoRow => RawRow(d, q)' = RawRow(d, q)
      BY <1>1, <1>2, <1>4 DEF RawRow
<1>6. RawsDisjoint'
      BY <1>1, <1>2, <1>3, <1>4 DEF LineageInv, RawsDisjoint
<1>7. CommittedLineage'
      BY <1>2 DEF LineageInv, CommittedLineage
<1>8. PendingLineage'
      BY <1>2, <1>5, GrowPending DEF LineageInv
<1>9. SeenLineage'
  <2> SUFFICES ASSUME NEW d \in Crawlers, d # c,
                      work'[d].pc = "save", work'[d].result # "NEW"
               PROVE  /\ \A q \in work'[d].seen.variants : RawRow(d, q)' # NoRow
                      /\ work'[d].result = "SAME_URL" =>
                            (Row(d, work[d].item)').url = Entry(d)'.url
      BY <1>1 DEF SeenLineage
  <2>1. /\ work'[d] = work[d] /\ Row(d, work[d].item)' = Row(d, work[d].item)
        /\ Entry(d)' = Entry(d)
    <3>1. work'[d] = work[d] /\ txRaws'[d] = txRaws[d]
          BY <1>1 DEF TypeOK
    <3>2. QED
          BY <1>2, <3>1 DEF Row, Entry, RawRow
  <2>2. \A q \in work[d].seen.variants : q \in RawIds /\ RawRow(d, q) # NoRow
    <3>1. work[d].seen \in Item
          BY <1>1 DEF WorkOK
    <3>2. QED
          BY <1>1, <3>1 DEF LineageInv, SeenLineage, Item
  <2>3. QED
        BY <1>1, <1>3, <1>5, <2>1, <2>2 DEF LineageInv, SeenLineage
<1>10. QED
      BY <1>6, <1>7, <1>8, <1>9 DEF LineageInv

(* A flush keeps the lineage when what it writes has one.                  *)
LEMMA FlushLineage ==
    ASSUME TypeOK, LineageInv, NEW c \in Crawlers, NEW i \in ItemIds,
           NEW row \in Item, NEW newVersions, NEW newEvents,
           Flush(c, i, row, newVersions, newEvents),
           ItemLineage(row, Docs(c)),
           Row(c, i) # NoRow => Row(c, i).url = row.url,
           \A x \in newVersions : x.item = i /\ VersionLineage(x, row.url, Docs(c))
    PROVE  LineageInv'
<1>1. /\ items' = items /\ versions' = versions /\ raws' = raws /\ txRaws' = txRaws
      /\ \A d \in Crawlers, j \in ItemIds :
            txItems'[d][j] = IF d = c /\ j = i THEN row ELSE txItems[d][j]
      /\ \A d \in Crawlers \ {c} : txVersions'[d] = txVersions[d]
      /\ txVersions'[c] = txVersions[c] \cup newVersions
      BY DEF Flush, tables, TypeOK
<1>2. row # NoRow
      BY NoRowAssumption
<1>3. \A d \in Crawlers : Docs(d)' = Docs(d)
      BY <1>1 DEF Docs, RawRow
<1>4. RawsDisjoint' /\ CommittedLineage'
      BY <1>1 DEF LineageInv, RawsDisjoint, CommittedLineage
<1>5. ASSUME NEW d \in Crawlers, NEW j \in ItemIds, txItems'[d][j] # NoRow
      PROVE  /\ ItemLineage(txItems'[d][j], Docs(d)')
             /\ items'[j] # NoRow => items'[j].url = txItems'[d][j].url
  <2>1. CASE d = c /\ j = i
    <3>1. items[i] # NoRow => Row(c, i) # NoRow /\ items[i].url = Row(c, i).url
          BY RowLineage DEF Row
    <3>2. QED
          BY <1>1, <1>3, <2>1, <3>1
  <2>2. CASE ~(d = c /\ j = i)
        BY <1>1, <1>3, <1>5, <2>2 DEF LineageInv, PendingLineage
  <2>3. QED
        BY <2>1, <2>2
<1>6. ASSUME NEW d \in Crawlers, NEW x \in txVersions'[d]
      PROVE  /\ txItems'[d][x.item] # NoRow
             /\ VersionLineage(x, txItems'[d][x.item].url, Docs(d)')
  <2>1. CASE d = c /\ x \in newVersions
        BY <1>1, <1>2, <1>3, <2>1
  <2>2. CASE x \in txVersions[d]
    <3>1. /\ x.item \in ItemIds /\ txItems[d][x.item] # NoRow
          /\ VersionLineage(x, txItems[d][x.item].url, Docs(d))
          BY <2>2 DEF LineageInv, PendingLineage, TypeOK, Version
    <3>2. d = c /\ x.item = i => txItems[d][x.item].url = row.url
          BY <3>1 DEF Row
    <3>3. QED
          BY <1>1, <1>2, <1>3, <3>1, <3>2
  <2>3. QED
        BY <1>1, <2>1, <2>2
<1>7. PendingLineage'
      BY <1>5, <1>6 DEF PendingLineage
<1>8. SeenLineage'
  <2> SUFFICES ASSUME NEW d \in Crawlers, d # c,
                      work'[d].pc = "save", work'[d].result # "NEW"
               PROVE  /\ \A q \in work'[d].seen.variants : RawRow(d, q)' # NoRow
                      /\ work'[d].result = "SAME_URL" =>
                            (Row(d, work[d].item)').url = Entry(d)'.url
      BY DEF SeenLineage, Flush, Done, TypeOK, Idle
  <2>1. work'[d] = work[d] /\ txItems'[d] = txItems[d]
        BY DEF Flush, Done, TypeOK
  <2>2. QED
        BY <1>1, <2>1 DEF LineageInv, SeenLineage, Row, Entry, RawRow
<1>9. QED
      BY <1>4, <1>7, <1>8 DEF LineageInv

(* The document of the entry a session is at, and what it has read.        *)
LEMMA EntryDocument ==
    ASSUME TypeOK, WorkOK, LineageInv, NEW c \in Crawlers, work[c].pc = "save"
    PROVE  /\ work[c].raw \in RawIds /\ Docs(c)[work[c].raw] = Entry(c)
           /\ Entry(c) \in Raw /\ Entry(c) # NoRow
           /\ work[c].result # "NEW" =>
                /\ work[c].item \in ItemIds /\ Row(c, work[c].item) \in Item
                /\ Row(c, work[c].item) # NoRow
                /\ ItemLineage(Row(c, work[c].item), Docs(c))
                /\ \A r \in work[c].seen.variants : r \in RawIds /\ Docs(c)[r] # NoRow
<1>1. Entry(c) \in Raw /\ work[c].raw \in RawIds
      BY EntryType
<1>2. ASSUME work[c].result # "NEW"
      PROVE  /\ work[c].item \in ItemIds /\ Row(c, work[c].item) \in Item
             /\ Row(c, work[c].item) # NoRow
             /\ \A r \in work[c].seen.variants : r \in RawIds /\ Docs(c)[r] # NoRow
      BY <1>2, SaveType DEF WorkOK, LineageInv, SeenLineage, Docs
<1>3. QED
      BY <1>1, <1>2, RowLineage, NoRowAssumption DEF Docs, Entry

(* The page of a revision becomes the item's document and the version's.   *)
LEMMA ReviseLineage ==
    ASSUME TypeOK, WorkOK, LineageInv, NEW c \in Crawlers, Revise(c)
    PROVE  LineageInv'
<1> DEFINE i == work[c].item
           v == work[c].seen.version + 1
           h == Entry(c).text
           r == work[c].raw
           row == Revised(c, i, v, h, r)
           version == [item |-> i, version |-> v, hash |-> h, raw |-> r]
<1>1. /\ work[c].pc = "save" /\ work[c].result = "SAME_URL" /\ Entry(c).html
      /\ Flush(c, i, row, {version}, Emitted(c, i, v, h))
      BY DEF Revise, Saving
<1>2. /\ i \in ItemIds /\ Row(c, i) \in Item /\ ItemLineage(Row(c, i), Docs(c))
      /\ r \in RawIds /\ Docs(c)[r] = Entry(c) /\ Entry(c) # NoRow
      BY <1>1, EntryDocument
<1>3. v \in Nat \ {0} /\ h \in Texts
      BY <1>1, SaveType
<1>4. Row(c, i).url = Entry(c).url
      BY <1>1 DEF LineageInv, SeenLineage
<1>5. version.item = i /\ version.hash = h /\ version.raw = r
      OBVIOUS
<1> HIDE DEF v, r, i
<1>6. /\ row \in Item /\ row.raw = r /\ row.url = Row(c, i).url
      /\ row.variants = Row(c, i).variants
      BY <1>2, <1>3 DEF Item, Revised
<1> HIDE DEF h, row, version
<1>7. ItemLineage(row, Docs(c))
      BY <1>2, <1>4, <1>6 DEF ItemLineage
<1>8. VersionLineage(version, row.url, Docs(c))
      BY <1>1, <1>2, <1>4, <1>5, <1>6 DEF VersionLineage, h
<1>9. QED
      BY <1>1, <1>2, <1>5, <1>6, <1>7, <1>8, FlushLineage

(* A trend entry becomes the document of the item of its URL.              *)
LEMMA ResightLineage ==
    ASSUME TypeOK, WorkOK, LineageInv, NEW c \in Crawlers, Resight(c)
    PROVE  LineageInv'
<1> DEFINE i == work[c].item
           row(m) == [Row(c, i) EXCEPT !.raw = work[c].raw, !.variants = m]
<1>1. PICK m \in {work[c].seen.variants, Row(c, i).variants} :
        Flush(c, i, row(m), {}, {})
      BY DEF Resight
<1>2. work[c].pc = "save" /\ work[c].result = "SAME_URL"
      BY DEF Resight, Saving
<1>3. /\ i \in ItemIds /\ Row(c, i) \in Item /\ ItemLineage(Row(c, i), Docs(c))
      /\ work[c].raw \in RawIds /\ Docs(c)[work[c].raw] = Entry(c) /\ Entry(c) # NoRow
      /\ \A r \in work[c].seen.variants : r \in RawIds /\ Docs(c)[r] # NoRow
      BY <1>2, EntryDocument
<1>4. Row(c, i).url = Entry(c).url
      BY <1>2 DEF LineageInv, SeenLineage
<1>5. /\ m \in SUBSET RawIds /\ \A r \in m : Docs(c)[r] # NoRow
      BY <1>3 DEF ItemLineage, Item
<1> HIDE DEF i
<1>6. /\ row(m) \in Item /\ row(m).raw = work[c].raw /\ row(m).url = Row(c, i).url
      /\ row(m).variants = m
      BY <1>3, <1>5 DEF Item
<1> HIDE DEF row
<1>7. ItemLineage(row(m), Docs(c))
      BY <1>3, <1>4, <1>5, <1>6 DEF ItemLineage
<1>8. QED
      BY <1>1, <1>3, <1>6, <1>7, FlushLineage

(* The document of a variant is listed, and the representative's stays.    *)
LEMMA LinkLineage ==
    ASSUME TypeOK, WorkOK, LineageInv, NEW c \in Crawlers, Link(c)
    PROVE  LineageInv'
<1> DEFINE i == work[c].item
           m == work[c].seen.variants \cup {work[c].raw}
           row == Linked(c, i, m)
<1>1. work[c].pc = "save" /\ work[c].result # "NEW" /\ Flush(c, i, row, {}, {})
      BY DEF Link, Saving
<1>2. /\ i \in ItemIds /\ Row(c, i) \in Item /\ ItemLineage(Row(c, i), Docs(c))
      /\ work[c].raw \in RawIds /\ Docs(c)[work[c].raw] # NoRow
      /\ \A r \in work[c].seen.variants : r \in RawIds /\ Docs(c)[r] # NoRow
      BY <1>1, EntryDocument
<1>3. m \in SUBSET RawIds /\ \A r \in m : Docs(c)[r] # NoRow
      BY <1>2
<1> HIDE DEF i, m
<1>4. /\ row \in Item /\ row.raw = Row(c, i).raw /\ row.url = Row(c, i).url
      /\ row.variants = m
      BY <1>2, <1>3, LinkRow DEF Linked
<1> HIDE DEF row
<1>5. ItemLineage(row, Docs(c))
      BY <1>2, <1>3, <1>4 DEF ItemLineage
<1>6. QED
      BY <1>1, <1>2, <1>4, <1>5, FlushLineage

(* A new item and its first version rest on the document of its entry.     *)
LEMMA CreateLineage ==
    ASSUME TypeOK, WorkOK, LineageInv, NEW c \in Crawlers, Create(c)
    PROVE  LineageInv'
<1> DEFINE e == Entry(c)
           r == work[c].raw
           row == [url |-> e.url, hash |-> e.text, version |-> InitialVersion,
                   raw |-> r, variants |-> {},
                   status |-> IF e.html THEN "WAIT_FILTER" ELSE "TREND"]
           first(i) == [item |-> i, version |-> 1, hash |-> e.text, raw |-> r]
           rows(i) == IF e.html THEN {first(i)} ELSE {}
<1>1. PICK i \in ItemIds :
        /\ items[i] = NoRow
        /\ \A d \in Crawlers : txItems[d][i] = NoRow
        /\ Flush(c, i, row, rows(i), Emitted(c, i, InitialVersion, e.text))
      BY DEF Create
<1>2. Row(c, i) = NoRow
      BY <1>1 DEF Row
<1>3. /\ e \in Raw /\ e # NoRow /\ r \in RawIds /\ Docs(c)[r] = e
      BY EntryDocument DEF Create, Saving
<1>4. /\ row \in Item /\ row.raw = r /\ row.url = e.url /\ row.variants = {}
      BY <1>3 DEF Item, Raw, InitialVersion
<1>5. \A x \in rows(i) : x.item = i /\ x.hash = e.text /\ x.raw = r /\ e.html
      OBVIOUS
<1> HIDE DEF e, r, row, rows
<1>6. ItemLineage(row, Docs(c))
      BY <1>3, <1>4 DEF ItemLineage
<1>7. \A x \in rows(i) : x.item = i /\ VersionLineage(x, row.url, Docs(c))
      BY <1>3, <1>4, <1>5 DEF VersionLineage
<1>8. QED
      BY <1>1, <1>2, <1>4, <1>6, <1>7, FlushLineage

(* A rollback takes the session's documents away, and with them all that   *)
(* rested on them.                                                         *)
LEMMA DiscardLineage ==
    ASSUME TypeOK, LineageInv, NEW c \in Crawlers, Discard(c), UNCHANGED tables
    PROVE  LineageInv'
<1>1. /\ UNCHANGED tables
      /\ \A i \in ItemIds : txItems'[c][i] = NoRow
      /\ \A r \in RawIds : txRaws'[c][r] = NoRow
      /\ txVersions'[c] = {} /\ work'[c].pc = "fetch"
      /\ \A d \in Crawlers \ {c} :
            /\ txItems'[d] = txItems[d] /\ txVersions'[d] = txVersions[d]
            /\ txRaws'[d] = txRaws[d] /\ work'[d] = work[d]
      BY DEF Discard, TypeOK, Idle
<1>2. RawsDisjoint' /\ CommittedLineage'
      BY <1>1 DEF LineageInv, RawsDisjoint, CommittedLineage, tables
<1>3. \A d \in Crawlers \ {c} : Docs(d)' = Docs(d)
      BY <1>1 DEF Docs, RawRow, tables
<1>4. PendingLineage'
  <2>1. ASSUME NEW d \in Crawlers, NEW i \in ItemIds, txItems'[d][i] # NoRow
        PROVE  /\ ItemLineage(txItems'[d][i], Docs(d)')
               /\ items'[i] # NoRow => items'[i].url = txItems'[d][i].url
        BY <1>1, <1>3, <2>1 DEF LineageInv, PendingLineage, tables
  <2>2. ASSUME NEW d \in Crawlers, NEW x \in txVersions'[d]
        PROVE  /\ txItems'[d][x.item] # NoRow
               /\ VersionLineage(x, txItems'[d][x.item].url, Docs(d)')
        BY <1>1, <1>3, <2>2 DEF LineageInv, PendingLineage
  <2>3. QED
        BY <2>1, <2>2 DEF PendingLineage
<1>5. SeenLineage'
  <2> SUFFICES ASSUME NEW d \in Crawlers, d # c,
                      work'[d].pc = "save", work'[d].result # "NEW"
               PROVE  /\ \A q \in work'[d].seen.variants : RawRow(d, q)' # NoRow
                      /\ work'[d].result = "SAME_URL" =>
                            (Row(d, work[d].item)').url = Entry(d)'.url
      BY <1>1 DEF SeenLineage
  <2>1. QED
        BY <1>1 DEF LineageInv, SeenLineage, Row, Entry, RawRow, tables
<1>6. QED
      BY <1>2, <1>4, <1>5 DEF LineageInv

(* A commit publishes rows that lead back to documents it publishes too,   *)
(* and changes nothing other sessions have seen.                           *)
LEMMA CommitLineage ==
    ASSUME TypeOK, WorkOK, HistoryInv, LineageInv, NEW c \in Crawlers, Commit(c)
    PROVE  LineageInv'
<1>1. /\ \A i \in ItemIds : items'[i] = Row(c, i)
      /\ versions' = versions \cup txVersions[c]
      /\ raws' = Docs(c)
      /\ \A i \in ItemIds : txItems'[c][i] = NoRow
      /\ \A r \in RawIds : txRaws'[c][r] = NoRow
      /\ txVersions'[c] = {} /\ work'[c].pc = "fetch"
      /\ \A d \in Crawlers \ {c} :
            /\ txItems'[d] = txItems[d] /\ txVersions'[d] = txVersions[d]
            /\ txRaws'[d] = txRaws[d] /\ work'[d] = work[d]
      BY DEF Commit, Discard, Docs, TypeOK, Idle
<1>2. \A r \in RawIds : raws'[r] = RawRow(c, r)
      BY <1>1 DEF Docs
<1>3. \A r \in RawIds : raws[r] # NoRow => raws'[r] = raws[r]
      BY <1>2, DocsGrow DEF LineageInv
<1>4. \A d \in Crawlers \ {c}, r \in RawIds :
            RawRow(d, r) # NoRow => RawRow(d, r)' = RawRow(d, r)
      BY <1>1, <1>3 DEF RawRow
<1>5. RawsDisjoint'
      BY <1>1, <1>2 DEF LineageInv, RawsDisjoint, RawRow
<1>6. CommittedLineage'
  <2>1. ASSUME NEW i \in ItemIds, items'[i] # NoRow
        PROVE  ItemLineage(items'[i], raws')
        BY <1>1, <2>1, RowLineage
  <2>2. ASSUME NEW x \in versions'
        PROVE  items'[x.item] # NoRow /\ VersionLineage(x, items'[x.item].url, raws')
    <3>1. CASE x \in versions
      <4>1. /\ x \in Version /\ x.item \in ItemIds /\ items[x.item] # NoRow
            /\ VersionLineage(x, items[x.item].url, raws)
            BY <3>1 DEF LineageInv, CommittedLineage, TypeOK, Version
      <4>2. VersionLineage(x, items[x.item].url, raws')
            BY <1>3, <4>1, LineageFrame
      <4>3. Row(c, x.item) # NoRow
            BY <4>1 DEF Row
      <4>4. items[x.item].url = Row(c, x.item).url
            BY <4>1, <4>3, RowLineage
      <4>5. QED
            BY <1>1, <4>1, <4>2, <4>3, <4>4
    <3>2. CASE x \in txVersions[c]
      <4>1. x.item \in ItemIds
            BY <3>2 DEF TypeOK, Version
      <4>2. /\ txItems[c][x.item] # NoRow
            /\ VersionLineage(x, txItems[c][x.item].url, Docs(c))
            BY <3>2 DEF LineageInv, PendingLineage
      <4>3. QED
            BY <1>1, <4>1, <4>2 DEF Row
    <3>3. QED
          BY <1>1, <3>1, <3>2
  <2>3. QED
        BY <2>1, <2>2 DEF CommittedLineage
<1>7. PendingLineage'
  <2>1. ASSUME NEW d \in Crawlers, d # c
        PROVE  /\ \A row \in Item :
                    ItemLineage(row, Docs(d)) => ItemLineage(row, Docs(d)')
               /\ \A u : \A x \in Version :
                    VersionLineage(x, u, Docs(d)) => VersionLineage(x, u, Docs(d)')
    <3>1. \A r \in RawIds : Docs(d)[r] # NoRow => Docs(d)'[r] = Docs(d)[r]
          BY <1>4, <2>1 DEF Docs
    <3>2. QED
          BY <3>1, LineageFrame
  <2>2. ASSUME NEW d \in Crawlers, NEW i \in ItemIds, txItems'[d][i] # NoRow
        PROVE  /\ ItemLineage(txItems'[d][i], Docs(d)')
               /\ items'[i] # NoRow => items'[i].url = txItems'[d][i].url
    <3>1. d # c /\ txItems'[d] = txItems[d]
          BY <1>1, <2>2
    <3>2. /\ txItems[d][i] \in Item /\ ItemLineage(txItems[d][i], Docs(d))
          /\ items[i] # NoRow => items[i].url = txItems[d][i].url
          BY <2>2, <3>1 DEF LineageInv, PendingLineage, TypeOK
    <3>3. items'[i] = items[i]
          BY <1>1, <2>2, <3>1 DEF HistoryInv, LocksDisjoint, Row
    <3>4. QED
          BY <2>1, <3>1, <3>2, <3>3
  <2>3. ASSUME NEW d \in Crawlers, NEW x \in txVersions'[d]
        PROVE  /\ txItems'[d][x.item] # NoRow
               /\ VersionLineage(x, txItems'[d][x.item].url, Docs(d)')
    <3>1. d # c /\ txItems'[d] = txItems[d] /\ x \in txVersions[d] /\ x \in Version
          BY <1>1, <2>3 DEF TypeOK
    <3>2. QED
          BY <2>1, <3>1 DEF LineageInv, PendingLineage
  <2>4. QED
        BY <2>2, <2>3 DEF PendingLineage
<1>8. SeenLineage'
  <2> SUFFICES ASSUME NEW d \in Crawlers, d # c,
                      work'[d].pc = "save", work'[d].result # "NEW"
               PROVE  /\ \A q \in work'[d].seen.variants : RawRow(d, q)' # NoRow
                      /\ work'[d].result = "SAME_URL" =>
                            (Row(d, work[d].item)').url = Entry(d)'.url
      BY <1>1 DEF SeenLineage
  <2> DEFINE i == work[d].item
  <2>1. work'[d] = work[d]
        BY <1>1
  <2>2. /\ Docs(d)[work[d].raw] = Entry(d) /\ Entry(d) # NoRow /\ work[d].raw \in RawIds
        /\ i \in ItemIds /\ Row(d, i) # NoRow
        /\ \A r \in work[d].seen.variants : r \in RawIds /\ Docs(d)[r] # NoRow
        BY <2>1, EntryDocument
  <2>3. \A r \in work[d].seen.variants : RawRow(d, r)' # NoRow
        BY <1>4, <2>2 DEF Docs
  <2>4. Entry(d)' = Entry(d)
        BY <1>4, <2>1, <2>2 DEF Entry
  <2>5. (Row(d, i)').url = Row(d, i).url
    <3>1. CASE txItems[d][i] # NoRow
          BY <1>1, <3>1 DEF Row
    <3>2. CASE txItems[d][i] = NoRow
      <4>1. items[i] # NoRow /\ Row(d, i) = items[i] /\ Row(c, i) # NoRow
            BY <2>2, <3>2 DEF Row
      <4>2. items[i].url = Row(c, i).url
            BY <2>2, <4>1, RowLineage
      <4>3. Row(d, i)' = Row(c, i)
            BY <1>1, <2>2, <3>2 DEF Row
      <4>4. QED
            BY <4>1, <4>2, <4>3
    <3>3. QED
          BY <3>1, <3>2
  <2>6. QED
        BY <2>1, <2>3, <2>4, <2>5 DEF LineageInv, SeenLineage
<1>9. QED
      BY <1>5, <1>6, <1>7, <1>8 DEF LineageInv

(* One step of one session keeps the lineage.                              *)
LEMMA LineageStep == TypeInv /\ HistoryInv /\ LineageInv /\ [Next]_vars => LineageInv'
<1> SUFFICES ASSUME TypeOK, WorkOK, HistoryInv, LineageInv, [Next]_vars
             PROVE  LineageInv'
    BY DEF TypeInv
<1>1. CASE UNCHANGED vars
  <2>1. /\ UNCHANGED <<tables, txs>> /\ work' = work
        /\ UNCHANGED <<items, versions, raws, txItems, txVersions, txRaws>>
        BY <1>1 DEF vars, tables, txs
  <2>2. \A d \in Crawlers, r \in RawIds : RawRow(d, r)' = RawRow(d, r)
        BY <2>1 DEF RawRow
  <2>3. RawsDisjoint' /\ CommittedLineage'
        BY <2>1 DEF LineageInv, RawsDisjoint, CommittedLineage
  <2>4. PendingLineage'
        BY <2>1, <2>2, GrowPending DEF LineageInv
  <2>5. SeenLineage'
        BY <2>1 DEF LineageInv, SeenLineage, RawRow, Row, Entry
  <2>6. QED
        BY <2>3, <2>4, <2>5 DEF LineageInv
<1>2. ASSUME NEW c \in Crawlers, TakeEntry(c) PROVE LineageInv'
    BY <1>2, TakeLineage
<1>3. ASSUME NEW c \in Crawlers, Reject(c) \/ Unchanged(c) PROVE LineageInv'
  <2>1. /\ UNCHANGED <<tables, txs>>
        /\ \A d \in Crawlers \ {c} : work'[d] = work[d]
        /\ work'[c].pc = "fetch"
        BY <1>3 DEF Reject, Unchanged, Done, TypeOK, Idle
  <2>2. QED
        BY <2>1, QuietLineage
<1>4. ASSUME NEW c \in Crawlers, ProbeUrl(c) \/ ProbeText(c) PROVE LineageInv'
  <2>1. /\ UNCHANGED <<tables, txs>>
        /\ \A d \in Crawlers \ {c} : work'[d] = work[d]
        BY <1>4 DEF ProbeUrl, ProbeText, Decide, TypeOK
  <2>2. work'[c].pc = "save" /\ work'[c].result # "NEW" =>
            /\ work'[c].item \in Visible(c)
            /\ work'[c].seen = Row(c, work'[c].item)
            /\ work'[c].raw = work[c].raw
            /\ work'[c].result = "SAME_URL" => work'[c].item \in SameUrl(c)
    <3>1. CASE work' = [work EXCEPT ![c] = [@ EXCEPT !.pc = "text"]]
          BY <3>1 DEF TypeOK, Work
    <3>2. CASE \E i \in SameUrl(c) : Decide(c, "SAME_URL", i)
      <4>1. PICK i \in SameUrl(c) : Decide(c, "SAME_URL", i)
            BY <3>2
      <4>2. i \in Visible(c) /\ i # NoRow
            BY NoRowAssumption DEF SameUrl, Visible
      <4>3. QED
            BY <4>1, <4>2 DEF Decide, TypeOK
    <3>3. CASE \E i \in Visible(c) : Decide(c, "LIKE", i)
      <4>1. PICK i \in Visible(c) : Decide(c, "LIKE", i)
            BY <3>3
      <4>2. i # NoRow
            BY NoRowAssumption DEF Visible
      <4>3. QED
            BY <4>1, <4>2 DEF Decide, TypeOK
    <3>4. CASE Decide(c, "NEW", NoRow)
          BY <3>4 DEF Decide, TypeOK
    <3>5. QED
          BY <1>4, <3>1, <3>2, <3>3, <3>4 DEF ProbeUrl, ProbeText
  <2>3. QED
        BY <2>1, <2>2, QuietLineage
<1>5. ASSUME NEW c \in Crawlers, Revise(c) PROVE LineageInv'
    BY <1>5, ReviseLineage
<1>6. ASSUME NEW c \in Crawlers, Resight(c) PROVE LineageInv'
    BY <1>6, ResightLineage
<1>7. ASSUME NEW c \in Crawlers, Link(c) PROVE LineageInv'
    BY <1>7, LinkLineage
<1>8. ASSUME NEW c \in Crawlers, Create(c) PROVE LineageInv'
    BY <1>8, CreateLineage
<1>9. ASSUME NEW c \in Crawlers, Abort(c) PROVE LineageInv'
    BY <1>9, DiscardLineage DEF Abort
<1>10. ASSUME NEW c \in Crawlers, Commit(c) PROVE LineageInv'
    BY <1>10, CommitLineage
<1>11. QED
    BY <1>1, <1>2, <1>3, <1>4, <1>5, <1>6, <1>7, <1>8, <1>9, <1>10 DEF Next

(* A rebuild leaves an item's document, its URL and its variants.          *)
LEMMA RebuildLineage ==
    ASSUME TypeOK, WorkOK, LineageInv, NEW i \in ItemIds, Rebuild(i)
    PROVE  LineageInv'
<1>1. /\ \A j \in ItemIds : items'[j] = NoRow <=> items[j] = NoRow
      /\ \A j \in ItemIds : items[j] # NoRow =>
            /\ items'[j].url = items[j].url /\ items'[j].raw = items[j].raw
            /\ items'[j].variants = items[j].variants
      /\ UNCHANGED <<versions, raws, txItems, txVersions, txRaws, work>>
      BY RebuildRow, NoRowAssumption DEF txs
<1>2. \A c \in Crawlers, r \in RawIds : RawRow(c, r)' = RawRow(c, r)
      BY <1>1 DEF RawRow
<1>3. RawsDisjoint'
      BY <1>1 DEF LineageInv, RawsDisjoint
<1>4. CommittedLineage'
  <2>1. \A x \in versions : x.item \in ItemIds
        BY DEF TypeOK, Version
  <2>2. QED
        BY <1>1, <2>1 DEF LineageInv, CommittedLineage, ItemLineage, VersionLineage
<1>5. PendingLineage'
      BY <1>1, <1>2 DEF LineageInv, PendingLineage, ItemLineage, VersionLineage, Docs
<1>6. SeenLineage'
  <2> SUFFICES ASSUME NEW c \in Crawlers, work[c].pc = "save", work[c].result # "NEW"
               PROVE  /\ \A r \in work[c].seen.variants : RawRow(c, r)' # NoRow
                      /\ work[c].result = "SAME_URL" =>
                            (Row(c, work[c].item)').url = Entry(c)'.url
      BY <1>1 DEF SeenLineage
  <2>1. /\ work[c].item \in ItemIds /\ Row(c, work[c].item) # NoRow
        /\ work[c].seen \in Item
        BY DEF WorkOK
  <2>2. (Row(c, work[c].item)').url = Row(c, work[c].item).url
        BY <1>1, <2>1 DEF Row
  <2>3. Entry(c)' = Entry(c)
        BY <1>1 DEF Entry, RawRow
  <2>4. \A r \in work[c].seen.variants : r \in RawIds
        BY <2>1 DEF Item
  <2>5. QED
        BY <1>2, <2>2, <2>3, <2>4 DEF LineageInv, SeenLineage
<1>7. QED
      BY <1>3, <1>4, <1>5, <1>6 DEF LineageInv

(* Items, versions and variants lead back to committed raw documents: of   *)
(* the item's own URL for the item and its versions, and for a version to  *)
(* the page whose text it is (canonical.py:71, 77-79, 156).                *)
THEOREM Lineages == RebuildSpec => []LineageSound
<1>1. Init => TypeInv /\ HistoryInv /\ LineageInv
      BY TypeInit, HistoryInit, LineageInit
<1>2. TypeInv /\ HistoryInv /\ LineageInv /\ [RebuildNext]_vars
            => (TypeInv /\ HistoryInv /\ LineageInv)'
      BY RebuildType, HistoryStep, RebuildHistory, LineageStep, RebuildLineage
      DEF RebuildNext, TypeInv
<1>3. LineageInv => LineageSound
      BY DEF LineageInv, CommittedLineage, ItemLineage, VersionLineage, LineageSound, Items
<1>4. QED
      BY <1>1, <1>2, <1>3, PTL DEF RebuildSpec

-----------------------------------------------------------------------------
(* One crawler: the SQLite deployment, with rebuilds between its crawls.   *)
(* Nothing comes between what the session reads and what it writes, so     *)
(* that what classify finds decides what is stored.                        *)
Alone == \A c, d \in Crawlers : c = d

(* What the session knows of its entry: the row it read is the row there   *)
(* is; past the first query no item has the URL; and with no match no item *)
(* is like the text.                                                       *)
KnownEntry(c) ==
    /\ work[c].pc = "save" /\ work[c].result # "NEW" =>
            work[c].seen = Row(c, work[c].item)
    /\ work[c].pc = "text" \/ (work[c].pc = "save" /\ work[c].result # "SAME_URL") =>
            \A j \in Visible(c) : Row(c, j).url # Entry(c).url
    /\ work[c].pc = "save" /\ work[c].result = "NEW" =>
            \A j \in Visible(c) : ~Like(Row(c, j).hash, Entry(c).text)

(* A later state of an item keeps its variants.                            *)
Grown(old, new) ==
    /\ old.variants \subseteq new.variants
    /\ old.version <= new.version
    /\ old.version = new.version => old.hash = new.hash

(* The variants of an item are documents of other URLs.                    *)
OfOthers(row, docs) ==
    \A r \in row.variants : docs[r] # NoRow /\ docs[r].url # row.url

(* An item the session has stored resembles none that was there and that   *)
(* it has not revised.                                                     *)
BornUnlike(c, row) ==
    \A j \in ItemIds :
        items[j] # NoRow /\ Row(c, j).version = items[j].version
            => ~Like(items[j].hash, row.hash)

KnownRows(c) ==
    /\ \A i \in ItemIds : items[i] # NoRow => Grown(items[i], Row(c, i))
    /\ \A i \in Visible(c) : OfOthers(Row(c, i), Docs(c))
    /\ \A i \in ItemIds :
          items[i] = NoRow /\ txItems[c][i] # NoRow /\ txItems[c][i].version = 1
              => BornUnlike(c, txItems[c][i])

(* Without a document there is no transaction, and documents are new.      *)
Transaction(c) ==
    /\ ~Open(c) => \A i \in ItemIds : txItems[c][i] = NoRow
    /\ \A r \in RawIds : txRaws[c][r] # NoRow => raws[r] = NoRow

Stored == \A i \in ItemIds : items[i] # NoRow => OfOthers(items[i], raws)

Solo(c) == KnownEntry(c) /\ KnownRows(c) /\ Transaction(c)

SoloInv == Stored /\ \A c \in Crawlers : Solo(c)

(* Nothing is stored at first.                                             *)
LEMMA SoloInit == Init => SoloInv
BY DEF Init, SoloInv, Stored, Solo, KnownEntry, KnownRows, Transaction, Idle,
       Row, Visible

(* Steps that write nothing.                                               *)
LEMMA QuietSolo ==
    ASSUME SoloInv, Alone, NEW c \in Crawlers, UNCHANGED <<tables, txs>>,
           KnownEntry(c)'
    PROVE  SoloInv'
<1>1. Stored'
      BY DEF SoloInv, Stored, OfOthers, tables
<1>2. KnownRows(c)'
      BY DEF SoloInv, Solo, KnownRows, Grown, OfOthers, BornUnlike, Row, Visible, Docs,
             RawRow, tables, txs
<1>3. Transaction(c)'
      BY DEF SoloInv, Solo, Transaction, Open, tables, txs
<1>4. QED
      BY <1>1, <1>2, <1>3 DEF SoloInv, Solo, Alone

(* The session is between two entries.                                     *)
LEMMA IdleKnows ==
    ASSUME NEW c \in Crawlers, work'[c].pc \in {"fetch", "url"}
    PROVE  KnownEntry(c)'
BY DEF KnownEntry

(* classify reads what there is.                                           *)
LEMMA ProbeSolo ==
    ASSUME TypeInv, SoloInv, Alone, NEW c \in Crawlers,
           ProbeUrl(c) \/ ProbeText(c) \/ Reject(c) \/ Unchanged(c)
    PROVE  SoloInv'
<1>1. UNCHANGED <<tables, txs>>
      BY DEF ProbeUrl, ProbeText, Reject, Unchanged
<1>2. /\ \A j : Row(c, j)' = Row(c, j) /\ \A r : RawRow(c, r)' = RawRow(c, r)
      /\ Visible(c)' = Visible(c)
      BY <1>1 DEF Row, RawRow, Visible, tables, txs
<1>3. ASSUME NEW i \in Visible(c) \cup {NoRow}, NEW result \in Results,
             Decide(c, result, i), work[c].pc # "fetch",
             result = "NEW" <=> i = NoRow,
             result # "SAME_URL" =>
                \A j \in Visible(c) : Row(c, j).url # Entry(c).url,
             result = "NEW" =>
                \A j \in Visible(c) : ~Like(Row(c, j).hash, Entry(c).text)
      PROVE  KnownEntry(c)'
  <2> DEFINE entry == [pc |-> "save", raw |-> work[c].raw, result |-> result,
                       item |-> i, seen |-> IF i = NoRow THEN NoRow ELSE Row(c, i)]
  <2>1. /\ entry.pc = "save" /\ entry.raw = work[c].raw /\ entry.result = result
        /\ entry.item = i
        /\ i # NoRow => entry.seen = Row(c, i)
        OBVIOUS
  <2>2. work'[c] = entry
        BY <1>3 DEF Decide, TypeInv, TypeOK
  <2> HIDE DEF entry
  <2>3. Entry(c)' = Entry(c)
        BY <1>2, <2>1, <2>2 DEF Entry
  <2>4. Row(c, work[c].item)' = Row(c, i)
        BY <1>1, <2>1, <2>2 DEF Row, tables, txs
  <2>5. /\ work'[c].pc = "save" /\ work'[c].result = result
        /\ result # "NEW" => work'[c].seen = Row(c, i)
        BY <1>3, <2>1, <2>2
  <2>6. QED
        BY <1>2, <1>3, <2>3, <2>4, <2>5 DEF KnownEntry
<1>4. ASSUME NEW i \in ItemIds PROVE i # NoRow
      BY NoRowAssumption
<1>5. CASE ProbeUrl(c)
  <2>1. ASSUME NEW i \in SameUrl(c), Decide(c, "SAME_URL", i) PROVE KnownEntry(c)'
        BY <1>3, <1>4, <1>5, <2>1 DEF SameUrl, Visible, Results, ProbeUrl
  <2>2. ASSUME SameUrl(c) = {}, work' = [work EXCEPT ![c] = [@ EXCEPT !.pc = "text"]]
        PROVE  KnownEntry(c)'
    <3>1. work'[c].pc = "text" /\ work'[c].raw = work[c].raw
          BY <2>2 DEF TypeInv, TypeOK, Work
    <3>2. Entry(c)' = Entry(c)
          BY <1>2, <3>1 DEF Entry
    <3>3. QED
          BY <1>2, <2>2, <3>1, <3>2 DEF KnownEntry, SameUrl
  <2>3. QED
        BY <1>1, <1>5, <2>1, <2>2, QuietSolo DEF ProbeUrl
<1>6. CASE ProbeText(c)
  <2>1. /\ work[c].pc = "text"
        /\ \A j \in Visible(c) : Row(c, j).url # Entry(c).url
        BY <1>6 DEF ProbeText, SoloInv, Solo, KnownEntry
  <2>2. ASSUME NEW i \in Visible(c), Decide(c, "LIKE", i) PROVE KnownEntry(c)'
        BY <1>3, <1>4, <2>1, <2>2 DEF Visible, Results
  <2>3. ASSUME Decide(c, "NEW", NoRow),
               \A j \in Visible(c) : ~Like(Row(c, j).hash, Entry(c).text)
        PROVE  KnownEntry(c)'
        BY <1>3, <2>1, <2>3 DEF Results
  <2>4. QED
        BY <1>1, <1>6, <2>2, <2>3, QuietSolo DEF ProbeText
<1>7. CASE Reject(c) \/ Unchanged(c)
  <2>1. work'[c].pc = "fetch"
        BY <1>7 DEF Reject, Unchanged, Done, Idle, TypeInv, TypeOK
  <2>2. QED
        BY <1>1, <2>1, IdleKnows, QuietSolo
<1>8. QED
      BY <1>5, <1>6, <1>7

(* A document more.                                                        *)
LEMMA TakeSolo ==
    ASSUME TypeInv, SoloInv, Alone, NEW c \in Crawlers, TakeEntry(c)
    PROVE  SoloInv'
<1>1. PICK r \in RawIds, u \in Urls, t \in Texts, page \in BOOLEAN :
            /\ raws[r] = NoRow
            /\ \A d \in Crawlers : txRaws[d][r] = NoRow
            /\ txRaws' = [txRaws EXCEPT
                    ![c] = [@ EXCEPT ![r] = [url |-> u, text |-> t, html |-> page]]]
            /\ work' = [work EXCEPT ![c] = [Idle EXCEPT !.pc = "url", !.raw = r]]
      BY DEF TakeEntry
<1> DEFINE row == [url |-> u, text |-> t, html |-> page]
<1>2. row \in Raw /\ row # NoRow
      BY NoRowAssumption DEF Raw
<1>3. /\ txRaws'[c][r] = row
      /\ \A q \in RawIds \ {r} : txRaws'[c][q] = txRaws[c][q]
      BY <1>1 DEF TypeInv, TypeOK
<1> HIDE DEF row
<1>4. UNCHANGED <<tables, txItems>>
      BY DEF TakeEntry
<1>5. KnownEntry(c)'
  <2>1. work'[c].pc = "url"
        BY <1>1 DEF Idle, TypeInv, TypeOK
  <2>2. QED
        BY <2>1, IdleKnows
<1>6. /\ \A j : Row(c, j)' = Row(c, j)
      /\ Visible(c)' = Visible(c)
      BY <1>4 DEF Row, Visible, tables
<1>7. \A q \in RawIds : RawRow(c, q) # NoRow => RawRow(c, q)' = RawRow(c, q)
      BY <1>1, <1>3, <1>4 DEF RawRow, tables
<1>8. KnownRows(c)'
  <2>1. ASSUME NEW i \in Visible(c) PROVE OfOthers(Row(c, i)', Docs(c)')
    <3>1. OfOthers(Row(c, i), Docs(c)) /\ Row(c, i) \in Item
          BY RowType DEF SoloInv, Solo, KnownRows, TypeInv, Visible
    <3>2. QED
          BY <1>6, <1>7, <3>1 DEF OfOthers, Docs, Item
  <2>2. \A i \in ItemIds : items'[i] # NoRow => Grown(items'[i], Row(c, i)')
        BY <1>4, <1>6 DEF SoloInv, Solo, KnownRows, tables
  <2>3. QED
        BY <1>4, <1>6, <2>1, <2>2 DEF SoloInv, Solo, KnownRows, BornUnlike, tables
<1>9. Transaction(c)'
  <2>1. Open(c)'
        BY <1>2, <1>3 DEF Open
  <2>2. QED
        BY <1>1, <1>3, <1>4, <2>1 DEF SoloInv, Solo, Transaction, tables
<1>10. Stored'
      BY <1>4 DEF SoloInv, Stored, tables
<1>11. QED
      BY <1>5, <1>8, <1>9, <1>10 DEF SoloInv, Solo, Alone

(* A row written.                                                          *)
LEMMA FlushSolo ==
    ASSUME TypeInv, SoloInv, Alone, NEW c \in Crawlers, NEW i \in ItemIds,
           NEW row \in Item, NEW newVersions, NEW newEvents,
           Flush(c, i, row, newVersions, newEvents),
           work[c].pc # "fetch",
           Row(c, i) # NoRow => Grown(Row(c, i), row),
           OfOthers(row, Docs(c)),
           items[i] = NoRow /\ row.version = 1 => BornUnlike(c, row)
    PROVE  SoloInv'
<1>1. /\ txItems'[c][i] = row
      /\ \A j \in ItemIds \ {i} : txItems'[c][j] = txItems[c][j]
      /\ UNCHANGED <<tables, txRaws>>
      /\ work'[c].pc = "fetch"
      BY DEF Flush, Done, Idle, TypeInv, TypeOK
<1>2. row # NoRow
      BY NoRowAssumption
<1>3. /\ Row(c, i)' = row
      /\ \A j \in ItemIds \ {i} : Row(c, j)' = Row(c, j)
      BY <1>1, <1>2 DEF Row, tables
<1>4. Docs(c)' = Docs(c) /\ items' = items /\ raws' = raws
      BY <1>1 DEF Docs, RawRow, tables
<1>5. ASSUME NEW j \in ItemIds, items[j] # NoRow
      PROVE  /\ Grown(items[j], Row(c, j)')
             /\ Row(c, j)'.version = items[j].version => Row(c, j).version = items[j].version
  <2>1. Row(c, j) # NoRow /\ items[j] \in Item /\ Row(c, j) \in Item
        BY <1>5, RowType DEF Row, TypeInv, TypeOK
  <2>2. Grown(items[j], Row(c, j))
        BY <1>5 DEF SoloInv, Solo, KnownRows
  <2>3. CASE j # i
        BY <1>3, <2>2, <2>3
  <2>4. CASE j = i
        BY <1>3, <2>1, <2>2, <2>4 DEF Grown, Item
  <2>5. QED
        BY <2>3, <2>4
<1>6. ASSUME NEW j \in Visible(c)' PROVE OfOthers(Row(c, j)', Docs(c)')
  <2>1. CASE j = i
        BY <1>3, <1>4, <2>1
  <2>2. CASE j # i
        BY <1>3, <1>4, <1>6, <2>2 DEF Visible, SoloInv, Solo, KnownRows
  <2>3. QED
        BY <2>1, <2>2
<1>7. ASSUME NEW j \in ItemIds,
             items[j] = NoRow, txItems'[c][j] # NoRow, txItems'[c][j].version = 1
      PROVE  BornUnlike(c, txItems[c][j])'
  <2>1. BornUnlike(c, txItems'[c][j])
        BY <1>1, <1>7 DEF SoloInv, Solo, KnownRows
  <2>2. QED
        BY <1>4, <1>5, <2>1 DEF BornUnlike
<1>8. KnownRows(c)'
      BY <1>4, <1>5, <1>6, <1>7 DEF KnownRows
<1>9. Transaction(c)'
  <2>1. Open(c)'
        BY <1>1 DEF Open, TypeInv, WorkOK
  <2>2. QED
        BY <1>1, <1>4, <2>1 DEF SoloInv, Solo, Transaction
<1>10. Stored'
      BY <1>4 DEF SoloInv, Stored
<1>11. QED
      BY <1>1, <1>8, <1>9, <1>10, IdleKnows DEF SoloInv, Solo, Alone

(* A changed page: the next version.                                       *)
LEMMA ReviseSolo ==
    ASSUME TypeInv, SoloInv, Alone, NEW c \in Crawlers, Revise(c)
    PROVE  SoloInv'
<1> DEFINE i == work[c].item
           v == work[c].seen.version + 1
           h == Entry(c).text
           r == work[c].raw
           row == Revised(c, i, v, h, r)
           new == {[item |-> i, version |-> v, hash |-> h, raw |-> r]}
           events == Emitted(c, i, v, h)
<1>1. /\ work[c].pc = "save" /\ work[c].result = "SAME_URL"
      /\ Flush(c, i, row, new, events)
      BY DEF Revise, Saving
<1>2. /\ i \in ItemIds /\ Row(c, i) \in Item /\ h \in Texts /\ r \in RawIds
      /\ Row(c, i) # NoRow
      BY <1>1, SaveType, NoRowAssumption DEF TypeInv
<1>3. work[c].seen = Row(c, i)
      BY <1>1 DEF SoloInv, Solo, KnownEntry
<1>4. OfOthers(Row(c, i), Docs(c))
      BY <1>2 DEF SoloInv, Solo, KnownRows, Visible
<1>5. v = Row(c, i).version + 1 /\ v \in Nat \ {0, 1}
      BY <1>2, <1>3 DEF Item
<1> HIDE DEF i, v, h, r, new, events
<1>6. /\ row \in Item /\ row.version = v /\ row.url = Row(c, i).url
      /\ row.variants = Row(c, i).variants
      BY <1>2, <1>5 DEF Item, Revised
<1> HIDE DEF row
<1>7. Grown(Row(c, i), row) /\ OfOthers(row, Docs(c)) /\ row.version # 1
      BY <1>2, <1>4, <1>5, <1>6 DEF Grown, OfOthers, Item
<1>8. QED
      BY <1>1, <1>2, <1>6, <1>7, FlushSolo

(* An update that keeps the text.                                          *)
LEMMA TouchSolo ==
    ASSUME TypeInv, SoloInv, Alone, NEW c \in Crawlers, NEW i \in ItemIds,
           Row(c, i) # NoRow, work[c].pc = "save",
           NEW row \in Item,
           row.version = Row(c, i).version, row.hash = Row(c, i).hash,
           row.url = Row(c, i).url,
           Row(c, i).variants \subseteq row.variants,
           \A r \in row.variants \ Row(c, i).variants :
                Docs(c)[r] # NoRow /\ Docs(c)[r].url # row.url,
           Flush(c, i, row, {}, {})
    PROVE  SoloInv'
<1>1. Row(c, i) \in Item
      BY RowType DEF TypeInv
<1>2. OfOthers(row, Docs(c))
  <2>1. OfOthers(Row(c, i), Docs(c))
        BY DEF SoloInv, Solo, KnownRows, Visible
  <2>2. QED
        BY <2>1 DEF OfOthers
<1>3. Grown(Row(c, i), row)
      BY <1>1 DEF Grown, Item
<1>4. ASSUME items[i] = NoRow, row.version = 1 PROVE BornUnlike(c, row)
  <2>1. Row(c, i) = txItems[c][i]
        BY <1>4 DEF Row
  <2>2. BornUnlike(c, Row(c, i))
        BY <1>4, <2>1 DEF SoloInv, Solo, KnownRows
  <2>3. QED
        BY <2>2 DEF BornUnlike
<1>5. QED
      BY <1>2, <1>3, <1>4, FlushSolo

(* A trend entry: the list that was read is the list there is.             *)
LEMMA ResightSolo ==
    ASSUME TypeInv, SoloInv, Alone, NEW c \in Crawlers, Resight(c)
    PROVE  SoloInv'
<1> DEFINE i == work[c].item
           row(m) == [Row(c, i) EXCEPT !.raw = work[c].raw, !.variants = m]
<1>1. PICK m \in {work[c].seen.variants, Row(c, i).variants} :
            Flush(c, i, row(m), {}, {})
      BY DEF Resight
<1>2. work[c].pc = "save" /\ work[c].result = "SAME_URL"
      BY DEF Resight, Saving
<1>3. /\ i \in ItemIds /\ Row(c, i) \in Item /\ work[c].raw \in RawIds
      /\ Row(c, i).variants \subseteq RawIds /\ Row(c, i) # NoRow
      BY <1>2, SaveType, NoRowAssumption DEF TypeInv
<1>4. m = Row(c, i).variants
      BY <1>1, <1>2 DEF SoloInv, Solo, KnownEntry
<1> DEFINE new == row(m)
<1>5. m \in SUBSET RawIds /\ new = [Row(c, i) EXCEPT !.raw = work[c].raw, !.variants = m]
      BY <1>3, <1>4
<1>6. Flush(c, i, new, {}, {})
      BY <1>1
<1> HIDE DEF i, new
<1>7. /\ new \in Item
      /\ new.version = Row(c, i).version /\ new.hash = Row(c, i).hash
      /\ new.url = Row(c, i).url /\ new.variants = m
      BY <1>3, <1>5 DEF Item
<1>8. QED
      BY <1>2, <1>3, <1>4, <1>6, <1>7, TouchSolo

(* A variant more, of a URL no item has.                                   *)
LEMMA LinkSolo ==
    ASSUME TypeInv, SoloInv, Alone, NEW c \in Crawlers, Link(c)
    PROVE  SoloInv'
<1> DEFINE i == work[c].item
           m == work[c].seen.variants \cup {work[c].raw}
           row == Linked(c, i, m)
<1>1. /\ work[c].pc = "save" /\ work[c].result = "LIKE"
      /\ Flush(c, i, row, {}, {})
      BY DEF Link, Saving
<1>2. /\ i \in ItemIds /\ Row(c, i) \in Item /\ work[c].raw \in RawIds
      /\ Row(c, i).variants \subseteq RawIds /\ Row(c, i) # NoRow
      BY <1>1, SaveType, NoRowAssumption DEF TypeInv
<1>3. /\ work[c].seen = Row(c, i)
      /\ Row(c, i).url # Entry(c).url
      BY <1>1, <1>2 DEF SoloInv, Solo, KnownEntry, Visible
<1>4. /\ Docs(c)[work[c].raw] = Entry(c)
      /\ Entry(c) # NoRow
  <2>1. Entry(c) \in Raw
        BY <1>1, EntryType DEF TypeInv
  <2>2. QED
        BY <1>2, <2>1, NoRowAssumption DEF Docs, Entry
<1>5. m = Row(c, i).variants \cup {work[c].raw} /\ m \subseteq RawIds
      BY <1>2, <1>3
<1> HIDE DEF i, m
<1>6. /\ row \in Item
      /\ row.version = Row(c, i).version /\ row.hash = Row(c, i).hash
      /\ row.url = Row(c, i).url /\ row.variants = m
      BY <1>2, <1>5, LinkRow DEF Linked
<1> HIDE DEF row
<1>7. QED
      BY <1>1, <1>2, <1>3, <1>4, <1>5, <1>6, TouchSolo

(* A new item, unlike those there are.                                     *)
LEMMA CreateSolo ==
    ASSUME TypeInv, SoloInv, Alone, NEW c \in Crawlers, Create(c)
    PROVE  SoloInv'
<1> DEFINE e == Entry(c)
           row == [url |-> e.url, hash |-> e.text, version |-> InitialVersion,
                   raw |-> work[c].raw, variants |-> {},
                   status |-> IF e.html THEN "WAIT_FILTER" ELSE "TREND"]
           first(i) == [item |-> i, version |-> 1, hash |-> e.text,
                        raw |-> work[c].raw]
           rows(i) == IF e.html THEN {first(i)} ELSE {}
<1>1. PICK i \in ItemIds :
            /\ items[i] = NoRow /\ \A d \in Crawlers : txItems[d][i] = NoRow
            /\ Flush(c, i, row, rows(i), Emitted(c, i, InitialVersion, e.text))
      BY DEF Create
<1>2. work[c].pc = "save" /\ work[c].result = "NEW"
      BY DEF Create, Saving
<1>3. e.url \in Urls /\ e.text \in Texts /\ work[c].raw \in RawIds
      BY <1>2, SaveType DEF TypeInv
<1>4. row \in Item /\ row.hash = e.text /\ row.variants = {}
      BY <1>3 DEF Item, InitialVersion
<1>5. \A j \in Visible(c) : ~Like(Row(c, j).hash, e.text)
      BY <1>2 DEF SoloInv, Solo, KnownEntry
<1> DEFINE new == rows(i)
           events == Emitted(c, i, InitialVersion, e.text)
<1> HIDE DEF e, row, new, events
<1>6. BornUnlike(c, row)
  <2> SUFFICES ASSUME NEW j \in ItemIds, items[j] # NoRow,
                      Row(c, j).version = items[j].version
               PROVE  ~Like(items[j].hash, row.hash)
      BY DEF BornUnlike
  <2>1. j \in Visible(c)
        BY DEF Visible, Row
  <2>2. Row(c, j).hash = items[j].hash
        BY DEF SoloInv, Solo, KnownRows, Grown
  <2>3. QED
        BY <1>4, <1>5, <2>1, <2>2
<1>7. Row(c, i) = NoRow
      BY <1>1 DEF Row
<1>8. OfOthers(row, Docs(c))
      BY <1>4 DEF OfOthers
<1>9. Flush(c, i, row, new, events)
      BY <1>1 DEF new, events
<1>10. QED
      BY <1>2, <1>4, <1>6, <1>7, <1>8, <1>9, FlushSolo

(* A transaction undone: what there is, is what is stored.                 *)
LEMMA DiscardSolo ==
    ASSUME TypeInv, SoloInv, Alone, NEW c \in Crawlers, Discard(c), UNCHANGED tables
    PROVE  SoloInv'
<1>1. /\ \A i \in ItemIds : txItems'[c][i] = NoRow
      /\ \A r \in RawIds : txRaws'[c][r] = NoRow
      /\ work'[c].pc = "fetch" /\ items' = items /\ raws' = raws
      BY DEF Discard, Idle, tables, TypeInv, TypeOK
<1>2. /\ \A i \in ItemIds : Row(c, i)' = items[i]
      /\ \A r \in RawIds : RawRow(c, r)' = raws[r]
      BY <1>1 DEF Row, RawRow
<1>3. KnownRows(c)'
  <2>1. ASSUME NEW i \in ItemIds, items[i] # NoRow PROVE Grown(items'[i], Row(c, i)')
    <3>1. items[i] \in Item
          BY <2>1 DEF TypeInv, TypeOK
    <3>2. QED
          BY <1>1, <1>2, <3>1 DEF Grown, Item
  <2>2. ASSUME NEW i \in ItemIds, items[i] # NoRow PROVE OfOthers(items[i], Docs(c)')
    <3>1. items[i] \in Item /\ OfOthers(items[i], raws)
          BY <2>2 DEF TypeInv, TypeOK, SoloInv, Stored
    <3>2. QED
          BY <1>2, <3>1 DEF OfOthers, Docs, Item
  <2>3. QED
        BY <1>1, <1>2, <2>1, <2>2 DEF KnownRows, Visible
<1>4. Transaction(c)' /\ Stored'
      BY <1>1 DEF Transaction, Open, SoloInv, Stored
<1>5. QED
      BY <1>1, <1>3, <1>4, IdleKnows DEF SoloInv, Solo, Alone

(* What a commit makes of the tables.                                      *)
LEMMA CommitRows ==
    ASSUME TypeInv, NEW c \in Crawlers, Commit(c)
    PROVE  /\ items' = [i \in ItemIds |-> Row(c, i)]
           /\ raws' = Docs(c)
           /\ Discard(c)
BY DEF Commit, Docs

(* A transaction committed: what there is becomes what is stored.          *)
LEMMA CommitSolo ==
    ASSUME TypeInv, SoloInv, Alone, NEW c \in Crawlers, Commit(c)
    PROVE  SoloInv'
<1>1. /\ \A i \in ItemIds : txItems'[c][i] = NoRow
      /\ \A r \in RawIds : txRaws'[c][r] = NoRow
      /\ work'[c].pc = "fetch"
      /\ \A i \in ItemIds : items'[i] = Row(c, i)
      /\ raws' = Docs(c)
      BY CommitRows DEF Discard, Idle, TypeInv, TypeOK
<1>2. /\ \A i \in ItemIds : Row(c, i)' = items'[i]
      /\ \A r \in RawIds : RawRow(c, r)' = raws'[r]
      BY <1>1 DEF Row, RawRow
<1>3. Stored'
      BY <1>1 DEF Stored, SoloInv, Solo, KnownRows, Visible
<1>4. KnownRows(c)'
  <2>1. ASSUME NEW i \in ItemIds, items'[i] # NoRow PROVE Grown(items'[i], Row(c, i)')
    <3>1. items'[i] \in Item
          BY <1>1, <2>1, RowType DEF TypeInv
    <3>2. QED
          BY <1>1, <1>2, <3>1 DEF Grown, Item
  <2>2. ASSUME NEW i \in ItemIds, items'[i] # NoRow PROVE OfOthers(items'[i], Docs(c)')
    <3>1. items'[i] \in Item /\ OfOthers(items'[i], raws')
          BY <1>1, <1>3, <2>2, RowType DEF TypeInv, Stored
    <3>2. QED
          BY <1>2, <3>1 DEF OfOthers, Docs, Item
  <2>3. QED
        BY <1>1, <1>2, <2>1, <2>2 DEF KnownRows, Visible
<1>5. Transaction(c)'
      BY <1>1 DEF Transaction, Open
<1>6. QED
      BY <1>1, <1>3, <1>4, <1>5, IdleKnows DEF SoloInv, Solo, Alone

(* A rebuild finds no transaction open and leaves URLs and variants.       *)
LEMMA RebuildSolo ==
    ASSUME TypeInv, SoloInv, NEW i \in ItemIds, Rebuild(i)
    PROVE  SoloInv'
<1>1. ASSUME NEW c \in Crawlers
      PROVE  /\ \A j \in ItemIds : Row(c, j) = items[j] /\ txItems'[c][j] = NoRow
             /\ work'[c].pc = "fetch" /\ ~Open(c)'
             /\ \A j \in ItemIds : Row(c, j)' = items'[j]
             /\ Docs(c)' = Docs(c)
  <2>1. ~Open(c) /\ UNCHANGED <<txs, work, raws>>
        BY RebuildRow DEF TypeInv
  <2>2. \A j \in ItemIds : txItems[c][j] = NoRow
        BY <2>1 DEF SoloInv, Solo, Transaction
  <2>3. work[c].pc = "fetch"
        BY <2>1 DEF TypeInv, WorkOK, Open
  <2>4. QED
        BY <2>1, <2>2, <2>3 DEF Open, Row, Docs, RawRow, txs
<1>2. ASSUME NEW j \in ItemIds, items'[j] # NoRow
      PROVE  /\ items'[j] \in Item /\ items[j] # NoRow
             /\ items'[j].variants = items[j].variants /\ items'[j].url = items[j].url
      BY <1>2, RebuildRow, NoRowAssumption DEF TypeInv, TypeOK
<1>3. raws' = raws /\ Stored'
  <2>1. raws' = raws
        BY RebuildRow DEF TypeInv
  <2>2. QED
        BY <1>2, <2>1 DEF SoloInv, Stored, OfOthers
<1>4. ASSUME NEW c \in Crawlers PROVE Solo(c)'
  <2>1. ASSUME NEW j \in ItemIds, items'[j] # NoRow
        PROVE  Grown(items'[j], Row(c, j)') /\ OfOthers(Row(c, j)', Docs(c)')
    <3>1. Row(c, j)' = items'[j] /\ items'[j] \in Item
          BY <1>1, <1>2, <2>1
    <3>2. OfOthers(items[j], Docs(c))
          BY <1>1, <1>2, <1>4, <2>1 DEF SoloInv, Solo, KnownRows, Visible
    <3>3. QED
          BY <1>1, <1>2, <2>1, <3>1, <3>2 DEF Grown, OfOthers, Item
  <2>2. KnownRows(c)'
        BY <1>1, <2>1 DEF KnownRows, Visible
  <2>3. Transaction(c)'
        BY <1>1, <1>3, RebuildRow DEF SoloInv, Solo, Transaction, TypeInv, txs
  <2>4. QED
        BY <1>1, <2>2, <2>3, IdleKnows DEF Solo
<1>5. QED
      BY <1>3, <1>4 DEF SoloInv

(* Every step of the crawler, and every rebuild between its crawls.        *)
LEMMA SoloStep ==
    ASSUME Alone
    PROVE  TypeInv /\ SoloInv /\ [RebuildNext]_vars => SoloInv'
<1> SUFFICES ASSUME TypeInv, SoloInv, [RebuildNext]_vars PROVE SoloInv'
    OBVIOUS
<1>1. ASSUME NEW c \in Crawlers, TakeEntry(c) PROVE SoloInv'
      BY <1>1, TakeSolo
<1>2. ASSUME NEW c \in Crawlers,
             ProbeUrl(c) \/ ProbeText(c) \/ Reject(c) \/ Unchanged(c)
      PROVE  SoloInv'
      BY <1>2, ProbeSolo
<1>3. ASSUME NEW c \in Crawlers, Revise(c) \/ Resight(c) \/ Link(c) \/ Create(c)
      PROVE  SoloInv'
      BY <1>3, ReviseSolo, ResightSolo, LinkSolo, CreateSolo
<1>4. ASSUME NEW c \in Crawlers, Abort(c) PROVE SoloInv'
      BY <1>4, DiscardSolo DEF Abort
<1>5. ASSUME NEW c \in Crawlers, Commit(c) PROVE SoloInv'
      BY <1>5, CommitSolo
<1>6. ASSUME NEW i \in ItemIds, Rebuild(i) PROVE SoloInv'
      BY <1>6, RebuildSolo
<1>7. CASE UNCHANGED vars
  <2>1. \A c \in Crawlers : KnownEntry(c)'
        BY <1>7 DEF vars, SoloInv, Solo, KnownEntry, Row, Visible, Entry, RawRow
  <2>2. CASE Crawlers = {}
        BY <1>7, <2>2 DEF vars, SoloInv, Stored, OfOthers
  <2>3. ASSUME NEW c \in Crawlers PROVE SoloInv'
        BY <1>7, <2>1, QuietSolo DEF vars, tables, txs
  <2>4. QED
        BY <2>2, <2>3
<1>8. QED
      BY <1>1, <1>2, <1>3, <1>4, <1>5, <1>6, <1>7 DEF RebuildNext, Next

(* The invariant holds throughout.                                        *)
LEMMA SoloCorrect ==
    ASSUME Alone
    PROVE  RebuildSpec => [](TypeInv /\ SoloInv)
<1>1. Init => TypeInv /\ SoloInv
      BY TypeInit, SoloInit
<1>2. TypeInv /\ SoloInv /\ [RebuildNext]_vars => (TypeInv /\ SoloInv)'
      BY RebuildType, SoloStep
<1>3. QED
      BY <1>1, <1>2, PTL DEF RebuildSpec

(* What a step of one crawler does to the committed items.                 *)
LEMMA SoloItems ==
    ASSUME TypeInv, SoloInv, [RebuildNext]_vars
    PROVE  \/ items' = items
           \/ \E i \in ItemIds : Rebuild(i)
           \/ \E c \in Crawlers : Commit(c)
<1>1. ASSUME NEW c \in Crawlers,
             \/ TakeEntry(c) \/ Reject(c) \/ ProbeUrl(c) \/ ProbeText(c)
             \/ Unchanged(c) \/ Revise(c) \/ Resight(c) \/ Link(c) \/ Create(c)
             \/ Abort(c)
      PROVE  items' = items
      BY <1>1 DEF TakeEntry, Reject, ProbeUrl, ProbeText, Unchanged, Revise,
                  Resight, Link, Create, Abort, Flush, tables
<1>2. QED
      BY <1>1 DEF RebuildNext, Next, vars

(* With one crawler no item has a document of its own URL among its        *)
(* variants, rebuilds or not (dedup.py:82-98).                             *)
THEOREM OthersOnly == ASSUME Alone PROVE RebuildSpec => []VariantsAreOthers
<1>1. TypeInv /\ SoloInv => VariantsAreOthers
      BY DEF SoloInv, Stored, OfOthers, VariantsAreOthers, Items
<1>2. QED
      BY <1>1, SoloCorrect, PTL

(* With one crawler a variant stays linked, whatever is linked, revised,   *)
(* re-sighted or rebuilt after it (canonical.py:95-101, 155, 168-174).     *)
THEOREM VariantsStay == ASSUME Alone PROVE RebuildSpec => VariantsNeverLost
<1>1. ASSUME TypeInv, SoloInv, [RebuildNext]_vars, NEW i \in Items
      PROVE  items[i].variants \subseteq items'[i].variants
  <2>1. i \in ItemIds /\ items[i] # NoRow
        BY DEF Items
  <2>2. ASSUME NEW j \in ItemIds, Rebuild(j)
        PROVE  items[i].variants \subseteq items'[i].variants
    <3>1. items'[i].variants = items[i].variants
          BY <2>1, <2>2, RebuildRow, <1>1 DEF TypeInv
    <3>2. QED
          BY <3>1
  <2>3. ASSUME NEW c \in Crawlers, Commit(c)
        PROVE  items[i].variants \subseteq items'[i].variants
        BY <1>1, <2>1, <2>3, CommitRows DEF SoloInv, Solo, KnownRows, Grown
  <2>4. QED
        BY <1>1, <2>2, <2>3, SoloItems
<1>2. TypeInv /\ SoloInv /\ [RebuildNext]_vars
        => [\A i \in Items : items[i].variants \subseteq items'[i].variants]_vars
      BY <1>1
<1>3. QED
      BY <1>2, SoloCorrect, PTL DEF RebuildSpec, VariantsNeverLost

(* With one crawler a new item is unlike all that were there when it was   *)
(* stored (dedup.py:86-98, canonical.py:88-104).                           *)
THEOREM NoneBornTwice == ASSUME Alone PROVE RebuildSpec => NoDuplicateBirth
<1> DEFINE Born(i, j) ==
            items[i] = NoRow /\ items'[i] # NoRow /\ items'[i].version = 1
                /\ items'[j] = items[j]
           Unlike(i, j) == /\ items'[i].hash # items[j].hash
                           /\ <<items'[i].hash, items[j].hash>> \notin Near
<1>1. ASSUME TypeInv, SoloInv, [RebuildNext]_vars,
             NEW i \in ItemIds, NEW j \in Items, Born(i, j)
      PROVE  Unlike(i, j)
  <2>1. j \in ItemIds /\ items[j] # NoRow
        BY DEF Items
  <2>2. ASSUME NEW k \in ItemIds, Rebuild(k) PROVE FALSE
        BY <1>1, <2>2, RebuildRow, NoRowAssumption DEF TypeInv
  <2>3. PICK c \in Crawlers : Commit(c)
        BY <1>1, <2>2, SoloItems
  <2>4. items'[i] = Row(c, i) /\ items'[j] = Row(c, j)
        BY <1>1, <2>1, <2>3, CommitRows
  <2>5. txItems[c][i] # NoRow /\ Row(c, i) = txItems[c][i]
        BY <1>1, <2>4 DEF Row
  <2>6. BornUnlike(c, Row(c, i))
        BY <1>1, <2>4, <2>5 DEF SoloInv, Solo, KnownRows
  <2>7. ~Like(items[j].hash, Row(c, i).hash)
        BY <1>1, <2>1, <2>4, <2>6 DEF BornUnlike
  <2>8. ASSUME NEW t, NEW u, <<t, u>> \in Near PROVE <<u, t>> \in Near
    <3>1. <<t, u>>[1] = t /\ <<t, u>>[2] = u
          OBVIOUS
    <3>2. QED
          BY <2>8, <3>1, NearAssumption
  <2>9. QED
        BY <2>4, <2>7, <2>8 DEF Like
<1>2. TypeInv /\ SoloInv /\ [RebuildNext]_vars
        => [\A i \in ItemIds, j \in Items :
                items[i] = NoRow /\ items'[i] # NoRow /\ items'[i].version = 1
                  /\ items'[j] = items[j]
                      => items'[i].hash # items[j].hash
                         /\ <<items'[i].hash, items[j].hash>> \notin Near]_vars
      BY <1>1
<1>3. QED
      BY <1>2, SoloCorrect, PTL DEF RebuildSpec, NoDuplicateBirth

-----------------------------------------------------------------------------
(* From the crawls to L1: Platform.                                        *)

(* The rows of the outbox table that are there.                            *)
Live(e) == stage[e] \in {"open", "committed"}

(* Ids are taken in order, and a row that is there has its event.          *)
IdsOK ==
    /\ payload \in [Ids -> Event \cup {NoRow}]
    /\ stage \in [Ids -> {"free", "open", "committed", "gone"}]
    /\ \A e \in Ids : payload[e] = NoRow <=> ~Live(e)
    /\ \A e, f \in Ids : f < e /\ stage[f] = "free" => stage[e] = "free"

(* The rows are the events of Ingest: those of the outbox and those of the *)
(* open transactions.                                                      *)
RowsOK ==
    /\ \A e \in Ids : stage[e] = "committed" => payload[e] \in outbox
    /\ \A x \in outbox : \E e \in Ids : stage[e] = "committed" /\ payload[e] = x
    /\ \A e \in Ids : stage[e] = "open" =>
          \E c \in Crawlers : payload[e] \in txEvents[c]
    /\ \A c \in Crawlers : \A x \in txEvents[c] :
          \E e \in Ids : stage[e] = "open" /\ payload[e] = x

(* Of one item, ids and versions have the same order.                      *)
InOrder ==
    \A e, f \in Ids :
        Live(e) /\ Live(f) /\ payload[e].item = payload[f].item /\ e < f
            => payload[e].version < payload[f].version

(* What L1 has of an item has no holes but for rows marked published.      *)
HandedOK ==
    /\ \A e \in handed \cup printed : e \in Ids /\ stage[e] = "committed"
    /\ struck \subseteq handed \cup printed
    /\ \A f \in handed, e \in Ids :
          stage[e] = "committed" /\ payload[e].item = payload[f].item
            /\ payload[e].version < payload[f].version => e \in handed \cup struck

PlatformInv == IdsOK /\ RowsOK /\ InOrder /\ HandedOK

(* What the crawls keep, with or without ids and a relay.                  *)
CrawlInv == TypeInv /\ HistoryInv /\ Shows /\ ChainInv

(* It holds of empty tables ...                                            *)
LEMMA CrawlInvInit == Init => CrawlInv
BY TypeInit, HistoryInit, ShowsInit, ChainInit DEF CrawlInv

(* ... and after every step of a crawl.                                    *)
LEMMA CrawlInvStep == CrawlInv /\ [Next]_vars => CrawlInv'
BY TypeStep, HistoryStep, ShowsStep, ChainStep DEF CrawlInv

(* Open transactions have events of different items: they hold the rows.   *)
LEMMA SessionsApart ==
    ASSUME TypeOK, HistoryInv, NEW c \in Crawlers, NEW d \in Crawlers, c # d,
           NEW x \in txEvents[c], NEW y \in txEvents[d]
    PROVE  x.item # y.item
<1>1. x.item \in ItemIds /\ y.item \in ItemIds
      BY DEF TypeOK, Event
<1>2. txItems[c][x.item] # NoRow /\ txItems[d][y.item] # NoRow
      BY <1>1 DEF HistoryInv, Pending, Silent
<1>3. QED
      BY <1>1, <1>2 DEF HistoryInv, LocksDisjoint

(* A revision and a new item emit one event, the latest of its item: the   *)
(* session that emits holds the row of the item, or nobody has seen it yet *)
(* (canonical.py:65-86, 104-133; outbox.py:15-24).                         *)
LEMMA EmitsLatest ==
    ASSUME TypeOK, WorkOK, HistoryInv, NEW c \in Crawlers, Revise(c) \/ Create(c)
    PROVE  \E x \in Event :
              /\ txEvents' = [txEvents EXCEPT ![c] = @ \cup {x}]
              /\ outbox' = outbox
              /\ \A d \in Crawlers : \A y \in outbox \cup txEvents[d] :
                    y.item = x.item => y.version < x.version
<1>1. ASSUME Revise(c)
      PROVE  \E x \in Event :
                /\ txEvents' = [txEvents EXCEPT ![c] = @ \cup {x}]
                /\ outbox' = outbox
                /\ \A d \in Crawlers : \A y \in outbox \cup txEvents[d] :
                      y.item = x.item => y.version < x.version
  <2> DEFINE i == work[c].item
             v == work[c].seen.version + 1
             h == Entry(c).text
             x == [item |-> i, version |-> v, hash |-> h]
  <2>1. /\ i \in ItemIds /\ h \in Texts
        /\ Row(c, i).version \in Nat /\ v \in Nat /\ v = Row(c, i).version + 1
        /\ Recorded(Row(c, i), i, outbox \cup txEvents[c],
                                  versions \cup txVersions[c])
        /\ Emitted(c, i, v, h) = {x}
        BY <1>1, ReviseFacts
  <2>2. /\ Unlocked(c, i)
        /\ txEvents' = [txEvents EXCEPT ![c] = @ \cup {x}]
        /\ outbox' = outbox
        BY <1>1, <2>1 DEF Revise, Flush, tables
  <2>3. x \in Event /\ x.item = i /\ x.version = v
        BY <2>1 DEF Event
  <2> HIDE DEF i, v, h, x
  <2>4. \A d \in Crawlers \ {c} : \A y \in txEvents[d] : y.item # i
        BY <2>1, <2>2 DEF Unlocked, HistoryInv, Pending, Silent
  <2>5. \A y \in outbox \cup txEvents[c] : y.item = i => y.version < v
        BY <2>1 DEF Recorded
  <2>6. QED
        BY <2>2, <2>3, <2>4, <2>5
<1>2. ASSUME Create(c)
      PROVE  \E x \in Event :
                /\ txEvents' = [txEvents EXCEPT ![c] = @ \cup {x}]
                /\ outbox' = outbox
                /\ \A d \in Crawlers : \A y \in outbox \cup txEvents[d] :
                      y.item = x.item => y.version < x.version
  <2> DEFINE h == Entry(c).text
             x(i) == [item |-> i, version |-> 1, hash |-> h]
  <2>1. PICK i \in ItemIds :
            /\ items[i] = NoRow
            /\ \A d \in Crawlers : txItems[d][i] = NoRow
            /\ txEvents' = [txEvents EXCEPT
                              ![c] = @ \cup Emitted(c, i, InitialVersion, h)]
            /\ outbox' = outbox
        BY <1>2 DEF Create, Flush, tables
  <2>2. \A d \in Crawlers : \A y \in outbox \cup txEvents[d] : y.item # i
        BY <2>1 DEF HistoryInv, Committed, Pending, Silent
  <2>3. Emitted(c, i, InitialVersion, h) = {x(i)}
        BY <2>2 DEF Emitted, InitialVersion
  <2>4. h \in Texts
        BY <1>2, SaveType DEF Create, Saving
  <2>5. x(i) \in Event /\ x(i).item = i
        BY <2>4 DEF Event
  <2> HIDE DEF h, x
  <2>6. QED
        BY <2>1, <2>2, <2>3, <2>5
<1>3. QED
      BY <1>1, <1>2

(* The event gets the next id, which is later than all that are taken.     *)
LEMMA NumberRow ==
    ASSUME IdsOK, NEW c \in Crawlers, NEW x, x \notin txEvents[c],
           txEvents'[c] = txEvents[c] \cup {x}, Number(c)
    PROVE  \E e \in Ids :
              /\ stage[e] = "free"
              /\ \A f \in Ids : f # e => (stage[f] # "free" <=> f < e)
              /\ payload' = [payload EXCEPT ![e] = x]
              /\ stage' = [stage EXCEPT ![e] = "open"]
<1> DEFINE new == txEvents'[c] \ txEvents[c]
<1>1. new = {x}
      OBVIOUS
<1>2. /\ payload' = [e \in Ids |-> IF NextFree(e) /\ new # {}
                                 THEN CHOOSE y \in new : TRUE ELSE payload[e]]
      /\ stage' = [e \in Ids |-> IF NextFree(e) /\ new # {}
                                 THEN "open" ELSE stage[e]]
      BY DEF Number
<1> HIDE DEF new
<1>3. (CHOOSE y \in new : TRUE) = x
      BY <1>1
<1>4. PICK e \in Ids : NextFree(e)
      BY DEF Number
<1>5. \A f \in Ids : f # e => (stage[f] # "free" <=> f < e)
      BY <1>4, PlatformAssumption DEF NextFree, Ids, IdsOK
<1>6. \A f \in Ids : NextFree(f) <=> f = e
      BY <1>4, <1>5, PlatformAssumption DEF NextFree, Ids
<1>7. /\ payload' = [payload EXCEPT ![e] = x]
      /\ stage' = [stage EXCEPT ![e] = "open"]
      BY <1>1, <1>2, <1>3, <1>6 DEF IdsOK
<1>8. QED
      BY <1>4, <1>5, <1>7 DEF NextFree

(* The versions of an item whose events are not committed come after those *)
(* that are (canonical.py:65-86).                                          *)
LEMMA OpenLater ==
    ASSUME TypeOK, HistoryInv, IdsOK, RowsOK, InOrder,
           NEW c \in Crawlers, NEW x \in txEvents[c]
    PROVE  /\ x.item \in ItemIds /\ txItems[c][x.item] # NoRow
           /\ x.version \in 1 .. txItems[c][x.item].version
           /\ items[x.item] # NoRow => x.version > items[x.item].version
<1> DEFINE i == x.item
<1>1. x \in Event /\ i \in ItemIds /\ x.version \in Nat
      BY DEF TypeOK, Event
<1>2. txItems[c][i] # NoRow
      BY <1>1 DEF HistoryInv, Pending, Silent
<1>3. x.version \in 1 .. txItems[c][i].version
      BY <1>1, <1>2 DEF HistoryInv, Pending, Recorded
<1>4. ASSUME items[i] # NoRow, x.version <= items[i].version PROVE FALSE
  <2>1. items[i].version \in Nat
        BY <1>1, <1>4 DEF TypeOK, Item
  <2>2. x.version \in 1 .. items[i].version
        BY <1>1, <1>3, <1>4, <2>1
  <2>3. PICK y \in outbox : y.item = i /\ y.version = x.version
        BY <1>1, <1>4, <2>2 DEF HistoryInv, Committed, Recorded
  <2>4. PICK e \in Ids : stage[e] = "open" /\ payload[e] = x
        BY DEF RowsOK
  <2>5. PICK f \in Ids : stage[f] = "committed" /\ payload[f] = y
        BY <2>3 DEF RowsOK
  <2>6. e # f /\ Live(e) /\ Live(f)
        BY <2>4, <2>5 DEF Live
  <2>7. e < f \/ f < e
        BY <2>6, PlatformAssumption DEF Ids
  <2>8. QED
        BY <1>1, <2>3, <2>4, <2>5, <2>6, <2>7 DEF InOrder
<1>5. items[i] # NoRow => items[i].version \in Nat
      BY <1>1 DEF TypeOK, Item
<1>6. QED
      BY <1>1, <1>2, <1>3, <1>4, <1>5

(* Before the first crawl there are no rows.                               *)
LEMMA PlatformInvInit == PlatformInit => PlatformInv
BY PlatformAssumption
DEF PlatformInit, Init, PlatformInv, IdsOK, RowsOK, InOrder, HandedOK, Live, Ids

(* The row of a new event is the last of its item.                         *)
LEMMA NumberInv ==
    ASSUME TypeOK, WorkOK, HistoryInv, PlatformInv, NEW c \in Crawlers,
           Revise(c) \/ Create(c), Number(c), UNCHANGED <<handed, printed, struck>>
    PROVE  PlatformInv'
<1>1. PICK x \in Event :
          /\ txEvents' = [txEvents EXCEPT ![c] = @ \cup {x}]
          /\ outbox' = outbox
          /\ \A d \in Crawlers : \A y \in outbox \cup txEvents[d] :
                y.item = x.item => y.version < x.version
      BY EmitsLatest
<1>2. /\ x.version \in Nat /\ x # NoRow
      /\ \A d \in Crawlers : txEvents[d] \subseteq txEvents'[d]
      /\ txEvents'[c] = txEvents[c] \cup {x}
      /\ \A d \in Crawlers \ {c} : txEvents'[d] = txEvents[d]
      BY <1>1, PlatformAssumption DEF TypeOK, Event
<1>3. x \notin txEvents[c]
      BY <1>1, <1>2
<1>4. PICK e \in Ids :
          /\ stage[e] = "free"
          /\ \A f \in Ids : f # e => (stage[f] # "free" <=> f < e)
          /\ payload' = [payload EXCEPT ![e] = x]
          /\ stage' = [stage EXCEPT ![e] = "open"]
      BY <1>2, <1>3, NumberRow DEF PlatformInv
<1>5. /\ payload'[e] = x /\ stage'[e] = "open" /\ Live(e)'
      /\ \A f \in Ids \ {e} : /\ payload'[f] = payload[f] /\ stage'[f] = stage[f]
                              /\ Live(f)' <=> Live(f)
      BY <1>4 DEF PlatformInv, IdsOK, Live
<1>6. IdsOK'
  <2>1. /\ payload' \in [Ids -> Event \cup {NoRow}]
        /\ stage' \in [Ids -> {"free", "open", "committed", "gone"}]
        BY <1>4 DEF PlatformInv, IdsOK
  <2>2. \A f \in Ids : payload'[f] = NoRow <=> ~Live(f)'
        BY <1>2, <1>5 DEF PlatformInv, IdsOK
  <2>3. \A f, g \in Ids : g < f /\ stage'[g] = "free" => stage'[f] = "free"
        BY <1>4, <1>5, PlatformAssumption DEF PlatformInv, IdsOK, Ids
  <2>4. QED
        BY <2>1, <2>2, <2>3 DEF IdsOK, Live
<1>7. RowsOK'
  <2>1. \A f \in Ids : stage'[f] = "committed" => payload'[f] \in outbox'
        BY <1>1, <1>5 DEF PlatformInv, RowsOK
  <2>2. \A y \in outbox' : \E f \in Ids : stage'[f] = "committed" /\ payload'[f] = y
    <3> SUFFICES ASSUME NEW y \in outbox
                 PROVE  \E f \in Ids : stage'[f] = "committed" /\ payload'[f] = y
        BY <1>1
    <3>1. PICK f \in Ids : stage[f] = "committed" /\ payload[f] = y
          BY DEF PlatformInv, RowsOK
    <3>2. QED
          BY <1>4, <1>5, <3>1
  <2>3. \A f \in Ids : stage'[f] = "open" => \E d \in Crawlers : payload'[f] \in txEvents'[d]
    <3> SUFFICES ASSUME NEW f \in Ids, stage'[f] = "open"
                 PROVE  \E d \in Crawlers : payload'[f] \in txEvents'[d]
        OBVIOUS
    <3>1. CASE f = e
          BY <1>2, <1>5, <3>1
    <3>2. CASE f # e
      <4>1. PICK d \in Crawlers : payload[f] \in txEvents[d]
            BY <1>5, <3>2 DEF PlatformInv, RowsOK
      <4>2. QED
            BY <1>2, <1>5, <3>2, <4>1
    <3>3. QED
          BY <3>1, <3>2
  <2>4. ASSUME NEW d \in Crawlers, NEW y \in txEvents'[d]
        PROVE  \E f \in Ids : stage'[f] = "open" /\ payload'[f] = y
    <3>1. CASE y \in txEvents[d]
      <4>1. PICK f \in Ids : stage[f] = "open" /\ payload[f] = y
            BY <3>1 DEF PlatformInv, RowsOK
      <4>2. QED
            BY <1>4, <1>5, <4>1
    <3>2. CASE y \notin txEvents[d]
          BY <1>2, <1>5, <3>2
    <3>3. QED
          BY <3>1, <3>2
  <2>5. QED
        BY <2>1, <2>2, <2>3, <2>4 DEF RowsOK
<1>8. InOrder'
  <2> SUFFICES ASSUME NEW f \in Ids, NEW g \in Ids, Live(f)', Live(g)',
                      payload'[f].item = payload'[g].item, f < g
               PROVE  payload'[f].version < payload'[g].version
      BY DEF InOrder
  <2>1. f # e
    <3>1. ASSUME f = e PROVE FALSE
      <4>1. g # e /\ Live(g)
            BY <1>5, <3>1, PlatformAssumption DEF Ids
      <4>2. g < e
            BY <1>4, <4>1 DEF Live
      <4>3. QED
            BY <3>1, <4>2, PlatformAssumption DEF Ids
    <3>2. QED
          BY <3>1
  <2>2. CASE g = e
    <3>1. Live(f) /\ payload'[f] = payload[f] /\ payload'[g] = x
          BY <1>5, <2>1, <2>2
    <3>2. payload[f] \in outbox \/ \E d \in Crawlers : payload[f] \in txEvents[d]
          BY <3>1 DEF PlatformInv, RowsOK, Live
    <3>3. QED
          BY <1>1, <3>1, <3>2
  <2>3. CASE g # e
        BY <1>5, <2>1, <2>3 DEF PlatformInv, InOrder
  <2>4. QED
        BY <2>2, <2>3
<1>9. HandedOK'
  <2>1. \A f \in handed \cup printed : f \in Ids \ {e} /\ stage'[f] = "committed"
        BY <1>4, <1>5 DEF PlatformInv, HandedOK
  <2>2. \A f \in Ids : stage'[f] = "committed" => f # e /\ stage[f] = "committed"
        BY <1>5
  <2>3. QED
        BY <1>5, <2>1, <2>2 DEF PlatformInv, HandedOK
<1>10. QED
      BY <1>6, <1>7, <1>8, <1>9 DEF PlatformInv

(* The rows a session does not own stay those of the others.               *)
LEMMA OwnRows ==
    ASSUME TypeOK, HistoryInv, RowsOK, NEW c \in Crawlers
    PROVE  /\ \A e \in Own(c) : e \in Ids /\ stage[e] = "open"
           /\ \A x \in txEvents[c] : \E e \in Own(c) : payload[e] = x
           /\ \A e \in Ids \ Own(c) : stage[e] = "open" =>
                 \E d \in Crawlers \ {c} : payload[e] \in txEvents[d]
           /\ \A d \in Crawlers \ {c} : \A x \in txEvents[d] :
                 \E e \in Ids \ Own(c) : stage[e] = "open" /\ payload[e] = x
<1>1. \A e \in Own(c) : e \in Ids /\ stage[e] = "open"
      BY DEF Own
<1>2. ASSUME NEW x \in txEvents[c] PROVE \E e \in Own(c) : payload[e] = x
      BY <1>2 DEF RowsOK, Own
<1>3. ASSUME NEW e \in Ids \ Own(c), stage[e] = "open"
      PROVE  \E d \in Crawlers \ {c} : payload[e] \in txEvents[d]
      BY <1>3 DEF RowsOK, Own
<1>4. ASSUME NEW d \in Crawlers \ {c}, NEW x \in txEvents[d]
      PROVE  \E e \in Ids \ Own(c) : stage[e] = "open" /\ payload[e] = x
  <2>1. PICK e \in Ids : stage[e] = "open" /\ payload[e] = x
        BY <1>4 DEF RowsOK
  <2>2. x \notin txEvents[c]
        BY <1>4, SessionsApart
  <2>3. QED
        BY <2>1, <2>2 DEF Own
<1>5. QED
      BY <1>1, <1>2, <1>3, <1>4

(* A commit makes the rows of its session visible, which are later than    *)
(* all that have been handed over.                                         *)
LEMMA KeepInv ==
    ASSUME TypeOK, HistoryInv, PlatformInv, NEW c \in Crawlers, Commit(c),
           Keep(c), UNCHANGED <<handed, printed, struck>>
    PROVE  PlatformInv'
<1>1. /\ outbox' = outbox \cup txEvents[c]
      /\ txEvents' = [txEvents EXCEPT ![c] = {}]
      BY DEF Commit, Discard
<1>2. txEvents'[c] = {} /\ \A d \in Crawlers \ {c} : txEvents'[d] = txEvents[d]
      BY <1>1 DEF TypeOK
<1>3. /\ payload' = payload
      /\ \A e \in Own(c) : stage'[e] = "committed"
      /\ \A e \in Ids \ Own(c) : stage'[e] = stage[e]
      BY DEF Keep, Own
<1>4. /\ \A e \in Own(c) : e \in Ids /\ stage[e] = "open"
      /\ \A x \in txEvents[c] : \E e \in Own(c) : payload[e] = x
      /\ \A e \in Ids \ Own(c) : stage[e] = "open" =>
            \E d \in Crawlers \ {c} : payload[e] \in txEvents[d]
      /\ \A d \in Crawlers \ {c} : \A x \in txEvents[d] :
            \E e \in Ids \ Own(c) : stage[e] = "open" /\ payload[e] = x
      BY OwnRows DEF PlatformInv
<1>5. \A e \in Own(c) : payload[e] \in txEvents[c]
      BY DEF Own
<1>6. stage' \in [Ids -> {"free", "open", "committed", "gone"}]
      BY DEF Keep, PlatformInv, IdsOK
<1>7. \A e \in Ids : Live(e)' <=> Live(e)
      BY <1>3, <1>4 DEF Live
<1>8. IdsOK'
      BY <1>3, <1>4, <1>6, <1>7 DEF PlatformInv, IdsOK
<1>9. RowsOK'
  <2>1. \A e \in Ids : stage'[e] = "committed" => payload'[e] \in outbox'
        BY <1>1, <1>3, <1>5 DEF PlatformInv, RowsOK
  <2>2. ASSUME NEW x \in outbox'
        PROVE  \E e \in Ids : stage'[e] = "committed" /\ payload'[e] = x
    <3>1. CASE x \in outbox
      <4>1. PICK e \in Ids : stage[e] = "committed" /\ payload[e] = x
            BY <3>1 DEF PlatformInv, RowsOK
      <4>2. QED
            BY <1>3, <4>1
    <3>2. CASE x \in txEvents[c]
          BY <1>3, <1>4, <3>2
    <3>3. QED
          BY <1>1, <3>1, <3>2
  <2>3. \A e \in Ids : stage'[e] = "open" =>
            \E d \in Crawlers : payload'[e] \in txEvents'[d]
    <3>1. \A e \in Ids : stage'[e] = "open" => e \notin Own(c) /\ stage[e] = "open"
          BY <1>3
    <3>2. QED
          BY <1>2, <1>3, <1>4, <3>1
  <2>4. \A d \in Crawlers : \A x \in txEvents'[d] :
            \E e \in Ids : stage'[e] = "open" /\ payload'[e] = x
        BY <1>2, <1>3, <1>4
  <2>5. QED
        BY <2>1, <2>2, <2>3, <2>4 DEF RowsOK
<1>10. InOrder'
      BY <1>3, <1>7 DEF PlatformInv, InOrder
<1>11. HandedOK'
  <2>1. \A f \in handed \cup printed :
            f \in Ids /\ stage[f] = "committed" /\ stage'[f] = "committed"
        BY <1>3 DEF PlatformInv, HandedOK
  <2>2. ASSUME NEW f \in handed, NEW e \in Ids, stage'[e] = "committed",
               payload[e].item = payload[f].item,
               payload[e].version < payload[f].version
        PROVE  e \in handed \cup struck
    <3>1. CASE stage[e] = "committed"
          BY <2>2, <3>1 DEF PlatformInv, HandedOK
    <3>2. CASE stage[e] # "committed"
      <4>1. payload[e] \in txEvents[c]
            BY <1>3, <1>5, <2>2, <3>2
      <4>2. payload[f] \in outbox
            BY <2>1 DEF PlatformInv, RowsOK
      <4> DEFINE x == payload[e]
                 y == payload[f]
      <4>3. x.item \in ItemIds /\ x.version \in Nat /\ y.version \in Nat
            BY <4>1, <4>2 DEF TypeOK, Event
      <4>4. items[x.item] # NoRow /\ y.version \in 1 .. items[x.item].version
            BY <2>2, <4>2, <4>3 DEF HistoryInv, Committed, Recorded, Silent
      <4>5. x.version > items[x.item].version
            BY <4>1, <4>4, OpenLater DEF PlatformInv
      <4>6. items[x.item].version \in Nat
            BY <4>3, <4>4 DEF TypeOK, Item
      <4>7. QED
            BY <2>2, <4>3, <4>4, <4>5, <4>6
    <3>3. QED
          BY <3>1, <3>2
  <2>3. QED
        BY <1>3, <2>1, <2>2 DEF PlatformInv, HandedOK
<1>12. QED
      BY <1>8, <1>9, <1>10, <1>11 DEF PlatformInv

(* A rollback takes the rows of its session and nothing else.              *)
LEMMA VanishInv ==
    ASSUME TypeOK, HistoryInv, PlatformInv, NEW c \in Crawlers,
           Discard(c), UNCHANGED tables, Vanish(c), UNCHANGED <<handed, printed, struck>>
    PROVE  PlatformInv'
<1>1. outbox' = outbox /\ txEvents' = [txEvents EXCEPT ![c] = {}]
      BY DEF Discard, tables
<1>2. txEvents'[c] = {} /\ \A d \in Crawlers \ {c} : txEvents'[d] = txEvents[d]
      BY <1>1 DEF TypeOK
<1>3. /\ \A e \in Own(c) : stage'[e] = "gone" /\ payload'[e] = NoRow
      /\ \A e \in Ids \ Own(c) : stage'[e] = stage[e] /\ payload'[e] = payload[e]
      BY DEF Vanish, Own
<1>4. /\ \A e \in Own(c) : e \in Ids /\ stage[e] = "open"
      /\ \A e \in Ids \ Own(c) : stage[e] = "open" =>
            \E d \in Crawlers \ {c} : payload[e] \in txEvents[d]
      /\ \A d \in Crawlers \ {c} : \A x \in txEvents[d] :
            \E e \in Ids \ Own(c) : stage[e] = "open" /\ payload[e] = x
      BY OwnRows DEF PlatformInv
<1>5. /\ stage' \in [Ids -> {"free", "open", "committed", "gone"}]
      /\ payload' \in [Ids -> Event \cup {NoRow}]
      BY DEF Vanish, PlatformInv, IdsOK
<1>6. \A e \in Ids : Live(e)' <=> Live(e) /\ e \notin Own(c)
      BY <1>3 DEF Live
<1>7. \A e \in Ids : payload'[e] = NoRow <=> ~Live(e)'
      BY <1>3, <1>6 DEF PlatformInv, IdsOK
<1>8. \A e \in Ids : stage'[e] = "free" <=> stage[e] = "free"
      BY <1>3, <1>4
<1>9. IdsOK'
      BY <1>5, <1>7, <1>8 DEF PlatformInv, IdsOK
<1>10. RowsOK'
  <2>1. \A e \in Ids : stage'[e] = "committed" => payload'[e] \in outbox'
        BY <1>1, <1>3 DEF PlatformInv, RowsOK
  <2>2. ASSUME NEW x \in outbox'
        PROVE  \E e \in Ids : stage'[e] = "committed" /\ payload'[e] = x
    <3>1. PICK e \in Ids : stage[e] = "committed" /\ payload[e] = x
          BY <1>1 DEF PlatformInv, RowsOK
    <3>2. QED
          BY <1>3, <1>4, <3>1
  <2>3. \A e \in Ids : stage'[e] = "open" =>
            \E d \in Crawlers : payload'[e] \in txEvents'[d]
    <3>1. \A e \in Ids : stage'[e] = "open" => e \notin Own(c) /\ stage[e] = "open"
          BY <1>3
    <3>2. QED
          BY <1>2, <1>3, <1>4, <3>1
  <2>4. \A d \in Crawlers : \A x \in txEvents'[d] :
            \E e \in Ids : stage'[e] = "open" /\ payload'[e] = x
        BY <1>2, <1>3, <1>4
  <2>5. QED
        BY <2>1, <2>2, <2>3, <2>4 DEF RowsOK
<1>11. InOrder'
      BY <1>3, <1>6 DEF PlatformInv, InOrder
<1>12. HandedOK'
  <2>1. \A e \in Ids : stage'[e] = "committed" <=> stage[e] = "committed"
        BY <1>3, <1>4
  <2>2. \A e \in Ids : stage[e] = "committed" => payload'[e] = payload[e]
        BY <1>3, <1>4
  <2>3. QED
        BY <2>1, <2>2 DEF PlatformInv, HandedOK
<1>13. QED
      BY <1>9, <1>10, <1>11, <1>12 DEF PlatformInv

(* Steps of a crawl that neither add events nor end the transaction do not *)
(* touch the rows.                                                         *)
LEMMA QuietEvents ==
    ASSUME TypeOK, NEW c \in Crawlers
    PROVE  (\/ TakeEntry(c) \/ Reject(c) \/ ProbeUrl(c) \/ ProbeText(c)
            \/ Unchanged(c) \/ Resight(c) \/ Link(c))
              => items' = items /\ outbox' = outbox /\ txEvents' = txEvents
<1>1. ASSUME NEW i, NEW row, Flush(c, i, row, {}, {})
      PROVE  items' = items /\ outbox' = outbox /\ txEvents' = txEvents
      BY <1>1 DEF Flush, tables, TypeOK
<1>2. ASSUME Resight(c)
      PROVE  items' = items /\ outbox' = outbox /\ txEvents' = txEvents
  <2>1. PICK row : Flush(c, work[c].item, row, {}, {})
        BY <1>2 DEF Resight
  <2>2. QED
        BY <1>1, <2>1
<1>3. ASSUME Link(c)
      PROVE  items' = items /\ outbox' = outbox /\ txEvents' = txEvents
  <2>1. PICK row : Flush(c, work[c].item, row, {}, {})
        BY <1>3 DEF Link
  <2>2. QED
        BY <1>1, <2>1
<1>4. TakeEntry(c) => items' = items /\ outbox' = outbox /\ txEvents' = txEvents
      BY DEF TakeEntry, tables
<1>5. Reject(c) \/ ProbeUrl(c) \/ ProbeText(c) \/ Unchanged(c)
          => items' = items /\ outbox' = outbox /\ txEvents' = txEvents
      BY DEF Reject, ProbeUrl, ProbeText, Unchanged, tables, txs
<1>6. QED
      BY <1>2, <1>3, <1>4, <1>5

(* What the relay reads of a row.                                          *)
LEMMA ReadableRow ==
    ASSUME TypeOK, IdsOK, NEW e \in Ids
    PROVE  /\ Readable[e] # NoRow <=> stage[e] = "committed"
           /\ stage[e] = "committed" =>
                 /\ Readable[e] = payload[e].item
                 /\ payload[e] \in Event /\ payload[e].item \in ItemIds
                 /\ payload[e].version \in Nat
<1>1. ASSUME stage[e] = "committed"
      PROVE  payload[e] \in Event /\ payload[e].item \in ItemIds
             /\ payload[e].version \in Nat
      BY <1>1 DEF IdsOK, Live, Event
<1>2. QED
      BY <1>1, NoRowAssumption DEF Readable

(* What a relay run may do: hand over an event of whose item no earlier    *)
(* one is left, have it taken by a publisher without a consumer, and       *)
(* strike off what is handed over or taken.                                *)
LEMMA RelayInv ==
    ASSUME TypeOK, PlatformInv, RelayRun
    PROVE  PlatformInv'
<1>1. /\ UNCHANGED <<vars, payload, stage>>
      /\ outbox' = outbox /\ txEvents' = txEvents
      BY DEF RelayRun, log, vars
<1>2. IdsOK' /\ RowsOK' /\ InOrder'
      BY <1>1 DEF PlatformInv, IdsOK, RowsOK, InOrder, Live
<1>3. CASE Relaying!Strike
  <2>1. /\ handed' = handed /\ printed' = printed
        /\ struck \subseteq struck' /\ struck' \subseteq handed \cup printed
        BY <1>3 DEF Relaying!Strike
  <2>2. QED
        BY <1>1, <1>2, <2>1 DEF PlatformInv, HandedOK
<1>4. ASSUME NEW e \in Ids, Relaying!HandOver(e) PROVE PlatformInv'
  <2>1. /\ Readable[e] # NoRow
        /\ \A f \in 1 .. e - 1 : Readable[f] = Readable[e] => f \in handed \cup struck
        /\ handed' = handed \cup {e} /\ printed' = printed /\ struck' = struck
        BY <1>4 DEF Relaying!HandOver
  <2>2. stage[e] = "committed" /\ Readable[e] = payload[e].item
        BY <2>1, ReadableRow DEF PlatformInv
  <2>3. ASSUME NEW g \in Ids, stage[g] = "committed",
               payload[g].item = payload[e].item,
               payload[g].version < payload[e].version
        PROVE  g \in handed \cup struck
    <3>1. payload[g].version \in Nat /\ payload[e].version \in Nat
          /\ Readable[g] = payload[g].item
          BY <2>2, <2>3, ReadableRow DEF PlatformInv
    <3>2. g # e
          BY <2>3, <3>1
    <3>3. ~(e < g)
          BY <2>2, <2>3, <3>1 DEF PlatformInv, InOrder, Live
    <3>4. g \in 1 .. e - 1
          BY <3>2, <3>3, PlatformAssumption DEF Ids
    <3>5. QED
          BY <2>1, <2>2, <2>3, <3>1, <3>4
  <2>4. HandedOK'
    <3>1. \A f \in handed' \cup printed' : f \in Ids /\ stage'[f] = "committed"
          BY <1>1, <2>1, <2>2 DEF PlatformInv, HandedOK
    <3>2. struck' \subseteq handed' \cup printed'
          BY <2>1 DEF PlatformInv, HandedOK
    <3>3. \A f \in handed', g \in Ids :
             stage'[g] = "committed" /\ payload'[g].item = payload'[f].item
               /\ payload'[g].version < payload'[f].version
                   => g \in handed' \cup struck'
          BY <1>1, <2>1, <2>3 DEF PlatformInv, HandedOK
    <3>4. QED
          BY <3>1, <3>2, <3>3 DEF HandedOK
  <2>5. QED
        BY <1>2, <2>4 DEF PlatformInv
<1>5. ASSUME NEW e \in Ids, PrintEvent(e) PROVE PlatformInv'
  <2>1. /\ Readable[e] # NoRow
        /\ handed' = handed /\ printed' = printed \cup {e} /\ struck' = struck
        BY <1>5 DEF PrintEvent, Relaying!Divert
  <2>2. stage[e] = "committed"
        BY <2>1 DEF Readable
  <2>3. QED
        BY <1>1, <1>2, <2>1, <2>2 DEF PlatformInv, HandedOK
<1>6. QED
      BY <1>3, <1>4, <1>5 DEF RelayRun

(* A step of the platform is a step of a crawl, or of the relay.           *)
LEMMA PlatformIsIngest == [PlatformNext]_platformVars => [Next]_vars
<1>1. ASSUME NEW c \in Crawlers, CrawlStep(c) PROVE Next
      BY <1>1 DEF CrawlStep, Next
<1>2. RelayRun => UNCHANGED vars
      BY DEF RelayRun
<1>3. QED
      BY <1>1, <1>2 DEF PlatformNext, platformVars

(* The crawls and the relay together keep the rows in order.               *)
LEMMA PlatformStep ==
    CrawlInv /\ PlatformInv /\ [PlatformNext]_platformVars
        => CrawlInv' /\ PlatformInv'
<1> SUFFICES ASSUME CrawlInv, PlatformInv, [PlatformNext]_platformVars
             PROVE  CrawlInv' /\ PlatformInv'
    OBVIOUS
<1>1. CrawlInv'
      BY PlatformIsIngest, CrawlInvStep
<1>2. TypeOK /\ WorkOK /\ HistoryInv
      BY DEF CrawlInv, TypeInv
<1>3. ASSUME outbox' = outbox, txEvents' = txEvents,
             UNCHANGED <<payload, stage, handed, printed, struck>>
      PROVE  PlatformInv'
      BY <1>3 DEF PlatformInv, IdsOK, RowsOK, InOrder, HandedOK, Live
<1>4. CASE UNCHANGED platformVars
      BY <1>1, <1>3, <1>4 DEF platformVars, vars
<1>5. CASE RelayRun
      BY <1>1, <1>2, <1>5, RelayInv
<1>6. ASSUME NEW c \in Crawlers, CrawlStep(c) PROVE PlatformInv'
  <2>1. UNCHANGED <<handed, printed, struck>>
        BY <1>6 DEF CrawlStep, relayed
  <2>2. CASE /\ \/ TakeEntry(c) \/ Reject(c) \/ ProbeUrl(c) \/ ProbeText(c)
                \/ Unchanged(c) \/ Resight(c) \/ Link(c)
             /\ UNCHANGED log
    <3>1. outbox' = outbox /\ txEvents' = txEvents
          BY <1>2, <2>2, QuietEvents
    <3>2. UNCHANGED <<payload, stage, handed, printed, struck>>
          BY <2>1, <2>2 DEF log
    <3>3. QED
          BY <1>3, <3>1, <3>2
  <2>3. CASE (Revise(c) \/ Create(c)) /\ Number(c)
        BY <1>2, <2>1, <2>3, NumberInv
  <2>4. CASE Commit(c) /\ Keep(c)
        BY <1>2, <2>1, <2>4, KeepInv
  <2>5. CASE Abort(c) /\ Vanish(c)
        BY <1>2, <2>1, <2>5, VanishInv DEF Abort
  <2>6. QED
        BY <1>6, <2>2, <2>3, <2>4, <2>5 DEF CrawlStep
<1>7. QED
      BY <1>1, <1>4, <1>5, <1>6 DEF PlatformNext

(* The rows of the outbox are the events of the crawls, in the order of    *)
(* the versions of each item, and what L1 has of an item has no holes.     *)
LEMMA PlatformCorrect == PlatformSpec => [](CrawlInv /\ PlatformInv)
<1>1. PlatformInit => CrawlInv /\ PlatformInv
      BY PlatformInvInit, CrawlInvInit DEF PlatformInit
<1>2. QED
      BY <1>1, PlatformStep, PTL DEF PlatformSpec

(* Ids and a relay add nothing to what crawls do to the tables: what holds *)
(* of Ingest holds of the platform (canonical.py:61-133).                  *)
THEOREM CrawlsUnchanged == PlatformSpec => Spec
<1>1. PlatformInit => Init
      BY DEF PlatformInit
<1>2. QED
      BY <1>1, PlatformIsIngest, PTL DEF PlatformSpec, Spec

-----------------------------------------------------------------------------
(* The crawls fill OutboxRows.                                             *)

(* The item of a row.                                                      *)
LEMMA RowItem ==
    ASSUME PlatformInv, NEW e \in Ids, payload[e] # NoRow
    PROVE  ItemOf[e] = payload[e].item /\ ItemOf[e] \in ItemIds
BY DEF PlatformInv, IdsOK, ItemOf, Event

(* The items of its events tell the rows of a session from the others.     *)
LEMMA OwnItems ==
    ASSUME TypeOK, HistoryInv, PlatformInv, NEW c \in Crawlers
    PROVE  LET K == {x.item : x \in txEvents[c]}
           IN  K \in SUBSET ItemIds /\ Rows!OpenOf(K) = Own(c)
<1> DEFINE K == {x.item : x \in txEvents[c]}
<1>1. K \in SUBSET ItemIds
      BY DEF TypeOK, Event
<1>2. ASSUME NEW e \in Own(c) PROVE e \in Rows!OpenOf(K)
  <2>1. e \in Ids /\ stage[e] = "open" /\ payload[e] \in txEvents[c]
        BY <1>2 DEF Own
  <2>2. payload[e] # NoRow
        BY <2>1 DEF PlatformInv, IdsOK, Live
  <2>3. ItemOf[e] \in K
        BY <2>1, <2>2, RowItem
  <2> HIDE DEF K
  <2>4. QED
        BY <2>1, <2>3 DEF Rows!OpenOf, Rows!Events, Ids
<1>3. ASSUME NEW e \in Rows!OpenOf(K) PROVE e \in Own(c)
  <2>1. e \in Ids /\ stage[e] = "open" /\ ItemOf[e] \in K
        BY <1>3 DEF Rows!OpenOf, Rows!Events, Ids
  <2>2. PICK x \in txEvents[c] : x.item = ItemOf[e]
        BY <2>1
  <2>3. PICK d \in Crawlers : payload[e] \in txEvents[d]
        BY <2>1 DEF PlatformInv, RowsOK
  <2>4. ItemOf[e] = payload[e].item
        BY <2>1, RowItem DEF PlatformInv, IdsOK, Live
  <2>5. d = c
        BY <2>2, <2>3, <2>4, SessionsApart
  <2>6. QED
        BY <2>1, <2>3, <2>5 DEF Own
<1>4. QED
      BY <1>1, <1>2, <1>3

(* An event that is inserted is a row that is inserted.                    *)
LEMMA NumberEmits ==
    ASSUME TypeOK, WorkOK, HistoryInv, PlatformInv, NEW c \in Crawlers,
           Revise(c) \/ Create(c), Number(c)
    PROVE  Rows!Next
<1>1. PICK x \in Event :
          /\ txEvents' = [txEvents EXCEPT ![c] = @ \cup {x}]
          /\ \A d \in Crawlers : \A y \in outbox \cup txEvents[d] :
                y.item = x.item => y.version < x.version
      BY EmitsLatest
<1>2. /\ x.version \in Nat /\ x.item \in ItemIds /\ x # NoRow
      /\ txEvents'[c] = txEvents[c] \cup {x}
      BY <1>1, PlatformAssumption DEF TypeOK, Event
<1>3. x \notin txEvents[c]
      BY <1>1, <1>2
<1>4. PICK e \in Ids :
          /\ stage[e] = "free"
          /\ \A f \in Ids : f # e => (stage[f] # "free" <=> f < e)
          /\ payload' = [payload EXCEPT ![e] = x]
          /\ stage' = [stage EXCEPT ![e] = "open"]
      BY <1>2, <1>3, NumberRow DEF PlatformInv
<1>5. \A f \in 1 .. e - 1 : stage[f] # "free"
      BY <1>4, PlatformAssumption DEF Ids
<1>6. ItemOf' = [ItemOf EXCEPT ![e] = x.item]
  <2>1. payload \in [Ids -> Event \cup {NoRow}]
        BY DEF PlatformInv, IdsOK
  <2>2. \A f \in Ids : payload'[f] = IF f = e THEN x ELSE payload[f]
        BY <1>4, <2>1
  <2>3. QED
        BY <1>2, <2>2 DEF ItemOf
<1>7. Rows!Emit(e, x.item)
      BY <1>4, <1>5, <1>6 DEF Rows!Emit
<1>8. QED
      BY <1>2, <1>4, <1>7 DEF Rows!Next, Rows!Events, Ids

(* A commit and a rollback end the rows of the items the session holds.    *)
LEMMA EndsRows ==
    ASSUME TypeOK, HistoryInv, PlatformInv, NEW c \in Crawlers, Keep(c) \/ Vanish(c)
    PROVE  Rows!Next \/ (stage' = stage /\ ItemOf' = ItemOf)
<1> DEFINE K == {x.item : x \in txEvents[c]}
<1>1. K \in SUBSET ItemIds /\ Rows!OpenOf(K) = Own(c)
      BY OwnItems
<1> HIDE DEF K
<1>2. /\ payload \in [Ids -> Event \cup {NoRow}]
      /\ stage \in [Ids -> {"free", "open", "committed", "gone"}]
      BY DEF PlatformInv, IdsOK
<1>3. CASE Own(c) = {}
  <2>1. stage' = stage /\ payload' = payload
        BY <1>2, <1>3 DEF Keep, Vanish
  <2>2. QED
        BY <2>1 DEF ItemOf
<1>4. CASE Own(c) # {} /\ Keep(c)
  <2>1. stage' = [e \in Ids |-> IF e \in Own(c) THEN "committed" ELSE stage[e]]
        /\ ItemOf' = ItemOf
        BY <1>4 DEF Keep, ItemOf
  <2>2. Rows!CommitEmit(K)
        BY <1>1, <1>4, <2>1 DEF Rows!CommitEmit, Rows!Events, Ids
  <2>3. QED
        BY <1>1, <2>2 DEF Rows!Next
<1>5. CASE Own(c) # {} /\ Vanish(c)
  <2>1. stage' = [e \in Ids |-> IF e \in Own(c) THEN "gone" ELSE stage[e]]
        BY <1>5 DEF Vanish
  <2>2. \A e \in Ids : payload'[e] = IF e \in Own(c) THEN NoRow ELSE payload[e]
        BY <1>5 DEF Vanish
  <2>3. ItemOf' = [e \in Ids |-> IF e \in Own(c) THEN NoRow ELSE ItemOf[e]]
        BY <2>2 DEF ItemOf
  <2>4. Rows!UndoEmit(K)
        BY <1>1, <1>5, <2>1, <2>3 DEF Rows!UndoEmit, Rows!Events, Ids
  <2>5. QED
        BY <1>1, <2>4 DEF Rows!Next
<1>6. QED
      BY <1>3, <1>4, <1>5

(* The crawls fill the outbox the way Relay relies on: ids in the order of *)
(* the inserts, and transactions that end with all their rows, which no    *)
(* other open transaction has rows of the same items with, for any number  *)
(* of crawls (outbox.py:15-24; canonical.py:65-86, 104-133).               *)
THEOREM RowsFilled == PlatformSpec => RowsKept
<1>1. PlatformInit => Rows!Init
  <2>1. PlatformInit => ItemOf = [e \in Ids |-> NoRow]
        BY DEF PlatformInit, ItemOf
  <2>2. QED
        BY <2>1 DEF PlatformInit, Rows!Init, Rows!Events, Ids
<1>2. CrawlInv /\ PlatformInv /\ [PlatformNext]_platformVars
          => [Rows!Next]_<<stage, ItemOf>>
  <2> SUFFICES ASSUME CrawlInv, PlatformInv, [PlatformNext]_platformVars
               PROVE  Rows!Next \/ (stage' = stage /\ ItemOf' = ItemOf)
      OBVIOUS
  <2>1. TypeOK /\ WorkOK /\ HistoryInv
        BY DEF CrawlInv, TypeInv
  <2>2. UNCHANGED log => stage' = stage /\ ItemOf' = ItemOf
        BY DEF log, ItemOf
  <2>3. UNCHANGED platformVars \/ RelayRun => UNCHANGED log
        BY DEF platformVars, RelayRun, log
  <2>4. ASSUME NEW c \in Crawlers, CrawlStep(c)
        PROVE  Rows!Next \/ (stage' = stage /\ ItemOf' = ItemOf)
    <3>1. CASE UNCHANGED log
          BY <2>2, <3>1
    <3>2. CASE (Revise(c) \/ Create(c)) /\ Number(c)
          BY <2>1, <3>2, NumberEmits
    <3>3. CASE Keep(c) \/ Vanish(c)
          BY <2>1, <3>3, EndsRows
    <3>4. QED
          BY <2>4, <3>1, <3>2, <3>3 DEF CrawlStep
  <2>5. QED
        BY <2>2, <2>3, <2>4 DEF PlatformNext
<1>3. QED
      BY <1>1, <1>2, PlatformCorrect, PTL DEF PlatformSpec, RowsKept, Rows!Spec

-----------------------------------------------------------------------------
(* The implementation of Feed.                                             *)

(* What the proofs below know of the tables.                               *)
FeedInv == TypeOK /\ HistoryInv /\ Chains /\ ToldWhole /\ PlatformInv

(* An event L1 has is one of the outbox.                                   *)
LEMMA HandedRow ==
    ASSUME TypeOK, PlatformInv, NEW e \in handed
    PROVE  /\ e \in Ids /\ stage[e] = "committed" /\ payload[e] \in outbox
           /\ payload[e].item \in ItemIds /\ payload[e].version \in Nat
           /\ e \in HandedOf(payload[e].item)
BY DEF TypeOK, PlatformInv, HandedOK, RowsOK, HandedOf, Event

(* The versions L1 has, and that it has them with their texts.             *)
LEMMA LearnedText ==
    ASSUME TypeOK, Chains, PlatformInv, NEW i \in ItemIds
    PROVE  /\ DOMAIN Learned[i] = {payload[e].version : e \in HandedOf(i)}
           /\ \A v \in DOMAIN Learned[i] : Learned[i][v] = TextOf(i, v)
           /\ Learned[i] = [v \in DOMAIN Learned[i] |-> TextOf(i, v)]
<1> DEFINE V == {payload[e].version : e \in HandedOf(i)}
           X == {payload[e] : e \in HandedOf(i)}
           f == [v \in V |-> (CHOOSE x \in X : x.version = v).hash]
<1>1. Learned[i] = f
      BY DEF Learned
<1>2. ASSUME NEW v \in V PROVE f[v] = TextOf(i, v)
  <2>1. PICK e \in HandedOf(i) : payload[e].version = v
        BY <1>2
  <2>2. \E x \in X : x.version = v
        BY <2>1
  <2>3. \A x \in X : x \in outbox /\ x.item = i
        BY HandedRow DEF HandedOf
  <2> DEFINE y == CHOOSE x \in X : x.version = v
  <2>4. f[v] = y.hash
        BY <1>2
  <2> HIDE DEF X, V, f
  <2>5. y \in X /\ y.version = v
        BY <2>2
  <2> HIDE DEF y
  <2>6. TextOf(i, v) = y.hash
        BY <2>3, <2>5, TextOfEvent
  <2>7. QED
        BY <2>4, <2>6
<1>3. DOMAIN f = V
      OBVIOUS
<1>4. f = [v \in V |-> f[v]]
      OBVIOUS
<1> HIDE DEF f, V
<1>5. f = [v \in V |-> TextOf(i, v)]
      BY <1>2, <1>4
<1>6. QED
      BY <1>1, <1>2, <1>3, <1>5 DEF V

(* The texts L1 has are those of their versions.                           *)
LearnedOK ==
    \A i \in ItemIds :
        /\ DOMAIN Learned[i] = {payload[e].version : e \in HandedOf(i)}
        /\ Learned[i] = [v \in DOMAIN Learned[i] |-> TextOf(i, v)]

(* They are before a step and after it.                                    *)
LEMMA LearnedAlways ==
    /\ TypeOK /\ Chains /\ PlatformInv => LearnedOK
    /\ TypeOK' /\ Chains' /\ PlatformInv' => LearnedOK'
<1>1. TypeOK /\ Chains /\ PlatformInv => LearnedOK
      BY LearnedText DEF LearnedOK
<1>2. (TypeOK /\ Chains /\ PlatformInv => LearnedOK)'
      BY <1>1, PTL
<1>3. QED
      BY <1>1, <1>2

(* L1 has learned and is due the same, and the same versions are taken,    *)
(* when the visible rows stay as they are.                                 *)
LEMMA SameRows ==
    ASSUME TypeOK, TypeOK', Chains, Chains', PlatformInv, PlatformInv',
           outbox' = outbox, handed' = handed, printed' = printed, struck' = struck,
           \A e \in Ids : /\ stage'[e] = "committed" <=> stage[e] = "committed"
                          /\ stage[e] = "committed" => payload'[e] = payload[e]
    PROVE  Learned' = Learned /\ Printed' = Printed /\ Due' = Due
<1>1. ASSUME NEW i \in ItemIds PROVE Learned'[i] = Learned[i]
  <2>1. HandedOf(i)' = HandedOf(i)
        BY HandedRow DEF HandedOf
  <2>2. \A e \in HandedOf(i) : payload'[e] = payload[e]
        BY HandedRow DEF HandedOf
  <2>3. {payload'[e].version : e \in HandedOf(i)}
            = {payload[e].version : e \in HandedOf(i)}
        BY <2>2
  <2>4. DOMAIN Learned[i] = {payload[e].version : e \in HandedOf(i)}
        BY LearnedAlways DEF LearnedOK
  <2>5. DOMAIN Learned'[i] = {payload'[e].version : e \in HandedOf(i)}
        BY <2>1, LearnedAlways DEF LearnedOK
  <2>6. \A v : TextOf(i, v)' = TextOf(i, v)
        BY DEF TextOf
  <2>7. /\ Learned[i] = [v \in DOMAIN Learned[i] |-> TextOf(i, v)]
        /\ Learned'[i] = [v \in DOMAIN Learned'[i] |-> TextOf(i, v)']
        BY LearnedAlways DEF LearnedOK
  <2>8. QED
        BY <2>3, <2>4, <2>5, <2>6, <2>7
<1>2. Learned' = Learned
      BY <1>1 DEF Learned
<1>3. Readable' = Readable
      BY DEF Readable
<1>4. ASSUME NEW i \in ItemIds
      PROVE  {payload'[e].version : e \in {f \in Ids \ struck : Readable[f] = i}}
              = {payload[e].version : e \in {f \in Ids \ struck : Readable[f] = i}}
  <2>1. \A e \in Ids : Readable[e] = i => payload'[e] = payload[e]
        BY ReadableRow, NoRowAssumption DEF PlatformInv
  <2>2. QED
        BY <2>1
<1>5. Due' = Due
      BY <1>3, <1>4 DEF Due
<1>6. Printed' = Printed
  <2>1. \A e \in printed : payload'[e] = payload[e]
        BY DEF PlatformInv, HandedOK
  <2>2. \A i : {f \in printed : payload'[f].item = i} = {f \in printed : payload[f].item = i}
        BY <2>1
  <2>3. ASSUME NEW i
        PROVE  {payload'[e].version : e \in {f \in printed : payload'[f].item = i}}
                = {payload[e].version : e \in {f \in printed : payload[f].item = i}}
        BY <2>1, <2>2
  <2>4. QED
        BY <2>3 DEF Printed
<1>7. QED
      BY <1>2, <1>5, <1>6

(* A commit makes the events public of the versions it adds.               *)
LEMMA NewVersions ==
    ASSUME TypeOK, HistoryInv, ToldWhole, ToldWhole', PlatformInv,
           NEW c \in Crawlers, Commit(c), NEW i \in ItemIds
    PROVE  {x.version : x \in {y \in txEvents[c] : y.item = i}}
               = Len(Told[i]) + 1 .. Len(Told'[i])
<1> DEFINE new == {x.version : x \in {y \in txEvents[c] : y.item = i}}
           n == IF items[i] = NoRow THEN 0 ELSE items[i].version
           m == IF items'[i] = NoRow THEN 0 ELSE items'[i].version
<1>1. items'[i] = Row(c, i)
      BY DEF Commit
<1>2. n \in Nat /\ m \in Nat
      BY <1>1, RowType DEF TypeOK, Item
<1>3. Len(Told[i]) = n /\ Len(Told'[i]) = m
      BY EmptySeq, LenProperties DEF ToldWhole
<1>4. ASSUME NEW x \in txEvents[c], x.item = i PROVE x.version \in n + 1 .. m
  <2>1. /\ txItems[c][i] # NoRow
        /\ x.version \in 1 .. txItems[c][i].version
        /\ items[i] # NoRow => x.version > items[i].version
        BY <1>4, OpenLater DEF PlatformInv
  <2>2. m = txItems[c][i].version
        BY <1>1, <2>1 DEF Row
  <2>3. QED
        BY <1>2, <2>1, <2>2
<1>5. ASSUME NEW v \in n + 1 .. m
      PROVE  \E x \in txEvents[c] : x.item = i /\ x.version = v
  <2>1. txItems[c][i] # NoRow
        BY <1>1, <1>2, <1>5 DEF Row
  <2>2. m = txItems[c][i].version /\ v \in 1 .. m
        BY <1>1, <1>2, <1>5, <2>1 DEF Row
  <2>3. PICK x \in outbox \cup txEvents[c] : x.item = i /\ x.version = v
        BY <2>1, <2>2 DEF HistoryInv, Pending, Recorded
  <2>4. x \notin outbox
    <3>1. ASSUME x \in outbox PROVE x.version \in 1 .. n
          BY <2>3, <3>1 DEF HistoryInv, Committed, Recorded, Silent
    <3>2. QED
          BY <1>2, <1>5, <2>3, <3>1
  <2>5. QED
        BY <2>3, <2>4
<1> HIDE DEF n, m
<1>6. QED
      BY <1>3, <1>4, <1>5

(* A commit of a crawl publishes.                                          *)
LEMMA CommitPublishes ==
    ASSUME FeedInv, FeedInv', ChainInv, ChainInv', NEW c \in Crawlers, Commit(c), Keep(c),
           UNCHANGED <<handed, printed, struck>>
    PROVE  L1Feed!Publish
<1>1. History!Tell
      BY CommitTells DEF FeedInv
<1>2. L1Feed!Tell
      BY <1>1 DEF History!Tell, L1Feed!Tell, History!Extends, L1Feed!Extends,
                  History!Shown, L1Feed!Shown
<1>3. Learned' = Learned /\ Printed' = Printed
      BY DEF Keep, Learned, HandedOf, Printed
<1>4. ASSUME NEW i \in ItemIds
      PROVE  Due'[i] = Due[i] \cup (Len(Told[i]) + 1 .. Len(Told'[i]))
  <2>1. /\ payload' = payload /\ struck' = struck
        /\ \A e \in Own(c) : stage'[e] = "committed"
        /\ \A e \in Ids \ Own(c) : stage'[e] = stage[e]
        BY DEF Keep, Own
  <2>2. /\ \A e \in Own(c) : e \in Ids /\ stage[e] = "open"
        /\ \A x \in txEvents[c] : \E e \in Own(c) : payload[e] = x
        BY OwnRows DEF FeedInv, PlatformInv
  <2>3. \A e \in Own(c) : e \notin struck /\ payload[e] \in txEvents[c]
        BY <2>2 DEF FeedInv, PlatformInv, HandedOK, Own
  <2>4. Len(Told[i]) + 1 .. Len(Told'[i])
            = {x.version : x \in {y \in txEvents[c] : y.item = i}}
        BY NewVersions DEF FeedInv
  <2>5. /\ Due[i] = {payload[e].version : e \in {f \in Ids \ struck : Readable[f] = i}}
        /\ Due'[i] = {payload[e].version : e \in {f \in Ids \ struck : Readable'[f] = i}}
        BY <2>1 DEF Due
  <2>6. \A e \in Ids : Readable'[e] = i <=>
            Readable[e] = i \/ (e \in Own(c) /\ payload[e].item = i)
    <3> SUFFICES ASSUME NEW e \in Ids
                 PROVE  Readable'[e] = i <=>
                          Readable[e] = i \/ (e \in Own(c) /\ payload[e].item = i)
        OBVIOUS
    <3>1. /\ Readable[e] = IF stage[e] = "committed" THEN payload[e].item ELSE NoRow
          /\ Readable'[e] = IF stage'[e] = "committed" THEN payload[e].item ELSE NoRow
          BY <2>1 DEF Readable
    <3>2. i # NoRow
          BY NoRowAssumption
    <3>3. QED
          BY <2>1, <2>2, <3>1, <3>2
  <2>7. ASSUME NEW v \in Due'[i]
        PROVE  v \in Due[i] \cup (Len(Told[i]) + 1 .. Len(Told'[i]))
    <3>1. PICK e \in Ids \ struck : Readable'[e] = i /\ v = payload[e].version
          BY <2>5, <2>7
    <3>2. QED
          BY <2>3, <2>4, <2>5, <2>6, <3>1
  <2>8. ASSUME NEW v \in Due[i] PROVE v \in Due'[i]
        BY <2>5, <2>6, <2>8
  <2>9. ASSUME NEW x \in txEvents[c], x.item = i PROVE x.version \in Due'[i]
    <3>1. PICK e \in Own(c) : payload[e] = x
          BY <2>2
    <3>2. QED
          BY <2>2, <2>3, <2>5, <2>6, <2>9, <3>1
  <2>10. QED
        BY <2>4, <2>7, <2>8, <2>9
<1>5. Due' = [i \in ItemIds |-> Due[i] \cup (Len(Told[i]) + 1 .. Len(Told'[i]))]
      BY <1>4 DEF Due
<1>6. QED
      BY <1>2, <1>3, <1>5 DEF L1Feed!Publish

(* The version of a visible row has been told.                             *)
LEMMA RowTold ==
    ASSUME FeedInv, NEW e \in Ids, stage[e] = "committed",
           NEW i, NEW v, payload[e].item = i, payload[e].version = v
    PROVE  /\ payload[e] \in outbox /\ i \in ItemIds /\ v \in Nat
           /\ items[i] # NoRow /\ v \in 1 .. items[i].version
           /\ Len(Told[i]) = items[i].version /\ items[i].version \in Nat
           /\ \A w \in 1 .. v : Told[i][w] = TextOf(i, w)
<1>1. payload[e] \in outbox /\ i \in ItemIds /\ v \in Nat
      BY DEF FeedInv, TypeOK, PlatformInv, RowsOK, Event
<1>2. items[i] # NoRow /\ v \in 1 .. items[i].version
      BY <1>1 DEF FeedInv, HistoryInv, Committed, Recorded, Silent
<1>3. Len(Told[i]) = items[i].version /\ items[i].version \in Nat
      BY <1>1, <1>2 DEF FeedInv, ToldWhole, TypeOK, Item
<1>4. \A w \in 1 .. v : Told[i][w] = TextOf(i, w)
      BY <1>1, <1>2, <1>3 DEF FeedInv, ToldWhole
<1>5. QED
      BY <1>1, <1>2, <1>3, <1>4

(* A hand-over is of a version of whose item no earlier one is due that L1 *)
(* does not have.                                                          *)
LEMMA HandOverLearns ==
    ASSUME FeedInv, FeedInv', UNCHANGED <<vars, payload, stage>>,
           NEW e \in Ids, Relaying!HandOver(e),
           NEW i, NEW v, payload[e].item = i, payload[e].version = v
    PROVE  L1Feed!FeedNext
<1>1. /\ Readable[e] # NoRow
      /\ \A f \in 1 .. e - 1 : Readable[f] = Readable[e] => f \in handed \cup struck
      /\ handed' = handed \cup {e} /\ printed' = printed /\ struck' = struck
      BY DEF Relaying!HandOver
<1>2. /\ stage[e] = "committed" /\ Readable[e] = i
      /\ i \in ItemIds /\ v \in Nat
      BY <1>1, ReadableRow DEF FeedInv, PlatformInv
<1>3. /\ payload' = payload /\ stage' = stage /\ items' = items /\ outbox' = outbox
      BY DEF vars
<1>4. Told' = Told /\ Text' = Text
      BY <1>3, QuietTold
<1>5. Due' = Due /\ Printed' = Printed
      BY <1>1, <1>3 DEF Due, Readable, Printed
<1>6. /\ v \in 1 .. Len(Told[i])
      /\ \A w \in 1 .. v : Told[i][w] = TextOf(i, w)
      BY <1>2, RowTold
<1>7. DOMAIN Learned[i] = {payload[f].version : f \in HandedOf(i)}
      BY <1>2, LearnedText DEF FeedInv
<1>8. Due[i] \cap (1 .. v - 1) \subseteq DOMAIN Learned[i]
  <2> SUFFICES ASSUME NEW w \in Due[i], w \in 1 .. v - 1
               PROVE  w \in DOMAIN Learned[i]
      OBVIOUS
  <2>1. PICK g \in Ids \ struck : Readable[g] = i /\ payload[g].version = w
        BY <1>2 DEF Due
  <2>2. stage[g] = "committed" /\ payload[g].item = i
        BY <1>2, <2>1, ReadableRow, NoRowAssumption DEF FeedInv, PlatformInv
  <2>3. ~(e < g) /\ g # e
        BY <1>2, <2>1, <2>2 DEF FeedInv, PlatformInv, InOrder, Live
  <2>4. g \in 1 .. e - 1
        BY <2>3, PlatformAssumption DEF Ids
  <2>5. g \in HandedOf(i)
        BY <1>1, <1>2, <2>1, <2>2, <2>4 DEF HandedOf
  <2>6. QED
        BY <1>7, <2>1, <2>5
<1>9. HandedOf(i)' = HandedOf(i) \cup {e}
      BY <1>1, <1>3 DEF HandedOf
<1>10. Learned'[i] = [w \in DOMAIN Learned[i] \cup {v} |-> Told[i][w]]
  <2>1. /\ DOMAIN Learned'[i] = {payload[f].version : f \in HandedOf(i) \cup {e}}
        /\ Learned'[i] = [w \in DOMAIN Learned'[i] |-> TextOf(i, w)']
        BY <1>2, <1>3, <1>9, LearnedAlways DEF FeedInv, LearnedOK
  <2>2. DOMAIN Learned'[i] = DOMAIN Learned[i] \cup {v}
        BY <1>7, <2>1
  <2>3. \A w : TextOf(i, w)' = TextOf(i, w)
        BY <1>3 DEF TextOf
  <2>4. ASSUME NEW w \in DOMAIN Learned[i] PROVE Told[i][w] = TextOf(i, w)
    <3>1. PICK f \in HandedOf(i) : payload[f].version = w
          BY <1>7, <2>4
    <3>2. f \in Ids /\ stage[f] = "committed" /\ payload[f].item = i
          BY <3>1, HandedRow DEF FeedInv, HandedOf
    <3>3. /\ w \in Nat /\ w \in 1 .. items[i].version
          /\ \A u \in 1 .. w : Told[i][u] = TextOf(i, u)
          BY <3>1, <3>2, RowTold
    <3>4. QED
          BY <3>3
  <2>5. Told[i][v] = TextOf(i, v)
        BY <1>2, <1>6
  <2>6. Learned'[i] = [w \in DOMAIN Learned[i] \cup {v} |-> TextOf(i, w)]
        BY <2>1, <2>2, <2>3
  <2>7. QED
        BY <2>4, <2>5, <2>6
<1>11. ASSUME NEW j \in ItemIds, j # i PROVE Learned'[j] = Learned[j]
  <2>1. HandedOf(j)' = HandedOf(j)
        BY <1>1, <1>3, <1>11 DEF HandedOf
  <2>2. QED
        BY <1>3, <2>1 DEF Learned
<1>12. Learned' = [Learned EXCEPT ![i] = [w \in DOMAIN Learned[i] \cup {v} |-> Told[i][w]]]
  <2>1. /\ Learned = [j \in ItemIds |-> Learned[j]]
        /\ Learned' = [j \in ItemIds |-> Learned'[j]]
        BY DEF Learned
  <2>2. QED
        BY <1>2, <1>10, <1>11, <2>1
<1>13. L1Feed!Learn(i, v)
      BY <1>4, <1>5, <1>8, <1>12 DEF L1Feed!Learn
<1>14. QED
      BY <1>2, <1>6, <1>13 DEF L1Feed!FeedNext

(* What a run without a consumer takes is a version of its item.           *)
LEMMA PrintTakes ==
    ASSUME FeedInv, UNCHANGED <<vars, payload, stage>>,
           NEW e \in Ids, PrintEvent(e),
           NEW i, NEW v, payload[e].item = i, payload[e].version = v
    PROVE  L1Feed!FeedNext
<1>1. /\ Readable[e] # NoRow
      /\ printed' = printed \cup {e} /\ handed' = handed /\ struck' = struck
      BY DEF PrintEvent, Relaying!Divert
<1>2. /\ payload' = payload /\ stage' = stage /\ items' = items /\ outbox' = outbox
      BY DEF vars
<1>3. Told' = Told /\ Text' = Text
      BY <1>2, QuietTold
<1>4. Learned' = Learned /\ Due' = Due
      BY <1>1, <1>2 DEF Learned, HandedOf, Due, Readable
<1>5. stage[e] = "committed"
      BY <1>1 DEF Readable
<1>6. i \in ItemIds /\ v \in 1 .. Len(Told[i])
      BY <1>5, RowTold
<1> DEFINE Taken(P, j) == {payload[f].version : f \in {g \in P : payload[g].item = j}}
<1>7. Taken(printed \cup {e}, i) = Taken(printed, i) \cup {v}
      OBVIOUS
<1>8. \A j \in ItemIds : j # i => Taken(printed \cup {e}, j) = Taken(printed, j)
      OBVIOUS
<1>9. /\ Printed = [j \in ItemIds |-> Taken(printed, j)]
      /\ Printed' = [j \in ItemIds |-> Taken(printed \cup {e}, j)]
      BY <1>1, <1>2 DEF Printed
<1> HIDE DEF Taken
<1>10. Printed' = [Printed EXCEPT ![i] = @ \cup {v}]
      BY <1>6, <1>7, <1>8, <1>9
<1>11. L1Feed!Divert(i, v)
      BY <1>3, <1>4, <1>10 DEF L1Feed!Divert
<1>12. QED
      BY <1>6, <1>11 DEF L1Feed!FeedNext

(* Marking rows published settles versions that L1 has, or that a run      *)
(* without a consumer has taken.                                           *)
LEMMA StrikeSettles ==
    ASSUME FeedInv, UNCHANGED <<vars, payload, stage>>, Relaying!Strike
    PROVE  L1Feed!Settle
<1>1. /\ payload' = payload /\ stage' = stage /\ items' = items /\ outbox' = outbox
      /\ handed' = handed /\ printed' = printed
      /\ struck \subseteq struck' /\ struck' \subseteq handed \cup printed
      BY DEF vars, Relaying!Strike
<1>2. Told' = Told /\ Text' = Text
      BY <1>1, QuietTold
<1>3. Learned' = Learned /\ Printed' = Printed
      BY <1>1 DEF Learned, HandedOf, Printed
<1>4. ASSUME NEW i \in ItemIds
      PROVE  /\ Due'[i] \in SUBSET Nat /\ Due'[i] \subseteq Due[i]
             /\ Due[i] \subseteq Due'[i] \cup DOMAIN Learned[i] \cup Printed[i]
  <2>1. /\ Due[i] = {payload[e].version : e \in {f \in Ids \ struck : Readable[f] = i}}
        /\ Due'[i] = {payload[e].version : e \in {f \in Ids \ struck' : Readable[f] = i}}
        BY <1>1 DEF Due, Readable
  <2>2. \A e \in Ids : Readable[e] = i =>
            stage[e] = "committed" /\ payload[e].item = i /\ payload[e].version \in Nat
        BY ReadableRow, NoRowAssumption DEF FeedInv, PlatformInv
  <2>3. /\ DOMAIN Learned[i] = {payload[e].version : e \in HandedOf(i)}
        /\ Printed[i] = {payload[e].version : e \in {f \in printed : payload[f].item = i}}
        BY LearnedText DEF FeedInv, Printed
  <2>4. \A e \in Ids : Readable[e] = i /\ e \in struck' =>
            e \in HandedOf(i) \/ (e \in printed /\ payload[e].item = i)
        BY <1>1, <2>2 DEF HandedOf
  <2>5. QED
        BY <1>1, <2>1, <2>2, <2>3, <2>4
<1>5. Due' \in [ItemIds -> SUBSET Nat]
  <2>1. Due' = [i \in ItemIds |-> Due'[i]]
        BY DEF Due
  <2>2. QED
        BY <1>4, <2>1
<1>6. QED
      BY <1>2, <1>3, <1>4, <1>5 DEF L1Feed!Settle

(* Nothing has been told, learned or is due before the first crawl.        *)
LEMMA FeedBegins == PlatformInit => L1Feed!FeedInit
<1> SUFFICES ASSUME PlatformInit PROVE L1Feed!FeedInit
    OBVIOUS
<1>1. Init /\ CrawlInv /\ PlatformInv /\ TypeOK /\ Chains
      BY CrawlInvInit, PlatformInvInit DEF PlatformInit, CrawlInv, TypeInv, ChainInv
<1>2. History!Init
      BY <1>1, ToldInit
<1>3. L1Feed!Init
      BY <1>2 DEF History!Init, L1Feed!Init
<1>4. ASSUME NEW i \in ItemIds PROVE Learned[i] = <<>>
  <2>1. HandedOf(i) = {}
        BY DEF HandedOf, PlatformInit
  <2>2. DOMAIN Learned[i] = {} /\ Learned[i] = [v \in DOMAIN Learned[i] |-> TextOf(i, v)]
        BY <1>1, <2>1, LearnedText
  <2>3. Learned[i] \in [1 .. 0 -> Texts]
    <3>1. 1 .. 0 = {}
          OBVIOUS
    <3>2. \A x \in {} : TextOf(i, x) \in Texts
          OBVIOUS
    <3>3. Learned[i] \in [{} -> Texts]
          BY <2>2, <3>2
    <3>4. QED
          BY <3>1, <3>3
  <2>4. Learned[i] \in Seq(Texts)
        BY <2>3, SeqDef
  <2>5. Len(Learned[i]) = 0
        BY <2>2, <2>4, LenProperties
  <2>6. QED
        BY <2>4, <2>5, EmptySeq
<1>5. ASSUME NEW i \in ItemIds PROVE Due[i] = {}
  <2>1. \A e \in Ids : Readable[e] = NoRow
        BY DEF PlatformInit, Readable
  <2>2. QED
        BY <2>1, NoRowAssumption DEF Due
<1>6. Printed = [i \in ItemIds |-> {}]
  <2>1. printed = {}
        BY DEF PlatformInit
  <2>2. QED
        BY <2>1 DEF Printed
<1>7. /\ Learned = [i \in ItemIds |-> <<>>] /\ Due = [i \in ItemIds |-> {}]
      BY <1>4, <1>5 DEF Learned, Due
<1>8. QED
      BY <1>3, <1>6, <1>7 DEF L1Feed!FeedInit

(* The other steps of a crawl make nothing public.                         *)
LEMMA CrawlsHide ==
    ASSUME TypeOK, HistoryInv, PlatformInv, WorkOK,
           NEW c \in Crawlers, CrawlStep(c), ~(Commit(c) /\ Keep(c))
    PROVE  /\ items' = items /\ outbox' = outbox
           /\ handed' = handed /\ printed' = printed /\ struck' = struck
           /\ \A e \in Ids : /\ stage'[e] = "committed" <=> stage[e] = "committed"
                             /\ stage[e] = "committed" => payload'[e] = payload[e]
<1>1. handed' = handed /\ printed' = printed /\ struck' = struck
      BY DEF CrawlStep, relayed
<1>2. CASE UNCHANGED log /\ (\/ TakeEntry(c) \/ Reject(c) \/ ProbeUrl(c) \/ ProbeText(c)
                             \/ Unchanged(c) \/ Resight(c) \/ Link(c))
  <2>1. items' = items /\ outbox' = outbox
        BY <1>2, QuietEvents
  <2>2. QED
        BY <1>1, <1>2, <2>1 DEF log
<1>3. CASE (Revise(c) \/ Create(c)) /\ Number(c)
  <2>1. items' = items /\ outbox' = outbox
        BY <1>3 DEF Revise, Create, Flush, tables
  <2>2. \A e \in Ids : \/ stage'[e] = stage[e] /\ payload'[e] = payload[e]
                       \/ stage[e] = "free" /\ stage'[e] = "open"
        BY <1>3 DEF Number, NextFree
  <2>3. QED
        BY <1>1, <2>1, <2>2
<1>4. CASE Abort(c) /\ Vanish(c)
  <2>1. items' = items /\ outbox' = outbox
        BY <1>4 DEF Abort, tables
  <2>2. \A e \in Ids : \/ stage'[e] = stage[e] /\ payload'[e] = payload[e]
                       \/ stage[e] = "open" /\ stage'[e] = "gone"
        BY <1>4 DEF Vanish, Own
  <2>3. QED
        BY <1>1, <2>1, <2>2
<1>5. QED
      BY <1>2, <1>3, <1>4 DEF CrawlStep

(* L0 as a whole implements Feed: whatever crawls race, roll back or       *)
(* commit late and however relay runs of both sorts overlap, L1 gets the   *)
(* texts of an item in the order the item had them, and misses none but    *)
(* those that a run without a consumer has marked published                *)
(* (canonical.py:61-86, 104-133; outbox.py:15-45; scheduler_run.py:69-71). *)
THEOREM Fed == PlatformSpec => FeedKept
<1> DEFINE Inv == CrawlInv /\ PlatformInv
<1>1. CrawlInv /\ PlatformInv => FeedInv
      BY ToldIsWhole DEF CrawlInv, TypeInv, HistoryInv, ChainInv, FeedInv
<1>2. (CrawlInv /\ PlatformInv => FeedInv)'
      BY <1>1, PTL
<1>3. CrawlInv /\ PlatformInv /\ [PlatformNext]_platformVars
          => [L1Feed!FeedNext]_<<Told, Text, Learned, Printed, Due>>
  <2> SUFFICES ASSUME CrawlInv, PlatformInv, [PlatformNext]_platformVars
               PROVE  [L1Feed!FeedNext]_<<Told, Text, Learned, Printed, Due>>
      OBVIOUS
  <2>1. CrawlInv' /\ PlatformInv'
        BY PlatformStep
  <2>2. FeedInv /\ FeedInv' /\ ChainInv /\ ChainInv' /\ WorkOK
        BY <1>1, <1>2, <2>1 DEF CrawlInv, TypeInv
  <2>3. ASSUME items' = items, outbox' = outbox,
               UNCHANGED <<handed, printed, struck>>,
               \A e \in Ids : /\ stage'[e] = "committed" <=> stage[e] = "committed"
                              /\ stage[e] = "committed" => payload'[e] = payload[e]
        PROVE  UNCHANGED <<Told, Text, Learned, Printed, Due>>
    <3>1. Told' = Told /\ Text' = Text
          BY <2>3, QuietTold
    <3>2. Learned' = Learned /\ Printed' = Printed /\ Due' = Due
          BY <2>2, <2>3, SameRows DEF FeedInv
    <3>3. QED
          BY <3>1, <3>2
  <2>4. CASE UNCHANGED platformVars
        BY <2>3, <2>4 DEF platformVars, vars
  <2>5. CASE RelayRun
    <3>1. UNCHANGED <<vars, payload, stage>>
          BY <2>5 DEF RelayRun, log
    <3>2. CASE Relaying!Strike
          BY <2>2, <3>1, <3>2, StrikeSettles DEF L1Feed!FeedNext
    <3>3. ASSUME NEW e \in Ids, Relaying!HandOver(e) \/ PrintEvent(e)
          PROVE  L1Feed!FeedNext
      <4>1. \E i, v : payload[e].item = i /\ payload[e].version = v
            OBVIOUS
      <4>2. QED
            BY <2>2, <3>1, <3>3, <4>1, HandOverLearns, PrintTakes
    <3>4. QED
          BY <2>5, <3>2, <3>3 DEF RelayRun
  <2>6. ASSUME NEW c \in Crawlers, CrawlStep(c)
        PROVE  [L1Feed!FeedNext]_<<Told, Text, Learned, Printed, Due>>
    <3>1. CASE Commit(c) /\ Keep(c)
      <4>1. UNCHANGED <<handed, printed, struck>>
            BY <2>6 DEF CrawlStep, relayed
      <4>2. L1Feed!Publish
            BY <2>2, <3>1, <4>1, CommitPublishes
      <4>3. QED
            BY <4>2 DEF L1Feed!FeedNext
    <3>2. CASE ~(Commit(c) /\ Keep(c))
          BY <2>2, <2>3, <2>6, <3>2, CrawlsHide DEF FeedInv
    <3>3. QED
          BY <3>1, <3>2
  <2>7. QED
        BY <2>4, <2>5, <2>6 DEF PlatformNext
<1>4. QED
      BY <1>3, FeedBegins, PlatformCorrect, PTL
      DEF PlatformSpec, FeedKept, L1Feed!FeedSpec, L1Feed!feedVars

(* An item no event of which a run without a consumer has taken: L1's      *)
(* texts of it are the first ones of its history, without a hole           *)
(* (outbox.py:33-45, relay.py:14-21).                                      *)
THEOREM NoHoles == PlatformSpec => []LearnedWhole
<1>1. CrawlInv /\ PlatformInv => LearnedWhole
  <2> SUFFICES ASSUME CrawlInv, PlatformInv, NEW i \in ItemIds, Printed[i] = {},
                      NEW v \in DOMAIN Learned[i]
               PROVE  /\ 1 .. v \subseteq DOMAIN Learned[i]
                      /\ v \in 1 .. Len(Told[i]) /\ Learned[i][v] = Told[i][v]
      BY DEF LearnedWhole
  <2>1. FeedInv
        BY ToldIsWhole DEF CrawlInv, TypeInv, HistoryInv, ChainInv, FeedInv
  <2>2. /\ DOMAIN Learned[i] = {payload[f].version : f \in HandedOf(i)}
        /\ Learned[i][v] = TextOf(i, v)
        BY <2>1, LearnedText DEF FeedInv
  <2>3. PICK f \in HandedOf(i) : payload[f].version = v
        BY <2>2
  <2>4. f \in handed /\ f \in Ids /\ stage[f] = "committed" /\ payload[f].item = i
        BY <2>3, HandedRow, <2>1 DEF FeedInv, HandedOf
  <2>5. /\ items[i] # NoRow /\ v \in Nat /\ v \in 1 .. items[i].version
        /\ Len(Told[i]) = items[i].version /\ items[i].version \in Nat
        /\ \A w \in 1 .. v : Told[i][w] = TextOf(i, w)
        BY <2>1, <2>3, <2>4, RowTold
  <2>6. ASSUME NEW w \in 1 .. v PROVE w \in DOMAIN Learned[i]
    <3>1. CASE w = v
          BY <3>1
    <3>2. CASE w # v
      <4>1. w \in 1 .. items[i].version /\ w < v
            BY <2>5, <3>2
      <4>2. PICK y \in outbox : y.item = i /\ y.version = w
            BY <2>1, <2>5, <4>1 DEF FeedInv, HistoryInv, Committed, Recorded
      <4>3. PICK g \in Ids : stage[g] = "committed" /\ payload[g] = y
            BY <4>2 DEF PlatformInv, RowsOK
      <4>4. g \in handed \cup struck
            BY <2>3, <2>4, <4>1, <4>2, <4>3 DEF PlatformInv, HandedOK
      <4>5. g \notin printed
            BY <4>2, <4>3 DEF Printed
      <4>6. g \in HandedOf(i)
            BY <4>2, <4>3, <4>4, <4>5 DEF PlatformInv, HandedOK, HandedOf
      <4>7. QED
            BY <2>2, <4>2, <4>3, <4>6
    <3>3. QED
          BY <3>1, <3>2
  <2>7. QED
        BY <2>2, <2>5, <2>6
<1>2. QED
      BY <1>1, PlatformCorrect, PTL DEF PlatformSpec
=============================================================================
