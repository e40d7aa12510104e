---------------------------- MODULE ObjectStore -----------------------------
(***************************************************************************)
(* The object store beside the database (storage/object_store.py): a crawl *)
(* puts the bytes of a page or of a text under a key made of their digest, *)
(* then inserts the row that refers to them, and its caller commits        *)
(* (ingest/raw_store.py, ingest/canonical.py).  Nothing joins the two: an  *)
(* object outlives a transaction that is rolled back.                      *)
(*                                                                         *)
(* put_bytes of the file store is two steps of the file system after its   *)
(* look at the path: opening for writing empties the file, writing fills   *)
(* it.  put_object of S3 replaces an object at once.                       *)
(*                                                                         *)
(* get_content of the query API (query/api.py) reads the row of an item,   *)
(* then the object the row names, and returns the bytes as they are.       *)
(***************************************************************************)
EXTENDS Naturals

CONSTANTS
    Writers,    \* sessions that store documents
    Keys,       \* the keys of the objects: one per source and digest
    Items,      \* content items, whose rows name the object of their text
    Readers,    \* callers of get_content
    Kinds,      \* the object_store_backend settings considered
    MaxFaults,  \* bound: crashes and failed writes
    NoKey       \* no key, and no item

ASSUME ObjectStoreAssumption ==
    /\ Kinds \subseteq {"file", "s3"}
    /\ MaxFaults \in Nat
    /\ NoKey \notin Keys \cup Items

VARIABLES
    kind,       \* the backend
    object,     \* what is under a key
    refs,       \* keys that committed rows refer to
    item,       \* per item: the key its committed row names, with its hash
    pending,    \* per writer: keys its uncommitted rows refer to
    txItem,     \* per writer: the keys its uncommitted item rows name
    put,        \* per writer: the key it is putting
    step,       \* per writer: how far put_bytes is
    interrupted,    \* keys a write of which did not come to its end
    faults,     \* crashes and failed writes so far
    answer      \* per reader: its call of get_content

database == <<refs, item, pending, txItem>>
vars == <<kind, object, refs, item, pending, txItem, put, step, interrupted,
          faults, answer>>

NoRows == [i \in Items |-> NoKey]

(* A call of get_content: the item, the key and with it the hash that its  *)
(* row held, and the bytes: of which text, and how much of it.             *)
Answers == [item : Items \cup {NoKey}, key : Keys \cup {NoKey},
            of : Keys \cup {NoKey},
            bytes : {"unread", "absent", "cut", "whole"}]

NoAnswer == [item |-> NoKey, key |-> NoKey, of |-> NoKey, bytes |-> "unread"]

Init ==
    /\ kind \in Kinds
    /\ object = [k \in Keys |-> "absent"]
    /\ refs = {}
    /\ item = NoRows
    /\ pending = [w \in Writers |-> {}]
    /\ txItem = [w \in Writers |-> NoRows]
    /\ put = [w \in Writers |-> NoKey]
    /\ step = [w \in Writers |-> "none"]
    /\ interrupted = {}
    /\ faults = 0
    /\ answer = [r \in Readers |-> NoAnswer]

-----------------------------------------------------------------------------
(* The writers.                                                            *)

Step(w, from, to) == step[w] = from /\ step' = [step EXCEPT ![w] = to]

(* put_bytes is called for a document with this digest.                    *)
Put(w, k) ==
    /\ Step(w, "none", "look")
    /\ put' = [put EXCEPT ![w] = k]
    /\ UNCHANGED <<kind, object, database, interrupted, faults, answer>>

(* S3: the object is there as a whole.                                     *)
PutObject(w) ==
    /\ kind = "s3"
    /\ Step(w, "look", "stored")
    /\ object' = [object EXCEPT ![put[w]] = "whole"]
    /\ UNCHANGED <<kind, database, put, interrupted, faults, answer>>

(* File store: the path exists, nothing is written.                        *)
Exists(w) ==
    /\ kind = "file"
    /\ Step(w, "look", "stored")
    /\ object[put[w]] # "absent"
    /\ UNCHANGED <<kind, object, database, put, interrupted, faults, answer>>

(* The path does not exist ...                                             *)
Missing(w) ==
    /\ kind = "file"
    /\ Step(w, "look", "open")
    /\ object[put[w]] = "absent"
    /\ UNCHANGED <<kind, object, database, put, interrupted, faults, answer>>

(* ... write_bytes opens it, which empties what another writer may have    *)
(* put there meanwhile ...                                                 *)
Open(w) ==
    /\ Step(w, "open", "write")
    /\ object' = [object EXCEPT ![put[w]] = "cut"]
    /\ UNCHANGED <<kind, database, put, interrupted, faults, answer>>

(* ... and writes it.                                                      *)
WriteBytes(w) ==
    /\ Step(w, "write", "stored")
    /\ object' = [object EXCEPT ![put[w]] = "whole"]
    /\ UNCHANGED <<kind, database, put, interrupted, faults, answer>>

KeepPut(w) == UNCHANGED put

(* put_bytes has returned the key.                                         *)
ReturnKey(w) == put' = [put EXCEPT ![w] = NoKey]

(* A raw document, or an entry's media, that refers to the object is       *)
(* inserted.                                                               *)
Refer(w) ==
    /\ Step(w, "stored", "none")
    /\ pending' = [pending EXCEPT ![w] = @ \cup {put[w]}]
    /\ ReturnKey(w)
    /\ UNCHANGED <<kind, object, refs, item, txItem, interrupted, faults, answer>>

(* build_content_item or rebuild_canonical: the row of an item is inserted *)
(* or updated, unless another session holds it; it names the object, and   *)
(* so does the version row.                                                *)
ReferItem(w, i) ==
    /\ Step(w, "stored", "none")
    /\ \A v \in Writers \ {w} : txItem[v][i] = NoKey
    /\ txItem' = [txItem EXCEPT ![w] = [@ EXCEPT ![i] = put[w]]]
    /\ pending' = [pending EXCEPT ![w] = @ \cup {put[w]}]
    /\ ReturnKey(w)
    /\ UNCHANGED <<kind, object, refs, item, interrupted, faults, answer>>

(* The text is not new, or is another item's: no row will name the object. *)
Unused(w) ==
    /\ Step(w, "stored", "none")
    /\ ReturnKey(w)
    /\ UNCHANGED <<kind, object, database, interrupted, faults, answer>>

(* A failed or dying writer at its open file leaves it cut for good.       *)
Interrupt(w) ==
    interrupted' = interrupted \cup {k \in Keys : step[w] = "write" /\ k = put[w]}

ReferredAnyway(w) == pending[w] \cup {put[w]}

(* put_bytes has raised before the row was inserted.                       *)
AfterFailedPut(w) == pending[w]

(* put_bytes raises (disk full, S3 unreachable, its answer lost): the      *)
(* entry is given up, the transaction goes on with the others.             *)
PutFails(w) ==
    /\ step[w] \in {"look", "open", "write"}
    /\ faults < MaxFaults
    /\ faults' = faults + 1
    /\ step' = [step EXCEPT ![w] = "none"]
    /\ put' = [put EXCEPT ![w] = NoKey]
    /\ pending' = [pending EXCEPT ![w] = AfterFailedPut(w)]
    /\ Interrupt(w)
    /\ \/ UNCHANGED object
       \/ kind = "s3" /\ object' = [object EXCEPT ![put[w]] = "whole"]
    /\ UNCHANGED <<kind, refs, item, txItem, answer>>

(* The transaction is over, and its rows are no longer the session's own.  *)
Close(w) ==
    /\ pending' = [pending EXCEPT ![w] = {}]
    /\ txItem' = [txItem EXCEPT ![w] = NoRows]

(* The crawl's caller commits between two documents.                       *)
Commit(w) ==
    /\ step[w] = "none"
    /\ pending[w] # {}
    /\ refs' = refs \cup pending[w]
    /\ item' = [i \in Items |->
                   IF txItem[w][i] # NoKey THEN txItem[w][i] ELSE item[i]]
    /\ Close(w)
    /\ UNCHANGED <<kind, object, put, step, interrupted, faults, answer>>

(* The transaction is rolled back; what was put stays in the store.        *)
RollBack(w) ==
    /\ step[w] = "none"
    /\ pending[w] # {}
    /\ Close(w)
    /\ UNCHANGED <<kind, object, refs, item, put, step, interrupted, faults, answer>>

(* The process dies in put_bytes or before its row, and its transaction    *)
(* with it.                                                                *)
Crash(w) ==
    /\ step[w] # "none"
    /\ faults < MaxFaults
    /\ faults' = faults + 1
    /\ step' = [step EXCEPT ![w] = "none"]
    /\ put' = [put EXCEPT ![w] = NoKey]
    /\ Close(w)
    /\ Interrupt(w)
    /\ UNCHANGED <<kind, object, refs, item, answer>>

-----------------------------------------------------------------------------
(* The readers.                                                            *)

(* get_content reads the committed row of an item that names an object,    *)
(* which those of trend entries do not ...                                 *)
GetRow(r, i) ==
    /\ answer[r] = NoAnswer
    /\ item[i] # NoKey
    /\ answer' = [answer EXCEPT ![r] = [@ EXCEPT !.item = i, !.key = item[i]]]
    /\ UNCHANGED <<kind, object, database, put, step, interrupted, faults>>

RefNow(r) == item[answer[r].item]

(* ... whose clean_text_ref it has with the hash, ...                      *)
Ref(r) == answer[r].key

(* ... then the object, in whatever state that is ...                      *)
GetObject(r) ==
    /\ answer[r].item # NoKey
    /\ answer[r].bytes = "unread"
    /\ answer' = [answer EXCEPT ![r] =
                    [@ EXCEPT !.of = Ref(r), !.bytes = object[Ref(r)]]]
    /\ UNCHANGED <<kind, object, database, put, step, interrupted, faults>>

(* ... and returns both, or raises if there is no object.                  *)
Answer(r) ==
    /\ answer[r].bytes # "unread"
    /\ answer' = [answer EXCEPT ![r] = NoAnswer]
    /\ UNCHANGED <<kind, object, database, put, step, interrupted, faults>>

Next ==
    \/ \E w \in Writers :
        \/ \E k \in Keys : Put(w, k)
        \/ PutObject(w) \/ Exists(w) \/ Missing(w) \/ Open(w) \/ WriteBytes(w)
        \/ Refer(w) \/ Unused(w) \/ \E i \in Items : ReferItem(w, i)
        \/ PutFails(w) \/ Commit(w) \/ RollBack(w) \/ Crash(w)
    \/ \E r \in Readers :
        \/ \E i \in Items : GetRow(r, i)
        \/ GetObject(r) \/ Answer(r)

Spec == Init /\ [][Next]_vars

-----------------------------------------------------------------------------
(* Properties.                                                             *)

(* Types, and that a writer has a key exactly while it puts one, a reader  *)
(* with the item (object_store.py:38-44, api.py:66-74).                    *)
TypeOK ==
    /\ kind \in Kinds
    /\ object \in [Keys -> {"absent", "cut", "whole"}]
    /\ refs \subseteq Keys
    /\ item \in [Items -> Keys \cup {NoKey}]
    /\ pending \in [Writers -> SUBSET Keys]
    /\ txItem \in [Writers -> [Items -> Keys \cup {NoKey}]]
    /\ put \in [Writers -> Keys \cup {NoKey}]
    /\ step \in [Writers -> {"none", "look", "open", "write", "stored"}]
    /\ interrupted \subseteq Keys
    /\ faults \in 0 .. MaxFaults
    /\ answer \in [Readers -> Answers]
    /\ \A w \in Writers : put[w] = NoKey <=> step[w] = "none"
    /\ \A r \in Readers : answer[r].item = NoKey <=> answer[r].key = NoKey

(* A file can be cut while a writer has it open, and for good if a write   *)
(* of it was interrupted.                                                  *)
CanBeCut(k) ==
    /\ kind = "file"
    /\ \/ \E w \in Writers : step[w] = "write" /\ put[w] = k
       \/ k \in interrupted

(* The object of a committed row is whole, whatever crashes, fails or is   *)
(* rolled back, with two exceptions of the file store: a second writer     *)
(* that had not found it is writing it again, and a write of it was        *)
(* interrupted (object_store.py:38-44, 74-76; raw_store.py:37-56).         *)
RefsAccounted ==
    \A k \in refs : object[k] = "whole" \/ (object[k] = "cut" /\ CanBeCut(k))

(* get_content finds an object, and it is of the text whose hash the       *)
(* answer holds, also when the item is revised or rebuilt between the two  *)
(* reads.  It is the whole text unless at that moment the file is open for *)
(* writing or a write of it was interrupted: then the answer holds a part, *)
(* under the hash of the whole (api.py:67-74; canonical.py:54-57, 70,      *)
(* 208-217; object_store.py:38-47).                                        *)
AnswerConsistent ==
    [][\A r \in Readers :
          answer[r].bytes = "unread" /\ answer'[r].bytes # "unread" =>
              /\ answer'[r].of = answer'[r].key
              /\ \/ answer'[r].bytes = "whole"
                 \/ answer'[r].bytes = "cut" /\ CanBeCut(answer'[r].key)]_vars
=============================================================================
