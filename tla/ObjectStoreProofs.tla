------------------------- MODULE ObjectStoreProofs --------------------------
(***************************************************************************)
(* Proofs about ObjectStore, for any number of writers, keys and faults:   *)
(* types, what can be said of the object of a committed row, and what      *)
(* get_content returns.                                                    *)
(***************************************************************************)
EXTENDS ObjectStore, TLAPS

(* Only a file that is being written, or whose write was interrupted, is   *)
(* cut.                                                                    *)
CutExcused == \A k \in Keys : object[k] = "cut" => CanBeCut(k)

(* Rows come after their objects.                                          *)
ObjectFirst ==
    /\ \A k \in refs : object[k] # "absent"
    /\ \A w \in Writers : \A k \in pending[w] : object[k] # "absent"
    /\ \A w \in Writers : step[w] = "stored" => object[put[w]] # "absent"

(* Item rows and answers refer to what raw, version and item rows refer to.*)
Referred ==
    /\ \A i \in Items : item[i] \in refs \cup {NoKey}
    /\ \A w \in Writers, i \in Items : txItem[w][i] \in pending[w] \cup {NoKey}
    /\ \A r \in Readers : answer[r].item # NoKey => answer[r].key \in refs

FilesOnly == \A w \in Writers : step[w] \in {"open", "write"} => kind = "file"

StoreInv == TypeOK /\ FilesOnly /\ ObjectFirst /\ CutExcused /\ Referred

(* The store starts empty.                                                 *)
LEMMA StoreInit == Init => StoreInv
BY ObjectStoreAssumption
   DEF Init, StoreInv, TypeOK, FilesOnly, ObjectFirst, CutExcused, Referred,
       NoRows, NoAnswer, Answers

(* A session that ends has no rows of its own.                             *)
LEMMA CloseType ==
    ASSUME TypeOK, NEW w \in Writers, Close(w)
    PROVE  /\ pending' \in [Writers -> SUBSET Keys]
           /\ txItem' \in [Writers -> [Items -> Keys \cup {NoKey}]]
           /\ \A v \in Writers, i \in Items :
                  /\ v = w => pending'[v] = {} /\ txItem'[v][i] = NoKey
                  /\ v # w => pending'[v] = pending[v] /\ txItem'[v][i] = txItem[v][i]
<1>1. NoRows \in [Items -> Keys \cup {NoKey}]
  BY DEF NoRows
<1>2. \A i \in Items : NoRows[i] = NoKey
  BY DEF NoRows
<1> QED
  BY <1>1, <1>2 DEF Close, TypeOK

(* Types under each step of put_bytes, of its session and of its process.  *)
LEMMA TypeStep == TypeOK /\ [Next]_vars => TypeOK'
<1> SUFFICES ASSUME TypeOK, [Next]_vars PROVE TypeOK'
  OBVIOUS
<1> USE ObjectStoreAssumption DEF TypeOK, Step, database
<1>1. ASSUME NEW w \in Writers, NEW k \in Keys, Put(w, k) PROVE TypeOK'
  BY <1>1 DEF Put
<1>2. ASSUME NEW w \in Writers, PutObject(w) PROVE TypeOK'
  BY <1>2 DEF PutObject
<1>3. ASSUME NEW w \in Writers, Exists(w) \/ Missing(w) PROVE TypeOK'
  BY <1>3 DEF Exists, Missing
<1>4. ASSUME NEW w \in Writers, Open(w) \/ WriteBytes(w) PROVE TypeOK'
  <2>1. put[w] \in Keys
    BY <1>4 DEF Open, WriteBytes
  <2>2. /\ step' \in [Writers -> {"none", "look", "open", "write", "stored"}]
        /\ \A v \in Writers : step'[v] = "none" <=> step[v] = "none"
    BY <1>4 DEF Open, WriteBytes
  <2>3. object' \in [Keys -> {"absent", "cut", "whole"}]
    BY <1>4, <2>1 DEF Open, WriteBytes
  <2>4. UNCHANGED <<kind, refs, item, pending, txItem, put, interrupted, faults, answer>>
    BY <1>4 DEF Open, WriteBytes
  <2> QED
    BY <2>2, <2>3, <2>4
<1>5. ASSUME NEW w \in Writers,
             Refer(w) \/ Unused(w) \/ \E i \in Items : ReferItem(w, i)
      PROVE  TypeOK'
  <2>1. CASE Refer(w)
    <3>1. pending' \in [Writers -> SUBSET Keys]
      BY <2>1 DEF Refer
    <3> QED
      BY <2>1, <3>1 DEF Refer, ReturnKey
  <2>3. CASE Unused(w)
    BY <2>3 DEF Unused, ReturnKey
  <2>2. ASSUME NEW i \in Items, ReferItem(w, i) PROVE TypeOK'
    <3>1. put[w] \in Keys
      BY <2>2 DEF ReferItem
    <3>2. txItem' \in [Writers -> [Items -> Keys \cup {NoKey}]]
      BY <2>2, <3>1 DEF ReferItem
    <3>3. pending' \in [Writers -> SUBSET Keys]
      BY <2>2, <3>1 DEF ReferItem
    <3> QED
      BY <2>2, <3>2, <3>3 DEF ReferItem, ReturnKey
  <2> QED
    BY <1>5, <2>1, <2>2, <2>3
<1>6. ASSUME NEW w \in Writers, PutFails(w) PROVE TypeOK'
  <2>1. put[w] \in Keys /\ faults' \in 0 .. MaxFaults
    BY <1>6 DEF PutFails
  <2>2. object' \in [Keys -> {"absent", "cut", "whole"}]
    BY <1>6, <2>1 DEF PutFails
  <2>3. /\ step' = [step EXCEPT ![w] = "none"] /\ put' = [put EXCEPT ![w] = NoKey]
        /\ pending' = [pending EXCEPT ![w] = pending[w]]
        /\ interrupted' \subseteq Keys
        /\ UNCHANGED <<kind, refs, item, txItem, answer>>
    BY <1>6 DEF PutFails, AfterFailedPut, Interrupt
  <2> QED
    BY <2>1, <2>2, <2>3
<1>7. ASSUME NEW w \in Writers, Commit(w) \/ RollBack(w) PROVE TypeOK'
  <2>1. CASE Commit(w)
    <3>1. item' \in [Items -> Keys \cup {NoKey}]
      BY <2>1 DEF Commit
    <3> QED
      BY <2>1, <3>1, CloseType DEF Commit
  <2>2. CASE RollBack(w)
    BY <2>2, CloseType DEF RollBack
  <2> QED
    BY <1>7, <2>1, <2>2
<1>8. ASSUME NEW w \in Writers, Crash(w) PROVE TypeOK'
  <2>1. /\ pending' \in [Writers -> SUBSET Keys]
        /\ txItem' \in [Writers -> [Items -> Keys \cup {NoKey}]]
    BY <1>8, CloseType DEF Crash
  <2>2. /\ faults' \in 0 .. MaxFaults /\ interrupted' \subseteq Keys
        /\ step' = [step EXCEPT ![w] = "none"] /\ put' = [put EXCEPT ![w] = NoKey]
        /\ UNCHANGED <<kind, object, refs, item, answer>>
    BY <1>8 DEF Crash, Interrupt
  <2> QED
    BY <2>1, <2>2
<1>9. ASSUME NEW r \in Readers,
             (\E i \in Items : GetRow(r, i)) \/ GetObject(r) \/ Answer(r)
      PROVE  TypeOK'
  <2>1. ASSUME NEW i \in Items, GetRow(r, i) PROVE TypeOK'
    BY <2>1 DEF GetRow, Answers, NoAnswer
  <2>2. CASE GetObject(r)
    <3> DEFINE a == [answer[r] EXCEPT !.of = Ref(r), !.bytes = object[Ref(r)]]
    <3>1. /\ answer[r] \in Answers /\ answer[r].key \in Keys
          /\ answer[r].item # NoKey
      BY <2>2 DEF GetObject, Answers
    <3>2. object[answer[r].key] \in {"absent", "cut", "whole"}
      BY <3>1
    <3>3. /\ a \in Answers
          /\ a.item = answer[r].item /\ a.key = answer[r].key
      BY <3>1, <3>2 DEF Answers, Ref
    <3>4. answer' = [answer EXCEPT ![r] = a]
      BY <2>2 DEF GetObject
    <3> HIDE DEF a
    <3>5. /\ answer' \in [Readers -> Answers]
          /\ \A q \in Readers : answer'[q].item = NoKey <=> answer'[q].key = NoKey
      BY <3>1, <3>3, <3>4
    <3> QED
      BY <2>2, <3>5 DEF GetObject
  <2>3. CASE Answer(r)
    BY <2>3 DEF Answer, NoAnswer, Answers
  <2> QED
    BY <1>9, <2>1, <2>2, <2>3
<1>10. CASE UNCHANGED vars
  BY <1>10 DEF vars
<1> QED
  BY <1>1, <1>2, <1>3, <1>4, <1>5, <1>6, <1>7, <1>8, <1>9, <1>10 DEF Next

(* A writer that leaves its open file marks its key as interrupted.        *)
LEMMA InterruptExcused ==
    ASSUME StoreInv, NEW w \in Writers, Interrupt(w),
           step' = [step EXCEPT ![w] = "none"], put' = [put EXCEPT ![w] = NoKey],
           kind' = kind,
           NEW k \in Keys, CanBeCut(k)
    PROVE  CanBeCut(k)'
BY DEF StoreInv, TypeOK, Interrupt, CanBeCut

(* The order of puts and rows, and the excuses, under each step.           *)
LEMMA OrderStep ==
    StoreInv /\ [Next]_vars => FilesOnly' /\ ObjectFirst' /\ CutExcused'
<1> SUFFICES ASSUME StoreInv, [Next]_vars
             PROVE  FilesOnly' /\ ObjectFirst' /\ CutExcused'
  OBVIOUS
<1> DEFINE Kept == FilesOnly' /\ ObjectFirst' /\ CutExcused'
<1> USE DEF StoreInv, TypeOK, Step, database
<1>1. ASSUME NEW w \in Writers, NEW k \in Keys, Put(w, k) PROVE Kept
  BY <1>1 DEF Put, FilesOnly, ObjectFirst, CutExcused, CanBeCut
<1>2. ASSUME NEW w \in Writers, PutObject(w) PROVE Kept
  <2>1. FilesOnly' /\ ObjectFirst'
    BY <1>2 DEF PutObject, FilesOnly, ObjectFirst
  <2>2. CutExcused'
    BY <1>2 DEF PutObject, CutExcused, CanBeCut
  <2> QED
    BY <2>1, <2>2
<1>3. ASSUME NEW w \in Writers, Exists(w) PROVE Kept
  BY <1>3 DEF Exists, FilesOnly, ObjectFirst, CutExcused, CanBeCut
<1>4. ASSUME NEW w \in Writers, Missing(w) PROVE Kept
  BY <1>4 DEF Missing, FilesOnly, ObjectFirst, CutExcused, CanBeCut
<1>5. ASSUME NEW w \in Writers, Open(w) PROVE Kept
  <2>1. FilesOnly' /\ ObjectFirst'
    BY <1>5 DEF Open, FilesOnly, ObjectFirst
  <2>2. CutExcused'
    BY <1>5 DEF Open, FilesOnly, CutExcused, CanBeCut
  <2> QED
    BY <2>1, <2>2
<1>6. ASSUME NEW w \in Writers, WriteBytes(w) PROVE Kept
  <2>1. FilesOnly' /\ ObjectFirst'
    BY <1>6 DEF WriteBytes, FilesOnly, ObjectFirst
  <2>2. CutExcused'
    BY <1>6 DEF WriteBytes, CutExcused, CanBeCut
  <2> QED
    BY <2>1, <2>2
<1>7. ASSUME NEW w \in Writers,
             Refer(w) \/ Unused(w) \/ \E i \in Items : ReferItem(w, i)
      PROVE  Kept
  <2>1. /\ UNCHANGED <<kind, object, refs, interrupted>>
        /\ Step(w, "stored", "none")
        /\ put' = [put EXCEPT ![w] = NoKey]
        /\ \A v \in Writers : pending'[v] \subseteq
              IF v = w THEN pending[w] \cup {put[w]} ELSE pending[v]
    BY <1>7 DEF Refer, Unused, ReferItem, ReturnKey
  <2>2. FilesOnly'
    BY <2>1 DEF FilesOnly
  <2>3. object[put[w]] # "absent"
    BY <2>1 DEF ObjectFirst
  <2>4. ObjectFirst'
    BY <2>1, <2>3 DEF ObjectFirst
  <2>5. CutExcused'
    BY <2>1 DEF CutExcused, CanBeCut
  <2> QED
    BY <2>2, <2>4, <2>5
<1>8. ASSUME NEW w \in Writers, PutFails(w) PROVE Kept
  <2>1. FilesOnly'
    BY <1>8 DEF PutFails, FilesOnly
  <2>2. \A k \in Keys : object'[k] = object[k] \/ object'[k] = "whole"
    BY <1>8 DEF PutFails
  <2>3. ObjectFirst'
    BY <1>8, <2>2 DEF PutFails, AfterFailedPut, ObjectFirst
  <2>4. CutExcused'
    BY <1>8, <2>2, InterruptExcused DEF PutFails, CutExcused
  <2> QED
    BY <2>1, <2>3, <2>4
<1>9. ASSUME NEW w \in Writers, Commit(w) \/ RollBack(w) PROVE Kept
  BY <1>9 DEF Commit, RollBack, Close, FilesOnly, ObjectFirst, CutExcused, CanBeCut
<1>10. ASSUME NEW w \in Writers, Crash(w) PROVE Kept
  <2>1. FilesOnly' /\ ObjectFirst'
    BY <1>10 DEF Crash, Close, FilesOnly, ObjectFirst
  <2>2. CutExcused'
    BY <1>10, InterruptExcused DEF Crash, CutExcused
  <2> QED
    BY <2>1, <2>2
<1>11. ASSUME NEW r \in Readers,
              (\E i \in Items : GetRow(r, i)) \/ GetObject(r) \/ Answer(r)
       PROVE  Kept
  <2>1. UNCHANGED <<kind, object, refs, pending, put, step, interrupted>>
    BY <1>11 DEF GetRow, GetObject, Answer
  <2> QED
    BY <2>1 DEF FilesOnly, ObjectFirst, CutExcused, CanBeCut
<1>12. CASE UNCHANGED vars
  BY <1>12 DEF vars, FilesOnly, ObjectFirst, CutExcused, CanBeCut
<1> QED
  BY <1>1, <1>2, <1>3, <1>4, <1>5, <1>6, <1>7, <1>8, <1>9, <1>10, <1>11, <1>12
  DEF Next

(* What item rows and answers refer to stays among what rows refer to:     *)
(* a session's item rows are committed with its other rows.                *)
LEMMA ReferredStep == StoreInv /\ [Next]_vars => Referred'
<1> SUFFICES ASSUME StoreInv, [Next]_vars PROVE Referred'
  OBVIOUS
<1> USE DEF StoreInv, TypeOK, Step, database
<1>1. CASE UNCHANGED <<refs, item, pending, txItem, answer>>
  BY <1>1 DEF Referred
<1>2. ASSUME NEW w \in Writers, Refer(w) PROVE Referred'
  BY <1>2 DEF Refer, Referred
<1>3. ASSUME NEW w \in Writers, NEW i \in Items, ReferItem(w, i) PROVE Referred'
  BY <1>3 DEF ReferItem, Referred
<1>4. ASSUME NEW w \in Writers, PutFails(w) PROVE Referred'
  BY <1>4 DEF PutFails, AfterFailedPut, Referred
<1>5. ASSUME NEW w \in Writers, Commit(w) PROVE Referred'
  <2>1. \A i \in Items : item'[i] \in refs' \cup {NoKey}
    BY <1>5 DEF Commit, Referred
  <2>2. \A v \in Writers, i \in Items : txItem'[v][i] \in pending'[v] \cup {NoKey}
    BY <1>5, CloseType DEF Commit, Referred
  <2>3. \A r \in Readers : answer'[r].item # NoKey => answer'[r].key \in refs'
    BY <1>5 DEF Commit, Referred
  <2> QED
    BY <2>1, <2>2, <2>3 DEF Referred
<1>6. ASSUME NEW w \in Writers, RollBack(w) \/ Crash(w) PROVE Referred'
  <2>1. UNCHANGED <<refs, item, answer>> /\ Close(w)
    BY <1>6 DEF RollBack, Crash
  <2> QED
    BY <2>1, CloseType DEF Referred
<1>7. ASSUME NEW r \in Readers, NEW i \in Items, GetRow(r, i) PROVE Referred'
  BY <1>7 DEF GetRow, Referred, Answers, NoAnswer
<1>8. ASSUME NEW r \in Readers, GetObject(r) PROVE Referred'
  BY <1>8 DEF GetObject, Referred, Answers
<1>9. ASSUME NEW r \in Readers, Answer(r) PROVE Referred'
  BY <1>9 DEF Answer, Referred, NoAnswer
<1>10. ASSUME NEW w \in Writers,
              \/ \E k \in Keys : Put(w, k)
              \/ PutObject(w) \/ Exists(w) \/ Missing(w) \/ Open(w) \/ WriteBytes(w)
              \/ Unused(w)
       PROVE  Referred'
  BY <1>1, <1>10 DEF Put, PutObject, Exists, Missing, Open, WriteBytes, Unused
<1>11. CASE UNCHANGED vars
  BY <1>1, <1>11 DEF vars
<1> QED
  BY <1>2, <1>3, <1>4, <1>5, <1>6, <1>7, <1>8, <1>9, <1>10, <1>11 DEF Next

(* The invariant under each step.                                          *)
LEMMA StoreStep == StoreInv /\ [Next]_vars => StoreInv'
BY TypeStep, OrderStep, ReferredStep DEF StoreInv

(* A writer has a key exactly while it puts one, whatever fails or dies    *)
(* (object_store.py:38-44).                                                *)
THEOREM TypeCorrect == Spec => []TypeOK
<1>1. Init => TypeOK
  BY StoreInit DEF StoreInv
<1> QED
  BY <1>1, TypeStep, PTL DEF Spec

(* A committed row's object exists, and only a file can be cut: one that   *)
(* is being written again or a write of which was interrupted              *)
(* (object_store.py:38-44, raw_store.py:37-56).                            *)
THEOREM ObjectsAccounted == Spec => []RefsAccounted
<1>1. Spec => []StoreInv
  BY StoreInit, StoreStep, PTL DEF Spec
<1>2. StoreInv => RefsAccounted
  BY DEF StoreInv, TypeOK, ObjectFirst, CutExcused, CanBeCut, RefsAccounted
<1> QED
  BY <1>1, <1>2, PTL

(* get_content never misses the object, never returns another text than    *)
(* the one whose hash it returns, and returns a part of it only where the  *)
(* file store can leave a part (api.py:67-74; canonical.py:54-57, 70,      *)
(* 208-217; object_store.py:38-47).                                        *)
THEOREM AnswersConsistent == Spec => AnswerConsistent
<1>1. ASSUME StoreInv, [Next]_vars, NEW r \in Readers,
             answer[r].bytes = "unread", answer'[r].bytes # "unread"
      PROVE  /\ answer'[r].of = answer'[r].key
             /\ \/ answer'[r].bytes = "whole"
                \/ answer'[r].bytes = "cut" /\ CanBeCut(answer'[r].key)
  <2> USE DEF StoreInv, TypeOK
  <2>1. GetObject(r)
    <3>1. PICK q \in Readers : (\E i \in Items : GetRow(q, i)) \/ GetObject(q) \/ Answer(q)
      <4>1. answer' # answer
        BY <1>1
      <4> QED
        BY <1>1, <4>1 DEF Next, vars, Put, PutObject, Exists, Missing, Open,
           WriteBytes, Refer, Unused, ReferItem, PutFails, Commit, RollBack, Crash
    <3>2. q = r
      BY <1>1, <3>1 DEF GetRow, GetObject, Answer
    <3>3. ~ \E i \in Items : GetRow(r, i)
      BY <1>1 DEF GetRow, Answers, NoAnswer
    <3>4. ~Answer(r)
      BY <1>1 DEF Answer
    <3> QED
      BY <3>1, <3>2, <3>3, <3>4
  <2>2. /\ answer[r] \in Answers /\ answer \in [Readers -> Answers]
        /\ answer[r].key \in refs /\ answer[r].key \in Keys
    BY <1>1, <2>1 DEF GetObject, Referred
  <2> DEFINE k == answer[r].key
             a == [answer[r] EXCEPT !.of = Ref(r), !.bytes = object[Ref(r)]]
  <2>3. a.key = k /\ a.of = k /\ a.bytes = object[k]
    BY <2>2 DEF Ref, Answers
  <2>4. answer'[r] = a
    BY <2>1, <2>2 DEF GetObject
  <2>5. object[k] \in {"cut", "whole"} /\ (object[k] = "cut" => CanBeCut(k))
    BY <1>1, <2>2 DEF ObjectFirst, CutExcused
  <2> HIDE DEF k, a
  <2> QED
    BY <2>3, <2>4, <2>5
<1>2. StoreInv /\ [Next]_vars =>
        [\A r \in Readers :
          answer[r].bytes = "unread" /\ answer'[r].bytes # "unread" =>
              /\ answer'[r].of = answer'[r].key
              /\ \/ answer'[r].bytes = "whole"
                 \/ answer'[r].bytes = "cut" /\ CanBeCut(answer'[r].key)]_vars
  BY <1>1
<1> QED
  BY <1>2, StoreInit, StoreStep, PTL DEF Spec, AnswerConsistent
=============================================================================
