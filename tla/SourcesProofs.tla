---------------------------- MODULE SourcesProofs -----------------------------
(* Proofs about Sources, for any sessions, feeds and files.                *)
EXTENDS Sources, FiniteSetTheorems, TLAPS

USE SourcesAssumption, NoneAssumption

-----------------------------------------------------------------------------
(* The invariants.                                                         *)

(* A session at work is at a feed of its file, or past the last one; one   *)
(* that writes the health row has inserted the row it is of.               *)
WorkInv(s) ==
    /\ session[s].pc = "idle" => session[s] = Idle
    /\ session[s].next \in 1 .. Len(session[s].file) + 1
    /\ session[s].pc \in {"insert", "health"} => LeftToDo(s)
    /\ session[s].pc = "health" =>
            /\ session[s].id \in Ids
            /\ Own(s, session[s].id)
            /\ source[session[s].id].feed = Wanted(s)

(* A session that is to insert a row has looked: it has none of that feed. *)
LookedInv(s) == session[s].pc = "insert" =>
    \A i \in OfWanted(s) : ~Own(s, i)

(* The feeds an import has been through are sources, and a session counts  *)
(* those it has created.                                                   *)
Done(s, k) == \E i \in Ids :
    (Committed(i) \/ Own(s, i)) /\ source[i].feed = session[s].file[k]

Created(s) == {i \in Ids : Own(s, i)}

ImportInv(s) ==
    /\ session[s].work = "import" =>
            \A k \in 1 .. session[s].next - 1 : Done(s, k)
    /\ Cardinality(Created(s)) =
            IF session[s].pc = "health" THEN session[s].imported + 1
            ELSE session[s].imported

SessionInv(s) == WorkInv(s) /\ LookedInv(s) /\ ImportInv(s)

(* No feed is in two rows, be they committed or not: an INSERT waits for   *)
(* the transactions of others, and its own session has looked.             *)
UniqueInv == \A i, j \in Ids :
    source[i] # None /\ source[j] # None /\ source[i].feed = source[j].feed =>
        i = j \/ source[i].feed = NoFeed

(* Only the row whose health a session is about to write is without it.    *)
HealthInv == \A i \in Ids :
    source[i] # None /\ ~source[i].health =>
        \E s \in Sessions : /\ source[i].tx = s
                            /\ session[s].pc = "health" /\ session[s].id = i

SourcesInv ==
    TypeOK /\ UniqueInv /\ HealthInv /\ \A s \in Sessions : SessionInv(s)

-----------------------------------------------------------------------------
(* Types, and what a step leaves.                                          *)

(* An idle session is a session.                                           *)
LEMMA IdleType == /\ Idle \in States /\ Idle.pc = "idle" /\ Idle.next = 1
                  /\ Idle.file = <<>> /\ Idle.work = "none" /\ Idle.imported = 0
BY DEF Idle, States

(* A session and its rows, as they are typed.                              *)
LEMMA SessionType ==
    ASSUME TypeOK, NEW s \in Sessions
    PROVE  /\ session[s] \in States
           /\ session[s].file \in Seq(Feeds \cup {NoFeed})
           /\ session[s].next \in Nat /\ session[s].imported \in Nat
           /\ Len(session[s].file) \in Nat
           /\ IsFiniteSet(Created(s))
<1>1. IsFiniteSet(Ids)
      BY FS_Interval DEF Ids
<1>2. Created(s) \in SUBSET Ids
      BY DEF Created
<1>3. IsFiniteSet(Created(s))
      BY <1>1, <1>2, FS_Subset
<1>4. QED
      BY <1>3 DEF TypeOK, States

(* The feed a session wants is one of its file.                            *)
LEMMA WantedType ==
    ASSUME TypeOK, NEW s \in Sessions, WorkInv(s), LeftToDo(s)
    PROVE  /\ session[s].next \in 1 .. Len(session[s].file)
           /\ Wanted(s) \in Feeds \cup {NoFeed}
<1>1. session[s].next \in 1 .. Len(session[s].file)
      BY SessionType DEF WorkInv, LeftToDo
<1>2. QED
      BY <1>1, SessionType DEF Wanted

(* What one session does leaves the others and their rows.                 *)
Others(s) ==
    /\ \A t \in Sessions \ {s} : session'[t] = session[t]
    /\ \A i \in Ids : source'[i] # source[i] =>
          /\ source[i] = None \/ Own(s, i)
          /\ source'[i] = None \/ source'[i].tx \in {s, None}

(* ... and what holds of them.                                             *)
LEMMA OthersKeep ==
    ASSUME TypeOK, NEW s \in Sessions, Others(s),
           NEW t \in Sessions \ {s}, SessionInv(t)
    PROVE  SessionInv(t)'
<1>1. session'[t] = session[t]
      BY DEF Others
<1>2. \A i \in Ids : /\ Own(t, i)' <=> Own(t, i)
                     /\ Own(t, i) \/ Committed(i) => source'[i] = source[i]
  <2> TAKE i \in Ids
  <2>1. CASE source'[i] = source[i]
        BY <2>1 DEF Own
  <2>2. CASE source'[i] # source[i]
        BY <2>2 DEF Own, Others, Committed
  <2>3. QED
        BY <2>1, <2>2
<1>3. /\ Wanted(t)' = Wanted(t) /\ LeftToDo(t)' = LeftToDo(t)
      /\ Created(t)' = Created(t)
      BY <1>1, <1>2 DEF Wanted, LeftToDo, Created
<1>4. WorkInv(t)'
  <2>1. session[t].pc = "health" =>
            /\ Own(t, session[t].id)' /\ session[t].id \in Ids
            /\ source'[session[t].id] = source[session[t].id]
    <3>1. session[t].pc = "health" => session[t].id \in Ids /\ Own(t, session[t].id)
          BY DEF SessionInv, WorkInv
    <3>2. QED
          BY <1>1, <1>2, <3>1
  <2>2. QED
        BY <1>1, <1>3, <2>1 DEF SessionInv, WorkInv
<1>5. LookedInv(t)'
  <2>1. ASSUME NEW i \in OfWanted(t)', Own(t, i)' PROVE i \in OfWanted(t) /\ Own(t, i)
        BY <1>2, <1>3, <2>1 DEF OfWanted, Own
  <2>2. QED
        BY <1>1, <2>1 DEF SessionInv, LookedInv
<1>6. ImportInv(t)'
  <2>1. ASSUME NEW k, Done(t, k) PROVE Done(t, k)'
        BY <1>1, <1>2, <2>1 DEF Done, Committed, Own
  <2>2. QED
        BY <1>1, <1>3, <2>1 DEF SessionInv, ImportInv
<1>7. QED
      BY <1>4, <1>5, <1>6 DEF SessionInv

(* The tables are empty and no session is at work.                         *)
LEMMA SourcesInit == Init => SourcesInv
<1> SUFFICES ASSUME Init PROVE SourcesInv
    OBVIOUS
<1>1. TypeOK
      BY IdleType DEF Init, TypeOK, Own
<1>2. UniqueInv /\ HealthInv
      BY DEF Init, UniqueInv, HealthInv
<1>3. ASSUME NEW s \in Sessions PROVE SessionInv(s)
  <2>1. session[s] = Idle /\ Len(session[s].file) = 0
        BY IdleType DEF Init
  <2>2. Created(s) = {} /\ Cardinality(Created(s)) = 0
        BY FS_EmptySet DEF Init, Created, Own
  <2>3. QED
        BY <2>1, <2>2, IdleType DEF SessionInv, WorkInv, LookedInv, ImportInv
<1>4. QED
      BY <1>1, <1>2, <1>3 DEF SourcesInv

-----------------------------------------------------------------------------
(* The steps.                                                              *)

(* A request or an import begins.                                          *)
LEMMA BeginKeeps ==
    ASSUME SourcesInv, NEW s \in Sessions, NEW work \in {"create", "import"},
           NEW file \in Seq(Feeds \cup {NoFeed}), Begin(s, work, file)
    PROVE  SourcesInv'
<1>1. /\ session[s].pc = "idle" /\ source' = source
      /\ session' = [session EXCEPT ![s] =
            [Idle EXCEPT !.pc = "look", !.work = work, !.file = file]]
      /\ session \in [Sessions -> States]
      BY DEF Begin, SourcesInv, TypeOK
<1>2. /\ session'[s] \in States /\ session'[s].pc = "look" /\ session'[s].next = 1
      /\ session'[s].imported = 0 /\ session'[s].file = file
  <2>1. session'[s] = [Idle EXCEPT !.pc = "look", !.work = work, !.file = file]
        BY <1>1
  <2>2. session'[s] = [pc |-> "look", work |-> work, file |-> file, next |-> 1, id |-> 0,
                       imported |-> 0]
        BY <2>1 DEF Idle
  <2>3. session'[s] \in States
        BY <2>2 DEF States
  <2>4. QED
        BY <2>2, <2>3
<1>3. Others(s)
      BY <1>1 DEF Others
<1>4. TypeOK'
      BY <1>1, <1>2 DEF SourcesInv, TypeOK, Own
<1>5. UniqueInv' /\ HealthInv'
      BY <1>1, <1>2 DEF SourcesInv, UniqueInv, HealthInv
<1>6. SessionInv(s)'
  <2>1. session[s] = Idle /\ ImportInv(s)
        BY <1>1 DEF SourcesInv, SessionInv, WorkInv
  <2>a. Cardinality(Created(s)) = 0
        BY <2>1, IdleType DEF ImportInv
  <2>b. Created(s)' = Created(s)
        BY <1>1 DEF Created, Own
  <2>2. Len(file) \in Nat
        OBVIOUS
  <2>3. QED
        BY <1>2, <2>a, <2>b, <2>2 DEF SessionInv, WorkInv, LookedInv, ImportInv
<1>7. QED
      BY <1>3, <1>4, <1>5, <1>6, OthersKeep DEF SourcesInv

(* The end of a session without what it has inserted.                      *)
LEMMA RollBackKeeps ==
    ASSUME SourcesInv, NEW s \in Sessions, RollBack(s)
    PROVE  SourcesInv'
<1>1. /\ source' = [i \in Ids |-> IF Own(s, i) THEN None ELSE source[i]]
      /\ session' = [session EXCEPT ![s] = Idle]
      /\ session \in [Sessions -> States] /\ source \in [Ids -> Rows \cup {None}]
      BY DEF RollBack, SourcesInv, TypeOK
<1>2. Others(s)
      BY <1>1 DEF Others
<1>3. \A i \in Ids : ~Own(s, i)'
      BY <1>1 DEF Own
<1>4. TypeOK'
  <2>1. source' \in [Ids -> Rows \cup {None}] /\ session' \in [Sessions -> States]
        BY <1>1, IdleType
  <2>2. ASSUME NEW i \in Ids, NEW t \in Sessions, Own(t, i)' PROVE session'[t].pc # "idle"
        BY <1>1, <1>3, <2>2 DEF Own, SourcesInv, TypeOK
  <2>3. QED
        BY <2>1, <2>2 DEF TypeOK
<1>5. UniqueInv'
      BY <1>1 DEF SourcesInv, UniqueInv
<1>6. HealthInv'
  <2> SUFFICES ASSUME NEW i \in Ids, source'[i] # None, ~source'[i].health
               PROVE  \E t \in Sessions : source'[i].tx = t /\ session'[t].pc = "health"
                                            /\ session'[t].id = i
      BY DEF HealthInv
  <2>1. source'[i] = source[i] /\ ~Own(s, i)
        BY <1>1
  <2>2. PICK t \in Sessions : source[i].tx = t /\ session[t].pc = "health"
                                 /\ session[t].id = i
        BY <2>1 DEF SourcesInv, HealthInv
  <2>3. t # s
        BY <2>1, <2>2 DEF Own
  <2>4. QED
        BY <1>1, <2>1, <2>2, <2>3
<1>7. SessionInv(s)'
  <2>1. Created(s)' = {} /\ Cardinality(Created(s)') = 0
        BY <1>3, FS_EmptySet DEF Created
  <2>2. session'[s] = Idle /\ Len(session'[s].file) = 0
        BY <1>1, IdleType
  <2>3. QED
        BY <2>1, <2>2, IdleType DEF SessionInv, WorkInv, LookedInv, ImportInv
<1>8. QED
      BY <1>2, <1>4, <1>5, <1>6, <1>7, OthersKeep DEF SourcesInv

(* The commit: the rows of the session have their health by then.          *)
LEMMA CommitKeeps ==
    ASSUME SourcesInv, NEW s \in Sessions, Commit(s)
    PROVE  SourcesInv'
<1>1. /\ source' = [i \in Ids |->
            IF Own(s, i) THEN [source[i] EXCEPT !.tx = None] ELSE source[i]]
      /\ session' = [session EXCEPT ![s] = Idle] /\ session[s].pc = "look"
      /\ session \in [Sessions -> States] /\ source \in [Ids -> Rows \cup {None}]
      BY DEF Commit, SourcesInv, TypeOK
<1>2. ASSUME NEW i \in Ids
      PROVE  /\ source'[i] \in Rows \cup {None}
             /\ source[i] = None <=> source'[i] = None
             /\ source[i] # None => source'[i].feed = source[i].feed
                                      /\ source'[i].health = source[i].health
             /\ Own(s, i) => source'[i].tx = None
             /\ ~Own(s, i) => source'[i] = source[i]
      BY <1>1 DEF Rows, Own
<1>3. Others(s)
      BY <1>1, <1>2 DEF Others
<1>4. \A i \in Ids : ~Own(s, i)'
      BY <1>2 DEF Own
<1>5. TypeOK'
  <2>1. source' \in [Ids -> Rows \cup {None}] /\ session' \in [Sessions -> States]
        BY <1>1, <1>2, IdleType
  <2>2. ASSUME NEW i \in Ids, NEW t \in Sessions, Own(t, i)' PROVE session'[t].pc # "idle"
        BY <1>1, <1>2, <1>4, <2>2 DEF Own, SourcesInv, TypeOK
  <2>3. QED
        BY <2>1, <2>2 DEF TypeOK
<1>6. UniqueInv'
      BY <1>2 DEF SourcesInv, UniqueInv
<1>7. HealthInv'
  <2> SUFFICES ASSUME NEW i \in Ids, source'[i] # None, ~source'[i].health
               PROVE  \E t \in Sessions : source'[i].tx = t /\ session'[t].pc = "health"
                                            /\ session'[t].id = i
      BY DEF HealthInv
  <2>1. PICK t \in Sessions : source[i].tx = t /\ session[t].pc = "health"
                                 /\ session[t].id = i
        BY <1>2 DEF SourcesInv, HealthInv
  <2>2. t # s /\ ~Own(s, i)
        BY <1>1, <2>1 DEF Own
  <2>3. QED
        BY <1>1, <1>2, <2>1, <2>2
<1>8. SessionInv(s)'
  <2>1. Created(s)' = {} /\ Cardinality(Created(s)') = 0
        BY <1>4, FS_EmptySet DEF Created
  <2>2. session'[s] = Idle /\ Len(session'[s].file) = 0
        BY <1>1, IdleType
  <2>3. QED
        BY <2>1, <2>2, IdleType DEF SessionInv, WorkInv, LookedInv, ImportInv
<1>9. QED
      BY <1>3, <1>5, <1>6, <1>7, <1>8, OthersKeep DEF SourcesInv

(* The look changes no row: a feed that is found is passed over by an      *)
(* import, one that is not is to be inserted.                              *)
LEMMA LookKeeps ==
    ASSUME SourcesInv, NEW s \in Sessions, Look(s) \/ PassOver(s)
    PROVE  SourcesInv'
<1>0. Look(s) \/ PassOver(s)
      OBVIOUS
<1>1. /\ source' = source /\ session[s].pc = "look" /\ LeftToDo(s)
      /\ session \in [Sessions -> States] /\ session[s] \in States
      /\ TypeOK /\ WorkInv(s) /\ ImportInv(s)
      BY DEF Look, PassOver, SourcesInv, TypeOK, SessionInv
<1>2. /\ \A t \in Sessions \ {s} : session'[t] = session[t]
      /\ session' \in [Sessions -> States]
      /\ session'[s].file = session[s].file /\ session'[s].imported = session[s].imported
      /\ session'[s].work = session[s].work
      /\ session'[s].pc \in {"look", "insert"}
  <2>1. CASE Look(s)
    <3>1. session' = [session EXCEPT ![s] = [session[s] EXCEPT !.pc = "insert"]]
          BY <1>1, <2>1 DEF Look
    <3>2. [session[s] EXCEPT !.pc = "insert"] \in States
          BY <1>1 DEF States
    <3>3. QED
          BY <1>1, <3>1, <3>2 DEF States
  <2>2. CASE PassOver(s)
    <3>1. session' = [session EXCEPT ![s] =
                [session[s] EXCEPT !.next = session[s].next + 1]]
          BY <1>1, <2>2 DEF PassOver
    <3>2. [session[s] EXCEPT !.next = session[s].next + 1] \in States
      <4>1. session[s].next + 1 \in Nat
            BY <1>1 DEF States
      <4>2. QED
            BY <1>1, <4>1 DEF States
    <3>3. /\ session'[s] = [session[s] EXCEPT !.next = session[s].next + 1]
          /\ session' \in [Sessions -> States]
          /\ \A t \in Sessions \ {s} : session'[t] = session[t]
          BY <1>1, <3>1, <3>2
    <3>4. QED
          BY <1>1, <3>3 DEF States
  <2>3. QED
        BY <1>0, <2>1, <2>2
<1>3. Others(s)
      BY <1>1, <1>2 DEF Others
<1>4. TypeOK'
      BY <1>1, <1>2 DEF TypeOK, Own
<1>5. UniqueInv' /\ HealthInv'
  <2>1. \A t \in Sessions : session[t].pc = "health" => t # s
        BY <1>1
  <2>2. QED
        BY <1>1, <1>2, <2>1 DEF SourcesInv, UniqueInv, HealthInv
<1>6. Created(s)' = Created(s)
      BY <1>1 DEF Created, Own
<1>7. session[s].next \in 1 .. Len(session[s].file)
      BY <1>1, WantedType
<1>8. SessionInv(s)'
  <2>1. CASE Look(s)
    <3>1. session'[s].pc = "insert" /\ session'[s].next = session[s].next
          BY <1>1, <2>1 DEF Look, States
    <3>2. Wanted(s)' = Wanted(s) /\ LeftToDo(s)' = LeftToDo(s)
          BY <1>2, <3>1 DEF Wanted, LeftToDo
    <3>3. LookedInv(s)'
          BY <1>1, <2>1, <3>2 DEF Look, Found, LookedInv, OfWanted, Own
    <3>4. ImportInv(s)'
          BY <1>1, <1>2, <1>6, <3>1 DEF ImportInv, Done, Committed, Own
    <3>5. QED
          BY <1>1, <1>2, <3>1, <3>2, <3>3, <3>4 DEF SessionInv, WorkInv
  <2>2. CASE PassOver(s)
    <3>1. session'[s].pc = "look" /\ session'[s].next = session[s].next + 1
          BY <1>1, <2>2 DEF PassOver, States
    <3>2. Done(s, session[s].next)
          BY <2>2 DEF PassOver, Found, OfWanted, Done, Wanted
    <3>3. \A k : Done(s, k) => Done(s, k)'
          BY <1>1, <1>2 DEF Done, Committed, Own
    <3>4. ImportInv(s)'
          BY <1>1, <1>2, <1>6, <1>7, <3>1, <3>2, <3>3 DEF ImportInv
    <3>5. QED
          BY <1>1, <1>2, <1>7, <3>1, <3>4, SessionType DEF SessionInv, WorkInv, LookedInv
  <2>3. QED
        BY <2>1, <2>2
<1>9. QED
      BY <1>2, <1>3, <1>4, <1>5, <1>8, OthersKeep DEF SourcesInv

(* The INSERT: no other session has a row of the feed, and no committed    *)
(* row is of it.                                                           *)
LEMMA InsertKeeps ==
    ASSUME SourcesInv, NEW s \in Sessions, Insert(s)
    PROVE  SourcesInv'
<1>1. PICK n \in Ids :
        /\ source[n] = None
        /\ source' = [source EXCEPT ![n] =
                [feed |-> Wanted(s), health |-> FALSE, tx |-> s]]
        /\ session' = [session EXCEPT ![s].pc = "health", ![s].id = n]
      BY DEF Insert
<1>2. /\ session[s].pc = "insert" /\ LeftToDo(s)
      /\ session \in [Sessions -> States] /\ session[s] \in States
      /\ source \in [Ids -> Rows \cup {None}]
      /\ TypeOK /\ WorkInv(s) /\ ImportInv(s) /\ LookedInv(s)
      BY DEF Insert, SourcesInv, TypeOK, SessionInv, WorkInv
<1>3. /\ Wanted(s) \in Feeds \cup {NoFeed}
      /\ session[s].next \in 1 .. Len(session[s].file)
      BY <1>2, WantedType
<1>4. /\ source'[n] = [feed |-> Wanted(s), health |-> FALSE, tx |-> s]
      /\ source'[n] \in Rows /\ source'[n] # None /\ source'[n].tx = s
      /\ source'[n].feed = Wanted(s)
      /\ \A i \in Ids \ {n} : source'[i] = source[i]
  <2>1. [feed |-> Wanted(s), health |-> FALSE, tx |-> s] \in Rows
        BY <1>3 DEF Rows
  <2>2. QED
        BY <1>1, <1>2, <2>1
<1>5. /\ \A t \in Sessions \ {s} : session'[t] = session[t]
      /\ session'[s] \in States /\ session'[s].pc = "health" /\ session'[s].id = n
      /\ session'[s].file = session[s].file /\ session'[s].next = session[s].next
      /\ session'[s].work = session[s].work /\ session'[s].imported = session[s].imported
  <2>1. session' = [session EXCEPT ![s] = [session[s] EXCEPT !.pc = "health", !.id = n]]
        BY <1>1, <1>2
  <2>2. n \in 0 .. MaxSource
        BY DEF Ids
  <2>3. [session[s] EXCEPT !.pc = "health", !.id = n] \in States
        BY <1>2, <2>2 DEF States
  <2>4. QED
        BY <1>2, <2>1, <2>3 DEF States
<1>6. Others(s)
      BY <1>1, <1>4, <1>5 DEF Others
<1>7. TypeOK'
  <2>1. source' \in [Ids -> Rows \cup {None}] /\ session' \in [Sessions -> States]
        BY <1>1, <1>2, <1>4, <1>5
  <2>2. ASSUME NEW i \in Ids, NEW t \in Sessions, Own(t, i)' PROVE session'[t].pc # "idle"
    <3>1. CASE i = n
          BY <1>4, <1>5, <2>2, <3>1 DEF Own
    <3>2. CASE i # n
          BY <1>2, <1>4, <1>5, <2>2, <3>2 DEF Own, TypeOK
    <3>3. QED
          BY <3>1, <3>2
  <2>3. QED
        BY <2>1, <2>2 DEF TypeOK
<1>8. UniqueInv'
  <2>1. ASSUME NEW i \in Ids, source[i] # None, source[i].feed = Wanted(s),
               Wanted(s) # NoFeed
        PROVE  FALSE
    <3>1. i \in OfWanted(s) /\ source[i].tx \in Sessions \cup {None}
          BY <1>2, <2>1 DEF OfWanted, Rows
    <3>2. ~Committed(i) /\ ~Own(s, i)
          BY <1>2, <3>1 DEF Insert, Taken, LookedInv
    <3>3. PICK t \in Sessions \ {s} : Own(t, i)
          BY <2>1, <3>1, <3>2 DEF Committed, Own
    <3>4. WaitsFor(s, t)
          BY <1>2, <3>1, <3>3 DEF WaitsFor
    <3>5. QED
          BY <3>3, <3>4 DEF Insert
  <2>2. QED
        BY <1>4, <2>1 DEF SourcesInv, UniqueInv
<1>9. HealthInv'
  <2> SUFFICES ASSUME NEW i \in Ids, source'[i] # None, ~source'[i].health
               PROVE  \E t \in Sessions : source'[i].tx = t /\ session'[t].pc = "health"
                                            /\ session'[t].id = i
      BY DEF HealthInv
  <2>1. CASE i = n
        BY <1>4, <1>5, <2>1
  <2>2. CASE i # n
    <3>1. PICK t \in Sessions : source[i].tx = t /\ session[t].pc = "health"
                                   /\ session[t].id = i
          BY <1>4, <2>2 DEF SourcesInv, HealthInv
    <3>2. t # s
          BY <1>2, <3>1
    <3>3. QED
          BY <1>4, <1>5, <2>2, <3>1, <3>2
  <2>3. QED
        BY <2>1, <2>2
<1>10. SessionInv(s)'
  <2>1. Wanted(s)' = Wanted(s) /\ LeftToDo(s)' = LeftToDo(s)
        BY <1>5 DEF Wanted, LeftToDo
  <2>2. Own(s, n)' /\ ~Own(s, n) /\ \A i \in Ids \ {n} : Own(s, i)' <=> Own(s, i)
        BY <1>1, <1>4 DEF Own
  <2>3. Created(s)' = Created(s) \cup {n} /\ n \notin Created(s)
        BY <2>2 DEF Created
  <2>4. Cardinality(Created(s)') = Cardinality(Created(s)) + 1
        BY <1>2, <2>3, SessionType, FS_AddElement
  <2>5. \A k : Done(s, k) => Done(s, k)'
        BY <1>1, <1>4, <1>5 DEF Done, Committed, Own
  <2>6. ImportInv(s)'
        BY <1>2, <1>5, <2>4, <2>5 DEF ImportInv
  <2>7. QED
        BY <1>2, <1>4, <1>5, <2>1, <2>2, <2>6 DEF SessionInv, WorkInv, LookedInv
<1>11. QED
      BY <1>6, <1>7, <1>8, <1>9, <1>10, OthersKeep DEF SourcesInv

(* The health row of the row that was inserted last.                       *)
LEMMA InsertHealthKeeps ==
    ASSUME SourcesInv, NEW s \in Sessions, InsertHealth(s)
    PROVE  SourcesInv'
<1> DEFINE n == session[s].id
<1>1. /\ session[s].pc = "health" /\ LeftToDo(s)
      /\ session \in [Sessions -> States] /\ session[s] \in States
      /\ source \in [Ids -> Rows \cup {None}]
      /\ TypeOK /\ WorkInv(s) /\ ImportInv(s)
      /\ n \in Ids /\ Own(s, n) /\ source[n].feed = Wanted(s)
      /\ source' = [source EXCEPT ![n].health = TRUE]
      BY DEF InsertHealth, SourcesInv, TypeOK, SessionInv, WorkInv
<1>2. /\ source[n] \in Rows /\ source[n] # None /\ source[n].tx = s
      BY <1>1 DEF Own
<1>3. /\ source'[n] \in Rows /\ source'[n] # None
      /\ source'[n].feed = source[n].feed /\ source'[n].tx = s
      /\ source'[n].health
      /\ \A i \in Ids \ {n} : source'[i] = source[i]
      BY <1>1, <1>2 DEF Rows
<1>4. /\ \A t \in Sessions \ {s} : session'[t] = session[t]
      /\ session'[s] \in States /\ session'[s].pc = "look"
      /\ session'[s].next = session[s].next + 1
      /\ session'[s].imported = session[s].imported + 1
      /\ session'[s].file = session[s].file /\ session'[s].work = session[s].work
      BY <1>1 DEF InsertHealth, States
<1>5. \A i \in Ids : /\ source'[i] \in Rows \cup {None}
                     /\ source'[i] = None <=> source[i] = None
                     /\ source[i] # None => source'[i].feed = source[i].feed
                                              /\ source'[i].tx = source[i].tx
      BY <1>1, <1>2, <1>3
<1>6. Others(s)
      BY <1>1, <1>3, <1>4 DEF Others
<1>7. TypeOK'
  <2>1. source' \in [Ids -> Rows \cup {None}] /\ session' \in [Sessions -> States]
    <3>1. session' = [session EXCEPT ![s] = session'[s]]
          BY <1>1 DEF InsertHealth
    <3>2. QED
          BY <1>1, <1>4, <1>5, <3>1
  <2>2. ASSUME NEW i \in Ids, NEW t \in Sessions, Own(t, i)' PROVE session'[t].pc # "idle"
    <3>1. Own(t, i)
          BY <1>5, <2>2 DEF Own
    <3>2. QED
          BY <1>1, <1>4, <3>1 DEF TypeOK
  <2>3. QED
        BY <2>1, <2>2 DEF TypeOK
<1>8. UniqueInv'
      BY <1>5 DEF SourcesInv, UniqueInv
<1>9. HealthInv'
  <2> SUFFICES ASSUME NEW i \in Ids, source'[i] # None, ~source'[i].health
               PROVE  \E t \in Sessions : source'[i].tx = t /\ session'[t].pc = "health"
                                            /\ session'[t].id = i
      BY DEF HealthInv
  <2>1. i # n /\ source'[i] = source[i]
        BY <1>3
  <2>2. PICK t \in Sessions : source[i].tx = t /\ session[t].pc = "health"
                                 /\ session[t].id = i
        BY <2>1 DEF SourcesInv, HealthInv
  <2>3. t # s
        BY <2>1, <2>2
  <2>4. QED
        BY <1>4, <2>1, <2>2, <2>3
<1>10. SessionInv(s)'
  <2>1. Created(s)' = Created(s)
        BY <1>5 DEF Created, Own
  <2>2. \A k : Done(s, k) => Done(s, k)'
        BY <1>4, <1>5 DEF Done, Committed, Own
  <2>3. Done(s, session[s].next)
        BY <1>1 DEF Done, Wanted
  <2>4. /\ session[s].next \in 1 .. Len(session[s].file)
        /\ Len(session[s].file) \in Nat /\ session[s].imported \in Nat
        BY <1>1, WantedType, SessionType
  <2>5. ImportInv(s)'
        BY <1>1, <1>4, <2>1, <2>2, <2>3, <2>4 DEF ImportInv
  <2>6. QED
        BY <1>1, <1>4, <2>4, <2>5 DEF SessionInv, WorkInv, LookedInv
<1>11. QED
      BY <1>6, <1>7, <1>8, <1>9, <1>10, OthersKeep DEF SourcesInv

(* One step of one session.                                                *)
LEMMA SourcesStep == SourcesInv /\ [Next]_vars => SourcesInv'
<1> SUFFICES ASSUME SourcesInv, [Next]_vars PROVE SourcesInv'
    OBVIOUS
<1>1. CASE UNCHANGED vars
  <2>1. source' = source /\ session' = session
        BY <1>1 DEF vars
  <2>2. TypeOK' /\ UniqueInv' /\ HealthInv'
        BY <2>1 DEF SourcesInv, TypeOK, UniqueInv, HealthInv, Own
  <2>3. ASSUME NEW s \in Sessions PROVE SessionInv(s)'
    <3>1. WorkInv(s)' /\ LookedInv(s)'
          BY <2>1 DEF SourcesInv, SessionInv, WorkInv, LookedInv, OfWanted, Wanted,
             LeftToDo, Own
    <3>2. Created(s)' = Created(s) /\ \A k : Done(s, k)' <=> Done(s, k)
          BY <2>1 DEF Created, Done, Own, Committed
    <3>3. ImportInv(s)'
          BY <2>1, <3>2 DEF SourcesInv, SessionInv, ImportInv
    <3>4. QED
          BY <3>1, <3>3 DEF SessionInv
  <2>4. QED
        BY <2>2, <2>3 DEF SourcesInv
<1>2. ASSUME NEW s \in Sessions, NEW f \in Feeds \cup {NoFeed}, BeginCreate(s, f)
      PROVE  SourcesInv'
  <2>1. <<f>> \in Seq(Feeds \cup {NoFeed})
        OBVIOUS
  <2>2. Begin(s, "create", <<f>>)
        BY <1>2 DEF BeginCreate
  <2>3. QED
        BY <2>1, <2>2, BeginKeeps
<1>3. ASSUME NEW s \in Sessions, NEW file \in Files, BeginImport(s, file)
      PROVE  SourcesInv'
  <2>1. file \in Seq(Feeds \cup {NoFeed})
        OBVIOUS
  <2>2. QED
        BY <1>3, <2>1, BeginKeeps DEF BeginImport
<1>4. ASSUME NEW s \in Sessions, Step(s) \/ Crash(s) PROVE SourcesInv'
      BY <1>4, RollBackKeeps, CommitKeeps, LookKeeps, InsertKeeps, InsertHealthKeeps
         DEF Step, Crash, Refuse, Conflict, Victim
<1>5. QED
      BY <1>1, <1>2, <1>3, <1>4 DEF Next

-----------------------------------------------------------------------------
(* The theorems.                                                           *)

(* The types are kept; uncommitted rows are of sessions at work.           *)
THEOREM TypeCorrect == Spec => []TypeOK
<1>1. SourcesInv => TypeOK
      BY DEF SourcesInv
<1>2. QED
      BY <1>1, SourcesInit, SourcesStep, PTL DEF Spec

(* However creations and imports race, no feed is a source twice           *)
(* (repository.py:18-21, db/models.py:31).                                 *)
THEOREM FeedsOnce == Spec => []FeedsUnique
<1>1. SourcesInv => FeedsUnique
      BY DEF SourcesInv, UniqueInv, FeedsUnique, Committed
<1>2. QED
      BY <1>1, SourcesInit, SourcesStep, PTL DEF Spec

(* No source is seen without its health (repository.py:29-32).             *)
THEOREM HealthFollows == Spec => []SourcesHaveHealth
<1>1. SourcesInv => SourcesHaveHealth
      BY DEF SourcesInv, HealthInv, SourcesHaveHealth, Committed
<1>2. QED
      BY <1>1, SourcesInit, SourcesStep, PTL DEF Spec

(* An import that comes to its end has every feed of its file and reports  *)
(* how many it has created (opml.py:11-28).                                *)
THEOREM ImportsComplete == Spec => []ImportComplete
<1>1. SourcesInv => ImportComplete
  <2> SUFFICES ASSUME SourcesInv, NEW s \in Sessions, session[s].pc = "look",
                      session[s].work = "import", ~LeftToDo(s)
               PROVE  /\ \A k \in DOMAIN session[s].file : Done(s, k)
                      /\ session[s].imported = Cardinality({i \in Ids : Own(s, i)})
      BY DEF ImportComplete, Done
  <2>1. TypeOK /\ WorkInv(s) /\ ImportInv(s)
        BY DEF SourcesInv, SessionInv
  <2>2. session[s].next = Len(session[s].file) + 1
        BY <2>1, SessionType DEF WorkInv, LeftToDo
  <2>3. DOMAIN session[s].file = 1 .. session[s].next - 1
        BY <2>1, <2>2, SessionType
  <2>4. QED
        BY <2>1, <2>3 DEF ImportInv, Created
<1>2. QED
      BY <1>1, SourcesInit, SourcesStep, PTL DEF Spec
=============================================================================
