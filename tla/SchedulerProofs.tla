-------------------------- MODULE SchedulerProofs ---------------------------
(***************************************************************************)
(* Proofs about Scheduler, for any sources, sessions, interval and number  *)
(* of crashes: types, how soon a stop takes effect, and the spacing of the *)
(* scheduler's crawls.                                                     *)
(***************************************************************************)
EXTENDS Scheduler, TLAPS

(* A session has written the row of the source it crawls, and no other.    *)
OwnOnly ==
    \A c \in Callers, s \in Sources :
        own[c][s] # None <=> s = current[c]

OwnAges ==
    \A c \in Callers, s \in Sources : own[c][s] # None => own[c][s].age \in Ages

TypeInv == TypeOK /\ OwnOnly /\ OwnAges

-----------------------------------------------------------------------------
(* Types.                                                                  *)

(* What health.py makes of a row is a row with the time of the call.       *)
LEMMA RowTypes ==
    ASSUME NEW h \in Health
    PROVE  /\ Attempted(h) \in Health /\ Attempted(h).age = 0
           /\ Succeeded(h) \in Health /\ Succeeded(h).age = 0
           /\ Failed(h) \in Health /\ Failed(h).age = 0
<1>1. 0 \in Ages
  BY SchedulerAssumption DEF Ages
<1>2. Attempted(h) \in Health /\ Attempted(h).age = 0
  BY <1>1 DEF Attempted, Health
<1>3. Succeeded(h) \in Health /\ Succeeded(h).age = 0
  BY <1>2 DEF Succeeded, Health
<1>4. Failed(h) \in Health /\ Failed(h).age = 0
  BY <1>2 DEF Failed, Health
<1> QED
  BY <1>2, <1>3, <1>4

(* The clock ages a row, and nothing that is absent.                       *)
LEMMA AgedTypes ==
    /\ \A h \in Health : /\ Aged(h) \in Health /\ Aged(h) # None
                         /\ h.age \in Ages => Aged(h).age \in Ages
                         /\ Aged(h).age = Older(h.age)
    /\ Aged(None) = None
    /\ \A a \in Ages : Older(a) \in Ages /\ a <= Older(a)
    /\ \A a, b \in Ages : a <= b => Older(a) <= Older(b)
    /\ Older(None) = None /\ Older(Interval) = Interval
BY SchedulerAssumption, NoneAssumption DEF Health, Aged, Older, Ages

(* At the start nobody crawls.                                             *)
LEMMA TypeInit == Init => TypeInv
BY SchedulerAssumption, NoneAssumption
   DEF Init, TypeInv, TypeOK, OwnOnly, OwnAges, Health, Ages

(* A step of crawl_source writes the row of its source and stays in it.    *)
LEMMA WriteType ==
    ASSUME TypeInv, NEW c \in Callers, NEW s \in Sources, NEW h \in Health,
           h.age = 0, Write(c, s, h), current' = [current EXCEPT ![c] = s],
           current[c] \in {None, s}
    PROVE  /\ own' \in [Callers -> [Sources -> Health \cup {None}]]
           /\ OwnOnly' /\ OwnAges'
BY SchedulerAssumption, NoneAssumption
   DEF TypeInv, TypeOK, OwnOnly, OwnAges, Write, Ages

(* A session that is closed, or whose transaction has ended, holds nothing.*)
LEMMA ForgetType ==
    ASSUME TypeInv, NEW c \in Callers, Forget(c), LeaveCrawl(c)
    PROVE  /\ own' \in [Callers -> [Sources -> Health \cup {None}]]
           /\ current' \in [Callers -> Sources \cup {None}]
           /\ OwnOnly' /\ OwnAges'
BY NoneAssumption DEF TypeInv, TypeOK, OwnOnly, OwnAges, Forget, LeaveCrawl

(* The row a session sees.                                                 *)
LEMMA RowType ==
    ASSUME TypeInv, NEW c \in Callers, NEW s \in Sources
    PROVE  Row(c, s) \in Health
BY DEF TypeInv, TypeOK, Row

(* A caller that ends holds no source, row or list.                        *)
LEMMA DropType ==
    ASSUME TypeInv, NEW c \in Callers, Drop(c), faults' \in 0 .. MaxFaults
    PROVE  TypeInv'
<1>1. /\ own' \in [Callers -> [Sources -> Health \cup {None}]]
      /\ current' \in [Callers -> Sources \cup {None}]
      /\ OwnOnly' /\ OwnAges'
  BY ForgetType DEF Drop
<1> QED
  BY <1>1 DEF Drop, LeaveCrawl, TypeInv, TypeOK

(* Every step of a caller, of the operator and of the clock keeps types.   *)
LEMMA TypeStep == TypeInv /\ [Next]_vars => TypeInv'
<1> SUFFICES ASSUME TypeInv, [Next]_vars PROVE TypeInv'
  OBVIOUS
<1> USE SchedulerAssumption, NoneAssumption
<1>1. ASSUME NEW c \in Callers, NEW k \in {"tick", "round", "request"},
             NEW listed \in SUBSET Sources, List(c, k, listed)
      PROVE  TypeInv'
  BY <1>1 DEF List, Phase, TypeInv, TypeOK, OwnOnly, OwnAges
<1>11. CASE StartTick
  <2>1. Due \in SUBSET Sources /\ Scheduler \in Callers
    BY DEF Due, Callers
  <2> QED
    BY <1>11, <2>1, <1>1 DEF StartTick
<1>12. ASSUME NEW c \in Callers, StartRound(c) PROVE TypeInv'
  <2>1. Enabled \in SUBSET Sources
    BY DEF Enabled
  <2> QED
    BY <1>12, <2>1, <1>1 DEF StartRound
<1>13. ASSUME NEW c \in Callers, NEW s \in Sources, Request(c, s) PROVE TypeInv'
  <2>1. {s} \in SUBSET Sources
    OBVIOUS
  <2> QED
    BY <1>13, <2>1, <1>1 DEF Request
<1>2. ASSUME NEW c \in Callers, NEW s \in Sources, BeginCrawl(c, s)
      PROVE  TypeInv'
  <2>1. current[c] = None
    BY <1>2 DEF BeginCrawl, Phase, TypeInv, TypeOK
  <2>2. /\ own' \in [Callers -> [Sources -> Health \cup {None}]]
        /\ OwnOnly' /\ OwnAges'
    BY <1>2, <2>1, RowType, RowTypes, WriteType DEF BeginCrawl
  <2>3. extra' \in [Sources -> 0 .. 2]
    BY <1>2 DEF BeginCrawl, TypeInv, TypeOK
  <2> QED
    BY <1>2, <2>2, <2>3 DEF BeginCrawl, Phase, TypeInv, TypeOK
<1>3. ASSUME NEW c \in Callers, Return(c) \/ Raise(c) PROVE TypeInv'
  <2>1. current[c] \in Sources
    BY <1>3 DEF Return, Raise, Phase, TypeInv, TypeOK
  <2>2. current' = [current EXCEPT ![c] = current[c]]
    BY <1>3 DEF Return, Raise, TypeInv, TypeOK
  <2>3. PICK h \in Health : h.age = 0 /\ Write(c, current[c], h)
    BY <1>3, <2>1, RowType, RowTypes DEF Return, Raise
  <2>4. /\ own' \in [Callers -> [Sources -> Health \cup {None}]]
        /\ OwnOnly' /\ OwnAges'
    BY <2>1, <2>2, <2>3, WriteType
  <2> QED
    BY <1>3, <2>4 DEF Return, Raise, Phase, TypeInv, TypeOK
<1>4. ASSUME NEW c \in Callers, CommitCrawl(c) PROVE TypeInv'
  <2>1. /\ own' \in [Callers -> [Sources -> Health \cup {None}]]
        /\ current' \in [Callers -> Sources \cup {None}]
        /\ OwnOnly' /\ OwnAges'
    BY <1>4, ForgetType DEF CommitCrawl, CommitRows
  <2>2. health' \in [Sources -> Health]
    BY <1>4, RowType DEF CommitCrawl, CommitRows
  <2>3. current[c] \in Sources /\ own[c][current[c]].age \in Ages
    BY <1>4 DEF CommitCrawl, Phase, TypeInv, TypeOK, OwnOnly, OwnAges
  <2>4. rest' \in [Sources -> Ages]
    BY <1>4, <2>3 DEF CommitCrawl, TypeInv, TypeOK, Ages
  <2> QED
    BY <1>4, <2>1, <2>2, <2>4 DEF CommitCrawl, LeaveCrawl, Phase, TypeInv, TypeOK
<1>5. CASE RollBackCrawl
  <2>1. /\ own' \in [Callers -> [Sources -> Health \cup {None}]]
        /\ current' \in [Callers -> Sources \cup {None}]
        /\ OwnOnly' /\ OwnAges'
    BY <1>5, ForgetType DEF RollBackCrawl, Callers
  <2> QED
    BY <1>5, <2>1
       DEF RollBackCrawl, AfterFailure, LeaveCrawl, Phase, TypeInv, TypeOK, Callers
<1>6. ASSUME NEW c \in Callers, GiveUp(c) \/ KeyError(c) \/ Crash(c) PROVE TypeInv'
  <2>1. faults' \in 0 .. MaxFaults
    BY <1>6 DEF GiveUp, KeyError, Crash, TypeInv, TypeOK
  <2> QED
    BY <1>6, <2>1, DropType DEF GiveUp, KeyError, Crash
<1>7. ASSUME NEW c \in Callers, Finish(c) PROVE TypeInv'
  BY <1>7 DEF Finish, Phase, TypeInv, TypeOK, OwnOnly, OwnAges
<1>8. ASSUME NEW s \in Sources, Toggle(s) PROVE TypeInv'
  BY <1>8 DEF Toggle, TypeInv, TypeOK, OwnOnly, OwnAges
<1>9. CASE Time
  <2>1. health' \in [Sources -> Health] /\ rest' \in [Sources -> Ages]
    BY <1>9, AgedTypes DEF Time, TypeInv, TypeOK
  <2>2. \A c \in Callers, s \in Sources :
            /\ own'[c][s] \in Health \cup {None}
            /\ own'[c][s] = None <=> own[c][s] = None
            /\ own'[c][s] # None => own'[c][s].age \in Ages
    <3> SUFFICES ASSUME NEW c \in Callers, NEW s \in Sources
                 PROVE  /\ own'[c][s] \in Health \cup {None}
                        /\ own'[c][s] = None <=> own[c][s] = None
                        /\ own'[c][s] # None => own'[c][s].age \in Ages
      OBVIOUS
    <3>1. own'[c][s] = Aged(own[c][s])
      BY <1>9 DEF Time
    <3>2. CASE own[c][s] = None
      BY <3>1, <3>2, AgedTypes
    <3>3. CASE own[c][s] # None
      <4>1. own[c][s] \in Health /\ own[c][s].age \in Ages
        BY <3>3 DEF TypeInv, TypeOK, OwnAges
      <4> QED
        BY <3>1, <3>3, <4>1, AgedTypes
    <3> QED
      BY <3>2, <3>3
  <2>3. own' \in [Callers -> [Sources -> Health \cup {None}]]
    BY <1>9, <2>2 DEF Time
  <2> QED
    BY <1>9, <2>1, <2>2, <2>3 DEF Time, TypeInv, TypeOK, OwnOnly, OwnAges
<1>10. CASE UNCHANGED vars
  BY <1>10 DEF vars, TypeInv, TypeOK, OwnOnly, OwnAges
<1> QED
  BY <1>2, <1>3, <1>4, <1>5, <1>6, <1>7, <1>8, <1>9, <1>10, <1>11, <1>12, <1>13
     DEF Next, SchedulerStep, OtherStep, Callers

(* The tables and the callers keep their types, and a caller holds a       *)
(* source exactly while it crawls (pipeline.py:18-130).                    *)
THEOREM TypeCorrect == Spec => []TypeOK
<1>1. Spec => []TypeInv
  BY TypeInit, TypeStep, PTL DEF Spec
<1>2. TypeInv => TypeOK
  BY DEF TypeInv
<1> QED
  BY <1>1, <1>2, PTL

-----------------------------------------------------------------------------
(* How soon a stop takes effect.  A source the scheduler has begun to      *)
(* crawl since its stop is not on its list any more.                       *)

StopInv ==
    \A s \in Sources :
        /\ extra[s] \in {0, 1}
        /\ extra[s] = 1 => enabled[s] = FALSE /\ s \notin todo[Scheduler]

(* A list is made of enabled sources, and shrinks as they are crawled.     *)
LEMMA StopStep == TypeInv /\ StopInv /\ [Next]_vars => StopInv'
<1> SUFFICES ASSUME TypeInv, StopInv, [Next]_vars PROVE StopInv'
  OBVIOUS
<1>t. /\ todo \in [Callers -> SUBSET Sources] /\ extra \in [Sources -> 0 .. 2]
      /\ enabled \in [Sources -> BOOLEAN] /\ Scheduler \in Callers
  BY DEF TypeInv, TypeOK, Callers
<1>1. CASE StartTick
  BY <1>1, <1>t DEF StartTick, List, Due, StopInv
<1>2. ASSUME NEW c \in Others, NEW k, NEW listed, List(c, k, listed) PROVE StopInv'
  BY <1>2, <1>t, SchedulerAssumption DEF List, StopInv
<1>3. ASSUME NEW c \in Callers, NEW s \in Sources, BeginCrawl(c, s) PROVE StopInv'
  <2>1. CASE c = Scheduler
    BY <1>3, <1>t, <2>1 DEF BeginCrawl, StopInv
  <2>2. CASE c # Scheduler
    BY <1>3, <1>t, <2>2 DEF BeginCrawl, StopInv
  <2> QED
    BY <2>1, <2>2
<1>4. ASSUME NEW c \in Callers, Return(c) \/ Raise(c) \/ CommitCrawl(c) \/ Finish(c)
      PROVE  StopInv'
  BY <1>4 DEF Return, Raise, CommitCrawl, Finish, StopInv
<1>5. CASE RollBackCrawl
  BY <1>5, <1>t DEF RollBackCrawl, AfterFailure, StopInv
<1>6. ASSUME NEW c \in Callers, GiveUp(c) \/ KeyError(c) \/ Crash(c) PROVE StopInv'
  BY <1>6, <1>t DEF GiveUp, KeyError, Crash, Drop, StopInv
<1>7. ASSUME NEW s \in Sources, Toggle(s) PROVE StopInv'
  BY <1>7, <1>t DEF Toggle, StopInv
<1>8. CASE Time \/ UNCHANGED vars
  BY <1>8 DEF Time, vars, StopInv
<1> QED
  BY <1>1, <1>2, <1>3, <1>4, <1>5, <1>6, <1>7, <1>8
     DEF Next, SchedulerStep, OtherStep, StartRound, Request, Callers

(* A stopped source is crawled once more at most: it stays on the list of  *)
(* the tick that has it, and no later tick lists it (scheduler.py:13,      *)
(* scheduler_run.py:57-66).                                                *)
THEOREM Stops == Spec => []StopsSoon
<1>1. Init => StopInv
  <2>1. Init => \A s \in Sources : extra[s] = 0
    BY DEF Init
  <2>2. (\A s \in Sources : extra[s] = 0) => StopInv
    <3>1. 0 # 1
      OBVIOUS
    <3> QED
      BY <3>1, Zenon DEF StopInv
  <2> QED
    BY <2>1, <2>2
<1>2. Spec => [](TypeInv /\ StopInv)
  BY TypeInit, TypeStep, <1>1, StopStep, PTL DEF Spec
<1>3. TypeInv /\ StopInv => StopsSoon
  <2> SUFFICES ASSUME StopInv, NEW s \in Sources PROVE extra[s] <= 1
    BY DEF StopsSoon
  <2> QED
    BY DEF StopInv
<1> QED
  BY <1>2, <1>3, PTL

-----------------------------------------------------------------------------
(* Spacing.  The record of a source is never older than the scheduler's    *)
(* last crawl of it, so what a tick lists has rested, and goes on resting  *)
(* until its turn comes.                                                   *)

Recorded ==
    \A s \in Sources :
        IF health[s].age = None THEN rest[s] = Interval
        ELSE health[s].age <= rest[s]

Listed ==
    \A s \in todo[Scheduler] : rest[s] = Interval /\ s # current[Scheduler]

SpacingInv == Recorded /\ Listed

(* A commit writes the age the record and the account of rest then share,  *)
(* or an age that is not older than the record, or excuses the source.     *)
LEMMA CommitSpacing ==
    ASSUME TypeInv, SpacingInv, NEW c \in Callers, CommitCrawl(c)
    PROVE  SpacingInv'
<1> USE SchedulerAssumption, NoneAssumption
<1> DEFINE s == current[c]
<1>t. /\ health \in [Sources -> Health] /\ rest \in [Sources -> Ages]
      /\ todo \in [Callers -> SUBSET Sources] /\ Scheduler \in Callers
      /\ current \in [Callers -> Sources \cup {None}]
      /\ \A x \in Sources : health[x].age \in Ages \cup {None}
  BY DEF TypeInv, TypeOK, Callers, Health
<1>1. s \in Sources /\ own[c][s] # None /\ own[c][s].age \in Ages
  BY DEF CommitCrawl, Phase, TypeInv, TypeOK, OwnOnly, OwnAges
<1>2. health'[s] = own[c][s] /\ \A x \in Sources : x # s => health'[x] = health[x]
  BY <1>1 DEF CommitCrawl, CommitRows, Row, TypeInv, OwnOnly
<1>3. \A x \in Sources : x # s => rest'[x] = rest[x]
  BY <1>t DEF CommitCrawl
<1>4. Recorded'
  <2>1. own[c][s].age <= rest'[s]
    <3>1. CASE c = Scheduler
      BY <1>1, <1>t, <3>1 DEF CommitCrawl, Ages
    <3>2. CASE c # Scheduler /\ PutsBack(c, s)
      BY <1>1, <1>t, <3>2 DEF CommitCrawl, Ages
    <3>3. CASE c # Scheduler /\ ~PutsBack(c, s)
      <4>1. rest' = rest
        BY <3>3 DEF CommitCrawl
      <4>2. own[c][s].age <= rest[s]
        BY <1>1, <1>t, <3>3 DEF PutsBack, SpacingInv, Recorded, Ages
      <4> QED
        BY <4>1, <4>2
    <3> QED
      BY <3>1, <3>2, <3>3
  <2> QED
    BY <1>1, <1>2, <1>3, <2>1 DEF SpacingInv, Recorded
<1>5. Listed'
  <2>1. todo' = todo
    BY DEF CommitCrawl
  <2>2. CASE c = Scheduler
    BY <1>t, <1>1, <1>3, <2>1, <2>2 DEF SpacingInv, Listed, CommitCrawl, LeaveCrawl
  <2>3. CASE c # Scheduler
    <3>1. current'[Scheduler] = current[Scheduler]
      BY <1>t, <2>3 DEF CommitCrawl, LeaveCrawl
    <3>2. rest'[s] = rest[s] \/ rest'[s] = Interval
      BY <1>t, <1>1, <2>3 DEF CommitCrawl
    <3> QED
      BY <1>t, <1>3, <2>1, <3>1, <3>2 DEF SpacingInv, Listed
  <2> QED
    BY <2>2, <2>3
<1> QED
  BY <1>4, <1>5 DEF SpacingInv

(* The account of rest and the lists under each step.                      *)
LEMMA SpacingStep == TypeInv /\ SpacingInv /\ [Next]_vars => SpacingInv'
<1> SUFFICES ASSUME TypeInv, SpacingInv, [Next]_vars PROVE SpacingInv'
  OBVIOUS
<1> USE SchedulerAssumption, NoneAssumption
<1>t. /\ health \in [Sources -> Health] /\ rest \in [Sources -> Ages]
      /\ todo \in [Callers -> SUBSET Sources] /\ Scheduler \in Callers
      /\ current \in [Callers -> Sources \cup {None}]
      /\ \A s \in Sources : health[s].age \in Ages \cup {None}
  BY DEF TypeInv, TypeOK, Callers, Health
<1>1. CASE StartTick
  <2>1. current[Scheduler] = None
    BY <1>1, <1>t DEF StartTick, List, Phase, TypeInv, TypeOK
  <2>2. \A s \in Due : s \in Sources /\ rest[s] = Interval
    BY <1>t DEF Due, SpacingInv, Recorded, Ages
  <2> QED
    BY <1>1, <1>t, <2>1, <2>2 DEF StartTick, List, SpacingInv, Recorded, Listed
<1>2. ASSUME NEW c \in Others, NEW k, NEW listed, List(c, k, listed) PROVE SpacingInv'
  BY <1>2, <1>t DEF List, SpacingInv, Recorded, Listed
<1>3. ASSUME NEW c \in Callers, NEW s \in Sources, BeginCrawl(c, s) PROVE SpacingInv'
  BY <1>3, <1>t DEF BeginCrawl, SpacingInv, Recorded, Listed
<1>4. ASSUME NEW c \in Callers, Return(c) \/ Raise(c) \/ Finish(c) PROVE SpacingInv'
  BY <1>4 DEF Return, Raise, Finish, SpacingInv, Recorded, Listed
<1>5. CASE RollBackCrawl
  BY <1>5, <1>t DEF RollBackCrawl, AfterFailure, LeaveCrawl, SpacingInv, Recorded, Listed
<1>6. ASSUME NEW c \in Callers, GiveUp(c) \/ KeyError(c) \/ Crash(c) PROVE SpacingInv'
  BY <1>6, <1>t DEF GiveUp, KeyError, Crash, Drop, LeaveCrawl, SpacingInv, Recorded,
                    Listed
<1>7. ASSUME NEW s \in Sources, Toggle(s) PROVE SpacingInv'
  BY <1>7 DEF Toggle, SpacingInv, Recorded, Listed
<1>8. CASE Time
  <2>1. \A s \in Sources : /\ health'[s].age = Older(health[s].age)
                           /\ rest'[s] = Older(rest[s])
    BY <1>8, <1>t, AgedTypes DEF Time
  <2>2. Recorded'
    BY <1>t, <2>1, AgedTypes DEF SpacingInv, Recorded, Ages
  <2>3. Listed'
    BY <1>8, <1>t, <2>1, AgedTypes DEF Time, SpacingInv, Listed
  <2> QED
    BY <2>2, <2>3 DEF SpacingInv
<1>9. CASE UNCHANGED vars
  BY <1>9 DEF vars, SpacingInv, Recorded, Listed
<1> QED
  BY <1>1, <1>2, <1>3, <1>4, <1>5, <1>6, <1>7, <1>8, <1>9, CommitSpacing
     DEF Next, SchedulerStep, OtherStep, StartRound, Request, Callers

(* The scheduler begins a crawl only of a source that has rested for the   *)
(* interval since the last one it committed, requests, rounds, stops and   *)
(* crashes notwithstanding (ingest/scheduler.py:16-25, health.py:20-21).   *)
THEOREM Spaced == Spec => Spacing
<1>1. Init => SpacingInv
  BY DEF Init, SpacingInv, Recorded, Listed, Callers
<1>2. Spec => [](TypeInv /\ SpacingInv)
  BY TypeInit, TypeStep, <1>1, SpacingStep, PTL DEF Spec
<1>3. TypeInv /\ SpacingInv /\ [Next]_vars
        => [\A s \in Sources :
              current[Scheduler] # s /\ current'[Scheduler] = s
                  => rest[s] = Interval]_vars
  <2> SUFFICES ASSUME TypeInv, SpacingInv, Next, NEW s \in Sources,
                      current[Scheduler] # s, current'[Scheduler] = s
               PROVE  rest[s] = Interval
    OBVIOUS
  <2>t. current \in [Callers -> Sources \cup {None}] /\ Scheduler \in Callers
    BY DEF TypeInv, TypeOK, Callers
  <2>1. s # None
    BY NoneAssumption
  <2>2. ASSUME NEW c \in Callers, NEW x \in Sources, BeginCrawl(c, x)
        PROVE  rest[s] = Interval
    BY <2>2, <2>t DEF BeginCrawl, SpacingInv, Listed
  <2>3. ASSUME NEW c \in Callers, NEW k, NEW listed, List(c, k, listed) PROVE FALSE
    BY <2>3 DEF List
  <2>4. ASSUME NEW c \in Callers, Return(c) \/ Raise(c) \/ Finish(c) PROVE FALSE
    BY <2>4 DEF Return, Raise, Finish
  <2>5. ASSUME NEW c \in Callers, LeaveCrawl(c) PROVE FALSE
    BY <2>5, <2>1, <2>t DEF LeaveCrawl
  <2>6. ASSUME NEW x \in Sources, Toggle(x) \/ Time PROVE FALSE
    BY <2>6 DEF Toggle, Time
  <2> QED
    BY <2>2, <2>3, <2>4, <2>5, <2>6
       DEF Next, SchedulerStep, OtherStep, StartTick, StartRound, Request,
           CommitCrawl, RollBackCrawl, GiveUp, KeyError, Crash, Drop, Callers
<1> QED
  BY <1>2, <1>3, PTL DEF Spec, Spacing
=============================================================================
