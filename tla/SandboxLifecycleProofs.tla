----------------------- MODULE SandboxLifecycleProofs -----------------------
(***************************************************************************)
(* Safety of up, down and reap for any number of sandboxes, commands and   *)
(* reapers, and for any lifetimes.  The three properties hold only with    *)
(* what the processes are in the middle of, so they are proved together    *)
(* with it: one lemma for each part of the inductive invariant.            *)
(***************************************************************************)
EXTENDS SandboxLifecycle, TLAPS

\* What Next is made of, one step of a command at a time.
LEMMA LifeCases ==
  ASSUME [LifeNext]_lifeVars
  PROVE  \/ \E c \in Commands, n \in Sandboxes, source \in Sources, lease \in Leases :
               UpBegin(c, n, source, lease)
         \/ \E c \in Commands : UpStamp(c)
         \/ \E c \in Commands : UpLease(c)
         \/ \E c \in Commands : UpMount(c)
         \/ \E c \in Commands : UpCompose(c)
         \/ \E c \in Commands : UpFails(c)
         \/ \E c \in Commands, n \in Sandboxes : DownBegin(c, n)
         \/ \E p \in Procs : ComposeDown(p)
         \/ \E p \in Procs : DownFails(p)
         \/ \E p \in Procs, busy \in BOOLEAN : Unmount(p, busy)
         \/ \E r \in Reapers, scope \in {"due", "all"} : ReapBegin(r, scope)
         \/ \E r \in Reapers, n \in Sandboxes : ReapVisit(r, n)
         \/ \E r \in Reapers : ReapDecide(r)
         \/ \E r \in Reapers : ReapClearStart(r)
         \/ \E r \in Reapers : ReapClearTTL(r)
         \/ \E r \in Reapers : ReapEnd(r)
         \/ \E p \in Procs : Killed(p)
         \/ Tick
         \/ UNCHANGED lifeVars
  BY DEF LifeNext, UpStep, DownStep, ReapStep, Procs

\* The shell variables a process starts with, and those it sets later.
LEMMA MemoryType ==
  /\ Blank \in Memory
  /\ \A m \in Memory, t \in Time : [m EXCEPT !.start = t] \in Memory
  /\ \A m \in Memory, t \in Time, l \in Leases :
        [m EXCEPT !.start = t, !.lease = l] \in Memory
  /\ \A m \in Memory, t \in Time, s \in {"due", "all"} :
        [m EXCEPT !.clock = t, !.scope = s] \in Memory
<1>1. 0 \in Time BY LifecycleAssumption DEF Time
<1> QED BY <1>1 DEF Blank, Memory, Leases

\* Every step keeps the types.
LEMMA LifeTypeStep ==
  ASSUME LifeTypeOK, [LifeNext]_lifeVars
  PROVE  LifeTypeOK'
<1> USE LifecycleAssumption DEF LifeTypeOK, Procs, UpStages, CommandStages,
      ReaperStages, files
<1>1. ASSUME NEW c \in Commands, NEW n \in Sandboxes, NEW source \in Sources,
              NEW lease \in Leases, UpBegin(c, n, source, lease)
      PROVE  LifeTypeOK'
  <2>1. [Blank EXCEPT !.start = now, !.lease = lease] \in Memory
    BY MemoryType
  <2>2. mem' \in [Procs -> Memory] BY <1>1, <2>1 DEF UpBegin
  <2> QED BY <1>1, <2>2 DEF UpBegin
<1>2. ASSUME NEW c \in Commands, UpStamp(c) PROVE LifeTypeOK'
  <2>1. at[c] \in Sandboxes /\ mem[c].start \in Time
    BY <1>2 DEF UpStamp, Memory
  <2>2. [asked[at[c]] EXCEPT !.born = mem[c].start] \in [born : Time, lease : Leases]
    BY <2>1
  <2>3. asked' \in [Sandboxes -> [born : Time, lease : Leases]]
    BY <1>2, <2>1, <2>2 DEF UpStamp
  <2> QED BY <1>2, <2>1, <2>3 DEF UpStamp, Goes
<1>3. ASSUME NEW c \in Commands, UpLease(c) PROVE LifeTypeOK'
  <2>1. at[c] \in Sandboxes /\ mem[c].lease \in Leases
    BY <1>3 DEF UpLease, Memory
  <2>2. [asked[at[c]] EXCEPT !.lease = mem[c].lease] \in [born : Time, lease : Leases]
    BY <2>1
  <2>3. asked' \in [Sandboxes -> [born : Time, lease : Leases]]
    BY <1>3, <2>1, <2>2 DEF UpLease
  <2> QED BY <1>3, <2>1, <2>3 DEF UpLease, Goes
<1>4. ASSUME NEW c \in Commands, UpMount(c) PROVE LifeTypeOK'
  BY <1>4 DEF UpMount, Goes
<1>5. ASSUME NEW c \in Commands, UpCompose(c) PROVE LifeTypeOK'
  BY <1>5, MemoryType DEF UpCompose, Leaves
<1>6. ASSUME NEW c \in Commands, UpFails(c) PROVE LifeTypeOK'
  BY <1>6, MemoryType DEF UpFails, Leaves
<1>7. ASSUME NEW c \in Commands, NEW n \in Sandboxes, DownBegin(c, n) PROVE LifeTypeOK'
  BY <1>7 DEF DownBegin
<1>8. ASSUME NEW p \in Procs, ComposeDown(p) PROVE LifeTypeOK'
  BY <1>8 DEF ComposeDown, Goes
<1>9. ASSUME NEW p \in Procs, DownFails(p) PROVE LifeTypeOK'
  BY <1>9 DEF DownFails, Leaves, AfterDown
<1>10. ASSUME NEW p \in Procs, NEW busy \in BOOLEAN, Unmount(p, busy) PROVE LifeTypeOK'
  <2>1. view' \in [Sandboxes -> Sources \cup {Unset}]
    BY <1>10 DEF Unmount
  <2>2. /\ pc[p] = "unmount"
        /\ UNCHANGED <<now, startedAt, ttl, env, running, mem, todo, kills, asked, raced>>
    BY <1>10 DEF Unmount
  <2>3. CASE p \in Reapers
    <3>1. pc' = [pc EXCEPT ![p] = "clearStart"] /\ at' = at
      BY <1>10, <2>3 DEF Unmount, Goes
    <3> QED BY <2>1, <2>2, <2>3, <3>1
  <2>4. CASE p \notin Reapers
    <3>1. pc' = [pc EXCEPT ![p] = "idle"] /\ at' = [at EXCEPT ![p] = Unset]
      BY <1>10, <2>4 DEF Unmount, Leaves
    <3> QED BY <2>1, <2>2, <3>1
  <2> QED BY <2>3, <2>4
<1>11. ASSUME NEW r \in Reapers, NEW scope \in {"due", "all"}, ReapBegin(r, scope)
      PROVE  LifeTypeOK'
  <2>1. [Blank EXCEPT !.clock = now, !.scope = scope] \in Memory
    BY MemoryType
  <2>2. mem' \in [Procs -> Memory] BY <1>11, <2>1 DEF ReapBegin
  <2> QED BY <1>11, <2>2 DEF ReapBegin
<1>12. ASSUME NEW r \in Reapers, NEW n \in Sandboxes, ReapVisit(r, n) PROVE LifeTypeOK'
  <2>1. CASE startedAt[n] = Unset BY <1>12, <2>1 DEF ReapVisit
  <2>2. CASE startedAt[n] # Unset
    <3>1. [mem[r] EXCEPT !.start = startedAt[n]] \in Memory
      BY <2>2, MemoryType
    <3>2. mem' \in [Procs -> Memory] BY <1>12, <2>2, <3>1 DEF ReapVisit
    <3>3. /\ pc' = [pc EXCEPT ![r] = "decide"] /\ at' = [at EXCEPT ![r] = n]
          /\ todo' = [todo EXCEPT ![r] = @ \ {n}]
          /\ raced' \subseteq Sandboxes
          /\ UNCHANGED <<now, startedAt, ttl, env, view, running, kills, asked>>
      BY <1>12, <2>2 DEF ReapVisit
    <3> QED BY <3>2, <3>3
  <2> QED BY <2>1, <2>2
<1>13. ASSUME NEW r \in Reapers, ReapDecide(r) PROVE LifeTypeOK'
  <2>1. CASE Due(mem[r].start, ttl[at[r]], mem[r].scope, mem[r].clock)
    <3>1. pc' = [pc EXCEPT ![r] = "down"] /\ at' = at
      BY <1>13, <2>1 DEF ReapDecide, Goes
    <3> QED BY <1>13, <3>1 DEF ReapDecide
  <2>2. CASE ~Due(mem[r].start, ttl[at[r]], mem[r].scope, mem[r].clock)
    <3>1. pc' = [pc EXCEPT ![r] = "scan"] /\ at' = [at EXCEPT ![r] = Unset]
      BY <1>13, <2>2 DEF ReapDecide, Leaves
    <3> QED BY <1>13, <3>1 DEF ReapDecide
  <2> QED BY <2>1, <2>2
<1>14. ASSUME NEW r \in Reapers, ReapClearStart(r) PROVE LifeTypeOK'
  BY <1>14 DEF ReapClearStart, Goes
<1>15. ASSUME NEW r \in Reapers, ReapClearTTL(r) PROVE LifeTypeOK'
  BY <1>15 DEF ReapClearTTL, Leaves, Leases
<1>16. ASSUME NEW r \in Reapers, ReapEnd(r) PROVE LifeTypeOK'
  BY <1>16, MemoryType DEF ReapEnd
<1>17. ASSUME NEW p \in Procs, Killed(p) PROVE LifeTypeOK'
  <2>1. pc' = [pc EXCEPT ![p] = "idle"] /\ at' = [at EXCEPT ![p] = Unset]
    BY <1>17 DEF Killed, Leaves
  <2>2. mem' \in [Procs -> Memory] BY <1>17, MemoryType DEF Killed
  <2>3. todo' \in [Reapers -> SUBSET Sandboxes] BY <1>17 DEF Killed
  <2>4. /\ kills' \in 0 .. MaxKills
        /\ UNCHANGED <<now, startedAt, ttl, env, view, running, asked, raced>>
    BY <1>17 DEF Killed
  <2> QED BY <2>1, <2>2, <2>3, <2>4
<1>18. CASE Tick BY <1>18 DEF Tick, Time
<1>19. CASE UNCHANGED lifeVars BY <1>19 DEF lifeVars
<1> HIDE DEF LifeTypeOK, Procs, UpStages, CommandStages, ReaperStages, files
<1> QED
  BY LifeCases, <1>1, <1>2, <1>3, <1>4, <1>5, <1>6, <1>7, <1>8, <1>9, <1>10,
     <1>11, <1>12, <1>13, <1>14, <1>15, <1>16, <1>17, <1>18, <1>19, Zenon

\* A command that comes upon another at work on the same sandbox marks it as raced.
LEMMA ApartStep ==
  ASSUME LifeTypeOK, ApartInv, [LifeNext]_lifeVars
  PROVE  ApartInv'
<1> USE LifecycleAssumption DEF LifeTypeOK, Procs, UpStages, CommandStages,
      ReaperStages, files, ApartInv, Upping, Downing, Visiting
<1>1. ASSUME NEW c \in Commands, NEW n \in Sandboxes, NEW source \in Sources,
              NEW lease \in Leases, UpBegin(c, n, source, lease)
      PROVE  ApartInv'
  BY <1>1 DEF UpBegin
<1>2. ASSUME NEW c \in Commands, UpStamp(c) PROVE ApartInv'
  BY <1>2 DEF UpStamp, Goes
<1>3. ASSUME NEW c \in Commands, UpLease(c) PROVE ApartInv'
  BY <1>3 DEF UpLease, Goes
<1>4. ASSUME NEW c \in Commands, UpMount(c) PROVE ApartInv'
  BY <1>4 DEF UpMount, Goes
<1>5. ASSUME NEW c \in Commands, UpCompose(c) PROVE ApartInv'
  BY <1>5 DEF UpCompose, Leaves
<1>6. ASSUME NEW c \in Commands, UpFails(c) PROVE ApartInv'
  BY <1>6 DEF UpFails, Leaves
<1>7. ASSUME NEW c \in Commands, NEW n \in Sandboxes, DownBegin(c, n) PROVE ApartInv'
  BY <1>7 DEF DownBegin
<1>8. ASSUME NEW p \in Procs, ComposeDown(p) PROVE ApartInv'
  BY <1>8 DEF ComposeDown, Goes
<1>9. ASSUME NEW p \in Procs, DownFails(p) PROVE ApartInv'
  BY <1>9 DEF DownFails, Leaves, AfterDown
<1>10. ASSUME NEW p \in Procs, NEW busy \in BOOLEAN, Unmount(p, busy) PROVE ApartInv'
  BY <1>10 DEF Unmount, Leaves, Goes
<1>11. ASSUME NEW r \in Reapers, NEW scope \in {"due", "all"}, ReapBegin(r, scope)
      PROVE  ApartInv'
  BY <1>11 DEF ReapBegin
<1>12. ASSUME NEW r \in Reapers, NEW n \in Sandboxes, ReapVisit(r, n) PROVE ApartInv'
  BY <1>12 DEF ReapVisit
<1>13. ASSUME NEW r \in Reapers, ReapDecide(r) PROVE ApartInv'
  BY <1>13 DEF ReapDecide, Leaves, Goes
<1>14. ASSUME NEW r \in Reapers, ReapClearStart(r) PROVE ApartInv'
  BY <1>14 DEF ReapClearStart, Goes
<1>15. ASSUME NEW r \in Reapers, ReapClearTTL(r) PROVE ApartInv'
  BY <1>15 DEF ReapClearTTL, Leaves
<1>16. ASSUME NEW r \in Reapers, ReapEnd(r) PROVE ApartInv'
  BY <1>16 DEF ReapEnd
<1>17. ASSUME NEW p \in Procs, Killed(p) PROVE ApartInv'
  BY <1>17 DEF Killed, Leaves
<1>18. CASE Tick BY <1>18 DEF Tick
<1>19. CASE UNCHANGED lifeVars BY <1>19 DEF lifeVars
<1> HIDE DEF LifeTypeOK, Procs, UpStages, CommandStages, ReaperStages, files,
      ApartInv, Upping, Downing, Visiting
<1> QED
  BY LifeCases, <1>1, <1>2, <1>3, <1>4, <1>5, <1>6, <1>7, <1>8, <1>9, <1>10,
     <1>11, <1>12, <1>13, <1>14, <1>15, <1>16, <1>17, <1>18, <1>19, Zenon

\* Only up starts containers, and where it is at work nobody is past compose down.
LEMMA StoppedStep ==
  ASSUME LifeTypeOK, ApartInv, StoppedInv, [LifeNext]_lifeVars
  PROVE  StoppedInv'
<1> USE LifecycleAssumption DEF LifeTypeOK, Procs, UpStages, CommandStages,
      ReaperStages, files, ApartInv, Upping, Downing, Visiting, StoppedInv
<1>1. ASSUME NEW c \in Commands, NEW n \in Sandboxes, NEW source \in Sources,
              NEW lease \in Leases, UpBegin(c, n, source, lease)
      PROVE  StoppedInv'
  BY <1>1 DEF UpBegin
<1>2. ASSUME NEW c \in Commands, UpStamp(c) PROVE StoppedInv'
  BY <1>2 DEF UpStamp, Goes
<1>3. ASSUME NEW c \in Commands, UpLease(c) PROVE StoppedInv'
  BY <1>3 DEF UpLease, Goes
<1>4. ASSUME NEW c \in Commands, UpMount(c) PROVE StoppedInv'
  BY <1>4 DEF UpMount, Goes
<1>5. ASSUME NEW c \in Commands, UpCompose(c) PROVE StoppedInv'
  BY <1>5 DEF UpCompose, Leaves
<1>6. ASSUME NEW c \in Commands, UpFails(c) PROVE StoppedInv'
  BY <1>6 DEF UpFails, Leaves
<1>7. ASSUME NEW c \in Commands, NEW n \in Sandboxes, DownBegin(c, n) PROVE StoppedInv'
  BY <1>7 DEF DownBegin
<1>8. ASSUME NEW p \in Procs, ComposeDown(p) PROVE StoppedInv'
  BY <1>8 DEF ComposeDown, Goes
<1>9. ASSUME NEW p \in Procs, DownFails(p) PROVE StoppedInv'
  BY <1>9 DEF DownFails, Leaves, AfterDown
<1>10. ASSUME NEW p \in Procs, NEW busy \in BOOLEAN, Unmount(p, busy) PROVE StoppedInv'
  BY <1>10 DEF Unmount, Leaves, Goes
<1>11. ASSUME NEW r \in Reapers, NEW scope \in {"due", "all"}, ReapBegin(r, scope)
      PROVE  StoppedInv'
  BY <1>11 DEF ReapBegin
<1>12. ASSUME NEW r \in Reapers, NEW n \in Sandboxes, ReapVisit(r, n) PROVE StoppedInv'
  BY <1>12 DEF ReapVisit
<1>13. ASSUME NEW r \in Reapers, ReapDecide(r) PROVE StoppedInv'
  BY <1>13 DEF ReapDecide, Leaves, Goes
<1>14. ASSUME NEW r \in Reapers, ReapClearStart(r) PROVE StoppedInv'
  BY <1>14 DEF ReapClearStart, Goes
<1>15. ASSUME NEW r \in Reapers, ReapClearTTL(r) PROVE StoppedInv'
  BY <1>15 DEF ReapClearTTL, Leaves
<1>16. ASSUME NEW r \in Reapers, ReapEnd(r) PROVE StoppedInv'
  BY <1>16 DEF ReapEnd
<1>17. ASSUME NEW p \in Procs, Killed(p) PROVE StoppedInv'
  BY <1>17 DEF Killed, Leaves
<1>18. CASE Tick BY <1>18 DEF Tick
<1>19. CASE UNCHANGED lifeVars BY <1>19 DEF lifeVars
<1> HIDE DEF LifeTypeOK, Procs, UpStages, CommandStages, ReaperStages, files,
      ApartInv, Upping, Downing, Visiting, StoppedInv
<1> QED
  BY LifeCases, <1>1, <1>2, <1>3, <1>4, <1>5, <1>6, <1>7, <1>8, <1>9, <1>10,
     <1>11, <1>12, <1>13, <1>14, <1>15, <1>16, <1>17, <1>18, <1>19, Zenon

\* What up wrote is undone by a down or a reap only where the two raced.
LEMMA RecordedStep ==
  ASSUME LifeTypeOK, ApartInv, RecordedInv, [LifeNext]_lifeVars
  PROVE  RecordedInv'
<1> USE LifecycleAssumption DEF LifeTypeOK, Procs, UpStages, CommandStages,
      ReaperStages, files, ApartInv, Upping, Downing, Visiting, RecordedInv, Blank
<1>1. ASSUME NEW c \in Commands, NEW n \in Sandboxes, NEW source \in Sources,
              NEW lease \in Leases, UpBegin(c, n, source, lease)
      PROVE  RecordedInv'
  BY <1>1 DEF UpBegin
<1>2. ASSUME NEW c \in Commands, UpStamp(c) PROVE RecordedInv'
  BY <1>2 DEF UpStamp, Goes
<1>3. ASSUME NEW c \in Commands, UpLease(c) PROVE RecordedInv'
  BY <1>3 DEF UpLease, Goes
<1>4. ASSUME NEW c \in Commands, UpMount(c) PROVE RecordedInv'
  BY <1>4 DEF UpMount, Goes
<1>5. ASSUME NEW c \in Commands, UpCompose(c) PROVE RecordedInv'
  BY <1>5 DEF UpCompose, Leaves
<1>6. ASSUME NEW c \in Commands, UpFails(c) PROVE RecordedInv'
  BY <1>6 DEF UpFails, Leaves
<1>7. ASSUME NEW c \in Commands, NEW n \in Sandboxes, DownBegin(c, n) PROVE RecordedInv'
  BY <1>7 DEF DownBegin
<1>8. ASSUME NEW p \in Procs, ComposeDown(p) PROVE RecordedInv'
  BY <1>8 DEF ComposeDown, Goes
<1>9. ASSUME NEW p \in Procs, DownFails(p) PROVE RecordedInv'
  BY <1>9 DEF DownFails, Leaves, AfterDown
<1>10. ASSUME NEW p \in Procs, NEW busy \in BOOLEAN, Unmount(p, busy) PROVE RecordedInv'
  BY <1>10 DEF Unmount, Leaves, Goes
<1>11. ASSUME NEW r \in Reapers, NEW scope \in {"due", "all"}, ReapBegin(r, scope)
      PROVE  RecordedInv'
  BY <1>11 DEF ReapBegin
<1>12. ASSUME NEW r \in Reapers, NEW n \in Sandboxes, ReapVisit(r, n) PROVE RecordedInv'
  BY <1>12 DEF ReapVisit
<1>13. ASSUME NEW r \in Reapers, ReapDecide(r) PROVE RecordedInv'
  BY <1>13 DEF ReapDecide, Leaves, Goes
<1>14. ASSUME NEW r \in Reapers, ReapClearStart(r) PROVE RecordedInv'
  BY <1>14 DEF ReapClearStart, Goes
<1>15. ASSUME NEW r \in Reapers, ReapClearTTL(r) PROVE RecordedInv'
  BY <1>15 DEF ReapClearTTL, Leaves
<1>16. ASSUME NEW r \in Reapers, ReapEnd(r) PROVE RecordedInv'
  BY <1>16 DEF ReapEnd
<1>17. ASSUME NEW p \in Procs, Killed(p) PROVE RecordedInv'
  BY <1>17 DEF Killed, Leaves
<1>18. CASE Tick BY <1>18 DEF Tick
<1>19. CASE UNCHANGED lifeVars BY <1>19 DEF lifeVars
<1> HIDE DEF LifeTypeOK, Procs, UpStages, CommandStages, ReaperStages, files,
      ApartInv, Upping, Downing, Visiting, RecordedInv, Blank
<1> QED
  BY LifeCases, <1>1, <1>2, <1>3, <1>4, <1>5, <1>6, <1>7, <1>8, <1>9, <1>10,
     <1>11, <1>12, <1>13, <1>14, <1>15, <1>16, <1>17, <1>18, <1>19, Zenon

\* reap clears the lifetime only of what has no containers.
LEMMA LeaseStep ==
  ASSUME LifeTypeOK, StoppedInv, RecordedInv, LeaseKept, [LifeNext]_lifeVars
  PROVE  LeaseKept'
<1> USE LifecycleAssumption DEF LifeTypeOK, Procs, UpStages, CommandStages,
      ReaperStages, files, StoppedInv, RecordedInv, LeaseKept
<1>1. ASSUME NEW c \in Commands, NEW n \in Sandboxes, NEW source \in Sources,
              NEW lease \in Leases, UpBegin(c, n, source, lease)
      PROVE  LeaseKept'
  BY <1>1 DEF UpBegin
<1>2. ASSUME NEW c \in Commands, UpStamp(c) PROVE LeaseKept'
  BY <1>2 DEF UpStamp, Goes
<1>3. ASSUME NEW c \in Commands, UpLease(c) PROVE LeaseKept'
  BY <1>3 DEF UpLease, Goes
<1>4. ASSUME NEW c \in Commands, UpMount(c) PROVE LeaseKept'
  BY <1>4 DEF UpMount, Goes
<1>5. ASSUME NEW c \in Commands, UpCompose(c) PROVE LeaseKept'
  BY <1>5 DEF UpCompose, Leaves
<1>6. ASSUME NEW c \in Commands, UpFails(c) PROVE LeaseKept'
  BY <1>6 DEF UpFails, Leaves
<1>7. ASSUME NEW c \in Commands, NEW n \in Sandboxes, DownBegin(c, n) PROVE LeaseKept'
  BY <1>7 DEF DownBegin
<1>8. ASSUME NEW p \in Procs, ComposeDown(p) PROVE LeaseKept'
  BY <1>8 DEF ComposeDown, Goes
<1>9. ASSUME NEW p \in Procs, DownFails(p) PROVE LeaseKept'
  BY <1>9 DEF DownFails, Leaves, AfterDown
<1>10. ASSUME NEW p \in Procs, NEW busy \in BOOLEAN, Unmount(p, busy) PROVE LeaseKept'
  BY <1>10 DEF Unmount, Leaves, Goes
<1>11. ASSUME NEW r \in Reapers, NEW scope \in {"due", "all"}, ReapBegin(r, scope)
      PROVE  LeaseKept'
  BY <1>11 DEF ReapBegin
<1>12. ASSUME NEW r \in Reapers, NEW n \in Sandboxes, ReapVisit(r, n) PROVE LeaseKept'
  BY <1>12 DEF ReapVisit
<1>13. ASSUME NEW r \in Reapers, ReapDecide(r) PROVE LeaseKept'
  BY <1>13 DEF ReapDecide, Leaves, Goes
<1>14. ASSUME NEW r \in Reapers, ReapClearStart(r) PROVE LeaseKept'
  BY <1>14 DEF ReapClearStart, Goes
<1>15. ASSUME NEW r \in Reapers, ReapClearTTL(r) PROVE LeaseKept'
  BY <1>15 DEF ReapClearTTL, Leaves
<1>16. ASSUME NEW r \in Reapers, ReapEnd(r) PROVE LeaseKept'
  BY <1>16 DEF ReapEnd
<1>17. ASSUME NEW p \in Procs, Killed(p) PROVE LeaseKept'
  BY <1>17 DEF Killed, Leaves
<1>18. CASE Tick BY <1>18 DEF Tick
<1>19. CASE UNCHANGED lifeVars BY <1>19 DEF lifeVars
<1> HIDE DEF LifeTypeOK, Procs, UpStages, CommandStages, ReaperStages, files,
      StoppedInv, RecordedInv, LeaseKept
<1> QED
  BY LifeCases, <1>1, <1>2, <1>3, <1>4, <1>5, <1>6, <1>7, <1>8, <1>9, <1>10,
     <1>11, <1>12, <1>13, <1>14, <1>15, <1>16, <1>17, <1>18, <1>19, Zenon

\* unmount.sh runs only where compose down has been.
LEMMA ViewStep ==
  ASSUME LifeTypeOK, StoppedInv, RecordedInv, ViewUnderContainers, [LifeNext]_lifeVars
  PROVE  ViewUnderContainers'
<1> USE LifecycleAssumption DEF LifeTypeOK, Procs, UpStages, CommandStages,
      ReaperStages, files, StoppedInv, RecordedInv, ViewUnderContainers
<1>1. ASSUME NEW c \in Commands, NEW n \in Sandboxes, NEW source \in Sources,
              NEW lease \in Leases, UpBegin(c, n, source, lease)
      PROVE  ViewUnderContainers'
  BY <1>1 DEF UpBegin
<1>2. ASSUME NEW c \in Commands, UpStamp(c) PROVE ViewUnderContainers'
  BY <1>2 DEF UpStamp, Goes
<1>3. ASSUME NEW c \in Commands, UpLease(c) PROVE ViewUnderContainers'
  BY <1>3 DEF UpLease, Goes
<1>4. ASSUME NEW c \in Commands, UpMount(c) PROVE ViewUnderContainers'
  BY <1>4 DEF UpMount, Goes
<1>5. ASSUME NEW c \in Commands, UpCompose(c) PROVE ViewUnderContainers'
  BY <1>5 DEF UpCompose, Leaves
<1>6. ASSUME NEW c \in Commands, UpFails(c) PROVE ViewUnderContainers'
  BY <1>6 DEF UpFails, Leaves
<1>7. ASSUME NEW c \in Commands, NEW n \in Sandboxes, DownBegin(c, n) PROVE ViewUnderContainers'
  BY <1>7 DEF DownBegin
<1>8. ASSUME NEW p \in Procs, ComposeDown(p) PROVE ViewUnderContainers'
  BY <1>8 DEF ComposeDown, Goes
<1>9. ASSUME NEW p \in Procs, DownFails(p) PROVE ViewUnderContainers'
  BY <1>9 DEF DownFails, Leaves, AfterDown
<1>10. ASSUME NEW p \in Procs, NEW busy \in BOOLEAN, Unmount(p, busy) PROVE ViewUnderContainers'
  BY <1>10 DEF Unmount, Leaves, Goes
<1>11. ASSUME NEW r \in Reapers, NEW scope \in {"due", "all"}, ReapBegin(r, scope)
      PROVE  ViewUnderContainers'
  BY <1>11 DEF ReapBegin
<1>12. ASSUME NEW r \in Reapers, NEW n \in Sandboxes, ReapVisit(r, n) PROVE ViewUnderContainers'
  BY <1>12 DEF ReapVisit
<1>13. ASSUME NEW r \in Reapers, ReapDecide(r) PROVE ViewUnderContainers'
  BY <1>13 DEF ReapDecide, Leaves, Goes
<1>14. ASSUME NEW r \in Reapers, ReapClearStart(r) PROVE ViewUnderContainers'
  BY <1>14 DEF ReapClearStart, Goes
<1>15. ASSUME NEW r \in Reapers, ReapClearTTL(r) PROVE ViewUnderContainers'
  BY <1>15 DEF ReapClearTTL, Leaves
<1>16. ASSUME NEW r \in Reapers, ReapEnd(r) PROVE ViewUnderContainers'
  BY <1>16 DEF ReapEnd
<1>17. ASSUME NEW p \in Procs, Killed(p) PROVE ViewUnderContainers'
  BY <1>17 DEF Killed, Leaves
<1>18. CASE Tick BY <1>18 DEF Tick
<1>19. CASE UNCHANGED lifeVars BY <1>19 DEF lifeVars
<1> HIDE DEF LifeTypeOK, Procs, UpStages, CommandStages, ReaperStages, files,
      StoppedInv, RecordedInv, ViewUnderContainers
<1> QED
  BY LifeCases, <1>1, <1>2, <1>3, <1>4, <1>5, <1>6, <1>7, <1>8, <1>9, <1>10,
     <1>11, <1>12, <1>13, <1>14, <1>15, <1>16, <1>17, <1>18, <1>19, Zenon

\* What a reaper read before its decision is still so when it acts on it, unless an
\* up has been there.
LEMMA ReadStep ==
  ASSUME LifeTypeOK, ApartInv, LeaseKept, ReadInv, [LifeNext]_lifeVars
  PROVE  ReadInv'
<1> USE LifecycleAssumption DEF LifeTypeOK, Procs, UpStages, CommandStages,
      ReaperStages, files, ApartInv, Upping, Downing, Visiting, LeaseKept, ReadInv,
      Time, Memory, Blank, Due
<1>1. ASSUME NEW c \in Commands, NEW n \in Sandboxes, NEW source \in Sources,
              NEW lease \in Leases, UpBegin(c, n, source, lease)
      PROVE  ReadInv'
  BY <1>1 DEF UpBegin
<1>2. ASSUME NEW c \in Commands, UpStamp(c) PROVE ReadInv'
  BY <1>2 DEF UpStamp, Goes
<1>3. ASSUME NEW c \in Commands, UpLease(c) PROVE ReadInv'
  BY <1>3 DEF UpLease, Goes
<1>4. ASSUME NEW c \in Commands, UpMount(c) PROVE ReadInv'
  BY <1>4 DEF UpMount, Goes
<1>5. ASSUME NEW c \in Commands, UpCompose(c) PROVE ReadInv'
  <2>1. c \in Upping(at[c]) BY <1>5 DEF UpCompose
  <2>2. \A r \in Reapers : pc[r] \in {"decide", "down"} /\ at[r] \notin raced => at[r] # at[c]
    BY <2>1, <1>5 DEF UpCompose
  <2>3. \A r \in Reapers : at'[r] = at[r] /\ pc'[r] = pc[r] /\ mem'[r] = mem[r]
    BY <1>5 DEF UpCompose, Leaves
  <2>4. running' \subseteq running \cup {at[c]} /\ UNCHANGED <<now, asked, raced>>
    BY <1>5 DEF UpCompose
  <2>5. \A p \in Procs : mem'[p].clock <= now' BY <1>5 DEF UpCompose
  <2> QED BY <2>2, <2>3, <2>4, <2>5
<1>6. ASSUME NEW c \in Commands, UpFails(c) PROVE ReadInv'
  <2>1. c \in Upping(at[c]) BY <1>6 DEF UpFails
  <2>2. \A r \in Reapers : pc[r] \in {"decide", "down"} /\ at[r] \notin raced => at[r] # at[c]
    BY <2>1, <1>6 DEF UpFails
  <2>3. \A r \in Reapers : at'[r] = at[r] /\ pc'[r] = pc[r] /\ mem'[r] = mem[r]
    BY <1>6 DEF UpFails, Leaves
  <2>4. running' \subseteq running \cup {at[c]} /\ UNCHANGED <<now, asked, raced>>
    BY <1>6 DEF UpFails
  <2>5. \A p \in Procs : mem'[p].clock <= now' BY <1>6 DEF UpFails
  <2> QED BY <2>2, <2>3, <2>4, <2>5
<1>7. ASSUME NEW c \in Commands, NEW n \in Sandboxes, DownBegin(c, n) PROVE ReadInv'
  BY <1>7 DEF DownBegin
<1>8. ASSUME NEW p \in Procs, ComposeDown(p) PROVE ReadInv'
  BY <1>8 DEF ComposeDown, Goes
<1>9. ASSUME NEW p \in Procs, DownFails(p) PROVE ReadInv'
  BY <1>9 DEF DownFails, Leaves, AfterDown
<1>10. ASSUME NEW p \in Procs, NEW busy \in BOOLEAN, Unmount(p, busy) PROVE ReadInv'
  BY <1>10 DEF Unmount, Leaves, Goes
<1>11. ASSUME NEW r \in Reapers, NEW scope \in {"due", "all"}, ReapBegin(r, scope)
      PROVE  ReadInv'
  BY <1>11 DEF ReapBegin
<1>12. ASSUME NEW r \in Reapers, NEW n \in Sandboxes, ReapVisit(r, n) PROVE ReadInv'
  <2>1. CASE startedAt[n] = Unset BY <1>12, <2>1 DEF ReapVisit
  <2>2. CASE startedAt[n] # Unset
    <3>1. /\ pc' = [pc EXCEPT ![r] = "decide"]
          /\ at' = [at EXCEPT ![r] = n]
          /\ mem' = [mem EXCEPT ![r].start = startedAt[n]]
          /\ raced \subseteq raced'
          /\ UNCHANGED <<now, running, asked>>
      BY <1>12, <2>2 DEF ReapVisit
    <3>2. n \notin raced' /\ n \in running => startedAt[n] = asked[n].born BY <3>1
    <3>3. \A p \in Procs : mem'[p].clock = mem[p].clock BY <3>1
    <3>4. mem'[r].start = startedAt[n] BY <3>1
    <3>5. \A q \in Reapers \ {r} : at'[q] = at[q] /\ pc'[q] = pc[q] /\ mem'[q] = mem[q]
      BY <3>1
    <3>6. pc'[r] = "decide" /\ at'[r] = n BY <3>1
    <3> QED BY <3>1, <3>2, <3>3, <3>4, <3>5, <3>6
  <2> QED BY <2>1, <2>2
<1>13. ASSUME NEW r \in Reapers, ReapDecide(r) PROVE ReadInv'
  BY <1>13 DEF ReapDecide, Leaves, Goes
<1>14. ASSUME NEW r \in Reapers, ReapClearStart(r) PROVE ReadInv'
  BY <1>14 DEF ReapClearStart, Goes
<1>15. ASSUME NEW r \in Reapers, ReapClearTTL(r) PROVE ReadInv'
  BY <1>15 DEF ReapClearTTL, Leaves
<1>16. ASSUME NEW r \in Reapers, ReapEnd(r) PROVE ReadInv'
  BY <1>16 DEF ReapEnd
<1>17. ASSUME NEW p \in Procs, Killed(p) PROVE ReadInv'
  BY <1>17 DEF Killed, Leaves
<1>18. CASE Tick BY <1>18 DEF Tick
<1>19. CASE UNCHANGED lifeVars BY <1>19 DEF lifeVars
<1> HIDE DEF LifeTypeOK, Procs, UpStages, CommandStages, ReaperStages, files,
      ApartInv, Upping, Downing, Visiting, LeaseKept, ReadInv, Time, Memory, Blank,
      Due
<1> QED
  BY LifeCases, <1>1, <1>2, <1>3, <1>4, <1>5, <1>6, <1>7, <1>8, <1>9, <1>10,
     <1>11, <1>12, <1>13, <1>14, <1>15, <1>16, <1>17, <1>18, <1>19, Zenon

LEMMA LifeInitially ==
  ASSUME LifeInit
  PROVE  /\ LifeTypeOK /\ LeaseKept /\ ViewUnderContainers
         /\ ApartInv /\ StoppedInv /\ RecordedInv /\ ReadInv
<1>1. LifeTypeOK
  <2>1. 0 \in Time /\ Unset \in Leases
    BY LifecycleAssumption DEF Time, Leases
  <2>2. mem \in [Procs -> Memory]
    BY MemoryType DEF LifeInit
  <2>3. asked \in [Sandboxes -> [born : Time, lease : Leases]]
    BY <2>1 DEF LifeInit
  <2>4. /\ pc \in [Procs -> CommandStages \cup ReaperStages]
        /\ \A c \in Commands : pc[c] \in CommandStages
        /\ \A r \in Reapers : pc[r] \in ReaperStages
    BY DEF LifeInit, Procs, CommandStages, ReaperStages
  <2>5. /\ at \in [Procs -> Sandboxes \cup {Unset}]
        /\ \A p \in Procs : at[p] = Unset <=> pc[p] \in {"idle", "scan"}
    BY DEF LifeInit
  <2>6. /\ todo \in [Reapers -> SUBSET Sandboxes]
        /\ kills \in 0 .. MaxKills
        /\ raced \subseteq Sandboxes
        /\ running \subseteq Sandboxes
    BY LifecycleAssumption DEF LifeInit
  <2> QED BY <2>1, <2>2, <2>3, <2>4, <2>5, <2>6 DEF LifeInit, LifeTypeOK
<1>2. LeaseKept /\ ViewUnderContainers
  BY DEF LifeInit, LeaseKept, ViewUnderContainers
<1>3. ApartInv /\ StoppedInv
  BY DEF LifeInit, ApartInv, Upping, Downing, Visiting, StoppedInv, UpStages, Procs
<1>4. RecordedInv
  BY DEF LifeInit, RecordedInv, UpStages, Procs
<1>5. ReadInv
  BY DEF LifeInit, ReadInv, Procs, Blank
<1> QED BY <1>1, <1>2, <1>3, <1>4, <1>5

-----------------------------------------------------------------------------
LifeInv ==
  /\ LifeTypeOK /\ LeaseKept /\ ViewUnderContainers
  /\ ApartInv /\ StoppedInv /\ RecordedInv /\ ReadInv

\* The inductive invariant: the properties below, with what keeps commands on one
\* sandbox apart and what each has done so far.
THEOREM LifeInvariant == LifeSpec => []LifeInv
<1>1. LifeInit => LifeInv
  BY LifeInitially DEF LifeInv
<1>2. LifeInv /\ [LifeNext]_lifeVars => LifeInv'
  BY LifeTypeStep, LeaseStep, ViewStep, ApartStep, StoppedStep, RecordedStep, ReadStep
  DEF LifeInv
<1> QED BY <1>1, <1>2, PTL DEF LifeSpec

\* Every variable keeps its type, and a process is at a sandbox exactly while it
\* works on one.
THEOREM LifeTypeCorrect == LifeSpec => []LifeTypeOK
<1>1. LifeInv => LifeTypeOK BY DEF LifeInv
<1> QED BY LifeInvariant, <1>1, PTL

\* For any number of commands and reapers, failures and interruptions: running
\* containers keep the lifetime that up recorded, so that reap finds them.
THEOREM LeaseIsKept == LifeSpec => []LeaseKept
<1>1. LifeInv => LeaseKept BY DEF LifeInv
<1> QED BY LifeInvariant, <1>1, PTL

\* The view outlives the containers that have it mounted.
THEOREM ViewIsKept == LifeSpec => []ViewUnderContainers
<1>1. LifeInv => ViewUnderContainers BY DEF LifeInv
<1> QED BY LifeInvariant, <1>1, PTL

\* reap ends only what has outlived the lifetime up recorded: it decided on what is
\* still recorded, with a clock that is not ahead of the present one.
THEOREM ReapedWasExpired == LifeSpec => ReapsOnlyExpired
<1> DEFINE Step == \A r \in Reapers, n \in Sandboxes \ raced :
                      Reaps(r, n) => Expired(n, mem[r].scope)
<1>1. ASSUME LifeInv, NEW r \in Reapers, NEW n \in Sandboxes \ raced, Reaps(r, n)
      PROVE  Expired(n, mem[r].scope)
  <2>1. Due(asked[n].born, asked[n].lease, mem[r].scope, mem[r].clock)
    BY <1>1 DEF LifeInv, ReadInv, Reaps
  <2>2. mem[r] \in Memory /\ asked[n] \in [born : Time, lease : Leases] /\ now \in Time
    BY <1>1 DEF LifeInv, LifeTypeOK, Procs
  <2>3. mem[r].clock <= now /\ mem[r].clock \in Time
    BY <1>1, <2>2 DEF LifeInv, ReadInv, Procs, Memory
  <2>4. asked[n].born \in Time /\ asked[n].lease \in Leases
    BY <2>2
  <2>5. asked[n].born \in Nat
    BY <2>4 DEF Time
  <2>6. asked[n].lease = Unset \/ asked[n].lease \in Nat
    BY <2>4, LifecycleAssumption, Zenon DEF Leases
  <2> QED BY <2>1, <2>2, <2>3, <2>5, <2>6, LifecycleAssumption DEF Due, Expired, Time
<1>2. LifeInv /\ [LifeNext]_lifeVars => [Step]_lifeVars
  BY <1>1
<1> QED BY LifeInvariant, <1>2, PTL DEF LifeSpec, ReapsOnlyExpired
=============================================================================
