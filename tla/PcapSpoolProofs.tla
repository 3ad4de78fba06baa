--------------------------- MODULE PcapSpoolProofs ---------------------------
(***************************************************************************)
(* For any number of analysers, files and names: analysers never share a   *)
(* file, no file is read twice, the spool keeps its promise, and           *)
(* StopPCAP.ksh leaves no analyser behind.                                 *)
(***************************************************************************)
EXTENDS PcapSpool, TLAPS

\* What is claimed has been taken and not been read; what is being read has
\* been read once.
ClaimedInv ==
  /\ \A p \in Procs : \A f \in filesList[p] :
       fstate[f] \in {"taken", "removed"} /\ reads[f] = 0
  /\ \A p \in Procs : current[p] # NULL =>
       /\ fstate[current[p]] \in {"taken", "removed"}
       /\ current[p] \notin filesList[p]
       /\ reads[current[p]] = (IF pc[p] = "open" THEN 0 ELSE 1)

\* A file is worked on exactly between its open and its rename.
CurrentInv ==
  \A p \in Procs : current[p] # NULL <=> pc[p] \in {"open", "read", "rename"}

DisjointInv ==
  \A p, q \in Procs : p # q =>
    /\ filesList[p] \cap filesList[q] = {}
    /\ current[p] \notin filesList[q]
    /\ current[p] # NULL => current[p] # current[q]

ReadsInv ==
  \A f \in Files : /\ reads[f] \in {0, 1}
                   /\ fstate[f] \in {"absent", "ready"} => reads[f] = 0

\* The supervisor starts analysers only when all are dead, and not any more
\* when it was stopped.
StopInv ==
  /\ sup = "start" => \A p \in Procs : pc[p] = "dead"
  /\ stop \in {"supervisor", "done"} => sup = "stopped"
  /\ StopIsFinal

IInv ==
  TypeOK /\ ClaimedInv /\ CurrentInv /\ DisjointInv /\ ReadsInv /\ StopInv

-----------------------------------------------------------------------------
\* Nobody works and nothing was read at the start.
LEMMA InitIInv == Init => IInv
<1> SUFFICES ASSUME Init PROVE IInv
  OBVIOUS
<1>1. TypeOK
  BY DEF Init, TypeOK
<1>2. ClaimedInv /\ CurrentInv /\ DisjointInv /\ ReadsInv
  BY DEF Init, ClaimedInv, CurrentInv, DisjointInv, ReadsInv
<1>3. StopInv
  BY DEF Init, StopInv, StopIsFinal
<1> QED
  BY <1>1, <1>2, <1>3 DEF IInv

\* Every step of an analyser keeps the invariant.
LEMMA StepIInv ==
  ASSUME IInv, NEW p \in Procs, Step(p)
  PROVE  IInv'
<1> USE NullAssumption DEF IInv
<1>1. CASE OpenDir(p)
  BY <1>1 DEF OpenDir, TypeOK, ClaimedInv, CurrentInv, DisjointInv, ReadsInv,
              StopInv, StopIsFinal, scripts
<1>2. CASE EndOfDir(p)
  BY <1>2 DEF EndOfDir, TypeOK, ClaimedInv, CurrentInv, DisjointInv, ReadsInv,
              StopInv, StopIsFinal, scripts
<1>3. CASE EndOfList(p)
  BY <1>3 DEF EndOfList, TypeOK, ClaimedInv, CurrentInv, DisjointInv, ReadsInv,
              StopInv, StopIsFinal, scripts
<1>4. CASE OpenFails(p)
  BY <1>4 DEF OpenFails, TypeOK, ClaimedInv, CurrentInv, DisjointInv, ReadsInv,
              StopInv, StopIsFinal, scripts
<1>5. CASE OpenTrace(p)
  BY <1>5 DEF OpenTrace, TypeOK, ClaimedInv, CurrentInv, DisjointInv, ReadsInv,
              StopInv, StopIsFinal, scripts
<1>6. CASE EndOfTrace(p)
  BY <1>6 DEF EndOfTrace, TypeOK, ClaimedInv, CurrentInv, DisjointInv, ReadsInv,
              StopInv, StopIsFinal, scripts
<1>7. CASE Complete(p)
  BY <1>7 DEF Complete, TypeOK, ClaimedInv, CurrentInv, DisjointInv, ReadsInv,
              StopInv, StopIsFinal, scripts
<1>8. ASSUME NEW f \in Files, Claim(p, f)
      PROVE  IInv'
  BY <1>8 DEF Claim, Ready, TypeOK, ClaimedInv, CurrentInv, DisjointInv,
              ReadsInv, StopInv, StopIsFinal, scripts
<1>9. ASSUME NEW f \in Files, NextFile(p, f)
      PROVE  IInv'
  BY <1>9 DEF NextFile, TypeOK, ClaimedInv, CurrentInv, DisjointInv,
              ReadsInv, StopInv, StopIsFinal, scripts
<1> QED
  BY <1>1, <1>2, <1>3, <1>4, <1>5, <1>6, <1>7, <1>8, <1>9 DEF Step

\* Processes that die give up what they hold; no file changes.
LEMMA DiesIInv ==
  ASSUME IInv, NEW ps \in SUBSET Procs, Dies(ps),
         UNCHANGED <<fstate, old, splunk, reads, broken>>,
         sup' \in {"check", "start", "stopped"},
         stop' \in {"idle", "analysers", "supervisor", "done"}
  PROVE  (TypeOK /\ ClaimedInv /\ CurrentInv /\ DisjointInv /\ ReadsInv)'
<1> USE NullAssumption DEF IInv, Dies
<1>1. TypeOK'
  BY DEF TypeOK
<1>2. ClaimedInv'
  BY DEF TypeOK, ClaimedInv
<1>3. CurrentInv'
  BY DEF TypeOK, CurrentInv
<1>4. DisjointInv'
  BY DEF TypeOK, DisjointInv
<1>5. ReadsInv'
  BY DEF TypeOK, ReadsInv
<1> QED
  BY <1>1, <1>2, <1>3, <1>4, <1>5

\* Every step keeps the invariant.
LEMMA NextIInv == IInv /\ [Next]_vars => IInv'
<1> SUFFICES ASSUME IInv, [Next]_vars PROVE IInv'
  OBVIOUS
<1> USE NullAssumption
<1>1. ASSUME NEW p \in Procs, Step(p)
      PROVE  IInv'
  BY <1>1, StepIInv
<1>2. ASSUME NEW p \in Procs, Crash(p)
      PROVE  IInv'
  <2>1. (TypeOK /\ ClaimedInv /\ CurrentInv /\ DisjointInv /\ ReadsInv)'
    BY <1>2, DiesIInv DEF Crash, scripts, IInv, TypeOK
  <2>2. StopInv'
    BY <1>2 DEF Crash, Dies, scripts, IInv, StopInv, StopIsFinal
  <2> QED
    BY <2>1, <2>2 DEF IInv
<1>3. ASSUME NEW f \in Files, Arrive(f)
      PROVE  IInv'
  BY <1>3 DEF Arrive, IInv, TypeOK, ClaimedInv, CurrentInv, DisjointInv,
              ReadsInv, StopInv, StopIsFinal, scripts, procVars
<1>4. ASSUME NEW f \in Files, FileAges(f)
      PROVE  IInv'
  BY <1>4 DEF FileAges, IInv, TypeOK, ClaimedInv, CurrentInv, DisjointInv,
              ReadsInv, StopInv, StopIsFinal, scripts, procVars
<1>5. ASSUME NEW f \in Files, Clean(f)
      PROVE  IInv'
  BY <1>5 DEF Clean, Present, IInv, TypeOK, ClaimedInv, CurrentInv, DisjointInv,
              ReadsInv, StopInv, StopIsFinal, scripts, procVars
<1>6. CASE StopAnal
  <2>1. (TypeOK /\ ClaimedInv /\ CurrentInv /\ DisjointInv /\ ReadsInv)'
    BY <1>6, DiesIInv DEF StopAnal, IInv, TypeOK
  <2>2. StopInv'
    BY <1>6 DEF StopAnal, Dies, IInv, StopInv, StopIsFinal
  <2> QED
    BY <2>1, <2>2 DEF IInv
<1>7. CASE StartAnal
  <2>1. \A p \in Procs : current[p] = NULL
    BY <1>7 DEF StartAnal, IInv, StopInv, CurrentInv
  <2> QED
    BY <1>7, <2>1 DEF StartAnal, IInv, TypeOK, ClaimedInv, CurrentInv,
              DisjointInv, ReadsInv, StopInv, StopIsFinal
<1>8. CASE SplunkAges
  BY <1>8 DEF SplunkAges, IInv, TypeOK, ClaimedInv, CurrentInv, DisjointInv,
              ReadsInv, StopInv, StopIsFinal, procVars
<1>9. CASE StopAnalysers
  <2>1. (TypeOK /\ ClaimedInv /\ CurrentInv /\ DisjointInv /\ ReadsInv)'
    BY <1>9, DiesIInv DEF StopAnalysers, IInv, TypeOK
  <2>2. StopInv'
    BY <1>9 DEF StopAnalysers, Dies, IInv, StopInv, StopIsFinal
  <2> QED
    BY <2>1, <2>2 DEF IInv
<1>10. CASE StopSupervisor
  BY <1>10 DEF StopSupervisor, IInv, TypeOK, ClaimedInv, CurrentInv,
               DisjointInv, ReadsInv, StopInv, StopIsFinal, procVars
<1>11. CASE StopKill
  <2>1. (TypeOK /\ ClaimedInv /\ CurrentInv /\ DisjointInv /\ ReadsInv)'
    BY <1>11, DiesIInv DEF StopKill, IInv, TypeOK
  <2>2. StopInv'
    BY <1>11 DEF StopKill, Dies, IInv, StopInv, StopIsFinal
  <2> QED
    BY <2>1, <2>2 DEF IInv
<1>12. CASE UNCHANGED vars
  BY <1>12 DEF vars, procVars, scripts, IInv, TypeOK, ClaimedInv, CurrentInv,
               DisjointInv, ReadsInv, StopInv, StopIsFinal
<1> QED
  BY <1>1, <1>2, <1>3, <1>4, <1>5, <1>6, <1>7, <1>8, <1>9, <1>10, <1>11, <1>12
  DEF Next

-----------------------------------------------------------------------------
LEMMA Invariance == Spec => []IInv
<1> QED
  BY InitIInv, NextIInv, PTL DEF Spec

\* The types are kept by every step of analysers, scripts and cleaners.
THEOREM TypeCorrect == Spec => []TypeOK
<1>1. IInv => TypeOK
  BY DEF IInv
<1> QED
  BY <1>1, Invariance, PTL

\* No two analysers work on the same file: rename succeeds for one of them.
THEOREM AnalysersNeverShare == Spec => []ClaimsDisjoint
<1>1. IInv => ClaimsDisjoint
  BY NullAssumption DEF IInv, DisjointInv, ClaimsDisjoint, Holds, TypeOK
<1> QED
  BY <1>1, Invariance, PTL

\* No file is read twice, across any number of crashes and restarts.
THEOREM NoFileReadTwice == Spec => []ReadOnce
<1>1. IInv => ReadOnce
  BY DEF IInv, ReadsInv, ReadOnce
<1> QED
  BY <1>1, Invariance, PTL

\* StopPCAP.ksh leaves no analyser running.
THEOREM StopLeavesNone == Spec => []StopIsFinal
<1>1. IInv => StopIsFinal
  BY DEF IInv, StopInv
<1> QED
  BY <1>1, Invariance, PTL

\* A file whose claimant died stays as it is until a cleaner removes it.
THEOREM OrphansStay == Spec => OrphansAreLost
<1>1. ASSUME IInv, Next, NEW f \in Files, Orphan(f)
      PROVE  Orphan(f)' \/ fstate'[f] = "removed"
  <2>1. ASSUME NEW p \in Procs, Step(p)
        PROVE  Orphan(f)'
    <3> USE <1>1, NullAssumption DEF IInv, TypeOK, Orphan, Holds
    <3>1. CASE Complete(p)
      BY <3>1 DEF Complete, CurrentInv
    <3>2. ASSUME NEW g \in Files, Claim(p, g)
          PROVE  Orphan(f)'
      BY <3>2 DEF Claim
    <3>3. ASSUME NEW g \in Files, NextFile(p, g)
          PROVE  Orphan(f)'
      BY <3>3 DEF NextFile
    <3>4. CASE OpenFails(p)
      BY <3>4 DEF OpenFails
    <3>5. CASE UNCHANGED <<fstate, filesList, current>>
      BY <3>5
    <3> QED
      BY <2>1, <3>1, <3>2, <3>3, <3>4, <3>5 DEF Step, OpenDir, EndOfDir,
        EndOfList, OpenTrace, EndOfTrace
  <2>2. ASSUME NEW ps \in SUBSET Procs, Dies(ps), UNCHANGED fstate
        PROVE  Orphan(f)'
    BY <1>1, <2>2, NullAssumption DEF Dies, Orphan, Holds
  <2>3. ASSUME NEW g \in Files, Arrive(g) \/ Clean(g)
        PROVE  Orphan(f)' \/ fstate'[f] = "removed"
    BY <1>1, <2>3 DEF Arrive, Clean, procVars, Orphan, Holds, IInv, TypeOK
  <2>4. CASE UNCHANGED <<fstate, filesList, current>>
    BY <1>1, <2>4 DEF Orphan, Holds
  <2> QED
    BY <1>1, <2>1, <2>2, <2>3, <2>4, ZenonT(30) DEF Next, Crash, FileAges, StopAnal,
      StartAnal, SplunkAges, StopAnalysers, StopSupervisor, StopKill, procVars
<1>2. IInv /\ [Next]_vars =>
        [\A f \in Files : Orphan(f) => Orphan(f)' \/ fstate'[f] = "removed"]_vars
  BY <1>1
<1> QED
  BY <1>2, Invariance, PTL DEF Spec, OrphansAreLost

-----------------------------------------------------------------------------
\* Each step of an analyser is a step of SpoolPromise or leaves the files alone.
LEMMA StepRefines ==
  ASSUME IInv, NEW p \in Procs, Step(p)
  PROVE  Promise!Next \/ UNCHANGED <<fstate, reads>>
<1>1. CASE OpenTrace(p)
  <2>1. current[p] \in Files /\ reads[current[p]] = 0
    BY <1>1, NullAssumption DEF OpenTrace, IInv, TypeOK, ClaimedInv, CurrentInv
  <2>2. Promise!Read(current[p])
    BY <1>1, <2>1 DEF OpenTrace, Promise!Read, IInv, TypeOK
  <2> QED
    BY <2>1, <2>2 DEF Promise!Next
<1>2. CASE Complete(p)
  <2>1. current[p] \in Files /\ reads[current[p]] = 1
        /\ fstate[current[p]] \in {"taken", "removed"}
    BY <1>2, NullAssumption DEF Complete, IInv, TypeOK, ClaimedInv, CurrentInv
  <2>2. CASE fstate[current[p]] = "taken"
    <3>1. Promise!Finish(current[p])
      BY <1>2, <2>1, <2>2 DEF Complete, Promise!Finish, Promise!Move, IInv, TypeOK
    <3> QED
      BY <2>1, <3>1 DEF Promise!Next
  <2>3. CASE fstate[current[p]] = "removed"
    BY <1>2, <2>1, <2>3 DEF Complete, IInv, TypeOK
  <2> QED
    BY <2>1, <2>2, <2>3
<1>3. ASSUME NEW f \in Files, Claim(p, f)
      PROVE  Promise!Next \/ UNCHANGED <<fstate, reads>>
  <2>1. CASE fstate[f] = "ready"
    BY <1>3, <2>1 DEF Claim, Promise!Next, Promise!Take, Promise!Move
  <2>2. CASE fstate[f] # "ready"
    BY <1>3, <2>2 DEF Claim
  <2> QED
    BY <2>1, <2>2
<1> QED
  BY <1>1, <1>2, <1>3 DEF Step, OpenDir, EndOfDir, EndOfList, OpenFails,
    EndOfTrace, NextFile

\* The analysers, the scripts and the cleaners together implement
\* SpoolPromise.
THEOREM SpoolKeepsPromise == Spec => KeepsPromise
<1>1. Init => Promise!Init
  BY DEF Init, Promise!Init
<1>2. IInv /\ [Next]_vars => [Promise!Next]_(Promise!vars)
  <2> SUFFICES ASSUME IInv, [Next]_vars
               PROVE  Promise!Next \/ UNCHANGED <<fstate, reads>>
    BY DEF Promise!vars
  <2>1. ASSUME NEW p \in Procs, Step(p)
        PROVE  Promise!Next \/ UNCHANGED <<fstate, reads>>
    BY <2>1, StepRefines
  <2>2. ASSUME NEW f \in Files, Arrive(f)
        PROVE  Promise!Next
    BY <2>2, ZenonT(30) DEF Arrive, Promise!Next, Promise!Arrive, Promise!Move
  <2>3. ASSUME NEW f \in Files, Clean(f)
        PROVE  Promise!Next
    BY <2>3, ZenonT(30) DEF Clean, Present, Promise!Next, Promise!Remove, Promise!Move
  <2> QED
    BY <2>1, <2>2, <2>3, ZenonT(30) DEF Next, Crash, FileAges, StopAnal, StartAnal,
      SplunkAges, StopAnalysers, StopSupervisor, StopKill, vars
<1> QED
  BY <1>1, <1>2, Invariance, PTL DEF Spec, KeepsPromise, Promise!Spec
=============================================================================
