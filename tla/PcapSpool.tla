------------------------------ MODULE PcapSpool ------------------------------
(***************************************************************************)
(* The processes around the spool directory: analysers that claim files by *)
(* renaming them and read them (main_trace.cpp), the script that starts    *)
(* and restarts the analysers (StartPCAP.ksh), the one that stops all      *)
(* (StopPCAP.ksh), and the cleaners (cronjob.txt, pcapremove.sh).          *)
(*                                                                         *)
(* A file is named x_<i>ready.pcap, then ....taken, then ....completed;    *)
(* fstate[f] is the ending it has.  The order of a process's list of files *)
(* is left open.                                                           *)
(***************************************************************************)
EXTENDS Naturals, FiniteSets

CONSTANTS Files,        \* capture files
          Procs,        \* analyser instances that startanal starts
          Suffix,       \* the number in a file's name, and the -i option of
                        \* an instance (two instances have the same)
          NULL

ASSUME NullAssumption == NULL \notin Files

VARIABLES
  fstate,     \* the state of each file
  old,        \* files last written more than three minutes ago
  pc,         \* where each analyser is
  listing,    \* names its open directory stream has still to return
  filesList,  \* files it has claimed and not yet come to
  current,    \* the file readPcapFile works on, or NULL
  sup,        \* the supervisor: "check", "start" or "stopped"
  stop,       \* how far StopPCAP.ksh has come
  splunk,     \* splunk.log: "missing", "fresh" or "stale" (over a minute old)
  reads,      \* history: how often each file was read
  broken      \* history: files whose reading ended in an error

procVars == <<pc, listing, filesList, current>>
scripts == <<sup, stop, splunk>>
vars == <<fstate, old, procVars, scripts, reads, broken>>

Init ==
  /\ fstate    = [f \in Files |-> "absent"]
  /\ old       = {}
  /\ pc        = [p \in Procs |-> "dead"]
  /\ listing   = [p \in Procs |-> {}]
  /\ filesList = [p \in Procs |-> {}]
  /\ current   = [p \in Procs |-> NULL]
  /\ sup       = "check"
  /\ stop      = "idle"
  /\ splunk    \in {"missing", "fresh", "stale"}
  /\ reads     = [f \in Files |-> 0]
  /\ broken    = {}

-----------------------------------------------------------------------------
(***************************************************************************)
(* main: scan the directory and claim, then read what was claimed.         *)
(***************************************************************************)
\* isPcapfileReady
Ready(p, f) == fstate[f] = "ready" /\ Suffix[f] = Suffix[p]

OpenDir(p) ==
  /\ pc[p] = "opendir"
  /\ pc' = [pc EXCEPT ![p] = "readdir"]
  /\ listing' = [listing EXCEPT ![p] = {f \in Files : Ready(p, f)}]
  /\ UNCHANGED <<fstate, old, filesList, current, scripts, reads, broken>>

\* Mutation: the result of rename is not looked at.
ClaimUnchecked(p, f) ==
  /\ pc[p] = "readdir"
  /\ f \in listing[p] \/ Ready(p, f)
  /\ listing' = [listing EXCEPT ![p] = @ \ {f}]
  /\ fstate' = [fstate EXCEPT ![f] = IF @ = "ready" THEN "taken" ELSE @]
  /\ filesList' = [filesList EXCEPT ![p] = @ \cup {f}]
  /\ UNCHANGED <<pc, old, current, scripts, reads, broken>>

\* readdir returns a name: one listed at opendir, whose file may have gone or
\* been renamed by now, or one that has appeared since.  rename claims it.
Claim(p, f) ==
  /\ pc[p] = "readdir"
  /\ f \in listing[p] \/ Ready(p, f)
  /\ listing' = [listing EXCEPT ![p] = @ \ {f}]
  /\ \/ /\ fstate[f] = "ready"
        /\ fstate' = [fstate EXCEPT ![f] = "taken"]
        /\ filesList' = [filesList EXCEPT ![p] = @ \cup {f}]
     \/ /\ fstate[f] # "ready"
        /\ UNCHANGED <<fstate, filesList>>
  /\ UNCHANGED <<pc, old, current, scripts, reads, broken>>

EndOfDir(p) ==
  /\ pc[p] = "readdir" /\ listing[p] = {}
  /\ pc' = [pc EXCEPT ![p] = "process"]
  /\ UNCHANGED <<fstate, old, listing, filesList, current>>
  /\ UNCHANGED <<scripts, reads, broken>>

\* readPcapFile is called for the next file of the list.
NextFile(p, f) ==
  /\ pc[p] = "process" /\ f \in filesList[p]
  /\ filesList' = [filesList EXCEPT ![p] = @ \ {f}]
  /\ current' = [current EXCEPT ![p] = f]
  /\ pc' = [pc EXCEPT ![p] = "open"]
  /\ UNCHANGED <<fstate, old, listing, scripts, reads, broken>>

EndOfList(p) ==
  /\ pc[p] = "process" /\ filesList[p] = {}
  /\ pc' = [pc EXCEPT ![p] = "opendir"]
  /\ UNCHANGED <<fstate, old, listing, filesList, current>>
  /\ UNCHANGED <<scripts, reads, broken>>

\* trace_create or trace_start fails, as it must when the file has gone, or
\* there is no packet structure: return, and the name stays.
OpenFails(p) ==
  /\ pc[p] = "open"
  /\ pc' = [pc EXCEPT ![p] = "process"]
  /\ current' = [current EXCEPT ![p] = NULL]
  /\ UNCHANGED <<fstate, old, listing, filesList, scripts, reads, broken>>

OpenTrace(p) ==
  /\ pc[p] = "open" /\ fstate[current[p]] = "taken"
  /\ pc' = [pc EXCEPT ![p] = "read"]
  /\ reads' = [reads EXCEPT ![current[p]] = @ + 1]
  /\ UNCHANGED <<fstate, old, listing, filesList, current, scripts, broken>>

\* The loop over the packets ends, at the end of the file or at an error,
\* which is only logged.
EndOfTrace(p) ==
  /\ pc[p] = "read"
  /\ pc' = [pc EXCEPT ![p] = "rename"]
  /\ broken' \in {broken, broken \cup {current[p]}}
  /\ UNCHANGED <<fstate, old, listing, filesList, current, scripts, reads>>

\* Mutation: the file is given back instead.
CompleteGivesBack(p) ==
  /\ pc[p] = "rename"
  /\ fstate' = [fstate EXCEPT ![current[p]] =
                               IF @ = "taken" THEN "ready" ELSE @]
  /\ pc' = [pc EXCEPT ![p] = "process"]
  /\ current' = [current EXCEPT ![p] = NULL]
  /\ UNCHANGED <<old, listing, filesList, scripts, reads, broken>>

\* The rename to .completed, which fails when the file has gone.
Complete(p) ==
  /\ pc[p] = "rename"
  /\ fstate' = [fstate EXCEPT ![current[p]] =
                               IF @ = "taken" THEN "completed" ELSE @]
  /\ pc' = [pc EXCEPT ![p] = "process"]
  /\ current' = [current EXCEPT ![p] = NULL]
  /\ UNCHANGED <<old, listing, filesList, scripts, reads, broken>>

\* What a process has in memory is gone when it dies.
Dies(ps) ==
  /\ pc'        = [p \in Procs |-> IF p \in ps THEN "dead" ELSE pc[p]]
  /\ listing'   = [p \in Procs |-> IF p \in ps THEN {} ELSE listing[p]]
  /\ filesList' = [p \in Procs |-> IF p \in ps THEN {} ELSE filesList[p]]
  /\ current'   = [p \in Procs |-> IF p \in ps THEN NULL ELSE current[p]]

Crash(p) ==
  /\ pc[p] # "dead"
  /\ Dies({p})
  /\ UNCHANGED <<fstate, old, scripts, reads, broken>>

-----------------------------------------------------------------------------
(***************************************************************************)
(* The scripts.  The test [ -z $mon ] holds only when no analyser is left: *)
(* with one process id it is false and with several it is an error.        *)
(***************************************************************************)
\* Mutation: splunk.log is not looked at.
RestartIfAllDead == \A p \in Procs : pc[p] = "dead"

NeedsRestart ==
  \/ splunk = "missing"
  \/ splunk = "stale"
  \/ \A p \in Procs : pc[p] = "dead"

StopAnal ==
  /\ sup = "check" /\ NeedsRestart
  /\ sup' = "start"
  /\ Dies(Procs)
  /\ UNCHANGED <<fstate, old, stop, splunk, reads, broken>>

StartAnal ==
  /\ sup = "start"
  /\ sup' = "check"
  /\ pc' = [p \in Procs |-> "opendir"]
  /\ splunk' = "fresh"
  /\ UNCHANGED <<fstate, old, listing, filesList, current, stop, reads, broken>>

\* StopPCAP.ksh: killall reaches the analysers, then the supervisor, and two
\* seconds later the analysers once more.
StopAnalysers ==
  /\ stop = "idle"
  /\ stop' = "analysers"
  /\ Dies(Procs)
  /\ UNCHANGED <<fstate, old, sup, splunk, reads, broken>>

StopSupervisor ==
  /\ stop = "analysers"
  /\ stop' = "supervisor"
  /\ sup' = "stopped"
  /\ UNCHANGED <<fstate, old, procVars, splunk, reads, broken>>

\* Mutation: the script ends without the second killall.
StopWithoutKill ==
  /\ stop = "supervisor"
  /\ stop' = "done"
  /\ UNCHANGED <<fstate, old, procVars, sup, splunk, reads, broken>>

StopKill ==
  /\ stop = "supervisor"
  /\ stop' = "done"
  /\ Dies(Procs)
  /\ UNCHANGED <<fstate, old, sup, splunk, reads, broken>>

\* Nothing writes to result.log, so grep never writes to splunk.log.
SplunkAges ==
  /\ splunk = "fresh"
  /\ splunk' = "stale"
  /\ UNCHANGED <<fstate, old, procVars, sup, stop, reads, broken>>

-----------------------------------------------------------------------------
(***************************************************************************)
(* The capture side and the cleaners.                                      *)
(***************************************************************************)
Arrive(f) ==
  /\ fstate[f] = "absent"
  /\ fstate' = [fstate EXCEPT ![f] = "ready"]
  /\ UNCHANGED <<old, procVars, scripts, reads, broken>>

Present(f) == fstate[f] \in {"ready", "taken", "completed"}

FileAges(f) ==
  /\ Present(f) /\ f \notin old
  /\ old' = old \cup {f}
  /\ UNCHANGED <<fstate, procVars, scripts, reads, broken>>

\* Mutation: only completed files are removed.
CleanCompleted(f) ==
  /\ Present(f)
  /\ fstate[f] = "completed"
  /\ fstate' = [fstate EXCEPT ![f] = "removed"]
  /\ UNCHANGED <<old, procVars, scripts, reads, broken>>

Clean(f) ==
  /\ Present(f)
  /\ f \in old \/ fstate[f] = "completed"
  /\ fstate' = [fstate EXCEPT ![f] = "removed"]
  /\ UNCHANGED <<old, procVars, scripts, reads, broken>>

-----------------------------------------------------------------------------
Step(p) ==
  \/ OpenDir(p) \/ EndOfDir(p) \/ EndOfList(p)
  \/ OpenFails(p) \/ OpenTrace(p) \/ EndOfTrace(p) \/ Complete(p)
  \/ \E f \in Files : Claim(p, f) \/ NextFile(p, f)

Next ==
  \/ \E p \in Procs : Step(p) \/ Crash(p)
  \/ \E f \in Files : Arrive(f) \/ FileAges(f) \/ Clean(f)
  \/ StopAnal \/ StartAnal \/ SplunkAges
  \/ StopAnalysers \/ StopSupervisor \/ StopKill

Spec == Init /\ [][Next]_vars

\* Time passes and the loops of the scripts go round.  Nothing is asked of the
\* analysers.
Fairness ==
  /\ \A f \in Files : WF_vars(FileAges(f)) /\ WF_vars(Clean(f))
  /\ WF_vars(StopAnal) /\ WF_vars(StartAnal) /\ WF_vars(SplunkAges)

FairSpec == Spec /\ Fairness

-----------------------------------------------------------------------------
\* The types of the variables.
TypeOK ==
  /\ fstate \in [Files -> {"absent", "ready", "taken", "completed", "removed"}]
  /\ old \subseteq Files
  /\ pc \in [Procs -> {"dead", "opendir", "readdir", "process", "open", "read",
                       "rename"}]
  /\ listing \in [Procs -> SUBSET Files]
  /\ filesList \in [Procs -> SUBSET Files]
  /\ current \in [Procs -> Files \cup {NULL}]
  /\ sup \in {"check", "start", "stopped"}
  /\ stop \in {"idle", "analysers", "supervisor", "done"}
  /\ splunk \in {"missing", "fresh", "stale"}
  /\ reads \in [Files -> Nat]
  /\ broken \subseteq Files

Holds(p) == filesList[p] \cup {current[p]}

\* No two analysers work on the same file, whatever listings they saw and
\* although two of them look for the same names: only one rename succeeds.
ClaimsDisjoint ==
  \A p, q \in Procs : p # q => Holds(p) \cap Holds(q) \subseteq {NULL}

\* No file is read twice, by one process or by several, across crashes and
\* restarts of the analysers.
ReadOnce == \A f \in Files : reads[f] <= 1

Orphan(f) == fstate[f] = "taken" /\ \A p \in Procs : f \notin Holds(p)

\* A file whose claimant died is lost: the name it was left with keeps every
\* analyser away, restarted ones too, until a cleaner removes it.
OrphansAreLost ==
  [][\A f \in Files : Orphan(f) => Orphan(f)' \/ fstate'[f] = "removed"]_vars

\* When StopPCAP.ksh has ended no analyser runs, although the supervisor may
\* have started them again after the first killall.
StopIsFinal == stop = "done" => \A p \in Procs : pc[p] = "dead"

\* The spool keeps the promise of SpoolPromise: the renames take every file
\* through its states one at a time, and it is read while it is taken.
Promise == INSTANCE SpoolPromise
KeepsPromise == Promise!Spec

\* Every file that arrives is removed in the end, also when its analyser died
\* or nobody ever claimed it.
SpoolDrains == \A f \in Files : fstate[f] = "ready" ~> fstate[f] = "removed"

\* An instance that dies alone is started again.  The supervisor does not see
\* it; it relies on splunk.log growing stale.
InstanceComesBack ==
  \A p \in Procs : pc[p] = "dead" ~> (pc[p] # "dead" \/ sup = "stopped")

\* "We've reached the end of our trace without an error": a completed file
\* was read without an error.
CompletedWithoutError ==
  \A f \in Files : fstate[f] = "completed" => f \notin broken
=============================================================================
