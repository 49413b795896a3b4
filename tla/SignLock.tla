------------------------------ MODULE SignLock ------------------------------
(***************************************************************************)
(* The lock that serialises external Windows signing on one machine:       *)
(* acquireSignLock and the release it returns (src/scripts/sign-lock.js),  *)
(* around the signing process of src/scripts/external-sign.js.  The lock   *)
(* is a directory: mkdir decides who has it, a file written afterwards     *)
(* says whose it is.  Every process takes these steps on its own, and each *)
(* file operation is a step.                                               *)
(***************************************************************************)
EXTENDS Naturals, FiniteSets

CONSTANTS
  Builders,     \* the processes that sign
  NoOwner,      \* what readOwner returns when there is no owner.json
  MaxFaults     \* bound: processes killed or interrupted

ASSUME LockAssumption == NoOwner \notin Builders /\ MaxFaults \in Nat \ {0}

VARIABLES
  exists, owner,  \* the lock directory and its owner.json
  old,            \* the directory is older than DEFAULT_STALE_MS
  pc,             \* where each process is
  child,          \* its signing process: is it running?
  result,         \* how the signing process ended
  faults          \* history: how often a process was killed or interrupted, or a
                  \* lock outlived its twelve hours

lockVars == <<exists, owner, old, pc, child, result, faults>>

Phases ==
  {"queued", "packing", "building",                            \* packaging (PackageBuild)
   "try", "look", "sleep", "remove", "made",                   \* acquireSignLock
   "holding", "signing", "release", "unlink", "released",      \* runExternalSign
   "done", "failed", "dead"}

\* isProcessAlive: a process that has ended has released its pid.
Alive(b) == pc[b] \notin {"done", "failed", "dead"}

Goes(b, phase) == pc' = [pc EXCEPT ![b] = phase]

----------------------------------------------------------------------------
(* acquireSignLock.                                                        *)

\* mkdirSync tells the two cases apart in one step.
MakeDirectory(b) ==
  /\ pc[b] = "try"
  /\ IF exists THEN Goes(b, "look") /\ UNCHANGED <<exists, owner, old>>
     ELSE /\ exists' = TRUE
          /\ owner' = NoOwner
          /\ old' = FALSE
          /\ Goes(b, "made")
  /\ UNCHANGED <<child, result, faults>>

\* writeOwner: the directory may have been taken away meanwhile (ENOENT, which
\* is not EEXIST and is thrown).
WriteOwner(b) ==
  /\ pc[b] = "made"
  /\ owner' = IF exists THEN b ELSE owner
  /\ Goes(b, IF exists THEN "holding" ELSE "failed")
  /\ UNCHANGED <<exists, old, child, result, faults>>

LookFresh(b) ==
  /\ pc[b] = "look"
  /\ Goes(b, IF exists THEN "remove" ELSE "sleep")
  /\ UNCHANGED <<exists, owner, old, child, result, faults>>

LookAtOwner(b) ==
  /\ pc[b] = "look"
  /\ LET orphaned == exists /\ owner # NoOwner /\ ~Alive(owner) IN
       Goes(b, IF orphaned THEN "remove" ELSE "sleep")
  /\ UNCHANGED <<exists, owner, old, child, result, faults>>

\* The lock is somebody's: remove it when its owner is dead or it is too old,
\* wait otherwise. A directory without an owner is judged by its age alone.
Look(b) ==
  /\ pc[b] = "look"
  /\ LET orphaned == exists /\ owner # NoOwner /\ ~Alive(owner) IN
       Goes(b, IF orphaned \/ (exists /\ old) THEN "remove" ELSE "sleep")
  /\ UNCHANGED <<exists, owner, old, child, result, faults>>

\* rmSync of what was judged a step ago, whatever is there by now.
RemoveOrphan(b) ==
  /\ pc[b] = "remove"
  /\ exists' = FALSE
  /\ owner' = NoOwner
  /\ old' = FALSE
  /\ Goes(b, "try")
  /\ UNCHANGED <<child, result, faults>>

\* sleepSync(pollMs)
Sleep(b) ==
  /\ pc[b] = "sleep"
  /\ Goes(b, "try")
  /\ UNCHANGED <<exists, owner, old, child, result, faults>>

----------------------------------------------------------------------------
(* runSignProcess and the release.                                         *)

\* spawn
StartSigning(b) ==
  /\ pc[b] = "holding"
  /\ child' = [child EXCEPT ![b] = TRUE]
  /\ Goes(b, "signing")
  /\ UNCHANGED <<exists, owner, old, result, faults>>

\* 'close' or 'error' of the signing process, ended by itself or by the
\* watchdog; the finally of runExternalSign releases the lock next.
SigningEnds(b, ended) ==
  /\ pc[b] = "signing"
  /\ child[b]
  /\ child' = [child EXCEPT ![b] = FALSE]
  /\ result' = [result EXCEPT ![b] = ended]
  /\ Goes(b, "release")
  /\ UNCHANGED <<exists, owner, old, faults>>

\* SIGINT, SIGTERM or SIGHUP while signing: the listener of the lock was
\* attached first, so the lock is released before the signing process is told.
Interrupt(b) ==
  /\ pc[b] = "signing"
  /\ result[b] # "signal"
  /\ faults < MaxFaults
  /\ result' = [result EXCEPT ![b] = "signal"]
  /\ Goes(b, "release")
  /\ faults' = faults + 1
  /\ UNCHANGED <<exists, owner, old, child>>

\* releaseSignLock: only the lock that still carries the own token is removed.
Release(b) ==
  /\ pc[b] = "release"
  /\ Goes(b, IF exists /\ owner = b THEN "unlink" ELSE "released")
  /\ UNCHANGED <<exists, owner, old, child, result, faults>>

\* ... by an rmSync that does not look again.
Unlink(b) ==
  /\ pc[b] = "unlink"
  /\ exists' = FALSE
  /\ owner' = NoOwner
  /\ old' = FALSE
  /\ Goes(b, "released")
  /\ UNCHANGED <<child, result, faults>>

\* A signing process outlives an interrupted or a killed parent for a while.
OrphanEnds(b) ==
  /\ child[b]
  /\ pc[b] # "signing"
  /\ child' = [child EXCEPT ![b] = FALSE]
  /\ UNCHANGED <<exists, owner, old, pc, result, faults>>

----------------------------------------------------------------------------
(* What happens to the processes.                                          *)

\* The process is killed: nothing of its own runs any more.
Killed(b) ==
  /\ pc[b] \notin {"queued", "done", "failed", "dead"}
  /\ faults < MaxFaults
  /\ Goes(b, "dead")
  /\ faults' = faults + 1
  /\ UNCHANGED <<exists, owner, old, child, result>>

\* Twelve hours pass over a lock.
GrowsOld ==
  /\ exists
  /\ ~old
  /\ old' = TRUE
  /\ faults' = IF faults < MaxFaults THEN faults + 1 ELSE faults
  /\ UNCHANGED <<exists, owner, pc, child, result>>

Acquiring(b) == MakeDirectory(b) \/ WriteOwner(b) \/ Look(b) \/ RemoveOrphan(b) \/ Sleep(b)

Releasing(b) == Release(b) \/ Unlink(b)

LockInit ==
  /\ exists = FALSE
  /\ owner = NoOwner
  /\ old = FALSE
  /\ child = [b \in Builders |-> FALSE]
  /\ result = [b \in Builders |-> "none"]
  /\ faults = 0

----------------------------------------------------------------------------
\* While nobody is killed or interrupted and no lock outlives its twelve hours,
\* no two signing processes run at the same time on the machine, and the one
\* that runs has the lock in its own name.
OneSigner ==
  faults = 0 => \A b \in Builders : child[b] =>
            /\ exists /\ owner = b
            /\ \A c \in Builders : child[c] => c = b
=============================================================================
