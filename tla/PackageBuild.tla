---------------------------- MODULE PackageBuild ----------------------------
(***************************************************************************)
(* The packaging scripts: timed-parallel-build.js and timed-seq-build.js   *)
(* run one electron-builder process per step; each process calls the hooks *)
(* of external-sign.js, once for the unpacked application and once for its *)
(* artifacts, and these sign under the lock of SignLock.  Other builds on  *)
(* the machine contend for the same lock.                                  *)
(***************************************************************************)
EXTENDS SignLock, Sequences

CONSTANTS
  Planned,       \* the steps the script is given, in an order of the caller's
  MacBuilders    \* the processes that build for macOS; the others build for Windows

ASSUME BuildAssumption == Planned \subseteq Builders /\ IsFiniteSet(Planned)

VARIABLES
  order,         \* the steps of this build
  mode,          \* "parallel" or "sequential"
  script,        \* the external sign script: "none", "usable" or "unusable"
  noBuiltIn,     \* processes started with the hook that replaces built-in signing
  hook,          \* which hook each process is in
  dist,          \* the artifacts in dist/
  exit           \* "running", or the exit code

buildVars == <<order, mode, script, noBuiltIn, hook, dist, exit>>
vars == <<lockVars, buildVars>>

\* getBuildTargets of each process's arguments.
Target(b) == IF b \in MacBuilders THEN "mac" ELSE "win"

Steps == {order[i] : i \in 1..Len(order)}

\* An artifact: who built it (nobody, when it is from an earlier build), for
\* which target, and who signed it.
Artifact(b, target, signed) == [of |-> b, target |-> target, signed |-> signed]

Stale == {Artifact(NoOwner, t, "no") : t \in {Target(b) : b \in Builders}}

\* isWindowsBuildStep
Windows(b) == Target(b) = "win"

\* shouldDisableBuiltInWindowsSigning
Disables(b) == Windows(b) /\ script = "usable"

\* externalSign does nothing without a script, off Windows, and with a script
\* it cannot read.
Signs(b) == Windows(b) /\ script = "usable"

----------------------------------------------------------------------------
(* The build script.                                                       *)

\* cleanTargetArtifacts: every artifact of the step's target goes, stale or not.
Cleaned(b) == {a \in dist : a.target # Target(b)}

Ended(b) == pc[b] \in {"done", "failed", "dead"}

\* A parallel build starts its steps one after the other without waiting, a
\* sequential one when the step before has succeeded.
MayLaunch(i) ==
  /\ pc[order[i]] = "queued"
  /\ \A j \in 1..(i - 1) : IF mode = "parallel" THEN pc[order[j]] # "queued" ELSE pc[order[j]] = "done"

Launch(i) ==
  /\ exit = "running"
  /\ MayLaunch(i)
  /\ Goes(order[i], "packing")
  /\ dist' = Cleaned(order[i])
  /\ noBuiltIn' = IF Disables(order[i]) THEN noBuiltIn \cup {order[i]} ELSE noBuiltIn
  /\ UNCHANGED <<exists, owner, old, child, result, faults, order, mode, script, hook, exit>>

\* The summary: a parallel build waits for every step, a sequential one stops
\* at the first that fails; the exit code says whether any failed.
ParentEnds ==
  /\ exit = "running"
  /\ \/ \A b \in Steps : Ended(b)
     \/ mode = "sequential" /\ \E b \in Steps : pc[b] \in {"failed", "dead"}
  /\ exit' = IF \A b \in Steps : pc[b] = "done" THEN "0" ELSE "1"
  /\ UNCHANGED <<lockVars, order, mode, script, noBuiltIn, hook, dist>>

----------------------------------------------------------------------------
(* A step's process.                                                       *)

\* electron-builder has packed the application: the afterSign hook.
Pack(b) ==
  /\ pc[b] = "packing"
  /\ \/ Goes(b, IF Signs(b) THEN "try" ELSE "building")
     \/ Goes(b, "failed")
  /\ hook' = [hook EXCEPT ![b] = 1]
  /\ UNCHANGED <<exists, owner, old, child, result, faults, order, mode, script, noBuiltIn, dist, exit>>

\* The artifacts are built, signed by electron-builder itself unless the hook
\* stands in for it, and the afterAllArtifactBuild hook runs.
MakeArtifacts(b) ==
  /\ pc[b] = "building"
  /\ \/ /\ Goes(b, IF Signs(b) THEN "try" ELSE "done")
        /\ dist' = IF b \in Steps
                   THEN dist \cup {Artifact(b, Target(b), IF b \in noBuiltIn THEN "no" ELSE "built-in")}
                   ELSE dist
     \/ Goes(b, "failed") /\ UNCHANGED dist
  /\ hook' = [hook EXCEPT ![b] = 2]
  /\ UNCHANGED <<exists, owner, old, child, result, faults, order, mode, script, noBuiltIn, exit>>

\* The signing process signs what its mask names when it succeeds.
SigningSucceeds(b) ==
  /\ SigningEnds(b, "ok")
  /\ dist' = IF hook[b] = 1 THEN dist
             ELSE {IF a.of = b THEN [a EXCEPT !.signed = "external"] ELSE a : a \in dist}
  /\ UNCHANGED <<order, mode, script, noBuiltIn, hook, exit>>

\* It fails, or the watchdog ends it: the hook throws after the release.
SigningFails(b) ==
  /\ \E ended \in {"failed", "timed out"} : SigningEnds(b, ended)
  /\ UNCHANGED buildVars

\* The rest of runExternalSign: an error, a timeout, a signal and a non-zero
\* status all throw, which fails the step; otherwise packaging goes on.
FinishSigning(b) ==
  /\ pc[b] = "released"
  /\ ~child[b]
  /\ Goes(b, CASE result[b] # "ok" -> "failed"
               [] result[b] = "ok" /\ hook[b] = 1 -> "building"
               [] OTHER -> "done")
  /\ UNCHANGED <<exists, owner, old, child, result, faults, buildVars>>

\* The script is moved away while a build that relied on it is running.
ScriptVanishes ==
  /\ script = "usable"
  /\ script' = "unusable"
  /\ UNCHANGED <<lockVars, order, mode, noBuiltIn, hook, dist, exit>>

----------------------------------------------------------------------------
\* Processes that are no step of this build are another build's, under way.
Init ==
  /\ LockInit
  /\ order \in {o \in [1..Cardinality(Planned) -> Planned] : {o[i] : i \in DOMAIN o} = Planned}
  /\ mode \in {"parallel", "sequential"}
  /\ script \in {"none", "usable", "unusable"}
  /\ noBuiltIn = {}
  /\ hook = [b \in Builders |-> 1]
  /\ pc = [b \in Builders |-> IF b \in Steps THEN "queued" ELSE "packing"]
  /\ dist = Stale
  /\ exit = "running"

Works(b) ==
  \/ (Acquiring(b) \/ StartSigning(b) \/ Releasing(b) \/ OrphanEnds(b)) /\ UNCHANGED buildVars
  \/ Pack(b)
  \/ MakeArtifacts(b)
  \/ SigningSucceeds(b)
  \/ SigningFails(b)
  \/ FinishSigning(b)

Parent == (\E i \in 1..Len(order) : Launch(i)) \/ ParentEnds

Next ==
  \/ Parent
  \/ \E b \in Builders : Works(b) \/ ((Interrupt(b) \/ Killed(b)) /\ UNCHANGED buildVars)
  \/ GrowsOld /\ UNCHANGED buildVars
  \/ ScriptVanishes

\* Every process runs, every signing process ends (the watchdog sees to it),
\* and a lock that nobody releases grows old.
Spec ==
  /\ Init
  /\ [][Next]_vars
  /\ WF_vars(Parent)
  /\ \A b \in Builders : WF_vars(Works(b))
  /\ WF_vars(GrowsOld /\ UNCHANGED buildVars)

----------------------------------------------------------------------------
TypeOK ==
  /\ exists \in BOOLEAN
  /\ owner \in Builders \cup {NoOwner}
  /\ (owner # NoOwner \/ old) => exists
  /\ old \in BOOLEAN
  /\ faults \in 0..MaxFaults
  /\ pc \in [Builders -> Phases]
  /\ child \in [Builders -> BOOLEAN]
  /\ result \in [Builders -> {"none", "ok", "failed", "timed out", "signal"}]
  /\ hook \in [Builders -> {1, 2}]
  /\ noBuiltIn \subseteq Builders
  /\ dist \subseteq [of : Builders \cup {NoOwner}, target : {Target(b) : b \in Builders}, signed : {"no", "built-in", "external"}]
  /\ exit \in {"running", "0", "1"}

\* A build that exits 0 leaves nothing of an earlier build among its targets,
\* and, when its script stayed usable, no Windows artifact that the script has
\* not signed.
ExitZeroMeansSigned ==
  exit = "0" => \A a \in dist :
    /\ a.target \in {Target(b) : b \in Steps} => a.of \in Steps
    /\ (a.target = "win" /\ a.of \in Steps /\ script = "usable") => a.signed = "external"

\* One process signs at a time, and what it was to sign is signed.
SignedByOneHolder == TypeOK /\ OneSigner /\ ExitZeroMeansSigned

\* Whoever is killed or interrupted, and wherever, the build ends: it does not
\* wait for ever for the signing lock or for a step.
EveryBuildEnds == <>(exit # "running")
=============================================================================
