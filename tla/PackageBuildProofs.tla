-------------------------- MODULE PackageBuildProofs --------------------------
(***************************************************************************)
(* One process of the machine signs at a time and a build that exits 0 has *)
(* signed what it was to sign: SignedByOneHolder of PackageBuild, for any  *)
(* processes, any steps in any order and any number of faults.             *)
(***************************************************************************)
EXTENDS PackageBuild, FiniteSetTheorems, TLAPS

\* A process that has the lock directory, or is about to put its name in it.
Named(b) == pc[b] \in {"holding", "signing", "release", "unlink"}

Has(b) == pc[b] = "made" \/ Named(b)

\* While nothing has gone wrong: whoever has the directory has it alone, the
\* name in it is that of a process that has it, and nobody takes it away.
LockOfOne ==
  faults = 0 =>
    /\ ~old
    /\ \A b \in Builders : pc[b] \notin {"remove", "dead"}
    /\ \A b \in Builders : child[b] => pc[b] = "signing"
    /\ \A b \in Builders : Has(b) => exists
    /\ \A b, c \in Builders : Has(b) /\ Has(c) => b = c
    /\ \A b \in Builders : Named(b) => owner = b
    /\ owner # NoOwner => Named(owner)

\* A process whose artifacts have been signed by the script.
Signed(b) ==
  \/ pc[b] = "done"
  \/ pc[b] \in {"release", "unlink", "released"} /\ hook[b] = 2 /\ result[b] = "ok"

\* What is in dist/ is from an earlier build or made by a step for its target.
MadeBySteps ==
  \A a \in dist : /\ a.of \in Steps \cup {NoOwner}
                  /\ a.of \in Steps => a.target = Target(a.of)

\* A step that was started has had its target's directory cleaned.
CleanedFirst ==
  \A b \in Steps : pc[b] # "queued" =>
    \A a \in dist : a.target = Target(b) => a.of # NoOwner

SignedByScript ==
  script = "usable" =>
    \A b \in Steps : Windows(b) /\ Signed(b) =>
      \A a \in dist : a.of = b => a.signed = "external"

ZeroWhenDone == exit = "0" => \A b \in Steps : pc[b] = "done"

StepsInv == order \in Seq(Planned)

DistInv == MadeBySteps /\ CleanedFirst /\ SignedByScript /\ ZeroWhenDone

BuildInv == TypeOK /\ StepsInv /\ LockOfOne /\ DistInv

-----------------------------------------------------------------------------
LEMMA StepsAreBuilders == StepsInv => Steps \subseteq Builders
  BY BuildAssumption DEF StepsInv, Steps

\* What the steps of a build are does not change while it runs.
LEMMA OrderIsKept == [Next]_vars => order' = order
  BY DEF Next, Works, Parent, Launch, ParentEnds, Pack, MakeArtifacts, SigningSucceeds,
         SigningFails, FinishSigning, ScriptVanishes, buildVars, vars

LEMMA BuildInvInit == Init => BuildInv
<1> SUFFICES ASSUME Init PROVE BuildInv
  OBVIOUS
<1>1. StepsInv
  BY BuildAssumption, FS_CardinalityType DEF Init, StepsInv
<1>2. Steps \subseteq Builders
  BY <1>1, StepsAreBuilders
<1>3. TypeOK
  <2>1. dist \subseteq [of : Builders \cup {NoOwner}, target : {Target(b) : b \in Builders},
                       signed : {"no", "built-in", "external"}]
    BY DEF Init, Stale, Artifact
  <2>2. pc \in [Builders -> Phases]
    BY DEF Init, Phases
  <2>3. /\ child \in [Builders -> BOOLEAN]
        /\ result \in [Builders -> {"none", "ok", "failed", "timed out", "signal"}]
        /\ hook \in [Builders -> {1, 2}]
    BY DEF Init, LockInit
  <2>4. /\ ~ exists /\ owner = NoOwner /\ ~ old
        /\ faults = 0 /\ noBuiltIn = {} /\ exit = "running"
    BY DEF Init, LockInit
  <2>5. exists \in BOOLEAN /\ old \in BOOLEAN
    BY DEF Init, LockInit
  <2>6. faults \in 0..MaxFaults
    BY <2>4, LockAssumption
  <2> QED
    BY <2>1, <2>2, <2>3, <2>4, <2>5, <2>6 DEF TypeOK
<1>4. LockOfOne
  BY LockAssumption DEF Init, LockInit, LockOfOne, Has, Named
<1>5. DistInv
  BY <1>2, LockAssumption
  DEF Init, DistInv, MadeBySteps, CleanedFirst, SignedByScript, ZeroWhenDone, Signed, Stale, Artifact
<1> QED BY <1>1, <1>3, <1>4, <1>5 DEF BuildInv
-----------------------------------------------------------------------------
(* Types                                                                   *)

ArtifactType ==
  [of : Builders \cup {NoOwner}, target : {Target(b) : b \in Builders},
   signed : {"no", "built-in", "external"}]

LEMMA ArtifactsOfSteps ==
  ASSUME NEW b \in Builders, NEW s \in {"no", "built-in", "external"}
  PROVE  Artifact(b, Target(b), s) \in ArtifactType
  BY DEF Artifact, ArtifactType

LEMMA DistTyped == BuildInv /\ [Next]_vars => (dist \subseteq ArtifactType)'
<1> SUFFICES ASSUME BuildInv, [Next]_vars PROVE (dist \subseteq ArtifactType)'
  OBVIOUS
<1> USE DEF BuildInv
<1>0. dist \subseteq ArtifactType
  BY DEF TypeOK, ArtifactType
<1>s. dist' \subseteq dist => (dist \subseteq ArtifactType)'
  BY <1>0 DEF ArtifactType, Target
<1>1. CASE Parent
  BY <1>1, <1>s DEF Parent, Launch, ParentEnds, Cleaned
<1>2. ASSUME NEW b \in Builders, Works(b) PROVE (dist \subseteq ArtifactType)'
  <2>1. CASE MakeArtifacts(b)
    <3>1. Artifact(b, Target(b), IF b \in noBuiltIn THEN "no" ELSE "built-in") \in ArtifactType
      BY ArtifactsOfSteps
    <3> QED BY <2>1, <3>1, <1>0 DEF MakeArtifacts, ArtifactType, Target
  <2>2. CASE SigningSucceeds(b)
    <3>1. \A a \in dist : [a EXCEPT !.signed = "external"] \in ArtifactType
      BY <1>0 DEF ArtifactType
    <3> QED BY <2>2, <3>1, <1>0 DEF SigningSucceeds, ArtifactType, Target
  <2>3. CASE dist' = dist
    BY <2>3, <1>s
  <2> QED BY <1>2, <2>1, <2>2, <2>3 DEF Works, Pack, SigningFails, FinishSigning, buildVars
<1>3. CASE dist' = dist
  BY <1>3, <1>s
<1> QED BY <1>1, <1>2, <1>3 DEF Next, ScriptVanishes, buildVars, vars
-----------------------------------------------------------------------------
(* What a step of the build is to the lock                                 *)

\* Packaging goes on, out of the lock's sight.
Moves(b) ==
  /\ pc[b] \in {"queued", "packing", "building", "released"}
  /\ \E p \in {"packing", "building", "try", "done", "failed"} : Goes(b, p)
  /\ UNCHANGED <<exists, owner, old, child, result, faults>>

Signing(b) ==
  \/ StartSigning(b)
  \/ \E ended \in {"ok", "failed", "timed out"} : SigningEnds(b, ended)
  \/ OrphanEnds(b)

Faulty(b) == Interrupt(b) \/ Killed(b)

LEMMA LockSteps ==
  ASSUME BuildInv, [Next]_vars
  PROVE  \/ \E b \in Builders : Moves(b) \/ Acquiring(b) \/ Signing(b) \/ Releasing(b) \/ Faulty(b)
         \/ GrowsOld
         \/ UNCHANGED lockVars
<1>1. CASE Parent
  <2>1. ASSUME NEW i \in 1..Len(order), Launch(i)
        PROVE  \E b \in Builders : Moves(b)
    <3>1. order[i] \in Builders
      BY StepsAreBuilders DEF BuildInv, Steps
    <3> QED BY <2>1, <3>1 DEF Launch, MayLaunch, Moves
  <2> QED BY <1>1, <2>1 DEF Parent, ParentEnds
<1>2. ASSUME NEW b \in Builders, Works(b)
      PROVE  Moves(b) \/ Acquiring(b) \/ Signing(b) \/ Releasing(b)
  <2>1. CASE Pack(b)
    BY <2>1 DEF Pack, Moves
  <2>2. CASE MakeArtifacts(b)
    BY <2>2 DEF MakeArtifacts, Moves
  <2>3. CASE FinishSigning(b)
    BY <2>3 DEF FinishSigning, Moves
  <2> QED
    BY <1>2, <2>1, <2>2, <2>3 DEF Works, SigningSucceeds, SigningFails, Signing
<1> QED BY <1>1, <1>2 DEF Next, ScriptVanishes, Faulty, lockVars, vars

-----------------------------------------------------------------------------
(* The types are kept                                                      *)

LockType ==
  /\ exists \in BOOLEAN
  /\ old \in BOOLEAN
  /\ owner \in Builders \cup {NoOwner}
  /\ (owner # NoOwner \/ old) => exists
  /\ faults \in 0..MaxFaults

ProcessType ==
  /\ pc \in [Builders -> Phases]
  /\ child \in [Builders -> BOOLEAN]
  /\ result \in [Builders -> {"none", "ok", "failed", "timed out", "signal"}]

OtherType ==
  /\ hook \in [Builders -> {1, 2}]
  /\ noBuiltIn \subseteq Builders
  /\ exit \in {"running", "0", "1"}

LEMMA LockTypeKept == BuildInv /\ [Next]_vars => LockType'
<1> SUFFICES ASSUME BuildInv, [Next]_vars PROVE LockType'
  OBVIOUS
<1>0. LockType
  BY DEF BuildInv, TypeOK, LockType
<1>s. CASE UNCHANGED <<exists, owner, old, faults>>
  BY <1>0, <1>s DEF LockType
<1>f. ASSUME ~ exists', owner' = NoOwner, ~ old', old' \in BOOLEAN, exists' \in BOOLEAN, faults' = faults
      PROVE  LockType'
  BY <1>0, <1>f DEF LockType
<1>1. CASE UNCHANGED lockVars
  BY <1>s, <1>1 DEF lockVars
<1>2. CASE GrowsOld
  BY <1>0, <1>2, LockAssumption DEF LockType, GrowsOld
<1>3. ASSUME NEW b \in Builders, Moves(b) \/ Signing(b) PROVE LockType'
  BY <1>s, <1>3 DEF Moves, Signing, StartSigning, SigningEnds, OrphanEnds
<1>4. ASSUME NEW b \in Builders, Acquiring(b) PROVE LockType'
  <2>1. CASE MakeDirectory(b)
    BY <1>0, <2>1 DEF LockType, MakeDirectory
  <2>2. CASE WriteOwner(b)
    BY <1>0, <2>2 DEF LockType, WriteOwner
  <2>3. CASE RemoveOrphan(b)
    BY <1>f, <2>3 DEF RemoveOrphan
  <2>4. CASE Look(b) \/ Sleep(b)
    BY <1>s, <2>4 DEF Look, Sleep
  <2> QED BY <1>4, <2>1, <2>2, <2>3, <2>4 DEF Acquiring
<1>5. ASSUME NEW b \in Builders, Releasing(b) PROVE LockType'
  <2>1. CASE Release(b)
    BY <1>s, <2>1 DEF Release
  <2>2. CASE Unlink(b)
    BY <1>f, <2>2 DEF Unlink
  <2> QED BY <1>5, <2>1, <2>2 DEF Releasing
<1>6. ASSUME NEW b \in Builders, Faulty(b) PROVE LockType'
  BY <1>0, <1>6, LockAssumption DEF LockType, Faulty, Interrupt, Killed
<1> QED BY LockSteps, <1>1, <1>2, <1>3, <1>4, <1>5, <1>6

LEMMA ProcessTypeKept == BuildInv /\ [Next]_vars => ProcessType'
<1> SUFFICES ASSUME BuildInv, [Next]_vars PROVE ProcessType'
  OBVIOUS
<1>0. ProcessType
  BY DEF BuildInv, TypeOK, ProcessType
<1>p. ASSUME NEW b \in Builders, NEW p \in Phases, Goes(b, p)
      PROVE  (pc \in [Builders -> Phases])'
  BY <1>0, <1>p DEF ProcessType, Goes
<1>1. CASE UNCHANGED <<pc, child, result>>
  BY <1>0, <1>1 DEF ProcessType
<1>2. ASSUME NEW b \in Builders, Moves(b) PROVE ProcessType'
  BY <1>0, <1>2, <1>p DEF ProcessType, Moves, Phases
<1>3. ASSUME NEW b \in Builders, Acquiring(b) PROVE ProcessType'
  <2>1. \E p \in Phases : Goes(b, p)
    BY <1>3 DEF Acquiring, MakeDirectory, WriteOwner, Look, RemoveOrphan, Sleep, Phases
  <2>2. UNCHANGED <<child, result>>
    BY <1>3 DEF Acquiring, MakeDirectory, WriteOwner, Look, RemoveOrphan, Sleep
  <2> QED BY <1>0, <1>p, <2>1, <2>2 DEF ProcessType
<1>4. ASSUME NEW b \in Builders, Releasing(b) \/ Killed(b) PROVE ProcessType'
  <2>1. \E p \in Phases : Goes(b, p)
    BY <1>4 DEF Releasing, Release, Unlink, Killed, Phases
  <2> QED BY <1>0, <1>4, <1>p, <2>1 DEF ProcessType, Releasing, Release, Unlink, Killed
<1>5. ASSUME NEW b \in Builders, Signing(b) PROVE ProcessType'
  <2>1. CASE StartSigning(b)
    BY <1>0, <2>1, <1>p DEF ProcessType, StartSigning, Phases
  <2>2. CASE OrphanEnds(b)
    BY <1>0, <2>2 DEF ProcessType, OrphanEnds
  <2>3. ASSUME NEW e \in {"ok", "failed", "timed out"}, SigningEnds(b, e) PROVE ProcessType'
    BY <1>0, <2>3, <1>p DEF ProcessType, SigningEnds, Phases
  <2> QED BY <1>5, <2>1, <2>2, <2>3 DEF Signing
<1>6. ASSUME NEW b \in Builders, Interrupt(b) PROVE ProcessType'
  BY <1>0, <1>6, <1>p DEF ProcessType, Interrupt, Phases
<1> QED
  BY LockSteps, <1>1, <1>2, <1>3, <1>4, <1>5, <1>6 DEF Faulty, GrowsOld, lockVars

LEMMA TypesKept == BuildInv /\ [Next]_vars => (TypeOK /\ StepsInv)'
<1> SUFFICES ASSUME BuildInv, [Next]_vars PROVE (TypeOK /\ StepsInv)'
  OBVIOUS
<1>1. StepsInv'
  BY OrderIsKept DEF BuildInv, StepsInv
<1>2. OtherType'
  <2>1. OtherType
    BY DEF BuildInv, TypeOK, OtherType
  <2>2. Steps \subseteq Builders
    BY StepsAreBuilders DEF BuildInv
  <2>3. CASE Parent
    BY <2>1, <2>2, <2>3 DEF OtherType, Parent, Launch, ParentEnds, Steps
  <2>4. ASSUME NEW b \in Builders, Works(b) PROVE OtherType'
    BY <2>1, <2>4
    DEF OtherType, Works, Pack, MakeArtifacts, SigningSucceeds, SigningFails, FinishSigning, buildVars
  <2>5. CASE UNCHANGED <<hook, noBuiltIn, exit>>
    BY <2>1, <2>5 DEF OtherType
  <2> QED BY <2>3, <2>4, <2>5 DEF Next, ScriptVanishes, buildVars, vars
<1> QED
  BY <1>1, <1>2, DistTyped, LockTypeKept, ProcessTypeKept
  DEF TypeOK, ArtifactType, LockType, ProcessType, OtherType, Target
-----------------------------------------------------------------------------
(* One process has the lock                                                *)

LEMMA LockOfOneKept == BuildInv /\ [Next]_vars => LockOfOne'
<1> SUFFICES ASSUME BuildInv, [Next]_vars, faults' = 0 PROVE LockOfOne'
  BY DEF LockOfOne
<1> USE DEF BuildInv
<1>t. ProcessType /\ exists \in BOOLEAN /\ faults \in 0..MaxFaults
  BY DEF TypeOK, ProcessType
<1>0. faults = 0 /\ ~ GrowsOld /\ \A b \in Builders : ~ Faulty(b)
  <2>1. faults' = faults \/ faults' = faults + 1
    BY LockSteps
    DEF Moves, Acquiring, MakeDirectory, WriteOwner, Look, RemoveOrphan, Sleep, Signing,
        StartSigning, SigningEnds, OrphanEnds, Releasing, Release, Unlink, Faulty, Interrupt,
        Killed, GrowsOld, lockVars
  <2>2. faults = 0
    BY <1>t, <2>1
  <2> QED BY <1>t, <2>2, LockAssumption DEF GrowsOld, Faulty, Interrupt, Killed
<1>1. CASE UNCHANGED lockVars
  BY <1>0, <1>1 DEF LockOfOne, Has, Named, lockVars
<1>2. ASSUME NEW b \in Builders, Moves(b) PROVE LockOfOne'
  <2>1. \A c \in Builders : (Has(c)' <=> Has(c)) /\ (Named(c)' <=> Named(c))
    BY <1>2, <1>t DEF Moves, Goes, Has, Named, ProcessType
  <2>2. \A c \in Builders : pc'[c] = "signing" <=> pc[c] = "signing"
    BY <1>2, <1>t DEF Moves, Goes, ProcessType
  <2>3. \A c \in Builders : pc'[c] \notin {"remove", "dead"}
    BY <1>0, <1>2, <1>t DEF LockOfOne, Moves, Goes, ProcessType
  <2>4. owner \in Builders \cup {NoOwner}
    BY DEF TypeOK
  <2> QED BY <1>0, <1>2, <2>1, <2>2, <2>3, <2>4 DEF LockOfOne, Moves
<1>g. ASSUME NEW b \in Builders, NEW p, Goes(b, p)
      PROVE  /\ \A c \in Builders \ {b} : /\ pc'[c] = pc[c]
                                          /\ Has(c)' <=> Has(c)
                                          /\ Named(c)' <=> Named(c)
             /\ pc'[b] = p
  BY <1>g, <1>t DEF Goes, Has, Named, ProcessType
<1>o. owner \in Builders \cup {NoOwner} /\ NoOwner \notin Builders
  BY LockAssumption DEF TypeOK
<1>3. ASSUME NEW b \in Builders, Acquiring(b) PROVE LockOfOne'
  <2>1. CASE MakeDirectory(b) /\ exists
    BY <1>0, <1>g, <1>o, <2>1 DEF MakeDirectory, LockOfOne, Has, Named
  <2>2. CASE MakeDirectory(b) /\ ~ exists
    BY <1>0, <1>g, <2>2 DEF MakeDirectory, LockOfOne, Has, Named
  <2>3. CASE WriteOwner(b)
    <3>1. exists /\ Has(b)
      BY <1>0, <2>3 DEF WriteOwner, LockOfOne, Has
    <3> QED BY <1>0, <1>g, <2>3, <3>1 DEF WriteOwner, LockOfOne, Has, Named
  <2>4. CASE Look(b)
    <3>1. ~ old /\ (owner # NoOwner => Alive(owner))
      BY <1>0 DEF LockOfOne, Named, Alive
    <3>2. Goes(b, "sleep")
      BY <2>4, <3>1 DEF Look
    <3> QED BY <1>0, <1>g, <1>o, <2>4, <3>2 DEF Look, LockOfOne, Has, Named
  <2>5. ~ RemoveOrphan(b)
    BY <1>0 DEF LockOfOne, RemoveOrphan
  <2>6. CASE Sleep(b)
    BY <1>0, <1>g, <1>o, <2>6 DEF Sleep, LockOfOne, Has, Named
  <2> QED BY <1>3, <2>1, <2>2, <2>3, <2>4, <2>5, <2>6 DEF Acquiring
<1>4. ASSUME NEW b \in Builders, Signing(b) PROVE LockOfOne'
  <2>1. CASE StartSigning(b)
    <3>1. child' = [child EXCEPT ![b] = TRUE] /\ child \in [Builders -> BOOLEAN]
      BY <2>1, <1>t DEF StartSigning, ProcessType
    <3> QED BY <1>0, <1>g, <1>o, <2>1, <3>1 DEF StartSigning, LockOfOne, Has, Named
  <2>2. ASSUME NEW e, SigningEnds(b, e) PROVE LockOfOne'
    <3>1. child' = [child EXCEPT ![b] = FALSE] /\ child \in [Builders -> BOOLEAN]
      BY <2>2, <1>t DEF SigningEnds, ProcessType
    <3> QED BY <1>0, <1>g, <1>o, <2>2, <3>1 DEF SigningEnds, LockOfOne, Has, Named
  <2>3. ~ OrphanEnds(b)
    BY <1>0 DEF LockOfOne, OrphanEnds
  <2> QED BY <1>4, <2>1, <2>2, <2>3 DEF Signing
<1>5. ASSUME NEW b \in Builders, Releasing(b) PROVE LockOfOne'
  <2>1. exists /\ owner = b
    BY <1>0, <1>5 DEF LockOfOne, Releasing, Release, Unlink, Has, Named
  <2>2. CASE Release(b)
    BY <1>0, <1>g, <1>o, <2>1, <2>2 DEF Release, LockOfOne, Has, Named
  <2>3. CASE Unlink(b)
    BY <1>0, <1>g, <2>1, <2>3 DEF Unlink, LockOfOne, Has, Named
  <2> QED BY <1>5, <2>2, <2>3 DEF Releasing
<1> QED BY LockSteps, <1>0, <1>1, <1>2, <1>3, <1>4, <1>5
-----------------------------------------------------------------------------
(* What is in dist/                                                        *)

\* What a step of the build is to dist/, to the script and to the hooks: an
\* artifact goes, one is made, those of a process are signed, or none changes.
LEMMA MadeByStepsKept == BuildInv /\ [Next]_vars => (MadeBySteps /\ CleanedFirst)'
<1> SUFFICES ASSUME BuildInv, [Next]_vars PROVE (MadeBySteps /\ CleanedFirst)'
  OBVIOUS
<1> USE DEF BuildInv, DistInv
<1>t. /\ Steps' = Steps /\ Steps \subseteq Builders /\ NoOwner \notin Steps
      /\ pc \in [Builders -> Phases]
      /\ dist \subseteq ArtifactType
  <2>1. Steps' = Steps
    BY OrderIsKept DEF Steps
  <2>2. Steps \subseteq Builders /\ NoOwner \notin Steps
    BY StepsAreBuilders, LockAssumption
  <2>3. pc \in [Builders -> Phases] /\ dist \subseteq ArtifactType
    BY DEF TypeOK, ArtifactType
  <2> QED BY <2>1, <2>2, <2>3
<1>q. ASSUME NEW b \in Steps, pc'[b] # "queued", pc[b] = "queued"
      PROVE  \E i \in 1..Len(order) : b = order[i] /\ Launch(i)
  <2>1. ~ (\E c \in Builders : Acquiring(c) \/ Signing(c) \/ Releasing(c) \/ Faulty(c))
    BY <1>q, <1>t
    DEF Acquiring, MakeDirectory, WriteOwner, Look, RemoveOrphan, Sleep, Signing, StartSigning,
        SigningEnds, OrphanEnds, Releasing, Release, Unlink, Faulty, Interrupt, Killed, Goes
  <2>2. ~ (\E c \in Builders : Pack(c) \/ MakeArtifacts(c) \/ FinishSigning(c))
    BY <1>q, <1>t DEF Pack, MakeArtifacts, FinishSigning, Goes
  <2>3. ~ (GrowsOld \/ UNCHANGED pc)
    BY <1>q DEF GrowsOld
  <2>4. \E i \in 1..Len(order) : Launch(i)
    BY <2>1, <2>2, <2>3
    DEF Next, Works, Signing, SigningSucceeds, SigningFails, Faulty, Parent, ParentEnds,
        ScriptVanishes, lockVars, vars
  <2>5. PICK i \in 1..Len(order) : Launch(i)
    BY <2>4
  <2>6. b = order[i]
    BY <1>q, <1>t, <2>5 DEF Launch, Goes, Steps
  <2> QED BY <2>5, <2>6
<1>1. CASE \E i \in 1..Len(order) : Launch(i)
  <2>1. PICK i \in 1..Len(order) : Launch(i)
    BY <1>1
  <2>2. order[i] \in Steps /\ dist' = {a \in dist : a.target # Target(order[i])}
    BY <2>1 DEF Launch, Cleaned, Steps
  <2>3. \A b \in Steps \ {order[i]} : pc'[b] = pc[b]
    BY <2>1, <1>t DEF Launch, Goes
  <2>4. MadeBySteps'
    BY <1>t, <2>2 DEF MadeBySteps, Target
  <2>5. CleanedFirst'
    BY <1>t, <2>2, <2>3 DEF CleanedFirst, Target
  <2> QED BY <2>4, <2>5
<1>p. ASSUME ~ \E i \in 1..Len(order) : Launch(i)
      PROVE  \A b \in Steps : pc'[b] # "queued" => pc[b] # "queued"
  BY <1>p, <1>q
<1>2. CASE dist' = dist /\ ~ \E i \in 1..Len(order) : Launch(i)
  <2>1. MadeBySteps'
    BY <1>2, <1>t DEF MadeBySteps, Target
  <2>2. CleanedFirst'
    BY <1>2, <1>p, <1>t DEF CleanedFirst, Target
  <2> QED BY <2>1, <2>2
<1>3. ASSUME NEW b \in Builders, MakeArtifacts(b), ~ \E i \in 1..Len(order) : Launch(i)
      PROVE  (MadeBySteps /\ CleanedFirst)'
  <2>1. CASE dist' = dist
    BY <1>2, <1>3, <2>1
  <2>2. ASSUME b \in Steps, NEW s, dist' = dist \cup {Artifact(b, Target(b), s)}
        PROVE  (MadeBySteps /\ CleanedFirst)'
    <3>1. MadeBySteps'
      BY <1>t, <2>2 DEF MadeBySteps, Artifact, Target
    <3>2. CleanedFirst'
      BY <1>p, <1>3, <1>t, <2>2 DEF CleanedFirst, Artifact, Target
    <3> QED BY <3>1, <3>2
  <2> QED BY <1>3, <2>1, <2>2 DEF MakeArtifacts
<1>4. ASSUME NEW b \in Builders, SigningSucceeds(b), ~ \E i \in 1..Len(order) : Launch(i)
      PROVE  (MadeBySteps /\ CleanedFirst)'
  <2>1. CASE dist' = dist
    BY <1>2, <1>4, <2>1
  <2>2. CASE dist' = {IF a.of = b THEN [a EXCEPT !.signed = "external"] ELSE a : a \in dist}
    <3>1. \A a \in dist' : \E x \in dist : a.of = x.of /\ a.target = x.target
      BY <1>t, <2>2 DEF ArtifactType
    <3>2. MadeBySteps'
      BY <1>t, <3>1 DEF MadeBySteps, Target
    <3>3. CleanedFirst'
      BY <1>p, <1>4, <1>t, <3>1 DEF CleanedFirst, Target
    <3> QED BY <3>2, <3>3
  <2> QED BY <1>4, <2>1, <2>2 DEF SigningSucceeds
<1> QED
  BY <1>1, <1>2, <1>3, <1>4
  DEF Next, Works, Parent, ParentEnds, Pack, SigningFails, FinishSigning, ScriptVanishes, buildVars, vars
\* An artifact of a step that has signed was signed by the script, unless the
\* script went away.
LEMMA SignedByScriptKept == BuildInv /\ [Next]_vars => SignedByScript'
<1> SUFFICES ASSUME BuildInv, [Next]_vars, script' = "usable" PROVE SignedByScript'
  BY DEF SignedByScript
<1> USE DEF BuildInv, DistInv
<1>t. /\ Steps' = Steps /\ Steps \subseteq Builders
      /\ ProcessType /\ hook \in [Builders -> {1, 2}]
      /\ dist \subseteq ArtifactType
  <2>1. Steps' = Steps
    BY OrderIsKept DEF Steps
  <2>2. Steps \subseteq Builders
    BY StepsAreBuilders
  <2>3. ProcessType /\ hook \in [Builders -> {1, 2}] /\ dist \subseteq ArtifactType
    BY DEF TypeOK, ArtifactType, ProcessType
  <2> QED BY <2>1, <2>2, <2>3
<1>0. script = "usable"
  BY DEF Next, Works, Parent, Launch, ParentEnds, Pack, MakeArtifacts, SigningSucceeds,
         SigningFails, FinishSigning, ScriptVanishes, buildVars, vars
<1>1. \A b \in Steps, a \in dist : Windows(b) /\ Signed(b) /\ a.of = b => a.signed = "external"
  BY <1>0 DEF SignedByScript
<1>s. ASSUME \A b \in Steps : Windows(b) /\ Signed(b)' => Signed(b), dist' \subseteq dist
      PROVE  SignedByScript'
  BY <1>1, <1>s, <1>t DEF SignedByScript, Windows, Target
<1>g. ASSUME NEW b \in Builders, NEW p \in Phases \ {"done", "release", "unlink", "released"}, Goes(b, p),
             \A c \in Builders \ {b} : hook'[c] = hook[c] /\ result'[c] = result[c]
      PROVE  \A c \in Steps : Signed(c)' => c # b /\ Signed(c)
  BY <1>g, <1>t DEF Goes, Signed, ProcessType
<1>2. CASE Parent
  <2>1. ASSUME NEW i \in 1..Len(order), Launch(i) PROVE SignedByScript'
    <3>1. order[i] \in Builders /\ "packing" \in Phases \ {"done", "release", "unlink", "released"}
      BY <1>t DEF Steps, Phases
    <3>2. Goes(order[i], "packing") /\ hook' = hook /\ result' = result /\ dist' \subseteq dist
      BY <2>1 DEF Launch, Cleaned
    <3> QED BY <1>g, <1>s, <3>1, <3>2
  <2>2. CASE ParentEnds
    BY <1>s, <2>2 DEF ParentEnds, lockVars, Signed
  <2> QED BY <1>2, <2>1, <2>2 DEF Parent
<1>3. ASSUME NEW b \in Builders, Works(b) PROVE SignedByScript'
  <2>1. CASE Pack(b)
    <3>1. \E p \in {"try", "building", "failed"} : Goes(b, p)
      BY <2>1 DEF Pack
    <3>2. \A c \in Builders \ {b} : hook'[c] = hook[c] /\ result'[c] = result[c]
      BY <2>1, <1>t DEF Pack
    <3>3. dist' \subseteq dist
      BY <2>1 DEF Pack
    <3> QED BY <1>g, <1>s, <3>1, <3>2, <3>3 DEF Phases
  <2>2. CASE MakeArtifacts(b) /\ Windows(b)
    <3>1. \E p \in {"try", "failed"} : Goes(b, p)
      BY <1>0, <2>2 DEF MakeArtifacts, Signs
    <3>2. \A c \in Builders \ {b} : hook'[c] = hook[c] /\ result'[c] = result[c]
      BY <2>2, <1>t DEF MakeArtifacts
    <3>3. \A c \in Steps : Signed(c)' => c # b /\ Signed(c)
      BY <1>g, <3>1, <3>2 DEF Phases
    <3>4. \A a \in dist' : a.of = b \/ a \in dist
      BY <2>2 DEF MakeArtifacts, Artifact
    <3> QED BY <1>1, <1>t, <3>3, <3>4 DEF SignedByScript, Windows, Target
  <2>3. CASE MakeArtifacts(b) /\ ~ Windows(b)
    <3>1. \A c \in Steps : Windows(c) => c # b
      BY <2>3
    <3>2. \A c \in Builders \ {b} : hook'[c] = hook[c] /\ result'[c] = result[c] /\ pc'[c] = pc[c]
      BY <2>3, <1>t DEF MakeArtifacts, Goes, ProcessType
    <3>3. \A c \in Steps : Windows(c) /\ Signed(c)' => c # b /\ Signed(c)
      BY <1>t, <3>1, <3>2 DEF Signed
    <3>4. \A a \in dist' : a.of = b \/ a \in dist
      BY <2>3 DEF MakeArtifacts, Artifact
    <3> QED BY <1>1, <1>t, <3>3, <3>4 DEF SignedByScript, Windows, Target
  <2>4. CASE SigningSucceeds(b) /\ hook[b] = 2
    <3>1. dist' = {IF a.of = b THEN [a EXCEPT !.signed = "external"] ELSE a : a \in dist}
      BY <2>4 DEF SigningSucceeds
    <3>2. \A a \in dist' : (a.of = b /\ a.signed = "external") \/ (a.of # b /\ a \in dist)
      BY <1>t, <3>1 DEF ArtifactType
    <3>3. \A c \in Builders \ {b} : hook'[c] = hook[c] /\ result'[c] = result[c] /\ pc'[c] = pc[c]
      BY <2>4, <1>t DEF SigningSucceeds, SigningEnds, Goes, ProcessType
    <3>4. \A c \in Steps : Signed(c)' => c = b \/ Signed(c)
      BY <1>t, <3>3 DEF Signed
    <3> QED BY <1>1, <1>t, <3>2, <3>4 DEF SignedByScript, Windows, Target
  <2>5. CASE SigningSucceeds(b) /\ hook[b] = 1
    <3>1. dist' = dist /\ hook' = hook /\ Goes(b, "release") /\ result' = [result EXCEPT ![b] = "ok"]
      BY <2>5 DEF SigningSucceeds, SigningEnds
    <3>2. \A c \in Steps : Signed(c)' => Signed(c)
      <4>1. \A c \in Builders \ {b} : pc'[c] = pc[c] /\ result'[c] = result[c]
        BY <3>1, <1>t DEF Goes, ProcessType
      <4>2. pc'[b] = "release" /\ hook'[b] = 1
        BY <2>5, <3>1, <1>t DEF Goes, ProcessType
      <4>3. ~ Signed(b)'
        BY <4>2 DEF Signed
      <4> QED BY <3>1, <4>1, <4>3, <1>t DEF Signed
    <3> QED BY <1>s, <3>1, <3>2
  <2>6. CASE SigningFails(b)
    <3>1. PICK e \in {"failed", "timed out"} : SigningEnds(b, e)
      BY <2>6 DEF SigningFails
    <3>2. dist' = dist /\ hook' = hook /\ Goes(b, "release") /\ result' = [result EXCEPT ![b] = e]
      BY <2>6, <3>1 DEF SigningFails, SigningEnds, buildVars
    <3>3. \A c \in Steps : Signed(c)' => Signed(c)
      BY <1>t, <3>2 DEF Signed, Goes, ProcessType
    <3> QED BY <1>s, <3>2, <3>3
  <2>7. CASE FinishSigning(b)
    <3>1. /\ dist' = dist /\ hook' = hook /\ result' = result /\ pc[b] = "released"
          /\ \/ Goes(b, "failed")
             \/ Goes(b, "building")
             \/ Goes(b, "done") /\ result[b] = "ok" /\ hook[b] # 1
      BY <2>7 DEF FinishSigning, buildVars
    <3>2. \A c \in Steps : Signed(c)' => Signed(c)
      BY <1>t, <3>1 DEF Signed, Goes, ProcessType
    <3> QED BY <1>s, <3>1, <3>2
  <2>8. CASE Acquiring(b) /\ UNCHANGED buildVars
    <3>1. \E p \in Phases \ {"done", "release", "unlink", "released"} : Goes(b, p)
      BY <2>8 DEF Acquiring, MakeDirectory, WriteOwner, Look, RemoveOrphan, Sleep, Phases
    <3>2. hook' = hook /\ result' = result /\ dist' = dist
      BY <2>8 DEF Acquiring, MakeDirectory, WriteOwner, Look, RemoveOrphan, Sleep, buildVars
    <3> QED BY <1>g, <1>s, <3>1, <3>2
  <2>9. CASE (StartSigning(b) \/ OrphanEnds(b)) /\ UNCHANGED buildVars
    <3>1. hook' = hook /\ result' = result /\ dist' = dist
      BY <2>9 DEF StartSigning, OrphanEnds, buildVars
    <3>2. \A c \in Steps : Signed(c)' => Signed(c)
      BY <1>t, <2>9, <3>1 DEF StartSigning, OrphanEnds, Signed, Goes, ProcessType
    <3> QED BY <1>s, <3>1, <3>2
  <2>10. CASE Releasing(b) /\ UNCHANGED buildVars
    <3>1. hook' = hook /\ result' = result /\ dist' = dist
      BY <2>10 DEF Releasing, Release, Unlink, buildVars
    <3>2. pc[b] \in {"release", "unlink"} /\ \E p \in {"unlink", "released"} : Goes(b, p)
      BY <2>10 DEF Releasing, Release, Unlink
    <3>3. \A c \in Steps : Signed(c)' => Signed(c)
      BY <1>t, <3>1, <3>2 DEF Signed, Goes, ProcessType
    <3> QED BY <1>s, <3>1, <3>3
  <2>11. hook[b] \in {1, 2}
    BY <1>t
  <2> QED
    BY <1>3, <2>1, <2>2, <2>3, <2>4, <2>5, <2>6, <2>7, <2>8, <2>9, <2>10, <2>11 DEF Works
<1>4. ASSUME NEW b \in Builders, Faulty(b), UNCHANGED buildVars PROVE SignedByScript'
  <2>1. hook' = hook /\ dist' = dist
    BY <1>4 DEF buildVars
  <2>2. \A c \in Steps : Signed(c)' => Signed(c)
    <3>1. CASE Interrupt(b)
      BY <1>t, <2>1, <3>1 DEF Interrupt, Signed, Goes, ProcessType
    <3>2. CASE Killed(b)
      BY <1>t, <2>1, <3>2 DEF Killed, Signed, Goes, ProcessType
    <3> QED BY <1>4, <3>1, <3>2 DEF Faulty
  <2> QED BY <1>s, <2>1, <2>2
<1>5. CASE GrowsOld /\ UNCHANGED buildVars
  BY <1>s, <1>5 DEF GrowsOld, Signed, buildVars
<1>6. CASE UNCHANGED vars
  BY <1>s, <1>6 DEF Signed, vars, lockVars, buildVars
<1> QED BY <1>0, <1>2, <1>3, <1>4, <1>5, <1>6 DEF Next, Faulty, ScriptVanishes

\* The exit code 0 is given when every step is done, and a process that is done
\* stays so.
LEMMA ZeroWhenDoneKept == BuildInv /\ [Next]_vars => ZeroWhenDone'
<1> SUFFICES ASSUME BuildInv, [Next]_vars PROVE ZeroWhenDone'
  OBVIOUS
<1> USE DEF BuildInv, DistInv
<1>t. Steps' = Steps /\ Steps \subseteq Builders /\ pc \in [Builders -> Phases]
  <2>1. Steps' = Steps
    BY OrderIsKept DEF Steps
  <2>2. Steps \subseteq Builders
    BY StepsAreBuilders
  <2> QED BY <2>1, <2>2 DEF TypeOK
<1>1. CASE ParentEnds
  BY <1>1, <1>t DEF ParentEnds, ZeroWhenDone, lockVars
<1>2. CASE exit' = exit
  <2>1. CASE exit # "0"
    BY <1>2, <2>1 DEF ZeroWhenDone
  <2>2. CASE exit = "0"
    <3>1. ~ \E i \in 1..Len(order) : Launch(i)
      BY <2>2 DEF Launch
    <3>2. \A b \in Steps : pc'[b] = "done"
      <4>1. \A b \in Builders : pc[b] = "done" => pc'[b] = "done"
        BY LockSteps, <1>t
        DEF Moves, Acquiring, MakeDirectory, WriteOwner, Look, RemoveOrphan, Sleep, Signing,
            StartSigning, SigningEnds, OrphanEnds, Releasing, Release, Unlink, Faulty, Interrupt,
            Killed, GrowsOld, lockVars, Goes
      <4> QED BY <1>t, <2>2, <4>1 DEF ZeroWhenDone
    <3> QED BY <1>t, <3>2 DEF ZeroWhenDone
  <2> QED BY <2>1, <2>2
<1> QED
  BY <1>1, <1>2
  DEF Next, Works, Parent, Launch, Pack, MakeArtifacts, SigningSucceeds, SigningFails,
      FinishSigning, ScriptVanishes, buildVars, vars

-----------------------------------------------------------------------------
LEMMA BuildInvKept == BuildInv /\ [Next]_vars => BuildInv'
<1> SUFFICES ASSUME BuildInv, [Next]_vars PROVE BuildInv'
  OBVIOUS
<1>1. TypeOK' /\ StepsInv'
  BY TypesKept
<1>2. LockOfOne'
  BY LockOfOneKept
<1>3. MadeBySteps' /\ CleanedFirst' /\ SignedByScript' /\ ZeroWhenDone'
  BY MadeByStepsKept, SignedByScriptKept, ZeroWhenDoneKept
<1> QED BY <1>1, <1>2, <1>3 DEF BuildInv, DistInv

LEMMA BuildInvMeans == BuildInv => SignedByOneHolder
<1> SUFFICES ASSUME BuildInv PROVE SignedByOneHolder
  OBVIOUS
<1> USE DEF BuildInv, DistInv
<1>1. OneSigner
  BY DEF LockOfOne, OneSigner, Has, Named
<1>2. ExitZeroMeansSigned
  <2> SUFFICES ASSUME exit = "0", NEW a \in dist
               PROVE  /\ a.target \in {Target(b) : b \in Steps} => a.of \in Steps
                      /\ (a.target = "win" /\ a.of \in Steps /\ script = "usable")
                           => a.signed = "external"
    BY DEF ExitZeroMeansSigned
  <2>1. \A b \in Steps : pc[b] = "done"
    BY DEF ZeroWhenDone
  <2>2. a.target \in {Target(b) : b \in Steps} => a.of \in Steps
    BY <2>1 DEF CleanedFirst, MadeBySteps
  <2>3. (a.target = "win" /\ a.of \in Steps /\ script = "usable") => a.signed = "external"
    BY <2>1 DEF MadeBySteps, SignedByScript, Windows, Signed
  <2> QED BY <2>2, <2>3
<1> QED BY <1>1, <1>2 DEF SignedByOneHolder

\* While nobody is killed or interrupted and no lock outlives its twelve hours one process of
\* the machine signs at a time, in its own name (acquireSignLock and releaseSignLock), and a
\* build that exits 0 leaves nothing stale and nothing unsigned among its targets
\* (timed-parallel-build.js, timed-seq-build.js and external-sign.js): for any number of
\* processes, steps in any order, and faults.
THEOREM OneHolderSigns == Spec => []SignedByOneHolder
<1> QED BY BuildInvInit, BuildInvKept, BuildInvMeans, PTL DEF Spec
=============================================================================
