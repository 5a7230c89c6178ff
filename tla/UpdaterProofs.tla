---------------------------- MODULE UpdaterProofs ----------------------------
(***************************************************************************)
(* Proofs about Updater, for any number of variables, releases and job     *)
(* versions.  What a theorem asks of the world is an assumption of its     *)
(* own: whether the operator acts, responses are lost, the cache file      *)
(* fails, and where the process may be killed.                             *)
(***************************************************************************)
EXTENDS Updater, TLAPS

----------------------------------------------------------------------------
(* Versions and values                                                     *)

\* Values are numbers.
LEMMA ValuesAreNats ==
    /\ Values \subseteq Nat /\ NoValue \in Values /\ NoValue = 0
    /\ Releases \subseteq Nat /\ Releases \subseteq Values
    /\ \A r \in Releases : r > 0
    /\ Vars \subseteq Nat
    /\ 1 \in Vars
BY UpdaterAssumption DEF Values, Releases, NoValue, Vars

\* What a version is made of.
LEMMA VersionFields ==
    ASSUME NEW x \in Versions
    PROVE  /\ x.src \in Sources
           /\ x.flags \in [Vars -> Values]
           /\ x.meta \in Metas
           /\ x.by \in Authors
           /\ x.from \in Nat
BY DEF Versions

\* A version that is appended is the last one, and the others stay.
LEMMA Appending ==
    ASSUME NEW s \in Seq(Versions), NEW x \in Versions
    PROVE  /\ Append(s, x) \in Seq(Versions)
           /\ Len(Append(s, x)) = Len(s) + 1
           /\ Append(s, x)[Len(s) + 1] = x
           /\ \A n \in 1 .. Len(s) : Append(s, x)[n] = s[n]
OBVIOUS

\* A version as Nomad registers it again.
LEMMA RevertedVersion ==
    ASSUME NEW x \in Versions, NEW n \in Nat
    PROVE  LET y == [x EXCEPT !.by = "nomad", !.from = n]
           IN  /\ y \in Versions
               /\ y.src = x.src /\ y.flags = x.flags /\ y.meta = x.meta
               /\ y.by = "nomad" /\ y.from = n
BY DEF Versions, Authors

----------------------------------------------------------------------------
(* Types                                                                   *)

NomadTypes ==
    /\ versions \in Seq(Versions)
    /\ stable \in 1 .. Len(versions)
    /\ deploying \in BOOLEAN
    /\ latest \in [Vars -> Releases]

CheckTypes ==
    /\ step \in Steps
    /\ job \in Metas
    /\ read \in 0 .. Len(versions)
    /\ step \notin {"idle", "reading"} => read > 0
    /\ pos \in Vars
    /\ changes \in [Vars -> Values]

ProcessTypes ==
    /\ up \in BOOLEAN
    /\ known \in Metas
    /\ cache \in [Vars -> Values]
    /\ disk \in [Vars -> Values]

LEMMA TypesTogether == TypeOK <=> NomadTypes /\ CheckTypes /\ ProcessTypes
BY DEF TypeOK, NomadTypes, CheckTypes, ProcessTypes

\* A check that returns leaves nothing behind.
LEMMA EndCheckTypes ==
    ASSUME EndCheck, versions' \in Seq(Versions)
    PROVE  CheckTypes'
<1>1. Unset \in [Vars -> Values] /\ 1 \in Vars
  BY ValuesAreNats DEF Unset
<1>2. 0 \in 0 .. Len(versions')
  OBVIOUS
<1> QED
  BY <1>1, <1>2 DEF EndCheck, CheckTypes, Steps, Metas

\* There is a current version.
LEMMA CurrentVersion ==
    ASSUME NomadTypes
    PROVE  /\ Len(versions) \in 1 .. Len(versions)
           /\ Current \in Versions
           /\ \A n \in 1 .. Len(versions) : versions[n] \in Versions
BY DEF NomadTypes, Current

\* What a check registers is a version.
LEMMA RenderedVersion ==
    ASSUME NomadTypes, CheckTypes, step = "register"
    PROVE  /\ Rendered \in Versions
           /\ Rendered.by = "updater" /\ Rendered.from = read
           /\ Rendered.src = versions[read].src
           /\ Rendered.meta = Carried(versions[read].src, job)
           /\ \A v \in Vars : Rendered.flags[v] =
                IF changes[v] # NoValue THEN changes[v] ELSE versions[read].flags[v]
<1>1. read \in 1 .. Len(versions) /\ read \in Nat
  BY DEF NomadTypes, CheckTypes
<1>2. versions[read] \in Versions
  BY <1>1, CurrentVersion
<1> DEFINE b == versions[read]
<1>3. b.src \in Sources /\ b.flags \in [Vars -> Values]
  BY <1>2, VersionFields
<1>4. Carried(b.src, job) \in Metas
  BY DEF Carried, SrcMeta, Metas, CheckTypes
<1> DEFINE f == [v \in Vars |-> IF changes[v] # NoValue THEN changes[v] ELSE b.flags[v]]
<1>5. f \in [Vars -> Values]
  BY <1>3 DEF CheckTypes
<1>6. Rendered = [src |-> b.src, flags |-> f, meta |-> Carried(b.src, job),
                  by |-> "updater", from |-> read]
  BY DEF Rendered
<1> HIDE DEF b, f
<1>7. Rendered \in Versions
  BY <1>1, <1>3, <1>4, <1>5, <1>6 DEF Versions, Authors
<1>8. /\ Rendered.by = "updater" /\ Rendered.from = read /\ Rendered.src = b.src
      /\ Rendered.meta = Carried(b.src, job) /\ Rendered.flags = f
  BY <1>6
<1> QED
  BY <1>7, <1>8 DEF b, f

\* What Nomad goes back to is a version.
LEMMA RevertVersion ==
    ASSUME NomadTypes
    PROVE  LET y == [versions[stable] EXCEPT !.by = "nomad", !.from = stable]
           IN  /\ y \in Versions /\ y.by = "nomad"
               /\ y.flags = versions[stable].flags /\ y.meta = versions[stable].meta
<1>1. versions[stable] \in Versions /\ stable \in Nat
  BY CurrentVersion DEF NomadTypes
<1> QED
  BY <1>1, RevertedVersion

\* Whoever registers, one version is appended.
LEMMA Registered ==
    ASSUME TypeOK, [Next]_vars, versions' # versions
    PROVE  \E x \in Versions :
             /\ versions' = Append(versions, x)
             /\ \/ Register /\ x = Rendered /\ step = "register"
                \/ /\ DeploymentFails /\ x.by = "nomad" /\ deploying
                   /\ x.flags = versions[stable].flags /\ x.meta = versions[stable].meta
                \/ /\ OperatorRegisters /\ OperatorActs /\ x.by = "operator"
                   /\ \E v \in Vars, r \in Values :
                        x.flags = [Current.flags EXCEPT ![v] = r]
<1>0. NomadTypes /\ CheckTypes /\ ProcessTypes
  BY TypesTogether
<1>1. CASE Register
  <2>1. step = "register" /\ versions' = Append(versions, Rendered)
    BY <1>1 DEF Register
  <2> QED
    BY <1>0, <1>1, <2>1, RenderedVersion
<1>2. CASE DeploymentFails
  <2> DEFINE y == [versions[stable] EXCEPT !.by = "nomad", !.from = stable]
  <2>1. versions' = Append(versions, y) /\ deploying
    BY <1>2 DEF DeploymentFails
  <2>2. /\ y \in Versions /\ y.by = "nomad"
        /\ y.flags = versions[stable].flags /\ y.meta = versions[stable].meta
    BY <1>0, RevertVersion
  <2> HIDE DEF y
  <2> QED
    BY <1>2, <2>1, <2>2
<1>3. CASE OperatorRegisters
  <2>1. PICK src \in Sources, v \in Vars, r \in Values, stamp \in Stamps :
          versions' = Append(versions,
            [src |-> src, flags |-> [Current.flags EXCEPT ![v] = r],
             meta |-> SrcMeta(src) \cup stamp, by |-> "operator",
             from |-> Len(versions)])
    BY <1>3 DEF OperatorRegisters
  <2> DEFINE f == [Current.flags EXCEPT ![v] = r]
             m == SrcMeta(src) \cup stamp
             x == [src |-> src, flags |-> f, meta |-> m, by |-> "operator",
                   from |-> Len(versions)]
  <2>2. f \in [Vars -> Values]
    BY <1>0, CurrentVersion, VersionFields
  <2>3. m \in Metas
    BY DEF SrcMeta, Metas, Stamps
  <2>4. Len(versions) \in Nat
    BY <1>0 DEF NomadTypes
  <2> HIDE DEF f, m
  <2>5. x \in Versions /\ x.by = "operator" /\ x.flags = f /\ x.meta = m
    BY <2>2, <2>3, <2>4 DEF Versions, Authors
  <2>6. versions' = Append(versions, x)
    BY <2>1 DEF f, m
  <2>7. OperatorActs
    BY <1>3 DEF OperatorRegisters
  <2> HIDE DEF x
  <2>8. \E w \in Vars, q \in Values : x.flags = [Current.flags EXCEPT ![w] = q]
    BY <2>1, <2>5 DEF f
  <2> QED
    BY <1>3, <2>3, <2>5, <2>6, <2>7, <2>8
<1>4. CASE \/ Discover \/ StartCheck \/ ReadSubmission \/ ReadDeployment \/ Respond
           \/ LoseResponse \/ Record \/ Fail \/ Crash \/ Restart \/ DeploymentSucceeds
           \/ UNCHANGED vars
  BY <1>4 DEF Discover, StartCheck, ReadSubmission, ReadDeployment, Respond, LoseResponse,
              Record, Fail, Crash, Restart, DeploymentSucceeds, vars, nomadVars
<1>5. CASE \E v \in Vars : Resolve(v) \/ ResolveFails(v) \/ Publish(v) \/ Withdraw(v)
  BY <1>5 DEF Resolve, ResolveFails, Publish, Withdraw, nomadVars
<1> QED
  BY <1>1, <1>2, <1>3, <1>4, <1>5 DEF Next, Check, Environment

\* The cases of a step.  A registration is a case of its own; all others leave
\* the versions alone.
LEMMA StepTypes ==
    ASSUME TypeOK, [Next]_vars
    PROVE  TypeOK'
<1>0. NomadTypes /\ CheckTypes /\ ProcessTypes
  BY TypesTogether
<1>1. versions' \in Seq(Versions) /\ Len(versions') >= Len(versions)
  <2>1. CASE versions' = versions
    BY <1>0, <2>1 DEF NomadTypes
  <2>2. CASE versions' # versions
    <3>1. PICK x \in Versions : versions' = Append(versions, x)
      BY <2>2, Registered
    <3>2. Len(versions') = Len(versions) + 1 /\ versions' \in Seq(Versions)
      BY <1>0, <3>1, Appending DEF NomadTypes
    <3> QED
      BY <1>0, <3>2 DEF NomadTypes
  <2> QED
    BY <2>1, <2>2
<1>2. /\ Len(versions) \in Nat /\ Len(versions') \in Nat
      /\ 1 .. Len(versions) \subseteq 1 .. Len(versions')
      /\ 0 .. Len(versions) \subseteq 0 .. Len(versions')
  BY <1>0, <1>1 DEF NomadTypes
<1>3. NomadTypes'
  <2>1. stable' \in 1 .. Len(versions')
    <3>1. stable' = stable \/ (versions' = versions /\ stable' = Len(versions))
      BY DEF Next, Check, Environment, Discover, StartCheck, ReadSubmission, Resolve,
             ResolveFails, ReadDeployment, Register, Respond, LoseResponse, Record, Fail,
             Crash, Restart, Publish, Withdraw, DeploymentSucceeds, DeploymentFails,
             OperatorRegisters, vars, nomadVars
    <3> QED
      BY <1>0, <1>2, <3>1, CurrentVersion DEF NomadTypes
  <2>2. deploying' \in BOOLEAN
    BY <1>0 DEF NomadTypes, Next, Check, Environment, Discover, StartCheck, ReadSubmission,
             Resolve, ResolveFails, ReadDeployment, Register, Respond, LoseResponse, Record,
             Fail, Crash, Restart, Publish, Withdraw, DeploymentSucceeds, DeploymentFails,
             OperatorRegisters, vars, nomadVars
  <2>3. latest' \in [Vars -> Releases]
    <3>1. CASE \E v \in Vars : Publish(v) \/ Withdraw(v)
      BY <1>0, <3>1 DEF Publish, Withdraw, NomadTypes
    <3>2. CASE UNCHANGED latest
      BY <1>0, <3>2 DEF NomadTypes
    <3> QED
      BY <3>1, <3>2 DEF Next, Check, Environment, Discover, StartCheck, ReadSubmission,
             Resolve, ResolveFails, ReadDeployment, Register, Respond, LoseResponse, Record,
             Fail, Crash, Restart, DeploymentSucceeds, DeploymentFails,
             OperatorRegisters, vars, nomadVars
  <2> QED
    BY <1>1, <2>1, <2>2, <2>3 DEF NomadTypes
<1>4. CheckTypes'
  <2>1. CASE EndCheck
    BY <1>1, <2>1, EndCheckTypes
  <2>2. CASE UNCHANGED checkVars
    BY <1>0, <1>2, <2>2 DEF CheckTypes, checkVars
  <2>3. CASE StartCheck
    BY <1>0, <1>2, <2>3 DEF StartCheck, CheckTypes, ProcessTypes, Steps
  <2>4. CASE ReadSubmission
    <3>1. CASE Current.src \in Retained
      <4>1. read' = Len(versions) /\ step' = "resolving" /\ UNCHANGED <<job, pos, changes>>
        BY <2>4, <3>1 DEF ReadSubmission
      <4>2. Len(versions) \in 1 .. Len(versions')
        BY <1>0, <1>2, CurrentVersion
      <4> QED
        BY <1>0, <4>1, <4>2 DEF CheckTypes, Steps
    <3>2. CASE Current.src \notin Retained
      BY <2>1, <2>4, <3>2 DEF ReadSubmission
    <3> QED
      BY <3>1, <3>2
  <2>5. ASSUME NEW ch \in [Vars -> Values], AfterResolving(ch), step = "resolving"
        PROVE  CheckTypes'
    <3>1. read' = read => read' \in 0 .. Len(versions') /\ read' > 0
      BY <1>0, <1>2, <2>5 DEF CheckTypes
    <3>2. CASE pos < NumVars
      <4>1. pos + 1 \in Vars
        BY <1>0, <3>2, UpdaterAssumption DEF CheckTypes, Vars
      <4> QED
        BY <1>0, <2>5, <3>1, <3>2, <4>1 DEF AfterResolving, CheckTypes, Steps
    <3>3. CASE ~(pos < NumVars) /\ AnyChange(ch) /\ ~DryRun
      BY <1>0, <2>5, <3>1, <3>3, ValuesAreNats DEF AfterResolving, CheckTypes, Steps
    <3>4. CASE ~(pos < NumVars) /\ ~(AnyChange(ch) /\ ~DryRun)
      BY <2>1, <2>5, <3>4 DEF AfterResolving
    <3> QED
      BY <3>2, <3>3, <3>4
  <2>6. ASSUME NEW v \in Vars, Resolve(v) PROVE CheckTypes'
    <3>1. Wanted(v, latest[v]) \in Values
      BY <1>0, ValuesAreNats DEF Wanted, NomadTypes
    <3>2. [changes EXCEPT ![v] = Wanted(v, latest[v])] \in [Vars -> Values]
      BY <1>0, <3>1 DEF CheckTypes
    <3> QED
      BY <2>5, <2>6, <3>2 DEF Resolve
  <2>7. ASSUME NEW v \in Vars, ResolveFails(v) PROVE CheckTypes'
    BY <1>0, <2>5, <2>7 DEF ResolveFails, CheckTypes
  <2>8. CASE ReadDeployment
    <3>1. CASE ~deploying
      <4>1. step = "deployment" /\ step' = "register" /\ UNCHANGED <<job, read, pos, changes>>
        BY <2>8, <3>1 DEF ReadDeployment
      <4> QED
        BY <1>0, <1>2, <4>1 DEF CheckTypes, Steps
    <3> QED
      BY <2>1, <2>8, <3>1 DEF ReadDeployment
  <2>9. CASE Register \/ Respond
    <3>1. /\ step \in {"register", "respond"} /\ step' \in {"respond", "record"}
          /\ UNCHANGED <<job, read, pos, changes>>
      BY <2>9 DEF Register, Respond
    <3> QED
      BY <1>0, <1>2, <3>1 DEF CheckTypes, Steps
  <2>10. CASE Record
    <3>1. CASE pos < NumVars
      <4>1. pos + 1 \in Vars
        BY <1>0, <3>1, UpdaterAssumption DEF CheckTypes, Vars
      <4>2. pos' = pos + 1 /\ UNCHANGED <<step, job, read, changes>>
        BY <2>10, <3>1 DEF Record
      <4> QED
        BY <1>0, <1>2, <4>1, <4>2 DEF CheckTypes
    <3>2. CASE ~(pos < NumVars)
      BY <2>1, <2>10, <3>2 DEF Record
    <3> QED
      BY <3>1, <3>2
  <2> QED
    BY <2>1, <2>2, <2>3, <2>4, <2>6, <2>7, <2>8, <2>9, <2>10
       DEF Next, Check, Environment, Discover, LoseResponse, Fail, Crash, Restart, Publish, Withdraw,
           DeploymentSucceeds, DeploymentFails, OperatorRegisters, vars
<1>5. ProcessTypes'
  <2>1. CASE Discover
    <3>1. Current.meta \in Metas
      BY <1>0, CurrentVersion, VersionFields
    <3> QED
      BY <1>0, <2>1, <3>1 DEF Discover, ProcessTypes, cacheVars, Metas
  <2>2. CASE Record
    <3>1. Recorded \in [Vars -> Values]
      BY <1>0 DEF Recorded, CheckTypes, ProcessTypes
    <3>2. cache' = Recorded /\ disk' \in {cache', disk} /\ UNCHANGED <<up, known>>
      BY <2>2 DEF Record, Saved
    <3> QED
      BY <1>0, <3>1, <3>2 DEF ProcessTypes
  <2>3. CASE Crash \/ Restart
    <3>1. Unset \in [Vars -> Values]
      BY ValuesAreNats DEF Unset
    <3>2. /\ up' \in BOOLEAN /\ known' \in {known, {}}
          /\ cache' \in {disk, Unset} /\ disk' = disk
      BY <2>3 DEF Crash, Restart
    <3> QED
      BY <1>0, <3>1, <3>2 DEF ProcessTypes, Metas
  <2>4. CASE UNCHANGED <<up, known, cacheVars>>
    BY <1>0, <2>4 DEF ProcessTypes, cacheVars
  <2> QED
    BY <2>1, <2>2, <2>3, <2>4
       DEF Next, Check, Environment, StartCheck, ReadSubmission, Resolve, ResolveFails,
           ReadDeployment, Register, Respond, LoseResponse, Fail, Publish, Withdraw,
           DeploymentSucceeds, DeploymentFails, OperatorRegisters, vars
<1> QED
  BY <1>3, <1>4, <1>5 DEF TypeOK, NomadTypes, CheckTypes, ProcessTypes

\* The program starts in the types.
LEMMA InitTypes == Init => TypeOK
<1> SUFFICES ASSUME Init PROVE TypeOK
  OBVIOUS
<1>1. PICK src \in OptedIn \cap Retained, stamp \in Stamps :
        versions = <<[src |-> src, flags |-> [v \in Vars |-> 1],
                      meta |-> SrcMeta(src) \cup stamp, by |-> "operator", from |-> 0]>>
  BY DEF Init
<1>2. 1 \in Releases
  BY UpdaterAssumption DEF Releases
<1> DEFINE m == SrcMeta(src) \cup stamp
           x == [src |-> src, flags |-> [v \in Vars |-> 1],
                 meta |-> m, by |-> "operator", from |-> 0]
<1>9. m \in Metas
  BY DEF SrcMeta, Metas, Stamps
<1> HIDE DEF m
<1>3. x \in Versions
  BY <1>9, <1>2, UpdaterAssumption DEF Versions, Authors, Values
<1> HIDE DEF x
<1>4. versions \in Seq(Versions) /\ Len(versions) = 1
  BY <1>1, <1>3 DEF x, m
<1>5. Unset \in [Vars -> Values] /\ 1 \in Vars
  BY ValuesAreNats DEF Unset
<1>6. NomadTypes
  <2>1. latest = [v \in Vars |-> 1] /\ stable = 1 /\ deploying = FALSE
    BY DEF Init
  <2>2. stable \in 1 .. Len(versions)
    BY <1>4, <2>1
  <2>3. latest \in [Vars -> Releases]
    BY <1>2, <2>1
  <2> QED
    BY <1>4, <2>1, <2>2, <2>3 DEF NomadTypes
<1>7. CheckTypes
  BY <1>4, <1>5 DEF Init, CheckTypes, Steps, Metas
<1>8. ProcessTypes
  BY <1>5 DEF Init, ProcessTypes, Metas
<1> QED
  BY <1>6, <1>7, <1>8, TypesTogether

\* The types hold in every state.
THEOREM TypeCorrect == Spec => []TypeOK
<1>1. TypeOK /\ [Next]_vars => TypeOK'
  BY StepTypes
<1> QED
  BY <1>1, InitTypes, PTL DEF Spec

\* Versions are never changed or removed.
LEMMA VersionsStay ==
    ASSUME TypeOK, [Next]_vars
    PROVE  \A n \in 1 .. Len(versions) : n \in 1 .. Len(versions') /\ versions'[n] = versions[n]
<1>1. versions \in Seq(Versions)
  BY DEF TypeOK
<1>2. CASE versions' = versions
  BY <1>2
<1>3. CASE versions' # versions
  <2>1. PICK x \in Versions : versions' = Append(versions, x)
    BY <1>3, Registered
  <2> QED
    BY <1>1, <2>1, Appending
<1> QED
  BY <1>2, <1>3

----------------------------------------------------------------------------
(* Meta                                                                    *)

\* m is the meta of an opted-in version, one of the first n.
IsListed(m, n) ==
    \E i \in 1 .. n : "auto" \in versions[i].meta /\ m = versions[i].meta

\* What the scheduler knows of the job was listed, and what a check was given,
\* too; and that before the check read the job.
MetaKnown ==
    /\ known # {} => IsListed(known, Len(versions))
    /\ step # "idle" => IsListed(job, Len(versions))
    /\ step \notin {"idle", "reading"} => IsListed(job, read)

\* An update was made from a version before it.
UpdatesFrom ==
    \A n \in 1 .. Len(versions) :
        versions[n].by = "updater" => versions[n].from \in 1 .. Len(versions)

MetaInv == MetaKnown /\ UpdatesFrom /\ MetaListed

\* What was listed stays so.
LEMMA ListedStays ==
    ASSUME TypeOK, [Next]_vars, NEW m, NEW n \in 0 .. Len(versions), IsListed(m, n)
    PROVE  \E i \in 1 .. n : /\ i \in 1 .. Len(versions')
                            /\ "auto" \in versions'[i].meta
                            /\ m = versions'[i].meta
<1>1. PICK i \in 1 .. n : "auto" \in versions[i].meta /\ m = versions[i].meta
  BY DEF IsListed
<1>2. versions \in Seq(Versions) /\ i \in 1 .. Len(versions)
  BY DEF TypeOK
<1>3. i \in 1 .. Len(versions') /\ versions'[i] = versions[i]
  BY <1>2, VersionsStay
<1> QED
  BY <1>1, <1>3

\* The check's copy of the meta stays one that was listed before it read the job.
LEMMA StepMetaKnown ==
    ASSUME TypeOK, MetaKnown, [Next]_vars
    PROVE  MetaKnown'
<1>0. NomadTypes /\ CheckTypes /\ ProcessTypes
  BY TypesTogether
<1>1. Len(versions) \in 0 .. Len(versions) /\ Len(versions) \in 1 .. Len(versions)
  BY <1>0, CurrentVersion
<1>2. known # {} => \E i \in 1 .. Len(versions') :
                       "auto" \in versions'[i].meta /\ known = versions'[i].meta
  BY <1>1, ListedStays DEF MetaKnown
<1>3. step # "idle" => /\ \E i \in 1 .. Len(versions') :
                            "auto" \in versions'[i].meta /\ job = versions'[i].meta
                       /\ \E i \in 1 .. Len(versions) :
                            "auto" \in versions'[i].meta /\ job = versions'[i].meta
  BY <1>1, ListedStays DEF MetaKnown
<1>4. step \notin {"idle", "reading"} => \E i \in 1 .. read :
                       "auto" \in versions'[i].meta /\ job = versions'[i].meta
  BY <1>0, ListedStays DEF MetaKnown, CheckTypes
<1>5. CASE Discover
  <2>1. /\ versions' = versions /\ UNCHANGED <<step, job, read>>
        /\ known' = {} \/ ("auto" \in Current.meta /\ known' = Current.meta)
    BY <1>5 DEF Discover, nomadVars, checkVars
  <2>2. known' # {} => \E i \in 1 .. Len(versions') :
                         "auto" \in versions'[i].meta /\ known' = versions'[i].meta
    BY <1>1, <2>1 DEF Current
  <2> QED
    BY <1>3, <1>4, <2>1, <2>2 DEF MetaKnown, IsListed
<1>6. CASE StartCheck
  <2>1. known # {} /\ job' = known /\ known' = known /\ step' = "reading"
    BY <1>6 DEF StartCheck
  <2> QED
    BY <1>2, <2>1 DEF MetaKnown, IsListed
<1>7. CASE ReadSubmission /\ ~EndCheck
  <2>1. /\ step = "reading" /\ read' = Len(versions) /\ versions' = versions
        /\ UNCHANGED <<known, job>>
    BY <1>7 DEF ReadSubmission, nomadVars
  <2> QED
    BY <1>2, <1>3, <2>1 DEF MetaKnown, IsListed
<1>8. CASE EndCheck /\ known' \in {known, {}}
  BY <1>2, <1>8 DEF EndCheck, MetaKnown, IsListed
<1>9. CASE /\ UNCHANGED <<known, job, read>>
           /\ \/ step' = step
              \/ step \notin {"idle", "reading"}
  BY <1>2, <1>3, <1>4, <1>9 DEF MetaKnown, IsListed
<1> QED
  BY <1>5, <1>6, <1>7, <1>8, <1>9
     DEF Next, Check, Environment, ReadSubmission, Resolve, ResolveFails, AfterResolving,
         ReadDeployment, Register, Respond, LoseResponse, Record, Fail, Crash, Restart,
         Publish, Withdraw, DeploymentSucceeds, DeploymentFails, OperatorRegisters, vars,
         checkVars

\* A version that is registered keeps what is said of all versions.
LEMMA StepMeta ==
    ASSUME TypeOK, MetaInv, [Next]_vars
    PROVE  MetaInv'
<1> USE DEF MetaInv
<1>0. NomadTypes /\ CheckTypes /\ ProcessTypes
  BY TypesTogether
<1>1. MetaKnown'
  BY StepMetaKnown
<1>2. CASE versions' = versions
  BY <1>1, <1>2 DEF UpdatesFrom, MetaListed
<1>3. CASE versions' # versions
  <2>1. PICK x \in Versions :
           /\ versions' = Append(versions, x)
           /\ (x = Rendered /\ step = "register") \/ x.by # "updater"
    BY <1>3, Registered
  <2>2. /\ Len(versions') = Len(versions) + 1 /\ Len(versions) \in Nat
        /\ versions'[Len(versions) + 1] = x
        /\ \A n \in 1 .. Len(versions) : versions'[n] = versions[n]
    BY <1>0, <2>1, Appending DEF NomadTypes
  <2>3. ASSUME x.by = "updater"
        PROVE  /\ x.from \in 1 .. Len(versions)
               /\ \E i \in 1 .. x.from : /\ "auto" \in versions'[i].meta
                                         /\ x.meta = SrcMeta(x.src) \cup versions'[i].meta
    <3>1. /\ x.from = read /\ read \in 1 .. Len(versions)
          /\ x.meta = SrcMeta(x.src) \cup job
      BY <1>0, <2>1, <2>3, RenderedVersion DEF CheckTypes, NomadTypes, Carried
    <3>2. \E i \in 1 .. read : "auto" \in versions[i].meta /\ job = versions[i].meta
      BY <2>1, <2>3 DEF MetaKnown, IsListed
    <3> QED
      BY <2>2, <3>1, <3>2
  <2>4. ASSUME NEW n \in 1 .. Len(versions), versions[n].by = "updater"
        PROVE  /\ versions[n].from \in 1 .. Len(versions)
               /\ \E i \in 1 .. versions[n].from :
                    /\ "auto" \in versions'[i].meta
                    /\ versions[n].meta = SrcMeta(versions[n].src) \cup versions'[i].meta
    BY <2>2, <2>4 DEF UpdatesFrom, MetaListed
  <2>5. UpdatesFrom'
    BY <2>2, <2>3, <2>4 DEF UpdatesFrom
  <2>6. MetaListed'
    BY <2>2, <2>3, <2>4 DEF MetaListed
  <2> QED
    BY <1>1, <2>5, <2>6
<1> QED
  BY <1>2, <1>3

\* Every update carries the meta of one version, listed no later than the version
\* it replaces, for any number of variables, versions and sources: whoever acts,
\* with what meta, and whatever fails.
THEOREM MetaCorrect == Spec => []MetaListed
<1>1. Init => MetaInv
  BY DEF Init, MetaInv, MetaKnown, UpdatesFrom, MetaListed
<1>2. TypeOK /\ MetaInv /\ [Next]_vars => MetaInv'
  BY StepMeta
<1>3. MetaInv => MetaListed
  BY DEF MetaInv
<1> QED
  BY <1>1, <1>2, <1>3, TypeCorrect, PTL DEF Spec

----------------------------------------------------------------------------
(* Rollouts                                                                *)

\* A rollout under a check that is about to register was set off while the check
\* was under way, by the operator or in the wake of it.
RolloutIsOperators ==
    step = "register" /\ deploying => \E n \in 1 .. Len(versions) : OperatorsSince(n)

\* What the operator has registered since the check's read stays registered.
LEMMA SinceStays ==
    ASSUME TypeOK, [Next]_vars, read' = read,
           \E n \in 1 .. Len(versions) : OperatorsSince(n)
    PROVE  \E n \in 1 .. Len(versions') : OperatorsSince(n)'
BY VersionsStay DEF OperatorsSince

LEMMA StepRollout ==
    ASSUME TypeOK, RolloutIsOperators, [Next]_vars
    PROVE  /\ RolloutIsOperators'
           /\ [Len(versions') > Len(versions) /\ versions'[Len(versions')].by = "updater"
                 /\ deploying => \E n \in 1 .. Len(versions) : OperatorsSince(n)]_vars
<1>0. NomadTypes /\ CheckTypes /\ ProcessTypes
  BY TypesTogether
<1>1. RolloutIsOperators'
  <2>1. CASE ReadDeployment
    BY <2>1 DEF ReadDeployment, EndCheck, RolloutIsOperators, nomadVars
  <2>2. CASE step' # "register" \/ deploying' = FALSE
    BY <2>2 DEF RolloutIsOperators
  <2>3. CASE step' = step /\ read' = read /\ deploying' = deploying
    BY <2>3, SinceStays DEF RolloutIsOperators
  <2>4. CASE OperatorRegisters
    <3>1. PICK x : versions' = Append(versions, x) /\ x.by = "operator"
      BY <2>4 DEF OperatorRegisters
    <3>2. /\ Len(versions') = Len(versions) + 1 /\ Len(versions) \in Nat
          /\ versions'[Len(versions) + 1].by = "operator"
      BY <1>0, <3>1 DEF NomadTypes
    <3>3. read' = read /\ read \in 0 .. Len(versions)
      BY <1>0, <2>4 DEF OperatorRegisters, checkVars, CheckTypes
    <3> QED
      BY <3>2, <3>3 DEF RolloutIsOperators, OperatorsSince
  <2> QED
    BY <2>1, <2>2, <2>3, <2>4
       DEF Next, Check, Environment, Discover, StartCheck, ReadSubmission, Resolve,
           ResolveFails, AfterResolving, Register, Respond, LoseResponse, Record, Fail,
           Crash, Restart, Publish, Withdraw, DeploymentSucceeds, DeploymentFails,
           EndCheck, vars, checkVars, nomadVars
<1>2. ASSUME Len(versions') > Len(versions), versions'[Len(versions')].by = "updater", deploying
      PROVE  \E n \in 1 .. Len(versions) : OperatorsSince(n)
  <2>1. versions' # versions /\ versions \in Seq(Versions)
    BY <1>2 DEF TypeOK
  <2>2. PICK x \in Versions :
          /\ versions' = Append(versions, x)
          /\ \/ step = "register"
             \/ x.by = "nomad"
             \/ x.by = "operator"
    BY <2>1, Registered
  <2>3. versions'[Len(versions')] = x
    BY <2>1, <2>2, Appending
  <2> QED
    BY <1>2, <2>2, <2>3 DEF RolloutIsOperators
<1> QED
  BY <1>1, <1>2

\* An update comes into a rollout only when the operator has registered a version
\* during its check, for any number of variables, versions and sources.
THEOREM OnlyOperatorInterrupted == Spec => InterruptsOnlyOperator
<1>1. Init => RolloutIsOperators
  BY DEF Init, RolloutIsOperators
<1>2. TypeOK /\ RolloutIsOperators /\ [Next]_vars
        => /\ RolloutIsOperators'
           /\ [Len(versions') > Len(versions) /\ versions'[Len(versions')].by = "updater"
                 /\ deploying => \E n \in 1 .. Len(versions) : OperatorsSince(n)]_vars
  BY StepRollout
<1> QED
  BY <1>1, <1>2, TypeCorrect, PTL DEF Spec, InterruptsOnlyOperator
=============================================================================
