------------------------- MODULE SnapdragonSmoke_proofs ------------------------
(***************************************************************************)
(* The package pipeline and the smoke test's verdict, for every set of     *)
(* package files, any number of revisions, and any lines of other apps.    *)
(***************************************************************************)
EXTENDS SnapdragonSmoke, TLAPS

--------------------------------------------------------------------------------
(***************************************************************************)
(* The pipeline.                                                           *)
(***************************************************************************)
LEMMA PkgInitInv == Init => PkgInv
<1>. SUFFICES ASSUME Init PROVE PkgInv
  OBVIOUS
<1>1. /\ MaxRev \in Nat \ {0} /\ 0 \in Revs /\ 1 \in 1 .. MaxRev
  BY PkgAssumption DEF Revs
<1>2. \A f \in Items : pkg[f] = 0
  BY DEF Init, Nothing
<1>3. TypeOK
  BY <1>1 DEF Init, TypeOK, Nothing
<1>. QED BY <1>2, <1>3 DEF Init, PkgInv, PackageIsBuilt, DeviceIsOneBuild, CompleteBuildPasses

\* The package after some of the products were installed.
LEMMA InstalledSome ==
  ASSUME PkgInv, NEW some \in SUBSET Items,
         pkg' = [f \in Items |-> IF f \in some THEN built ELSE pkg[f]]
  PROVE  pkg' \in [Items -> Revs] /\ \A f \in Items : pkg'[f] <= built
BY PkgAssumption DEF PkgInv, TypeOK, PackageIsBuilt, Revs

LEMMA PkgStep == PkgInv /\ [Next]_vars => PkgInv'
<1>. SUFFICES ASSUME PkgInv, [Next]_vars PROVE PkgInv'
  OBVIOUS
<1>0. /\ MaxRev \in Nat /\ rev \in Nat /\ built \in Nat /\ completed \in Nat
      /\ \A f \in Items : pkg[f] \in Nat /\ dev[f] \in Nat
      /\ Products \subseteq Items /\ Items \ {OpenclLib} \subseteq Products
  BY PkgAssumption DEF PkgInv, TypeOK, Revs, Products
<1>1. CASE EditSource
  <2>1. TypeOK' /\ built' <= rev' /\ pc' = "idle"
    <3>1. opencl' \in BOOLEAN
      BY <1>1 DEF EditSource, PkgInv, TypeOK
    <3>2. rev' \in 1 .. MaxRev /\ built' <= rev' /\ pc' = "idle"
      BY <1>0, <1>1 DEF EditSource, PkgInv, TypeOK, buildVars
    <3>. QED BY <1>1, <3>1, <3>2 DEF EditSource, PkgInv, TypeOK, buildVars, installVars
  <2>. QED BY <1>1, <2>1 DEF EditSource, PkgInv, PackageIsBuilt, DeviceIsOneBuild,
             CompleteBuildPasses, Products, buildVars, installVars
<1>2. CASE StartBuild
  <2>1. TypeOK'
    BY <1>0, <1>2 DEF StartBuild, PkgInv, TypeOK, Revs, installVars
  <2>. QED BY <1>2, <2>1 DEF StartBuild, PkgInv, PackageIsBuilt, DeviceIsOneBuild,
             CompleteBuildPasses, Products, installVars
<1>3. CASE StopBuild
  <2>1. pkg' \in [Items -> Revs] /\ \A f \in Items : pkg'[f] <= built
    BY <1>0, <1>3, InstalledSome DEF StopBuild, PkgInv, TypeOK, PackageIsBuilt
  <2>2. TypeOK'
    BY <1>3, <2>1 DEF StopBuild, PkgInv, TypeOK, Revs, installVars
  <2>. QED BY <1>3, <2>1, <2>2 DEF StopBuild, PkgInv, PackageIsBuilt, DeviceIsOneBuild,
             CompleteBuildPasses, installVars
<1>4. CASE Configure
  <2>1. TypeOK'
    BY <1>4 DEF Configure, PkgInv, TypeOK, Revs, installVars
  <2>. QED BY <1>4, <2>1 DEF Configure, PkgInv, PackageIsBuilt, DeviceIsOneBuild,
             CompleteBuildPasses, installVars
<1>5. CASE Build
  <2>1. TypeOK'
    BY <1>0, <1>5 DEF Build, PkgInv, TypeOK, Revs, installVars
  <2>2. \A f \in Items : pkg'[f] <= built'
    BY <1>0, <1>5 DEF Build, PkgInv, PackageIsBuilt
  <2>3. completed' = 0 /\ checked' = "none" /\ pc' = "install" /\ built' = rev'
    BY <1>5 DEF Build, PkgInv
  <2>4. DeviceIsOneBuild'
    BY <1>5 DEF Build, PkgInv, DeviceIsOneBuild, installVars
  <2>. QED BY <1>0, <2>1, <2>2, <2>3, <2>4, <1>5 DEF Build, PkgInv, PackageIsBuilt, CompleteBuildPasses
<1>6. CASE InstallPrefix
  <2>1. pkg' \in [Items -> Revs] /\ \A f \in Items : pkg'[f] <= built
    BY <1>0, <1>6, InstalledSome DEF InstallPrefix
  <2>2. TypeOK'
    BY <1>6, <2>1 DEF InstallPrefix, PkgInv, TypeOK, Revs, installVars
  <2>3. \A f \in Products' : pkg'[f] = built'
    BY <1>0, <1>6 DEF InstallPrefix, Products
  <2>. QED BY <1>6, <2>1, <2>2, <2>3 DEF InstallPrefix, PkgInv, PackageIsBuilt,
             DeviceIsOneBuild, CompleteBuildPasses, installVars
<1>7. CASE CopyWrappers
  <2>1. TypeOK'
    BY <1>0, <1>7 DEF CopyWrappers, PkgInv, TypeOK, Revs, installVars
  <2>2. PackageIsBuilt'
    BY <1>7 DEF CopyWrappers, PkgInv, PackageIsBuilt, Products
  <2>. QED BY <1>7, <2>1, <2>2 DEF CopyWrappers, PkgInv, DeviceIsOneBuild,
             CompleteBuildPasses, installVars
<1>8. CASE CheckPackage
  <2>1. TypeOK'
    BY <1>8 DEF CheckPackage, PkgInv, TypeOK, Revs, installVars
  <2>2. CompleteBuildPasses'
    BY <1>0, <1>8 DEF CheckPackage, PkgInv, PackageIsBuilt, CompleteBuildPasses, Products
  <2>. QED BY <1>8, <2>1, <2>2 DEF CheckPackage, PkgInv, PackageIsBuilt, DeviceIsOneBuild,
             Products, installVars
<1>9. CASE InstallOnDevice
  <2>. DEFINE present == {f \in Items : pkg[f] # 0}
  <2>1. PICK moved \in SUBSET present :
          /\ dev' = [f \in Items |-> IF f \in moved THEN pkg[f] ELSE dev[f]]
          /\ delivered' = IF moved = present THEN completed ELSE 0
    BY <1>9 DEF InstallOnDevice
  <2>2. verified' \in {"PASS", "FAIL"}
    BY <1>9 DEF InstallOnDevice, VerifyExit
  <2>3. dev' \in [Items -> Revs] /\ delivered' \in Revs
    BY <1>0, <2>1 DEF PkgInv, TypeOK, Revs
  <2>4. TypeOK'
    BY <1>9, <2>2, <2>3 DEF InstallOnDevice, PkgInv, TypeOK, Revs, buildVars
  <2>5. ASSUME delivered' # 0, NEW f \in Items \ {OpenclLib} PROVE dev'[f] = delivered'
    <3>1. moved = present /\ delivered' = completed
      BY <2>1, <2>5
    <3>2. pkg[f] = completed
      BY <1>0, <2>5, <3>1 DEF PkgInv, PackageIsBuilt
    <3>. QED BY <2>1, <2>5, <3>1, <3>2
  <2>. QED BY <1>9, <2>4, <2>5 DEF InstallOnDevice, PkgInv, PackageIsBuilt, DeviceIsOneBuild,
             CompleteBuildPasses, Products, buildVars
<1>10. CASE UNCHANGED vars
  BY <1>10 DEF vars, buildVars, installVars, PkgInv, TypeOK, Revs, PackageIsBuilt,
     DeviceIsOneBuild, CompleteBuildPasses, Products
<1>. QED BY <1>1, <1>2, <1>3, <1>4, <1>5, <1>6, <1>7, <1>8, <1>9, <1>10 DEF Next

\* With the smoke test run beside it the pipeline is still the pipeline.
THEOREM SmokeIsPipeline == SmokeSpec => Spec
<1>1. SmokeInit => Init
  BY DEF SmokeInit
<1>2. [SmokeNext]_<<pkgVars, smokeVars>> => [Next]_vars
  BY DEF SmokeNext, SmokeStart, SmokeRun, SmokeReport, SmokeEnd, OtherAppLogs, pkgVars, vars
<1>. QED BY <1>1, <1>2, PTL DEF SmokeSpec, Spec

\* Whatever builds, installs and smoke tests went before, and however they failed:
\* a package holds only what was built to the end,
THEOREM Packages == SmokeSpec => []PackageIsBuilt
<1>1. PkgInv => PackageIsBuilt
  BY DEF PkgInv
<1>. QED BY SmokeIsPipeline, PkgInitInv, PkgStep, <1>1, PTL DEF Spec

\* a whole push of a completed build leaves only that build on the device,
THEOREM Devices == SmokeSpec => []DeviceIsOneBuild
<1>1. PkgInv => DeviceIsOneBuild
  BY DEF PkgInv
<1>. QED BY SmokeIsPipeline, PkgInitInv, PkgStep, <1>1, PTL DEF Spec

\* and a completed build passes the check when OpenCL is in it.
THEOREM Checks == SmokeSpec => []CompleteBuildPasses
<1>1. PkgInv => CompleteBuildPasses
  BY DEF PkgInv
<1>. QED BY SmokeIsPipeline, PkgInitInv, PkgStep, <1>1, PTL DEF Spec

--------------------------------------------------------------------------------
(***************************************************************************)
(* The smoke test.                                                         *)
(***************************************************************************)
\* The first layer count is the run's own when it printed one, whatever logcat holds.
LEMMA OwnCountFirst ==
  ASSUME NEW own \in RunOutputs, NEW cat, NEW r \in BuildFields(own, cat)
  PROVE  /\ r.fallback \in {"YES", "NO", "UNKNOWN"}
         /\ "offloaded N" \in own => r.raw = "offloaded N"
         /\ "offloaded 0" \in own => r.raw = "offloaded 0" /\ r.fallback = "YES"
         /\ r.perf = ("perf" \in own)
<1>1. PICK raw \in IF DetectOffload(own, cat) = {} THEN {"NOT_FOUND"} ELSE DetectOffload(own, cat) :
        r = [offload |-> OffloadDetected(raw), raw |-> raw,
             fallback |-> CpuFallback(own \cup cat, raw), perf |-> "perf" \in own]
  BY DEF BuildFields
<1>2. r.raw = raw /\ r.fallback = CpuFallback(own \cup cat, raw) /\ r.perf = ("perf" \in own)
  BY <1>1
<1>3. r.fallback \in {"YES", "NO", "UNKNOWN"}
  BY <1>2 DEF CpuFallback
<1>4. ASSUME "offloaded N" \in own PROVE raw = "offloaded N"
  <2>1. own \cap {"offloaded N", "offloaded 0"} = {"offloaded N"}
    BY <1>4 DEF RunOutputs, HtpOutputs, ZeroOutputs
  <2>2. DetectOffload(own, cat) = {"offloaded N"}
    BY <2>1 DEF DetectOffload
  <2>. QED BY <1>1, <2>2
<1>5. ASSUME "offloaded 0" \in own PROVE raw = "offloaded 0"
  <2>1. own \cap {"offloaded N", "offloaded 0"} = {"offloaded 0"}
    BY <1>5 DEF RunOutputs, HtpOutputs, ZeroOutputs
  <2>2. DetectOffload(own, cat) = {"offloaded 0"}
    BY <2>1 DEF DetectOffload
  <2>. QED BY <1>1, <2>2
<1>6. "offloaded 0" \in own => r.fallback = "YES"
  BY <1>2, <1>5 DEF CpuFallback
<1>. QED BY <1>2, <1>3, <1>4, <1>5, <1>6

\* Without foreign lines "no fallback" is what the run itself printed.
LEMMA NoFallbackIsOwn ==
  ASSUME NEW own \in RunOutputs, NEW cat \in SUBSET own, NEW r \in BuildFields(own, cat),
         r.fallback = "NO"
  PROVE  /\ "init" \in own /\ "offloaded 0" \notin own
         /\ {"offloaded N", "buffer"} \cap own # {}
<1>1. PICK raw \in IF DetectOffload(own, cat) = {} THEN {"NOT_FOUND"} ELSE DetectOffload(own, cat) :
        r = [offload |-> OffloadDetected(raw), raw |-> raw,
             fallback |-> CpuFallback(own \cup cat, raw), perf |-> "perf" \in own]
  BY DEF BuildFields
<1>2. CpuFallback(own, raw) = "NO"
  <2>1. own \cup cat = own
    OBVIOUS
  <2>. QED BY <1>1, <2>1
<1>3. "init" \in own /\ OffloadDetected(raw) = "YES" /\ raw # "offloaded 0"
  BY <1>2 DEF CpuFallback
<1>4. raw \in DetectOffload(own, cat)
  BY <1>1, <1>3 DEF OffloadDetected
<1>5. raw \in own \cap {"offloaded N", "offloaded 0", "buffer"}
  BY <1>4 DEF DetectOffload
<1>6. "offloaded 0" \notin own
  BY OwnCountFirst
<1>. QED BY <1>3, <1>5, <1>6

\* Before there is a report nothing is claimed.
LEMMA NoClaim ==
  /\ step # "report" => OwnLogDecides
  /\ (step # "report" => OwnLogDecides)'
  /\ NoReport.fallback = "UNKNOWN"
BY DEF OwnLogDecides, NoReport

LEMMA SmokeInitInv == SmokeInit => SmokeInv
BY PkgInitInv, NoClaim DEF SmokeInit, SmokeInv, SmokeTypeOK, NoFallbackMeansHtp

LEMMA SmokeStep == SmokeInv /\ [SmokeNext]_<<pkgVars, smokeVars>> => SmokeInv'
<1>. SUFFICES ASSUME SmokeInv, [SmokeNext]_<<pkgVars, smokeVars>> PROVE SmokeInv'
  OBVIOUS
<1>0. PkgInv'
  <2>1. [Next]_vars
    BY DEF SmokeNext, SmokeStart, SmokeRun, SmokeReport, SmokeEnd, OtherAppLogs, pkgVars, vars
  <2>. QED BY <2>1, PkgStep DEF SmokeInv
<1>1. CASE step = "idle" /\ Next /\ UNCHANGED smokeVars
  BY <1>0, <1>1, NoClaim DEF smokeVars, SmokeInv, SmokeTypeOK, NoFallbackMeansHtp
<1>2. CASE SmokeStart
  BY <1>0, <1>2, NoClaim DEF SmokeStart, SmokeInv, SmokeTypeOK, NoFallbackMeansHtp
<1>3. CASE SmokeRun
  <2>1. smokeLog' \in RunOutputs /\ ("init" \in smokeLog' => dev[Cli] # 0 /\ dev[Hexagon] # 0)
    <3>1. CASE ~atBin \/ dev[Cli] = 0
      <4>1. smokeLog' \in {{}, {"no such file"}}
        BY <1>3, <3>1 DEF SmokeRun
      <4>. QED BY <4>1 DEF RunOutputs, HtpOutputs
    <3>2. CASE atBin /\ dev[Cli] # 0 /\ dev[Hexagon] = 0
      <4>1. smokeLog' \in {{}, {"no device"}}
        BY <1>3, <3>2 DEF SmokeRun
      <4>. QED BY <4>1 DEF RunOutputs, HtpOutputs
    <3>3. CASE atBin /\ dev[Cli] # 0 /\ dev[Hexagon] # 0
      BY <1>3, <3>3 DEF SmokeRun, RunOutputs
    <3>. QED BY <3>1, <3>2, <3>3 DEF SmokeInv, SmokeTypeOK
  <2>2. ~foreign => logcat' \subseteq smokeLog'
    BY <1>3 DEF SmokeRun, SmokeInv
  <2>3. logcat' \subseteq AppLines \cup {"init"}
    BY <1>3 DEF SmokeRun, SmokeInv, SmokeTypeOK
  <2>4. dev' = dev
    BY <1>3 DEF SmokeRun, pkgVars, installVars
  <2>. QED BY <1>0, <1>3, <2>1, <2>2, <2>3, <2>4, NoClaim
       DEF SmokeRun, SmokeInv, SmokeTypeOK, NoFallbackMeansHtp
<1>4. CASE SmokeReport
  <2>1. PICK cat \in {{}, logcat} : report' \in BuildFields(smokeLog, cat)
    BY <1>4 DEF SmokeReport
  <2>2. smokeLog \in RunOutputs /\ ("init" \in smokeLog => dev[Cli] # 0 /\ dev[Hexagon] # 0)
    BY <1>4 DEF SmokeReport, SmokeInv
  <2>3. dev' = dev /\ smokeLog' = smokeLog /\ foreign' = foreign /\ step' = "report" /\ logcat' = logcat
    BY <1>4 DEF SmokeReport, pkgVars, installVars
  <2>4. OwnLogDecides' /\ report'.fallback \in {"YES", "NO", "UNKNOWN"}
    <3>1. /\ report'.fallback \in {"YES", "NO", "UNKNOWN"}
          /\ "offloaded N" \in smokeLog => report'.raw = "offloaded N"
          /\ "offloaded 0" \in smokeLog => report'.raw = "offloaded 0" /\ report'.fallback = "YES"
          /\ report'.perf = ("perf" \in smokeLog)
      BY <2>1, <2>2, OwnCountFirst
    <3>. QED BY <2>3, <3>1, Zenon DEF OwnLogDecides
  <2>5. NoFallbackMeansHtp'
    <3>. SUFFICES ASSUME report'.fallback = "NO", ~foreign
                  PROVE  /\ dev[Cli] # 0 /\ dev[Hexagon] # 0
                         /\ "init" \in smokeLog /\ "offloaded 0" \notin smokeLog
                         /\ {"offloaded N", "buffer"} \cap smokeLog # {}
      BY <2>3 DEF NoFallbackMeansHtp
    <3>1. cat \in SUBSET smokeLog
      BY <1>4, <2>1 DEF SmokeReport, SmokeInv
    <3>. QED BY <2>1, <2>2, <3>1, NoFallbackIsOwn
  <2>. QED BY <1>0, <1>4, <2>2, <2>3, <2>4, <2>5 DEF SmokeReport, SmokeInv, SmokeTypeOK
<1>5. CASE SmokeEnd
  BY <1>0, <1>5, NoClaim DEF SmokeEnd, SmokeInv, SmokeTypeOK, NoFallbackMeansHtp
<1>6. CASE OtherAppLogs
  <2>1. dev' = dev
    BY <1>6 DEF OtherAppLogs, pkgVars, installVars
  <2>. QED BY <1>0, <1>6, <2>1
       DEF OtherAppLogs, SmokeInv, SmokeTypeOK, NoFallbackMeansHtp, OwnLogDecides
<1>7. CASE UNCHANGED <<pkgVars, smokeVars>>
  <2>1. dev' = dev
    BY <1>7 DEF pkgVars, installVars
  <2>. QED BY <1>0, <1>7, <2>1
       DEF smokeVars, SmokeInv, SmokeTypeOK, NoFallbackMeansHtp, OwnLogDecides
<1>. QED BY <1>1, <1>2, <1>3, <1>4, <1>5, <1>6, <1>7 DEF SmokeNext

\* SmokeInv holds at every moment of any sequence of pipeline steps and smoke runs.
THEOREM Inductive == SmokeSpec => []SmokeInv
BY SmokeInitInv, SmokeStep, PTL DEF SmokeSpec

\* "No CPU fallback", without lines of others in logcat, is said only of a run that
\* brought the DSP up and gave it layers, on a device with program and library.
THEOREM Verdict == SmokeSpec => []NoFallbackMeansHtp
<1>1. SmokeInv => NoFallbackMeansHtp
  BY DEF SmokeInv
<1>. QED BY Inductive, <1>1, PTL

\* Lines of others never replace what the run printed itself.
THEOREM OwnLog == SmokeSpec => []OwnLogDecides
<1>1. SmokeInv => OwnLogDecides
  BY DEF SmokeInv
<1>. QED BY Inductive, <1>1, PTL
================================================================================
