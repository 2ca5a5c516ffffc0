------------------------------ MODULE SnapdragonPkg -----------------------------
(***************************************************************************)
(* From the llama.cpp checkout to the program on the phone:                *)
(*   build_snapdragon_llamacpp.sh   configure, build, install to a prefix, *)
(*                                  copy the adb wrappers; stops at the    *)
(*                                  first failure                          *)
(*   check_snapdragon_pkg.sh        required files of the package          *)
(*   install_snapdragon_pkg.sh      push, then verify; never stops         *)
(*                                                                         *)
(* Every file carries the revision of the source it was made from, 0 for a *)
(* file that does not exist.  No step removes files: an install prefix and *)
(* a device directory keep what an earlier revision put there.  cmake, cp  *)
(* and adb are external: each may fail half-way.                           *)
(***************************************************************************)
EXTENDS Integers, FiniteSets

CONSTANTS
  Items,     \* REQUIRED_ITEMS: the binaries and libraries of a package
  Verify,    \* VERIFY_PATHS: those the install script looks for on the device
  OpenclLib, \* lib/libggml-opencl.so, built only when the preset says GGML_OPENCL=ON
  MaxRev     \* bound: source revisions

ASSUME PkgAssumption ==
  /\ OpenclLib \in Verify /\ Verify \subseteq Items
  /\ MaxRev \in Nat \ {0}

VARIABLES
  rev,        \* revision of the source tree
  opencl,     \* GGML_OPENCL of the preset in the tree
  pc,         \* the build script: "idle", "configure", "build", "install", "wrap"
  configured, \* GGML_OPENCL the build directory is configured with
  built,      \* revision the build directory was last built from, 0 before
  pkg,        \* $PKG_PREFIX: item -> revision
  wrap,       \* revision of $PKG_PREFIX/scripts/snapdragon
  completed,  \* revision of the last build run that reached its end, 0 after a failed one
  checked,    \* last verdict of the check: "none", "PASS", "FAIL"
  dev,        \* /data/local/tmp/llama.cpp on the device: item -> revision
  delivered,  \* history: revision of the completed build whose package the last
              \* install pushed whole, 0 when there is none
  verified    \* exit of the last install: "none", "PASS", "FAIL"

buildVars   == <<pc, configured, built, pkg, wrap, completed, checked>>
installVars == <<dev, delivered, verified>>
vars == <<rev, opencl, buildVars, installVars>>

Nothing == [f \in Items |-> 0]
Revs    == 0 .. MaxRev

\* What cmake --install installs.
Products == IF configured THEN Items ELSE Items \ {OpenclLib}

--------------------------------------------------------------------------------
\* The upstream preset has OpenCL on.
Init ==
  /\ rev = 1 /\ opencl = TRUE
  /\ pc = "idle" /\ configured = TRUE /\ built = 0
  /\ pkg = Nothing /\ wrap = 0 /\ completed = 0 /\ checked = "none"
  /\ dev = Nothing /\ delivered = 0 /\ verified = "none"

\* Somebody edits the checkout; patch 0001 is the edit that turns OpenCL off.
EditSource ==
  /\ pc = "idle" /\ rev < MaxRev
  /\ rev' = rev + 1
  /\ opencl' \in {opencl, FALSE}
  /\ UNCHANGED <<buildVars, installVars>>

\* build_snapdragon_llamacpp.sh is started: [1/4] copies the preset.
StartBuild ==
  /\ pc = "idle"
  /\ pc' = "configure"
  /\ completed' = 0
  /\ checked' = "none"
  /\ UNCHANGED <<rev, opencl, configured, built, pkg, wrap, installVars>>

\* A step fails, or the build is interrupted: exit 1, there and then.  A failing
\* [4/4] may have installed some of its files.
StopBuild ==
  /\ pc # "idle"
  /\ pc' = "idle"
  /\ \/ UNCHANGED pkg
     \/ /\ pc = "install"
        /\ \E some \in SUBSET Products :
             pkg' = [f \in Items |-> IF f \in some THEN built ELSE pkg[f]]
  /\ UNCHANGED <<rev, opencl, configured, built, wrap, completed, checked, installVars>>

\* [2/4]
Configure ==
  /\ pc = "configure"
  /\ configured' = opencl
  /\ pc' = "build"
  /\ UNCHANGED <<rev, opencl, built, pkg, wrap, completed, checked, installVars>>

\* Mutant of Build: a failed cmake --build does not stop the script.
BuildNoStop ==
  /\ pc = "build"
  /\ built' \in {built, rev}
  /\ pc' = "install"
  /\ UNCHANGED <<rev, opencl, configured, pkg, wrap, completed, checked, installVars>>

\* [3/4]
Build ==
  /\ pc = "build"
  /\ built' = rev
  /\ pc' = "install"
  /\ UNCHANGED <<rev, opencl, configured, pkg, wrap, completed, checked, installVars>>

\* Mutant of InstallPrefix: a failed cmake --install only warns.
InstallNonFatal ==
  /\ pc = "install"
  /\ \E some \in SUBSET Products :
       pkg' = [f \in Items |-> IF f \in some THEN built ELSE pkg[f]]
  /\ pc' = "wrap"
  /\ UNCHANGED <<rev, opencl, configured, built, wrap, completed, checked, installVars>>

\* [4/4]
InstallPrefix ==
  /\ pc = "install"
  /\ pkg' = [f \in Items |-> IF f \in Products THEN built ELSE pkg[f]]
  /\ pc' = "wrap"
  /\ UNCHANGED <<rev, opencl, configured, built, wrap, completed, checked, installVars>>

\* cp -R scripts/snapdragon $PKG_PREFIX/scripts/snapdragon, non-fatal.  When the
\* target exists cp puts the copy inside it, and the old scripts stay in place.
CopyWrappers ==
  /\ pc = "wrap"
  /\ wrap' \in IF wrap = 0 THEN {0, rev} ELSE {wrap}
  /\ pc' = "idle"
  /\ completed' = rev
  /\ UNCHANGED <<rev, opencl, configured, built, pkg, checked, installVars>>

\* check_snapdragon_pkg.sh
CheckPackage ==
  /\ pc = "idle"
  /\ checked' = IF \A f \in Items : pkg[f] # 0 THEN "PASS" ELSE "FAIL"
  /\ UNCHANGED <<rev, opencl, pc, configured, built, pkg, wrap, completed, installVars>>

\* Mutant of VerifyExit: the status of an unanswered query becomes the verdict.
VerifyExitUnknown(d, answered) ==
  IF Verify \subseteq answered
    THEN IF \A f \in Verify : d[f] # 0 THEN "PASS" ELSE "FAIL"
    ELSE "UNKNOWN"

\* VERIFY_MISSING counts every answer other than FOUND; a query that adb does
\* not answer is UNKNOWN.
VerifyExit(d, answered) ==
  IF \A f \in Verify : f \in answered /\ d[f] # 0 THEN "PASS" ELSE "FAIL"

\* Mutant of InstallOnDevice: files the device already has are not pushed again.
InstallMissingOnly ==
  /\ pc = "idle" /\ pkg # Nothing
  /\ LET present == {f \in Items : pkg[f] # 0}
     IN  \E moved \in SUBSET present :
           /\ dev' = [f \in Items |-> IF f \in moved /\ dev[f] = 0 THEN pkg[f] ELSE dev[f]]
           /\ delivered' = IF moved = present THEN completed ELSE 0
  /\ \E answered \in SUBSET Verify : verified' = VerifyExit(dev', answered)
  /\ UNCHANGED <<rev, opencl, buildVars>>

\* install_snapdragon_pkg.sh: the push may stop after some files, or put all of
\* them elsewhere when the package directory is not named llama.cpp; both only
\* warn.  The verification follows in any case.
InstallOnDevice ==
  /\ pc = "idle" /\ pkg # Nothing
  /\ LET present == {f \in Items : pkg[f] # 0}
     IN  \E moved \in SUBSET present :
           /\ dev' = [f \in Items |-> IF f \in moved THEN pkg[f] ELSE dev[f]]
           /\ delivered' = IF moved = present THEN completed ELSE 0
  /\ \E answered \in SUBSET Verify : verified' = VerifyExit(dev', answered)
  /\ UNCHANGED <<rev, opencl, buildVars>>

Next ==
  \/ EditSource \/ StartBuild \/ StopBuild \/ Configure \/ Build \/ InstallPrefix
  \/ CopyWrappers \/ CheckPackage \/ InstallOnDevice

Spec == Init /\ [][Next]_vars

--------------------------------------------------------------------------------
TypeOK ==
  /\ rev \in 1 .. MaxRev /\ opencl \in BOOLEAN
  /\ pc \in {"idle", "configure", "build", "install", "wrap"}
  /\ configured \in BOOLEAN /\ built \in Revs
  /\ pkg \in [Items -> Revs] /\ wrap \in Revs /\ completed \in Revs
  /\ checked \in {"none", "PASS", "FAIL"}
  /\ dev \in [Items -> Revs] /\ delivered \in Revs
  /\ verified \in {"none", "PASS", "FAIL"}

\* The build stops at once: a package never holds a file of a revision that was
\* not built to the end, and a run that ended well has replaced everything it
\* produces, whatever half-finished runs went before.
PackageIsBuilt ==
  /\ \A f \in Items : pkg[f] <= built
  /\ completed # 0 => \A f \in Products : pkg[f] = completed

\* Once the package of a completed build has been pushed whole, the device runs
\* that build, whatever failed builds and pushes went before.  (The OpenCL library
\* is the exception: nothing removes it when the preset stops building it.)
DeviceIsOneBuild ==
  delivered # 0 => \A f \in Items \ {OpenclLib} : dev[f] = delivered

\* A build that completed with OpenCL configured has a package that passes the
\* check, whichever builds failed or were edited away before it.  (With patch 0001
\* the preset has OpenCL off, and the library the check asks for is not made.)
CompleteBuildPasses ==
  completed # 0 /\ configured /\ checked # "none" => checked = "PASS"

\* The inductive invariant of the three: during a build nothing counts as completed
\* or checked, and from its [4/4] on the build directory is at the source's revision.
PkgInv ==
  /\ TypeOK
  /\ built <= rev
  /\ pc \in {"install", "wrap"} => built = rev
  /\ pc = "wrap" => \A f \in Products : pkg[f] = built
  /\ pc # "idle" => completed = 0 /\ checked = "none"
  /\ PackageIsBuilt /\ DeviceIsOneBuild /\ CompleteBuildPasses
================================================================================
