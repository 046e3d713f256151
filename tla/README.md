# A verification development for vcpkg

TLA+ models, TLC configurations and TLAPS proofs for the parts of this
repository that are programs: the CMake functions every port build runs, the
toolchain and the bootstrap that a user's build starts them through, the
generators that assemble the sources of WebRTC, the scripts that deploy what was
built, and the scripts that maintain the ports.
This repository is a fork of microsoft/vcpkg. The `vcpkg` executable itself is
not in it; where the code calls it (`x-download`, `x-history`, `install`), the
models take its effect from the way it is called.

Everything is written from the source, and `PROJECT.json` names the lines each
definition stands for. What follows is the inventory of the system, the modules
and how they correspond to the code, what is checked and with which bounds, what
is proved and how, and what is left.

## 1. The system

    vcpkg (executable) --runs--> scripts/ports.cmake --includes--> portfile
                                        |                              |
                 scripts/build_info.cmake                 scripts/cmake/vcpkg_*.cmake
                                                            |         |          |
                                              vcpkg_download_distfile |  vcpkg_execute_build_process
                                                   vcpkg_from_git     |
                                                     vcpkg_extract_source_archive
    ports/webrtc/portfile.cmake --> generate_external_third_party.py,
                                    generate_external_absl.py --> GN
    a user's build --> buildsystems/vcpkg.cmake --> bootstrap.sh, vcpkg install
                   --> applocal.ps1 / osx/applocal.py  (after linking)
    maintainers    --> generatePortVersionsDb.py, generateBaseline.py,
                       update_suitesparse.py, update_kf6.py,
                       shader-slang/update_shas.py, CI

One vcpkg process holds a lock on its root directory for as long as it runs, and
it builds one port after another. Concurrency therefore comes from what several
roots share (the downloads directory), from builds that run in parallel above
vcpkg (MSBuild, Xcode, several CMake build directories of one root), from
process pools, and from the network. The other hard
behaviour comes from time: nearly every script leaves files that the next run
finds, and any run may be killed between two of its steps.

| Component | State it keeps | Operations | What is hard | What makes it correct |
|---|---|---|---|---|
| Download cache, `vcpkg_download_distfile.cmake` | DOWNLOADS: name -> content | look up, hash, try the second name, download | other processes between any two steps; two contents under one name; user deletes a file on advice | a pinned request is served what it pinned; cached files survive |
| Git sources, `vcpkg_from_git.cmake` | `git-tmp`, FETCH_HEAD, archive and its temporary file | fetch, rev-parse, archive, rename, extract | shared git directory and archive name; moving branches; kills | REF builds get REF; the reported HEAD version is what is built; cached archives are whole |
| Source trees, `vcpkg_extract_source_archive.cmake`, `z_vcpkg_apply_patches.cmake` | source path, `.tmp` directory | clear, unpack, unwrap, patch, rename | kills at every step; `--editable` reuse | implements "published whole or not at all"; no patch lost |
| Port build, `ports.cmake`, `vcpkg_execute_build_process.cmake`, `build_info.cmake` | package directory, BUILD_INFO, logs, the list of failure logs | remove, include, run and rerun commands, post, write info | retries over partial installs; leftovers of killed builds | a built package is of this build alone; the list is of the failure |
| macOS deployment, `osx/applocal.py` | bundle: copies, references | `fix_binary` / `fix_dependency` recursion, walk | cyclic dependencies, tool failures, interrupted runs | success means a closed bundle; the recursion ends, unless frameworks alone make a circle |
| Windows deployment, `msbuild/applocal.ps1` | target directory, named mutex | resolve, compare, copy | parallel deployers, abandoned mutex, reads outside the mutex | the directory ends closed; nobody waits for ever |
| Versions database, `generatePortVersionsDb.py`, `generateBaseline.py` | version files, `rev_file` marks, `baseline.json` | list, pool of `x-history`, mark; read, write | commits and checkouts meanwhile, kills, failing processes, concurrent reader | marks and baseline are true to the files |
| SuiteSparse updates, `update_suitesparse.py` | manifests and portfiles of the family | manifest, portfile, per library | exceptions and kills between two writes, reruns, commits | Done means consistent; version pairs are unique |
| KF6 updates, `update_kf6.py` | portfiles, manifests, the worst status | fetch, SHA512, version, per port | goes on after every failure; kills between two writes; reruns for other versions | OK means every port is at the version with its hash |
| shader-slang updates, `update_shas.py` | portfile, manifest | download per block, one write | failed downloads; the version changes while it runs | every hash but those an ERROR was printed for is of the manifest's version |
| WebRTC sources, `ports/webrtc` | the source tree, staged repositories, overlays, exports | stage, generate per phase and configuration, build, export | debug and release in one tree; generators that clear directories others write below; `--editable` trees after kills; an upgraded abseil | nothing GN reads is missing or of the other configuration; the package names what was linked |
| Toolchain, `buildsystems/vcpkg.cmake` | CMake cache, collected errors | read options, bootstrap, install, report | reconfigures with other options, kills, several errors, a shared root | a configure with vcpkg keeps the mode of the build directory; nothing is installed after a fatal error |
| Bootstrap, `bootstrap.sh` | `vcpkg.part`, the executable | download, check, rename | kills, several bootstraps of one root | the executable is absent or whole |
| From GitHub/GitLab/Bitbucket/SourceForge | none of their own | compute a URL and a file name, call the two functions above | | not modelled: what they call is |
| Installation script of this fork, `vcpkg_install_packages.mjs` | process environment | git, bootstrap, install per platform | environment of one platform stays for the next | not modelled: one process whose outcome is that of the programs it calls |
| CI scripts | lists of pull requests, baselines | test, close | stale lists | not modelled: they call services outside the repository |
| Process helpers | none | run one process | | not modelled: the models take the outcome as a choice |
| Build-system helpers (`vcpkg_configure_*`, `vcpkg_acquire_msys`, ...), Boost generator, completion | none across calls | assemble command lines and text | text | not modelled |
| Other ports, triplets, `versions/`, toolchains | data | | | not modelled |

`PROJECT.json` lists every component and, under `hazards`, each behaviour of this
code that is hard to test, at its line, with the property that covers it or the
reason none does.

## 2. Modules

Each module holds one component: its constants with named assumptions, one
action per step that others can see between, a type invariant, and the
properties. Operators whose comment says "Mutated form of ..." are the faulty
variants that show each property can fail; no specification uses them. `MC*`
modules give the constants their values.

**DistFile** (`z_vcpkg_download_distfile`). A request is one call. `EXISTS`,
`file(SHA512)` and `x-download` are separate steps (`Exists`, `Hash`,
`ExistsAlt`, `HashAlt`, `Fetch`, `Download`); `path` is `arg_FILENAME`, which the
first mismatch replaces by the name with eight characters of the hash in it
(`Alt`). `exclusive` says whether one root, hence one lock, covers all requests.
DOWNLOADS starts with any contents. `DeleteAndRetry` is the user who follows the
error message, at any later time and without looking whether the file is still the
wrong one or in use; a request that was served with it is then `robbed`, and one that
is about to hash it ends with CMake's error (`cannotHash`). A content is identified
with its SHA512.

**FromGit** (`vcpkg_from_git`). A build is one call; `Start`, `Check`, `Fetch`,
`RevParse`, `OpenTemp`, `WriteTemp`, `Rename`, `Extract` are its steps. REF builds
share the git directory `Shared` with its objects and FETCH_HEAD; HEAD builds have
their own. `git archive` opens its output first and completes it later, and an
open file follows its inode through a rename (`renamed`); two writers of one
inode may leave a hole (`Contended`). `Push` moves branches at any time and `Kill`
stops a build anywhere.

**SourceTrees** is the abstract promise of source extraction: trees appear whole,
in one step; only trees nobody may edit are discarded; a build is given a whole
tree of its own archive and patches. **ExtractSource** is the code: the `.tmp`
directory, removals that take many steps, unpacking, unwrapping, the patch loop
with and without QUIET, the rename; calls that are killed; a user who edits
`--editable` trees. It is shown to implement SourceTrees (`KeepsPromise`) with a
mapping that counts an incomplete directory as none.

**PortBuild** (`ports.cmake`, CMD=BUILD). `stage` follows the script from the
checks to BUILD_INFO; `Run` is one `execute_process` of
`vcpkg_execute_build_process`, and `Retries` the condition under which it runs a
command again. What the portfile does between commands is a choice to fail or go
on. The package directory, the logs and the list of failure logs survive from
build to build.

**OsxBundle** (`osx/applocal.py`). The mutual recursion is an explicit stack,
because nested calls read and write the same bundle. `Listed` is what otool
prints; the filter by name of `get_dependencies` is `NamesItself`, one of the
reasons for which `LeftAlone` skips a reference. A reference, once changed to
`dep_rpath`, is what ends the recursion. Tools may fail at every call (`GiveUp` is
the False that travels up), `Interrupt` stops the run, `RunAgain` is the next build.
`os.walk` lists a directory when it comes to it, so it may or may not find a library
that its own loop has copied (`Walks`).

**AppLocal** (`msbuild/applocal.ps1`). Each deployer is one run of the script with
an installed tree of its own; they share the target directory and its named
mutex. `Dump` reads dependencies without the mutex, `Wait` .. `Release` are
`deployBinary`. A file under copy has the time `Now`, a complete one the time of
its source.

**VersionsDb** (`generatePortVersionsDb.py`, `generateBaseline.py`). The generator
reads the revision, lists the ports, hands them to a pool and marks the revision;
the baseline script reads the same files at any time. History is a line of commits
that add, change and remove ports; `Checkout` moves to any of them at any time,
forward as a commit or pull does, or back. A version of a port is identified with the
commit that introduced it; a port that x-history finds no version of gets the file
`Blank`.

**PortUpdate** (`update_suitesparse.py`). Two writes per port, in either order of
ports, with exceptions, kills, commits and restores in between. REF and SHA512 are
written by one step and identified with their release.

**Kf6Update** (`update_kf6.py`). Per port: fetch, the write of the portfile, the
write of the manifest, each of which may fail and is then only noted in
`kfStatus`; a file whose write failed or was killed may be cut. A hash is
identified with the version whose archive it is of, the hash of a license text
with `License`, which no run may replace.

**SlangUpdate** (`update_shas.py`). The blocks are downloaded from the last to the
first, into `sNew`, which `WriteBack` writes at the end; the blocks whose download
failed are in `sFailed`. `SetVersion` and `ForgetHash` are the maintainer, who may change the manifest at any time.
**PortScripts** composes the three scripts that update ports; they have no file in
common, so each behaviour chooses one of them (`script_run`).

**WebrtcSpecs** has the 18 overlays of `generate_external_third_party.py` as data:
the files of each, what they import or compile, which libraries they link and
which placeholders they have. **Webrtc** is `portfile.cmake` with
`webrtc-functions.cmake` and both generators around the source tree: `Stage`,
`Materialize` and `OwnFiles` put things there, `BeginConfig` starts the debug and
the release pass, `ClearOverlay` and `WriteFile` are the two loops of
`apply_generation_plan`, `RemoveAbsl` .. `WriteExports` the generator for abseil. `Stop`
ends a build anywhere, `FetchWebrtc` begins another in a fresh tree or in the
`--editable` one, `Upgrade` changes the abseil that is installed. The tree is a
function from files to the library and the placeholders they were rendered with.

**Bootstrap** (`bootstrap.sh`). Several actors run the script on one root. A file is
named by what it holds; one that is being written holds the name of the actor
that opened it last, whose curl truncated it. `BootKilled` stops the script
anywhere. **Toolchain** (`vcpkg.cmake`) EXTENDS it: a configure of a build directory
is an actor that runs the script when it finds no executable. `Configure` is the
part that reads the cache, settles the triplet and the root and collects the errors of
the mode and of a root that is not found, then `Exists`, `Bootstrapped`, `Install`,
`Report`. `ConfigureWithout` is a configure that cannot tell the architecture and
"continues without vcpkg": the toolchain returns before the report (`EndWithout`).
That can happen only as long as no triplet is cached, since it is inside the `if` that
looks for one. CMake saves the cache when a configure ends,
failing or not, and not when it is killed. Between configures the user sets
options, adds or removes the manifest, or deletes the build directory.

The modules **\*Proofs** hold the theorems (section 5).

Composition: ExtractSource refines SourceTrees; FromGit's `Extract` and Webrtc's
`FetchWebrtc` use only what SourceTrees promises (a build gets a whole tree of the
archive, fresh or editable, or fails); Toolchain and Bootstrap run together on one
root; PortBuild takes the portfile's calls of all of these as a choice to fail.

## 3. What the runs check

| Run | Properties | What it shows | Bounds |
|---|---|---|---|
| `distfile` | TypeOK, ServedIsPinned, CachedFilesSurvive | A pinned request is served its content and keeps it unless a rival by its arguments replaces it or a user deletes it; under one lock a file is replaced only on ALWAYS_REDOWNLOAD and removed only by a user whom a hash error told to | 2 requests, 4 names, 2 contents |
| `fromgit` | TypeOK, RefBuildsGetRef, HeadVersionIsSource, CachedArchivesWhole | see section 2 | 2 builds, 2 ports, 2 commits, a branch, an abbreviation |
| `extract` | TypeOK, LeftoversAreHarmless, NoPatchIsLost, KeepsPromise, SoundCallsFinish | interrupted calls implement SourceTrees, lose no patch and do not make later calls fail; sound calls finish | 2 calls, 2 archives, 3 patches |
| `osxbundle` | OsxTypeOK, BundleIsClosed, EveryRunEnds | success without failure in any run means a closed bundle; cyclic dependencies do not keep the recursion going, also if one of the cycle is a framework | 6 libraries with two cycles, a framework on one of them, a system library, a library that only the walk finds; 2 runs |
| `applocal` | TypeOK, DirectoryIsClosed, HalfWrittenIsNotRead, EveryDeployEnds | two projects that deploy into one directory leave it closed, though each may replace what the other reads | 2 deployers, 2 trees, 3 DLLs |
| `portbuild` | TypeOK, PackageIsComplete, InfoMatchesFiles, ListIsOfFailure | a package that counts as built has nothing of other builds in it; the list of logs is of the command that failed | 2 commands, 3 builds, every outcome |
| `versionsdb` | TypeOK, MarkedIsComplete, BaselineIsFaithful | without failures, a marked revision misses no port whatever is committed or checked out meanwhile, unless ports go away while the generator runs; a baseline says what the files said | 3 ports, 2 commits of which the second adds, changes or removes a port, pool of 2 |
| `portupdate` | TypesOK, DoneIsConsistent, PairsAreUnique, OkMeansConsistent, RefreshMatchesManifest | however often the three scripts fail, are killed and are repeated: Done and OK mean all ports agree, the hashes without an ERROR are of the manifest's version, no version pair is published for two sources | SuiteSparse: 2 libraries, 3 releases, 4 runs; KF6: 2 ports, one with a license text, 3 versions, 4 runs; shader-slang: 3 blocks, 3 versions, 3 runs |
| `webrtc` | WebrtcTypeOK, NothingIsMissing, RenderedForConfig, ExportsAgree, RebuildsSucceed | when GN reads the tree, all it names is there and rendered for the configuration that is built; the package names the libraries it was generated for; an earlier build never makes a later one fail | all 18 overlays, 3 hosts, 4 labels, 3 exports of abseil, 2 builds |
| `toolchain` | TypeOK, ExecutableIsWhole, ModeIsKept, ErrorsAreFatal | a configure with vcpkg keeps the mode of its build directory, a fatal error stops bootstrap and install, no broken executable stays | a build directory with 4 configures and all options, and a user who bootstraps by hand |

Two more runs, `fromgit_fallback` and `toolchain_advice`, find a disagreement
between what the code does and what it says (section 4); each checks one property
and ends with a counterexample.

Why the bounds are enough:

- `distfile`: interference needs a victim and one other actor, and three requests
  add only chains of the same steps. The names are chosen so that every collision
  the naming rule allows occurs: one FILENAME for two contents, a port whose own
  FILENAME is another's second name, and two hashes with the same eight
  characters. `DistFileProofs` removes the bound.
- `fromgit`: the two builds take every pair of argument lists, from no REF at all
  to an abbreviated REF with FETCH_REF. Two commits, of which one is in the
  history of the other, tell a deep fetch from a shallow one. `GitSourceProofs`
  removes the bound.
- `extract`: one call leaves something behind, the next finds it. Archives and
  patches cover wrapped and unwrapped archives, patches that apply, that do not,
  and that are missing. `ExtractSourceProofs` removes the bound for all but
  liveness.
- `portbuild`: a failure list or a file can outlive one build and meet a second
  that is refused and a third that succeeds; a debug and a release command are
  what portfiles have. `BuildProofs` removes the bound.
- `osxbundle`: a cycle of libraries, a cycle of a library and a framework (whose
  references are followed again when they are fixed), a library reached twice, a
  file outside the tree, a library whose name contains the executable's, so that only
  the walk finds it, and one that is copied while the walk is under way. Two runs,
  because the second meets the leftovers of the first. `BuildProofs` removes the bound
  for all but liveness.
- `applocal`: the trees disagree in which of two files is newer and in what it
  needs, which is the case that makes a directory incomplete if anything does;
  the kernel's mutex has one waiter at most then, which is enough for it to be
  abandoned. `AppLocalProofs` removes the bound for the invariants.
- `versionsdb`: a port beyond the pool's size, and checkouts between every two steps,
  forward and back. The second commit adds, changes or removes a port (`MaxTouched` is
  the bound on how many it touches); more ports or commits combine the same moves; ports
  are interchangeable, so TLC uses symmetry (the run has safety properties only).
  `VersionsDbProofs` removes the bound.
- `portupdate`: releases in which each library keeps its version once; a third
  and fourth run repair or worsen what two have left. Three versions let a run for
  a third one meet leftovers of two others. A second port shows what a failure at
  one port does to the other, a third block that one in the middle is not
  forgotten. `PortUpdateProofs` removes the bounds.
- `webrtc`: no bound on the overlays, which are the ones of the code. A second
  build meets every leftover of the first one; a third starts in a tree that the
  second leaves, which is of the same kinds as the one the second starts in. The
  exports are one with a library that has to be left out, one with another set of
  libraries, and one without static ones. `GitSourceProofs` removes the bounds.
- `toolchain`: three configures are what a mode that changes and changes back
  needs, a fourth lets one go on without vcpkg in between. One build directory is
  enough because directories share nothing but the root, and all that a configure of
  another one does to the root, a bootstrap that may be killed, the user by hand does
  too: overlapping bootstraps, which `ExecutableIsWhole` excepts, and an executable
  that comes into being under a configure. `ToolchainProofs` removes the bounds.

TLC checks deadlock only where the system has no end; calls that have all
returned are an end (`CHECK_DEADLOCK FALSE`).

**Fairness.** `extract`: `WF(Step(b))` for each call, a running CMake script goes
on unless it is killed, which `Kill` allows at any time. `osxbundle`: `WF(Work)`,
the same for the Python script; nothing obliges anybody to run it again.
`applocal`: `WF(Step(d))` for each deployer; a process keeps running, and the
kernel wakes a waiter once the mutex is free, which with two deployers needs no
strong fairness. The other modules state safety only: each is a script without
waiting, whose every behaviour is one that may be stopped at any point.

**Preconditions inside properties** are those the code itself imposes:

- `ServedIsPinned` excepts requests with a *rival* and *robbed* ones. A rival
  always redownloads the name, or, where no lock keeps the two apart, downloads
  other content to it between the steps of the first. A robbed request was served with
  a file that a user has deleted since, on the advice another request was given.
  Nothing in the function prevents either; the property says that nothing else goes
  wrong with a served file, in whatever step of a request it is replaced or deleted.
- `RefBuildsGetRef` excepts a build whose archive name another one *poisons*: a
  build that follows a HEAD_REF with the name REF has, or one that falls back (see
  the first finding). Without the exception the property is false.
- `HeadVersionIsSource` is for builds that may download and that share their
  downloads directory with no concurrent vcpkg. With downloads disabled and an
  archive in the cache the function returns without setting VCPKG_HEAD_VERSION.
- `NoPatchIsLost` excepts an `--editable` tree that a call with SKIP_PATCH_CHECK
  made: the hash in the path does not tell the two apart.
- `BundleIsClosed` is about histories without failure or interruption: the script
  changes a reference before it copies the library, so a run that is stopped in
  between leaves a bundle that later runs take for fixed.
- `DirectoryIsClosed` likewise: a copy that was stopped is newer than its source
  and is never replaced.
- `EveryRunEnds` is about trees without a circle of nothing but frameworks
  (`NoFrameworkCircle`). A reference to a library that has been changed is left
  alone, because `../Frameworks/lib` is no file there; one to a framework is followed
  again, since its normalised name still is a file of the tree. A cycle that has a
  library on it ends there, a cycle of frameworks does not, and the run ends with
  Python's recursion limit.
- `MarkedIsComplete` is about databases in which nothing failed: a revision is
  marked although `x-history` failed for a port. It also excepts histories in which
  ports went away while the generator ran (`receded`), by a commit that removes them
  or the checkout of an older one: the listing then lacks ports of the revision it
  marks. Without either exception the property is false. `PairsAreUnique` is for
  maintainers who do not go back to an older release.
- `RefreshMatchesManifest` is about the blocks that have a hash and whose download
  did not fail: one with `SHA512 0` is skipped, one that failed keeps its old hash. It supposes that nobody edits the portfile while the
  script runs, since the script writes back what it had read.
- `ExecutableIsWhole` is for roots on which no two bootstraps ran at the same time.
  When two do, one may rename what the other is still writing.
- `ModeIsKept` and `ErrorsAreFatal` are about configures with vcpkg. One that goes on
  without it succeeds for CMake, in whatever mode and after whatever errors, since it
  returns before the report at the end of the toolchain.
- `NothingIsMissing` excepts `.gn`: a kill while it is written leaves a cut file
  that an `--editable` tree keeps.

## 4. Disagreements found

1. `fromgit_fallback`: "Package does not specify HEAD_REF. Falling back to
   non-HEAD version." (`vcpkg_from_git.cmake:53`). The build does not fall back: it
   fetches FETCH_REF, asks for FETCH_HEAD because VCPKG_USE_HEAD_VERSION is set,
   archives that commit under the name of REF, and later builds of REF take it from
   the cache.
2. `toolchain_advice`: "Please add a manifest, or disable manifests by turning off
   VCPKG_MANIFEST_MODE." (`vcpkg.cmake:81`). The configure that says so has stored an
   empty VCPKG_MANIFEST_DIR and VCPKG_MANIFEST_MODE's check as ON in the cache, so a
   manifest that is added is not looked for, and turning the mode off is refused.

Noted on the way, without a run: a configure that "continues without vcpkg"
(`vcpkg.cmake:282-284, 305-307, 345-347`) never reports the fatal errors collected
before, that of a changed mode included; a port that is removed between the reading of
the revision and the listing of the ports is missing from the files of a revision that
is marked as done (`generatePortVersionsDb.py:73, 50`); circles of frameworks keep the
recursion of `osx/applocal.py` going; the help of `osx/applocal.py` promises exit code 1
for errors, but when a tool fails on the executable itself the script exits with 0
(353); the first failure of mt.exe is recognised as `mt` and as `mt.exe`, the
following ones as `mt` only, so the loop that counts to three ends after one rerun
(`vcpkg_execute_build_process.cmake`); a revision of the versions database is
marked as done although `x-history` failed for a port
(`generatePortVersionsDb.py:41`); the text of the second and later fatal errors of
`vcpkg.cmake` is lost, because the function that appends them sets it in its own
scope (31); `update_shas.py` skips blocks with `SHA512 0`; ALWAYS_REDOWNLOAD with downloads disabled says
that an existing file does not exist (`vcpkg_download_distfile.cmake:112`);
`generateBaseline.py` says that the versions directory must exist and goes on
without it (76-78); a version file that exists is never refreshed, so a file that a
killed run left half written stays; `generatePortVersionsDb.py` prints half the
number of processes that it starts (54-56); a build that fails before
`ports.cmake:207` leaves the list of failure logs of the build before it.

## 5. What is proved

Theorems hold for every value of the constants that satisfies the named
assumptions: any number of requests, files, builds, commits, commands, deployers,
ports. Each proof follows one pattern: an inductive invariant that contains the
property, a lemma that it holds initially, lemmas that `[Next]_vars` keeps it (one
per conjunct, with one step per action, or one per action), and a last step in
temporal logic. TLC has checked each invariant on the instance of its run.

**DistFileProofs**: `TypeCorrect`, `PinnedContentServed` (ServedIsPinned),
`CachedFilesStay` (CachedFilesSurvive). ServedIsPinned is not inductive: a request
that is about to download says nothing yet about what it will do to others. `IInv`
adds that a request past the checks has sound arguments (`ArgumentsChecked`), which
of its two names it looks at (`NamesKnown`), that the lock lets one request run
(`OneRuns`), and that under the lock a name it found free is still free when it
downloads (`DownloadsAreMissing`), which a user who deletes files in between does
not change. Typing itself needs `NamesKnown`: only a request
with a SHA512 ever makes up a second name. Assumptions: the zero hash and the
absent value are no hashes, and second names are names.

**GitSourceProofs** has the theorems of the two modules that build from git.
FromGit: `TypeCorrect`, `RefIsBuilt` (RefBuildsGetRef), `ArchivesAreWhole`
(CachedArchivesWhole). RefBuildsGetRef is about the last step of one build and the
files of all of them: `IInv` says what every build of an unpoisoned name has parsed
(`RevIsRef`), what both files of that name hold (`FilesAreRef`), and, for a build
that falls back under the lock, what FETCH_HEAD is (`FetchHeadIsRef`).
CachedArchivesWhole follows from one build running at a time (`OneRuns`), which
then renames the file it completed itself (`OwnTempIsWhole`). Assumptions: the three
kinds of names are distinct, the shared directory is no build's own, and
abbreviations stand for commits. `HeadVersionIsBuilt` (HeadVersionIsSource) adds
`HeadIsStaged`: the commit that a HEAD build reports is in turn the parsed one, that
of the temporary file, and that of the archive, and the lock keeps every other
build from coming in between.

Webrtc: `WebrtcTypesAreInvariant` (WebrtcTypeOK), `TreesAreWhole`
(NothingIsMissing), `OverlaysFitConfig` (RenderedForConfig), `ExportsAreCurrent`
(ExportsAgree), `RebuildsAreSafe` (RebuildsSucceed), all the properties of the run,
for any labels, exports and number of builds. None is inductive: each speaks of one
place of the portfile, `gn`, `done` or `failed`, and of a tree that stopped builds
have left. The invariant `WebrtcInv` therefore divides the tree among *owners*, the
repositories, the portfile's own files, the 18 overlays and the generated abseil,
and says at each place which owners will still write before GN reads (`ToCome`).
All the others have their files whole (`TreeInv`), link the libraries of the
configuration that is built (`LinkInv`), and, for nasm and abseil, hold the
assembler (`NasmInv`) and the libraries of the installed abseil (`AbslInv`). A build
that begins has everything still to come but WebRTC itself, which is why nothing
that a stop leaves matters; and clearing an overlay disturbs no other owner because
`preserve_root` is set for the one that is the parent of the others. `RebuildsSucceed` needs `DseInv`: the
repository that has the lifetime-dse block is staged afresh before the block is
looked for. Assumptions: the labels are finitely many, and none names a directory
`absl.gni` or `BUILD.gn`.

**BuildProofs** has the theorems of the build and of what runs after linking on
macOS. PortBuild: `TypeCorrect`, `PackagesAreComplete`, `InfoIsOfFiles`,
`ListsAreOfFailures`, all the properties of the run. `PackageSoFar` says what each
place in the portfile knows of the commands behind it and ahead of it, `LogsSoFar`
what the runs of the current command have written. The bound on reruns (at most
four runs of a command) is part of TypeOK and is proved. Assumption: there is at
least one command and one build.

OsxBundle: `OsxTypeIsInvariant` (OsxTypeOK), `SuccessMeansClosed` (BundleIsClosed),
for any graph of libraries, cyclic or not. The script never looks at the bundle as
a whole; what closes it is the recursion. `OsxInv` says, while nothing has failed,
that every call has each thing its binary needs behind it or still on its list
(`CallSoFar`), and that each reference that was changed leads to a library that is
settled, has a call of its own on the stack, or is the one to be copied next
(`IsUnderWay`). A library whose reference is already fixed is skipped because one of
these holds; when the stack is empty only the first can. os.walk may
overlook a library that its own loop adds; that does no harm, since every library that
is copied has a call of its own at once, and those that were there are on the list of
the walk, settled or under way.

**ToolchainProofs**: `InvIsInvariant`, `TypeIsInvariant`, `BootstrapLeavesWholeExecutable`
(ExecutableIsWhole), `BuildDirKeepsMode` (ModeIsKept), `FatalErrorsStopConfigure`
(ErrorsAreFatal). A step of the composition is, for each actor, a step of its
bootstrap script, the return from it, or none (`NextIsBootAction`), so that
`BootInv` is proved once for the script: while bootstraps have not overlapped, the
file that has passed the check is the one that is moved. `ModeInv` says that a
cached check of the mode is the mode of the first configure, also in the cache of
the running one and in what a configure without vcpkg has saved, and `ErrorInv` that
no raised error escapes the flag and that nothing follows one but the report or the
return without vcpkg.

**ExtractSourceProofs**: `SrcTypeIsInvariant`, `LeftoversNeverFail`
(LeftoversAreHarmless), `PatchesAreKept` (NoPatchIsLost). `Work` says what a call has
achieved at each line: `.tmp` is cleared before it is filled, and in the loop the
tree has the patches before `patchnum` and nothing else (`OnePatchMore`). A call with
`--editable` may be given a tree that was there, which `EditableKept` covers. `DirectoriesKeepPromise`
(KeepsPromise) is the refinement: ExtractSource implements SourceTrees. Under the
mapping, only the rename publishes, only the removal of a whole tree discards, a
call's return is the answer of the promise, a user's edit is an edit, and all the
other steps stutter. That
the patch loop arrives at what SourceTrees calls the patches that apply is an
induction over the sequence of patches (`AppliedExists`, `AppliedUnfolded`); it is
done with a least counterexample (WFMin), for which no operator has to be passed to
a theorem.

**AppLocalProofs**: `DeployTypeIsInvariant`, `DirectoryIsClosedInTheEnd`
(DirectoryIsClosed), `HalfWrittenIsHarmless` (HalfWrittenIsNotRead). DirectoryIsClosed
speaks of the end only. The invariant `DeployInv` has three ideas. What a deployer
has met is good enough for its tree or is what it is about to compare
(`SearchedOK`); this stays so because the mutex covers comparison and copy, so the
times in the directory only grow (`SettledStays`). A DLL that is being replaced was
met by no other deployer of the same tree (`CopiedOnce`, from `ReplacedIsOlder`). And
every binary and every DLL that stands in the directory has a deployer of its tree
that has its dependencies behind it or ahead of it on its stack (`AllResolved`): if a
deployer reads a half-written DLL, the writer still has it ahead. That
dependencies may form circles plays no part, since nothing is said of when the
recursion ends. Assumptions: files of a tree are newer than what stood in the
directory before, and older than the clock.

**VersionsDbProofs**: `DbTypeIsInvariant`, `MarkedMeansComplete` (MarkedIsComplete),
`BaselineHasTheVersions` (BaselineIsFaithful). As
long as no port goes away while the generator runs, every port of the revision is in
what was listed and in the commit that is checked out when `x-history` runs
(`CheckoutKeepsInv`), where it has a newest version (`PortsHaveVersions`, which exists
by well-founded induction on the commits after it); so it is on the queue, with a
process, or has a file with versions (`GenSoFar`). Only ports without a version file are
given to `x-history`, so what the baseline script has read stays true (`BaseSoFar`).

**PortUpdateProofs**: `OKIsTrue` (OkMeansConsistent), `RefreshIsTrue`
(RefreshMatchesManifest), `SuiteTypeIsInvariant`, `KfTypeIsInvariant`,
`SlangTypeIsInvariant`, `DoneIsTrue` (DoneIsConsistent), `NoPairIsReused`
(PairsAreUnique). The three scripts have an invariant each, which says what the part
of the loop behind the current port has achieved as long as no failure was noted
(`KfInv`, `SlangInv`, `SuiteInv`). NoPairIsReused needs more: while
nobody has gone back to an older release, the pair in a manifest is not before the
committed one, and after it once a run has written it, and no published pair is
after the committed one (`GrowInv`); so what is committed next is a new pair.
`ScriptTypesAreInvariant` (TypesOK) joins the types of the three scripts in PortScripts,
the composition that the run checks; it rests on a lemma that says no more than what
PortScripts is made for, that a step of it is a step of one script.

Model-checked only:

- liveness under fairness (`SoundCallsFinish`, `EveryRunEnds`, `EveryDeployEnds`),
  which the prover does not reach;
- that the two runs of section 4 have counterexamples.

Every invariant and action property of a passing run, and the refinement, is a
theorem.

## 6. What is not modelled

- Text: command lines, messages, path normalisation, regular expressions, the
  formats of portfiles and manifests. Where a conversion decides something (the
  filter by name in `get_dependencies`, the two patterns for mt.exe, the second file
  name, the reading of a torn JSON file), the models have what it does.
- `vcpkg_download_distfile` around the inner function, the deprecated form of
  `vcpkg_extract_source_archive`, CMD=CREATE of `ports.cmake`, and the plugin hooks of
  `applocal.ps1`, which call scripts that ports install.
- `vcpkg.cmake` outside manifest mode: how the triplet is found (205-399, of which the
  models have that it is found or that the toolchain returns without vcpkg), the
  search paths and the overrides of `find_package`, `add_executable`, `add_library` and
  `install`, which keep no state between calls and whose effect is CMake's. CMake may
  include the toolchain again in the same configure; it then returns at once (213-216).
- Details that the properties do not tell apart. DistFile: calls without URLS or
  FILENAME or with a malformed SHA512, which end like the other bad arguments. FromGit:
  the part of a temporary archive that a failing `git archive` leaves, which is never
  renamed. ExtractSource: a patch applies or not to an archive, whatever patches were
  applied before it. OsxBundle: the name that `install_name_tool -id` gives a library.
  PortUpdate: a run that meets a portfile cut before its hash fails on it; the model
  says so with a guard, the script with an exception. One cut behind its hash counts as
  whole.
- In VersionsDb, branches: history is one line. Version files are those the scripts
  write; nobody edits them.
- The build of vcpkg from source (`bootstrap.sh:217-248`) and `bootstrap.ps1`. The
  former copies the executable in steps, so a kill may leave a part of it, which
  `ExecutableIsWhole` is not about; it also stops at an archive with a wrong hash in
  every later run, until the user deletes it.
- In Webrtc the arguments of the compiler and of GN, `include_root`, which is the same
  in all builds, and the copies of files by overlays, which none of them has.
- In Kf6Update that `port-version` is dropped, a port on the list without manifest or
  portfile, and the text of a portfile that is no hash: one that a failed write has
  cut behind its hashes counts as whole, and no later run of the script reports it.
- `_VCPKG_PROHIBIT_BACKCOMPAT_FEATURES` (`ports.cmake:119`) is off: the use of a
  deprecated feature warns and does not end a build.
- Disk failures other than those of the commands named; the network beyond "fails"
  and "delivers some content".
- The components marked "not modelled" above. The functions for GitHub, GitLab,
  Bitbucket and SourceForge compute a URL and call modelled functions; the installation script
  and the CI scripts run programs and services that are outside the repository one
  after the other; the helpers, the other ports and the generators assemble text.

## 7. Plan

Done: the source pipeline (DistFile, FromGit, ExtractSource with SourceTrees), the
build (PortBuild), the sources of WebRTC (Webrtc), the toolchain with the bootstrap
(Toolchain, Bootstrap), deployment (OsxBundle, AppLocal), maintenance (VersionsDb,
PortUpdate, Kf6Update, SlangUpdate), and the proofs of all the safety properties and
of the refinement.

Next, most important first:

1. Models: the HEAD versions of `vcpkg_from_github` and `_gitlab` composed with
   DistFile; the build from source in Bootstrap; the deprecated extraction; the
   environment in `vcpkg_install_packages.mjs`.
2. Proofs: abstract specifications for the other shared stores, a cache of DOWNLOADS
   that DistFile and FromGit implement and an executable that is absent or whole for
   Bootstrap; the variants behind the liveness properties as safety properties (what
   decreases with each step of the recursion in OsxBundle and AppLocal).
