------------------------------- MODULE Webrtc -------------------------------
(***************************************************************************)
(* The source tree of ports/webrtc: the portfile stages repositories and   *)
(* files in it, its two generators replace libraries by overlays that link *)
(* the installed ones, once for the debug and once for the release build,  *)
(* and GN reads the result.  A build may fail or be killed between any two *)
(* writes; with --editable the next build goes on in the same tree.        *)
(*                                                                         *)
(* vcpkg_from_git hands out a whole, fresh tree (FromGit, SourceTrees)     *)
(* unless an --editable one is at its place; the staged repositories are   *)
(* moved away from there, so they are always fresh.                        *)
(***************************************************************************)
EXTENDS WebrtcSpecs, Naturals

CONSTANTS
  Hosts,      \* records of a platform and of whether its compiler knows
              \* -fno-lifetime-dse
  Labels,     \* absl-labels.txt: records of the path below absl and the target
  Exports,    \* exports abslTargets.cmake may have: sets of imported targets
  MaxWebrtcBuilds   \* bound on the builds

\* A label names a directory below absl, which has no such name.
ASSUME LabelsAssumption ==
  /\ IsFiniteSet(Labels)
  /\ \A l \in Labels : l.path \notin {"absl.gni", "BUILD.gn"}
ASSUME MaxWebrtcBuildsAssumption == MaxWebrtcBuilds \in Nat

Configs == <<"debug", "release">>
NONE == "none"

\* declare_webrtc_generated_external, in the order of the portfile.
D(name, phase, libRootVar, toolPathVar) ==
  [name |-> name, phase |-> phase, libRootVar |-> libRootVar, toolPathVar |-> toolPathVar]
PreAbsl ==
  <<D("third_party_root", "pre_absl", FALSE, FALSE), D("testing", "pre_absl", FALSE, FALSE),
    D("tools", "pre_absl", FALSE, FALSE)>>
PostAbsl ==
  <<D("libsrtp", "post_absl", TRUE, FALSE), D("libyuv", "post_absl", TRUE, FALSE),
    D("libvpx", "post_absl", TRUE, FALSE), D("opus", "post_absl", TRUE, FALSE),
    D("libaom", "post_absl", TRUE, FALSE), D("jsoncpp", "post_absl", TRUE, FALSE),
    D("pffft", "post_absl", TRUE, FALSE), D("alsa", "post_absl", FALSE, FALSE),
    D("pulseaudio", "post_absl", FALSE, FALSE), D("dav1d", "post_absl", FALSE, FALSE),
    D("llvm_libc", "post_absl", FALSE, FALSE), D("protobuf", "post_absl", FALSE, FALSE),
    D("googletest", "post_absl", FALSE, FALSE), D("catapult", "post_absl", FALSE, FALSE),
    D("nasm", "post_absl", FALSE, TRUE)>>
Declared == ToSet(PreAbsl) \cup ToSet(PostAbsl)

Repos == <<"build", "buildtools">>
RnnoiseFiles == <<"BUILD.gn", "COPYING", "DIR_METADATA", "OWNERS", "README.chromium",
                  "src/rnn_activations.h", "src/rnn_vad_weights.cc", "src/rnn_vad_weights.h">>

\* What is used of the repository build at its REF, the flag of
\* -fno-lifetime-dse in its compiler/BUILD.gn counted as a file.
Dse == <<"build", "config/compiler/BUILD.gn: fno-lifetime-dse">>
RepoFiles(r) ==
  IF r = "buildtools" THEN {<<r, "all">>}
  ELSE {Dse} \cup ({r} \X {"compiled_action.gni", "config/cast.gni",
          "config/chromeos/ui_mode.gni", "config/ios/config.gni",
          "config/ios/ios_sdk_overrides.gni", "config/sanitizers/sanitizers.gni"})

\* The directory of a unit.
Root(u) ==
  CASE u = "src" -> << >>
    [] u \in {"build", "buildtools"} -> <<u>>
    [] u \in {"rnnoise", "compiler-rt", "abseil-cpp"} -> <<"third_party", u>>
    [] OTHER -> SPECS[u].root

VARIABLES
  tree,       \* tree[f]: what the file f of the source tree was rendered for
  dotgn,      \* .gn of WebRTC
  archives,   \* WEBRTC_ABSL_EXPORTS in the buildtrees: the static targets in it
  exports,    \* the targets of the installed abseil
  host, editable,
  place,      \* where the portfile is
  config,     \* BUILD_CONFIG
  queue,      \* overlays of this phase, repositories or blobs still to come
  unit, left, \* the unit that is being written, its files to come
  installed,  \* configurations whose library is in the package
  published,  \* the exports of the package
  builds      \* builds so far

choices == <<host, editable>>
package == <<installed, published>>
writing == <<unit, left>>
webrtcVars == <<tree, dotgn, archives, exports, choices, place, config, queue, writing, package, builds>>

Plain == [lib |-> NONE, libs |-> {}, tool |-> FALSE]
Put(t, f, content) == [g \in DOMAIN t \cup {f} |-> IF g = f THEN content ELSE t[g]]
PutAll(t, fs) == [f \in DOMAIN t \cup fs |-> IF f \in fs THEN Plain ELSE t[f]]
Without(t, u) == [f \in {f \in DOMAIN t : ~IsPrefix(Root(u), Root(f[1]))} |-> t[f]]
Upstream == PutAll(<<>>, {<<"src", "all">>})

Static(e) == {t.name : t \in {t \in e : t.kind = "STATIC" /\ ~t.forbidden}}

LibNames ==
  (UNION {UNION {f.libs : f \in ToSet(SPECS[d].files)} : d \in DOMAIN SPECS})
    \cup (UNION {Static(e) : e \in Exports})

WebrtcInit ==
  /\ tree = <<>> /\ dotgn = NONE /\ archives = {} /\ exports \in Exports
  /\ host \in Hosts /\ editable \in BOOLEAN
  /\ place = "idle" /\ config = 1 /\ queue = <<>> /\ unit = NONE /\ left = <<>>
  /\ installed = {} /\ published = {} /\ builds = 0

Resting == place \in {"idle", "done", "failed", "stopped"}

\* Overlays of a phase.
InPhase(phase) == IF phase = "pre_absl" THEN PreAbsl ELSE PostAbsl

-----------------------------------------------------------------------------
\* The package directory is cleared, and vcpkg_from_git hands out WebRTC.
FetchWebrtc ==
  /\ Resting /\ builds < MaxWebrtcBuilds /\ builds' = builds + 1
  /\ IF editable /\ dotgn # NONE
     THEN UNCHANGED <<tree, dotgn>>
     ELSE tree' = Upstream /\ dotgn' = "upstream"
  /\ installed' = {} /\ published' = {}
  /\ place' = "stage" /\ queue' = Repos
  /\ UNCHANGED <<archives, exports, choices, config, writing>>

\* Mutated form of Unstage: a repository that is there is taken for staged.
UnstageIfNew ==
  /\ place = "stage" /\ queue # <<>>
  /\ IF \E f \in DOMAIN tree : f[1] = Head(queue)
     THEN place' = "stage" /\ queue' = Tail(queue)
     ELSE place' = "unstaged" /\ UNCHANGED queue
  /\ UNCHANGED <<tree, dotgn, archives, exports, choices, config, writing, package, builds>>

\* fetch_declared_webrtc_repos: the repository at its place is removed ...
Unstage ==
  /\ place = "stage" /\ queue # <<>>
  /\ tree' = Without(tree, Head(queue))
  /\ place' = "unstaged"
  /\ UNCHANGED <<dotgn, archives, exports, choices, config, queue, writing, package, builds>>

\* ... and the fresh one renamed to it.
Stage ==
  /\ place = "unstaged"
  /\ tree' = PutAll(tree, RepoFiles(Head(queue)))
  /\ queue' = Tail(queue) /\ place' = "stage"
  /\ UNCHANGED <<dotgn, archives, exports, choices, config, writing, package, builds>>

\* REMOVE_RECURSE of testing, tools and rnnoise.
Clean ==
  /\ place = "stage" /\ queue = <<>>
  /\ tree' = Without(Without(Without(tree, "testing"), "tools"), "rnnoise")
  /\ queue' = RnnoiseFiles /\ place' = "blobs"
  /\ UNCHANGED <<dotgn, archives, exports, choices, config, writing, package, builds>>

\* materialize_webrtc_gitiles_text_blob
Materialize ==
  /\ place = "blobs" /\ queue # <<>>
  /\ tree' = Put(tree, <<"rnnoise", Head(queue)>>, Plain)
  /\ queue' = Tail(queue)
  /\ UNCHANGED <<dotgn, archives, exports, choices, place, config, writing, package, builds>>

\* script_executable in .gn; a tree that has it already is left as it is.
ScriptExecutable ==
  /\ place = "blobs" /\ queue = <<>>
  /\ dotgn' = IF dotgn = "upstream" THEN "patched" ELSE dotgn
  /\ place' = "settings"
  /\ UNCHANGED <<tree, archives, exports, choices, config, queue, writing, package, builds>>

\* The portfile's own files, written by the portfile itself.
OwnFiles ==
  {<<"build", "config/gclient_args.gni">>}
    \cup (IF host.platform = "windows" THEN {<<"build", "util/LASTCHANGE.committime">>} ELSE {})
    \cup (IF host.platform = "macos" THEN {} ELSE {<<"compiler-rt", "BUILD.gn">>})

\* Three file(WRITE), each of which a later build repeats.
Settings ==
  /\ place = "settings"
  /\ tree' = PutAll(tree, OwnFiles)
  /\ place' = "probe"
  /\ UNCHANGED <<dotgn, archives, exports, choices, config, queue, writing, package, builds>>

\* The loop over the configurations begins with the overlays of pre_absl.
BeginConfig(c) ==
  config' = c /\ place' = "generate" /\ queue' = InPhase("pre_absl")

\* adjust_webrtc_lifetime_dse_flag: the block must be there if it is to go.
AdjustDse ==
  /\ place = "probe"
  /\ IF host.platform = "windows" \/ host.dse
     THEN tree' = tree /\ BeginConfig(1)
     ELSE IF Dse \in DOMAIN tree
          THEN tree' = [f \in DOMAIN tree \ {Dse} |-> tree[f]] /\ BeginConfig(1)
          ELSE place' = "failed" /\ UNCHANGED <<tree, config, queue>>
  /\ UNCHANGED <<dotgn, archives, exports, choices, writing, package, builds>>

-----------------------------------------------------------------------------
\* set_webrtc_build_config and lib_root of generate_declared_webrtc_externals.
LibRoot(d) == IF d.libRootVar THEN Configs[config] ELSE "release"

\* render_template
Render(f, lib, tool) ==
  [lib |-> IF f.libs = {} THEN NONE ELSE lib, libs |-> f.libs, tool |-> f.tool /\ tool]

\* Mutated form of ClearOverlay: preserve_root is not looked at.
ClearAnyOverlay ==
  LET d == Head(queue).name IN
  /\ place = "generate" /\ queue # <<>>
  /\ tree' = Without(tree, d)
  /\ place' = "write" /\ unit' = d /\ left' = SPECS[d].files
  /\ UNCHANGED <<dotgn, archives, exports, choices, config, queue, package, builds>>

\* apply_generation_plan clears the root of the overlay, unless it is shared ...
ClearOverlay ==
  LET d == Head(queue).name IN
  /\ place = "generate" /\ queue # <<>>
  /\ tree' = IF SPECS[d].preserve_root THEN tree ELSE Without(tree, d)
  /\ place' = "write" /\ unit' = d /\ left' = SPECS[d].files
  /\ UNCHANGED <<dotgn, archives, exports, choices, config, queue, package, builds>>

\* ... and writes its files in their order.
WriteFile ==
  /\ place = "write" /\ left # <<>>
  /\ tree' = Put(tree, <<unit, Head(left).name>>,
       IF unit = "abseil-cpp" THEN Render(Head(left), Configs[config], FALSE)
       ELSE Render(Head(left), LibRoot(Head(queue)), Head(queue).toolPathVar))
  /\ left' = Tail(left)
  /\ UNCHANGED <<dotgn, archives, exports, choices, place, config, queue, unit, package, builds>>

\* The next overlay of the phase, or after abseil the second phase.
EndUnit ==
  /\ place = "write" /\ left = <<>>
  /\ queue' = IF unit = "abseil-cpp" THEN InPhase("post_absl") ELSE Tail(queue)
  /\ place' = IF queue' # <<>> THEN "generate"
              ELSE IF Head(queue).phase = "pre_absl" THEN "absl" ELSE "gn"
  /\ unit' = NONE
  /\ UNCHANGED <<tree, dotgn, archives, exports, choices, config, left, package, builds>>

-----------------------------------------------------------------------------
\* The labels of the root that generate_external_absl.py knows.
ROOT_TARGETS == {"absl", "absl_component_deps", "absl_full", "absl_full_deps", "test_support"}

\* The portfile removes what it is about to generate.
RemoveAbsl ==
  /\ place = "absl"
  /\ tree' = Without(tree, "abseil-cpp")
  /\ place' = "plan"
  /\ UNCHANGED <<dotgn, archives, exports, choices, config, queue, writing, package, builds>>

\* Mutated form of KnownTargets: nothing is left out.
KnownTargetsAll == {t \in exports : t.kind \in {"STATIC", "INTERFACE"}}

\* read_cmake_targets
KnownTargets == {t \in exports : ~t.forbidden /\ t.kind \in {"STATIC", "INTERFACE"}}

\* split_manifest_labels: labels without a path are targets of the root.
RootLabels == {l.target : l \in {l \in Labels : l.path = ""}}
LabelPaths == {l.path : l \in Labels} \ {""}

\* make_generation_plan raises before anything is touched.
PlanAbsl ==
  /\ place = "plan"
  /\ place' = IF KnownTargets = {} \/ ~(RootLabels \subseteq ROOT_TARGETS) THEN "failed" ELSE "exports"
  /\ UNCHANGED <<tree, dotgn, archives, exports, choices, config, queue, writing, package, builds>>

\* render_absl_gni, render_root_build and render_subdir_build.
AbslFiles ==
  <<Text("absl.gni"),
    [name |-> "BUILD.gn", needs |-> {"abseil-cpp"} \X LabelPaths,
     libs |-> {t.name : t \in {t \in KnownTargets : t.kind = "STATIC"}}, tool |-> FALSE]>>
  \o [i \in 1..Cardinality(LabelPaths) |->
        Needing(SetToSeq(LabelPaths)[i], {<<"abseil-cpp", "BUILD.gn">>})]

\* Mutated form of WriteExports: a file that exists is kept.
WriteExportsOnce ==
  /\ place = "exports"
  /\ tree' = Without(tree, "abseil-cpp")
  /\ archives' = IF archives = {} THEN Static(exports) ELSE archives
  /\ place' = "write" /\ unit' = "abseil-cpp" /\ left' = AbslFiles
  /\ UNCHANGED <<dotgn, exports, choices, config, queue, package, builds>>

\* main clears the output and writes WEBRTC_ABSL_EXPORTS; the files follow.
WriteExports ==
  /\ place = "exports"
  /\ tree' = Without(tree, "abseil-cpp")
  /\ archives' = {t.name : t \in {t \in KnownTargets : t.kind = "STATIC"}}
  /\ place' = "write" /\ unit' = "abseil-cpp" /\ left' = AbslFiles
  /\ UNCHANGED <<dotgn, exports, choices, config, queue, package, builds>>

-----------------------------------------------------------------------------
\* Mutated form of BuildConfig: the overlays are written once for both.
BuildConfigs ==
  /\ place = "gn"
  /\ installed' = installed \cup {Configs[config]}
  /\ IF config = 1 THEN place' = "gn" /\ config' = 2 /\ UNCHANGED queue
     ELSE place' = "install" /\ UNCHANGED <<config, queue>>
  /\ UNCHANGED <<tree, dotgn, archives, exports, choices, writing, published, builds>>

\* gn gen, ninja and the installation of the library.
BuildConfig ==
  /\ place = "gn"
  /\ installed' = installed \cup {Configs[config]}
  /\ IF config = 1 THEN BeginConfig(2) ELSE place' = "install" /\ UNCHANGED <<config, queue>>
  /\ UNCHANGED <<tree, dotgn, archives, exports, choices, writing, published, builds>>

\* The headers, and WEBRTC_ABSL_EXPORTS for unofficial-webrtcConfig.cmake.
Install ==
  /\ place = "install"
  /\ published' = archives
  /\ place' = "done"
  /\ UNCHANGED <<tree, dotgn, archives, exports, choices, config, queue, writing, installed, builds>>

\* A download, a tool or a write fails, or the build is killed.  A file cut
\* short counts as not written: all but .gn are written again.
Stop ==
  /\ ~Resting
  /\ dotgn' \in {dotgn} \cup (IF place = "blobs" /\ queue = <<>> THEN {"torn"} ELSE {})
  /\ place' = "stopped" /\ queue' = <<>> /\ unit' = NONE /\ left' = <<>> /\ config' = 1
  /\ UNCHANGED <<tree, archives, exports, choices, package, builds>>

\* Another abseil is installed between two builds.
Upgrade ==
  /\ Resting
  /\ exports' \in Exports \ {exports} /\ place' = "idle"
  /\ UNCHANGED <<tree, dotgn, archives, choices, config, queue, writing, package, builds>>

WebrtcNext ==
  \/ FetchWebrtc \/ Unstage \/ Stage \/ Clean \/ Materialize \/ ScriptExecutable \/ Settings
  \/ AdjustDse \/ ClearOverlay \/ WriteFile \/ EndUnit
  \/ RemoveAbsl \/ PlanAbsl \/ WriteExports
  \/ BuildConfig \/ Install \/ Stop \/ Upgrade

WebrtcSpec == WebrtcInit /\ [][WebrtcNext]_webrtcVars

-----------------------------------------------------------------------------
\* A run has its files, overlays or repositories still to come from the list
\* that its place in the portfile works on, and no file of the tree names a
\* library that neither an overlay nor an abseil has.
WebrtcTypeOK ==
  /\ \A f \in DOMAIN tree : tree[f] \in [lib : {NONE, "debug", "release"},
                                          libs : SUBSET LibNames, tool : BOOLEAN]
  /\ dotgn \in {NONE, "upstream", "patched", "torn"}
  /\ exports \in Exports /\ archives \in {Static(e) : e \in Exports} \cup {{}}
  /\ host \in Hosts /\ editable \in BOOLEAN
  /\ place \in {"idle", "stage", "unstaged", "blobs", "settings", "probe", "generate",
                "write", "absl", "plan", "exports", "gn", "install", "done", "failed", "stopped"}
  /\ config \in 1..2
  /\ queue \in Seq(IF place \in {"stage", "unstaged"} THEN ToSet(Repos)
                   ELSE IF place = "blobs" THEN ToSet(RnnoiseFiles) ELSE Declared)
  /\ unit \in {NONE, "abseil-cpp"} \cup DOMAIN SPECS
  /\ left \in Seq(IF unit = "abseil-cpp" THEN ToSet(AbslFiles)
                  ELSE UNION {ToSet(SPECS[d].files) : d \in DOMAIN SPECS \cap {unit}})
  /\ installed \subseteq ToSet(Configs) /\ published \in {Static(e) : e \in Exports} \cup {{}}
  /\ builds \in 0..MaxWebrtcBuilds

\* The files that the BUILD.gn files of WebRTC itself refer to.
OverlayFiles == UNION {{d.name} \X {f.name : f \in ToSet(SPECS[d.name].files)} : d \in Declared}
EntryPoints ==
  OverlayFiles
    \cup {<<"src", "all">>, <<"buildtools", "all">>, <<"abseil-cpp", "absl.gni">>,
          <<"abseil-cpp", "BUILD.gn">>}
    \cup ({"abseil-cpp"} \X LabelPaths) \cup ({"rnnoise"} \X ToSet(RnnoiseFiles)) \cup OwnFiles

\* What the text of the files that WebRTC refers to names in turn.
Named ==
  UNION {f.needs : f \in ToSet(AbslFiles) \cup UNION {ToSet(SPECS[d.name].files) : d \in Declared}}

\* When GN reads the tree, every file is there that WebRTC, an overlay or the
\* generated abseil imports or compiles: no generator has removed what another
\* one or the portfile had put below the same directory, and no kill of an
\* earlier build in the same tree is left to be seen, but for one that cut .gn
\* short.
NothingIsMissing ==
  place = "gn" => EntryPoints \cup Named \subseteq DOMAIN tree /\ dotgn \in {"patched", "torn"}

\* When GN reads the tree, every overlay links the libraries of the
\* configuration that is built, never the release ones in a debug build, and
\* the assembler has been filled in, whatever the tree held before.
RenderedForConfig ==
  place = "gn" =>
    /\ \A f \in DOMAIN tree : tree[f].libs # {} => tree[f].lib = Configs[config]
    /\ tree[<<"nasm", "nasm_assemble.gni">>].tool

\* The package tells its users to link the archives of the abseil that is
\* installed, and these are the ones its libraries were generated for, also
\* after abseil was upgraded and builds had stopped half way.
ExportsAgree ==
  place = "done" =>
    /\ installed = ToSet(Configs)
    /\ published = Static(exports) /\ published = tree[<<"abseil-cpp", "BUILD.gn">>].libs

\* A build that is not stopped from outside fails only for the labels or the
\* exports of abseil: what earlier builds did to the tree never makes the
\* portfile's own checks fail.
RebuildsSucceed ==
  place = "failed" => KnownTargets = {} \/ ~(RootLabels \subseteq ROOT_TARGETS)
=============================================================================
