----------------------------- MODULE WebrtcSpecs -----------------------------
(***************************************************************************)
(* The overlays that ports/webrtc/generate_external_third_party.py writes  *)
(* in the place of libraries that WebRTC would build itself.               *)
(*                                                                         *)
(* A unit is a directory of the source tree with one owner, an overlay or  *)
(* something the portfile puts there.  A file is named by its unit and its *)
(* name, without the directories in between where it is clear without      *)
(* them.  Of its text is kept what other files must exist for it (GN       *)
(* imports and sources, includes in quotes), the library that a lib_root   *)
(* placeholder is there for, and whether it has a tool_path placeholder.   *)
(* include_root stands for one directory in all builds and is left out.    *)
(***************************************************************************)
EXTENDS Sequences, SequencesExt, FiniteSets

\* A file without needs or placeholders.
Text(name) == [name |-> name, needs |-> {}, libs |-> {}, tool |-> FALSE]

Needing(name, needs) == [Text(name) EXCEPT !.needs = needs]

Texts(names) == [i \in DOMAIN names |-> Text(names[i])]

\* make_header_forwarder
Forwarders(headers) == Texts(headers)

\* make_trivial_group_build_gn and make_config_only_build_gn
BuildGn == Text("BUILD.gn")

\* make_linked_source_set_build_gn, for sources of the same unit
Linked(dep, lib, sources) ==
  [name |-> "BUILD.gn", needs |-> {dep} \X ToSet(sources), libs |-> {lib}, tool |-> FALSE]

Overlay(root, files) == [root |-> root, preserve_root |-> FALSE, files |-> files]

ThirdParty(dir, files) == Overlay(<<"third_party", dir>>, files)

\* An overlay of headers and the source_set that lists them.
LinkedHeaders(dep, lib, headers) ==
  ThirdParty(dep, <<Linked(dep, lib, headers)>> \o Forwarders(headers))

-----------------------------------------------------------------------------
LIBSRTP_OPTIONS_GNI == Text("options.gni")

LibSrtp ==
  ThirdParty("libsrtp",
    <<LIBSRTP_OPTIONS_GNI,
      [Linked("libsrtp", "srtp2", <<"srtp.h">>) EXCEPT
         !.needs = @ \cup {<<"libsrtp", "options.gni">>}],
      Text("srtp.h")>>)

Opus ==
  LinkedHeaders("opus", "opus",
    <<"opus.h", "opus_defines.h", "opus_multistream.h", "opus_types.h">>)

LibVpx ==
  LinkedHeaders("libvpx", "vpx",
    <<"vp8.h", "vp8cx.h", "vp8dx.h", "vpx_codec.h", "vpx_decoder.h", "vpx_encoder.h",
      "vpx_ext_ratectrl.h", "vpx_frame_buffer.h", "vpx_image.h", "vpx_integer.h">>)

LibYuv ==
  LinkedHeaders("libyuv", "yuv",
    <<"compare.h", "convert.h", "convert_from.h", "planar_functions.h", "rotate.h",
      "rotate_argb.h", "scale.h", "video_common.h">>)

\* It imports what the portfile writes into build/ as gclient_args.gni.
LIBAOM_OPTIONS_GNI ==
  Needing("options.gni",
    {"build"} \X {"config/cast.gni", "config/chromeos/ui_mode.gni", "config/gclient_args.gni"})

LIBAOM_BUILD_GN ==
  Linked("libaom", "aom", <<"aom_codec.h", "aom_encoder.h", "aom_image.h", "aomcx.h">>)

LibAom ==
  ThirdParty("libaom",
    <<LIBAOM_OPTIONS_GNI, LIBAOM_BUILD_GN>>
      \o Forwarders(<<"aom_codec.h", "aom_encoder.h", "aom_image.h">>) \o <<Text("aomcx.h")>>)

JsonCpp == LinkedHeaders("jsoncpp", "jsoncpp", <<"jsoncpp_shim.h">>)

Dav1d == ThirdParty("dav1d", <<BuildGn>>)

LlvmLibc == ThirdParty("llvm-libc", <<BuildGn>>)

Protobuf == ThirdParty("protobuf", <<BuildGn, Text("proto_library.gni")>>)

Pffft == LinkedHeaders("pffft", "pffft", <<"pffft.h">>)

Alsa == ThirdParty("alsa", <<BuildGn>>)

PulseAudio == ThirdParty("pulseaudio", <<BuildGn>>)

\* The one overlay that does not own its root.
ThirdPartyRoot == [Overlay(<<"third_party">>, <<BuildGn>>) EXCEPT !.preserve_root = TRUE]

Testing ==
  Overlay(<<"testing">>, Texts(<<"BUILD.gn", "test.gni", "gtest/BUILD.gn", "gmock/BUILD.gn">>))

GOOGLETEST_BUILD_GN ==
  Needing("BUILD.gn",
    {"googletest"} \X {"gtest.h", "gtest.cc", "gtest_main.cc", "gmock.h", "gmock.cc",
                       "gmock_main.cc"})

\* shims are the files that no generated file names.
GoogleTest ==
  ThirdParty("googletest",
    <<GOOGLETEST_BUILD_GN>> \o Texts(<<"shims", "gtest.h", "gtest.cc", "gtest_main.cc",
                                       "gmock-function-mocker.h">>)
      \o <<Needing("gmock.h", {<<"googletest", "gmock-function-mocker.h">>})>>
      \o Texts(<<"gmock.cc", "gmock_main.cc">>))

Catapult ==
  ThirdParty("catapult",
    Texts(<<"tracing/BUILD.gn", "tracing/tracing/BUILD.gn", "tracing/tracing/proto/BUILD.gn">>))

Tools ==
  Overlay(<<"tools">>,
    Texts(<<"clang/scripts/update.py", "generate_stubs/generate_stubs.py",
            "generate_stubs/rules.gni", "rust/update_rust.py">>))

\* Its imports, without the one for macOS.
NASM_ASSEMBLE_GNI ==
  [Needing("nasm_assemble.gni",
     {"build"} \X {"compiled_action.gni", "config/ios/config.gni",
                   "config/ios/ios_sdk_overrides.gni", "config/sanitizers/sanitizers.gni"})
   EXCEPT !.tool = TRUE]

Nasm == ThirdParty("nasm", <<BuildGn, NASM_ASSEMBLE_GNI>>)

SPECS ==
  [libsrtp |-> LibSrtp, opus |-> Opus, libvpx |-> LibVpx, libyuv |-> LibYuv,
   libaom |-> LibAom, jsoncpp |-> JsonCpp, dav1d |-> Dav1d, llvm_libc |-> LlvmLibc,
   protobuf |-> Protobuf, pffft |-> Pffft, alsa |-> Alsa, pulseaudio |-> PulseAudio,
   third_party_root |-> ThirdPartyRoot, testing |-> Testing, googletest |-> GoogleTest,
   catapult |-> Catapult, tools |-> Tools, nasm |-> Nasm]
=============================================================================
