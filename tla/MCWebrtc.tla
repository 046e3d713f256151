------------------------------ MODULE MCWebrtc ------------------------------
(***************************************************************************)
(* All overlays, a few labels of abseil, and three exports of it: one with *)
(* a test library, which is to be left out, an older one, and one that has *)
(* no static libraries to offer.                                           *)
(***************************************************************************)
EXTENDS Webrtc

MCHosts == {[platform |-> "linux", dse |-> FALSE], [platform |-> "windows", dse |-> TRUE],
            [platform |-> "macos", dse |-> TRUE]}

T(name, kind, forbidden) == [name |-> name, kind |-> kind, forbidden |-> forbidden]

MCLabels ==
  {[path |-> "", target |-> "absl"], [path |-> "absl/base", target |-> "config"],
   [path |-> "absl/base", target |-> "core_headers"],
   [path |-> "absl/strings", target |-> "string_view"]}

MCExports ==
  {{T("base", "STATIC", FALSE), T("config", "INTERFACE", FALSE), T("test", "STATIC", TRUE)},
   {T("base", "STATIC", FALSE), T("strings", "STATIC", FALSE)},
   {T("dll", "SHARED", FALSE)}}
=============================================================================
