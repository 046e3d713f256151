CONSTANTS
  Hosts <- MCHosts
  Labels <- MCLabels
  Exports <- MCExports
  MaxWebrtcBuilds = 2
SPECIFICATION WebrtcSpec
INVARIANTS WebrtcTypeOK NothingIsMissing RenderedForConfig ExportsAgree RebuildsSucceed
CHECK_DEADLOCK FALSE
