----------------------------- MODULE MCDistFile -----------------------------
(***************************************************************************)
(* Small instances of DistFile: one FILENAME "tgz" that several ports use, *)
(* that name with the first characters of h1 in it, which one port also    *)
(* uses as its own FILENAME, and with those of h2 and of "0", taken to be  *)
(* the same 8 characters.                                                  *)
(***************************************************************************)
EXTENDS DistFile, TLC

MCFiles == {"tgz", "tgz-1", "tgz-2", "tgz-1-1"}
MCHashes == {"h1", "h2"}
MCAlt == [fh \in MCFiles \X (MCHashes \cup {"0"}) |->
            CASE fh[1] = "tgz" /\ fh[2] = "h1" -> "tgz-1"
              [] fh[1] = "tgz" /\ fh[2] # "h1" -> "tgz-2"
              [] OTHER -> "tgz-1-1"]

Pin(name, sha, nohash) ==
  [name |-> name, sha |-> sha, skip |-> FALSE, always |-> FALSE,
   noDownloads |-> FALSE, noHashCheck |-> nohash]
Loose(always, offline) ==
  [name |-> "tgz", sha |-> "absent", skip |-> TRUE, always |-> always,
   noDownloads |-> offline, noHashCheck |-> FALSE]

MCOffered ==
  {Pin("tgz", h, n) : h \in {"h1", "h2", "0"}, n \in BOOLEAN}
    \cup {Pin("tgz-1", "h1", FALSE)}
    \cup {Loose(a, d) : a, d \in BOOLEAN}
    \cup {[Pin("tgz", "h1", FALSE) EXCEPT !.always = TRUE],
          [Pin("tgz", "h1", FALSE) EXCEPT !.noDownloads = TRUE]}
=============================================================================
