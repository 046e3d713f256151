-------------------------- MODULE MCExtractSource --------------------------
(***************************************************************************)
(* A small instance of ExtractSource: three calls, one after the other, of *)
(* an archive with two patches of which one applies.                       *)
(***************************************************************************)
EXTENDS ExtractSource

CONSTANTS a, bare, fits, also, fails

MCApplies == [x \in {a, bare} |-> {fits, also}]

Args(archive, patches, quiet, editable) ==
  [archive |-> archive, patches |-> patches, missing |-> FALSE, flat |-> FALSE,
   quiet |-> quiet, editable |-> editable]

MCOffered ==
  {Args(a, <<fits, also>>, FALSE, e) : e \in BOOLEAN}
    \cup {Args(a, <<fails, fits>>, q, e) : q, e \in BOOLEAN}
    \cup {Args(bare, <<>>, FALSE, FALSE),
          [Args(bare, <<fits>>, FALSE, FALSE) EXCEPT !.flat = TRUE],
          [Args(a, <<fits>>, FALSE, FALSE) EXCEPT !.missing = TRUE]}
=============================================================================
