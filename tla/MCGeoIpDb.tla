------------------------------ MODULE MCGeoIpDb -----------------------------
(***************************************************************************)
(* Instances of GeoIpDb for TLC.  Contents are chosen around the gate:     *)
(* "b" is exactly four fifths of "a" and newer, "c" is one byte less than  *)
(* that and newer still, "d" as old as "a" and larger, "z" does not decode.*)
(* "h" is so large that 100 * len saturates: it belongs to the instance    *)
(* with two reloaders.                                                     *)
(***************************************************************************)
EXTENDS GeoIpDb, TLC

Contents == {"a", "b", "c", "d"}
HugeContents == {"a", "b", "c", "h"}
SomeBytes == Contents \union {"z"}
HugeBytes == HugeContents \union {"z"}

EpochTable == [a |-> 1, b |-> 2, c |-> 3, d |-> 1, h |-> 2]
LengthTable == [a |-> 100, b |-> 80, c |-> 79, d |-> 101, h |-> 130]

EpochOf == [b \in Contents |-> EpochTable[b]]
LengthOf == [b \in Contents |-> LengthTable[b]]
HugeEpochOf == [b \in HugeContents |-> EpochTable[b]]
HugeLengthOf == [b \in HugeContents |-> LengthTable[b]]

\* One address every database but "c" knows.
SomeIps == {"x"}
SomeLocations == {"in_a", "in_b", "in_d", "in_h"}
LocationTable == [a |-> "in_a", b |-> "in_b", c |-> None, d |-> "in_d", h |-> "in_h"]
LocateOf == [b \in Contents |-> [i \in SomeIps |-> LocationTable[b]]]
HugeLocateOf == [b \in HugeContents |-> [i \in SomeIps |-> LocationTable[b]]]

ReloaderSymmetry == Permutations(Reloaders)
=============================================================================
