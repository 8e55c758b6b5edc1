-------------------------- MODULE MCCatalogRelease --------------------------
(***************************************************************************)
(* CatalogRelease on one or two rules, each in a file of its own, the      *)
(* first naming the second, and on versions on both sides of a patch, a    *)
(* minor and a major.                                                      *)
(***************************************************************************)
EXTENDS CatalogRelease

CONSTANTS first, second

FileOfEach == [r \in Rules |-> IF r = first THEN 1 ELSE FileCount]
FirstNamesSecond == [r \in Rules |-> IF r = first THEN Rules \ {first} ELSE {}]

MCFirstVersion == <<1, 0, 0>>
MCVersions == {<<1, 0, 0>>, <<1, 0, 1>>, <<1, 1, 0>>, <<2, 0, 0>>}
=============================================================================
