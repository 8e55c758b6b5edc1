---------------------------- MODULE MCCheckRun ----------------------------
(***************************************************************************)
(* CheckRun on a catalog with one rule of each kind that is treated        *)
(* differently: decided by import-linter, a core rule, a binding one and a   *)
(* SHOULD; among the scanned ones a core rule and the context graph's; a   *)
(* heuristic one, one left to review and one nobody implements.            *)
(***************************************************************************)
EXTENDS Integers, CheckRun

CONSTANTS layers, commons, cycles, clock, graph, schema, review, orphan

MCLinted == {layers, commons, cycles}
MCScanned == {clock, graph}
MCSketched == {schema}
MCReviewed == {review}
MCUnimplemented == {orphan}
MCBinding == {layers, commons, clock, graph, schema, review}
MCCore == {layers, clock}

\* The packaged catalog, one with a rule nobody implements, and a
\* project-local one that lacks a rule two checks ask it for.
Packaged == {layers, commons, cycles, clock, graph, schema, review}
Catalogs == {Packaged, Packaged \cup {orphan}, Packaged \ {layers, graph}}

\* Up to MaxAdrs waivers, of one linted and one scanned binding rule.
MaxAdrs == 2
WaiverSets == {adrs \in SUBSET [waives : {layers, clock}, expires : Expiries] :
                 Cardinality(adrs) <= MaxAdrs}

\* Scannable projects with every mix of violations and waivers, and every way
\* in which a run ends before it has judged any.
MCProjects ==
    [scannable : {TRUE}, parses : {TRUE}, rules : {"catalog"}, catalog : Catalogs,
     applies : {{clock, schema} \cup a : a \in SUBSET {layers, commons, cycles, graph}},
     violates : SUBSET {layers, commons, cycles, clock, schema},
     adrs : WaiverSets, coreOnly : BOOLEAN]
    \cup
    [scannable : BOOLEAN, parses : BOOLEAN, rules : {"catalog", "foreign", "malformed"},
     catalog : Catalogs, applies : {{clock}, {clock, layers}}, violates : {{}},
     adrs : {{}, {[waives |-> layers, expires |-> "later"]}}, coreOnly : BOOLEAN]
=============================================================================
