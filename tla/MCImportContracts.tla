------------------------- MODULE MCImportContracts -------------------------
(***************************************************************************)
(* ImportContracts on projects made of a full aggregate module and other   *)
(* parts: every choice of parts with one import at most, and large         *)
(* projects with chains of imports.                                        *)
(***************************************************************************)
EXTENDS ImportContracts

Orders == {<<"sales", "orders", layer, "order">> : layer \in Layers}
Users == {<<"sales", "users", "domain", "user">>, <<"sales", "users", "adapters", "user">>}
Entrypoints == {<<"sales", "entrypoints", "web", "order">>, <<"sales", "entrypoints", "cli">>}
WebInit == {<<"sales", "entrypoints", "web", "__init__">>, <<"sales", "entrypoints", "cli">>}
Read == {<<"sales", "read", "overview">>}
Queries == {<<"sales", "read", "overview.sql">>}
Billing == {<<"billing", "entrypoints", "web">>}
Leftovers == {<<"billing", "entrypoints", "__pycache__", "web.pyc">>}
Drafts == {<<"billing", "_drafts", "domain", "invoice">>}
OwnCommons == {<<"commons", "geo">>, <<"commons", "adapters", "cache">>}
Vendored == {<<"commons", "types", "ids">>, <<"commons", "geo">>}
Bootstrap == {<<"bootstrap", "container">>}

\* Files that are no Python modules.
Others == Queries \cup Leftovers

Parts == {Users, Entrypoints, WebInit, Read, Queries, Billing, Leftovers, Drafts,
          OwnCommons, Vendored, Bootstrap}

Project(parts, installed, maxImports) ==
    LET files == Orders \cup UNION parts
    IN  [modules |-> files \ Others, others |-> files \cap Others,
         installed |-> installed, maxImports |-> maxImports]

\* One import at most, and every choice of up to three parts.
SmallProjects ==
    {Project(parts, installed, 1) :
        parts \in {p \in SUBSET Parts : Cardinality(p) <= 3}, installed \in BOOLEAN}

\* Chains of two imports, over any two parts.
ChainProjects ==
    {Project(parts, TRUE, 2) : parts \in {p \in SUBSET Parts : Cardinality(p) <= 2}}

\* Chains of three, over one part.
LongChainProjects == {Project({Read}, FALSE, 3)}

MCProjects == SmallProjects \cup ChainProjects \cup LongChainProjects
=============================================================================
