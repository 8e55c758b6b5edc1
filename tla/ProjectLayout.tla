--------------------------- MODULE ProjectLayout ---------------------------
(***************************************************************************)
(* What the checks know of a project (checks/base.py ProjectLayout): its   *)
(* contexts and their aggregate modules, found by the names of             *)
(* directories. A file is the sequence of the names of its path below src, *)
(* a directory a prefix of one. Nothing here asks what kind of file a      *)
(* directory holds: Path.is_dir() is true of one with no Python module. A  *)
(* directory with nothing in it counts as one that holds such a file.      *)
(***************************************************************************)
EXTENDS Naturals, Sequences, SequencesExt

CONSTANT Hidden     \* names that begin with a dot or an underscore

VARIABLE files      \* below src: Python modules, and others

NonContextDirs == {"commons", "bootstrap"}
Reserved == {"entrypoints", "read"}
Layers == {"domain", "application", "adapters"}

Within(module, dir) == IsPrefix(dir, module)

IsDir(dir) == \E f \in files : IsStrictPrefix(dir, f)

\* The names of the directories in a directory.
Subdirs(dir) ==
    {f[Len(dir) + 1] : f \in {g \in files : IsPrefix(dir, g) /\ Len(g) > Len(dir) + 1}}

HasModuleLayer(dir) == \E layer \in Layers : IsDir(Append(dir, layer))

Contexts ==
    {c \in Subdirs(<<>>) \ (NonContextDirs \cup Hidden) :
        \/ IsDir(<<c, "entrypoints">>)
        \/ \E m \in Subdirs(<<c>>) \ Reserved : HasModuleLayer(<<c, m>>)}

Modules(c) ==
    {m \in Subdirs(<<c>>) \ (Reserved \cup Hidden) : HasModuleLayer(<<c, m>>)}

IsScannable == Contexts # {}
=============================================================================
