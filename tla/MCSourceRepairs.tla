-------------------------- MODULE MCSourceRepairs --------------------------
(***************************************************************************)
(* SourceRepairs on a small sound project with flaws: every choice of up   *)
(* to MaxFlaws of them, of one more of those that meet; and with a         *)
(* commit() in every nesting of functions and with statements up to        *)
(* MaxNesting.                                                             *)
(***************************************************************************)
EXTENDS SourceRepairs

CONSTANTS MaxFlaws, MaxNesting

In(dir, stem) == Append(dir, stem)
Marks(path, marks) == [Blank(path) EXCEPT !.marks = marks]
Uses(path, uses) == [Blank(path) EXCEPT !.uses = uses]
Root(path, class) == [Blank(path) EXCEPT !.classes = {class}]
Inits(dirs) == {Blank(In(dir, "__init__")) : dir \in dirs}

Orders == <<"sales", "orders">>
Users == <<"sales", "users">>
Model == ModelDir(Orders)
Aggregate == In(Model, "aggregate")
App == In(Orders, "application")

Sound ==
    [sources |-> {Root(Aggregate, "order"), Blank(<<"sales", "entrypoints", "cli">>)}
                 \cup Inits({<<"sales">>, Orders, DomainDir(Orders), Model,
                             <<"sales", "entrypoints">>}),
     tests |-> {Uses(In(Model, "test_order"), {Aggregate}),
                Marks(<<"fixtures", "project", "test_order">>, {"ARCH-040"})}]

Flaw(files, itsTests) == [sources |-> files, tests |-> itsTests]

TwoRoots ==
    Flaw({[Root(In(Model, "line"), "line") EXCEPT !.marks = {"ARCH-019"}]},
         {Uses(In(Model, "test_line"), {In(Model, "line")})})

MisnamedRoot ==
    Flaw({Root(In(ModelDir(Users), "user"), "user"),
          [Blank(In(ModelDir(Users), "ports")) EXCEPT !.queries = {"user"}]}, {})

MisnamedService ==
    Flaw({Marks(DomainDir(Orders) \o <<"services", "pricing">>, {"ARCH-004"})},
         {Uses(In(DomainDir(Orders), "test_pricing"),
               {DomainDir(Orders) \o <<"services", "pricing">>})})

WideEntrypoint ==
    Flaw({Uses(<<"sales", "entrypoints", "web">>,
               {Aggregate, In(ModelDir(Users), "user"), In(Model, "line")})},
         {Uses(<<"sales", "entrypoints", "test_web">>, {<<"sales", "entrypoints", "web">>})})

\* Flaws that meet: modules come and go, and what refers to them follows.
Meeting == {TwoRoots, MisnamedRoot, MisnamedService, WideEntrypoint}

Flaws ==
    Meeting \cup
    { \* in the model of a module
      Flaw({Marks(In(Model, "value_objects"), {"ARCH-003", "ARCH-031"}),
            Marks(In(Model, "events"), {"ARCH-023"})}, {}),
      Flaw({Marks(Aggregate, {"ARCH-018", "ARCH-041"})}, {}),
      Flaw({[Blank(In(Model, "ports")) EXCEPT !.queries = {"order", "summary"}]}, {}),
      \* services, application, adapters
      Flaw({Marks(In(DomainDir(Orders), "services"), {"ARCH-028"}),
            [Marks(In(App, "orders"), {"ARCH-030", "ARCH-053"}) EXCEPT
                 !.uses = {In(DomainDir(Orders), "services")}]}, {}),
      Flaw({Marks(<<"sales", "application", "checkout">>, {"ARCH-030", "ARCH-053"})},
           {Uses(<<"sales", "application", "test_checkout">>,
                 {<<"sales", "application", "checkout">>})}),
      Flaw({Blank(In(Orders, "infrastructure") \o <<"repository">>)},
           {Uses(In(Orders, "infrastructure") \o <<"test_repository">>,
                 {In(Orders, "infrastructure") \o <<"repository">>})}),
      \* commons
      Flaw({Marks(<<"commons", "pricing">>, {"service", "ARCH-003"})},
           {Uses(<<"commons", "test_pricing">>, {<<"commons", "pricing">>})}),
      Flaw({Marks(<<"commons", "services">>, {"service", "mutates", "ARCH-053"}),
            Blank(<<"commons", "__init__">>)}, {}),
      Flaw({Marks(<<"commons", "adapters", "cache">>, {"ARCH-003"}),
            Blank(<<"commons", "adapters", "__init__">>),
            Marks(<<"commons", "geo", "area">>, {"mutates"})}, {}),
      \* other modules, and what is outside of them
      Flaw({Blank(<<"sales", "carts", "application", "carts">>)}, {}),
      Flaw({Marks(<<"bootstrap", "container">>, {"ARCH-059"})}, {}),
      Flaw({}, {[Uses(<<"sales", "test_flat">>, {Aggregate}) EXCEPT !.marks = {"ARCH-040"}]}) }

Project(flaws) ==
    [sources |-> Merged({}, Sound.sources \cup UNION {flaw.sources : flaw \in flaws}),
     tests |-> Sound.tests \cup UNION {flaw.tests : flaw \in flaws}]

FlawedProjects ==
    {Project(flaws) :
        flaws \in {fs \in SUBSET Flaws : Cardinality(fs) <= MaxFlaws}
                  \cup {fs \in SUBSET Meeting : Cardinality(fs) <= MaxFlaws + 1}}

\* Functions, with statements as name and as expression, an if or a lambda.
Frames ==
    {[kind |-> "def", opens |-> {}], [kind |-> "other", opens |-> {}],
     UowBlock, [kind |-> "with", opens |-> {"self._uow"}]}

Commits ==
    [chain : UNION {[1 .. n -> Frames] : n \in 0 .. MaxNesting}, receiver : Names]

CommittingProjects ==
    {Project({Flaw({[Blank(In(App, "orders")) EXCEPT !.commits = {c}]} \cup Inits({App}), {})}) :
        c \in Commits}

MCProjects == FlawedProjects \cup CommittingProjects
=============================================================================
