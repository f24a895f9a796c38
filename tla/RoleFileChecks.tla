--------------------------- MODULE RoleFileChecks ---------------------------
(***************************************************************************)
(* A model, factory, view or controller file as it is written, statement   *)
(* by statement, and what the rule on it promises of a file it accepts.    *)
(* Only files that compile are written: no name is declared or exported    *)
(* twice.                                                                  *)
(***************************************************************************)
EXTENDS RoleFiles

CONSTANT MaxStatements

VARIABLE file

Roles == {"model", "factory", "view", "controller"}
Forms == {"function", "arrow", "schema", "value", "typeof", "type", "enum"}

OwnStem == <<"Foo", "Row">>
OtherStem == <<"Foo">>    \* of which FooRow may be a variant
StrangeStem == <<"Bar">>

OwnModel == Name(OwnStem, "Model")
OtherModel == Name(OtherStem, "Model")
Models == {OwnModel, OtherModel, Name(StrangeStem, "Model")}

Imports ==
    {ImportOf("pages", m.stem, m, kind) : m \in Models, kind \in {"value", "type"}} \cup
    {ImportOf("pages", OwnStem, OwnModel, "type-specifier"),
     ImportOf("controls", OwnStem, OwnModel, "value"),
     ImportOf("pages", OtherStem, OwnModel, "value"),
     ImportOf("none", <<>>, OwnModel, "type")}

\* Nothing but a form and a name.
plain(exported, form, name) == Declaration(exported, form, name, "none", NoName, NoName, NoName)

Exports(names) ==
    {ExportDefault} \cup {ExportAll(kind) : kind \in {"value", "type"}} \cup
    {ExportName(n, kind) : n \in names, kind \in {"value", "type"}}

ModelStatements ==
    Exports({OwnModel, OtherModel}) \cup
    {plain(exported, form, n) : exported \in BOOLEAN, n \in {OwnModel, OtherModel},
                                form \in Forms \ {"typeof", "enum"}} \cup
    {Declaration(TRUE, "typeof", OwnModel, "none", NoName, m, NoName) : m \in Models} \cup
    {plain(TRUE, form, Name(OwnStem, "makeModel")) : form \in {"arrow", "function"}}

FactoryStatements ==
    Imports \cup Exports({Name(OwnStem, "makeModel")}) \cup
    {Declaration(exported, form, Name(stem, "makeModel"), "none", NoName, of, makes) :
        exported \in BOOLEAN, form \in {"function", "arrow"}, stem \in {OwnStem, OtherStem},
        of \in {NoName, OwnModel, OtherModel}, makes \in {NoName, OwnModel}} \cup
    {plain(TRUE, form, Name(OwnStem, "makeModel")) : form \in {"value", "type", "enum"}}

ViewStatements ==
    Imports \cup Exports({Name(OwnStem, "View"), Name(OtherStem, "View")}) \cup
    {Declaration(exported, "arrow", Name(stem, "View"), parameter, m, NoName, NoName) :
        exported \in BOOLEAN, stem \in {OwnStem, OtherStem}, parameter \in {"model", "props"},
        m \in Models \cup {NoName}} \cup
    {plain(exported, form, Name(OwnStem, "View")) :
        exported \in BOOLEAN, form \in {"function", "value", "type", "enum"}}

ControllerStatements ==
    Exports({Name(OwnStem, "Controller")}) \cup
    {plain(exported, form, Name(stem, of)) : exported \in BOOLEAN, form \in Forms \ {"typeof"},
                       stem \in {OwnStem, OtherStem}, of \in {"Controller", "helper"}}

Statements == [model |-> ModelStatements, factory |-> FactoryStatements,
               view |-> ViewStatements, controller |-> ControllerStatements]

-----------------------------------------------------------------------------
\* Whether a statement declares or imports a name as a value, as a type or both.
meanings(s) ==
    CASE s.tag = "Import" -> {"value", "type"}
      [] s.tag = "Declaration" ->
            IF s.form = "enum" THEN {"value", "type"}
            ELSE IF s.form \in {"typeof", "type"} THEN {"type"} ELSE {"value"}
      [] OTHER -> {}

\* What other files can import by it.
visible(s) ==
    CASE s.tag = "ExportDefault" -> {"value"}
      [] s.tag \in {"ExportAll", "ExportName"} -> {s.kind}
      [] s.tag = "Declaration" /\ s.exported -> meanings(s)
      [] OTHER -> {}

clash(s, t) ==
    \/ s.tag = "ExportDefault" /\ t.tag = "ExportDefault"
    \/ /\ s.tag \notin {"ExportDefault", "ExportAll"} /\ t.tag \notin {"ExportDefault", "ExportAll"}
       /\ s.name = t.name
       /\ \/ meanings(s) \cap meanings(t) # {}
          \/ "ExportName" \in {s.tag, t.tag} /\ visible(s) # {} /\ visible(t) # {}

NoFile == [role |-> "none", layer |-> "pages", stem |-> OwnStem, body |-> <<>>]

InitFiles == \E role \in Roles : file = [NoFile EXCEPT !.role = role]

Write ==
    /\ file.role \in Roles /\ Len(file.body) < MaxStatements
    /\ \E s \in Statements[file.role] :
            /\ \A i \in DOMAIN file.body : ~ clash(file.body[i], s)
            /\ file' = [file EXCEPT !.body = Append(@, s)]

-----------------------------------------------------------------------------
accepted(f) == f.role \in Roles /\ check(f) = {}

(***************************************************************************)
(* A file the rule accepts owns what its name says: a model file shows its *)
(* schema and the type of it, and declares no other schema and no function *)
(* for others; all that a factory file shows are functions that return its *)
(* model, the maker among them; a view file shows its view, of a model     *)
(* imported from the file of a stem the view's begins with, and no types;  *)
(* and a controller file shows one value, a controller.                    *)
(***************************************************************************)
AcceptedFilesOwnTheirThing ==
    LET body == {file.body[i] : i \in DOMAIN file.body}
        declared(form, name) ==
            {s \in body : s.tag = "Declaration" /\ s.form \in form /\ visible(s) # {} /\ s.name \in name}
        shown(meaning) == {s \in body : meaning \in visible(s)}
    IN  accepted(file) =>
        CASE file.role = "model" ->
                /\ \A s \in body : s \in shown("value") /\ s.tag = "Declaration" =>
                        /\ s.form # "function"
                        /\ s.form = "schema" => s.name = OwnModel
                /\ declared({"schema"}, {OwnModel}) # {} /\ declared({"typeof"}, {OwnModel}) # {}
          [] file.role = "factory" ->
                /\ declared({"function", "arrow"}, {Name(OwnStem, "makeModel")}) # {}
                /\ \A s \in body : visible(s) # {} =>
                        s.tag = "Declaration" /\ s.form \in {"function", "arrow"} /\ s.of = OwnModel
          [] file.role = "view" ->
                /\ shown("type") = {}
                /\ \E s \in shown("value") : s.tag # "ExportDefault" /\ s.tag # "ExportAll" /\
                                             s.name = Name(OwnStem, "View")
                /\ \E s \in body, i \in body :
                        /\ s.tag = "Declaration" /\ s.name = Name(OwnStem, "View")
                        /\ i.tag = "Import" /\ i.name = s.viewOf /\ i.name = Name(i.stem, "Model")
                        /\ i.stem \in {OwnStem, OtherStem}
          [] file.role = "controller" ->
                \E s \in body : /\ shown("value") = {s}
                                /\ s.tag = "Declaration" /\ s.name.of = "Controller"

(***************************************************************************)
(* What a file keeps to itself is its own business: private helpers, other *)
(* schemas and views of other names among them, and imports, never make an *)
(* accepted file a refused one.                                            *)
(***************************************************************************)
PrivateStatementsKeepAccepted ==
    [][accepted(file) /\ visible(Last(file'.body)) = {} => accepted(file')]_file

SpecFiles == InitFiles /\ [][Write]_file
=============================================================================
