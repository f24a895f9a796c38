----------------------------- MODULE RoleFiles -----------------------------
(***************************************************************************)
(* The lint rule mvc-one-export-per-role-file: what it reports of a model, *)
(* factory, view or controller file of the web package.  A file is its     *)
(* role, layer and stem and a sequence of statements; a name is a stem, a  *)
(* sequence of words, and what it is the name of.  One statement imports,  *)
(* exports or declares one name.                                           *)
(***************************************************************************)
EXTENDS SequencesExt, Naturals

Name(stem, of) == [stem |-> stem, of |-> of]
NoName == Name(<<>>, "nothing")

\* kind: of a "value", of a "type", or, of an import, a "type-specifier" among others.
\* What is not imported from a model file has the stem <<>>.  Nothing is renamed.
ImportOf(layer, stem, name, kind) ==
    [tag |-> "Import", layer |-> layer, stem |-> stem, name |-> name, kind |-> kind]
ExportDefault == [tag |-> "ExportDefault"]
ExportAll(kind) == [tag |-> "ExportAll", kind |-> kind]
ExportName(name, kind) == [tag |-> "ExportName", name |-> name, kind |-> kind]

\* form: function, arrow, schema (Schema.Union and the like), value, typeof, type or enum.
\* parameter: the first one's name.  viewOf: the model of an annotation View<model>.
\* of: what a typeof is of, or the model that a function returns.  makes: a model it makes.
Declaration(exported, form, name, parameter, viewOf, of, makes) ==
    [tag |-> "Declaration", exported |-> exported, form |-> form, name |-> name,
     parameter |-> parameter, viewOf |-> viewOf, of |-> of, makes |-> makes]

stemOwnership(stem) ==
    [modelName |-> Name(stem, "Model"), factoryName |-> Name(stem, "makeModel"),
     viewName |-> Name(stem, "View")]

having(file, P(_)) == {i \in DOMAIN file.body : P(file.body[i])}
some(file, P(_)) == having(file, P) # {}
declares(s, forms) == s.tag = "Declaration" /\ s.form \in forms
exports(s, forms) == declares(s, forms) /\ s.exported
messageIf(fault, message) == IF fault THEN {message} ELSE {}

-----------------------------------------------------------------------------
(***************************************************************************)
(* Models.                                                                 *)
(***************************************************************************)
exportedSchema(s) == exports(s, {"schema"})
exportedModelType(s) == exports(s, {"typeof"})
exportedFactory(s) ==
    \/ exports(s, {"function"})
    \/ exports(s, {"arrow", "schema", "value"}) /\ s.name.of = "makeModel"

modelMessages(file) ==
    LET modelName == stemOwnership(file.stem).modelName
    IN  messageIf(~ some(file, LAMBDA s : exportedSchema(s) /\ s.name = modelName),
                  "modelMissingModel") \cup
        messageIf(~ some(file, LAMBDA s : exportedModelType(s) /\ s.name = modelName
                                                              /\ s.of = modelName),
                  "modelMissingType") \cup
        messageIf(some(file, exportedFactory), "modelFactoryInModel") \cup
        messageIf(some(file, LAMBDA s : exportedSchema(s) /\ s.name # modelName),
                  "modelMultipleModels")

-----------------------------------------------------------------------------
(***************************************************************************)
(* Factories.                                                              *)
(***************************************************************************)
Variables == {"arrow", "schema", "value"}

bindingKind(s) ==
    CASE s.tag \in {"ExportDefault", "ExportAll"} -> s.tag
      [] s.tag = "ExportName" -> IF s.kind = "type" THEN "type-export" ELSE "re-export"
      [] exports(s, {"typeof", "type"}) -> "type-export"
      [] exports(s, {"function"}) -> "function"
      [] exports(s, {"enum"}) -> "non-function"
      [] exports(s, Variables) -> "variable"
      [] OTHER -> "none"

isExportedFunction(s) ==
    \/ bindingKind(s) = "function"
    \/ bindingKind(s) = "variable" /\ s.form = "arrow"

importsOwnedModel(file) ==
    some(file, LAMBDA s : /\ s.tag = "Import" /\ s.layer = file.layer /\ s.stem = file.stem
                          /\ s.name = stemOwnership(file.stem).modelName
                          /\ s.kind # "type-specifier")

programCallsOwnedConstructor(file) ==
    some(file, LAMBDA s : s.tag = "Declaration" /\ s.makes = stemOwnership(file.stem).modelName)

ownedFactoryBindings(file) ==
    having(file, LAMBDA s : bindingKind(s) \in {"function", "variable"}
                                /\ s.name = stemOwnership(file.stem).factoryName)

\* Mutant: a function is fine, whatever it returns.
reportBindingOfFunction(s, modelName) ==
    CASE bindingKind(s) = "none" -> {}
      [] bindingKind(s) = "type-export" -> {"factoryTypeExport"}
      [] OTHER -> messageIf(~ isExportedFunction(s), "factoryInvalidExport")

reportBinding(s, modelName) ==
    CASE bindingKind(s) = "none" -> {}
      [] bindingKind(s) = "type-export" -> {"factoryTypeExport"}
      [] isExportedFunction(s) -> messageIf(s.of # modelName, "factoryInvalidReturnType")
      [] OTHER -> {"factoryInvalidExport"}

factoryMessages(file) ==
    messageIf(Cardinality(ownedFactoryBindings(file)) # 1, "factoryMissingFactory") \cup
    messageIf(~ importsOwnedModel(file), "factoryMissingImport") \cup
    messageIf(~ programCallsOwnedConstructor(file), "factoryMissingConstructor") \cup
    UNION {reportBinding(file.body[i], stemOwnership(file.stem).modelName) : i \in DOMAIN file.body}

-----------------------------------------------------------------------------
(***************************************************************************)
(* Views.                                                                  *)
(***************************************************************************)
exportsName(s, name) ==
    \/ s.tag = "ExportName" /\ s.name = name
    \/ exports(s, {"function"} \cup Variables) /\ s.name = name

exportsType(s) ==
    \/ s.tag \in {"ExportAll", "ExportName"} /\ s.kind = "type"
    \/ exports(s, {"typeof", "type", "enum"})

\* An exported function is not looked into, and a function has no annotation.
viewDeclaration(s) ==
    /\ declares(s, {"function", "arrow"})
    /\ s.name.of = "View"
    /\ s.form = "function" => ~ s.exported

\* Mutant: a view is a view, whatever its name.
ownedViewsOfAnyName(file) == having(file, viewDeclaration)

ownedViews(file) ==
    having(file, LAMBDA s : viewDeclaration(s) /\ s.name = stemOwnership(file.stem).viewName)

viewTypeModelName(s) == IF s.form = "arrow" THEN s.viewOf ELSE NoName

\* The first import from a model file of some layer that brings the name in.
importsForModelName(file, name) ==
    having(file, LAMBDA s : s.tag = "Import" /\ s.stem # <<>> /\ s.name = name)

viewOwnershipFromModelStem(viewStem, modelStem) == IsPrefix(modelStem, viewStem)

validModelImport(file, modelName) ==
    LET imports == importsForModelName(file, modelName)
    IN  /\ imports # {}
        /\ LET modelStem == file.body[Min(imports)].stem
           IN  /\ viewOwnershipFromModelStem(file.stem, modelStem)
               /\ modelName = Name(modelStem, "Model")

\* Mutant: any model will do, imported or not.
viewFaultOfAnyModel(file) ==
    IF Cardinality(ownedViews(file)) # 1 THEN {"viewOneView"}
    ELSE LET view == file.body[Min(ownedViews(file))]
         IN  IF view.parameter # "model" THEN {"viewInvalidParameter"}
             ELSE IF viewTypeModelName(view) = NoName THEN {"viewInvalidViewType"}
             ELSE messageIf(~ some(file, LAMBDA s : exportsName(s, view.name)), "viewNotExported")

\* The first fault that is met.  The view was found by its name, which is never wrong.
viewFault(file) ==
    IF Cardinality(ownedViews(file)) # 1 THEN {"viewOneView"}
    ELSE LET view == file.body[Min(ownedViews(file))]
         IN  IF view.parameter # "model" THEN {"viewInvalidParameter"}
             ELSE IF viewTypeModelName(view) = NoName THEN {"viewInvalidViewType"}
             ELSE IF ~ validModelImport(file, viewTypeModelName(view)) THEN {"viewInvalidModel"}
             ELSE messageIf(~ some(file, LAMBDA s : exportsName(s, view.name)), "viewNotExported")

viewMessages(file) == messageIf(some(file, exportsType), "viewTypeExport") \cup viewFault(file)

-----------------------------------------------------------------------------
(***************************************************************************)
(* Controllers.                                                            *)
(***************************************************************************)
exportedBinding(s) ==
    \/ s.tag \in {"ExportDefault", "ExportAll"}
    \/ s.tag = "ExportName" /\ s.kind = "value"
    \/ exports(s, {"function", "enum"} \cup Variables)

isController(s) == exports(s, {"function", "arrow"}) /\ s.name.of = "Controller"

controllerMessages(file) ==
    messageIf(Cardinality(having(file, isController)) # 1, "controllerOneController") \cup
    messageIf(some(file, LAMBDA s : exportedBinding(s) /\ ~ isController(s)),
              "controllerInvalidExport")

check(file) ==
    CASE file.role = "model" -> modelMessages(file)
      [] file.role = "factory" -> factoryMessages(file)
      [] file.role = "view" -> viewMessages(file)
      [] file.role = "controller" -> controllerMessages(file)
=============================================================================
