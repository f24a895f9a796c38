---------------------------- MODULE ImportRules ----------------------------
(***************************************************************************)
(* Which imports .dependency-cruiser.js lets a file make, one operator per *)
(* rule or family of like rules, and the chains of imports they let grow.  *)
(*                                                                         *)
(* A file stands for all files the rules cannot tell apart: its package,   *)
(* its area there (src, bin or test), its role, and for the three roles of *)
(* a page its layer.  What no package owns is a file of "npm".  An import  *)
(* is of values, of types only, or dynamic.  The rules on test trees other *)
(* than srcDoesNotImportTest, and the two on directories commands/ that no *)
(* package has, are left out.                                              *)
(***************************************************************************)
EXTENDS Naturals, SequencesExt

CONSTANT MaxChain

File(package, area, role, layer) ==
    [package |-> package, area |-> area, role |-> role, layer |-> layer]

inSrc(package, role) == File(package, "src", role, "none")

SlicedRoles == {"model", "factory", "view"}

SourceFiles ==
    {inSrc(p, role) : p \in {"application", "event-sourcing", "cli", "test-support"},
                      role \in {"public", "deep"}} \cup
    {inSrc("domain", role) : role \in {"public", "Events", "Identifiers", "deep"}} \cup
    {inSrc("web", role) : role \in {"public", "controller", "server", "routes", "render", "deep"}} \cup
    {File("web", "src", role, layer) : role \in SlicedRoles, layer \in {"pages", "controls"}} \cup
    {File(p, "bin", "deep", "none") : p \in {"application", "event-sourcing", "cli", "web"}} \cup
    {File("web", "test", "deep", "none")} \cup
    {File("npm", "npm", role, "none") : role \in {"effectful", "core", "dev"}}

Kinds == {"value", "type", "dynamic"}

isProduction(f) == f.area \in {"src", "bin"}
isSrcOf(f, packages) == f.area = "src" /\ f.package \in packages
isOwned(f, packages) == f.area # "npm" /\ f.package \in packages
isWeb(f, roles) == isSrcOf(f, {"web"}) /\ f.role \in roles

-----------------------------------------------------------------------------
srcDoesNotImportTest(f, t) == isProduction(f) /\ t.area = "test"

notToDevDep(f, t, kind) == isProduction(f) /\ t.role = "dev" /\ kind # "type"

noDynamicImportsInSrc(f, kind) == isProduction(f) /\ kind = "dynamic"

mvcModelsDoNotImportViews(f, t) == isWeb(f, {"model"}) /\ isWeb(t, {"view"})

mvcModelsAreRenderSchemaOnly(f, t) ==
    /\ isWeb(f, {"model"})
    /\ \/ isOwned(t, {"application", "domain", "event-sourcing"})
       \/ isWeb(t, {"factory", "controller", "server", "routes"})

mvcViewsImportModelsTypeOnly(f, t, kind) ==
    isWeb(f, {"view"}) /\ isWeb(t, {"model"}) /\ kind # "type"

\* Also mvc-views-do-not-import-factories-or-controllers, which forbids some of this again.
mvcViewsImportRenderSurfaceOnly(f, t) ==
    isWeb(f, {"view"}) /\ isSrcOf(t, {"web"}) /\ ~ isWeb(t, {"model", "view", "render"})

mvcFactoriesDoNotImportRenderOrIo(f, t) ==
    isWeb(f, {"factory"}) /\ (isWeb(t, {"view", "controller", "server"}) \/ t.role = "effectful")

\* Mutant: the rule is on a file suffix no file has, as that on routes is.
mvcControllersOfOldName(f, t) == isWeb(f, {"controllers"}) /\ isWeb(t, {"view"})

mvcControllersDoNotImportViews(f, t) == isWeb(f, {"controller"}) /\ isWeb(t, {"view"})

webControlsDoNotImportPages(f, t) ==
    /\ isWeb(f, SlicedRoles) /\ f.layer = "controls"
    /\ isSrcOf(t, {"web"}) /\ (t.layer = "pages" \/ t.role = "controller")

\* Mutant: nothing is said of what application may not import.
layersAboveDomain(f, t) ==
    \/ isOwned(f, {"web"}) /\ isProduction(f) /\
       isOwned(t, {"domain", "event-sourcing", "test-support"})
    \/ isOwned(f, {"cli"}) /\ isProduction(f) /\ isOwned(t, {"domain", "event-sourcing", "web"})
    \/ isSrcOf(f, {"domain"}) /\ isOwned(t, {"application", "web", "cli", "test-support"})
    \/ isSrcOf(f, {"event-sourcing"}) /\
       isOwned(t, {"application", "domain", "web", "cli", "test-support"})
    \/ isSrcOf(f, {"test-support"}) /\
       isOwned(t, {"application", "domain", "event-sourcing", "cli", "web"})

\* What the seven rules on packages keep each of them from.
layersAbove(f, t) ==
    \/ isOwned(f, {"web"}) /\ isProduction(f) /\
       isOwned(t, {"domain", "event-sourcing", "test-support"})
    \/ isOwned(f, {"cli"}) /\ isProduction(f) /\ isOwned(t, {"domain", "event-sourcing", "web"})
    \/ isSrcOf(f, {"application"}) /\ isOwned(t, {"web", "cli", "test-support"})
    \/ isSrcOf(f, {"domain"}) /\ isOwned(t, {"application", "web", "cli", "test-support"})
    \/ isSrcOf(f, {"event-sourcing"}) /\
       isOwned(t, {"application", "domain", "web", "cli", "test-support"})
    \/ isSrcOf(f, {"test-support"}) /\
       isOwned(t, {"application", "domain", "event-sourcing", "cli", "web"})

domainStaysPure(f, t) == isSrcOf(f, {"domain"}) /\ t.role \in {"effectful", "core"}

eventsAreLeafContracts(f, t) ==
    f.role = "Events" /\ isSrcOf(t, {"domain"}) /\ t.role # "Identifiers"

noDeepImports(f, t) ==
    /\ isSrcOf(t, {"application", "domain", "event-sourcing", "test-support", "web"})
    /\ t.package # f.package
    /\ t.role # "public"

\* What is found in node_modules is left out before any rule is applied.  Modules of the
\* platform are not found there.
excluded(t) == t.area = "npm" /\ t.role # "core"

forbidden(f, t, kind) ==
    /\ ~ excluded(t)
    /\ \/ srcDoesNotImportTest(f, t)
       \/ notToDevDep(f, t, kind)
       \/ noDynamicImportsInSrc(f, kind)
       \/ mvcModelsDoNotImportViews(f, t)
       \/ mvcModelsAreRenderSchemaOnly(f, t)
       \/ mvcViewsImportModelsTypeOnly(f, t, kind)
       \/ mvcViewsImportRenderSurfaceOnly(f, t)
       \/ mvcFactoriesDoNotImportRenderOrIo(f, t)
       \/ mvcControllersDoNotImportViews(f, t)
       \/ webControlsDoNotImportPages(f, t)
       \/ layersAbove(f, t)
       \/ domainStaysPure(f, t)
       \/ eventsAreLeafContracts(f, t)
       \/ noDeepImports(f, t)

-----------------------------------------------------------------------------
(***************************************************************************)
(* A chain of imports: its files, the first of which imports the second    *)
(* and so on, and whether all of it is imports of values.  A file stands   *)
(* for many and may come twice; no-circular needs no rule here.            *)
(***************************************************************************)
VARIABLE chain

NoChain == [files |-> <<>>, ofValues |-> TRUE]

InitImports ==
    \E f \in SourceFiles : isProduction(f) /\ chain = [files |-> <<f>>, ofValues |-> TRUE]

Import ==
    /\ Len(chain.files) \in 1 .. MaxChain - 1
    /\ Last(chain.files).area # "npm"
    /\ \E t \in SourceFiles, kind \in Kinds :
            /\ ~ forbidden(Last(chain.files), t, kind)
            /\ chain' = [files |-> Append(chain.files, t),
                         ofValues |-> chain.ofValues /\ kind # "type"]

SpecImports == InitImports /\ [][Import]_chain

-----------------------------------------------------------------------------
at(i) == chain.files[i]

\* File i leads to file j of the chain by files that are all of one sort.
leadsTo(i, j, isOne(_)) == i < j /\ \A k \in i .. j : isOne(at(k))

isSrc(f) == f.area = "src"
isSrcOrNpm(f) == f.area \in {"src", "npm"}
isMvc(f) == isWeb(f, SlicedRoles \cup {"controller"})

(***************************************************************************)
(* Packages are layers: a chain of imports through src that leaves a       *)
(* package does not come back to it, and from domain it gets to no package *)
(* but event-sourcing, through which alone it gets to a module of the      *)
(* platform.  The rules each forbid one import; that chains of allowed     *)
(* ones cannot get round them is up to all of them together.  Of what is   *)
(* found in node_modules the rules say nothing.                            *)
(***************************************************************************)
PackagesAreLayers ==
    \A i, j \in DOMAIN chain.files :
        /\ leadsTo(i, j, isSrc) /\ at(i).package = at(j).package =>
                \A k \in i .. j : at(k).package = at(i).package
        /\ leadsTo(i, j, isSrcOrNpm) /\ at(i).package = "domain" =>
                /\ at(j).package \in {"domain", "event-sourcing", "npm"}
                /\ at(j).role = "core" => \E k \in i .. j : at(k).package = "event-sourcing"

(***************************************************************************)
(* The parts of a page depend on each other one way only: through models,  *)
(* factories, views and controllers alone no chain leads back to a         *)
(* controller or to a view, from a model to anything but models, from a    *)
(* control to a page, or by value from a view to a model.                  *)
(***************************************************************************)
PagePartsInOrder ==
    \A i, j \in DOMAIN chain.files :
        leadsTo(i, j, isMvc) =>
            /\ at(j).role \in {"view", "controller"} => at(i).role = at(j).role
            /\ at(i).role = "model" => at(j).role = "model"
            /\ at(i).layer = "controls" => at(j).layer = "controls"
            /\ at(i).role = "view" /\ at(j).role = "model" => ~ chain.ofValues
=============================================================================
