------------------------------ MODULE PackPlan ------------------------------
(***************************************************************************)
(* Planning a pack: a host picks mods of a catalog, has the selection      *)
(* evaluated, accepts what is suggested, and turns a selection that may be *)
(* generated into a curated pack, which the permission gate then checks.   *)
(* The catalog is refreshed meanwhile: a selected mod keeps the entry it   *)
(* was picked with.                                                        *)
(*                                                                         *)
(* Source: packages/ compatibility-engine, mod-catalog and safety          *)
(* (src/index.mjs).  A catalog entry is its version, the mods it requires  *)
(* and its flaws: the metadata it lacks, and what is wrong with the rest.  *)
(***************************************************************************)
EXTENDS FiniteSets, Naturals

CONSTANTS
  Projects,      (* projects of the catalog                                 *)
  Requires,      (* [Projects -> SUBSET Projects]: required dependencies    *)
  Catalogs,      (* first catalogs: [Projects -> flaws of its entry]        *)
  Flawed,        (* flaws a new version may have                            *)
  Conflicts,     (* the known conflicts: sets of mods                       *)
  MaxPicks,      (* bound: mods picked or dropped                           *)
  MaxRefreshes   (* bound: new versions that appear in the catalog          *)

\* What evaluateModMetadata looks for, and what evaluateCatalogEntryMetadata does.
CompatibilityFields ==
  {"sourceUrl", "license", "permission", "side", "versions", "url", "hashes"}
CatalogFields == CompatibilityFields \cup {"filename"}

\* target: the entry lists other versions or loaders; neither: it runs on no side;
\* https: a URL that is not https; consent: the permission record is no permission.
Flaws == CatalogFields \cup {"target", "neither", "https", "consent"}

\* No project has the name of the field of None, so that a pack is told from none.
ASSUME PackPlanAssumption ==
  /\ "none" \notin Projects
  /\ Requires \in [Projects -> SUBSET Projects]
  /\ Flawed \subseteq SUBSET Flaws
  /\ Catalogs \subseteq [Projects -> SUBSET Flaws]
  /\ Conflicts \subseteq SUBSET Projects
  /\ {MaxPicks, MaxRefreshes} \subseteq Nat

VARIABLES
  catalog,     (* [Projects -> CatalogEntries]                              *)
  selected,    (* the picked mods with the entries they were picked with    *)
  verdict,     (* what the engine said of them, or None                     *)
  pack,        (* the curated pack made of them, or None                    *)
  gate,        (* the permission gate's word on that pack                   *)
  picks

planVars == <<catalog, selected, verdict, pack, gate, picks>>

None == [none |-> TRUE]
CatalogEntries == [version : 1..(MaxRefreshes + 1), flaws : SUBSET Flaws]

InitPlan ==
  /\ \E c \in Catalogs : catalog = [m \in Projects |-> [version |-> 1, flaws |-> c[m]]]
  /\ selected = <<>>
  /\ verdict = None
  /\ pack = None
  /\ gate = "unchecked"
  /\ picks = 0

-----------------------------------------------------------------------------
(* The compatibility engine.                                               *)

selectedIds == DOMAIN selected

\* The selected entries shadow the catalog's.
buildCatalog == [m \in Projects |-> IF m \in selectedIds THEN selected[m] ELSE catalog[m]]

evaluateModMetadata(entry) == entry.flaws \cap CompatibilityFields

supportsTarget(entry) == entry.flaws \cap {"versions", "target"} = {}

unknownSide(entry) == entry.flaws \cap {"side", "neither"} # {}

\* The required dependencies of the selected mods that are not selected.
requiredDependencies == (UNION {Requires[m] : m \in selectedIds}) \ selectedIds

\* A candidate for them, or nothing the engine would add.
suggestible(m) ==
  /\ supportsTarget(buildCatalog[m])
  /\ evaluateModMetadata(buildCatalog[m]) = {}

\* Fault: a dependency the catalog cannot offer is left out of the plan.
resolveDependencyPlanFault ==
  [suggestions |-> {m \in requiredDependencies : suggestible(m)}, missing |-> {}]

resolveDependencyPlan ==
  [suggestions |-> {m \in requiredDependencies : suggestible(m)},
   missing |-> {m \in requiredDependencies : ~suggestible(m)}]

findKnownConflicts == {c \in Conflicts : c \subseteq selectedIds}

\* riskLabel: how sure the engine is of the selection.
riskLabel(plan) ==
  IF \/ \E m \in selectedIds : evaluateModMetadata(selected[m]) # {}
     \/ \E m \in selectedIds : ~supportsTarget(selected[m])
     \/ plan.suggestions \cup plan.missing # {}
  THEN "likely_fail"
  ELSE IF findKnownConflicts # {} \/ \E m \in selectedIds : unknownSide(selected[m])
       THEN "caution" ELSE "high_confidence"

evaluateCompatibility ==
  LET plan == resolveDependencyPlan IN
  [label |-> riskLabel(plan), suggestions |-> plan.suggestions, missing |-> plan.missing,
   canGeneratePack |-> riskLabel(plan) # "likely_fail"]

-----------------------------------------------------------------------------
(* The catalog and the gate.                                               *)

\* Fault: the catalog checks what the engine checks.
evaluateCatalogEntryMetadataFault(entry) == entry.flaws \cap CompatibilityFields

evaluateCatalogEntryMetadata(entry) == entry.flaws \cap CatalogFields

\* What a file of a curated pack carries of its entry's metadata; its side
\* becomes env, its versions stay behind.
fileFlaws(entry) == entry.flaws \cap {"sourceUrl", "license", "permission", "url",
                                      "hashes", "https", "consent"}

\* The files of a pack, or None where createCuratedPack throws.
createCuratedPack(entries) ==
  IF \/ DOMAIN entries = {}
     \/ \E m \in DOMAIN entries : evaluateCatalogEntryMetadata(entries[m]) # {}
  THEN None
  ELSE [m \in DOMAIN entries |->
          [version |-> entries[m].version, flaws |-> fileFlaws(entries[m])]]

validateModPermissionMetadata(entry) ==
  entry.flaws \cap {"sourceUrl", "license", "permission", "url", "hashes", "https",
                    "consent"} = {}

validatePackPolicy(entries) ==
  \A m \in DOMAIN entries : validateModPermissionMetadata(entries[m])

-----------------------------------------------------------------------------
(* The session.                                                            *)

\* selection: it changed, and what was said of the old one is void.
selection(s) ==
  /\ selected' = s
  /\ verdict' = None
  /\ pack' = None
  /\ gate' = "unchecked"

pickMod(m) ==
  /\ picks < MaxPicks
  /\ picks' = picks + 1
  /\ \/ /\ m \notin selectedIds
        /\ selection([i \in selectedIds \cup {m} |->
                        IF i = m THEN catalog[m] ELSE selected[i]])
     \/ /\ m \in selectedIds
        /\ selection([i \in selectedIds \ {m} |-> selected[i]])
  /\ UNCHANGED catalog

\* The suggested mods come from the catalog as it is by now.
acceptSuggestions ==
  /\ verdict # None
  /\ verdict.suggestions # {}
  /\ selection([i \in selectedIds \cup verdict.suggestions |->
                  IF i \in selectedIds THEN selected[i] ELSE catalog[i]])
  /\ UNCHANGED <<catalog, picks>>

evaluate ==
  /\ verdict = None
  /\ selectedIds # {}
  /\ verdict' = evaluateCompatibility
  /\ UNCHANGED <<catalog, selected, pack, gate, picks>>

curate ==
  /\ verdict # None
  /\ verdict.canGeneratePack
  /\ pack = None
  /\ pack' = createCuratedPack(selected)
  /\ pack' # None
  /\ UNCHANGED <<catalog, selected, verdict, gate, picks>>

checkGate ==
  /\ pack # None
  /\ gate = "unchecked"
  /\ gate' = IF validatePackPolicy(pack) THEN "passed" ELSE "blocked"
  /\ UNCHANGED <<catalog, selected, verdict, pack, picks>>

\* normalizeModrinthVersion: a new version of a project.
refreshCatalog(m) ==
  /\ catalog[m].version <= MaxRefreshes
  /\ \A i \in Projects \ {m} : catalog[i].version = 1
  /\ \E flaws \in Flawed :
       catalog' = [catalog EXCEPT ![m] = [version |-> @.version + 1, flaws |-> flaws]]
  /\ UNCHANGED <<selected, verdict, pack, gate, picks>>

NextPlan ==
  \/ \E m \in Projects : pickMod(m) \/ refreshCatalog(m)
  \/ acceptSuggestions
  \/ evaluate
  \/ curate
  \/ checkGate

-----------------------------------------------------------------------------
(* What a plan promises.                                                   *)

\* A selection the engine lets the host generate is closed under required
\* dependencies, although resolveDependencyPlan looks one level deep and the
\* catalog moves under the session, and every mod in it supports the target.
GeneratablePacksAreClosed ==
  verdict # None /\ verdict.canGeneratePack =>
    \A m \in selectedIds :
      /\ Requires[m] \subseteq selectedIds
      /\ supportsTarget(selected[m])
      /\ evaluateModMetadata(selected[m]) = {}

\* The engine, the catalog and the gate check metadata apart: a selection that may
\* be generated is refused by createCuratedPack exactly for a file without a name,
\* and the gate says of the files of a pack what it would have said of the entries
\* they were made of.
CurationAgrees ==
  /\ verdict # None /\ verdict.canGeneratePack =>
       (createCuratedPack(selected) = None
          <=> \E m \in selectedIds : "filename" \in selected[m].flaws)
  /\ gate # "unchecked" => (gate = "passed" <=> validatePackPolicy(selected))
=============================================================================
