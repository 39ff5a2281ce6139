----------------------------- MODULE PackRelease -----------------------------
(***************************************************************************)
(* From the sources of the client mod to a pack a friend can import: the   *)
(* scripts build the jars, prepare the release, check that it is ready and *)
(* write the .mrpack, while the sources change and any script may die      *)
(* between two of its writes.  The template is the repository's, or the    *)
(* pack of PackPlan.                                                       *)
(*                                                                         *)
(* Source: scripts/ build-first-party-fabric-mods.mjs, prepare-m1-release- *)
(* assets.mjs, check-m1-mrpack-readiness.mjs and build-private-mrpack.mjs  *)
(* over packages/modpack-builder/src/mrpack.mjs.  A jar is the revision of *)
(* the sources it was built from, which stands for its bytes, hashes and   *)
(* size; a jar cut off while it was written is torn.  Uploading and        *)
(* importing are done by hand.                                             *)
(***************************************************************************)
EXTENDS PackPlan

CONSTANTS
  Approved,    (* mods whose first version is locked by mvp0ApprovedFiles   *)
  MaxEdits,    (* bound: edits of the client mod's sources                  *)
  MaxDeaths    (* bound: scripts that die                                   *)

ASSUME PackReleaseAssumption ==
  /\ Approved \subseteq Projects
  /\ {MaxEdits, MaxDeaths} \subseteq Nat

VARIABLES
  template,    (* the template file the release is made of, or None         *)
  source,      (* the revision of the client mod's sources                  *)
  out,         (* .omc/artifacts: [jar, manifest]                           *)
  dist,        (* dist/m1-release: [jar, manifest]                          *)
  url,         (* what the public URL serves                                *)
  run,         (* the script that runs and its locals                       *)
  report,      (* the last word of m1:readiness, on the inputs it read      *)
  mrpack,      (* dist/private-room.mrpack                                  *)
  friend,      (* the client jar the friend's import installed              *)
  deaths,
  described    (* history: revisions an artifact manifest has described     *)

releaseVars ==
  <<template, source, out, dist, url, run, report, mrpack, friend, deaths, described>>
packVars == <<planVars, releaseVars>>

\* The contents of a file: a revision of the sources, or none of one.
Revisions == 1..(MaxEdits + 1)
Absent == 0
Torn == MaxEdits + 2
Placeholder == MaxEdits + 3
JarContents == Revisions \cup {Absent, Torn}
ClientPath == "client"
BridgePath == "bridge"
FirstPartyPaths == {ClientPath, BridgePath}

\* public: a credential-free https URL of a public host; every other is refused.
Urls == {"public", "reserved"}
JarPaths == {"out", "dist"}
BridgeJar == 1

NoScript == [script |-> "none", step |-> "none"]

InitPack ==
  /\ InitPlan
  /\ template = None
  /\ source = 1
  /\ out = [jar |-> Absent, manifest |-> Absent]
  /\ dist = [jar |-> Absent, manifest |-> Absent]
  /\ url = Absent
  /\ run = NoScript
  /\ report = None
  /\ mrpack = None
  /\ friend = Absent
  /\ deaths = 0
  /\ described = {}

-----------------------------------------------------------------------------
(* packages/modpack-builder.                                               *)

\* A readable zip with fabric.mod.json and the class of its mod: what the build
\* writes, when all of it was written.
validateFirstPartyArtifactJarBytes(bytes) == bytes \in Revisions

validateFirstPartyArtifactDownloadUrl(u) == u = "public"

\* createFirstPartyArtifactLockFromFile: the lock of the bytes at a path, or None
\* where it throws.
createFirstPartyArtifactLock(path, bytes, u) ==
  IF /\ path \in FirstPartyPaths
     /\ validateFirstPartyArtifactDownloadUrl(u)
     /\ validateFirstPartyArtifactJarBytes(bytes)
  THEN [path |-> path, bytes |-> bytes, url |-> u]
  ELSE None

\* A file of a template, with the bytes and the URL it pins.
placeholder == [path |-> ClientPath, bytes |-> Placeholder, url |-> "reserved"]
catalogFile(m, version) == [path |-> m, bytes |-> version, url |-> "public"]

\* The fixed template: the approved mods, and the client mod still to be locked.
m1Template == {catalogFile(m, 1) : m \in Approved} \cup {placeholder}

\* A curated pack has the format of a template.
packTemplate == {catalogFile(m, pack[m].version) : m \in DOMAIN pack}

applyFirstPartyArtifactLocks(files, lock) ==
  {IF file.path = lock.path THEN lock ELSE file : file \in files}

\* createApprovedFileLock: the fixed locks and those of this call.
approvedFiles(lock) == {catalogFile(m, 1) : m \in Approved} \cup {lock}

\* Fault: a file is approved by its path.
matchesApprovedFileLockFault(file, lock) ==
  file.path \in {a.path : a \in approvedFiles(lock)}

matchesApprovedFileLock(file, lock) == file \in approvedFiles(lock)

isFirstPartyPlaceholder(file) ==
  file.path \in FirstPartyPaths /\ file.bytes = Placeholder

validateMrpackTemplate(files, lock) ==
  /\ files # {}
  /\ \A file \in files :
       /\ matchesApprovedFileLock(file, lock)
       /\ ~isFirstPartyPlaceholder(file)

-----------------------------------------------------------------------------
(* m1:artifacts.                                                           *)

goto(step) == run' = [run EXCEPT !.step = step]

startBuild ==
  /\ run = NoScript
  /\ run' = [script |-> "artifacts", step |-> "compile", bytes |-> Absent]
  /\ UNCHANGED <<template, source, out, dist, url, report, mrpack, friend, deaths, described>>

\* javac and the contract checks of a module; a module that fails ends the script.
compileClient ==
  /\ run.step = "compile"
  /\ \/ run' = [run EXCEPT !.step = "jar", !.bytes = source]
     \/ run' = NoScript
  /\ UNCHANGED <<template, source, out, dist, url, report, mrpack, friend, deaths, described>>

\* rm, then jar --create writes the file.
createJar ==
  /\ run.step = "jar"
  /\ IF out.jar = Torn
     THEN out' = [out EXCEPT !.jar = run.bytes] /\ goto("bridge")
     ELSE out' = [out EXCEPT !.jar = Torn] /\ UNCHANGED run
  /\ UNCHANGED <<template, source, dist, url, report, mrpack, friend, deaths, described>>

\* The server bridge's jar, between the client's and the manifest.
buildBridge ==
  /\ run.step = "bridge"
  /\ goto("manifest") \/ run' = NoScript
  /\ UNCHANGED <<template, source, out, dist, url, report, mrpack, friend, deaths, described>>

\* Written in place, once both modules are built.
writeArtifactManifest ==
  /\ run.step = "manifest"
  /\ IF out.manifest = Torn
     THEN /\ out' = [out EXCEPT !.manifest = run.bytes]
          /\ described' = described \cup {run.bytes}
          /\ run' = NoScript
     ELSE /\ out' = [out EXCEPT !.manifest = Torn]
          /\ UNCHANGED <<run, described>>
  /\ UNCHANGED <<template, source, dist, url, report, mrpack, friend, deaths>>

-----------------------------------------------------------------------------
(* m1:release-assets.                                                      *)

\* Fault: the hashes of the manifest are not compared.
matchesManifestFault(bytes) == TRUE

matchesManifest(bytes) == out.manifest = bytes

\* A manifest that cannot be parsed throws, as does a jar that is not the one it
\* describes.
prepareM1ReleaseAssets ==
  /\ run = NoScript
  /\ out.manifest \in Revisions
  /\ validateFirstPartyArtifactJarBytes(out.jar)
  /\ matchesManifest(out.jar)
  /\ run' = [script |-> "release-assets", step |-> "copy", bytes |-> out.jar]
  /\ UNCHANGED <<template, source, out, dist, url, report, mrpack, friend, deaths, described>>

copyAsset ==
  /\ run.step = "copy"
  /\ IF dist.jar = Torn
     THEN dist' = [dist EXCEPT !.jar = out.jar] /\ goto("release manifest")
     ELSE dist' = [dist EXCEPT !.jar = Torn] /\ UNCHANGED run
  /\ UNCHANGED <<template, source, out, url, report, mrpack, friend, deaths, described>>

writeReleaseManifest ==
  /\ run.step = "release manifest"
  /\ dist' = [dist EXCEPT !.manifest = run.bytes]
  /\ run' = NoScript
  /\ UNCHANGED <<template, source, out, url, report, mrpack, friend, deaths, described>>

\* The files of dist/m1-release are published by hand, whatever they are.
upload ==
  /\ dist.jar # Absent
  /\ url' = dist.jar
  /\ url' # url
  /\ UNCHANGED <<template, source, out, dist, run, report, mrpack, friend, deaths, described>>

-----------------------------------------------------------------------------
(* m1:readiness and m1:mrpack.                                             *)

\* Fault: the jar is taken to be the one the manifest describes.
collectFirstPartyArtifactLocksFault(u) ==
  IF out.manifest \notin Revisions THEN None
  ELSE createFirstPartyArtifactLock(ClientPath, out.manifest, u)

\* readArtifactManifest and collectFirstPartyArtifactLocks: the lock of the client
\* jar at the path the manifest names, or None for a blocker.
collectFirstPartyArtifactLocks(u) ==
  IF out.manifest \notin Revisions THEN None
  ELSE createFirstPartyArtifactLock(ClientPath, out.jar, u)

listRequiredFirstPartyArtifactPaths == {file.path : file \in template.files} \cap FirstPartyPaths

checkM1MrpackReadiness(u) ==
  LET lock == collectFirstPartyArtifactLocks(u)
      ready == /\ listRequiredFirstPartyArtifactPaths # {}
               /\ lock # None
               /\ validateMrpackTemplate(
                    applyFirstPartyArtifactLocks(template.files, lock), lock)
  IN
  /\ run = NoScript
  /\ report' = [ready |-> ready, jar |-> out.jar, url |-> u]
  /\ report' # report
  /\ UNCHANGED <<template, source, out, dist, url, run, mrpack, friend, deaths, described>>

jarAt(path) == IF path = "out" THEN out.jar ELSE dist.jar

\* The pack m1:mrpack would write for one --artifact, or None.
buildMrpackManifest(path, bytes, u) ==
  LET lock == createFirstPartyArtifactLock(path, bytes, u) IN
  IF lock = None THEN None
  ELSE LET completed == applyFirstPartyArtifactLocks(template.files, lock) IN
       IF validateMrpackTemplate(completed, lock) THEN [files |-> completed] ELSE None

buildPrivateMrpack(path, jarPath, u) ==
  /\ run = NoScript
  /\ LET bytes == IF path = ClientPath THEN jarAt(jarPath) ELSE BridgeJar
         built == buildMrpackManifest(path, bytes, u) IN
     /\ built # None
     /\ run' = [script |-> "mrpack", step |-> "write", pack |-> built]
  /\ UNCHANGED <<template, source, out, dist, url, report, mrpack, friend, deaths, described>>

\* writeFile, in place.
writeMrpack ==
  /\ run.step = "write"
  /\ IF mrpack = [torn |-> TRUE]
     THEN mrpack' = run.pack /\ run' = NoScript
     ELSE mrpack' = [torn |-> TRUE] /\ UNCHANGED run
  /\ UNCHANGED <<template, source, out, dist, url, report, friend, deaths, described>>

-----------------------------------------------------------------------------
(* The author and the friend.                                              *)

editSource ==
  /\ source <= MaxEdits
  /\ source' = source + 1
  /\ UNCHANGED <<template, out, dist, url, run, report, mrpack, friend, deaths, described>>

scriptDies ==
  /\ run # NoScript
  /\ deaths < MaxDeaths
  /\ deaths' = deaths + 1
  /\ run' = NoScript
  /\ UNCHANGED <<template, source, out, dist, url, report, mrpack, friend, described>>

whole == mrpack \notin {None, [torn |-> TRUE]}

\* The launcher downloads every file of a pack it can read and compares its hash;
\* the URL of the client mod is the one that was uploaded to.
importPack ==
  /\ whole
  /\ \E file \in mrpack.files :
       /\ file.path = ClientPath
       /\ file.bytes = url
       /\ friend' = url
  /\ friend' # friend
  /\ UNCHANGED <<template, source, out, dist, url, run, report, mrpack, deaths, described>>

\* The release starts from a template file, the fixed one or a pack the gate passed;
\* nothing else of the session outlives it.
saveTemplate ==
  /\ template = None
  /\ \/ template' = [files |-> m1Template]
     \/ gate = "passed" /\ template' = [files |-> packTemplate]
  /\ selection(<<>>)
  /\ catalog' = [m \in Projects |-> [version |-> 1, flaws |-> {}]]
  /\ picks' = 0
  /\ UNCHANGED <<source, out, dist, url, run, report, mrpack, friend, deaths, described>>

NextRelease ==
  \/ startBuild \/ compileClient \/ createJar \/ buildBridge \/ writeArtifactManifest
  \/ prepareM1ReleaseAssets \/ copyAsset \/ writeReleaseManifest \/ upload
  \/ \E u \in Urls : checkM1MrpackReadiness(u)
  \/ \E path \in FirstPartyPaths, jarPath \in JarPaths, u \in Urls :
       buildPrivateMrpack(path, jarPath, u)
  \/ writeMrpack
  \/ editSource \/ scriptDies \/ importPack

NextPack ==
  \/ template = None /\ NextPlan /\ UNCHANGED releaseVars
  \/ saveTemplate
  \/ template # None /\ NextRelease /\ UNCHANGED planVars

PackSpec == InitPack /\ [][NextPack]_packVars

-----------------------------------------------------------------------------
(* What a release promises.                                                *)

PackTypeOK ==
  /\ catalog \in [Projects -> CatalogEntries]
  /\ selectedIds \subseteq Projects /\ \A m \in selectedIds : selected[m] \in CatalogEntries
  /\ verdict # None => verdict.suggestions \cup verdict.missing \subseteq Projects \ selectedIds
  /\ gate \in {"unchecked", "passed", "blocked"}
  /\ picks \in 0..MaxPicks
  /\ source \in Revisions
  /\ {out.jar, dist.jar, url, friend} \subseteq JarContents
  /\ {out.manifest, dist.manifest} \subseteq JarContents
  /\ deaths \in 0..MaxDeaths
  /\ described \subseteq Revisions

\* A release is prepared of a jar only after a manifest has described it, so after
\* both modules of a build were accepted: the new client jar of a build that then
\* failed, or died, is not released.
ReleasesAreDescribed ==
  PackTypeOK /\ (dist.jar \in Revisions => dist.jar \in described)

\* Every file of a written pack is an approved one or the bytes of a whole jar at a
\* public URL, whatever template and jar were given and whatever died on the way;
\* and a friend's import never ends up with a jar that was cut off, although torn
\* files can be uploaded and packed paths can be stale.
PacksArePinned ==
  /\ whole => \A file \in mrpack.files :
                \/ file \in {catalogFile(m, 1) : m \in Approved}
                \/ /\ file.path \in FirstPartyPaths
                   /\ file.bytes \in Revisions
                   /\ file.url = "public"
  /\ friend # Torn

\* What m1:readiness calls ready m1:mrpack builds, from the same URL and as long as
\* the jar stays the same.
ReadyMeansBuildable ==
  report # None =>
    (report.ready /\ report.jar = out.jar =>
       buildMrpackManifest(ClientPath, out.jar, report.url) # None)
=============================================================================
