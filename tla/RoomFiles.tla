------------------------------ MODULE RoomFiles ------------------------------
(***************************************************************************)
(* The files of a room on disk: what preparing and opening it write, in    *)
(* the order they write it, with a host process that may die between any   *)
(* two writes and be started again.                                        *)
(*                                                                         *)
(* Source: apps/desktop/src/runtime/ node-local-runtime.mjs (materialize), *)
(* node-fabric-bootstrap.mjs, node-java-detection.mjs, local-runtime-      *)
(* adapter.mjs, host-runtime.mjs (the plans), desktop-curated-catalog.mjs, *)
(* desktop-dev-runtime-plan.mjs and desktop-runtime-bridge.mjs.  A file is *)
(* abstracted to absent, torn (its write was cut off) or what was written; *)
(* a torn file never has the hash it should.                               *)
(***************************************************************************)
EXTENDS Sequences, FiniteSets, Naturals

CONSTANTS
  Mods,        (* files of the curated catalog, and those a host dropped in *)
  Packs,       (* [selection -> the sequence of its mods]                   *)
  Javas,       (* candidates for java.exe, in the order they are probed     *)
  MaxFaults    (* bound: crashes and failed writes                          *)

Selections == DOMAIN Packs
Entries(p) == {Packs[p][i] : i \in DOMAIN Packs[p]}

ASSUME RoomFilesAssumption ==
  /\ \A p \in Selections : Packs[p] \in Seq(Mods)
  /\ MaxFaults \in Nat

VARIABLES
  downloads,   (* cache/downloads: [Mods -> Contents]                       *)
  mods,        (* the room's mods folder: [Mods -> Contents]                *)
  settings,    (* eula, server.properties, bridge config and manifest       *)
  whitelist,   (* whitelist.json                                            *)
  jar,         (* Fabric server: [cache, launcher, metadata]                *)
  javas,       (* the candidates that run and are recent enough             *)
  host,        (* the bridge in the host process                            *)
  work,        (* the command it executes                                   *)
  faults

disk == <<downloads, mods, settings, whitelist, jar>>
vars == <<downloads, mods, settings, whitelist, jar, javas, host, work, faults>>

Contents == {"absent", "torn", "whole"}
Jars == {"cache", "launcher", "metadata"}
NoJava == "none"
JavaPaths == {Javas[i] : i \in DOMAIN Javas}

\* step: what the command does next; todo: the mods still to be installed.
Idle == [cmd |-> "none", step |-> "none", todo |-> <<>>, java |-> NoJava]

\* createDesktopDevRuntimePlan, a new bridge: launch is the java of its lifecycle
\* manager, running whether that holds a server.
newBridge(p) == [pack |-> p, state |-> "stopped", launch |-> NoJava, running |-> FALSE]

Init ==
  /\ downloads = [m \in Mods |-> "absent"]
  /\ mods \in [Mods -> {"absent", "whole"}]
  /\ settings = "absent"
  /\ whitelist = "absent"
  /\ jar = [j \in Jars |-> "absent"]
  /\ javas = JavaPaths
  /\ \E p \in Selections : host = newBridge(p)
  /\ work = Idle
  /\ faults = 0

next(step) == work' = [work EXCEPT !.step = step]

\* rememberFailure: the command ends with a refusal.
blocked ==
  /\ work' = Idle
  /\ host' = [host EXCEPT !.state = "blocked"]

\* A write in place truncates the file first.
writing(file, key) == [file EXCEPT ![key] = IF @ = "torn" THEN "whole" ELSE "torn"]

-----------------------------------------------------------------------------
(* Commands.                                                               *)

\* A selection other than the plan's is refused while the server runs, and
\* otherwise gets a new bridge.
configured(p) == IF p = host.pack THEN host ELSE newBridge(p)

begin(cmd, p, state) ==
  /\ work.cmd = "none"
  /\ p # host.pack => ~host.running
  /\ host' = [configured(p) EXCEPT !.state = state]
  /\ work' = [Idle EXCEPT !.cmd = cmd, !.step = "detect"]
  /\ UNCHANGED <<disk, javas, faults>>

prepareRoom(p) == begin("prepare", p, "preparing")

openRoom(p) == ~host.running /\ begin("open", p, "opening")

\* The candidates that run a recent Java, by their place in the search.
compatible == {i \in DOMAIN Javas : Javas[i] \in javas}

afterJava(cmd) == IF cmd = "open" THEN "fabric" ELSE "files"

\* The first of them is taken.
detectWindowsJava ==
  /\ work.step = "detect"
  /\ \/ compatible = {} /\ blocked
     \/ /\ \E i \in compatible :
             /\ \A k \in compatible : i <= k
             /\ work' = [work EXCEPT !.java = Javas[i], !.step = afterJava(work.cmd)]
        /\ UNCHANGED host
  /\ UNCHANGED <<disk, javas, faults>>

-----------------------------------------------------------------------------
(* bootstrapFabricServer, when the host opens with downloadFabric.         *)

\* A verified launcher or cached jar is installed again, or a download is; the
\* download may fail, and without its permission nothing is checked.
bootstrapFabricServer ==
  /\ work.step = "fabric"
  /\ \/ next("cache") /\ UNCHANGED host
     \/ next("files") /\ UNCHANGED host
     \/ /\ "whole" \notin {jar.cache, jar.launcher}
        /\ blocked
  /\ UNCHANGED <<disk, javas, faults>>

\* installFabricArtifact writes the three files in this order.
afterJar(j) ==
  CASE j = "cache" -> "launcher" [] j = "launcher" -> "metadata" [] j = "metadata" -> "files"

\* Fault: the file is written in place.
writeFileAtomicFault(j) ==
  /\ jar' = writing(jar, j)
  /\ IF jar[j] = "torn" THEN next(afterJar(j)) ELSE UNCHANGED work

\* The temporary file is renamed over the old one.
writeFileAtomic(j) ==
  /\ jar' = [jar EXCEPT ![j] = "whole"]
  /\ next(afterJar(j))

installFabricArtifact ==
  /\ \E j \in Jars : work.step = j /\ writeFileAtomic(j)
  /\ UNCHANGED <<downloads, mods, settings, whitelist, javas, host, faults>>

-----------------------------------------------------------------------------
(* materializeRoom.                                                        *)

\* The files with overwrite: true, each truncated and written.
writeSettings ==
  /\ work.step = "files"
  /\ settings' = IF settings = "torn" THEN host.pack ELSE "torn"
  /\ IF settings = "torn" THEN next("whitelist") ELSE UNCHANGED work
  /\ UNCHANGED <<downloads, mods, whitelist, jar, javas, host, faults>>

\* overwrite: false.
mayWriteWhitelist == whitelist = "absent"

writeWhitelist ==
  /\ work.step \in {"whitelist", "whitelist written"}
  /\ IF work.step = "whitelist written"
     THEN whitelist' = "empty" /\ next("unknown")
     ELSE IF mayWriteWhitelist
     THEN whitelist' = "torn" /\ next("whitelist written")
     ELSE UNCHANGED whitelist /\ next("unknown")
  /\ UNCHANGED <<downloads, mods, settings, jar, javas, host, faults>>

\* Fault: files of an earlier selection stay.
unknownModsFault == {}

unknownMods == {m \in Mods : mods[m] # "absent"} \ Entries(host.pack)

\* removeUnknownMods, one file after the other.
removeUnknownMods ==
  /\ work.step = "unknown"
  /\ IF unknownMods = {}
     THEN /\ work' = [work EXCEPT !.step = "mod", !.todo = Packs[host.pack]]
          /\ UNCHANGED mods
     ELSE /\ \E m \in unknownMods : mods' = [mods EXCEPT ![m] = "absent"]
          /\ UNCHANGED work
  /\ UNCHANGED <<downloads, settings, whitelist, jar, javas, host, faults>>

\* The next mod of the pack has to be downloaded, is copied, or is refused for
\* the hash of the file the cache has.  A download is verified before it is
\* written, and may fail.
installMod(m) ==
  /\ work.step = "mod" /\ work.todo # <<>> /\ m = Head(work.todo)
  /\ \/ downloads[m] = "absent" /\ next("download") /\ UNCHANGED host
     \/ downloads[m] = "whole" /\ next("copy") /\ UNCHANGED host
     \/ downloads[m] # "whole" /\ blocked
  /\ UNCHANGED <<disk, javas, faults>>

\* downloadVerifiedModSource writes what it has verified, in place.
downloadVerifiedModSource ==
  /\ work.step = "download"
  /\ downloads' = writing(downloads, Head(work.todo))
  /\ IF downloads[Head(work.todo)] = "torn" THEN next("mod") ELSE UNCHANGED work
  /\ UNCHANGED <<mods, settings, whitelist, jar, javas, host, faults>>

\* Fault: a file that is there already is not replaced.
copiesFault(m) == mods[m] = "absent"

\* copyFile replaces whatever the folder has.
copies(m) == TRUE

copyMod ==
  /\ work.step \in {"copy", "copied"}
  /\ LET m == Head(work.todo)
     IN IF work.step = "copy"
        THEN copies(m) /\ mods' = [mods EXCEPT ![m] = "torn"] /\ next("copied")
        ELSE /\ mods' = [mods EXCEPT ![m] = "whole"]
             /\ work' = [work EXCEPT !.step = "mod", !.todo = Tail(@)]
  /\ UNCHANGED <<downloads, settings, whitelist, jar, javas, host, faults>>

roomPrepared ==
  /\ work.cmd = "prepare" /\ work.step = "mod" /\ work.todo = <<>>
  /\ work' = Idle
  /\ host' = [host EXCEPT !.state = "ready"]
  /\ UNCHANGED <<disk, javas, faults>>

\* The lifecycle manager keeps the plan, and the Java, of the first open.
launchJava == IF host.launch = NoJava THEN work.java ELSE host.launch

\* launchLocalServer checks that the files it names are there.
launchLocalServer ==
  /\ work.cmd = "open" /\ work.step = "mod" /\ work.todo = <<>>
  /\ work' = Idle
  /\ host' = IF jar.launcher # "absent" /\ launchJava \in javas
             THEN [host EXCEPT !.state = "starting", !.launch = launchJava, !.running = TRUE]
             ELSE [host EXCEPT !.state = "blocked", !.launch = launchJava]
  /\ UNCHANGED <<disk, javas, faults>>

-----------------------------------------------------------------------------
(* The surroundings.                                                       *)

\* The server ends; while it ran, the players the host let in were added.
serverEnds ==
  /\ host.running /\ work.cmd = "none"
  /\ host' = [host EXCEPT !.running = FALSE, !.state = "stopped"]
  /\ whitelist' \in {whitelist, IF whitelist = "empty" THEN "players" ELSE whitelist}
  /\ UNCHANGED <<downloads, mods, settings, jar, javas, work, faults>>

\* The command ends with the exception of a write: what is written is written.
writeFails ==
  /\ work.cmd # "none" /\ faults < MaxFaults
  /\ faults' = faults + 1
  /\ work' = Idle
  /\ UNCHANGED <<disk, javas, host>>

\* The host process dies and another is started: its server is not the new one's.
hostDies ==
  /\ faults < MaxFaults
  /\ faults' = faults + 1
  /\ work' = Idle
  /\ host' = newBridge(host.pack)
  /\ UNCHANGED <<disk, javas>>

\* A Java is removed, or installed.
javaChanges ==
  /\ faults < MaxFaults
  /\ faults' = faults + 1
  /\ \E j \in JavaPaths : javas' = IF j \in javas THEN javas \ {j} ELSE javas \cup {j}
  /\ UNCHANGED <<disk, host, work>>

Next ==
  \/ \E p \in Selections : prepareRoom(p) \/ openRoom(p)
  \/ detectWindowsJava \/ bootstrapFabricServer \/ installFabricArtifact
  \/ writeSettings \/ writeWhitelist \/ removeUnknownMods
  \/ \E m \in Mods : installMod(m)
  \/ downloadVerifiedModSource \/ copyMod
  \/ roomPrepared \/ launchLocalServer
  \/ serverEnds \/ writeFails \/ hostDies \/ javaChanges

Spec == Init /\ [][Next]_vars

\* A command runs to its end, every download that is tried again and again
\* succeeds, and the host tries every selection again.
Fairness ==
  /\ WF_vars(work.cmd # "none" /\ Next /\ faults' = faults /\ javas' = javas)
  /\ \A m \in Mods : SF_vars(installMod(m) /\ host' = host)
  /\ \A p \in Selections : SF_vars(prepareRoom(p))

LiveSpec == Spec /\ Fairness

-----------------------------------------------------------------------------
TypeOK ==
  /\ downloads \in [Mods -> Contents] /\ mods \in [Mods -> Contents]
  /\ settings \in Selections \cup {"absent", "torn"}
  /\ whitelist \in {"absent", "torn", "empty", "players"}
  /\ jar \in [Jars -> Contents]
  /\ javas \subseteq JavaPaths
  /\ host \in [pack : Selections, state : {"stopped", "preparing", "opening", "ready",
                                          "blocked", "starting"},
               launch : JavaPaths \cup {NoJava}, running : BOOLEAN]
  /\ work.cmd \in {"none", "prepare", "open"}
  /\ work.step \in Jars \cup {"fabric"} => work.cmd = "open"
  /\ work.java \in JavaPaths \cup {NoJava}
  /\ faults \in 0..MaxFaults

\* The mods folder holds the selection, whole, and nothing else.
Installed == \A m \in Mods :
  mods[m] = IF m \in Entries(host.pack) THEN "whole" ELSE "absent"

\* A room is reported ready, or starting, only with exactly the files of its
\* selection and its own settings, whatever an interrupted command or another
\* selection left behind (materializeRoom, removeUnknownMods).
ReadyMeansInstalled ==
  /\ TypeOK
  /\ host.state \in {"ready", "starting"} => Installed /\ settings = host.pack

\* A launched server runs a launcher jar that was written whole, and the metadata
\* describes jars that are there: the bootstrap is cut off anywhere without a torn
\* jar left where launchLocalServer, which checks no hash, finds it
\* (writeFileAtomic, installFabricArtifact).
LaunchersAreWhole ==
  /\ host.running => jar.launcher = "whole"
  /\ jar.metadata = "whole" => "absent" \notin {jar.cache, jar.launcher}

\* While a Java is installed, preparing again succeeds in the end after every
\* crash and failure, unless a download was cut off: its torn file is neither
\* replaced nor removed (materializeRoom, downloadVerifiedModSource).
PreparingSucceeds ==
  <>[](javas # {} /\ \A m \in Mods : downloads[m] # "torn")
    => []<>(host.state = "ready")

\* The same without the exception, which the code does not keep (README,
\* section 4).
PreparingAlwaysSucceeds == <>[](javas # {}) => []<>(host.state = "ready")
=============================================================================
