---------------------------- MODULE FilesProofs ----------------------------
(***************************************************************************)
(* Proofs about the two components that are made of files: the room a host *)
(* prepares and opens (RoomFiles), for every catalog, every selection,     *)
(* every list of Javas and any number of crashes and failed writes; and    *)
(* the pack a friend imports (PackPlan, PackRelease), for every catalog    *)
(* and template and any number of edits and of scripts that die.  They     *)
(* share no state: each part is about a specification of its own.          *)
(***************************************************************************)
EXTENDS RoomFiles, PackRelease, SequenceTheorems, TLAPS

-----------------------------------------------------------------------------
(* The room: its inductive invariant.                                      *)

\* The steps of a command, in the order it takes them.
Installing == {"mod", "download", "copy", "copied"}
Configured == {"whitelist", "whitelist written", "unknown"} \cup Installing
Steps == {"none", "detect", "fabric", "files"} \cup Jars \cup Configured

Work ==
  [cmd : {"none", "prepare", "open"}, step : Steps, todo : Seq(Mods),
   java : JavaPaths \cup {NoJava}]

Host ==
  [pack : Selections, state : {"stopped", "preparing", "opening", "ready", "blocked", "starting"},
   launch : JavaPaths \cup {NoJava}, running : BOOLEAN]

\* The mods still to be installed.
Left == {work.todo[i] : i \in DOMAIN work.todo}

Types ==
  /\ downloads \in [Mods -> Contents] /\ mods \in [Mods -> Contents]
  /\ settings \in Selections \cup {"absent", "torn"}
  /\ whitelist \in {"absent", "torn", "empty", "players"}
  /\ javas \subseteq JavaPaths
  /\ host \in Host /\ work \in Work
  /\ faults \in 0..MaxFaults
  /\ work.cmd = "none" <=> work.step = "none"
  /\ work.step \in Jars \cup {"fabric"} => work.cmd = "open"
  /\ work.step \in {"download", "copy", "copied"} => work.todo # <<>>

\* A jar is never torn, and the three of them are written in their order.
JarsInv ==
  /\ jar \in [Jars -> {"absent", "whole"}]
  /\ work.step \in {"launcher", "metadata"} => jar.cache = "whole"
  /\ work.step = "metadata" => jar.launcher = "whole"
  /\ jar.metadata = "whole" => jar.cache = "whole" /\ jar.launcher = "whole"
  /\ host.running => jar.launcher = "whole"

\* What a command has done so far of the room: once it has written the settings they
\* are those of the selection, and once it installs mods the folder has no others,
\* and those whole that are not to be installed any more.
RoomInv ==
  /\ work.step \in Configured => settings = host.pack
  /\ work.step \in Installing =>
       /\ Left \subseteq Entries(host.pack)
       /\ \A m \in Mods :
            /\ m \notin Entries(host.pack) => mods[m] = "absent"
            /\ m \in Entries(host.pack) \ Left => mods[m] = "whole"
  /\ host.state \in {"ready", "starting"} =>
       work.cmd = "none" /\ Installed /\ settings = host.pack

FilesInv == Types /\ JarsInv /\ RoomInv

-----------------------------------------------------------------------------
(* Commands, and the mods they have still to install.                      *)

\* The command's next step.
LEMMA NextStep ==
  ASSUME work \in Work, NEW step \in Steps, next(step)
  PROVE  /\ work' \in Work /\ work'.step = step /\ work'.cmd = work.cmd
         /\ work'.todo = work.todo /\ Left' = Left
<1>1. work' \in Work /\ work'.step = step /\ work'.cmd = work.cmd /\ work'.todo = work.todo
  BY DEF next, Work
<1> QED
  BY <1>1 DEF Left

\* No command.
LEMMA IdleWork == Idle \in Work /\ Idle.cmd = "none" /\ Idle.step = "none"
<1>1. <<>> \in Seq(Mods)
  BY EmptySeq
<1> QED
  BY <1>1 DEF Idle, Work, Steps

\* The first mod to be installed and the others.
LEMMA HeadAndTail ==
  ASSUME NEW s \in Seq(Mods), s # <<>>
  PROVE  /\ Head(s) \in Mods /\ Tail(s) \in Seq(Mods)
         /\ {s[i] : i \in DOMAIN s} = {Head(s)} \cup {Tail(s)[i] : i \in DOMAIN Tail(s)}
<1>1. /\ Head(s) \in Mods /\ Head(s) = s[1] /\ Tail(s) \in Seq(Mods)
      /\ Len(Tail(s)) = Len(s) - 1 /\ \A i \in 1..Len(Tail(s)) : Tail(s)[i] = s[i + 1]
  BY HeadTailProperties
<1>2. /\ Len(s) \in Nat /\ DOMAIN s = 1..Len(s) /\ DOMAIN Tail(s) = 1..Len(Tail(s))
      /\ Len(s) >= 1
  BY <1>1, LenProperties
<1>3. ASSUME NEW i \in DOMAIN s
      PROVE  s[i] \in {Head(s)} \cup {Tail(s)[k] : k \in DOMAIN Tail(s)}
  <2>1. CASE i = 1
    BY <1>1, <2>1
  <2>2. CASE i # 1
    <3>1. i - 1 \in DOMAIN Tail(s) /\ (i - 1) + 1 = i
      BY <1>1, <1>2, <2>2
    <3>2. Tail(s)[i - 1] = s[i]
      BY <1>1, <1>2, <3>1
    <3> QED
      BY <3>1, <3>2
  <2> QED
    BY <2>1, <2>2
<1>4. ASSUME NEW i \in DOMAIN Tail(s)
      PROVE  Tail(s)[i] \in {s[k] : k \in DOMAIN s}
  <2>1. i + 1 \in DOMAIN s
    BY <1>1, <1>2
  <2> QED
    BY <1>1, <1>2, <2>1
<1>5. Head(s) \in {s[k] : k \in DOMAIN s}
  BY <1>1, <1>2
<1> QED
  BY <1>1, <1>3, <1>4, <1>5

\* A command that is at an installing step has a mod to install.
LEMMA ModAtHand ==
  ASSUME FilesInv, work.todo # <<>>
  PROVE  Head(work.todo) \in Mods /\ Head(work.todo) \in Left
<1>1. work.todo \in Seq(Mods)
  BY DEF FilesInv, Types, Work
<1> QED
  BY <1>1, HeadAndTail DEF Left

\* The mods of a selection.
LEMMA EntriesAreMods ==
  ASSUME NEW p \in Selections
  PROVE  Packs[p] \in Seq(Mods) /\ Entries(p) \subseteq Mods
<1>1. Packs[p] \in Seq(Mods)
  BY RoomFilesAssumption
<1>2. \A i \in DOMAIN Packs[p] : Packs[p][i] \in Mods
  BY <1>1, LenProperties, ElementOfSeq
<1> QED
  BY <1>1, <1>2 DEF Entries

\* A command that ends without success leaves the files, and no room that is ready.
LEMMA Ends ==
  ASSUME FilesInv, work' = Idle, host' \in Host, host'.state \notin {"ready", "starting"},
         host'.running => host.running, UNCHANGED disk, javas' \subseteq JavaPaths,
         faults' \in 0..MaxFaults
  PROVE  FilesInv'
<1>1. work' \in Work /\ work'.cmd = "none" /\ work'.step = "none"
  BY IdleWork
<1>2. Types'
  BY <1>1 DEF FilesInv, Types, disk, Jars
<1>3. JarsInv'
  BY <1>1 DEF FilesInv, JarsInv, disk
<1>4. RoomInv'
  BY <1>1 DEF RoomInv, Configured, Installing
<1> QED
  BY <1>2, <1>3, <1>4 DEF FilesInv

\* So does a refusal.
LEMMA BlockedEnds ==
  ASSUME FilesInv, blocked, UNCHANGED <<disk, javas, faults>>
  PROVE  FilesInv'
<1>1. /\ host' \in Host /\ host'.state = "blocked" /\ host'.running = host.running
      /\ work' = Idle /\ javas' \subseteq JavaPaths /\ faults' \in 0..MaxFaults
  BY DEF FilesInv, Types, Host, blocked
<1> QED
  BY <1>1, Ends

\* A command at a step before the settings are written has promised nothing.
LEMMA EarlyStep ==
  ASSUME FilesInv, NEW step \in {"fabric", "files"} \cup Jars, next(step),
         work.cmd # "none", step \in {"fabric"} \cup Jars => work.cmd = "open",
         step \in {"launcher", "metadata"} => jar'.cache = "whole",
         step = "metadata" => jar'.launcher = "whole",
         jar' \in [Jars -> {"absent", "whole"}],
         jar'.metadata = "whole" => jar'.cache = "whole" /\ jar'.launcher = "whole",
         jar.launcher = "whole" => jar'.launcher = "whole",
         UNCHANGED <<downloads, mods, settings, whitelist, javas, host, faults>>
  PROVE  FilesInv'
<1>1. step \in Steps /\ step \notin Configured /\ step # "none"
      /\ step \notin {"download", "copy", "copied"}
  BY DEF Steps, Configured, Installing, Jars
<1>2. work' \in Work /\ work'.step = step /\ work'.cmd = work.cmd
  BY <1>1, NextStep DEF FilesInv, Types
<1>3. Types'
  BY <1>1, <1>2 DEF FilesInv, Types
<1>4. JarsInv'
  BY <1>2 DEF FilesInv, JarsInv
<1>5. RoomInv'
  BY <1>1, <1>2 DEF FilesInv, RoomInv, Configured, Installing
<1> QED
  BY <1>3, <1>4, <1>5 DEF FilesInv

\* While a command runs no room is ready.
LEMMA NotReady ==
  ASSUME FilesInv, work.step # "none"
  PROVE  work.cmd # "none" /\ host.state \notin {"ready", "starting"}
BY DEF FilesInv, Types, RoomInv

\* The jars as they are, past the bootstrap.
LEMMA JarsStay ==
  ASSUME FilesInv, jar' = jar, work'.step \notin {"launcher", "metadata"},
         host'.running => host.running
  PROVE  JarsInv'
BY DEF FilesInv, JarsInv

-----------------------------------------------------------------------------
(* The steps.                                                              *)

\* A command begins: the room is not ready any more.
LEMMA BeginKeeps ==
  ASSUME FilesInv, NEW cmd \in {"prepare", "open"}, NEW p \in Selections,
         NEW state \in {"preparing", "opening"}, begin(cmd, p, state)
  PROVE  FilesInv'
<1>1. /\ work.cmd = "none" /\ UNCHANGED <<disk, javas, faults>>
      /\ p # host.pack => ~host.running
      /\ host' = [configured(p) EXCEPT !.state = state]
      /\ work' = [Idle EXCEPT !.cmd = cmd, !.step = "detect"]
  BY DEF begin
<1>2. work' \in Work /\ work'.cmd = cmd /\ work'.step = "detect" /\ work'.todo = <<>>
  <2>1. work' = [cmd |-> cmd, step |-> "detect", todo |-> <<>>, java |-> NoJava]
    BY <1>1, Zenon DEF Idle
  <2>2. <<>> \in Seq(Mods)
    BY EmptySeq
  <2> QED
    BY <2>1, <2>2 DEF Work, Steps
<1>3. host' \in Host /\ host'.state = state /\ (host'.running => host.running)
  <2>1. CASE p = host.pack
    BY <1>1, <2>1 DEF configured, Host, FilesInv, Types
  <2>2. CASE p # host.pack
    <3>1. configured(p) \in Host /\ ~configured(p).running
      BY <2>2 DEF configured, newBridge, Host
    <3> HIDE DEF configured
    <3> QED
      BY <1>1, <3>1 DEF Host
  <2> QED
    BY <2>1, <2>2
<1>4. Types'
  BY <1>1, <1>2, <1>3 DEF FilesInv, Types, disk, Jars
<1>5. JarsInv'
  BY <1>1, <1>2, <1>3, JarsStay DEF disk
<1>6. RoomInv'
  BY <1>2, <1>3 DEF RoomInv, Configured, Installing
<1> QED
  BY <1>4, <1>5, <1>6 DEF FilesInv

\* The first Java that runs is taken.
LEMMA DetectKeeps == ASSUME FilesInv, detectWindowsJava PROVE FilesInv'
<1>1. work.step = "detect" /\ UNCHANGED <<disk, javas, faults>>
  BY DEF detectWindowsJava
<1>2. ASSUME NEW i \in compatible,
             work' = [work EXCEPT !.java = Javas[i], !.step = afterJava(work.cmd)],
             host' = host
      PROVE  FilesInv'
  <2> DEFINE step == afterJava(work.cmd)
  <2>1. Javas[i] \in JavaPaths
    BY DEF compatible, JavaPaths
  <2>2. step \in {"fabric", "files"} /\ (step = "fabric" => work.cmd = "open")
    BY DEF afterJava
  <2>3. step \in Steps
    BY <2>2 DEF Steps
  <2> HIDE DEF step
  <2>4. work' \in Work /\ work'.step = step /\ work'.cmd = work.cmd
    BY <1>2, <2>1, <2>3 DEF FilesInv, Types, Work, step
  <2>5. Types'
    BY <1>1, <1>2, <2>2, <2>4, NotReady DEF FilesInv, Types, disk, Jars
  <2>6. JarsInv'
    BY <1>1, <1>2, <2>2, <2>4, JarsStay DEF disk
  <2>7. RoomInv'
    BY <1>1, <1>2, <2>2, <2>4, NotReady DEF RoomInv, Configured, Installing
  <2> QED
    BY <2>5, <2>6, <2>7 DEF FilesInv
<1> QED
  BY <1>1, <1>2, BlockedEnds DEF detectWindowsJava

\* The bootstrap begins, has nothing to do, or fails.
LEMMA BootstrapKeeps == ASSUME FilesInv, bootstrapFabricServer PROVE FilesInv'
<1>1. /\ work.step = "fabric" /\ UNCHANGED <<disk, javas, faults>>
      /\ \/ next("cache") /\ UNCHANGED host
         \/ next("files") /\ UNCHANGED host
         \/ blocked
  BY DEF bootstrapFabricServer
<1>2. work.cmd = "open" /\ "cache" \in Jars
  BY <1>1 DEF FilesInv, Types, Jars
<1>3. /\ jar' \in [Jars -> {"absent", "whole"}]
      /\ jar'.metadata = "whole" => jar'.cache = "whole" /\ jar'.launcher = "whole"
      /\ jar.launcher = "whole" => jar'.launcher = "whole"
      /\ UNCHANGED <<downloads, mods, settings, whitelist, javas, faults>>
  BY <1>1 DEF FilesInv, JarsInv, disk
<1> QED
  BY <1>1, <1>2, <1>3, EarlyStep, BlockedEnds

\* A jar takes the place of the one before in one step.
LEMMA ArtifactKeeps == ASSUME FilesInv, installFabricArtifact PROVE FilesInv'
<1>1. PICK j \in Jars : work.step = j /\ writeFileAtomic(j)
  BY DEF installFabricArtifact
<1>2. /\ jar' = [jar EXCEPT ![j] = "whole"] /\ next(afterJar(j))
      /\ UNCHANGED <<downloads, mods, settings, whitelist, javas, host, faults>>
  BY <1>1 DEF installFabricArtifact, writeFileAtomic
<1>3. work.cmd = "open"
  BY <1>1 DEF FilesInv, Types
<1>4. /\ jar \in [Jars -> {"absent", "whole"}]
      /\ j \in {"launcher", "metadata"} => jar.cache = "whole"
      /\ j = "metadata" => jar.launcher = "whole"
      /\ jar.metadata = "whole" => jar.cache = "whole" /\ jar.launcher = "whole"
  BY <1>1 DEF FilesInv, JarsInv
<1>5. j \in {"cache", "launcher", "metadata"}
  BY DEF Jars
<1>6. /\ jar' \in [Jars -> {"absent", "whole"}]
      /\ jar'[j] = "whole" /\ \A k \in Jars : jar[k] = "whole" => jar'[k] = "whole"
      /\ \A k \in Jars : k # j => jar'[k] = jar[k]
  BY <1>2, <1>4
<1>7. "cache" \in Jars /\ "launcher" \in Jars /\ "metadata" \in Jars
  BY DEF Jars
<1>8. jar'.metadata = "whole" => jar'.cache = "whole" /\ jar'.launcher = "whole"
  BY <1>4, <1>5, <1>6, <1>7
<1>9. CASE j = "cache"
  <2>1. next("launcher") /\ jar'.cache = "whole"
    BY <1>2, <1>6, <1>9 DEF afterJar
  <2> QED
    BY <1>2, <1>3, <1>6, <1>7, <1>8, <2>1, EarlyStep
<1>10. CASE j = "launcher"
  <2>1. next("metadata") /\ jar'.launcher = "whole" /\ jar'.cache = "whole"
    BY <1>2, <1>4, <1>6, <1>7, <1>10 DEF afterJar
  <2> QED
    BY <1>2, <1>3, <1>6, <1>7, <1>8, <2>1, EarlyStep
<1>11. CASE j = "metadata"
  <2>1. next("files")
    BY <1>2, <1>11 DEF afterJar
  <2> QED
    BY <1>2, <1>3, <1>6, <1>7, <1>8, <2>1, EarlyStep
<1> QED
  BY <1>5, <1>9, <1>10, <1>11

\* The settings are truncated, then written.
LEMMA SettingsKeep == ASSUME FilesInv, writeSettings PROVE FilesInv'
<1>1. /\ work.step = "files"
      /\ UNCHANGED <<downloads, mods, whitelist, jar, javas, host, faults>>
  BY DEF writeSettings
<1>2. work.cmd # "none" /\ host.state \notin {"ready", "starting"} /\ host.pack \in Selections
  BY <1>1, NotReady DEF FilesInv, Types, Host
<1>3. CASE settings = "torn"
  <2>1. settings' = host.pack /\ next("whitelist")
    BY <1>3 DEF writeSettings
  <2>2. "whitelist" \in Steps
    BY DEF Steps, Configured
  <2>3. work' \in Work /\ work'.step = "whitelist" /\ work'.cmd = work.cmd
    BY <2>1, <2>2, NextStep DEF FilesInv, Types
  <2>4. Types'
    BY <1>1, <1>2, <2>1, <2>3 DEF FilesInv, Types, Jars
  <2>5. JarsInv'
    BY <1>1, <2>3, JarsStay
  <2>6. RoomInv'
    BY <1>1, <1>2, <2>1, <2>3 DEF RoomInv, Installing
  <2> QED
    BY <2>4, <2>5, <2>6 DEF FilesInv
<1>4. CASE settings # "torn"
  <2>1. settings' = "torn" /\ work' = work
    BY <1>4 DEF writeSettings
  <2>2. Types'
    BY <1>1, <1>2, <2>1 DEF FilesInv, Types, Jars
  <2>3. JarsInv'
    BY <1>1, <2>1, JarsStay
  <2>4. RoomInv'
    BY <1>1, <1>2, <2>1 DEF RoomInv, Configured, Installing
  <2> QED
    BY <2>2, <2>3, <2>4 DEF FilesInv
<1> QED
  BY <1>3, <1>4

\* The whitelist is written unless it is there.
LEMMA WhitelistKeeps == ASSUME FilesInv, writeWhitelist PROVE FilesInv'
<1>1. /\ work.step \in {"whitelist", "whitelist written"}
      /\ UNCHANGED <<downloads, mods, settings, jar, javas, host, faults>>
  BY DEF writeWhitelist
<1>2. work.cmd # "none" /\ host.state \notin {"ready", "starting"}
  BY <1>1, NotReady
<1>3. /\ whitelist' \in {"absent", "torn", "empty", "players"}
      /\ next("unknown") \/ next("whitelist written")
  BY DEF writeWhitelist, FilesInv, Types
<1>4. settings = host.pack /\ "unknown" \in Steps /\ "whitelist written" \in Steps
  BY <1>1 DEF FilesInv, RoomInv, Configured, Steps
<1>5. /\ work' \in Work /\ work'.step \in {"unknown", "whitelist written"}
      /\ work'.cmd = work.cmd
  BY <1>3, <1>4, NextStep DEF FilesInv, Types
<1>6. Types'
  BY <1>1, <1>2, <1>3, <1>5 DEF FilesInv, Types, Jars
<1>7. JarsInv'
  BY <1>1, <1>5, JarsStay
<1>8. RoomInv'
  BY <1>1, <1>2, <1>4, <1>5 DEF RoomInv, Installing
<1> QED
  BY <1>6, <1>7, <1>8 DEF FilesInv

\* The mods of no selection go, one after the other; then the selection's are to be
\* installed.
LEMMA RemoveKeeps == ASSUME FilesInv, removeUnknownMods PROVE FilesInv'
<1>1. /\ work.step = "unknown"
      /\ UNCHANGED <<downloads, settings, whitelist, jar, javas, host, faults>>
  BY DEF removeUnknownMods
<1>2. work.cmd # "none" /\ host.state \notin {"ready", "starting"} /\ settings = host.pack
  BY <1>1, NotReady DEF FilesInv, RoomInv, Configured
<1>3. CASE unknownMods = {}
  <2>1. work' = [work EXCEPT !.step = "mod", !.todo = Packs[host.pack]] /\ mods' = mods
    BY <1>3 DEF removeUnknownMods
  <2>2. Packs[host.pack] \in Seq(Mods)
    BY EntriesAreMods DEF FilesInv, Types, Host
  <2>3. "mod" \in Steps
    BY DEF Steps, Configured, Installing
  <2>4. /\ work' \in Work /\ work'.step = "mod" /\ work'.cmd = work.cmd
        /\ work'.todo = Packs[host.pack]
    BY <2>1, <2>2, <2>3 DEF FilesInv, Types, Work
  <2>5. Left' = Entries(host.pack)
    BY <2>4 DEF Left, Entries
  <2>6. \A m \in Mods : m \notin Entries(host.pack) => mods[m] = "absent"
    BY <1>3 DEF unknownMods
  <2>7. Types'
    BY <1>1, <1>2, <2>1, <2>4 DEF FilesInv, Types, Jars
  <2>8. JarsInv'
    BY <1>1, <2>4, JarsStay
  <2>9. RoomInv'
    BY <1>1, <1>2, <2>1, <2>4, <2>5, <2>6 DEF RoomInv
  <2> QED
    BY <2>7, <2>8, <2>9 DEF FilesInv
<1>4. CASE unknownMods # {}
  <2>1. PICK m \in unknownMods : mods' = [mods EXCEPT ![m] = "absent"]
    BY <1>4 DEF removeUnknownMods
  <2>2. work' = work /\ mods' \in [Mods -> Contents]
    BY <1>4, <2>1 DEF removeUnknownMods, FilesInv, Types, Contents
  <2>3. Types'
    BY <1>1, <2>2 DEF FilesInv, Types
  <2>4. JarsInv'
    BY <1>1, <2>2, JarsStay
  <2>5. RoomInv'
    BY <1>1, <1>2, <2>2 DEF RoomInv, Installing
  <2> QED
    BY <2>3, <2>4, <2>5 DEF FilesInv
<1> QED
  BY <1>3, <1>4

\* A mod is downloaded, copied or refused.
LEMMA InstallKeeps == ASSUME FilesInv, NEW m \in Mods, installMod(m) PROVE FilesInv'
<1>1. /\ work.step = "mod" /\ work.todo # <<>> /\ UNCHANGED <<disk, javas, faults>>
      /\ \/ (next("download") \/ next("copy")) /\ host' = host
         \/ blocked
  BY DEF installMod
<1>2. CASE (next("download") \/ next("copy")) /\ host' = host
  <2>1. work.cmd # "none" /\ host.state \notin {"ready", "starting"}
    BY <1>1, NotReady
  <2>2. "download" \in Steps /\ "copy" \in Steps
    BY DEF Steps, Configured, Installing
  <2>3. /\ work' \in Work /\ work'.step \in {"download", "copy"} /\ work'.cmd = work.cmd
        /\ work'.todo = work.todo /\ Left' = Left
    BY <1>2, <2>2, NextStep DEF FilesInv, Types
  <2>4. Types'
    BY <1>1, <1>2, <2>1, <2>3 DEF FilesInv, Types, Jars, disk
  <2>5. JarsInv'
    BY <1>1, <1>2, <2>3, JarsStay DEF disk
  <2>6. RoomInv'
    BY <1>1, <1>2, <2>1, <2>3 DEF FilesInv, RoomInv, Configured, Installing, disk
  <2> QED
    BY <2>4, <2>5, <2>6 DEF FilesInv
<1> QED
  BY <1>1, <1>2, BlockedEnds

\* A download is written in place.
LEMMA DownloadKeeps == ASSUME FilesInv, downloadVerifiedModSource PROVE FilesInv'
<1>1. /\ work.step = "download" /\ downloads' = writing(downloads, Head(work.todo))
      /\ next("mod") \/ work' = work
      /\ UNCHANGED <<mods, settings, whitelist, jar, javas, host, faults>>
  BY DEF downloadVerifiedModSource
<1>2. work.cmd # "none" /\ host.state \notin {"ready", "starting"}
  BY <1>1, NotReady
<1>3. downloads' \in [Mods -> Contents]
  BY <1>1 DEF FilesInv, Types, writing, Contents
<1>4. /\ work' \in Work /\ work'.step \in {"mod", "download"} /\ work'.cmd = work.cmd
      /\ work'.todo = work.todo /\ Left' = Left
  <2>1. "mod" \in Steps
    BY DEF Steps, Configured, Installing
  <2> QED
    BY <1>1, <2>1, NextStep DEF FilesInv, Types, Left
<1>5. Types'
  BY <1>1, <1>2, <1>3, <1>4 DEF FilesInv, Types, Jars
<1>6. JarsInv'
  BY <1>1, <1>4, JarsStay
<1>7. RoomInv'
  BY <1>1, <1>2, <1>4 DEF FilesInv, RoomInv, Configured, Installing
<1> QED
  BY <1>5, <1>6, <1>7 DEF FilesInv

\* The mod at hand is copied into the folder: it is torn, and then whole and done.
LEMMA CopyKeeps == ASSUME FilesInv, copyMod PROVE FilesInv'
<1> DEFINE m == Head(work.todo)
<1>1. /\ work.step \in {"copy", "copied"}
      /\ UNCHANGED <<downloads, settings, whitelist, jar, javas, host, faults>>
  BY DEF copyMod
<1>2. work.cmd # "none" /\ host.state \notin {"ready", "starting"}
  BY <1>1, NotReady
<1>3. work \in Work /\ work.todo \in Seq(Mods) /\ work.todo # <<>> /\ mods \in [Mods -> Contents]
  BY <1>1 DEF FilesInv, Types, Work
<1>4. m \in Mods /\ m \in Left
  BY <1>3, ModAtHand
<1>5. /\ settings = host.pack /\ Left \subseteq Entries(host.pack)
      /\ \A k \in Mods : /\ k \notin Entries(host.pack) => mods[k] = "absent"
                         /\ k \in Entries(host.pack) \ Left => mods[k] = "whole"
  BY <1>1 DEF FilesInv, RoomInv, Configured, Installing
<1>6. CASE work.step = "copy"
  <2>1. mods' = [mods EXCEPT ![m] = "torn"] /\ next("copied")
    BY <1>6 DEF copyMod
  <2>2. "copied" \in Steps
    BY DEF Steps, Configured, Installing
  <2>3. /\ work' \in Work /\ work'.step = "copied" /\ work'.cmd = work.cmd
        /\ work'.todo = work.todo /\ Left' = Left
    BY <1>3, <2>1, <2>2, NextStep
  <2> HIDE DEF m
  <2>4. mods' \in [Mods -> Contents]
    BY <1>3, <2>1 DEF Contents
  <2>5. Types'
    BY <1>1, <1>2, <1>3, <2>3, <2>4 DEF FilesInv, Types, Jars
  <2>6. JarsInv'
    BY <1>1, <2>3, JarsStay
  <2>7. \A k \in Mods : /\ k \notin Entries(host.pack) => mods'[k] = "absent"
                        /\ k \in Entries(host.pack) \ Left => mods'[k] = "whole"
    BY <1>3, <1>4, <1>5, <2>1
  <2>8. RoomInv'
    BY <1>1, <1>2, <1>5, <2>3, <2>7 DEF RoomInv
  <2> QED
    BY <2>5, <2>6, <2>8 DEF FilesInv
<1>7. CASE work.step = "copied"
  <2>1. /\ mods' = [mods EXCEPT ![m] = "whole"]
        /\ work' = [work EXCEPT !.step = "mod", !.todo = Tail(work.todo)]
    BY <1>7 DEF copyMod
  <2>2. /\ Tail(work.todo) \in Seq(Mods)
        /\ Left = {m} \cup {Tail(work.todo)[i] : i \in DOMAIN Tail(work.todo)}
    BY <1>3, HeadAndTail DEF Left
  <2>3. "mod" \in Steps
    BY DEF Steps, Configured, Installing
  <2>4. /\ work' \in Work /\ work'.step = "mod" /\ work'.cmd = work.cmd
        /\ work'.todo = Tail(work.todo)
    BY <1>3, <2>1, <2>2, <2>3 DEF Work
  <2>5. Left = {m} \cup Left'
    BY <2>2, <2>4 DEF Left
  <2> HIDE DEF m
  <2>6. mods' \in [Mods -> Contents]
    BY <1>3, <2>1 DEF Contents
  <2>7. Types'
    BY <1>1, <1>2, <2>4, <2>6 DEF FilesInv, Types, Jars
  <2>8. JarsInv'
    BY <1>1, <2>4, JarsStay
  <2>9. \A k \in Mods : /\ k \notin Entries(host.pack) => mods'[k] = "absent"
                        /\ k \in Entries(host.pack) \ Left' => mods'[k] = "whole"
    BY <1>3, <1>4, <1>5, <2>1, <2>5
  <2>10. RoomInv'
    BY <1>1, <1>2, <1>5, <2>4, <2>5, <2>9 DEF RoomInv
  <2> QED
    BY <2>7, <2>8, <2>10 DEF FilesInv
<1> QED
  BY <1>1, <1>6, <1>7

\* Nothing is left to install: the selection is.
LEMMA AllInstalled ==
  ASSUME FilesInv, work.step = "mod", work.todo = <<>>
  PROVE  Installed /\ settings = host.pack
<1>1. Left = {}
  BY DEF Left
<1>2. \A m \in Mods : /\ m \notin Entries(host.pack) => mods[m] = "absent"
                      /\ m \in Entries(host.pack) \ Left => mods[m] = "whole"
  BY DEF FilesInv, RoomInv, Installing
<1>3. settings = host.pack
  BY DEF FilesInv, RoomInv, Configured, Installing
<1> QED
  BY <1>1, <1>2, <1>3 DEF Installed

\* The room is ready, or its server starts, with the selection installed.
LEMMA Succeeds ==
  ASSUME FilesInv, work.step = "mod", work.todo = <<>>, work' = Idle,
         NEW launch \in JavaPaths \cup {NoJava}, NEW running \in BOOLEAN,
         NEW state \in {"ready", "starting", "blocked"},
         host' = [host EXCEPT !.state = state, !.launch = launch, !.running = running],
         running => jar.launcher = "whole", UNCHANGED <<disk, javas, faults>>
  PROVE  FilesInv'
<1>1. work' \in Work /\ work'.cmd = "none" /\ work'.step = "none"
  BY IdleWork
<1>2. Installed /\ settings = host.pack
  BY AllInstalled
<1>3. /\ host' \in Host /\ host'.pack = host.pack /\ (host'.running <=> running)
  BY DEF FilesInv, Types, Host
<1>4. Types'
  BY <1>1, <1>3 DEF FilesInv, Types, disk, Jars
<1>5. JarsInv'
  BY <1>1, <1>3 DEF FilesInv, JarsInv, disk
<1>6. Installed'
  BY <1>2, <1>3 DEF Installed, disk
<1>7. RoomInv'
  BY <1>1, <1>2, <1>3, <1>6 DEF RoomInv, Configured, Installing, disk
<1> QED
  BY <1>4, <1>5, <1>7 DEF FilesInv

\* A prepare ends.
LEMMA PreparedKeeps == ASSUME FilesInv, roomPrepared PROVE FilesInv'
<1> DEFINE running == host.running
<1>1. /\ work.step = "mod" /\ work.todo = <<>> /\ work' = Idle
      /\ host' = [host EXCEPT !.state = "ready"] /\ UNCHANGED <<disk, javas, faults>>
  BY DEF roomPrepared
<1>2. host \in Host /\ host.launch \in JavaPaths \cup {NoJava} /\ running \in BOOLEAN
      /\ (running => jar.launcher = "whole")
  BY DEF FilesInv, Types, JarsInv, Host
<1>3. host' = [host EXCEPT !.state = "ready", !.launch = host.launch, !.running = running]
  BY <1>1, <1>2 DEF Host
<1> HIDE DEF running
<1> QED
  BY <1>1, <1>2, <1>3, Succeeds

\* An open ends: its server is launched from a jar that is there.
LEMMA LaunchKeeps == ASSUME FilesInv, launchLocalServer PROVE FilesInv'
<1>1. /\ work.step = "mod" /\ work.todo = <<>> /\ work' = Idle
      /\ UNCHANGED <<disk, javas, faults>>
  BY DEF launchLocalServer
<1>2. /\ host \in Host /\ launchJava \in JavaPaths \cup {NoJava}
      /\ host.running => jar.launcher = "whole"
      /\ jar.launcher \in {"absent", "whole"}
  BY DEF FilesInv, Types, JarsInv, Host, Work, launchJava, Jars
<1>3. CASE jar.launcher # "absent" /\ launchJava \in javas
  <2>1. host' = [host EXCEPT !.state = "starting", !.launch = launchJava, !.running = TRUE]
    BY <1>3 DEF launchLocalServer
  <2> QED
    BY <1>1, <1>2, <1>3, <2>1, Succeeds
<1>4. CASE ~(jar.launcher # "absent" /\ launchJava \in javas)
  <2> DEFINE running == host.running
  <2>1. host' = [host EXCEPT !.state = "blocked", !.launch = launchJava]
    BY <1>4 DEF launchLocalServer
  <2>2. host' = [host EXCEPT !.state = "blocked", !.launch = launchJava, !.running = running]
    BY <1>2, <2>1 DEF Host
  <2>3. running \in BOOLEAN /\ (running => jar.launcher = "whole")
    BY <1>2 DEF Host
  <2> HIDE DEF running
  <2> QED
    BY <1>1, <1>2, <2>2, <2>3, Succeeds
<1> QED
  BY <1>3, <1>4

-----------------------------------------------------------------------------
(* The invariant holds in every state.                                     *)

\* Mods that were dropped in, and nothing else.
LEMMA InitFilesInv == ASSUME Init PROVE FilesInv
<1>1. PICK p \in Selections : host = newBridge(p)
  BY DEF Init
<1>2. /\ downloads = [m \in Mods |-> "absent"] /\ mods \in [Mods -> {"absent", "whole"}]
      /\ settings = "absent" /\ whitelist = "absent" /\ jar = [j \in Jars |-> "absent"]
      /\ javas = JavaPaths /\ work = Idle /\ faults = 0
  BY DEF Init
<1>3. host \in Host /\ host.state = "stopped" /\ ~host.running
  BY <1>1 DEF newBridge, Host
<1>4. 0 \in 0..MaxFaults
  BY RoomFilesAssumption
<1>5. Types
  BY <1>2, <1>3, <1>4, IdleWork DEF Types, Contents, Jars
<1>6. JarsInv
  BY <1>2, <1>3, IdleWork DEF JarsInv, Jars
<1>7. RoomInv
  BY <1>2, <1>3, IdleWork DEF RoomInv, Configured, Installing
<1> QED
  BY <1>5, <1>6, <1>7 DEF FilesInv

\* Every step keeps the invariant.
LEMMA NextFilesInv == ASSUME FilesInv, [Next]_vars PROVE FilesInv'
<1>1. ASSUME NEW p \in Selections, prepareRoom(p) \/ openRoom(p)
      PROVE  FilesInv'
  BY <1>1, BeginKeeps DEF prepareRoom, openRoom
<1>2. CASE serverEnds
  <2>1. /\ work.cmd = "none" /\ host' = [host EXCEPT !.running = FALSE, !.state = "stopped"]
        /\ whitelist' \in {whitelist, IF whitelist = "empty" THEN "players" ELSE whitelist}
        /\ UNCHANGED <<downloads, mods, settings, jar, javas, work, faults>>
    BY <1>2 DEF serverEnds
  <2>2. host' \in Host /\ host'.state = "stopped" /\ ~host'.running
    BY <2>1 DEF FilesInv, Types, Host
  <2>3. work.step = "none"
    BY <2>1 DEF FilesInv, Types
  <2>4. Types'
    BY <2>1, <2>2 DEF FilesInv, Types
  <2>5. JarsInv'
    BY <2>1, <2>2 DEF FilesInv, JarsInv
  <2>6. RoomInv'
    BY <2>1, <2>2, <2>3 DEF RoomInv, Configured, Installing
  <2> QED
    BY <2>4, <2>5, <2>6 DEF FilesInv
<1>3. CASE writeFails
  <2>1. /\ work.cmd # "none" /\ faults < MaxFaults /\ faults' = faults + 1 /\ work' = Idle
        /\ UNCHANGED <<disk, javas, host>>
    BY <1>3 DEF writeFails
  <2>2. host' \in Host /\ host'.state \notin {"ready", "starting"} /\ javas' \subseteq JavaPaths
    BY <2>1 DEF FilesInv, Types, RoomInv
  <2>3. faults' \in 0..MaxFaults
    BY <2>1, RoomFilesAssumption DEF FilesInv, Types
  <2> QED
    BY <2>1, <2>2, <2>3, Ends
<1>4. CASE hostDies
  <2>1. /\ faults < MaxFaults /\ faults' = faults + 1 /\ work' = Idle
        /\ host' = newBridge(host.pack) /\ UNCHANGED <<disk, javas>>
    BY <1>4 DEF hostDies
  <2>2. host' \in Host /\ host'.state = "stopped" /\ ~host'.running
    BY <2>1 DEF FilesInv, Types, Host, newBridge
  <2>3. faults' \in 0..MaxFaults /\ javas' \subseteq JavaPaths
    BY <2>1, RoomFilesAssumption DEF FilesInv, Types
  <2> QED
    BY <2>1, <2>2, <2>3, Ends
<1>5. CASE javaChanges
  <2>1. /\ faults < MaxFaults /\ faults' = faults + 1 /\ UNCHANGED <<disk, host, work>>
        /\ \E j \in JavaPaths : javas' = IF j \in javas THEN javas \ {j} ELSE javas \cup {j}
    BY <1>5 DEF javaChanges
  <2>2. faults' \in 0..MaxFaults /\ javas' \subseteq JavaPaths
    BY <2>1, RoomFilesAssumption DEF FilesInv, Types
  <2>3. Types'
    BY <2>1, <2>2 DEF FilesInv, Types, disk
  <2>4. JarsInv'
    BY <2>1 DEF FilesInv, JarsInv, disk
  <2>5. RoomInv'
    BY <2>1 DEF FilesInv, RoomInv, Left, Installed, disk
  <2> QED
    BY <2>3, <2>4, <2>5 DEF FilesInv
<1>6. CASE UNCHANGED vars
  <2>1. Types'
    BY <1>6 DEF FilesInv, Types, vars
  <2>2. JarsInv'
    BY <1>6 DEF FilesInv, JarsInv, vars
  <2>3. RoomInv'
    BY <1>6 DEF FilesInv, RoomInv, Left, Installed, vars
  <2> QED
    BY <2>1, <2>2, <2>3 DEF FilesInv
<1> QED
  BY <1>1, <1>2, <1>3, <1>4, <1>5, <1>6, DetectKeeps, BootstrapKeeps, ArtifactKeeps,
     SettingsKeep, WhitelistKeeps, RemoveKeeps, InstallKeeps, DownloadKeeps, CopyKeeps,
     PreparedKeeps, LaunchKeeps DEF Next

-----------------------------------------------------------------------------
(* The theorems.                                                           *)

\* What the commands have done to the files, wherever they were cut off.
THEOREM FilesInvariant == Spec => []FilesInv
<1>1. Init => FilesInv
  BY InitFilesInv
<1>2. FilesInv /\ [Next]_vars => FilesInv'
  BY NextFilesInv
<1> QED
  BY <1>1, <1>2, PTL DEF Spec

\* A room is reported ready, or starting, only with exactly the files of its selection
\* and its own settings (materializeRoom, removeUnknownMods).
THEOREM ReadyRoomsAreInstalled == LiveSpec => []ReadyMeansInstalled
<1>1. FilesInv => TypeOK
  <2>1. ASSUME FilesInv
        PROVE  jar \in [Jars -> Contents]
    BY <2>1 DEF FilesInv, JarsInv, Contents
  <2> QED
    BY <2>1 DEF FilesInv, Types, Host, Work, TypeOK
<1>2. FilesInv => ReadyMeansInstalled
  BY <1>1 DEF FilesInv, RoomInv, ReadyMeansInstalled
<1> QED
  BY <1>2, FilesInvariant, PTL DEF LiveSpec

\* A launched server runs a jar that was written whole, and the metadata describes jars
\* that are there (writeFileAtomic, installFabricArtifact).
THEOREM LaunchedJarsAreWhole == LiveSpec => []LaunchersAreWhole
<1>1. FilesInv => LaunchersAreWhole
  BY DEF FilesInv, JarsInv, LaunchersAreWhole
<1> QED
  BY <1>1, FilesInvariant, PTL DEF LiveSpec

-----------------------------------------------------------------------------
(* The pack: its inductive invariant.                                      *)

Verdicts ==
  [label : {"likely_fail", "caution", "high_confidence"}, suggestions : SUBSET Projects,
   missing : SUBSET Projects, canGeneratePack : BOOLEAN]

PlanTypes ==
  /\ catalog \in [Projects -> CatalogEntries]
  /\ \E ids \in SUBSET Projects : selected \in [ids -> CatalogEntries]
  /\ verdict \in Verdicts \cup {None}
  /\ gate \in {"unchecked", "passed", "blocked"}
  /\ picks \in 0..MaxPicks

\* What was said of a selection is still true of it, whatever the catalog has become:
\* the verdict by its own entries, the pack made of it and the gate's word on that.
PlanSound ==
  /\ verdict # None =>
       /\ selectedIds # {}
       /\ verdict.suggestions \cup verdict.missing \subseteq Projects \ selectedIds
  /\ GeneratablePacksAreClosed
  /\ pack # None => pack = createCuratedPack(selected)
  /\ gate # "unchecked" => pack # None /\ (gate = "passed" <=> validatePackPolicy(pack))

\* The steps of a script whose local is a jar.
Building == {"jar", "bridge", "manifest"}
Copying == {"copy", "release manifest"}
BuildSteps == {"compile"} \cup Building

Scripts ==
  [script : {"artifacts"}, step : BuildSteps, bytes : JarContents]
    \cup [script : {"release-assets"}, step : Copying, bytes : JarContents]

\* A file a pack may have.
Pinned(file) ==
  \/ file \in {catalogFile(m, 1) : m \in Approved}
  \/ file.path \in FirstPartyPaths /\ file.bytes \in Revisions /\ file.url = "public"

\* The pack a script is writing.
Written == run \in [script : {"mrpack"}, step : {"write"}, pack : {run.pack}]

JarTypes == [jar : JarContents, manifest : JarContents]

ReleaseTypes ==
  /\ source \in Revisions
  /\ out \in JarTypes /\ dist \in JarTypes
  /\ {url, friend} \subseteq JarContents
  /\ deaths \in 0..MaxDeaths
  /\ described \subseteq Revisions
  /\ run = NoScript \/ run \in Scripts \/ Written

\* A revision is in the manifest, and in the release, only once a manifest has
\* described it: the jar that is copied is the one the manifest described when it was
\* looked at, and no build replaces it meanwhile.
Described ==
  /\ run.step \in Building => run.bytes \in Revisions
  /\ out.manifest \in Revisions => out.manifest \in described
  /\ run.step = "copy" => out.jar \in described
  /\ dist.jar \in Revisions => dist.jar \in described

\* A pack is whole and of pinned files from the moment it is built.
PinnedPacks ==
  /\ run.step = "write" => \A file \in run.pack.files : Pinned(file)
  /\ whole => \A file \in mrpack.files : Pinned(file)
  /\ friend # Torn

\* The last word of m1:readiness depends on nothing but the template, which stays.
ReportInv ==
  /\ report # None => template # None
  /\ report # None /\ report.ready =>
       buildMrpackManifest(ClientPath, report.jar, report.url) # None

PackInv == PlanTypes /\ PlanSound /\ ReleaseTypes /\ Described /\ PinnedPacks /\ ReportInv

\* A verdict, and a template or a manifest, is told from none.
LEMMA NoneIsApart ==
  /\ \A v \in Verdicts : v # None
  /\ \A x : [files |-> x] # None
<1>1. \A v \in Verdicts : v # None
  BY DEF Verdicts, None
<1>2. \A x : [files |-> x] # None
  <2>1. DOMAIN None = {"none"}
    BY DEF None
  <2>2. \A x : DOMAIN [files |-> x] = {"files"}
    OBVIOUS
  <2>. QED
    BY <2>1, <2>2
<1>. QED
  BY <1>1, <1>2

\* A pack made of picked mods is told from none as well: it is refused for a file
\* the catalog finds a flaw in, or for having no file, and for nothing else.
LEMMA CuratedPacks ==
  ASSUME NEW ids \in SUBSET Projects, NEW entries \in [ids -> CatalogEntries]
  PROVE  /\ createCuratedPack(entries) = None <=>
              ids = {} \/ \E m \in ids : evaluateCatalogEntryMetadata(entries[m]) # {}
         /\ createCuratedPack(entries) # None =>
              (validatePackPolicy(createCuratedPack(entries)) <=> validatePackPolicy(entries))
<1>. DEFINE made == [m \in DOMAIN entries |->
                       [version |-> entries[m].version, flaws |-> fileFlaws(entries[m])]]
            refused == \/ DOMAIN entries = {}
                       \/ \E m \in DOMAIN entries :
                            evaluateCatalogEntryMetadata(entries[m]) # {}
<1>1. DOMAIN entries = ids
  OBVIOUS
<1>2. createCuratedPack(entries) = IF refused THEN None ELSE made
  BY Zenon DEF createCuratedPack
<1>3. made # None
  <2>1. DOMAIN None = {"none"}
    BY DEF None
  <2>2. DOMAIN made = ids
    BY <1>1
  <2>3. DOMAIN made # DOMAIN None
    BY <2>1, <2>2, PackPlanAssumption
  <2>. QED
    BY <2>3
<1>4. validatePackPolicy(made) <=> validatePackPolicy(entries)
  <2>1. DOMAIN made = ids /\ \A m \in ids : made[m].flaws = fileFlaws(entries[m])
    BY <1>1
  <2>. HIDE DEF made
  <2>2. \A m \in ids : validateModPermissionMetadata(made[m])
                         <=> validateModPermissionMetadata(entries[m])
    BY <2>1 DEF validateModPermissionMetadata, fileFlaws
  <2>. QED
    BY <1>1, <2>1, <2>2 DEF validatePackPolicy
<1>5. refused <=> ids = {} \/ \E m \in ids : evaluateCatalogEntryMetadata(entries[m]) # {}
  BY <1>1
<1>. HIDE DEF made, refused
<1>6. createCuratedPack(entries) = None <=> refused
  BY <1>2, <1>3
<1>. QED
  BY <1>2, <1>4, <1>5, <1>6

\* What the engine says of a selection is a verdict; one that may be generated lacks
\* no dependency, and every mod in it supports the target with whole metadata.
LEMMA VerdictsAreTrue ==
  ASSUME NEW ids \in SUBSET Projects, selected \in [ids -> CatalogEntries]
  PROVE  /\ evaluateCompatibility \in Verdicts
         /\ evaluateCompatibility.suggestions \cup evaluateCompatibility.missing
              \subseteq Projects \ ids
         /\ evaluateCompatibility.canGeneratePack =>
              \A m \in ids :
                /\ Requires[m] \subseteq ids
                /\ supportsTarget(selected[m])
                /\ evaluateModMetadata(selected[m]) = {}
<1>. DEFINE plan == resolveDependencyPlan
            wanted == requiredDependencies
            offered == {m \in wanted : suggestible(m)}
            lacking == {m \in wanted : ~suggestible(m)}
            label == riskLabel(plan)
            sure == label # "likely_fail"
<1>1. selectedIds = ids
  BY DEF selectedIds
<1>2. wanted \subseteq Projects \ ids /\ \A m \in ids : Requires[m] \subseteq ids \cup wanted
  <2>1. wanted = (UNION {Requires[m] : m \in ids}) \ ids
    BY <1>1 DEF requiredDependencies
  <2>2. \A m \in ids : Requires[m] \subseteq Projects
    BY PackPlanAssumption
  <2>. HIDE DEF wanted
  <2>3. ASSUME NEW m \in ids, NEW x \in Requires[m]
        PROVE  x \in ids \cup wanted
    <3>1. x \in UNION {Requires[n] : n \in ids}
      OBVIOUS
    <3>. QED
      BY <2>1, <3>1
  <2>4. ASSUME NEW x \in wanted
        PROVE  x \in Projects \ ids
    <3>1. x \in UNION {Requires[n] : n \in ids} /\ x \notin ids
      BY <2>1
    <3>2. PICK n \in ids : x \in Requires[n]
      BY <3>1
    <3>. QED
      BY <2>2, <3>1, <3>2
  <2>. QED
    BY <2>3, <2>4
<1>3. plan = [suggestions |-> offered, missing |-> lacking]
  BY Zenon DEF resolveDependencyPlan
<1>. HIDE DEF wanted
<1>4. offered \cup lacking = wanted /\ offered \subseteq wanted /\ lacking \subseteq wanted
  <2>. HIDE DEF suggestible
  <2>. QED
    OBVIOUS
<1>. HIDE DEF offered, lacking
<1>5. plan.suggestions = offered /\ plan.missing = lacking
  BY <1>3
<1>. HIDE DEF plan
<1>6. label \in {"likely_fail", "caution", "high_confidence"}
  BY DEF riskLabel
<1>7. sure =>
        /\ offered \cup lacking = {}
        /\ \A m \in ids : supportsTarget(selected[m]) /\ evaluateModMetadata(selected[m]) = {}
  BY <1>1, <1>5, Zenon DEF riskLabel
<1>8. evaluateCompatibility =
        [label |-> label, suggestions |-> plan.suggestions, missing |-> plan.missing,
         canGeneratePack |-> sure]
  BY Zenon DEF evaluateCompatibility, plan
<1>9. sure \in BOOLEAN
  OBVIOUS
<1>. HIDE DEF label, sure
<1>10. evaluateCompatibility =
         [label |-> label, suggestions |-> offered, missing |-> lacking, canGeneratePack |-> sure]
  BY <1>5, <1>8
<1>11. evaluateCompatibility \in Verdicts
  BY <1>2, <1>4, <1>6, <1>9, <1>10 DEF Verdicts
<1>12. /\ evaluateCompatibility.suggestions = offered
       /\ evaluateCompatibility.missing = lacking
       /\ evaluateCompatibility.canGeneratePack = sure
  BY <1>9, <1>10
<1>. QED
  BY <1>2, <1>4, <1>7, <1>11, <1>12

\* A changed selection has nothing said of it yet.
LEMMA SelectionsStartAgain ==
  ASSUME NEW ids \in SUBSET Projects, NEW s \in [ids -> CatalogEntries], selection(s)
  PROVE  /\ (\E i \in SUBSET Projects : selected \in [i -> CatalogEntries])'
         /\ verdict' \in Verdicts \cup {None}
         /\ gate' = "unchecked"
         /\ PlanSound'
<1>1. selected' = s /\ verdict' = None /\ pack' = None /\ gate' = "unchecked"
  BY DEF selection
<1>2. PlanSound'
  BY <1>1 DEF PlanSound, GeneratablePacksAreClosed
<1>. QED
  BY <1>1, <1>2

LEMMA PlanInitially ==
  ASSUME InitPlan
  PROVE  PlanTypes /\ PlanSound
<1>. USE DEF InitPlan
<1>1. PICK c \in Catalogs : catalog = [m \in Projects |-> [version |-> 1, flaws |-> c[m]]]
  OBVIOUS
<1>2. c \in [Projects -> SUBSET Flaws] /\ 1 \in 1..(MaxRefreshes + 1)
  BY PackPlanAssumption
<1>3. catalog \in [Projects -> CatalogEntries]
  BY <1>1, <1>2 DEF CatalogEntries
<1>4. selected \in [{} -> CatalogEntries]
  OBVIOUS
<1>5. picks \in 0..MaxPicks
  BY PackPlanAssumption
<1>6. PlanTypes
  BY <1>3, <1>4, <1>5 DEF PlanTypes
<1>7. PlanSound
  BY DEF PlanSound, GeneratablePacksAreClosed
<1>. QED
  BY <1>6, <1>7

LEMMA PlanSteps ==
  ASSUME PlanTypes, PlanSound, NextPlan
  PROVE  (PlanTypes /\ PlanSound)'
<1>1. PICK ids \in SUBSET Projects : selected \in [ids -> CatalogEntries]
  BY DEF PlanTypes
<1>2. selectedIds = ids
  BY <1>1 DEF selectedIds
<1>3. catalog \in [Projects -> CatalogEntries] /\ picks \in 0..MaxPicks
  BY DEF PlanTypes
<1>4. ASSUME NEW m \in Projects, pickMod(m)
      PROVE  (PlanTypes /\ PlanSound)'
  <2>1. catalog' = catalog /\ picks' \in 0..MaxPicks
    BY <1>3, <1>4, PackPlanAssumption DEF pickMod
  <2>2. \E i \in SUBSET Projects : \E s \in [i -> CatalogEntries] : selection(s)
    <3>1. CASE /\ m \notin selectedIds
               /\ selection([i \in selectedIds \cup {m} |->
                               IF i = m THEN catalog[m] ELSE selected[i]])
      <4>1. [i \in ids \cup {m} |-> IF i = m THEN catalog[m] ELSE selected[i]]
              \in [ids \cup {m} -> CatalogEntries]
        BY <1>1, <1>3
      <4>. QED
        BY <1>2, <3>1, <4>1
    <3>2. CASE /\ m \in selectedIds
               /\ selection([i \in selectedIds \ {m} |-> selected[i]])
      <4>1. [i \in ids \ {m} |-> selected[i]] \in [ids \ {m} -> CatalogEntries]
        BY <1>1
      <4>. QED
        BY <1>2, <3>2, <4>1
    <3>. QED
      BY <1>4, <3>1, <3>2 DEF pickMod
  <2>. QED
    BY <1>3, <2>1, <2>2, SelectionsStartAgain DEF PlanTypes
<1>5. ASSUME acceptSuggestions
      PROVE  (PlanTypes /\ PlanSound)'
  <2>1. catalog' = catalog /\ picks' = picks
    BY <1>5 DEF acceptSuggestions
  <2>. DEFINE more == verdict.suggestions
              s == [i \in ids \cup more |-> IF i \in ids THEN selected[i] ELSE catalog[i]]
  <2>2. selection(s)
    BY <1>2, <1>5 DEF acceptSuggestions
  <2>3. more \subseteq Projects
    BY <1>5 DEF acceptSuggestions, PlanSound
  <2>4. s \in [ids \cup more -> CatalogEntries] /\ ids \cup more \in SUBSET Projects
    BY <1>1, <1>3, <2>3
  <2>. QED
    BY <1>3, <2>1, <2>2, <2>4, SelectionsStartAgain DEF PlanTypes
<1>6. ASSUME evaluate
      PROVE  (PlanTypes /\ PlanSound)'
  <2>1. /\ UNCHANGED <<catalog, selected, pack, gate, picks>>
        /\ verdict = None /\ ids # {}
        /\ verdict' = evaluateCompatibility
    BY <1>2, <1>6 DEF evaluate
  <2>2. PlanTypes'
    BY <1>1, <2>1, VerdictsAreTrue DEF PlanTypes
  <2>3. selectedIds' = ids
    BY <1>2, <2>1 DEF selectedIds
  <2>4. (verdict # None =>
          /\ selectedIds # {}
          /\ verdict.suggestions \cup verdict.missing \subseteq Projects \ selectedIds)'
    BY <1>1, <2>1, <2>3, VerdictsAreTrue
  <2>5. GeneratablePacksAreClosed'
    <3>1. verdict'.canGeneratePack =>
            \A m \in ids :
              /\ Requires[m] \subseteq ids
              /\ supportsTarget(selected[m])
              /\ evaluateModMetadata(selected[m]) = {}
      BY <1>1, <2>1, VerdictsAreTrue
    <3>. QED
      BY <2>1, <2>3, <3>1
         DEF GeneratablePacksAreClosed, supportsTarget, evaluateModMetadata
  <2>6. (pack # None => pack = createCuratedPack(selected))'
    BY <2>1 DEF PlanSound, createCuratedPack, evaluateCatalogEntryMetadata, fileFlaws
  <2>7. (gate # "unchecked" => pack # None /\ (gate = "passed" <=> validatePackPolicy(pack)))'
    BY <2>1 DEF PlanSound, validatePackPolicy, validateModPermissionMetadata
  <2>. QED
    BY <2>2, <2>4, <2>5, <2>6, <2>7 DEF PlanSound
<1>7. ASSUME curate
      PROVE  (PlanTypes /\ PlanSound)'
  <2>1. /\ UNCHANGED <<catalog, selected, verdict, gate, picks>>
        /\ pack = None /\ pack' # None
        /\ pack' = createCuratedPack(selected)
    BY <1>7 DEF curate
  <2>2. PlanTypes'
    BY <1>1, <2>1 DEF PlanTypes
  <2>3. (verdict # None =>
          /\ selectedIds # {}
          /\ verdict.suggestions \cup verdict.missing \subseteq Projects \ selectedIds)'
    BY <2>1 DEF PlanSound, selectedIds
  <2>4. GeneratablePacksAreClosed'
    BY <2>1 DEF PlanSound, GeneratablePacksAreClosed, selectedIds, supportsTarget,
                evaluateModMetadata
  <2>5. (pack # None => pack = createCuratedPack(selected))'
    BY <2>1 DEF createCuratedPack, evaluateCatalogEntryMetadata, fileFlaws
  <2>6. gate' = "unchecked"
    BY <2>1 DEF PlanSound
  <2>. QED
    BY <2>2, <2>3, <2>4, <2>5, <2>6 DEF PlanSound
<1>8. ASSUME checkGate
      PROVE  (PlanTypes /\ PlanSound)'
  <2>1. /\ UNCHANGED <<catalog, selected, verdict, pack, picks>>
        /\ pack # None
        /\ gate' = IF validatePackPolicy(pack) THEN "passed" ELSE "blocked"
    BY <1>8 DEF checkGate
  <2>2. PlanTypes'
    BY <1>1, <2>1 DEF PlanTypes
  <2>3. (verdict # None =>
          /\ selectedIds # {}
          /\ verdict.suggestions \cup verdict.missing \subseteq Projects \ selectedIds)'
    BY <2>1 DEF PlanSound, selectedIds
  <2>4. GeneratablePacksAreClosed'
    BY <2>1 DEF PlanSound, GeneratablePacksAreClosed, selectedIds, supportsTarget,
                evaluateModMetadata
  <2>5. (pack # None => pack = createCuratedPack(selected))'
    BY <2>1 DEF PlanSound, createCuratedPack, evaluateCatalogEntryMetadata, fileFlaws
  <2>6. (gate # "unchecked" => pack # None /\ (gate = "passed" <=> validatePackPolicy(pack)))'
    BY <2>1 DEF validatePackPolicy, validateModPermissionMetadata
  <2>. QED
    BY <2>2, <2>3, <2>4, <2>5, <2>6 DEF PlanSound
<1>9. ASSUME NEW m \in Projects, refreshCatalog(m)
      PROVE  (PlanTypes /\ PlanSound)'
  <2>1. /\ UNCHANGED <<selected, verdict, pack, gate, picks>>
        /\ catalog[m].version <= MaxRefreshes
        /\ \E flaws \in Flawed :
             catalog' = [catalog EXCEPT ![m] = [version |-> @.version + 1, flaws |-> flaws]]
    BY <1>9 DEF refreshCatalog
  <2>2. catalog' \in [Projects -> CatalogEntries]
    BY <1>3, <2>1, PackPlanAssumption DEF CatalogEntries
  <2>3. PlanTypes'
    BY <1>1, <2>1, <2>2 DEF PlanTypes
  <2>4. (verdict # None =>
          /\ selectedIds # {}
          /\ verdict.suggestions \cup verdict.missing \subseteq Projects \ selectedIds)'
    BY <2>1 DEF PlanSound, selectedIds
  <2>5. GeneratablePacksAreClosed'
    BY <2>1 DEF PlanSound, GeneratablePacksAreClosed, selectedIds, supportsTarget,
                evaluateModMetadata
  <2>6. (pack # None => pack = createCuratedPack(selected))'
    BY <2>1 DEF PlanSound, createCuratedPack, evaluateCatalogEntryMetadata, fileFlaws
  <2>7. (gate # "unchecked" => pack # None /\ (gate = "passed" <=> validatePackPolicy(pack)))'
    BY <2>1 DEF PlanSound, validatePackPolicy, validateModPermissionMetadata
  <2>. QED
    BY <2>3, <2>4, <2>5, <2>6, <2>7 DEF PlanSound
<1>. QED
  BY <1>4, <1>5, <1>6, <1>7, <1>8, <1>9 DEF NextPlan

LEMMA PlanStutters ==
  ASSUME PlanTypes, PlanSound, UNCHANGED planVars
  PROVE  (PlanTypes /\ PlanSound)'
<1>. USE DEF planVars
<1>1. PlanTypes'
  BY DEF PlanTypes
<1>2. (verdict # None =>
        /\ selectedIds # {}
        /\ verdict.suggestions \cup verdict.missing \subseteq Projects \ selectedIds)'
  BY DEF PlanSound, selectedIds
<1>3. GeneratablePacksAreClosed'
  BY DEF PlanSound, GeneratablePacksAreClosed, selectedIds, supportsTarget, evaluateModMetadata
<1>4. (pack # None => pack = createCuratedPack(selected))'
  BY DEF PlanSound, createCuratedPack, evaluateCatalogEntryMetadata, fileFlaws
<1>5. (gate # "unchecked" => pack # None /\ (gate = "passed" <=> validatePackPolicy(pack)))'
  BY DEF PlanSound, validatePackPolicy, validateModPermissionMetadata
<1>. QED
  BY <1>1, <1>2, <1>3, <1>4, <1>5 DEF PlanSound

\* What runs, by its step.
LEMMA RunsByTheirStep ==
  ASSUME ReleaseTypes
  PROVE  /\ NoScript.step = "none"
         /\ run.step \in BuildSteps =>
              run \in [script : {"artifacts"}, step : BuildSteps, bytes : JarContents]
         /\ run.step \in Copying =>
              run \in [script : {"release-assets"}, step : Copying, bytes : JarContents]
         /\ run.step = "write" => Written
<1>1. NoScript.step = "none"
  BY DEF NoScript
<1>2. CASE run = NoScript
  BY <1>1, <1>2 DEF BuildSteps, Building, Copying
<1>3. CASE run \in [script : {"artifacts"}, step : BuildSteps, bytes : JarContents]
  BY <1>1, <1>3 DEF BuildSteps, Building, Copying
<1>4. CASE run \in [script : {"release-assets"}, step : Copying, bytes : JarContents]
  BY <1>1, <1>4 DEF BuildSteps, Building, Copying
<1>5. CASE Written
  <2>1. run.step = "write"
    BY <1>5 DEF Written
  <2>. QED
    BY <1>1, <1>5, <2>1 DEF BuildSteps, Building, Copying
<1>. QED
  BY <1>2, <1>3, <1>4, <1>5 DEF ReleaseTypes, Scripts

\* A jar cut off is no revision, and there is a first revision.
LEMMA JarsApart ==
  /\ Torn \notin Revisions /\ Absent \notin Revisions /\ 1 \in Revisions
  /\ Revisions \subseteq JarContents /\ {Torn, Absent} \subseteq JarContents
<1>1. MaxEdits \in Nat
  BY PackReleaseAssumption
<1>. QED
  BY <1>1 DEF Torn, Absent, Revisions, JarContents

\* A pack that m1:mrpack may write has pinned files only, whatever template, path, jar
\* and URL it was given.
LEMMA BuiltPacksArePinned ==
  ASSUME NEW path, NEW bytes, NEW u, buildMrpackManifest(path, bytes, u) # None
  PROVE  \A file \in buildMrpackManifest(path, bytes, u).files : Pinned(file)
<1>. DEFINE lock == createFirstPartyArtifactLock(path, bytes, u)
            completed == applyFirstPartyArtifactLocks(template.files, lock)
            accepted == validateMrpackTemplate(completed, lock)
<1>1. buildMrpackManifest(path, bytes, u) =
        IF lock = None THEN None ELSE IF accepted THEN [files |-> completed] ELSE None
  BY Zenon DEF buildMrpackManifest
<1>2. lock # None /\ accepted
  <2>. HIDE DEF lock, completed, accepted
  <2>. QED
    BY <1>1
<1>3. buildMrpackManifest(path, bytes, u).files = completed
  <2>. HIDE DEF lock, completed, accepted
  <2>. QED
    BY <1>1, <1>2
<1>4. /\ path \in FirstPartyPaths /\ u = "public" /\ bytes \in Revisions
      /\ lock = [path |-> path, bytes |-> bytes, url |-> u]
  BY <1>2 DEF createFirstPartyArtifactLock, validateFirstPartyArtifactDownloadUrl,
              validateFirstPartyArtifactJarBytes
<1>5. Pinned(lock)
  <2>. HIDE DEF lock
  <2>. QED
    BY <1>4 DEF Pinned
<1>6. \A file \in completed : file \in {catalogFile(m, 1) : m \in Approved} \cup {lock}
  <2>. HIDE DEF lock, completed
  <2>. QED
    BY <1>2 DEF accepted, validateMrpackTemplate, matchesApprovedFileLock, approvedFiles
<1>. HIDE DEF lock, completed
<1>7. \A file \in completed : Pinned(file)
  BY <1>5, <1>6 DEF Pinned
<1>. QED
  BY <1>3, <1>7

\* Which packs can be built is up to the template.
LEMMA ReportStays ==
  ASSUME ReportInv, UNCHANGED <<template, report>>
  PROVE  ReportInv'
<1>1. buildMrpackManifest(ClientPath, report.jar, report.url)'
        = buildMrpackManifest(ClientPath, report.jar, report.url)
  BY DEF buildMrpackManifest, createFirstPartyArtifactLock, applyFirstPartyArtifactLocks,
         validateMrpackTemplate, matchesApprovedFileLock, approvedFiles,
         isFirstPartyPlaceholder, validateFirstPartyArtifactDownloadUrl,
         validateFirstPartyArtifactJarBytes
<1>. QED
  BY <1>1 DEF ReportInv

FilesAreSound == ReleaseTypes /\ Described /\ PinnedPacks

LEMMA FilesStay ==
  ASSUME FilesAreSound,
         UNCHANGED <<source, out, dist, url, run, mrpack, friend, deaths, described>>
  PROVE  FilesAreSound'
<1>1. ReleaseTypes'
  BY DEF FilesAreSound, ReleaseTypes, Written
<1>2. Described'
  BY DEF FilesAreSound, Described
<1>3. PinnedPacks'
  BY DEF FilesAreSound, PinnedPacks, whole
<1>. QED
  BY <1>1, <1>2, <1>3 DEF FilesAreSound

\* m1:artifacts: a manifest describes the jar that was written before it.
LEMMA BuildingSteps ==
  ASSUME FilesAreSound,
         \/ startBuild \/ compileClient \/ createJar \/ buildBridge \/ writeArtifactManifest
  PROVE  FilesAreSound'
<1>. USE JarsApart, RunsByTheirStep
<1>1. /\ source \in Revisions
      /\ out \in JarTypes /\ dist \in JarTypes
      /\ {url, friend} \subseteq JarContents
      /\ deaths \in 0..MaxDeaths
      /\ described \subseteq Revisions
      /\ run = NoScript \/ run \in Scripts \/ Written
      /\ ReleaseTypes
  BY DEF FilesAreSound, ReleaseTypes
<1>2. UNCHANGED <<source, dist, url, mrpack, friend, deaths>>
  BY DEF startBuild, compileClient, createJar, buildBridge, writeArtifactManifest
<1>3. /\ run.step \in Building => run.bytes \in Revisions
      /\ out.manifest \in Revisions => out.manifest \in described
      /\ dist.jar \in Revisions => dist.jar \in described
  BY DEF FilesAreSound, Described
<1>4. /\ whole => \A file \in mrpack.files : Pinned(file)
      /\ friend # Torn
  BY DEF FilesAreSound, PinnedPacks
<1>5. SUFFICES /\ out' \in JarTypes
               /\ described' \subseteq Revisions /\ described \subseteq described'
               /\ run' = NoScript
                    \/ run' \in [script : {"artifacts"}, step : BuildSteps, bytes : JarContents]
               /\ run'.step \in Building => run'.bytes \in Revisions
               /\ out'.manifest \in Revisions => out'.manifest \in described'
  <2>1. ReleaseTypes'
    BY <1>1, <1>2, <1>5 DEF ReleaseTypes, Scripts
  <2>2. run'.step \notin {"copy", "write"}
    BY <1>1, <1>5 DEF BuildSteps, Building
  <2>3. Described'
    BY <1>2, <1>3, <1>5, <2>2 DEF Described
  <2>4. PinnedPacks'
    BY <1>2, <1>4, <2>2 DEF PinnedPacks, whole
  <2>. QED
    BY <2>1, <2>3, <2>4 DEF FilesAreSound
<1>6. CASE startBuild
  <2>1. /\ run' = [script |-> "artifacts", step |-> "compile", bytes |-> Absent]
        /\ UNCHANGED <<out, described>>
    BY <1>6 DEF startBuild
  <2>. QED
    BY <1>1, <1>3, <2>1 DEF BuildSteps, Building
<1>7. CASE compileClient
  <2>1. /\ run.step = "compile"
        /\ run' = [run EXCEPT !.step = "jar", !.bytes = source] \/ run' = NoScript
        /\ UNCHANGED <<out, described>>
    BY <1>7 DEF compileClient
  <2>2. run \in [script : {"artifacts"}, step : BuildSteps, bytes : JarContents]
    BY <1>1, <2>1 DEF BuildSteps
  <2>. QED
    BY <1>1, <1>3, <2>1, <2>2 DEF BuildSteps, Building
<1>8. CASE createJar
  <2>1. run.step = "jar"
    BY <1>8 DEF createJar
  <2>2. run \in [script : {"artifacts"}, step : BuildSteps, bytes : JarContents]
    BY <1>1, <2>1 DEF BuildSteps, Building
  <2>3. /\ run' = run \/ run' = [run EXCEPT !.step = "bridge"]
        /\ out' = [out EXCEPT !.jar = run.bytes] \/ out' = [out EXCEPT !.jar = Torn]
        /\ described' = described
    BY <1>8 DEF createJar, goto
  <2>4. run.bytes \in Revisions
    BY <1>3, <2>1 DEF Building
  <2>5. run' \in [script : {"artifacts"}, step : BuildSteps, bytes : JarContents]
          /\ run'.bytes = run.bytes
    BY <2>2, <2>3 DEF BuildSteps, Building
  <2>6. out' \in JarTypes /\ out'.manifest = out.manifest
    BY <1>1, <2>3, <2>4 DEF JarTypes
  <2>. QED
    BY <1>1, <1>3, <2>3, <2>4, <2>5, <2>6
<1>9. CASE buildBridge
  <2>1. /\ run.step = "bridge"
        /\ run' = [run EXCEPT !.step = "manifest"] \/ run' = NoScript
        /\ UNCHANGED <<out, described>>
    BY <1>9 DEF buildBridge, goto
  <2>2. run \in [script : {"artifacts"}, step : BuildSteps, bytes : JarContents]
    BY <1>1, <2>1 DEF BuildSteps, Building
  <2>3. run.bytes \in Revisions
    BY <1>3, <2>1 DEF Building
  <2>. QED
    BY <1>1, <1>3, <2>1, <2>2, <2>3 DEF BuildSteps, Building
<1>10. CASE writeArtifactManifest
  <2>1. run.step = "manifest"
    BY <1>10 DEF writeArtifactManifest
  <2>2. run \in [script : {"artifacts"}, step : BuildSteps, bytes : JarContents]
    BY <1>1, <2>1 DEF BuildSteps, Building
  <2>3. run.bytes \in Revisions
    BY <1>3, <2>1 DEF Building
  <2>4. CASE out.manifest = Torn
    <3>1. /\ out' = [out EXCEPT !.manifest = run.bytes]
          /\ described' = described \cup {run.bytes}
          /\ run' = NoScript
      BY <1>10, <2>4 DEF writeArtifactManifest
    <3>2. out' \in JarTypes /\ out'.manifest = run.bytes
      BY <1>1, <2>3, <3>1 DEF JarTypes
    <3>. QED
      BY <1>1, <2>3, <3>1, <3>2 DEF Building
  <2>5. CASE out.manifest # Torn
    <3>1. out' = [out EXCEPT !.manifest = Torn] /\ UNCHANGED <<run, described>>
      BY <1>10, <2>5 DEF writeArtifactManifest
    <3>2. out' \in JarTypes /\ out'.manifest = Torn
      BY <1>1, <3>1 DEF JarTypes
    <3>. QED
      BY <1>1, <2>2, <2>3, <3>1, <3>2
  <2>. QED
    BY <2>4, <2>5
<1>. QED
  BY <1>6, <1>7, <1>8, <1>9, <1>10

\* m1:release-assets: what is copied is what a manifest described.
LEMMA CopyingSteps ==
  ASSUME FilesAreSound,
         prepareM1ReleaseAssets \/ copyAsset \/ writeReleaseManifest \/ upload
  PROVE  FilesAreSound'
<1>. USE JarsApart, RunsByTheirStep
<1>1. /\ source \in Revisions
      /\ out \in JarTypes /\ dist \in JarTypes
      /\ {url, friend} \subseteq JarContents
      /\ deaths \in 0..MaxDeaths
      /\ described \subseteq Revisions
      /\ run = NoScript \/ run \in Scripts \/ Written
      /\ ReleaseTypes
  BY DEF FilesAreSound, ReleaseTypes
<1>2. UNCHANGED <<source, out, mrpack, friend, deaths, described>>
  BY DEF prepareM1ReleaseAssets, copyAsset, writeReleaseManifest, upload
<1>3. /\ run.step \in Building => run.bytes \in Revisions
      /\ out.manifest \in Revisions => out.manifest \in described
      /\ run.step = "copy" => out.jar \in described
      /\ dist.jar \in Revisions => dist.jar \in described
  BY DEF FilesAreSound, Described
<1>4. /\ run.step = "write" => \A file \in run.pack.files : Pinned(file)
      /\ whole => \A file \in mrpack.files : Pinned(file)
      /\ friend # Torn
  BY DEF FilesAreSound, PinnedPacks
<1>5. SUFFICES /\ dist' \in JarTypes /\ url' \in JarContents
               /\ run' = run
                    \/ run' = NoScript
                    \/ run' \in [script : {"release-assets"}, step : Copying, bytes : JarContents]
               /\ run'.step = "copy" => out.jar \in described
               /\ dist'.jar \in Revisions => dist'.jar \in described
  <2>1. ReleaseTypes'
    BY <1>1, <1>2, <1>5 DEF ReleaseTypes, Scripts, Written
  <2>2. run' = run \/ run'.step \notin {"write"} \cup Building
    BY <1>1, <1>5 DEF Building, Copying
  <2>3. Described'
    BY <1>2, <1>3, <1>5, <2>2 DEF Described
  <2>4. PinnedPacks'
    BY <1>2, <1>4, <2>2 DEF PinnedPacks, whole
  <2>. QED
    BY <2>1, <2>3, <2>4 DEF FilesAreSound
<1>6. CASE prepareM1ReleaseAssets
  <2>1. /\ run' = [script |-> "release-assets", step |-> "copy", bytes |-> out.jar]
        /\ out.manifest \in Revisions /\ out.manifest = out.jar
        /\ UNCHANGED <<dist, url>>
    BY <1>6 DEF prepareM1ReleaseAssets, matchesManifest
  <2>. QED
    BY <1>1, <1>3, <2>1 DEF Copying
<1>7. CASE copyAsset
  <2>1. run.step = "copy"
    BY <1>7 DEF copyAsset
  <2>2. run \in [script : {"release-assets"}, step : Copying, bytes : JarContents]
    BY <1>1, <2>1 DEF Copying
  <2>3. /\ run' = run \/ run' = [run EXCEPT !.step = "release manifest"]
        /\ dist' = [dist EXCEPT !.jar = out.jar] \/ dist' = [dist EXCEPT !.jar = Torn]
        /\ url' = url
    BY <1>7 DEF copyAsset, goto
  <2>4. run' \in [script : {"release-assets"}, step : Copying, bytes : JarContents]
    BY <2>2, <2>3 DEF Copying
  <2>5. dist' \in JarTypes /\ dist'.jar \in {out.jar, Torn}
    BY <1>1, <2>3 DEF JarTypes
  <2>. QED
    BY <1>1, <1>3, <2>1, <2>3, <2>4, <2>5
<1>8. CASE writeReleaseManifest
  <2>1. run.step = "release manifest"
    BY <1>8 DEF writeReleaseManifest
  <2>2. run \in [script : {"release-assets"}, step : Copying, bytes : JarContents]
    BY <1>1, <2>1 DEF Copying
  <2>3. run' = NoScript /\ dist' = [dist EXCEPT !.manifest = run.bytes] /\ url' = url
    BY <1>8 DEF writeReleaseManifest
  <2>4. dist' \in JarTypes /\ dist'.jar = dist.jar
    BY <1>1, <2>2, <2>3 DEF JarTypes
  <2>. QED
    BY <1>1, <1>3, <2>3, <2>4
<1>9. CASE upload
  <2>1. url' = dist.jar /\ UNCHANGED <<dist, run>>
    BY <1>9 DEF upload
  <2>. QED
    BY <1>1, <1>3, <2>1 DEF JarTypes
<1>. QED
  BY <1>6, <1>7, <1>8, <1>9

\* m1:mrpack and the friend's launcher.
LEMMA PackingSteps ==
  ASSUME FilesAreSound,
         \/ \E path \in FirstPartyPaths, jarPath \in JarPaths, u \in Urls :
              buildPrivateMrpack(path, jarPath, u)
         \/ writeMrpack \/ importPack
  PROVE  FilesAreSound'
<1>. USE JarsApart, RunsByTheirStep
<1>1. /\ ReleaseTypes
      /\ UNCHANGED <<source, out, dist, url, deaths, described>>
  BY DEF FilesAreSound, buildPrivateMrpack, writeMrpack, importPack
<1>2. /\ Described
      /\ run.step = "write" => \A file \in run.pack.files : Pinned(file)
      /\ whole => \A file \in mrpack.files : Pinned(file)
      /\ friend # Torn
  BY DEF FilesAreSound, PinnedPacks
<1>3. SUFFICES /\ run' = run \/ run' = NoScript \/ Written'
               /\ run'.step = "write" => \A file \in run'.pack.files : Pinned(file)
               /\ whole' => \A file \in mrpack'.files : Pinned(file)
               /\ friend' \in JarContents /\ friend' # Torn
  <2>1. ReleaseTypes'
    BY <1>1, <1>3 DEF ReleaseTypes, Written
  <2>2. run' = run \/ run'.step \notin {"copy"} \cup Building
    BY <1>1, <1>3 DEF Building, Written
  <2>3. Described'
    BY <1>1, <1>2, <2>2 DEF Described
  <2>4. PinnedPacks'
    BY <1>3 DEF PinnedPacks
  <2>. QED
    BY <2>1, <2>3, <2>4 DEF FilesAreSound
<1>4. friend \in JarContents
  BY <1>1 DEF ReleaseTypes
<1>5. ASSUME NEW path \in FirstPartyPaths, NEW jarPath \in JarPaths, NEW u \in Urls,
             buildPrivateMrpack(path, jarPath, u)
      PROVE  /\ Written'
             /\ run'.step = "write" => \A file \in run'.pack.files : Pinned(file)
             /\ UNCHANGED <<mrpack, friend>>
  <2>1. PICK bytes, built :
          /\ built = buildMrpackManifest(path, bytes, u) /\ built # None
          /\ run' = [script |-> "mrpack", step |-> "write", pack |-> built]
    BY <1>5, Zenon DEF buildPrivateMrpack
  <2>2. \A file \in built.files : Pinned(file)
    BY <2>1, BuiltPacksArePinned
  <2>3. run'.pack = built
    BY <2>1
  <2>4. Written'
    BY <2>1, <2>3 DEF Written
  <2>. QED
    BY <1>5, <2>2, <2>3, <2>4 DEF buildPrivateMrpack
<1>6. CASE writeMrpack
  <2>1. run.step = "write" /\ friend' = friend
    BY <1>6 DEF writeMrpack
  <2>2. CASE mrpack' = run.pack /\ run' = NoScript
    BY <1>1, <1>2, <1>4, <2>1, <2>2
  <2>3. CASE mrpack' = [torn |-> TRUE] /\ run' = run
    BY <1>1, <1>2, <1>4, <2>1, <2>3 DEF whole
  <2>. QED
    BY <1>6, <2>2, <2>3 DEF writeMrpack
<1>7. CASE importPack
  <2>1. PICK file \in mrpack.files : file.bytes = url /\ friend' = url
    BY <1>7 DEF importPack
  <2>2. whole /\ UNCHANGED <<run, mrpack>>
    BY <1>7 DEF importPack
  <2>3. Pinned(file)
    BY <1>2, <2>1, <2>2
  <2>4. file.bytes \in Revisions
    BY <2>3 DEF Pinned, catalogFile
  <2>. QED
    BY <1>2, <2>1, <2>2, <2>4 DEF whole
<1>8. CASE \E path \in FirstPartyPaths, jarPath \in JarPaths, u \in Urls :
             buildPrivateMrpack(path, jarPath, u)
  BY <1>2, <1>4, <1>5, <1>8 DEF whole
<1>. QED
  BY <1>6, <1>7, <1>8

\* m1:readiness builds what m1:mrpack would build of the client jar.
LEMMA ReadinessSteps ==
  ASSUME FilesAreSound, template # None, NEW u, checkM1MrpackReadiness(u)
  PROVE  FilesAreSound' /\ ReportInv'
<1>. DEFINE lock == collectFirstPartyArtifactLocks(u)
            completed == applyFirstPartyArtifactLocks(template.files, lock)
            accepted == validateMrpackTemplate(completed, lock)
            ready == listRequiredFirstPartyArtifactPaths # {} /\ lock # None /\ accepted
<1>1. /\ report' = [ready |-> ready, jar |-> out.jar, url |-> u]
      /\ UNCHANGED <<template, source, out, dist, url, run, mrpack, friend, deaths, described>>
  BY Zenon DEF checkM1MrpackReadiness
<1>2. FilesAreSound'
  BY <1>1, FilesStay
<1>3. ready => buildMrpackManifest(ClientPath, out.jar, u) # None
  <2>1. ASSUME ready
        PROVE  lock = createFirstPartyArtifactLock(ClientPath, out.jar, u)
    BY <2>1 DEF collectFirstPartyArtifactLocks
  <2>2. ASSUME ready
        PROVE  buildMrpackManifest(ClientPath, out.jar, u) = [files |-> completed]
    <3>. DEFINE built == createFirstPartyArtifactLock(ClientPath, out.jar, u)
                filled == applyFirstPartyArtifactLocks(template.files, built)
                fits == validateMrpackTemplate(filled, built)
    <3>1. buildMrpackManifest(ClientPath, out.jar, u) =
            IF built = None THEN None ELSE IF fits THEN [files |-> filled] ELSE None
      BY Zenon DEF buildMrpackManifest
    <3>2. built = lock /\ lock # None /\ accepted
      BY <2>1, <2>2
    <3>3. filled = completed /\ fits = accepted
      BY <3>2
    <3>. HIDE DEF built, filled, fits, lock, completed, accepted
    <3>. QED
      BY <3>1, <3>2, <3>3
  <2>. QED
    BY <2>2, NoneIsApart
<1>4. ready \in BOOLEAN
  OBVIOUS
<1>. HIDE DEF ready
<1>5. report'.ready = ready /\ report'.jar = out.jar /\ report'.url = u
  BY <1>1, <1>4
<1>6. buildMrpackManifest(ClientPath, report.jar, report.url)'
        = buildMrpackManifest(ClientPath, out.jar, u)
  BY <1>1, <1>5
     DEF buildMrpackManifest, createFirstPartyArtifactLock, applyFirstPartyArtifactLocks,
         validateMrpackTemplate, matchesApprovedFileLock, approvedFiles,
         isFirstPartyPlaceholder, validateFirstPartyArtifactDownloadUrl,
         validateFirstPartyArtifactJarBytes
<1>7. ReportInv'
  BY <1>1, <1>3, <1>5, <1>6 DEF ReportInv
<1>. QED
  BY <1>2, <1>7

LEMMA PackInitially ==
  ASSUME InitPack
  PROVE  PackInv
<1>1. PlanTypes /\ PlanSound
  BY PlanInitially DEF InitPack
<1>2. ReleaseTypes
  BY PackReleaseAssumption DEF InitPack, ReleaseTypes, Revisions, JarTypes, JarContents
<1>3. Described
  BY JarsApart DEF InitPack, Described, NoScript, Building
<1>4. PinnedPacks
  BY PackReleaseAssumption DEF InitPack, PinnedPacks, NoScript, whole, Absent, Torn
<1>5. ReportInv
  BY DEF InitPack, ReportInv
<1>. QED
  BY <1>1, <1>2, <1>3, <1>4, <1>5 DEF PackInv

LEMMA PackSteps ==
  ASSUME PackInv, [NextPack]_packVars
  PROVE  PackInv'
<1>. DEFINE PlanInv == PlanTypes /\ PlanSound
<1>1. PlanInv /\ FilesAreSound /\ ReportInv
  BY DEF PackInv, FilesAreSound
<1>2. SUFFICES PlanInv' /\ FilesAreSound' /\ ReportInv'
  BY DEF PackInv, FilesAreSound
<1>3. CASE UNCHANGED packVars
  <2>1. UNCHANGED planVars /\ UNCHANGED releaseVars
    BY <1>3 DEF packVars
  <2>. QED
    BY <1>1, <2>1, PlanStutters, FilesStay, ReportStays DEF releaseVars
<1>4. CASE template = None /\ NextPlan /\ UNCHANGED releaseVars
  BY <1>1, <1>4, PlanSteps, FilesStay, ReportStays DEF releaseVars
<1>5. CASE saveTemplate
  <2>1. /\ template = None
        /\ selection(<<>>)
        /\ catalog' = [m \in Projects |-> [version |-> 1, flaws |-> {}]]
        /\ picks' = 0
        /\ UNCHANGED <<source, out, dist, url, run, report, mrpack, friend, deaths, described>>
    BY <1>5 DEF saveTemplate
  <2>2. <<>> \in [{} -> CatalogEntries]
    OBVIOUS
  <2>3. 0 \in 0..MaxPicks /\ 1 \in 1..(MaxRefreshes + 1)
    BY PackPlanAssumption
  <2>4. catalog' \in [Projects -> CatalogEntries]
    BY <2>1, <2>3 DEF CatalogEntries
  <2>5. PlanInv'
    BY <2>1, <2>2, <2>3, <2>4, SelectionsStartAgain DEF PlanTypes
  <2>6. FilesAreSound'
    BY <1>1, <2>1, FilesStay
  <2>7. report' = None
    BY <1>1, <2>1 DEF ReportInv
  <2>. QED
    BY <2>5, <2>6, <2>7 DEF ReportInv
<1>6. CASE template # None /\ NextRelease /\ UNCHANGED planVars
  <2>1. PlanInv'
    BY <1>1, <1>6, PlanStutters
  <2>2. ASSUME startBuild \/ compileClient \/ createJar \/ buildBridge \/ writeArtifactManifest
        PROVE  FilesAreSound' /\ ReportInv'
    <3>1. UNCHANGED <<template, report>>
      BY <2>2 DEF startBuild, compileClient, createJar, buildBridge, writeArtifactManifest
    <3>. QED
      BY <1>1, <2>2, <3>1, BuildingSteps, ReportStays
  <2>3. ASSUME prepareM1ReleaseAssets \/ copyAsset \/ writeReleaseManifest \/ upload
        PROVE  FilesAreSound' /\ ReportInv'
    <3>1. UNCHANGED <<template, report>>
      BY <2>3 DEF prepareM1ReleaseAssets, copyAsset, writeReleaseManifest, upload
    <3>. QED
      BY <1>1, <2>3, <3>1, CopyingSteps, ReportStays
  <2>4. ASSUME \/ \E path \in FirstPartyPaths, jarPath \in JarPaths, u \in Urls :
                    buildPrivateMrpack(path, jarPath, u)
               \/ writeMrpack \/ importPack
        PROVE  FilesAreSound' /\ ReportInv'
    <3>1. UNCHANGED <<template, report>>
      BY <2>4 DEF buildPrivateMrpack, writeMrpack, importPack
    <3>. QED
      BY <1>1, <2>4, <3>1, PackingSteps, ReportStays
  <2>5. ASSUME NEW u \in Urls, checkM1MrpackReadiness(u)
        PROVE  FilesAreSound' /\ ReportInv'
    BY <1>1, <1>6, <2>5, ReadinessSteps
  <2>6. ASSUME editSource
        PROVE  FilesAreSound' /\ ReportInv'
    <3>1. source \in Revisions /\ source' = source + 1 /\ source <= MaxEdits
      BY <1>1, <2>6 DEF editSource, FilesAreSound, ReleaseTypes
    <3>2. source' \in Revisions
      BY <3>1, PackReleaseAssumption DEF Revisions
    <3>3. UNCHANGED <<template, out, dist, url, run, report, mrpack, friend, deaths, described>>
      BY <2>6 DEF editSource
    <3>4. ReleaseTypes'
      BY <1>1, <3>2, <3>3 DEF FilesAreSound, ReleaseTypes, Written
    <3>5. Described' /\ PinnedPacks'
      BY <1>1, <3>3 DEF FilesAreSound, Described, PinnedPacks, whole
    <3>. QED
      BY <1>1, <3>3, <3>4, <3>5, ReportStays DEF FilesAreSound
  <2>7. ASSUME scriptDies
        PROVE  FilesAreSound' /\ ReportInv'
    <3>1. /\ deaths < MaxDeaths /\ deaths' = deaths + 1
          /\ run' = NoScript /\ NoScript.step = "none"
          /\ UNCHANGED <<template, source, out, dist, url, report, mrpack, friend, described>>
      BY <2>7 DEF scriptDies, NoScript
    <3>2. deaths' \in 0..MaxDeaths
      BY <1>1, <3>1, PackReleaseAssumption DEF FilesAreSound, ReleaseTypes
    <3>3. ReleaseTypes'
      BY <1>1, <3>1, <3>2 DEF FilesAreSound, ReleaseTypes
    <3>4. Described' /\ PinnedPacks'
      BY <1>1, <3>1 DEF FilesAreSound, Described, PinnedPacks, whole, Building
    <3>. QED
      BY <1>1, <3>1, <3>3, <3>4, ReportStays DEF FilesAreSound
  <2>. QED
    BY <1>6, <2>1, <2>2, <2>3, <2>4, <2>5, <2>6, <2>7 DEF NextRelease
<1>. QED
  BY <1>3, <1>4, <1>5, <1>6 DEF NextPack

\* What was said of a selection is true of it, every file is what the scripts left of
\* it, and a pack is whole and pinned from the moment it is built.
THEOREM PackInvariant == PackSpec => []PackInv
<1>. QED
  BY PackInitially, PackSteps, PTL DEF PackSpec

\* A selection the engine lets the host generate is closed under required
\* dependencies, although resolveDependencyPlan looks one level deep and the catalog
\* moves under the session.
THEOREM PacksAreClosed == PackSpec => []GeneratablePacksAreClosed
<1>1. PackInv => GeneratablePacksAreClosed
  BY DEF PackInv, PlanSound
<1>. QED
  BY <1>1, PackInvariant, PTL

\* The engine, the catalog and the gate agree on a selection: createCuratedPack refuses
\* of it only what lacks a file name, and the gate judges the pack as the entries.
THEOREM CuratorsAgree == PackSpec => []CurationAgrees
<1>1. ASSUME PackInv
      PROVE  CurationAgrees
  <2>1. PICK ids \in SUBSET Projects : selected \in [ids -> CatalogEntries]
    BY <1>1 DEF PackInv, PlanTypes
  <2>2. selectedIds = ids
    BY <2>1 DEF selectedIds
  <2>3. ASSUME verdict # None /\ verdict.canGeneratePack
        PROVE  createCuratedPack(selected) = None
                 <=> \E m \in selectedIds : "filename" \in selected[m].flaws
    <3>1. ids # {} /\ \A m \in ids : evaluateModMetadata(selected[m]) = {}
      BY <1>1, <2>2, <2>3 DEF PackInv, PlanSound, GeneratablePacksAreClosed
    <3>2. \A m \in ids : evaluateCatalogEntryMetadata(selected[m]) # {}
                           <=> "filename" \in selected[m].flaws
      BY <3>1 DEF evaluateModMetadata, evaluateCatalogEntryMetadata, CatalogFields
    <3>. QED
      BY <2>1, <2>2, <3>1, <3>2, CuratedPacks
  <2>4. gate # "unchecked" => (gate = "passed" <=> validatePackPolicy(selected))
    BY <1>1, <2>1, CuratedPacks DEF PackInv, PlanSound
  <2>. QED
    BY <2>3, <2>4 DEF CurationAgrees
<1>. QED
  BY <1>1, PackInvariant, PTL

\* A release is prepared of a jar only after a manifest has described it: the jar of a
\* build that failed, or died, is not released.
THEOREM OnlyDescribedJarsAreReleased == PackSpec => []ReleasesAreDescribed
<1>1. ASSUME PackInv
      PROVE  ReleasesAreDescribed
  <2>1. PICK ids \in SUBSET Projects : selected \in [ids -> CatalogEntries]
    BY <1>1 DEF PackInv, PlanTypes
  <2>2. selectedIds \subseteq Projects /\ \A m \in selectedIds : selected[m] \in CatalogEntries
    BY <2>1 DEF selectedIds
  <2>3. {out.jar, dist.jar} \subseteq JarContents /\ {out.manifest, dist.manifest} \subseteq JarContents
    BY <1>1 DEF PackInv, ReleaseTypes, JarTypes
  <2>4. verdict # None => verdict.suggestions \cup verdict.missing \subseteq Projects \ selectedIds
    BY <1>1 DEF PackInv, PlanSound
  <2>5. PackTypeOK
    BY <1>1, <2>2, <2>3, <2>4 DEF PackInv, PlanTypes, ReleaseTypes, PackTypeOK
  <2>. QED
    BY <1>1, <2>5 DEF PackInv, Described, ReleasesAreDescribed
<1>. QED
  BY <1>1, PackInvariant, PTL

\* Every file of a written pack is an approved one or the bytes of a whole jar at a
\* public URL, and no import leaves a friend with a jar that was cut off.
THEOREM WrittenPacksArePinned == PackSpec => []PacksArePinned
<1>1. PackInv => PacksArePinned
  BY DEF PackInv, PinnedPacks, PacksArePinned, Pinned
<1>. QED
  BY <1>1, PackInvariant, PTL

\* What m1:readiness calls ready m1:mrpack builds, as long as the jar stays the same.
THEOREM ReadinessIsTrue == PackSpec => []ReadyMeansBuildable
<1>1. PackInv => ReadyMeansBuildable
  BY DEF PackInv, ReportInv, ReadyMeansBuildable
<1>. QED
  BY <1>1, PackInvariant, PTL
=============================================================================
