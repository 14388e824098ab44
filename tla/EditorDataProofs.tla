------------------------- MODULE EditorDataProofs -------------------------
(***************************************************************************)
(* What an editing session keeps of the user's work.  The editor-world     *)
(* thread guarantees about scene files, clients and its watcher, for any   *)
(* set of files, any number of edits, saves, loads and crashes, and any    *)
(* moment at which another program writes.  The undo history stays within  *)
(* its limits and walks the line of views, for any capacity, byte budget   *)
(* and sequence of calls.                                                  *)
(***************************************************************************)
EXTENDS UndoStack, EditorSession, SequenceTheorems, WellFoundedInduction, TLAPS


Steps == {"startup", "baseline", "commands", "fill", "rename", "fingerprint",
          "poll", "compare", "reload", "frame"}

TypeInv ==
    /\ file \in [Files -> [body : Int, stamp : Nat]]
    /\ tmp \in [Files -> Int]
    /\ author \in [Files -> {"session", "outside"}]
    /\ clock \in Nat /\ bodies \in Nat
    /\ pc \in Steps /\ target \in Files
    /\ world \in Int /\ version \in Int
    /\ last_mtime \in Int
    /\ last_saved \in [file : Files \cup {"none"}, stamp : Nat]
    /\ told \subseteq [version : Int, body : Int] /\ drift \in Int

(* Only whole scenes get into the world and into a file that the session   *)
(* renames into place.                                                     *)
ScenesWhole ==
    /\ Whole(world)
    /\ pc = "rename" => Whole(tmp[target])
    /\ SceneFileIsWhole

(* No publication is ahead of the world, and one under the present version *)
(* is the present world or what frames alone have made of it.              *)
Publications ==
    /\ \A a, b \in told : a.version = b.version => a.body = b.body
    /\ \A a \in told : a.version <= version
    /\ pc # "startup" => \E a \in told : a.version = version /\ world \in {a.body, drift}
    /\ pc = "startup" => told = {}

(* Stamps are given once: none on disk, remembered or saved is ahead of    *)
(* the clock.                                                              *)
StampsBehind ==
    /\ \A f \in Files : file[f].stamp <= clock
    /\ last_mtime <= clock
    /\ last_saved.stamp <= clock
    /\ pc \in {"startup", "baseline"} => last_mtime = NoWatch /\ last_saved = None
    /\ last_mtime = NoWatch => pc \notin {"poll", "compare", "reload"}

SessionIInv == TypeInv /\ ScenesWhole /\ Publications /\ StampsBehind

LEMMA SessionInitially == SessionInit => SessionIInv
  <1> SUFFICES ASSUME SessionInit PROVE SessionIInv
    OBVIOUS
  <1> USE SessionAssumption DEF SessionInit
  <1>1. TypeInv
    BY DEF TypeInv, Steps, Empty, Absent, None, NoWatch
  <1>2. ScenesWhole
    BY DEF ScenesWhole, SceneFileIsWhole, Whole, Empty
  <1>3. Publications
    BY DEF Publications
  <1>4. StampsBehind
    BY DEF StampsBehind, None, NoWatch
  <1> QED BY <1>1, <1>2, <1>3, <1>4 DEF SessionIInv

-----------------------------------------------------------------------------
(* A scene taken from a file is whole, and is published under a version    *)
(* that no earlier publication has.                                        *)
LEMMA ReplaceKeeps ==
    ASSUME SessionIInv, NEW body \in Int, Whole(body), Replace(body)
    PROVE  /\ world' \in Int /\ version' \in Int /\ Whole(world')
           /\ version' > version
           /\ told' = told \cup {[version |-> version', body |-> world']} /\ drift' \in Int
           /\ UNCHANGED <<last_saved, last_mtime>>
  BY SessionAssumption DEF Replace, Max2, Publish, Absent, SessionIInv, TypeInv, Whole

(* What a new publication keeps. *)
LEMMA PublishKeeps ==
    ASSUME SessionIInv, version' \in Int, version' > version, pc # "startup",
           told' = told \cup {[version |-> version', body |-> world']}, pc' # "startup"
    PROVE  Publications'
  <1> DEFINE new == [version |-> version', body |-> world']
  <1>1. new \in told' /\ new.version = version' /\ new.body = world'
    BY DEF TypeInv
  <1>2. /\ version \in Int
        /\ \A a \in told : a.version \in Int /\ a.version <= version
        /\ \A a, b \in told : a.version = b.version => a.body = b.body
    BY DEF SessionIInv, Publications, TypeInv
  <1>3. \A a \in told' : a \in told \/ a = new
    OBVIOUS
  <1> HIDE DEF new
  <1>4. \A a \in told' : a.version <= version'
    BY <1>1, <1>2, <1>3
  <1>5. \A a, b \in told' : a.version = b.version => a.body = b.body
    BY <1>1, <1>2, <1>3
  <1> QED BY <1>1, <1>4, <1>5 DEF Publications

LEMMA StartupKeeps == ASSUME SessionIInv, Startup PROVE SessionIInv'
  <1> USE SessionAssumption DEF Startup, disk, counters, Max2, Publish
  <1> USE DEF SessionIInv
  <1>1. TypeInv'
    BY DEF TypeInv, Steps, Absent
  <1>2. ScenesWhole'
    BY DEF ScenesWhole, SceneFileIsWhole, Whole, TypeInv
  <1>3. Publications'
    <2> DEFINE new == [version |-> version', body |-> world']
    <2>1. told' = {new} /\ new.version = version' /\ new.body = world' /\ pc' # "startup"
      BY DEF Publications
    <2>2. version' \in Int
      BY <1>1 DEF TypeInv
    <2> HIDE DEF new
    <2> QED BY ONLY <2>1, <2>2 DEF Publications
  <1>4. StampsBehind'
    BY DEF StampsBehind
  <1> QED BY <1>1, <1>2, <1>3, <1>4

LEMMA BaselineKeeps == ASSUME SessionIInv, Baseline PROVE SessionIInv'
  <1> USE SessionAssumption DEF Baseline, disk, published, counters, history, NoWatch
  <1> USE DEF SessionIInv
  <1>1. TypeInv'
    BY DEF TypeInv, Steps
  <1>2. ScenesWhole'
    BY DEF ScenesWhole, SceneFileIsWhole, Whole, TypeInv
  <1>3. Publications'
    BY DEF Publications, TypeInv
  <1>4. StampsBehind'
    BY DEF StampsBehind, TypeInv
  <1> QED BY <1>1, <1>2, <1>3, <1>4

LEMMA EditKeeps == ASSUME SessionIInv, Edit PROVE SessionIInv'
  <1> USE SessionAssumption DEF Edit, disk, history, Publish
  <1> USE DEF SessionIInv
  <1>1. TypeInv'
    BY DEF TypeInv, Steps, Absent
  <1>2. ScenesWhole'
    BY DEF ScenesWhole, SceneFileIsWhole, Whole, TypeInv, Empty
  <1>3. Publications'
    BY PublishKeeps DEF TypeInv
  <1>4. StampsBehind'
    BY DEF StampsBehind
  <1> QED BY <1>1, <1>2, <1>3, <1>4

LEMMA ReadFileKeeps ==
    ASSUME SessionIInv, NEW f \in Files, ReadFile(f), pc \in {"commands", "reload"},
           pc' \in {"commands", "frame"}, bodies' = bodies, UNCHANGED <<disk, target>>
    PROVE  SessionIInv'
  <1>1. CASE Whole(file[f].body)
    <2>1. Replace(file[f].body) /\ file[f].body \in Int /\ eclipsed' = eclipsed
      BY <1>1 DEF ReadFile, SessionIInv, TypeInv
    <2>2. /\ world' \in Int /\ version' \in Int /\ Whole(world') /\ version' > version
          /\ told' = told \cup {[version |-> version', body |-> world']} /\ drift' \in Int
          /\ UNCHANGED <<last_saved, last_mtime>>
      BY <1>1, <2>1, ReplaceKeeps
    <2>3. TypeInv' /\ ScenesWhole' /\ StampsBehind'
      BY <2>1, <2>2 DEF SessionIInv, TypeInv, Steps, disk, ScenesWhole, SceneFileIsWhole, Whole,
                       StampsBehind
    <2>4. Publications'
      BY <2>2, PublishKeeps
    <2> QED BY <2>3, <2>4 DEF SessionIInv
  <1>2. CASE ~Whole(file[f].body)
    BY <1>2 DEF ReadFile, SessionIInv, TypeInv, Steps, disk, session, published, ScenesWhole,
                SceneFileIsWhole, Whole, StampsBehind, Publications
  <1> QED BY <1>1, <1>2

LEMMA LoadKeeps == ASSUME SessionIInv, NEW f \in Files, Load(f) PROVE SessionIInv'
  BY ReadFileKeeps DEF Load

LEMMA ReloadKeeps == ASSUME SessionIInv, Reload PROVE SessionIInv'
  BY ReadFileKeeps, SessionAssumption DEF Reload, counters

-----------------------------------------------------------------------------
(* A save touches no file before its rename, and renames a whole scene.    *)
LEMMA SaveBeginKeeps == ASSUME SessionIInv, NEW f \in Files, SaveBegin(f) PROVE SessionIInv'
  <1> USE DEF SaveBegin, session, published, history, SessionIInv
  <1>1. TypeInv'
    BY DEF TypeInv, Steps, Broken
  <1>2. ScenesWhole'
    BY DEF ScenesWhole, SceneFileIsWhole, Whole
  <1>3. Publications' /\ StampsBehind'
    BY DEF Publications, StampsBehind
  <1> QED BY <1>1, <1>2, <1>3

LEMMA SaveFillKeeps == ASSUME SessionIInv, SaveFill PROVE SessionIInv'
  <1> USE DEF SaveFill, counters, session, published, history, SessionIInv
  <1>1. TypeInv'
    BY DEF TypeInv, Steps
  <1>2. ScenesWhole'
    BY DEF ScenesWhole, SceneFileIsWhole, Whole, TypeInv
  <1>3. Publications' /\ StampsBehind'
    BY DEF Publications, StampsBehind
  <1> QED BY <1>1, <1>2, <1>3

LEMMA SaveRenameKeeps == ASSUME SessionIInv, SaveRename PROVE SessionIInv'
  <1> USE DEF SaveRename, disk, counters, session, published, history, SessionIInv
  <1>1. TypeInv'
    <2>1. /\ tmp[target] \in Int /\ target \in Files /\ clock \in Nat /\ clock + 1 \in Nat
          /\ UNCHANGED <<bodies, target, world, version, last_mtime, last_saved, told, drift>>
      BY DEF TypeInv
    <2>2. CASE pc' = "commands" /\ UNCHANGED disk
      BY <2>1, <2>2 DEF TypeInv, Steps
    <2>3. CASE pc' # "commands"
      <3>1. /\ file' = [file EXCEPT ![target] = [body |-> tmp[target], stamp |-> clock + 1]]
            /\ tmp' = [tmp EXCEPT ![target] = Absent] /\ clock' = clock + 1
            /\ author' = [author EXCEPT ![target] = "session"] /\ pc' = "fingerprint"
        BY <2>3
      <3>2. file' \in [Files -> [body : Int, stamp : Nat]]
        BY ONLY TypeInv, <2>1, <3>1 DEF TypeInv
      <3>3. tmp' \in [Files -> Int] /\ author' \in [Files -> {"session", "outside"}]
        BY ONLY TypeInv, <2>1, <3>1 DEF TypeInv, Absent
      <3> QED BY ONLY TypeInv, <2>1, <3>1, <3>2, <3>3 DEF TypeInv, Steps
    <2> QED BY <2>2, <2>3
  <1>2. ScenesWhole'
    BY DEF ScenesWhole, SceneFileIsWhole, Whole, TypeInv
  <1>3. Publications'
    BY DEF Publications
  <1>4. StampsBehind'
    BY DEF StampsBehind, TypeInv
  <1> QED BY <1>1, <1>2, <1>3, <1>4

LEMMA SaveFingerprintKeeps == ASSUME SessionIInv, SaveFingerprint PROVE SessionIInv'
  <1> USE DEF SaveFingerprint, disk, published, counters, SessionIInv
  <1>1. TypeInv'
    BY DEF TypeInv, Steps
  <1>2. ScenesWhole' /\ Publications'
    BY DEF ScenesWhole, SceneFileIsWhole, Whole, Publications
  <1>3. StampsBehind'
    BY DEF StampsBehind, TypeInv
  <1> QED BY <1>1, <1>2, <1>3

-----------------------------------------------------------------------------
LEMMA CommandsDoneKeeps == ASSUME SessionIInv, CommandsDone PROVE SessionIInv'
  BY DEF CommandsDone, disk, counters, session, published, history, SessionIInv, TypeInv, Steps, ScenesWhole,
         SceneFileIsWhole, Whole, Publications, StampsBehind

LEMMA PollKeeps == ASSUME SessionIInv, Poll PROVE SessionIInv'
  <1> USE SessionAssumption DEF Poll, MTime, disk, published, counters, history, SessionIInv
  <1>1. TypeInv'
    BY DEF TypeInv, Steps, Absent
  <1>2. ScenesWhole' /\ Publications'
    BY DEF ScenesWhole, SceneFileIsWhole, Whole, Publications
  <1>3. StampsBehind'
    BY DEF StampsBehind, TypeInv, Absent, NoWatch
  <1> QED BY <1>1, <1>2, <1>3

LEMMA CompareKeeps == ASSUME SessionIInv, Compare PROVE SessionIInv'
  <1> USE DEF Compare, disk, published, counters, history, SessionIInv
  <1>1. TypeInv'
    BY DEF TypeInv, Steps, None
  <1>2. ScenesWhole' /\ Publications'
    BY DEF ScenesWhole, SceneFileIsWhole, Whole, Publications
  <1>3. StampsBehind'
    BY DEF StampsBehind, TypeInv, None
  <1> QED BY <1>1, <1>2, <1>3

LEMMA FrameKeeps == ASSUME SessionIInv, Frame PROVE SessionIInv'
  <1> USE SessionAssumption DEF Frame, disk, published, SessionIInv
  <1>1. CASE UNCHANGED <<bodies, world, version, published>>
    BY <1>1 DEF TypeInv, Steps, ScenesWhole, SceneFileIsWhole, Whole, Publications, StampsBehind
  <1>2. CASE bodies' = bodies + 1 /\ world' = bodies' /\ Tell /\ Publish(version', world')
    <2>1. version' \in Int /\ version' > version
      BY <1>2 DEF Tell, Max2, TypeInv
    <2>2. /\ told' = told \cup {[version |-> version', body |-> world']} /\ drift' \in Int
          /\ pc = "frame" /\ pc' = "commands"
      BY <1>2 DEF Publish, Absent
    <2>3. Publications'
      BY <2>1, <2>2, PublishKeeps
    <2>4. TypeInv'
      BY <1>2, <2>1, <2>2 DEF TypeInv, Steps
    <2>5. ScenesWhole' /\ StampsBehind'
      BY <1>2 DEF ScenesWhole, SceneFileIsWhole, Whole, TypeInv, Empty, StampsBehind
    <2> QED BY <2>3, <2>4, <2>5
  <1>3. CASE bodies' = bodies + 1 /\ world' = bodies' /\ drift' = world' /\ UNCHANGED <<version, told>>
    <2>1. TypeInv' /\ StampsBehind'
      BY <1>3 DEF TypeInv, Steps, StampsBehind
    <2>2. ScenesWhole'
      BY <1>3 DEF ScenesWhole, SceneFileIsWhole, Whole, TypeInv, Empty
    <2>3. Publications'
      BY <1>3 DEF Publications
    <2> QED BY <2>1, <2>2, <2>3
  <1> QED BY <1>1, <1>2, <1>3

(* Whatever another program leaves in a file is not the session's. *)
LEMMA OutsideWriteKeeps == ASSUME SessionIInv, NEW f \in Files, OutsideWrite(f) PROVE SessionIInv'
  <1> USE DEF OutsideWrite, session, published, SessionIInv
  <1>1. TypeInv'
    BY DEF TypeInv, Steps, Broken, Absent
  <1>2. ScenesWhole'
    BY DEF ScenesWhole, SceneFileIsWhole, Whole, TypeInv
  <1>3. Publications'
    BY DEF Publications
  <1>4. StampsBehind'
    BY DEF StampsBehind, TypeInv
  <1> QED BY <1>1, <1>2, <1>3, <1>4

LEMMA CrashKeeps == ASSUME SessionIInv, Crash PROVE SessionIInv'
  <1> USE SessionAssumption DEF Crash, disk, SessionIInv
  <1>1. TypeInv'
    BY DEF TypeInv, Steps, Absent, Empty, None, NoWatch
  <1>2. ScenesWhole'
    BY DEF ScenesWhole, SceneFileIsWhole, Whole, Empty
  <1>3. Publications'
    BY DEF Publications
  <1>4. StampsBehind'
    BY DEF StampsBehind, TypeInv, None, NoWatch
  <1> QED BY <1>1, <1>2, <1>3, <1>4

LEMMA SessionStep == SessionIInv /\ [SessionNext]_sessionVars => SessionIInv'
  <1> SUFFICES ASSUME SessionIInv, [SessionNext]_sessionVars PROVE SessionIInv'
    OBVIOUS
  <1>1. CASE UNCHANGED sessionVars
    BY <1>1 DEF sessionVars, disk, counters, session, published, history, SessionIInv, TypeInv, ScenesWhole,
                SceneFileIsWhole, Whole, Publications, StampsBehind
  <1>2. CASE SessionNext
    BY <1>2, StartupKeeps, BaselineKeeps, EditKeeps, CommandsDoneKeeps, LoadKeeps, SaveBeginKeeps,
       OutsideWriteKeeps, SaveFillKeeps, SaveRenameKeeps, SaveFingerprintKeeps, PollKeeps,
       CompareKeeps, ReloadKeeps, FrameKeeps, CrashKeeps
    DEF SessionNext
  <1> QED BY <1>1, <1>2

-----------------------------------------------------------------------------
(* The watcher.  The session's own save of the watched file is remembered  *)
(* until the poll that sees it, or another save has eclipsed it.           *)
WatchedStamp == file[Watched].stamp
Remembered == last_saved = [file |-> Watched, stamp |-> WatchedStamp] \/ eclipsed
Unchanged == last_mtime = NoWatch \/ last_mtime = WatchedStamp

OwnSaves ==
    author[Watched] = "session" =>
        /\ pc \in {"commands", "fill", "rename", "fingerprint", "poll"} =>
               Unchanged \/ Remembered \/ (pc = "fingerprint" /\ target = Watched)
        /\ pc \in {"compare", "reload", "frame"} => Unchanged
        /\ pc = "compare" => Remembered
        /\ pc = "reload" => eclipsed

(* The bytes of another program are on their way to the session, published, or were   *)
(* read, or were written in a blind window.                                *)
Covered == WatchedStamp \in offered \cup blind

Noticed ==
    author[Watched] = "outside" /\ file[Watched].body # Absent =>
        /\ last_mtime = WatchedStamp /\ pc \notin {"compare", "reload"} => Covered
        /\ last_saved = [file |-> Watched, stamp |-> WatchedStamp] => Covered
        /\ pc = "fingerprint" /\ target = Watched => Covered
        /\ pc = "baseline" => Covered

WatchIInv == SessionIInv /\ OwnSaves /\ Noticed

LEMMA WatchInitially == SessionInit => WatchIInv
  <1> SUFFICES ASSUME SessionInit PROVE WatchIInv
    OBVIOUS
  <1>1. SessionIInv
    BY SessionInitially
  <1>2. OwnSaves
    BY SessionAssumption DEF SessionInit, OwnSaves
  <1>3. Noticed
    BY SessionAssumption DEF SessionInit, Noticed, WatchedStamp, None, NoWatch
  <1> QED BY <1>1, <1>2, <1>3 DEF WatchIInv

LEMMA OwnSavesStep == ASSUME WatchIInv, SessionNext PROVE OwnSaves'
  <1> USE SessionAssumption DEF WatchIInv, OwnSaves, Unchanged, Remembered, WatchedStamp
  <1>1. CASE Startup
    BY <1>1 DEF Startup
  <1>2. CASE Baseline
    BY <1>2 DEF Baseline, disk, published, NoWatch
  <1>3. CASE Edit
    BY <1>3 DEF Edit, disk, history
  <1>4. ASSUME NEW f \in Files, Load(f) PROVE OwnSaves'
    BY <1>4 DEF Load, ReadFile, Replace, session, published, disk
  <1>5. ASSUME NEW f \in Files, SaveBegin(f) PROVE OwnSaves'
    BY <1>5 DEF SaveBegin, session, published, history
  <1>6. CASE SaveFill
    BY <1>6 DEF SaveFill, session, published, history
  <1>7. CASE SaveRename
    <2>1. CASE UNCHANGED disk /\ pc' = "commands"
      BY <1>7, <2>1 DEF SaveRename, disk, session, published, history
    <2>2. CASE target = Watched /\ pc' = "fingerprint"
      BY <1>7, <2>2 DEF SaveRename
    <2>3. CASE target # Watched /\ pc' = "fingerprint"
      BY <1>7, <2>3 DEF SaveRename, session, published, history, SessionIInv, TypeInv
    <2> QED BY <1>7, <2>1, <2>2, <2>3 DEF SaveRename
  <1>8. CASE SaveFingerprint
    <2>1. pc = "fingerprint" /\ pc' = "commands" /\ UNCHANGED <<file, author, last_mtime>>
      BY <1>8 DEF SaveFingerprint, disk, published
    <2>2. CASE target = Watched
      BY <1>8, <2>1, <2>2 DEF SaveFingerprint
    <2>3. CASE target # Watched
      <3>1. eclipsed' = (eclipsed \/ last_saved.file = Watched)
        BY <1>8, <2>3, Zenon DEF SaveFingerprint
      <3>2. Remembered => eclipsed'
        BY <3>1, [file |-> Watched, stamp |-> WatchedStamp].file = Watched, Zenon DEF Remembered
      <3> QED BY <2>1, <2>3, <3>2
    <2> QED BY <2>2, <2>3
  <1>9. CASE CommandsDone
    BY <1>9 DEF CommandsDone, disk, session, published, history
  <1>10. CASE Poll
    BY <1>10 DEF Poll, MTime, disk, published, history, SessionIInv, StampsBehind, ScenesWhole, SceneFileIsWhole,
                 Whole, Absent, Empty
  <1>11. CASE Compare
    BY <1>11 DEF Compare, MTime, disk, published, history, SessionIInv, ScenesWhole, SceneFileIsWhole, Whole,
                 Absent, Empty
  <1>12. CASE Reload
    BY <1>12 DEF Reload, ReadFile, Replace, session, published, disk
  <1>13. CASE Frame
    BY <1>13 DEF Frame, disk
  <1>14. ASSUME NEW f \in Files, OutsideWrite(f) PROVE OwnSaves'
    BY <1>14 DEF OutsideWrite, session, published, SessionIInv, TypeInv
  <1>15. CASE Crash
    BY <1>15 DEF Crash
  <1> QED BY <1>1, <1>2, <1>3, <1>4, <1>5, <1>6, <1>7, <1>8, <1>9, <1>10, <1>11, <1>12, <1>13,
             <1>14, <1>15 DEF SessionNext

LEMMA NoticedStep == ASSUME WatchIInv, SessionNext PROVE Noticed'
  <1> USE SessionAssumption DEF WatchIInv, Noticed, Covered, WatchedStamp
  <1>1. CASE Startup
    BY <1>1 DEF Startup, disk
  <1>2. CASE Baseline
    BY <1>2 DEF Baseline, disk, published, history
  <1>3. CASE Edit
    BY <1>3 DEF Edit, disk, history
  <1>4. ASSUME NEW f \in Files, Load(f) PROVE Noticed'
    BY <1>4 DEF Load, ReadFile, Replace, session, published, disk
  <1>5. ASSUME NEW f \in Files, SaveBegin(f) PROVE Noticed'
    BY <1>5 DEF SaveBegin, session, published, history
  <1>6. CASE SaveFill
    BY <1>6 DEF SaveFill, session, published, history
  <1>7. CASE SaveRename
    <2>1. CASE UNCHANGED disk /\ pc' = "commands"
      BY <1>7, <2>1 DEF SaveRename, disk, session, published, history
    <2>2. CASE target = Watched /\ author' = [author EXCEPT ![target] = "session"]
      BY <1>7, <2>2 DEF SessionIInv, TypeInv
    <2>3. CASE target # Watched /\ pc' = "fingerprint"
      BY <1>7, <2>3 DEF SaveRename, session, published, history, SessionIInv, TypeInv
    <2> QED BY <1>7, <2>1, <2>2, <2>3 DEF SaveRename
  <1>8. CASE SaveFingerprint
    BY <1>8 DEF SaveFingerprint, disk, published
  <1>9. CASE CommandsDone
    BY <1>9 DEF CommandsDone, disk, session, published, history
  <1>10. CASE Poll
    BY <1>10 DEF Poll, MTime, disk, published, history
  <1>11. CASE Compare
    BY <1>11 DEF Compare, MTime, disk, published, history, None
  <1>12. CASE Reload
    BY <1>12 DEF Reload, ReadFile, Replace, session, published, disk
  <1>13. CASE Frame
    BY <1>13 DEF Frame, disk
  <1>14. ASSUME NEW f \in Files, OutsideWrite(f) PROVE Noticed'
    BY <1>14 DEF OutsideWrite, session, published, SessionIInv, TypeInv, StampsBehind
  <1>15. CASE Crash
    BY <1>15 DEF Crash, disk, None, NoWatch, SessionIInv, TypeInv
  <1> QED BY <1>1, <1>2, <1>3, <1>4, <1>5, <1>6, <1>7, <1>8, <1>9, <1>10, <1>11, <1>12, <1>13,
             <1>14, <1>15 DEF SessionNext

LEMMA WatchStep == WatchIInv /\ [SessionNext]_sessionVars => WatchIInv'
  <1> SUFFICES ASSUME WatchIInv, [SessionNext]_sessionVars PROVE WatchIInv'
    OBVIOUS
  <1>1. SessionIInv'
    BY SessionStep DEF WatchIInv
  <1>2. CASE UNCHANGED sessionVars
    <2>1. OwnSaves'
      BY <1>2 DEF sessionVars, disk, session, published, history, WatchIInv, OwnSaves, Unchanged, Remembered,
                  WatchedStamp
    <2>2. Noticed'
      BY <1>2 DEF sessionVars, disk, session, published, history, WatchIInv, Noticed, Covered, WatchedStamp
    <2> QED BY <1>1, <2>1, <2>2 DEF WatchIInv
  <1>3. CASE SessionNext
    BY <1>1, <1>3, OwnSavesStep, NoticedStep DEF WatchIInv
  <1> QED BY <1>2, <1>3

LEMMA WatchInvariant == SessionSpec => []WatchIInv
  <1>1. SessionInit => WatchIInv
    BY WatchInitially
  <1>2. WatchIInv /\ [SessionNext]_sessionVars => WatchIInv'
    BY WatchStep
  <1> QED BY <1>1, <1>2, PTL DEF SessionSpec

-----------------------------------------------------------------------------
(* A save that fails or a process that dies never leaves half a scene in   *)
(* the place of the old one (atomic_write): whatever the steps, a scene    *)
(* file that the session wrote last is a whole scene.                      *)
THEOREM SceneFilesStayWhole == SessionSpec => []SceneFileIsWhole
  <1>1. WatchIInv => SceneFileIsWhole
    BY DEF WatchIInv, SessionIInv, ScenesWhole
  <1> QED BY <1>1, WatchInvariant, PTL

(* Two snapshots published under one version show the same world and later *)
(* versions are higher; the clients have the version that the next command *)
(* finds, and its world up to what frames have moved without a publication.*)
THEOREM VersionsTellChanges == SessionSpec => []VersionTellsChange
  <1>1. WatchIInv => VersionTellsChange
    BY DEF WatchIInv, SessionIInv, Publications, VersionTellsChange
  <1> QED BY <1>1, WatchInvariant, PTL

(* The watcher misses no edit of another program outside the two windows   *)
(* in which the session samples the file after using it.                   *)
THEOREM OutsideEditsAreNoticed == SessionSpec => []EditsAreNoticed
  <1>1. WatchIInv => EditsAreNoticed
    BY DEF WatchIInv, Noticed, Covered, WatchedStamp, EditsAreNoticed, MTime
  <1> QED BY <1>1, WatchInvariant, PTL

(* The session reloads its own save only after the save of another file    *)
(* took the one place in which a fingerprint is kept.                      *)
THEOREM OwnSavesAreRecognised == SessionSpec => OwnSavesStayPut
  <1>1. WatchIInv =>
          (pc = "reload" /\ pc' = "frame" /\ author[Watched] = "session" => eclipsed)
    BY DEF WatchIInv, OwnSaves
  <1> QED BY <1>1, WatchInvariant, PTL DEF OwnSavesStayPut

-----------------------------------------------------------------------------
(* The undo history.                                                       *)

\* A set of naturals has a least member.
LEMMA NatHasLeast ==
  ASSUME NEW S, S \subseteq Nat, S # {}
  PROVE  \E a \in S : \A b \in S : a <= b
  <1> DEFINE R == OpToRel(<, Nat)
  <1>1. \E a \in S : \A b \in S : ~(<<b, a>> \in R)
    BY NatLessThanWellFounded, WFMin, Zenon
  <1>2. ASSUME NEW a \in Nat, NEW b \in Nat, b < a
        PROVE  <<b, a>> \in R
    <2>1. <<b, a>> \in Nat \X Nat
      OBVIOUS
    <2>2. <<b, a>>[1] < <<b, a>>[2]
      BY <1>2
    <2> QED BY <2>1, <2>2 DEF OpToRel
  <1>3. PICK a \in S : \A b \in S : ~(<<b, a>> \in R)
    BY <1>1, Zenon
  <1> HIDE DEF R
  <1>4. \A b \in S : ~(b < a)
    BY <1>2, <1>3, Zenon
  <1> QED BY <1>4


-----------------------------------------------------------------------------
(* The bytes of a history. *)

(* f is the running sum of the snapshots' bytes. *)
Sums(meshes, f) ==
    /\ f[0] = 0
    /\ \A n \in 1 .. Len(meshes) : f[n] = f[n - 1] + meshes[n].bytes

SumsTo(meshes, m, f) ==
    f = [n \in 0 .. m |-> IF n = 0 THEN 0 ELSE f[n - 1] + meshes[n].bytes]

LEMMA MeshBytes == ASSUME NEW mesh \in Mesh PROVE mesh.bytes \in Nat
  BY UndoAssumption DEF Mesh

\* There is one for every sequence.
LEMMA SumsExist == ASSUME NEW s, NEW m \in Nat PROVE \E f : SumsTo(s, m, f)
  <1> DEFINE T == {k \in Nat : ~\E f : SumsTo(s, k, f)}
  <1> SUFFICES ASSUME T # {} PROVE FALSE
    OBVIOUS
  <1>1. PICK k \in T : \A j \in T : k <= j
    BY NatHasLeast
  <1>2. SumsTo(s, 0, [n \in 0 .. 0 |-> 0])
    BY DEF SumsTo
  <1>3. k \in Nat /\ k # 0
    BY <1>2
  <1>4. k - 1 \in Nat /\ k - 1 \notin T
    BY <1>1, <1>3
  <1>5. PICK g : SumsTo(s, k - 1, g)
    BY <1>4
  <1>6. PICK f : f = [n \in 0 .. k |-> IF n = k THEN g[k - 1] + s[k].bytes ELSE g[n]]
    OBVIOUS
  <1>7. \A n \in 0 .. k - 1 : f[n] = g[n] /\ g[n] = IF n = 0 THEN 0 ELSE g[n - 1] + s[n].bytes
    BY <1>3, <1>5, <1>6 DEF SumsTo
  <1>8. ASSUME NEW n \in 0 .. k PROVE f[n] = IF n = 0 THEN 0 ELSE f[n - 1] + s[n].bytes
    <2>1. CASE n = k
      <3>1. k - 1 \in 0 .. k - 1 /\ f[k - 1] = g[k - 1]
        BY <1>3, <1>7
      <3> QED BY <1>3, <1>6, <2>1, <3>1
    <2>2. CASE n # k /\ n # 0
      <3>1. n \in 0 .. k - 1 /\ n - 1 \in 0 .. k - 1
        BY <1>3, <2>2
      <3> QED BY <1>7, <2>2, <3>1
    <2>3. CASE n # k /\ n = 0
      <3>1. n \in 0 .. k - 1
        BY <1>3, <2>3
      <3> QED BY <1>7, <2>3, <3>1
    <2> QED BY <2>1, <2>2, <2>3
  <1>9. SumsTo(s, k, f)
    BY <1>6, <1>8 DEF SumsTo
  <1> QED BY <1>9

\* Every running sum ends in the byte count, and is one of naturals.
LEMMA BytesAre ==
  ASSUME NEW s \in Seq(Mesh)
  PROVE  \E f : Sums(s, f) /\ BytesOf(s) = f[Len(s)]
  <1>1. Len(s) \in Nat
    OBVIOUS
  <1> DEFINE f == CHOOSE f : SumsTo(s, Len(s), f)
  <1>2. SumsTo(s, Len(s), f)
    BY <1>1, SumsExist, Zenon
  <1>3. BytesOf(s) = f[Len(s)]
    BY Zenon DEF BytesOf, SumsTo
  <1>4. PICK g : g = f
    OBVIOUS
  <1> HIDE DEF f
  <1>5. Sums(s, g)
    BY <1>1, <1>2, <1>4 DEF SumsTo, Sums
  <1> QED BY <1>3, <1>4, <1>5

\* Two running sums agree.
LEMMA SumsAgree ==
  ASSUME NEW s \in Seq(Mesh), NEW f, NEW g, Sums(s, f), Sums(s, g), NEW n \in 0 .. Len(s)
  PROVE  f[n] = g[n] /\ f[n] \in Nat
  <1> DEFINE T == {k \in Nat : k <= Len(s) /\ ~(f[k] = g[k] /\ f[k] \in Nat)}
  <1> SUFFICES ASSUME T # {} PROVE FALSE
    OBVIOUS
  <1>1. PICK k \in T : \A j \in T : k <= j
    BY NatHasLeast
  <1>2. k # 0 /\ k \in 1 .. Len(s) /\ k - 1 \in Nat /\ k - 1 <= Len(s) /\ ~(k <= k - 1)
    BY <1>1 DEF Sums
  <1>3. f[k - 1] = g[k - 1] /\ f[k - 1] \in Nat
    BY <1>1, <1>2
  <1>4. f[k] = f[k - 1] + s[k].bytes /\ g[k] = g[k - 1] + s[k].bytes
    BY <1>2 DEF Sums
  <1>5. s[k].bytes \in Nat
    <2>1. s[k] \in Mesh
      BY <1>2
    <2> QED BY <2>1, MeshBytes
  <1> QED BY <1>1, <1>3, <1>4, <1>5

LEMMA BytesBySum ==
  ASSUME NEW s \in Seq(Mesh), NEW f, Sums(s, f)
  PROVE  BytesOf(s) = f[Len(s)] /\ BytesOf(s) \in Nat
  <1>1. PICK g : Sums(s, g) /\ BytesOf(s) = g[Len(s)]
    BY BytesAre
  <1>2. Len(s) \in 0 .. Len(s)
    OBVIOUS
  <1> QED BY <1>1, <1>2, SumsAgree

LEMMA BytesOfNothing == BytesOf(<<>>) = 0
  <1>1. <<>> \in Seq(Mesh) /\ Len(<<>>) = 0
    OBVIOUS
  <1>2. PICK f : Sums(<<>>, f) /\ BytesOf(<<>>) = f[Len(<<>>)]
    BY <1>1, BytesAre
  <1> QED BY <1>1, <1>2 DEF Sums

\* What one more snapshot adds.
LEMMA BytesOfAppend ==
  ASSUME NEW s \in Seq(Mesh), NEW mesh \in Mesh
  PROVE  BytesOf(Append(s, mesh)) = BytesOf(s) + mesh.bytes
  <1>1. PICK f : Sums(s, f) /\ BytesOf(s) = f[Len(s)]
    BY BytesAre
  <1>2. PICK t : t = Append(s, mesh)
    OBVIOUS
  <1>3. /\ t \in Seq(Mesh) /\ Len(t) = Len(s) + 1 /\ Len(s) \in Nat /\ t[Len(s) + 1] = mesh
        /\ \A n \in 1 .. Len(s) : t[n] = s[n]
    BY <1>2
  <1>4. PICK g : g = [n \in 0 .. Len(s) + 1 |-> IF n = Len(s) + 1 THEN f[Len(s)] + mesh.bytes ELSE f[n]]
    OBVIOUS
  <1>5. g[Len(s) + 1] = f[Len(s)] + mesh.bytes
    BY <1>3, <1>4
  <1>6. \A n \in 0 .. Len(s) : g[n] = f[n]
    BY <1>3, <1>4
  <1>7. ASSUME NEW n \in 1 .. Len(t) PROVE g[n] = g[n - 1] + t[n].bytes
    <2>1. CASE n = Len(s) + 1
      <3>1. n - 1 = Len(s) /\ Len(s) \in 0 .. Len(s)
        BY <1>3, <2>1
      <3> QED BY <1>3, <1>5, <1>6, <2>1, <3>1
    <2>2. CASE n # Len(s) + 1
      <3>1. n \in 1 .. Len(s) /\ n \in 0 .. Len(s) /\ n - 1 \in 0 .. Len(s)
        BY <1>3, <2>2
      <3>2. f[n] = f[n - 1] + s[n].bytes
        BY <1>1, <3>1 DEF Sums
      <3> QED BY <1>3, <1>6, <3>1, <3>2
    <2> QED BY <2>1, <2>2
  <1>8. Sums(t, g)
    BY <1>1, <1>3, <1>6, <1>7 DEF Sums
  <1> QED BY <1>1, <1>2, <1>3, <1>5, <1>8, BytesBySum

\* Cutting a history in two divides its bytes.
LEMMA BytesOfParts ==
  ASSUME NEW s \in Seq(Mesh), NEW k \in 0 .. Len(s)
  PROVE  /\ BytesOf(SubSeq(s, 1, k)) \in Nat
         /\ BytesOf(SubSeq(s, k + 1, Len(s))) = BytesOf(s) - BytesOf(SubSeq(s, 1, k))
         /\ BytesOf(SubSeq(s, 1, k)) <= BytesOf(s)
  <1>1. PICK f : Sums(s, f) /\ BytesOf(s) = f[Len(s)]
    BY BytesAre
  <1>2. PICK p : p = SubSeq(s, 1, k)
    OBVIOUS
  <1>3. PICK q : q = SubSeq(s, k + 1, Len(s))
    OBVIOUS
  <1>4. /\ Len(s) \in Nat /\ k \in Nat /\ k <= Len(s)
        /\ p \in Seq(Mesh) /\ Len(p) = k /\ \A n \in 1 .. k : p[n] = s[n]
    BY <1>2
  <1>5. /\ q \in Seq(Mesh) /\ Len(q) = Len(s) - k
        /\ \A n \in 1 .. Len(s) - k : q[n] = s[k + n]
    BY <1>3
  <1>6. Sums(p, f)
    BY <1>1, <1>4 DEF Sums
  <1>7. \A n \in 0 .. Len(s) : f[n] \in Nat
    BY <1>1, SumsAgree
  <1>8. PICK h : h = [n \in 0 .. Len(s) - k |-> f[k + n] - f[k]]
    OBVIOUS
  <1>9. Sums(q, h)
    <2>1. h[0] = 0
      BY <1>4, <1>7, <1>8
    <2>2. ASSUME NEW n \in 1 .. Len(q) PROVE h[n] = h[n - 1] + q[n].bytes
      <3>1. /\ n \in 0 .. Len(s) - k /\ n - 1 \in 0 .. Len(s) - k /\ k + n \in 1 .. Len(s)
            /\ k + n \in 0 .. Len(s) /\ k + (n - 1) \in 0 .. Len(s) /\ (k + n) - 1 = k + (n - 1)
            /\ k \in 0 .. Len(s) /\ n \in 1 .. Len(s) - k
        BY <1>4, <1>5
      <3>2. h[n] = f[k + n] - f[k] /\ h[n - 1] = f[k + (n - 1)] - f[k]
        BY <1>8, <3>1
      <3>3. f[k + n] = f[k + (n - 1)] + s[k + n].bytes
        BY <1>1, <3>1 DEF Sums
      <3>4. s[k + n].bytes \in Nat /\ q[n] = s[k + n]
        <4>1. s[k + n] \in Mesh /\ q[n] = s[k + n]
          BY <1>5, <3>1
        <4> QED BY <4>1, MeshBytes
      <3>5. f[k + n] \in Nat /\ f[k + (n - 1)] \in Nat /\ f[k] \in Nat
        BY <1>7, <3>1
      <3> DEFINE x == f[k + n]
                 y == f[k + (n - 1)]
                 z == f[k]
                 u == s[k + n].bytes
      <3>6. /\ x \in Nat /\ y \in Nat /\ z \in Nat /\ u \in Nat /\ x = y + u
            /\ h[n] = x - z /\ h[n - 1] = y - z /\ q[n].bytes = u
        BY <3>2, <3>3, <3>4, <3>5, Zenon
      <3> HIDE DEF x, y, z, u
      <3> QED BY <3>6
    <2> QED BY <2>1, <2>2 DEF Sums
  <1>10. BytesOf(p) = f[k] /\ BytesOf(p) \in Nat
    BY <1>4, <1>6, BytesBySum
  <1>11. BytesOf(q) = h[Len(s) - k] /\ BytesOf(q) \in Nat
    BY <1>5, <1>9, BytesBySum
  <1>12. h[Len(s) - k] = f[Len(s)] - f[k] /\ f[Len(s)] \in Nat /\ f[k] \in Nat
    <2>1. Len(s) - k \in 0 .. Len(s) - k /\ k + (Len(s) - k) = Len(s) /\ Len(s) \in 0 .. Len(s)
      BY <1>4
    <2> QED BY <1>4, <1>7, <1>8, <2>1
  <1> QED BY <1>1, <1>2, <1>3, <1>10, <1>11, <1>12

-----------------------------------------------------------------------------
(* Both limits. *)

LEMMA ViewIsMesh == ASSUME UndoTypeOK PROVE View \in Mesh /\ View.bytes \in Nat
  <1>1. View \in Mesh
    BY DEF UndoTypeOK, View
  <1> QED BY <1>1, MeshBytes

\* make_room ends: with the stack empty there is room for what is not denied.
LEMMA RoomIsMade ==
  ASSUME HistoryIsBounded, NEW bytes \in Nat, ~Denied(bytes)
  PROVE  Evicted(bytes) \in 0 .. Len(before) /\ ~Over(Evicted(bytes), bytes)
  <1>1. before \in Seq(Mesh) /\ Len(before) \in Nat /\ retained = BytesOf(before)
    BY DEF HistoryIsBounded, UndoTypeOK
  <1>2. ~Over(Len(before), bytes)
    <2>1. SubSeq(before, 1, Len(before)) = before
      BY <1>1
    <2>2. Less(retained, BytesOf(before)) = 0
      BY <1>1 DEF Less, HistoryIsBounded, UndoTypeOK
    <2>3. Snapshots => bytes <= MaxBytes
      BY UndoAssumption DEF Denied
    <2>4. ~(Len(before) - Len(before) >= Cap)
      BY <1>1, UndoAssumption
    <2>5. Snapshots => ~(0 + bytes > MaxBytes)
      BY <2>3, UndoAssumption
    <2> QED BY <2>1, <2>2, <2>4, <2>5, Zenon DEF Over
  <1> DEFINE T == {k \in 0 .. Len(before) : ~Over(k, bytes)}
  <1>3. T \subseteq Nat /\ T # {}
    BY <1>1, <1>2
  <1>4. PICK k \in T : \A j \in T : k <= j
    BY <1>3, NatHasLeast
  <1>5. \A j \in 0 .. (k - 1) : Over(j, bytes)
    BY <1>1, <1>4
  <1>6. \E n \in 0 .. Len(before) : ~Over(n, bytes) /\ \A j \in 0 .. (n - 1) : Over(j, bytes)
    BY <1>4, <1>5, Zenon
  <1> QED BY <1>6, Zenon DEF Evicted

\* Logging an entry keeps the count exact and both limits.
LEMMA LogKeepsLimits ==
  ASSUME HistoryIsBounded, NEW drag \in BOOLEAN, NEW mesh \in Mesh, ~Denied(mesh.bytes),
         LogEntry(drag, mesh)
  PROVE  /\ ops' \in Seq(BOOLEAN) /\ before' \in Seq(Mesh) /\ Len(ops') = Len(before')
         /\ Len(ops') <= Cap /\ Len(ops') <= Len(ops) + 1
         /\ retained' \in Nat /\ retained' = BytesOf(before')
         /\ Snapshots => retained' <= MaxBytes
  <1>0. mesh.bytes \in Nat
    BY MeshBytes
  <1> DEFINE k == Evicted(mesh.bytes)
             kept == SubSeq(before, k + 1, Len(before))
  <1>1. k \in 0 .. Len(before) /\ ~Over(k, mesh.bytes)
    BY <1>0, RoomIsMade
  <1>2. /\ ops' = Append(SubSeq(ops, k + 1, Len(ops)), drag)
        /\ before' = Append(kept, mesh)
        /\ retained' = Less(retained, BytesOf(SubSeq(before, 1, k))) + mesh.bytes
    BY DEF LogEntry
  <1>3. /\ ops \in Seq(BOOLEAN) /\ before \in Seq(Mesh) /\ Len(ops) = Len(before)
        /\ Len(before) \in Nat /\ retained \in Nat /\ retained = BytesOf(before)
    BY DEF HistoryIsBounded, UndoTypeOK
  <1>4. /\ BytesOf(SubSeq(before, 1, k)) \in Nat /\ BytesOf(SubSeq(before, 1, k)) <= retained
        /\ BytesOf(kept) = retained - BytesOf(SubSeq(before, 1, k))
    BY <1>1, <1>3, BytesOfParts
  <1>5. /\ ~(Len(before) - k >= Cap)
        /\ Snapshots => ~(Less(retained, BytesOf(SubSeq(before, 1, k))) + mesh.bytes > MaxBytes)
    BY <1>1, Zenon DEF Over
  <1> HIDE DEF k
  <1>6. kept \in Seq(Mesh) /\ Len(kept) = Len(before) - k /\ Len(before) - k \in Nat
    BY <1>1, <1>3
  <1>7. before' \in Seq(Mesh) /\ Len(before') = Len(before) - k + 1
    BY <1>2, <1>6
  <1>8. ops' \in Seq(BOOLEAN) /\ Len(ops') = Len(before) - k + 1
    <2>1. PICK rest : rest = SubSeq(ops, k + 1, Len(ops))
      OBVIOUS
    <2>2. rest \in Seq(BOOLEAN) /\ Len(rest) = Len(before) - k
      BY <1>1, <1>3, <2>1
    <2> QED BY <1>2, <1>6, <2>1, <2>2
  <1>9. Less(retained, BytesOf(SubSeq(before, 1, k))) = BytesOf(kept)
    BY <1>3, <1>4 DEF Less
  <1>10. BytesOf(before') = BytesOf(kept) + mesh.bytes
    BY <1>2, <1>6, BytesOfAppend
  <1> DEFINE gone == BytesOf(SubSeq(before, 1, k))
             left == BytesOf(kept)
  <1>11. /\ gone \in Nat /\ gone <= retained /\ left = retained - gone
         /\ retained' = left + mesh.bytes /\ BytesOf(before') = left + mesh.bytes
         /\ Snapshots => ~(left + mesh.bytes > MaxBytes)
    BY <1>2, <1>4, <1>5, <1>9, <1>10, Zenon
  <1> HIDE DEF gone, left, kept
  <1>12. retained' \in Nat /\ retained' = BytesOf(before') /\ (Snapshots => retained' <= MaxBytes)
    BY <1>0, <1>3, <1>11, UndoAssumption
  <1>13. Len(ops') <= Cap /\ Len(ops') <= Len(ops) + 1
    BY <1>1, <1>3, <1>5, <1>8, UndoAssumption
  <1> QED BY <1>7, <1>8, <1>12, <1>13, Zenon

LEMMA PushKeepsLimits ==
  ASSUME HistoryIsBounded, NEW drag \in BOOLEAN, NEW mesh \in Mesh, Push(drag, mesh),
         base' \in Mesh, preview' \in Mesh \cup {NoMesh}
  PROVE  HistoryIsBounded'
  <1>1. redoOps' = <<>> /\ redoAfter' = <<>> /\ outcome' = "edit"
    BY DEF Push, ClearRedo
  <1>2. /\ ops' \in Seq(BOOLEAN) /\ before' \in Seq(Mesh) /\ Len(ops') = Len(before')
        /\ Len(ops') <= Cap
        /\ retained' \in Nat /\ retained' = BytesOf(before')
        /\ Snapshots => retained' <= MaxBytes
    <2>1. CASE UNCHANGED <<ops, before, retained>>
      <3>1. /\ ops \in Seq(BOOLEAN) /\ before \in Seq(Mesh) /\ Len(ops) = Len(before)
            /\ redoOps \in Seq(BOOLEAN) /\ Len(ops) + Len(redoOps) <= Cap
            /\ retained \in Nat /\ retained = BytesOf(before)
            /\ Snapshots => retained <= MaxBytes
        BY DEF HistoryIsBounded, UndoTypeOK
      <3>2. Len(ops) <= Cap
        BY <3>1, UndoAssumption
      <3> QED BY <2>1, <3>1, <3>2
    <2>2. CASE ~Denied(mesh.bytes) /\ LogEntry(drag, mesh)
      BY <2>2, LogKeepsLimits
    <2> QED BY <2>1, <2>2 DEF Push
  <1>3. Len(ops') + Len(redoOps') <= Cap
    BY <1>1, <1>2, UndoAssumption
  <1>4. redoOps' \in Seq(BOOLEAN) /\ redoAfter' \in Seq(Mesh) /\ Len(redoOps') = Len(redoAfter')
    BY <1>1
  <1> QED BY <1>1, <1>2, <1>3, <1>4 DEF HistoryIsBounded, UndoTypeOK

\* What pop takes from a vector and leaves.
LEMMA Popped ==
  ASSUME NEW S, NEW s \in Seq(S), s # <<>>
  PROVE  /\ Front(s) \in Seq(S) /\ Len(Front(s)) = Len(s) - 1 /\ Last(s) \in S
         /\ \A i \in 1 .. Len(s) - 1 : Front(s)[i] = s[i]
         /\ Len(s) \in Nat /\ Len(s) >= 1
  <1>1. Len(s) \in Nat /\ Len(s) >= 1
    OBVIOUS
  <1>2. Last(s) \in S
    BY <1>1 DEF Last
  <1>3. PICK k : k = Len(s) - 1
    OBVIOUS
  <1>4. k \in Nat /\ k <= Len(s)
    BY <1>1, <1>3
  <1>5. PICK f : f = SubSeq(s, 1, k)
    OBVIOUS
  <1>6. f \in Seq(S) /\ Len(f) = k /\ \A i \in 1 .. k : f[i] = s[i]
    BY <1>1, <1>4, <1>5
  <1> QED BY <1>1, <1>2, <1>3, <1>5, <1>6, Zenon DEF Front

\* What make_room leaves of a vector.
LEMMA Kept ==
  ASSUME NEW S, NEW s \in Seq(S), NEW k \in 0 .. Len(s), NEW r, r = SubSeq(s, k + 1, Len(s))
  PROVE  r \in Seq(S) /\ Len(r) = Len(s) - k /\ \A i \in 1 .. Len(s) - k : r[i] = s[k + i]
  OBVIOUS

LEMMA UndoKeepsLimits == ASSUME HistoryIsBounded, Undo PROVE HistoryIsBounded'
  <1>1. /\ ops \in Seq(BOOLEAN) /\ before \in Seq(Mesh) /\ Len(ops) = Len(before)
        /\ redoOps \in Seq(BOOLEAN) /\ redoAfter \in Seq(Mesh) /\ Len(redoOps) = Len(redoAfter)
        /\ Len(ops) + Len(redoOps) <= Cap
        /\ retained \in Nat /\ retained = BytesOf(before) /\ (Snapshots => retained <= MaxBytes)
        /\ base \in Mesh
    BY DEF HistoryIsBounded, UndoTypeOK
  <1>2. /\ ops # <<>> /\ preview' = Last(before) /\ ops' = Front(ops) /\ before' = Front(before)
        /\ retained' = Less(retained, Last(before).bytes)
        /\ redoOps' = Append(redoOps, Last(ops)) /\ redoAfter' = Append(redoAfter, View)
        /\ outcome' = "undo" /\ base' = base
    BY DEF Undo
  <1> DEFINE n == Len(before)
  <1>3. n \in Nat /\ n >= 1 /\ n - 1 \in 0 .. n /\ Len(ops) = n
    BY <1>1, <1>2
  <1>4. /\ ops' \in Seq(BOOLEAN) /\ Len(ops') = n - 1 /\ Last(ops) \in BOOLEAN
    <2>1. Front(ops) \in Seq(BOOLEAN) /\ Len(Front(ops)) = Len(ops) - 1 /\ Last(ops) \in BOOLEAN
      BY <1>1, <1>2, Popped, Zenon
    <2> QED BY <1>1, <1>2, <2>1, Zenon
  <1>5. /\ before' \in Seq(Mesh) /\ Len(before') = n - 1 /\ Last(before) \in Mesh
        /\ \A i \in 1 .. n - 1 : before'[i] = before[i]
    <2>1. before # <<>>
      BY <1>3
    <2>2. /\ Front(before) \in Seq(Mesh) /\ Len(Front(before)) = n - 1 /\ Last(before) \in Mesh
          /\ \A i \in 1 .. n - 1 : Front(before)[i] = before[i]
      BY <1>1, <2>1, Popped, Zenon
    <2> QED BY <1>2, <2>2, Zenon
  <1>6. View \in Mesh
    BY ViewIsMesh DEF HistoryIsBounded
  <1>7. /\ redoOps' \in Seq(BOOLEAN) /\ Len(redoOps') = Len(redoOps) + 1
        /\ redoAfter' \in Seq(Mesh) /\ Len(redoAfter') = Len(redoAfter) + 1
    BY <1>1, <1>2, <1>4, <1>6
  <1>8. retained' \in Nat /\ retained' = BytesOf(before') /\ retained' <= retained
    <2>1. before = Append(before', Last(before))
      <3>2. PICK t : t = Append(before', Last(before))
        OBVIOUS
      <3>3. /\ t \in Seq(Mesh) /\ Len(t) = n /\ t[n] = Last(before)
            /\ \A i \in 1 .. n - 1 : t[i] = before'[i]
        BY <1>3, <1>5, <3>2
      <3>4. ASSUME NEW i \in 1 .. n PROVE t[i] = before[i]
        BY <1>3, <1>5, <3>3 DEF Last
      <3> QED BY <1>1, <3>2, <3>3, <3>4, SeqEqual
    <2>2. BytesOf(before) = BytesOf(before') + Last(before).bytes
      BY <1>5, <2>1, BytesOfAppend
    <2>3. Last(before).bytes \in Nat
      BY <1>5, MeshBytes
    <2>4. BytesOf(before') \in Nat
      <3>1. before' = SubSeq(before, 1, n - 1)
        BY <1>2 DEF Front
      <3> QED BY <1>1, <1>3, <3>1, BytesOfParts
    <2> DEFINE x == BytesOf(before')
               y == Last(before).bytes
    <2>5. /\ x \in Nat /\ y \in Nat /\ retained = x + y /\ retained' = Less(retained, y)
      BY <1>1, <1>2, <2>2, <2>3, <2>4, Zenon
    <2> HIDE DEF x, y
    <2>6. retained' = x /\ x <= retained
      BY <2>5 DEF Less
    <2> QED BY <2>5, <2>6 DEF x
  <1>9. Len(ops') + Len(redoOps') <= Cap
    BY <1>1, <1>3, <1>4, <1>7, UndoAssumption
  <1>10. Snapshots => retained' <= MaxBytes
    BY <1>1, <1>8, UndoAssumption
  <1> HIDE DEF n
  <1> QED BY <1>1, <1>2, <1>4, <1>5, <1>7, <1>8, <1>9, <1>10 DEF HistoryIsBounded, UndoTypeOK

LEMMA RedoKeepsLimits == ASSUME HistoryIsBounded, Redo PROVE HistoryIsBounded'
  <1>1. /\ redoOps \in Seq(BOOLEAN) /\ redoAfter \in Seq(Mesh) /\ Len(redoOps) = Len(redoAfter)
        /\ ops \in Seq(BOOLEAN) /\ Len(ops) + Len(redoOps) <= Cap /\ base \in Mesh
    BY DEF HistoryIsBounded, UndoTypeOK
  <1>2. /\ redoOps # <<>> /\ ~Denied(View.bytes) /\ LogEntry(Last(redoOps), View)
        /\ preview' = Last(redoAfter)
        /\ redoOps' = Front(redoOps) /\ redoAfter' = Front(redoAfter)
        /\ outcome' = "redo" /\ base' = base
    BY DEF Redo
  <1>3. Len(redoOps) \in Nat /\ Len(redoOps) >= 1
    BY <1>1, <1>2
  <1>4. redoOps' \in Seq(BOOLEAN) /\ Len(redoOps') = Len(redoOps) - 1 /\ Last(redoOps) \in BOOLEAN
    BY <1>1, <1>2, <1>3 DEF Front, Last
  <1>5. redoAfter' \in Seq(Mesh) /\ Len(redoAfter') = Len(redoOps) - 1 /\ Last(redoAfter) \in Mesh
    BY <1>1, <1>2, <1>3 DEF Front, Last
  <1>6. View \in Mesh
    BY ViewIsMesh DEF HistoryIsBounded
  <1>7. /\ ops' \in Seq(BOOLEAN) /\ before' \in Seq(Mesh) /\ Len(ops') = Len(before')
        /\ Len(ops') <= Len(ops) + 1
        /\ retained' \in Nat /\ retained' = BytesOf(before')
        /\ Snapshots => retained' <= MaxBytes
    BY <1>2, <1>4, <1>6, LogKeepsLimits
  <1>8. Len(ops') + Len(redoOps') <= Cap
    <2>1. Len(ops') \in Nat /\ Len(ops) \in Nat
      BY <1>1, <1>7
    <2> QED BY <1>1, <1>3, <1>4, <1>7, <2>1, UndoAssumption
  <1> QED BY <1>1, <1>2, <1>4, <1>5, <1>7, <1>8 DEF HistoryIsBounded, UndoTypeOK

\* Every call keeps both limits.
LEMMA HistoryStep == HistoryIsBounded /\ [UndoNext]_undoVars => HistoryIsBounded'
  <1> SUFFICES ASSUME HistoryIsBounded, [UndoNext]_undoVars PROVE HistoryIsBounded'
    OBVIOUS
  <1>0. UndoTypeOK /\ View \in Mesh /\ base \in Mesh /\ preview \in Mesh \cup {NoMesh}
    BY ViewIsMesh DEF HistoryIsBounded, UndoTypeOK
  <1>1. CASE Transform \/ Reshape \/ CommitExact \/ CancelPreview
    <2>1. base' \in Mesh /\ preview' \in Mesh \cup {NoMesh}
      BY <1>0, <1>1 DEF Transform, Reshape, CommitExact, Accept, CancelPreview
    <2>2. \E drag \in BOOLEAN, mesh \in Mesh : Push(drag, mesh)
      BY <1>0, <1>1 DEF Transform, Reshape, CommitExact, CancelPreview
    <2> QED BY <2>1, <2>2, PushKeepsLimits
  <1>2. CASE ApplyDenied
    <2>1. /\ redoOps' = <<>> /\ redoAfter' = <<>> /\ outcome' = "budget"
          /\ UNCHANGED <<ops, before, retained, base, preview>>
      BY <1>2 DEF ApplyDenied, PushDenied, ClearRedo
    <2>2. redoOps \in Seq(BOOLEAN) /\ ops \in Seq(BOOLEAN) /\ Len(ops) + Len(redoOps) <= Cap
      BY DEF HistoryIsBounded, UndoTypeOK
    <2>3. Len(ops') + Len(redoOps') <= Cap
      BY <2>1, <2>2, UndoAssumption
    <2>4. redoOps' \in Seq(BOOLEAN) /\ redoAfter' \in Seq(Mesh) /\ Len(redoOps') = Len(redoAfter')
      BY <2>1
    <2> QED BY <2>1, <2>3, <2>4 DEF HistoryIsBounded, UndoTypeOK
  <1>3. CASE Commit \/ Cancel \/ SwapExact \/ RedoDenied \/ NothingThere \/ UNCHANGED undoVars
    <2>1. UNCHANGED stack /\ base' \in Mesh /\ preview' \in Mesh \cup {NoMesh}
      BY <1>0, <1>3 DEF Commit, Accept, Cancel, SwapExact, RedoDenied, NothingThere, undoVars
    <2>2. outcome' \in {"replace", "budget", "empty", outcome}
      BY <1>3 DEF Commit, Cancel, SwapExact, RedoDenied, NothingThere, undoVars
    <2> QED BY <2>1, <2>2 DEF HistoryIsBounded, UndoTypeOK, stack
  <1>4. CASE Undo
    BY <1>4, UndoKeepsLimits
  <1>5. CASE Redo
    BY <1>5, RedoKeepsLimits
  <1>6. CASE Clear
    <2>1. /\ ops' = <<>> /\ before' = <<>> /\ redoOps' = <<>> /\ redoAfter' = <<>>
          /\ retained' = 0 /\ outcome' = "clear" /\ UNCHANGED <<base, preview>>
      BY <1>6 DEF Clear, ClearRedo
    <2>2. /\ ops' \in Seq(BOOLEAN) /\ redoOps' \in Seq(BOOLEAN) /\ before' \in Seq(Mesh)
          /\ redoAfter' \in Seq(Mesh) /\ Len(ops') = 0 /\ Len(before') = 0
          /\ Len(redoOps') = 0 /\ Len(redoAfter') = 0
      BY <2>1
    <2>3. retained' = BytesOf(before')
      BY <2>1, BytesOfNothing
    <2> QED BY <1>0, <2>1, <2>2, <2>3, UndoAssumption DEF HistoryIsBounded, UndoTypeOK
  <1> QED BY <1>1, <1>2, <1>3, <1>4, <1>5, <1>6 DEF UndoNext

(* After any sequence of calls the running byte count is exactly what the  *)
(* snapshots take, and capacity and byte budget hold: make_room never runs *)
(* out of entries to evict, and undo and redo only move entries across     *)
(* (UndoStack::push, undo, redo, make_room).                               *)
THEOREM HistoryStaysBounded == UndoSpec => []HistoryIsBounded
  <1>1. UndoInit => HistoryIsBounded
    <2> SUFFICES ASSUME UndoInit PROVE HistoryIsBounded
      OBVIOUS
    <2>1. /\ ops = <<>> /\ before = <<>> /\ redoOps = <<>> /\ redoAfter = <<>>
          /\ retained = 0 /\ outcome = "none" /\ base \in Mesh /\ preview = NoMesh
      BY DEF UndoInit
    <2>2. /\ ops \in Seq(BOOLEAN) /\ redoOps \in Seq(BOOLEAN) /\ before \in Seq(Mesh)
          /\ redoAfter \in Seq(Mesh) /\ Len(ops) = 0 /\ Len(before) = 0
          /\ Len(redoOps) = 0 /\ Len(redoAfter) = 0
      BY <2>1
    <2>3. retained = BytesOf(before)
      BY <2>1, BytesOfNothing
    <2> QED BY <2>1, <2>2, <2>3, UndoAssumption DEF HistoryIsBounded, UndoTypeOK
  <1> QED BY <1>1, HistoryStep, PTL DEF UndoSpec

-----------------------------------------------------------------------------
(* The line of views. *)

Step == [drag : BOOLEAN, view : Mesh]

\* An entry pairs the drag flag with the view at its index.
LEMMA EntriesAre ==
  ASSUME NEW d \in Seq(BOOLEAN), NEW m \in Seq(Mesh), Len(d) = Len(m), NEW e, e = Entries(d, m)
  PROVE  /\ e \in Seq(Step) /\ Len(e) = Len(d)
         /\ \A i \in 1 .. Len(d) : e[i] = Line!Entry(d[i], m[i])
  <1>1. e = [i \in 1 .. Len(d) |-> Line!Entry(d[i], m[i])]
    <2>1. DOMAIN d = 1 .. Len(d)
      OBVIOUS
    <2> QED BY <2>1, Zenon DEF Entries, Line!Entry
  <1>2. Len(d) \in Nat
    OBVIOUS
  <1>3. ASSUME NEW i \in 1 .. Len(d) PROVE Line!Entry(d[i], m[i]) \in Step
    <2>1. d[i] \in BOOLEAN /\ m[i] \in Mesh
      OBVIOUS
    <2> QED BY <2>1, Zenon DEF Line!Entry, Step
  <1>4. e \in Seq(Step)
    BY <1>1, <1>2, <1>3, IsASeq
  <1>5. Len(e) = Len(d)
    BY <1>1, <1>2
  <1> QED BY <1>1, <1>4, <1>5, Zenon

LEMMA EntryIsStep == ASSUME NEW x \in BOOLEAN, NEW v \in Mesh PROVE Line!Entry(x, v) \in Step
  BY Zenon DEF Line!Entry, Step

LEMMA EntryFields ==
  ASSUME NEW x, NEW v
  PROVE  Line!Entry(x, v).drag = x /\ Line!Entry(x, v).view = v
  BY DEF Line!Entry

LEMMA NoEntries == Entries(<<>>, <<>>) = <<>> /\ Reverse(<<>>) = <<>>
  <1>1. DOMAIN <<>> = {}
    OBVIOUS
  <1>2. Entries(<<>>, <<>>) = <<>>
    BY <1>1 DEF Entries
  <1>3. Reverse(<<>>) = <<>>
    BY DEF Reverse
  <1> QED BY <1>2, <1>3

\* A logged entry is remembered behind those that make_room left.
LEMMA EntriesLogged ==
  ASSUME NEW d \in Seq(BOOLEAN), NEW m \in Seq(Mesh), Len(d) = Len(m),
         NEW k \in 0 .. Len(d), NEW x \in BOOLEAN, NEW v \in Mesh
  PROVE  Entries(Append(SubSeq(d, k + 1, Len(d)), x), Append(SubSeq(m, k + 1, Len(m)), v))
           = Append(SubSeq(Entries(d, m), k + 1, Len(Entries(d, m))), Line!Entry(x, v))
  <1>1. PICK e : e = Entries(d, m)
    OBVIOUS
  <1>2. /\ e \in Seq(Step) /\ Len(e) = Len(d) /\ Len(d) \in Nat
        /\ \A i \in 1 .. Len(d) : e[i] = Line!Entry(d[i], m[i])
    BY <1>1, EntriesAre
  <1>3. PICK d2 : d2 = Append(SubSeq(d, k + 1, Len(d)), x)
    OBVIOUS
  <1>4. PICK m2 : m2 = Append(SubSeq(m, k + 1, Len(m)), v)
    OBVIOUS
  <1>5. PICK z : z = Line!Entry(x, v)
    OBVIOUS
  <1>6. PICK e2 : e2 = Append(SubSeq(e, k + 1, Len(e)), z)
    OBVIOUS
  <1> DEFINE n == Len(d) - k
  <1>7. n \in Nat /\ z \in Step
    BY <1>2, <1>5, EntryIsStep
  <1>8. /\ d2 \in Seq(BOOLEAN) /\ Len(d2) = n + 1 /\ d2[n + 1] = x
        /\ \A i \in 1 .. n : d2[i] = d[k + i]
    <2>1. PICK r : r = SubSeq(d, k + 1, Len(d))
      OBVIOUS
    <2>2. r \in Seq(BOOLEAN) /\ Len(r) = n /\ \A i \in 1 .. n : r[i] = d[k + i]
      BY <2>1, Kept
    <2> QED BY <1>3, <2>1, <2>2
  <1>9. /\ m2 \in Seq(Mesh) /\ Len(m2) = n + 1 /\ m2[n + 1] = v
        /\ \A i \in 1 .. n : m2[i] = m[k + i]
    <2>1. PICK r : r = SubSeq(m, k + 1, Len(m))
      OBVIOUS
    <2>2. r \in Seq(Mesh) /\ Len(r) = n /\ \A i \in 1 .. n : r[i] = m[k + i]
      BY <2>1, Kept
    <2> QED BY <1>4, <2>1, <2>2
  <1>10. /\ e2 \in Seq(Step) /\ Len(e2) = n + 1 /\ e2[n + 1] = z
         /\ \A i \in 1 .. n : e2[i] = e[k + i]
    <2>1. PICK r : r = SubSeq(e, k + 1, Len(e))
      OBVIOUS
    <2>2. r \in Seq(Step) /\ Len(r) = n /\ \A i \in 1 .. n : r[i] = e[k + i]
      BY <1>2, <2>1, Kept
    <2> QED BY <1>6, <1>7, <2>1, <2>2
  <1>11. PICK f : f = Entries(d2, m2)
    OBVIOUS
  <1>12. /\ f \in Seq(Step) /\ Len(f) = n + 1
         /\ \A i \in 1 .. n + 1 : f[i] = Line!Entry(d2[i], m2[i])
    <2>1. Len(d2) = Len(m2)
      BY <1>8, <1>9, Zenon
    <2>2. /\ f \in Seq(Step) /\ Len(f) = Len(d2)
          /\ \A i \in 1 .. Len(d2) : f[i] = Line!Entry(d2[i], m2[i])
      BY <1>8, <1>9, <1>11, <2>1, EntriesAre
    <2> QED BY <2>2, <1>8
  <1>13. ASSUME NEW i \in 1 .. n + 1 PROVE f[i] = e2[i]
    <2>1. CASE i = n + 1
      BY <1>5, <1>8, <1>9, <1>10, <1>12, <2>1, Zenon
    <2>2. CASE i # n + 1
      <3>1. i \in 1 .. n /\ k + i \in 1 .. Len(d)
        BY <1>2, <1>7, <2>2
      <3> QED BY <1>2, <1>8, <1>9, <1>10, <1>12, <3>1, Zenon
    <2> QED BY <2>1, <2>2
  <1> HIDE DEF n
  <1>14. f = e2
    BY <1>10, <1>12, <1>13, SeqEqual
  <1> QED BY <1>1, <1>3, <1>4, <1>5, <1>6, <1>11, <1>14

\* Popping both vectors pops their entry.
LEMMA EntriesPopped ==
  ASSUME NEW d \in Seq(BOOLEAN), NEW m \in Seq(Mesh), Len(d) = Len(m), d # <<>>, NEW e, e = Entries(d, m)
  PROVE  /\ Entries(Front(d), Front(m)) = SubSeq(e, 1, Len(e) - 1)
         /\ e[Len(e)] = Line!Entry(Last(d), Last(m)) /\ e # <<>>
  <1>1. /\ e \in Seq(Step) /\ Len(e) = Len(d) /\ Len(d) \in Nat
        /\ \A i \in 1 .. Len(d) : e[i] = Line!Entry(d[i], m[i])
    BY EntriesAre
  <1>2. /\ Front(d) \in Seq(BOOLEAN) /\ Len(Front(d)) = Len(d) - 1
        /\ \A i \in 1 .. Len(d) - 1 : Front(d)[i] = d[i]
        /\ Len(d) >= 1
    BY Popped
  <1>3. m # <<>>
    BY <1>1, <1>2
  <1>4. /\ Front(m) \in Seq(Mesh) /\ Len(Front(m)) = Len(d) - 1
        /\ \A i \in 1 .. Len(d) - 1 : Front(m)[i] = m[i]
    BY <1>3, Popped
  <1>5. PICK f : f = Entries(Front(d), Front(m))
    OBVIOUS
  <1>6. /\ f \in Seq(Step) /\ Len(f) = Len(d) - 1
        /\ \A i \in 1 .. Len(d) - 1 : f[i] = Line!Entry(Front(d)[i], Front(m)[i])
    <2>1. Len(Front(d)) = Len(Front(m))
      BY <1>2, <1>4, Zenon
    <2>2. /\ f \in Seq(Step) /\ Len(f) = Len(Front(d))
          /\ \A i \in 1 .. Len(Front(d)) : f[i] = Line!Entry(Front(d)[i], Front(m)[i])
      BY <1>2, <1>4, <1>5, <2>1, EntriesAre
    <2> QED BY <1>2, <2>2
  <1>7. PICK k : k = Len(d) - 1
    OBVIOUS
  <1>8. PICK g : g = SubSeq(e, 1, k)
    OBVIOUS
  <1>9. k \in Nat /\ g \in Seq(Step) /\ Len(g) = k /\ \A i \in 1 .. k : g[i] = e[i]
    BY <1>1, <1>2, <1>7, <1>8
  <1>10. ASSUME NEW i \in 1 .. k PROVE f[i] = g[i]
    <2>1. i \in 1 .. Len(d) - 1 /\ i \in 1 .. Len(d)
      BY <1>1, <1>7
    <2> QED BY <1>1, <1>2, <1>4, <1>6, <1>9, <2>1, Zenon
  <1>11. f = g
    BY <1>6, <1>7, <1>9, <1>10, SeqEqual
  <1>12. e[Len(e)] = Line!Entry(Last(d), Last(m))
    <2>1. Len(d) \in 1 .. Len(d)
      BY <1>1, <1>2
    <2> QED BY <1>1, <2>1, Zenon DEF Last
  <1>13. e # <<>>
    BY <1>1, <1>2
  <1> QED BY <1>1, <1>5, <1>7, <1>8, <1>11, <1>12, <1>13, Zenon

\* The redo vectors, read from the top.
LEMMA ReverseIs ==
  ASSUME NEW S, NEW e \in Seq(S), NEW r, r = Reverse(e)
  PROVE  /\ r \in Seq(S) /\ Len(r) = Len(e)
         /\ \A i \in 1 .. Len(e) : r[i] = e[(Len(e) - i) + 1]
  <1>1. Len(e) \in Nat /\ r = [i \in 1 .. Len(e) |-> e[(Len(e) - i) + 1]]
    BY DEF Reverse
  <1>2. ASSUME NEW i \in 1 .. Len(e) PROVE e[(Len(e) - i) + 1] \in S
    <2>1. (Len(e) - i) + 1 \in 1 .. Len(e)
      BY <1>1
    <2> QED BY <2>1
  <1>3. r \in Seq(S)
    BY <1>1, <1>2, IsASeq
  <1>4. Len(r) = Len(e)
    BY <1>1
  <1> QED BY <1>1, <1>3, <1>4, Zenon

\* What undo pushes is the nearest entry ahead.
LEMMA AheadPushed ==
  ASSUME NEW d \in Seq(BOOLEAN), NEW m \in Seq(Mesh), Len(d) = Len(m), NEW x \in BOOLEAN, NEW v \in Mesh
  PROVE  Reverse(Entries(Append(d, x), Append(m, v))) = <<Line!Entry(x, v)>> \o Reverse(Entries(d, m))
  <1> DEFINE n == Len(d)
  <1>1. PICK e : e = Entries(d, m)
    OBVIOUS
  <1>2. /\ e \in Seq(Step) /\ Len(e) = n /\ n \in Nat
        /\ \A i \in 1 .. n : e[i] = Line!Entry(d[i], m[i])
    BY <1>1, EntriesAre
  <1>3. PICK r : r = Reverse(e)
    OBVIOUS
  <1>4. r \in Seq(Step) /\ Len(r) = n /\ \A i \in 1 .. n : r[i] = e[(n - i) + 1]
    BY <1>2, <1>3, ReverseIs
  <1>5. PICK d2 : d2 = Append(d, x)
    OBVIOUS
  <1>6. PICK m2 : m2 = Append(m, v)
    OBVIOUS
  <1>7. d2 \in Seq(BOOLEAN) /\ Len(d2) = n + 1 /\ d2[n + 1] = x /\ \A i \in 1 .. n : d2[i] = d[i]
    BY <1>5
  <1>8. m2 \in Seq(Mesh) /\ Len(m2) = n + 1 /\ m2[n + 1] = v /\ \A i \in 1 .. n : m2[i] = m[i]
    BY <1>6
  <1>9. PICK f : f = Entries(d2, m2)
    OBVIOUS
  <1>10. /\ f \in Seq(Step) /\ Len(f) = n + 1
         /\ \A i \in 1 .. n + 1 : f[i] = Line!Entry(d2[i], m2[i])
    <2>1. Len(d2) = Len(m2)
      BY <1>7, <1>8, Zenon
    <2>2. /\ f \in Seq(Step) /\ Len(f) = Len(d2)
          /\ \A i \in 1 .. Len(d2) : f[i] = Line!Entry(d2[i], m2[i])
      BY <1>7, <1>8, <1>9, <2>1, EntriesAre
    <2> QED BY <2>2, <1>7
  <1>11. PICK q : q = Reverse(f)
    OBVIOUS
  <1>12. q \in Seq(Step) /\ Len(q) = n + 1 /\ \A i \in 1 .. n + 1 : q[i] = f[((n + 1) - i) + 1]
    <2>1. f \in Seq(Step)
      BY <1>10
    <2>2. /\ q \in Seq(Step) /\ Len(q) = Len(f)
          /\ \A i \in 1 .. Len(f) : q[i] = f[(Len(f) - i) + 1]
      BY ONLY <2>1, <1>11, ReverseIs
    <2> QED BY ONLY <2>2, <1>10, Zenon
  <1>13. PICK z : z = Line!Entry(x, v)
    OBVIOUS
  <1>14. z \in Step
    BY <1>13, EntryIsStep
  <1>15. PICK p : p = <<z>> \o r
    OBVIOUS
  <1>16. /\ p \in Seq(Step) /\ Len(p) = n + 1 /\ p[1] = z
         /\ \A i \in 2 .. n + 1 : p[i] = r[i - 1]
    BY <1>2, <1>4, <1>14, <1>15
  <1>17. ASSUME NEW i \in 1 .. n + 1 PROVE q[i] = p[i]
    <2>1. CASE i = 1
      <3>1. ((n + 1) - i) + 1 = n + 1 /\ n + 1 \in 1 .. n + 1
        BY <1>2, <2>1
      <3> QED BY <1>7, <1>8, <1>10, <1>12, <1>13, <1>16, <2>1, <3>1, Zenon
    <2>2. CASE i # 1
      <3>1. PICK j : j = ((n + 1) - i) + 1
        OBVIOUS
      <3>2. i \in 2 .. n + 1 /\ i - 1 \in 1 .. n /\ j = (n - (i - 1)) + 1 /\ j \in 1 .. n /\ j \in 1 .. n + 1
        BY <1>2, <2>2, <3>1
      <3>3. q[i] = f[j] /\ p[i] = r[i - 1]
        BY <1>12, <1>16, <3>1, <3>2, Zenon
      <3>4. r[i - 1] = e[j]
        BY <1>4, <3>2, Zenon
      <3>5. f[j] = Line!Entry(d2[j], m2[j]) /\ d2[j] = d[j] /\ m2[j] = m[j] /\ e[j] = Line!Entry(d[j], m[j])
        BY <1>2, <1>7, <1>8, <1>10, <3>2, Zenon
      <3> QED BY <3>3, <3>4, <3>5, Zenon
    <2> QED BY <2>1, <2>2
  <1> HIDE DEF n
  <1>18. q = p
    BY <1>12, <1>16, <1>17, SeqEqual
  <1> QED BY <1>1, <1>3, <1>5, <1>6, <1>9, <1>11, <1>13, <1>15, <1>18, Zenon

\* What redo pops was the nearest entry ahead.
LEMMA AheadPopped ==
  ASSUME NEW d \in Seq(BOOLEAN), NEW m \in Seq(Mesh), Len(d) = Len(m), d # <<>>,
         NEW r, r = Reverse(Entries(d, m))
  PROVE  /\ r # <<>> /\ Head(r) = Line!Entry(Last(d), Last(m))
         /\ Tail(r) = Reverse(Entries(Front(d), Front(m)))
  <1>1. /\ Front(d) \in Seq(BOOLEAN) /\ Len(Front(d)) = Len(d) - 1 /\ Last(d) \in BOOLEAN
        /\ \A i \in 1 .. Len(d) - 1 : Front(d)[i] = d[i]
        /\ Len(d) \in Nat /\ Len(d) >= 1
    BY Popped
  <1>2. m # <<>>
    BY <1>1
  <1>3. /\ Front(m) \in Seq(Mesh) /\ Len(Front(m)) = Len(d) - 1 /\ Last(m) \in Mesh
        /\ \A i \in 1 .. Len(d) - 1 : Front(m)[i] = m[i]
    BY <1>2, Popped
  <1>4. d = Append(Front(d), Last(d))
    <2>1. PICK t : t = Append(Front(d), Last(d))
      OBVIOUS
    <2>2. /\ t \in Seq(BOOLEAN) /\ Len(t) = Len(d) /\ t[Len(d)] = Last(d)
          /\ \A i \in 1 .. Len(d) - 1 : t[i] = Front(d)[i]
      BY <1>1, <2>1
    <2>3. ASSUME NEW i \in 1 .. Len(d) PROVE t[i] = d[i]
      BY <1>1, <2>2 DEF Last
    <2> QED BY <2>1, <2>2, <2>3, SeqEqual
  <1>5. m = Append(Front(m), Last(m))
    <2>1. PICK t : t = Append(Front(m), Last(m))
      OBVIOUS
    <2>2. /\ t \in Seq(Mesh) /\ Len(t) = Len(m) /\ t[Len(m)] = Last(m)
          /\ \A i \in 1 .. Len(m) - 1 : t[i] = Front(m)[i]
      BY <1>1, <1>3, <2>1
    <2>3. ASSUME NEW i \in 1 .. Len(m) PROVE t[i] = m[i]
      BY <1>1, <1>3, <2>2 DEF Last
    <2> QED BY <2>1, <2>2, <2>3, SeqEqual
  <1>6. PICK q : q = Reverse(Entries(Front(d), Front(m)))
    OBVIOUS
  <1>7. PICK z : z = Line!Entry(Last(d), Last(m))
    OBVIOUS
  <1>8. r = <<z>> \o q
    BY <1>1, <1>3, <1>4, <1>5, <1>6, <1>7, AheadPushed, Zenon
  <1>9. q \in Seq(Step)
    BY <1>1, <1>3, <1>6, EntriesAre, ReverseIs
  <1>10. z \in Step
    BY <1>1, <1>3, <1>7, EntryIsStep
  <1>11. r # <<>> /\ Head(r) = z /\ Tail(r) = q
    BY <1>8, <1>9, <1>10
  <1> QED BY <1>6, <1>7, <1>11

\* make_room and the push behind it forget the oldest entries only.
LEMMA LogRemembers ==
  ASSUME HistoryIsBounded, NEW drag \in BOOLEAN, NEW mesh \in Mesh, ~Denied(mesh.bytes),
         LogEntry(drag, mesh)
  PROVE  Line!Remembers(Entries(ops, before), Line!Entry(drag, mesh))
  <1>1. ops \in Seq(BOOLEAN) /\ before \in Seq(Mesh) /\ Len(ops) = Len(before) /\ Len(ops) \in Nat
    BY DEF HistoryIsBounded, UndoTypeOK
  <1>2. PICK k : k = Evicted(mesh.bytes)
    OBVIOUS
  <1>3. k \in 0 .. Len(ops)
    BY <1>1, <1>2, MeshBytes, RoomIsMade
  <1>4. /\ ops' = Append(SubSeq(ops, k + 1, Len(ops)), drag)
        /\ before' = Append(SubSeq(before, k + 1, Len(before)), mesh)
    BY <1>2 DEF LogEntry
  <1>5. PICK e : e = Entries(ops, before)
    OBVIOUS
  <1>6. Len(e) = Len(ops)
    BY <1>1, <1>5, EntriesAre
  <1>7. Entries(ops', before') = Append(SubSeq(e, k + 1, Len(e)), Line!Entry(drag, mesh))
    BY <1>1, <1>3, <1>4, <1>5, EntriesLogged, Zenon
  <1>8. k + 1 \in 1 .. (Len(e) + 1)
    BY <1>1, <1>3, <1>6
  <1>9. \E n \in 1 .. (Len(e) + 1) :
           Entries(ops', before') = Append(SubSeq(e, n, Len(e)), Line!Entry(drag, mesh))
    BY <1>7, <1>8
  <1> QED BY <1>5, <1>9, Zenon DEF Line!Remembers

Past == Entries(ops, before)
Future == Reverse(Entries(redoOps, redoAfter))

\* NoMesh is none of the meshes, so a preview that is there is displayed.
LEMMA PreviewIsShown ==
  ASSUME NEW mesh \in Mesh PROVE mesh # NoMesh
  BY UndoAssumption DEF Mesh, NoMesh

LEMMA LineTypes ==
  ASSUME HistoryIsBounded
  PROVE  /\ ops \in Seq(BOOLEAN) /\ before \in Seq(Mesh) /\ Len(ops) = Len(before)
         /\ redoOps \in Seq(BOOLEAN) /\ redoAfter \in Seq(Mesh) /\ Len(redoOps) = Len(redoAfter)
         /\ base \in Mesh /\ preview \in Mesh \cup {NoMesh} /\ View \in Mesh /\ UndoTypeOK
  BY ViewIsMesh DEF HistoryIsBounded, UndoTypeOK

\* Nothing is ahead once a push has cleared the redo vectors.
LEMMA ClearedAhead == ASSUME ClearRedo PROVE Future' = <<>>
  BY NoEntries, Zenon DEF ClearRedo, Future

\* The calls of the editor, one by one, as steps along the line.
LEMMA EditSteps ==
  ASSUME HistoryIsBounded, Transform \/ Reshape \/ CancelPreview
  PROVE  Line!Edit \/ Line!Drag
  <1>1. View' \in Mesh /\ base' = base
    <2>1. base' = base /\ base \in Mesh /\ preview' \in Mesh \cup {NoMesh}
      BY LineTypes DEF Transform, Reshape, CancelPreview
    <2> QED BY <2>1 DEF View
  <1>2. PICK drag \in BOOLEAN : Push(drag, View)
    BY DEF Transform, Reshape, CancelPreview
  <1>3. Future' = <<>> /\ outcome' = "edit"
    BY <1>2, ClearedAhead DEF Push
  <1>4. CASE ~Denied(View.bytes) /\ LogEntry(drag, View)
    <2>1. Line!Remembers(Past, Line!Entry(drag, View))
      BY <1>4, LineTypes, LogRemembers DEF Past
    <2> QED BY <1>1, <1>2, <1>3, <2>1, Zenon DEF Line!Edit, Past, Future
  <1>5. CASE Coalesces(drag) /\ UNCHANGED <<ops, before, retained>>
    <2>1. ops # <<>> /\ Last(ops) = TRUE
      BY <1>5, LineTypes, Popped DEF Coalesces
    <2>2. PICK e : e = Past
      OBVIOUS
    <2>3. e # <<>> /\ e[Len(e)] = Line!Entry(Last(ops), Last(before))
      BY <2>1, <2>2, LineTypes, EntriesPopped DEF Past
    <2>4. e[Len(e)].drag
      BY <2>1, <2>3 DEF Line!Entry
    <2>5. Past' = Past
      BY <1>5 DEF Past
    <2> QED BY <1>1, <1>3, <2>2, <2>3, <2>4, <2>5, Zenon DEF Line!Drag, Line!LastOf, Past, Future
  <1> QED BY <1>2, <1>4, <1>5 DEF Push

LEMMA CommitSteps == ASSUME HistoryIsBounded, CommitExact PROVE Line!LoggedCommit
  <1>1. base' = View /\ View' = View
    BY DEF CommitExact, Accept, View
  <1>2. Future' = <<>> /\ outcome' = "edit"
    BY ClearedAhead DEF CommitExact, Push
  <1>3. ~Denied(base.bytes) /\ LogEntry(FALSE, base)
    BY DEF CommitExact, Push, Coalesces
  <1>4. Line!Remembers(Past, Line!Entry(FALSE, base))
    BY <1>3, LineTypes, LogRemembers DEF Past
  <1> QED BY <1>1, <1>2, <1>4, Zenon DEF Line!LoggedCommit, Past, Future

LEMMA UndoSteps == ASSUME HistoryIsBounded, Undo PROVE Line!Back
  <1>1. /\ ops # <<>> /\ preview' = Last(before) /\ ops' = Front(ops) /\ before' = Front(before)
        /\ redoOps' = Append(redoOps, Last(ops)) /\ redoAfter' = Append(redoAfter, View)
        /\ outcome' = "undo" /\ base' = base
    BY DEF Undo
  <1>2. PICK e : e = Past
    OBVIOUS
  <1>3. /\ Entries(Front(ops), Front(before)) = SubSeq(e, 1, Len(e) - 1)
        /\ e[Len(e)] = Line!Entry(Last(ops), Last(before)) /\ e # <<>>
    BY <1>1, <1>2, LineTypes, EntriesPopped DEF Past
  <1>4. Last(ops) \in BOOLEAN /\ Last(before) \in Mesh
    <2>1. before # <<>>
      BY <1>1, LineTypes
    <2> QED BY <1>1, <2>1, LineTypes, Popped
  <1>5. View' = Last(before)
    BY <1>1, <1>4, PreviewIsShown DEF View
  <1>6. Past' = SubSeq(e, 1, Len(e) - 1)
    BY <1>1, <1>3 DEF Past
  <1>7. Future' = <<Line!Entry(Last(ops), View)>> \o Future
    BY <1>1, <1>4, LineTypes, AheadPushed DEF Future
  <1>8. e[Len(e)].view = Last(before) /\ e[Len(e)].drag = Last(ops)
    <2>1. PICK z : z = Line!Entry(Last(ops), Last(before))
      OBVIOUS
    <2>2. z.view = Last(before) /\ z.drag = Last(ops)
      BY <2>1, EntryFields, Zenon
    <2> QED BY <1>3, <2>1, <2>2
  <1> QED BY <1>1, <1>2, <1>3, <1>5, <1>6, <1>7, <1>8, Zenon DEF Line!Back, Line!LastOf, Past, Future

LEMMA RedoSteps == ASSUME HistoryIsBounded, Redo PROVE Line!Forward
  <1>1. /\ redoOps # <<>> /\ ~Denied(View.bytes) /\ LogEntry(Last(redoOps), View)
        /\ preview' = Last(redoAfter)
        /\ redoOps' = Front(redoOps) /\ redoAfter' = Front(redoAfter)
        /\ outcome' = "redo" /\ base' = base
    BY DEF Redo
  <1>2. Last(redoOps) \in BOOLEAN /\ Last(redoAfter) \in Mesh
    <2>1. redoAfter # <<>>
      BY <1>1, LineTypes
    <2> QED BY <1>1, <2>1, LineTypes, Popped
  <1>3. PICK r : r = Future
    OBVIOUS
  <1>4. /\ r # <<>> /\ Head(r) = Line!Entry(Last(redoOps), Last(redoAfter))
        /\ Tail(r) = Reverse(Entries(Front(redoOps), Front(redoAfter)))
    BY <1>1, <1>3, LineTypes, AheadPopped DEF Future
  <1>5. View' = Last(redoAfter)
    BY <1>1, <1>2, PreviewIsShown DEF View
  <1>6. Line!Remembers(Past, Line!Entry(Last(redoOps), View))
    BY <1>1, <1>2, LineTypes, LogRemembers DEF Past
  <1>7. Head(r).view = Last(redoAfter) /\ Head(r).drag = Last(redoOps)
    BY <1>4, EntryFields, Zenon
  <1>8. Future' = Tail(r)
    BY <1>1, <1>4 DEF Future
  <1> QED BY <1>1, <1>3, <1>4, <1>5, <1>6, <1>7, <1>8, Zenon DEF Line!Forward, Past, Future

LEMMA ReplaceSteps ==
  ASSUME HistoryIsBounded, Commit \/ Cancel \/ SwapExact
  PROVE  Line!Replace
  <1>1. UNCHANGED <<ops, before, redoOps, redoAfter>> /\ outcome' = "replace" /\ preview' = NoMesh
    BY DEF Commit, Accept, Cancel, SwapExact, stack
  <1>2. View' = base'
    BY <1>1 DEF View
  <1>3. base' \in Mesh /\ base' \in {base, View, View'}
    BY <1>2, LineTypes DEF Commit, Accept, Cancel, SwapExact
  <1>4. Past' = Past /\ Future' = Future
    BY <1>1 DEF Past, Future
  <1> QED BY <1>1, <1>2, <1>3, <1>4, Zenon DEF Line!Replace, Past, Future

LEMMA RefuseSteps ==
  ASSUME HistoryIsBounded, ApplyDenied \/ RedoDenied \/ NothingThere
  PROVE  Line!Refuse
  <1>1. UNCHANGED <<ops, before, base, preview>> /\ outcome' \in {"budget", "empty"}
    BY DEF ApplyDenied, PushDenied, RedoDenied, NothingThere, stack
  <1>2. View' = View /\ Past' = Past
    BY <1>1 DEF View, Past
  <1>3. \/ outcome' \in {"budget", "empty"} /\ Future' = Future
        \/ outcome' = "budget" /\ Future' = <<>>
    <2>1. CASE ApplyDenied
      BY <2>1, ClearedAhead DEF ApplyDenied, PushDenied
    <2>2. CASE RedoDenied \/ NothingThere
      <3>1. Future' = Future
        BY <2>2 DEF RedoDenied, NothingThere, stack, Future
      <3> QED BY <1>1, <3>1
    <2> QED BY <2>1, <2>2
  <1> QED BY <1>1, <1>2, <1>3, Zenon DEF Line!Refuse, Past, Future

LEMMA ClearSteps == ASSUME Clear PROVE Line!Clear
  <1>1. /\ ops' = <<>> /\ before' = <<>> /\ ClearRedo /\ outcome' = "clear"
        /\ UNCHANGED <<base, preview>>
    BY DEF Clear
  <1>2. Past' = <<>> /\ Future' = <<>>
    BY <1>1, NoEntries, ClearedAhead DEF Past
  <1>3. View' = View
    BY <1>1 DEF View
  <1> QED BY <1>1, <1>2, <1>3, Zenon DEF Line!Clear, Past, Future

LEMMA LineStep ==
  HistoryIsBounded /\ [UndoNext]_undoVars => [Line!TimelineNext]_(Line!timeline)
  <1> SUFFICES ASSUME HistoryIsBounded, UndoNext PROVE Line!TimelineNext
    <2>1. ASSUME UNCHANGED undoVars PROVE UNCHANGED Line!timeline
      <3>1. UNCHANGED <<ops, before, redoOps, redoAfter, base, preview, outcome>>
        BY <2>1 DEF undoVars, stack
      <3> QED BY <3>1 DEF Line!timeline, View
    <2> QED BY <2>1
  <1>1. CASE Transform \/ Reshape \/ CancelPreview
    BY <1>1, EditSteps DEF Line!TimelineNext
  <1>2. CASE CommitExact
    BY <1>2, CommitSteps DEF Line!TimelineNext
  <1>3. CASE Commit \/ Cancel \/ SwapExact
    BY <1>3, ReplaceSteps DEF Line!TimelineNext
  <1>4. CASE Undo
    BY <1>4, UndoSteps DEF Line!TimelineNext
  <1>5. CASE Redo
    BY <1>5, RedoSteps DEF Line!TimelineNext
  <1>6. CASE ApplyDenied \/ RedoDenied \/ NothingThere
    BY <1>6, RefuseSteps DEF Line!TimelineNext
  <1>7. CASE Clear
    BY <1>7, ClearSteps DEF Line!TimelineNext
  <1> QED BY <1>1, <1>2, <1>3, <1>4, <1>5, <1>6, <1>7 DEF UndoNext

(* The two pairs of vectors with their coalescing, eviction and denial     *)
(* implement the line of views: undo and redo walk it entry by entry, and  *)
(* only the oldest entries and what an edit overtakes are ever forgotten.  *)
THEOREM UndoImplementsTimeline == UndoSpec => UndoFollowsTheLine
  <1>1. UndoInit => Line!TimelineInit
    <2> SUFFICES ASSUME UndoInit PROVE Line!TimelineInit
      OBVIOUS
    <2>1. /\ ops = <<>> /\ before = <<>> /\ redoOps = <<>> /\ redoAfter = <<>>
          /\ base \in Mesh /\ View = base /\ outcome = "none"
      BY DEF UndoInit, View
    <2>2. Past = <<>> /\ Future = <<>>
      BY <2>1, NoEntries DEF Past, Future
    <2> QED BY <2>1, <2>2, Zenon DEF Line!TimelineInit, Past, Future
  <1> QED BY <1>1, LineStep, HistoryStaysBounded, PTL DEF UndoSpec, UndoFollowsTheLine, Line!TimelineSpec

=============================================================================
