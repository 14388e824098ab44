--------------------------- MODULE EditorSession ---------------------------
(***************************************************************************)
(* The editor-world thread (crates/app/src/session.rs) and the scene files *)
(* it shares with other programs: commands, the watcher poll and the frame *)
(* in turn; saves through a temporary file; hot reload of the watched file *)
(* with the suppression of the session's own saves; and a process that     *)
(* dies between two steps.                                                 *)
(*                                                                         *)
(* A body stands for the whole content of a scene: what a file holds, or   *)
(* what the world would save.  A stamp stands for a file's (mtime, size):  *)
(* two writes never leave the same one.                                    *)
(***************************************************************************)
EXTENDS Integers, FiniteSets

CONSTANTS
    Files,      \* scene files
    Watched,    \* the one the session loads at startup and watches
    Counts,     \* entity counts of scenes
    MaxBodies,  \* bound: bodies that edits, frames and other programs make
    MaxSaves,   \* bound: saves begun
    MaxLoads,   \* bound: load_scene commands
    MaxCrashes  \* bound: times the process dies

ASSUME SessionAssumption ==
    /\ Watched \in Files /\ "none" \notin Files /\ Counts \subseteq Nat /\ Counts # {}
    /\ MaxBodies \in Nat /\ MaxSaves \in Nat /\ MaxLoads \in Nat /\ MaxCrashes \in Nat

Absent == -2    \* no such file
Broken == -1    \* not a whole scene
Empty == 0      \* the scene of a new session

None == [file |-> "none", stamp |-> 0]
NoWatch == -1

VARIABLES
    file,        \* per file: its body and stamp
    tmp,         \* per file: the body of its .tmp sibling
    pc,          \* where the thread is
    target,      \* the file being saved
    world,       \* the body of the world
    version,     \* EditorSession::version
    last_saved,  \* the fingerprint of the last save
    last_mtime,  \* FileWatch::last_mtime, or NoWatch
    bodies, saves, loads, crashes,  \* how often each bounded thing happened
    clock,       \* the last stamp given
    told,        \* history: what this process published
    drift,       \* history: the body frames alone moved the world to since, if any
    offered,     \* history: the stamps of the watched file the session read
    blind,       \* history: the stamps written in one of the two blind windows
    author,      \* history: who wrote each file
    eclipsed     \* history: the watched file was saved, then another, and no poll since

disk == <<file, tmp, clock, author>>
counters == <<bodies, saves, loads, crashes>>
published == <<told, drift>>
session == <<world, version, last_saved, last_mtime, published>>
history == <<offered, blind, eclipsed>>
sessionVars == <<disk, counters, session, history, pc, target>>

SessionInit ==
    /\ file = [f \in Files |-> [body |-> Empty, stamp |-> 0]]
    /\ tmp = [f \in Files |-> Absent]
    /\ clock = 0 /\ author = [f \in Files |-> "outside"]
    /\ bodies = 0 /\ saves = 0 /\ loads = 0 /\ crashes = 0
    /\ pc = "startup" /\ target = Watched
    /\ world = Empty /\ version = 0
    /\ last_saved = None /\ last_mtime = NoWatch
    /\ told = {} /\ drift = Absent
    /\ offered = {} /\ blind = {} /\ eclipsed = FALSE

-----------------------------------------------------------------------------
Whole(body) == body >= Empty
Max2(a, b) == IF a > b THEN a ELSE b

\* publish_state.
Publish(v, body) == /\ told' = told \cup {[version |-> v, body |-> body]}
                    /\ drift' = Absent

BugForget(body) ==
    \E count \in Counts :
        /\ world' = body
        /\ version' = Max2(count, version + 1)
        /\ Publish(version', body)
        /\ last_saved' = None /\ UNCHANGED last_mtime

BugRecount(body) ==
    \E count \in Counts :
        /\ world' = body
        /\ version' = count
        /\ Publish(version', body)
        /\ UNCHANGED <<last_saved, last_mtime>>

\* load_scene: a fresh session takes the scene; the fingerprint survives.
Replace(body) ==
    \E count \in Counts :
        /\ world' = body
        /\ version' = Max2(count, version + 1)
        /\ Publish(version', body)
        /\ UNCHANGED <<last_saved, last_mtime>>

\* load_scene_file on the watched or another file; an error changes nothing.
ReadFile(f) ==
    /\ IF Whole(file[f].body) THEN Replace(file[f].body) ELSE UNCHANGED session
    /\ offered' = IF f = Watched THEN offered \cup {file[f].stamp} ELSE offered
    /\ UNCHANGED <<blind, eclipsed>>

-----------------------------------------------------------------------------
(* editor_world_loop, before the loop.                                     *)

Startup ==
    /\ pc = "startup"
    /\ IF Whole(file[Watched].body)
       THEN \E count \in Counts :
                /\ world' = file[Watched].body /\ version' = Max2(count, 1)
                /\ Publish(version', world')
       ELSE Publish(version, world) /\ UNCHANGED <<world, version>>
    /\ offered' = offered \cup {file[Watched].stamp}
    /\ pc' = "baseline"
    /\ UNCHANGED <<disk, counters, target, last_saved, last_mtime, blind, eclipsed>>

\* watched_scene_path and FileWatch::new: what is on disk now counts as seen.
Baseline ==
    /\ pc = "baseline"
    /\ last_mtime' = IF file[Watched].body = Absent THEN NoWatch ELSE file[Watched].stamp
    /\ pc' = "commands"
    /\ UNCHANGED <<disk, counters, target, world, version, last_saved, published, history>>

-----------------------------------------------------------------------------
(* Commands.                                                               *)

\* A command that changes the world.
Edit ==
    /\ pc = "commands" /\ bodies < MaxBodies
    /\ bodies' = bodies + 1
    /\ world' = bodies' /\ version' = version + 1
    /\ Publish(version', world')
    /\ UNCHANGED <<disk, saves, loads, crashes, history, pc, target, last_saved, last_mtime>>

Load(f) ==
    /\ pc = "commands" /\ loads < MaxLoads
    /\ loads' = loads + 1
    /\ ReadFile(f)
    /\ UNCHANGED <<disk, bodies, saves, crashes, pc, target>>

BugSaveBegin(f) ==
    /\ pc = "commands" /\ saves < MaxSaves
    /\ saves' = saves + 1
    /\ target' = f
    /\ clock' = clock + 1
    /\ file' = [file EXCEPT ![f] = [body |-> Broken, stamp |-> clock']]
    /\ author' = [author EXCEPT ![f] = "session"]
    /\ tmp' = [tmp EXCEPT ![f] = Broken] /\ pc' = "fill"
    /\ UNCHANGED <<bodies, loads, crashes, session, history>>

\* save_scene_file: atomic_write creates the temporary file, fills it, renames
\* it, and then the session takes the file's fingerprint.  Any of the first
\* three may fail; the command then reports an error.
SaveBegin(f) ==
    /\ pc = "commands" /\ saves < MaxSaves
    /\ saves' = saves + 1
    /\ target' = f
    /\ \/ tmp' = [tmp EXCEPT ![f] = Broken] /\ pc' = "fill"
       \/ UNCHANGED <<tmp, pc>>
    /\ UNCHANGED <<file, clock, author, bodies, loads, crashes, session, history>>

SaveFill ==
    /\ pc = "fill"
    /\ \/ tmp' = [tmp EXCEPT ![target] = world] /\ pc' = "rename"
       \/ UNCHANGED tmp /\ pc' = "commands"
    /\ UNCHANGED <<file, clock, author, counters, session, history, target>>

SaveRename ==
    /\ pc = "rename"
    /\ \/ /\ file' = [file EXCEPT ![target] = [body |-> tmp[target], stamp |-> clock + 1]]
          /\ tmp' = [tmp EXCEPT ![target] = Absent]
          /\ clock' = clock + 1
          /\ author' = [author EXCEPT ![target] = "session"]
          /\ pc' = "fingerprint"
       \/ pc' = "commands" /\ UNCHANGED disk
    /\ UNCHANGED <<counters, session, history, target>>

SaveFingerprint ==
    /\ pc = "fingerprint"
    /\ last_saved' = [file |-> target, stamp |-> file[target].stamp]
    /\ eclipsed' = (target # Watched /\ (eclipsed \/ last_saved.file = Watched))
    /\ pc' = "commands"
    /\ UNCHANGED <<disk, counters, world, version, last_mtime, published, offered, blind, target>>

CommandsDone ==
    /\ pc = "commands"
    /\ pc' = IF last_mtime = NoWatch THEN "frame" ELSE "poll"
    /\ UNCHANGED <<disk, counters, session, history, target>>

-----------------------------------------------------------------------------
(* The watcher.                                                            *)

\* FileWatch::poll.  A file that went away is remembered as missing.
MTime == IF file[Watched].body = Absent THEN Absent ELSE file[Watched].stamp

Poll ==
    /\ pc = "poll"
    /\ last_mtime' = MTime
    /\ pc' = IF MTime # last_mtime /\ file[Watched].body # Absent THEN "compare" ELSE "frame"
    /\ UNCHANGED <<disk, counters, world, version, last_saved, published, history, target>>

BugCompare ==
    /\ pc = "compare"
    /\ IF last_saved.file = Watched
       THEN last_saved' = None /\ pc' = "frame"
       ELSE pc' = "reload" /\ UNCHANGED last_saved
    /\ UNCHANGED <<disk, counters, world, version, last_mtime, published, history, target>>

\* reload_watched_scene: the session's own save is recognised, once.
Compare ==
    /\ pc = "compare"
    /\ IF last_saved = [file |-> Watched, stamp |-> MTime]
       THEN last_saved' = None /\ pc' = "frame"
       ELSE pc' = "reload" /\ UNCHANGED last_saved
    /\ UNCHANGED <<disk, counters, world, version, last_mtime, published, history, target>>

Reload ==
    /\ pc = "reload"
    /\ ReadFile(Watched)
    /\ pc' = "frame"
    /\ UNCHANGED <<disk, counters, target>>

\* A frame that moves the world numbers and publishes it only when physics
\* moved a body, queued mutations were applied or an asset was reloaded.
Tell ==
    \/ version' = version + 1
    \/ \E count \in Counts, changed \in {0, 1} :
          version' = Max2(count, version + 1) + changed

\* tick_secs: nothing moves; the world moves and is told; or systems of the
\* frame (animation, gameplay) write what a scene shows and nobody is told.
Frame ==
    /\ pc = "frame"
    /\ pc' = "commands"
    /\ \/ UNCHANGED <<bodies, world, version, published>>
       \/ /\ bodies < MaxBodies
          /\ bodies' = bodies + 1
          /\ world' = bodies'
          /\ \/ Tell /\ Publish(version', world')
             \/ drift' = world' /\ UNCHANGED <<version, told>>
    /\ eclipsed' = FALSE
    /\ UNCHANGED <<disk, saves, loads, crashes, last_saved, last_mtime, offered, blind, target>>

-----------------------------------------------------------------------------
(* The outside.                                                            *)

\* Another program writes a scene, writes half of one, or removes the file.
OutsideWrite(f) ==
    /\ bodies < MaxBodies
    /\ bodies' = bodies + 1
    /\ clock' = clock + 1
    /\ \E body \in {bodies', Broken, Absent} :
           file' = [file EXCEPT ![f] = [body |-> body, stamp |-> clock']]
    /\ author' = [author EXCEPT ![f] = "outside"]
    /\ blind' = IF f = Watched /\ (pc = "baseline" \/ (pc = "fingerprint" /\ target = Watched))
                THEN blind \cup {clock'} ELSE blind
    /\ UNCHANGED <<tmp, saves, loads, crashes, session, offered, eclipsed, pc, target>>

\* The process dies and is started again; the files stay as they are.
Crash ==
    /\ crashes < MaxCrashes
    /\ crashes' = crashes + 1
    /\ pc' = "startup" /\ target' = Watched
    /\ world' = Empty /\ version' = 0
    /\ last_saved' = None /\ last_mtime' = NoWatch
    /\ told' = {} /\ drift' = Absent /\ eclipsed' = FALSE
    /\ UNCHANGED <<disk, bodies, saves, loads, offered, blind>>

SessionNext ==
    \/ Startup \/ Baseline
    \/ Edit \/ CommandsDone
    \/ \E f \in Files : Load(f) \/ SaveBegin(f) \/ OutsideWrite(f)
    \/ SaveFill \/ SaveRename \/ SaveFingerprint
    \/ Poll \/ Compare \/ Reload \/ Frame
    \/ Crash

SessionSpec == SessionInit /\ [][SessionNext]_sessionVars

-----------------------------------------------------------------------------
\* A scene file is never left half written by the session, wherever a save
\* fails or the process dies.
SceneFileIsWhole ==
    \A f \in Files : author[f] = "session" => Whole(file[f].body)

\* When the watcher has seen the file on disk and somebody else wrote it, the
\* session has read that very file - unless it was written between a save of
\* the watched file and its fingerprint, or between the startup load and the
\* watcher's baseline.
EditsAreNoticed ==
    pc = "commands" /\ author[Watched] = "outside" /\ last_mtime = MTime
    /\ file[Watched].body # Absent
        => file[Watched].stamp \in offered \cup blind

\* The watcher reloads the session's own bytes over the world only if another
\* file was saved between the save of the watched file and the poll.
OwnSavesStayPut ==
    [][pc = "reload" /\ pc' = "frame" /\ author[Watched] = "session" => eclipsed]_sessionVars

\* A version names one snapshot, whoever made it - a command, a load, a reload
\* by the watcher, a frame: no two differing worlds are published under it,
\* and later ones are higher.  Between two commands the current version is
\* published, so who holds it has missed no edit and no load, and the world is
\* that snapshot, or what frames alone have made of it since.
VersionTellsChange ==
    /\ \A a, b \in told : a.version = b.version => a.body = b.body
    /\ \A a \in told : a.version <= version
    /\ pc = "commands" => \E a \in told : a.version = version /\ world \in {a.body, drift}
=============================================================================
