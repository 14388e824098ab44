----------------------------- MODULE BakeCache -----------------------------
(***************************************************************************)
(* Texture bakes into a shared cache directory: bake_texture               *)
(* (crates/assets/src/bake.rs), the entries and their publication          *)
(* (bake/cache.rs), the encoder run over scratch files (bake/encoder.rs),  *)
(* its deadline (bake/process.rs) and the tool's identity, which is half   *)
(* of a cache key (bake/identity.rs).  Asset servers of one process or of  *)
(* two bake at the same time, processes die, the tool on PATH is upgraded  *)
(* or removed, and a bake's own probe, encoder or disk may fail it.  The   *)
(* removal of a file does not fail.                                        *)
(*                                                                         *)
(* A container is its two halves, each from an image by a tool: it is      *)
(* valid when both are there.  Tool 0 is the in-process writer.            *)
(***************************************************************************)
EXTENDS Integers, FiniteSets, Functions

CONSTANTS
    Servers,     \* asset servers
    Processes,
    Homes,       \* which process a server may be in
    Images,
    Tools,       \* versions of the tool, 0 for a PATH without one
    MaxBakes,    \* bound: bakes begun
    MaxFaults    \* bound: times the tool is replaced, a process dies, or a bake's
                 \* own probe, encoder or disk fails it

ASSUME BakeAssumption ==
    /\ Tools \subseteq Nat /\ Homes \subseteq [Servers -> Processes]
    /\ MaxBakes \in Nat /\ MaxFaults \in Nat

\* The content of a truncated handoff, and no image at all, are no images.
ASSUME ImagesAssumption == "empty" \notin Images /\ "none" \notin Images

VARIABLES
    home,      \* the process of each server
    tool,      \* the tool that is installed
    known,     \* IDENTITIES of each process: what it remembers of each stamp
    bake,      \* the bake each server is in, or its last one
    encoder,   \* the encoder processes that run, by the bake that spawned them
    source,    \* the <key>.tga files
    dump,      \* the <key>.tool.ktx2 files
    tmp,       \* the temporary files of store_cached
    entry,     \* the cache entries: <key>.ktx2
    begun, faults,  \* how often each bounded thing happened
    crashed,   \* history: a process has died
    met,       \* history: the servers whose bake shared its scratch files
    swapped    \* history: the keys a bake spawned another tool for than they name

scratch == <<source, dump>>
counters == <<begun, faults>>
history == <<crashed, met, swapped>>
bakeVars == <<home, tool, known, bake, encoder, scratch, tmp, entry, counters, history>>

Missing == [image |-> "none", tool |-> -1]
Nothing == [head |-> Missing, tail |-> Missing]
Container(image, t) == [head |-> [image |-> image, tool |-> t],
                        tail |-> [image |-> image, tool |-> t]]

\* Ktx2Image::from_bytes
Valid(container) == container.head # Missing /\ container.tail # Missing

Idle == [at |-> "idle", run |-> 0, key |-> [image |-> "none", by |-> -1], open |-> FALSE,
         container |-> Nothing, outcome |-> "none", fault |-> FALSE]

BakeInit ==
    /\ home \in Homes
    /\ tool \in Tools
    /\ known = [p \in Processes |-> <<>>]
    /\ bake = [s \in Servers |-> Idle]
    /\ encoder = <<>> /\ source = <<>> /\ dump = <<>> /\ tmp = <<>> /\ entry = <<>>
    /\ begun = 0 /\ faults = 0
    /\ crashed = FALSE /\ met = {} /\ swapped = {}
-----------------------------------------------------------------------------
At(s, step) == bake[s].at = step
Key(s) == bake[s].key
Goes(s, step) == bake' = [bake EXCEPT ![s].at = step]
Ends(s, outcome, container) ==
    bake' = [bake EXCEPT ![s].at = "idle", ![s].outcome = outcome, ![s].container = container]

Fault == faults < MaxFaults /\ faults' = faults + 1

\* An error of the bake; fault: its own probe, encoder or disk made it fail.
Fails(s, step, fault) ==
    bake' = [bake EXCEPT ![s].at = step, ![s].outcome = "failed", ![s].open = FALSE,
                         ![s].fault = fault]

\* Mutant of Scratch: bakes by one tool share their scratch files.
BugScratch(s) == [image |-> "any", by |-> Key(s).by]

\* cache_file: the scratch files of a bake are named by its key.
Scratch(s) == Key(s)

Put(files, name, content) == [n \in DOMAIN files \cup {name} |->
                                 IF n = name THEN content ELSE files[n]]
Without(files, name) == Restrict(files, DOMAIN files \ {name})

-----------------------------------------------------------------------------
(* bake_texture: plan, cache_key, load_cached.                             *)

Request(s, image) ==
    /\ At(s, "idle") /\ begun < MaxBakes
    /\ begun' = begun + 1
    /\ bake' = [bake EXCEPT ![s] = [Idle EXCEPT !.at = "plan", !.run = begun',
                                           !.key.image = image]]
    /\ met' = met \ {s}
    /\ UNCHANGED <<home, tool, known, encoder, scratch, tmp, entry, faults, crashed, swapped>>

Identified(s, identity, step) ==
    bake' = [bake EXCEPT ![s].at = step, ![s].key.by = identity]

\* plan: no tool on PATH, one whose identity is remembered, or a new one.
Plan(s) ==
    /\ At(s, "plan")
    /\ IF tool = 0
       THEN Identified(s, 0, "load")
       ELSE IF tool \in DOMAIN known[home[s]]
            THEN Identified(s, known[home[s]][tool], "load")
            ELSE Identified(s, tool, "remember")
    /\ UNCHANGED <<home, tool, known, encoder, scratch, tmp, entry, counters, history>>

\* identity_of: -version times out, or neither it nor the file is readable.
ProbeFails(s) ==
    /\ At(s, "plan") /\ tool # 0 /\ tool \notin DOMAIN known[home[s]]
    /\ Fault
    /\ \E outcome \in {"failed", "timed out"} :
           bake' = [bake EXCEPT ![s].at = "idle", ![s].outcome = outcome, ![s].fault = TRUE]
    /\ UNCHANGED <<home, tool, known, encoder, scratch, tmp, entry, begun, history>>

\* remember, under the stamp the program has by now.
RememberIdentity(s) ==
    /\ At(s, "remember")
    /\ known' = IF tool = 0 THEN known
                ELSE [known EXCEPT ![home[s]] = Put(@, tool, Key(s).by)]
    /\ Goes(s, "load")
    /\ UNCHANGED <<home, tool, encoder, scratch, tmp, entry, counters, history>>

\* encode_fresh: by author, or by the tool.
Fresh(s) ==
    IF Key(s).by = 0
    THEN bake' = [bake EXCEPT ![s].at = "create", ![s].container = Container(Key(s).image, 0)]
    ELSE Goes(s, "source")

LoadCached(s) ==
    /\ At(s, "load")
    /\ IF Key(s) \in DOMAIN entry /\ Valid(entry[Key(s)])
       THEN Ends(s, "cached", entry[Key(s)])
       ELSE Fresh(s)
    /\ UNCHANGED <<home, tool, known, encoder, scratch, tmp, entry, counters, history>>

\* An entry that cannot be read is a miss.
LoadFails(s) ==
    /\ At(s, "load") /\ Key(s) \in DOMAIN entry
    /\ Fault
    /\ Fresh(s)
    /\ UNCHANGED <<home, tool, known, encoder, scratch, tmp, entry, begun, history>>
-----------------------------------------------------------------------------
(* encode_with_tool.                                                       *)

InScratch(s) ==
    /\ Key(s).by > 0
    /\ bake[s].at \in {"fill", "spawn", "wait", "read", "create", "write", "rename",
                       "clean", "cleanDump"}

\* From here on a bake and whoever has the same key in hand share files.
Meets(s) ==
    LET others == {o \in Servers \ {s} : InScratch(o) /\ Key(o) = Key(s)} IN
    met' = met \cup others
               \cup (IF others # {} \/ \E e \in DOMAIN encoder : encoder[e].key = Key(s)
                     THEN {s} ELSE {})

\* std::fs::write of the handoff: the file is truncated, then filled.
OpenSource(s) ==
    /\ At(s, "source")
    /\ source' = Put(source, Scratch(s), "empty")
    /\ bake' = [bake EXCEPT ![s].at = "fill", ![s].open = TRUE]
    /\ Meets(s)
    /\ UNCHANGED <<home, tool, known, encoder, dump, tmp, entry, counters, crashed, swapped>>

FillSource(s) ==
    /\ At(s, "fill")
    /\ source' = IF bake[s].open THEN Put(source, Scratch(s), Key(s).image) ELSE source
    /\ bake' = [bake EXCEPT ![s].at = "spawn", ![s].open = FALSE]
    /\ UNCHANGED <<home, tool, known, encoder, dump, tmp, entry, counters, history>>

\* The directory cannot be made (ensure_dir, before there is anything to
\* discard), or the handoff cannot be written.
SourceFails(s) ==
    /\ \/ At(s, "source") /\ Fails(s, "idle", TRUE) /\ UNCHANGED met
       \/ At(s, "source") /\ Fails(s, "clean", TRUE) /\ Meets(s)
       \/ At(s, "fill") /\ Fails(s, "clean", TRUE) /\ UNCHANGED met
    /\ Fault
    /\ UNCHANGED <<home, tool, known, encoder, scratch, tmp, entry, begun, crashed, swapped>>

\* spawn_child, of whatever is at the tool's path now.
Spawn(s) ==
    /\ At(s, "spawn")
    /\ IF tool = 0
       THEN Fails(s, "clean", FALSE) /\ UNCHANGED encoder
       ELSE /\ Goes(s, "wait")
            /\ encoder' = Put(encoder, bake[s].run,
                              [at |-> "read", tool |-> tool, key |-> Key(s), out |-> Scratch(s),
                               image |-> "none", open |-> FALSE, broke |-> FALSE])
    /\ swapped' = IF tool = Key(s).by THEN swapped ELSE swapped \cup {Key(s)}
    /\ UNCHANGED <<home, tool, known, scratch, tmp, entry, counters, crashed, met>>

\* A tool that is there does not start, or what it wrote cannot be read.
ToolFails(s) ==
    /\ bake[s].at \in {"spawn", "read"}
    /\ Fault
    /\ Fails(s, "clean", TRUE)
    /\ UNCHANGED <<home, tool, known, encoder, scratch, tmp, entry, begun, history>>

\* wait_deadline: the encoder has exited and is reaped.
Exited(s) ==
    /\ At(s, "wait")
    /\ encoder[bake[s].run].at \in {"done", "failed"}
    /\ LET broke == encoder[bake[s].run].broke IN
       IF encoder[bake[s].run].at = "done"
       THEN bake' = [bake EXCEPT ![s].at = "read", ![s].fault = broke]
       ELSE Fails(s, "clean", broke)
    /\ encoder' = Without(encoder, bake[s].run)
    /\ UNCHANGED <<home, tool, known, scratch, tmp, entry, counters, history>>

\* Mutant of TimedOut: the scratch files stay.
BugLeave(s) ==
    /\ At(s, "wait")
    /\ Ends(s, "timed out", Nothing)
    /\ encoder' = Without(encoder, bake[s].run)
    /\ UNCHANGED <<home, tool, known, scratch, tmp, entry, counters, history>>

\* Mutant of TimedOut: only the pipes have a deadline.
BugDeadline(s) ==
    /\ At(s, "wait")
    /\ encoder[bake[s].run].at = "done"
    /\ bake' = [bake EXCEPT ![s].at = "clean", ![s].outcome = "timed out"]
    /\ encoder' = Without(encoder, bake[s].run)
    /\ UNCHANGED <<home, tool, known, scratch, tmp, entry, counters, history>>

\* kill_timed_out, kill_surviving_group: the deadline passes while the encoder
\* runs or something still holds its pipes.
TimedOut(s) ==
    /\ At(s, "wait")
    /\ bake' = [bake EXCEPT ![s].at = "clean", ![s].outcome = "timed out"]
    /\ encoder' = Without(encoder, bake[s].run)
    /\ UNCHANGED <<home, tool, known, scratch, tmp, entry, counters, history>>

\* read_container: what is not a whole container is refused.
ReadDump(s) ==
    /\ At(s, "read")
    /\ IF Scratch(s) \in DOMAIN dump /\ Valid(dump[Scratch(s)])
       THEN bake' = [bake EXCEPT ![s].at = "create", ![s].container = dump[Scratch(s)]]
       ELSE Fails(s, "clean", bake[s].fault)
    /\ UNCHANGED <<home, tool, known, encoder, scratch, tmp, entry, counters, history>>

\* discard_scratch.  Files stay open when their name is removed: what is
\* written to them later is not found under it.
CleanSource(s) ==
    /\ At(s, "clean")
    /\ source' = Without(source, Scratch(s))
    /\ bake' = [o \in Servers |->
                   IF o = s THEN [bake[s] EXCEPT !.at = "cleanDump"]
                   ELSE IF bake[o].open /\ Scratch(o) = Scratch(s)
                        THEN [bake[o] EXCEPT !.open = FALSE]
                        ELSE bake[o]]
    /\ UNCHANGED <<home, tool, known, encoder, dump, tmp, entry, counters, history>>

CleanDump(s) ==
    /\ At(s, "cleanDump")
    /\ dump' = Without(dump, Scratch(s))
    /\ encoder' = [e \in DOMAIN encoder |->
                      [encoder[e] EXCEPT !.open = @ /\ encoder[e].out # Scratch(s)]]
    /\ Goes(s, "idle")
    /\ UNCHANGED <<home, tool, known, source, tmp, entry, counters, history>>
-----------------------------------------------------------------------------
(* The encoder, a program of its own: it refuses a handoff that is not     *)
(* whole and writes its output in two pieces.                              *)

Encoder(e, step) == encoder' = [encoder EXCEPT ![e].at = step]

EncoderReads(e) ==
    /\ encoder[e].at = "read"
    /\ IF encoder[e].out \in DOMAIN source /\ source[encoder[e].out] # "empty"
       THEN encoder' = [encoder EXCEPT ![e].at = "open", ![e].image = source[encoder[e].out]]
       ELSE Encoder(e, "failed")
    /\ UNCHANGED <<home, tool, known, bake, scratch, tmp, entry, counters, history>>

\* It may give up at any point, with an exit code or without one, in which
\* case what it leaves is for read_container to reject.
EncoderBreaks(e) ==
    /\ encoder[e].at \in {"read", "open", "head", "tail"}
    /\ Fault
    /\ \E code \in {"done", "failed"} :
           encoder' = [encoder EXCEPT ![e].at = code, ![e].broke = TRUE]
    /\ UNCHANGED <<home, tool, known, bake, scratch, tmp, entry, begun, history>>

EncoderOpens(e) ==
    /\ encoder[e].at = "open"
    /\ dump' = Put(dump, encoder[e].out, Nothing)
    /\ encoder' = [encoder EXCEPT ![e].at = "head", ![e].open = TRUE]
    /\ UNCHANGED <<home, tool, known, bake, source, tmp, entry, counters, history>>

EncoderWrites(e) ==
    /\ encoder[e].at \in {"head", "tail"}
    /\ LET piece == [image |-> encoder[e].image, tool |-> encoder[e].tool] IN
       dump' = IF encoder[e].open
               THEN [dump EXCEPT ![encoder[e].out][encoder[e].at] = piece]
               ELSE dump
    /\ Encoder(e, IF encoder[e].at = "head" THEN "tail" ELSE "done")
    /\ UNCHANGED <<home, tool, known, bake, source, tmp, entry, counters, history>>
-----------------------------------------------------------------------------
(* store_cached.                                                           *)

\* Mutant of Publish: one temporary file per process.
BugPublish(s) == <<home[s], 0>>

\* publish_path: the process and a count of its calls, here the bake's.
Publish(s) == <<home[s], bake[s].run>>

CreateTmp(s) ==
    /\ At(s, "create")
    /\ tmp' = Put(tmp, Publish(s), Nothing)
    /\ Goes(s, "write")
    /\ UNCHANGED <<home, tool, known, encoder, scratch, entry, counters, history>>

WriteTmp(s) ==
    /\ At(s, "write")
    /\ tmp' = Put(tmp, Publish(s), bake[s].container)
    /\ Goes(s, "rename")
    /\ UNCHANGED <<home, tool, known, encoder, scratch, entry, counters, history>>

\* Only a bake by the tool has scratch files to discard.
Stored(s) == IF Key(s).by = 0 THEN "idle" ELSE "clean"

\* ensure_dir, write_synced or the rename fails; the temporary file goes.
StoreFails(s) ==
    /\ bake[s].at \in {"create", "write", "rename"}
    /\ Fault
    /\ Fails(s, Stored(s), TRUE)
    /\ tmp' = Without(tmp, Publish(s))
    /\ UNCHANGED <<home, tool, known, encoder, scratch, entry, begun, history>>

RenameTmp(s) ==
    /\ At(s, "rename")
    /\ LET stored == Publish(s) \in DOMAIN tmp
           outcome == IF stored THEN "baked" ELSE "failed"
       IN  /\ entry' = IF stored THEN Put(entry, Key(s), tmp[Publish(s)]) ELSE entry
           /\ bake' = [bake EXCEPT ![s].at = Stored(s), ![s].outcome = outcome]
    /\ tmp' = Without(tmp, Publish(s))
    /\ UNCHANGED <<home, tool, known, encoder, scratch, counters, history>>
-----------------------------------------------------------------------------
(* What happens around the servers.                                        *)

\* Somebody installs another version of the tool, or removes it.
ReplaceTool(t) ==
    /\ Fault /\ t # tool
    /\ tool' = t
    /\ UNCHANGED <<home, known, bake, encoder, scratch, tmp, entry, begun, history>>

\* The process dies and comes back; its encoders and its files stay.
Crash(p) ==
    /\ Fault /\ crashed' = TRUE
    /\ bake' = [s \in Servers |-> IF home[s] = p THEN Idle ELSE bake[s]]
    /\ known' = [known EXCEPT ![p] = <<>>]
    /\ UNCHANGED <<home, tool, encoder, scratch, tmp, entry, begun, met, swapped>>

BakeStep(s) ==
    \/ Plan(s) \/ RememberIdentity(s) \/ LoadCached(s)
    \/ OpenSource(s) \/ FillSource(s) \/ Spawn(s) \/ Exited(s) \/ TimedOut(s)
    \/ ReadDump(s) \/ CleanSource(s) \/ CleanDump(s)
    \/ CreateTmp(s) \/ WriteTmp(s) \/ RenameTmp(s)

\* What fails a bake, or an entry it looks up.
BakeFails(s) ==
    ProbeFails(s) \/ LoadFails(s) \/ SourceFails(s) \/ ToolFails(s) \/ StoreFails(s)

BakeNext ==
    \/ \E s \in Servers : BakeStep(s) \/ BakeFails(s) \/ \E image \in Images : Request(s, image)
    \/ \E e \in DOMAIN encoder : EncoderReads(e) \/ EncoderOpens(e) \/ EncoderWrites(e)
                                \/ EncoderBreaks(e)
    \/ \E t \in Tools : ReplaceTool(t)
    \/ \E p \in Processes : Crash(p)

\* The threads of the servers are scheduled and the clock reaches deadlines.
\* The encoder may hang, and nothing has to fail.
BakeSpec == BakeInit /\ [][BakeNext]_bakeVars /\ \A s \in Servers : WF_bakeVars(BakeStep(s))
-----------------------------------------------------------------------------
Whole(container, key) ==
    /\ container.head.image = key.image /\ container.tail.image = key.image
    /\ key \in swapped \/ container = Container(key.image, key.by)

\* Whoever dies or bakes at the same time, and whatever fails, an entry is a
\* whole container of the image its key stands for, by the tool its key names,
\* and so is what a bake returns ("Readers see the previous container or the new
\* one, never a partial write") - except for a key that a bake spawned another
\* tool for, because the tool was replaced after the plan or the process
\* remembers the old tool's identity for it.
EntriesMatchTheirKeys ==
    /\ \A key \in DOMAIN entry : Whole(entry[key], key)
    /\ \A s \in Servers : bake[s].outcome \in {"cached", "baked"} =>
           Whole(bake[s].container, Key(s))

\* A bake whose own probe, encoder and disk do not fail fails only if the tool
\* was replaced under it, or if another bake, or an encoder that outlived its
\* process, was using the scratch files of the same key (cache_file).
OnlySharedKeysFail ==
    \A s \in Servers : bake[s].outcome = "failed" =>
        bake[s].fault \/ s \in met \/ Key(s) \in swapped

\* When no bake is in progress and no process has died, no file is left but
\* the entries: "Scratch files are removed on both success and failure,
\* including a timeout".
ScratchIsRemoved ==
    ~crashed /\ (\A s \in Servers : At(s, "idle")) =>
        DOMAIN source = {} /\ DOMAIN dump = {} /\ DOMAIN tmp = {} /\ DOMAIN encoder = {}

\* Every bake returns, however long its encoder hangs (wait_deadline).
BakesReturn == \A s \in Servers : ~At(s, "idle") ~> At(s, "idle")
=============================================================================
