-------------------------- MODULE BakeCacheProofs --------------------------
(***************************************************************************)
(* The cache of baked textures: the invariant of the bakes of all servers, *)
(* and what it says of entries, of failures and of scratch files.          *)
(***************************************************************************)
EXTENDS BakeCache, TLAPS

\* Finite or not, a function from some of N to V.
Files(N, V) == UNION {[D -> V] : D \in SUBSET N}

Keys == [image : Images \cup {"none"}, by : Nat \cup {-1}]
Pieces == [image : Images \cup {"none"}, tool : Nat \cup {-1}]
Containers == [head : Pieces, tail : Pieces]
Steps == {"idle", "plan", "remember", "load", "source", "fill", "spawn", "wait", "read",
          "create", "write", "rename", "clean", "cleanDump"}
Bakes == [at : Steps, run : Nat, key : Keys, open : BOOLEAN, container : Containers,
          outcome : {"none", "cached", "baked", "failed", "timed out"}, fault : BOOLEAN]
EncoderSteps == {"read", "open", "head", "tail", "done", "failed"}
Encoders == [at : EncoderSteps, tool : Nat, key : Keys, out : Keys,
             image : Images \cup {"none"}, open : BOOLEAN, broke : BOOLEAN]

BakeTypeOK ==
    /\ home \in [Servers -> Processes] /\ tool \in Tools
    /\ known \in [Processes -> Files(Nat, Nat \ {0})]
    /\ bake \in [Servers -> Bakes]
    /\ encoder \in Files(Nat, Encoders)
    /\ source \in Files(Keys, Images \cup {"empty"})
    /\ dump \in Files(Keys, Containers)
    /\ tmp \in Files(Processes \X Nat, Containers)
    /\ entry \in Files(Keys, Containers)
    /\ begun \in Nat /\ swapped \subseteq Keys /\ crashed \in BOOLEAN

\* A run is one server's, from its request on.
RunsApart ==
    /\ \A s \in Servers : bake[s].run <= begun /\ (~At(s, "idle") => bake[s].run > 0)
    /\ \A s, o \in Servers : s # o /\ bake[s].run = bake[o].run => bake[s].run = 0

\* What a bake knows of its key at each step.
KeysKnown ==
    \A s \in Servers :
        /\ ~At(s, "idle") => Key(s).image \in Images
        /\ bake[s].at \notin {"idle", "plan"} => Key(s).by \in Nat
        /\ bake[s].at \in {"remember", "source", "fill", "spawn", "wait", "read", "clean", "cleanDump"}
             => Key(s).by > 0

\* A piece is missing, or one of the container that the key stands for.
Made(piece, key) ==
    piece # Missing => piece.image = key.image /\ (key \in swapped \/ piece.tool = key.by)

FilesMatch ==
    /\ \A k \in DOMAIN source : source[k] \in {"empty", k.image}
    /\ \A k \in DOMAIN dump : Made(dump[k].head, k) /\ Made(dump[k].tail, k)
    /\ \A k \in DOMAIN entry : Whole(entry[k], k)
    /\ \A e \in DOMAIN encoder :
          /\ encoder[e].out = encoder[e].key
          /\ encoder[e].at \in {"open", "head", "tail"}
               => encoder[e].image = encoder[e].key.image
          /\ encoder[e].key \in swapped \/ encoder[e].tool = encoder[e].key.by

\* What a server has in hand at each step.
InHand(s) ==
    /\ bake[s].at \notin {"idle", "clean", "cleanDump"} => bake[s].outcome = "none"
    /\ bake[s].at \in {"create", "write", "rename"} => Whole(bake[s].container, Key(s))
    /\ bake[s].outcome \in {"cached", "baked"} => Whole(bake[s].container, Key(s))
    /\ At(s, "write") => Publish(s) \in DOMAIN tmp
    /\ At(s, "rename") => Publish(s) \in DOMAIN tmp /\ tmp[Publish(s)] = bake[s].container
    /\ At(s, "wait") => /\ bake[s].run \in DOMAIN encoder
                        /\ encoder[bake[s].run].key = Key(s)

\* Nobody else uses the scratch files of s.
Alone(s) ==
    /\ \A o \in Servers \ {s} : InScratch(o) => Key(o) # Key(s)
    /\ \A e \in DOMAIN encoder :
          encoder[e].key = Key(s) => At(s, "wait") /\ e = bake[s].run

HasSource(s) == Key(s) \in DOMAIN source /\ source[Key(s)] = Key(s).image
HasDump(s) == Key(s) \in DOMAIN dump
Ran(s) == encoder[bake[s].run]

\* How far a bake has got that uses its scratch files alone, if its encoder
\* did not give up.
Progress(s) ==
    /\ At(s, "fill") => bake[s].open
    /\ At(s, "spawn") => HasSource(s)
    /\ At(s, "wait") /\ ~Ran(s).broke =>
          /\ Ran(s).at # "failed"
          /\ Ran(s).at = "read" => HasSource(s)
          /\ Ran(s).at \in {"head", "tail"} => Ran(s).open
          /\ Ran(s).at \in {"head", "tail", "done"} => HasDump(s)
          /\ Ran(s).at \in {"tail", "done"} => dump[Key(s)].head # Missing
          /\ Ran(s).at = "done" => dump[Key(s)].tail # Missing
    /\ At(s, "read") /\ ~bake[s].fault => HasDump(s) /\ Valid(dump[Key(s)])

AloneUnlessMet ==
    \A s \in Servers : InScratch(s) /\ s \notin met => Alone(s) /\ Progress(s)

\* Whose each file is, and each encoder.
OwnsSource(s, k) == InScratch(s) /\ ~At(s, "cleanDump") /\ Key(s) = k
OwnsDump(s, k) == InScratch(s) /\ Key(s) = k
OwnsTmp(s, n) == bake[s].at \in {"write", "rename"} /\ Publish(s) = n
OwnsEncoder(s, e) == At(s, "wait") /\ bake[s].run = e /\ encoder[e].key = Key(s)

\* Every file belongs to a bake in progress, as long as no process has died.
FilesOwned ==
    ~crashed =>
      /\ \A k \in DOMAIN source : \E s \in Servers : OwnsSource(s, k)
      /\ \A k \in DOMAIN dump : \E s \in Servers : OwnsDump(s, k)
      /\ \A n \in DOMAIN tmp : \E s \in Servers : OwnsTmp(s, n)
      /\ \A e \in DOMAIN encoder : \E s \in Servers : OwnsEncoder(s, e)

BakeInv ==
    /\ BakeTypeOK /\ RunsApart /\ KeysKnown /\ FilesMatch
    /\ \A s \in Servers : InHand(s)
    /\ AloneUnlessMet /\ OnlySharedKeysFail /\ FilesOwned

-----------------------------------------------------------------------------
(* Files by name.                                                          *)

\* A write keeps the files' names and contents in their sets.
LEMMA PutFiles ==
  ASSUME NEW N, NEW V, NEW f \in Files(N, V), NEW n \in N, NEW v \in V,
         NEW g, g = Put(f, n, v)
  PROVE  g \in Files(N, V)
<1>1. PICK D \in SUBSET N : f \in [D -> V]
  BY DEF Files
<1>2. DOMAIN f = D
  BY <1>1
<1>3. g = [m \in D \cup {n} |-> IF m = n THEN v ELSE f[m]]
  BY <1>2 DEF Put
<1>4. g \in [D \cup {n} -> V] /\ D \cup {n} \in SUBSET N
  BY <1>1, <1>3
<1> QED BY <1>4 DEF Files

\* So does a removal.
LEMMA WithoutFiles ==
  ASSUME NEW N, NEW V, NEW f \in Files(N, V), NEW n, NEW g, g = Without(f, n)
  PROVE  g \in Files(N, V)
<1>1. PICK D \in SUBSET N : f \in [D -> V]
  BY DEF Files
<1>2. DOMAIN f = D
  BY <1>1
<1>3. g = [m \in D \ {n} |-> f[m]]
  BY <1>2 DEF Without, Restrict
<1>4. g \in [D \ {n} -> V] /\ D \ {n} \in SUBSET N
  BY <1>1, <1>3
<1> QED BY <1>4 DEF Files

\* What is read under a name is of the files' values.
LEMMA FileFacts ==
  ASSUME NEW N, NEW V, NEW f \in Files(N, V)
  PROVE  /\ \A n \in DOMAIN f : n \in N /\ f[n] \in V
         /\ f = [n \in DOMAIN f |-> f[n]]
<1>1. PICK D \in SUBSET N : f \in [D -> V]
  BY DEF Files
<1> QED BY <1>1

\* No files at all.
LEMMA EmptyFiles ==
  ASSUME NEW N, NEW V
  PROVE  <<>> \in Files(N, V) /\ DOMAIN <<>> = {}
<1>1. DOMAIN <<>> = {} /\ <<>> \in [{} -> V]
  OBVIOUS
<1> QED BY <1>1 DEF Files

\* No bake is a bake.
LEMMA IdleIsABake ==
  Idle \in Bakes /\ Nothing \in Containers /\ Missing \in Pieces
  BY DEF Idle, Bakes, Steps, Keys, Containers, Pieces, Nothing, Missing

\* The initial state.
LEMMA BakeInitHolds == BakeInit => BakeInv
<1> SUFFICES ASSUME BakeInit PROVE BakeInv
  OBVIOUS
<1> USE BakeAssumption, ImagesAssumption
<1>1. Idle \in Bakes
  BY DEF Idle, Bakes, Steps, Keys, Containers, Pieces, Nothing, Missing
<1>2. BakeTypeOK
  <2>1. /\ <<>> \in Files(Nat, Nat \ {0}) /\ <<>> \in Files(Nat, Encoders)
        /\ <<>> \in Files(Keys, Images \cup {"empty"}) /\ <<>> \in Files(Keys, Containers)
        /\ <<>> \in Files(Processes \X Nat, Containers)
    BY EmptyFiles
  <2> QED BY <1>1, <2>1 DEF BakeInit, BakeTypeOK
<1>3. \A s \in Servers : bake[s] = Idle
  BY DEF BakeInit
<1>4. \A s \in Servers : bake[s].at = "idle" /\ bake[s].run = 0 /\ bake[s].outcome = "none"
  BY <1>3 DEF Idle
<1>5. /\ DOMAIN source = {} /\ DOMAIN dump = {} /\ DOMAIN tmp = {} /\ DOMAIN entry = {}
      /\ DOMAIN encoder = {} /\ \A p \in Processes : DOMAIN known[p] = {}
  BY DEF BakeInit
<1>6. begun = 0
  BY DEF BakeInit
<1>7. RunsApart /\ KeysKnown
  BY <1>4, <1>6 DEF RunsApart, KeysKnown, At
<1>8. FilesMatch
  BY <1>5 DEF FilesMatch
<1>9. (\A s \in Servers : InHand(s)) /\ AloneUnlessMet
  BY <1>4 DEF InHand, AloneUnlessMet, InScratch, At
<1>10. OnlySharedKeysFail /\ FilesOwned
  BY <1>4, <1>5 DEF OnlySharedKeysFail, FilesOwned
<1> QED BY <1>2, <1>7, <1>8, <1>9, <1>10 DEF BakeInv

-----------------------------------------------------------------------------
(* The steps of a bake.                                                    *)

\* Planning keeps the invariant.
LEMMA PlanKeeps == ASSUME BakeInv, NEW s \in Servers, Plan(s) PROVE BakeInv'
<1> USE BakeAssumption, ImagesAssumption
<1>1. BakeTypeOK
  BY DEF BakeInv
<1>2. /\ UNCHANGED <<home, tool, known, encoder, source, dump, tmp, entry, begun>>
      /\ UNCHANGED <<faults, crashed, met, swapped>>
  BY DEF Plan, scratch, counters, history
<1>3. bake \in [Servers -> Bakes] /\ tool \in Nat /\ home[s] \in Processes
  BY <1>1 DEF BakeTypeOK
<1>4. known[home[s]] \in Files(Nat, Nat \ {0})
  BY <1>1, <1>3 DEF BakeTypeOK
<1>5. \A t \in DOMAIN known[home[s]] : known[home[s]][t] \in Nat \ {0}
  BY <1>4, FileFacts
<1>6. PICK i \in Nat, step \in {"load", "remember"} :
        /\ bake' = [bake EXCEPT ![s].at = step, ![s].key.by = i]
        /\ step = "remember" => i > 0
  BY <1>3, <1>5 DEF Plan, Identified
<1>7. bake[s].at = "plan"
  BY DEF Plan, At
<1>8. PICK k : k = [bake[s].key EXCEPT !.by = i]
  OBVIOUS
<1>9. k \in Keys /\ k.by = i /\ k.image = bake[s].key.image
  BY <1>3, <1>8 DEF Bakes, Keys
<1>a. PICK b : b = [bake[s] EXCEPT !.at = step, !.key = k]
  OBVIOUS
<1>b. /\ b \in Bakes /\ b.at = step /\ b.key = k /\ b.run = bake[s].run
      /\ b.open = bake[s].open /\ b.container = bake[s].container
      /\ b.outcome = bake[s].outcome /\ b.fault = bake[s].fault
  BY <1>3, <1>9, <1>a DEF Bakes, Steps
<1>c. bake' = [bake EXCEPT ![s] = b]
  BY <1>3, <1>6, <1>8, <1>a
<1>d. bake' \in [Servers -> Bakes] /\ bake'[s] = b /\ \A o \in Servers : o # s => bake'[o] = bake[o]
  BY <1>3, <1>b, <1>c
<1>10. BakeTypeOK'
  BY <1>1, <1>2, <1>d DEF BakeTypeOK
<1>11. RunsApart'
  BY <1>2, <1>3, <1>7, <1>b, <1>d DEF BakeInv, RunsApart, At
<1>12. KeysKnown'
  BY <1>2, <1>6, <1>7, <1>9, <1>b, <1>d DEF BakeInv, KeysKnown, At, Key
<1>14. FilesMatch'
  BY <1>2 DEF BakeInv, FilesMatch, Made, Whole
<1>15. \A o \in Servers : InHand(o)'
  BY <1>2, <1>6, <1>7, <1>9, <1>b, <1>d DEF BakeInv, InHand, Whole, Publish, At, Key
<1>16. AloneUnlessMet'
  BY <1>2, <1>6, <1>7, <1>9, <1>b, <1>d DEF BakeInv, AloneUnlessMet, InScratch, At, Key, Alone, Progress, HasSource, HasDump, Ran
<1>17. OnlySharedKeysFail'
  <2>1. b.outcome = "none"
    BY <1>7, <1>b DEF BakeInv, InHand
  <2> QED BY <1>2, <1>d, <2>1 DEF BakeInv, OnlySharedKeysFail, Key
<1>18. \A o \in Servers : \A n : /\ OwnsSource(o, n) => OwnsSource(o, n)'
                                 /\ OwnsDump(o, n) => OwnsDump(o, n)'
                                 /\ OwnsTmp(o, n) => OwnsTmp(o, n)'
                                 /\ OwnsEncoder(o, n) => OwnsEncoder(o, n)'
  BY <1>2, <1>6, <1>7, <1>d DEF OwnsSource, OwnsDump, OwnsTmp, OwnsEncoder, InScratch, At, Key, Publish
<1>19. FilesOwned'
  BY <1>2, <1>18 DEF BakeInv, FilesOwned
<1> QED BY <1>10, <1>11, <1>12, <1>14, <1>15, <1>16, <1>17, <1>19 DEF BakeInv

\* A request starts a run of its own.
LEMMA RequestKeeps == ASSUME BakeInv, NEW s \in Servers, NEW image \in Images, Request(s, image) PROVE BakeInv'
<1> USE BakeAssumption, ImagesAssumption
<1>1. BakeTypeOK /\ bake \in [Servers -> Bakes]
  BY DEF BakeInv, BakeTypeOK
<1>2. /\ UNCHANGED <<home, tool, known, encoder, source, dump, tmp, entry>>
      /\ UNCHANGED <<faults, crashed, swapped>>
      /\ begun' = begun + 1 /\ met' = met \ {s} /\ bake[s].at = "idle"
  BY DEF Request, scratch, At
<1>3. begun \in Nat
  BY <1>1 DEF BakeTypeOK
<1>4. PICK k : k = [Idle.key EXCEPT !.image = image]
  OBVIOUS
<1>5. k \in Keys /\ k.image = image
  BY <1>4 DEF Idle, Keys
<1>6. PICK b : b = [Idle EXCEPT !.at = "plan", !.run = begun + 1, !.key = k]
  OBVIOUS
<1>7. /\ b \in Bakes /\ b.at = "plan" /\ b.key = k /\ b.run = begun + 1
      /\ b.outcome = "none"
  <2>1. b = [at |-> "plan", run |-> begun + 1, key |-> k, open |-> FALSE,
             container |-> Nothing, outcome |-> "none", fault |-> FALSE]
    BY <1>6 DEF Idle
  <2>2. b.container \in Containers
    BY <2>1, IdleIsABake
  <2> QED BY <1>3, <1>5, <2>1, <2>2 DEF Bakes, Steps
<1>8. bake' = [bake EXCEPT ![s] = b]
  BY <1>2, <1>4, <1>6 DEF Request
<1>9. bake' \in [Servers -> Bakes] /\ bake'[s] = b /\ \A o \in Servers : o # s => bake'[o] = bake[o]
  BY <1>1, <1>7, <1>8
<1>10. \A o \in Servers : bake[o].run \in Nat
  BY <1>1 DEF Bakes
<1>20. BakeTypeOK'
  BY <1>1, <1>2, <1>3, <1>9 DEF BakeTypeOK
<1>21. RunsApart'
  BY <1>2, <1>3, <1>5, <1>7, <1>9, <1>10 DEF BakeInv, RunsApart, At
<1>22. KeysKnown'
  BY <1>2, <1>3, <1>5, <1>7, <1>9, <1>10 DEF BakeInv, KeysKnown, At, Key
<1>24. FilesMatch'
  BY <1>2, <1>3, <1>5, <1>7, <1>9, <1>10 DEF BakeInv, FilesMatch, Made, Whole
<1>25. \A o \in Servers : InHand(o)'
  BY <1>2, <1>3, <1>5, <1>7, <1>9, <1>10 DEF BakeInv, InHand, Whole, Publish, At, Key
<1>26. AloneUnlessMet'
  BY <1>2, <1>3, <1>5, <1>7, <1>9, <1>10 DEF BakeInv, AloneUnlessMet, InScratch, At, Key, Alone, Progress, HasSource, HasDump, Ran
<1>27. OnlySharedKeysFail'
  BY <1>2, <1>3, <1>5, <1>7, <1>9, <1>10 DEF BakeInv, OnlySharedKeysFail, Key
<1>28. \A o \in Servers : \A n : /\ OwnsSource(o, n) => OwnsSource(o, n)'
                                 /\ OwnsDump(o, n) => OwnsDump(o, n)'
                                 /\ OwnsTmp(o, n) => OwnsTmp(o, n)'
                                 /\ OwnsEncoder(o, n) => OwnsEncoder(o, n)'
  BY <1>2, <1>3, <1>5, <1>7, <1>9, <1>10 DEF BakeInv, OwnsSource, OwnsDump, OwnsTmp, OwnsEncoder, InScratch, At, Key, Publish
<1>29. FilesOwned'
  BY <1>2, <1>28 DEF BakeInv, FilesOwned
<1> QED BY <1>20, <1>21, <1>22, <1>24, <1>25, <1>26, <1>27, <1>29 DEF BakeInv

\* An identity is remembered under the tool it is of.
LEMMA RememberKeeps == ASSUME BakeInv, NEW s \in Servers, RememberIdentity(s) PROVE BakeInv'
<1> USE BakeAssumption, ImagesAssumption
<1>1. BakeTypeOK /\ bake \in [Servers -> Bakes]
  BY DEF BakeInv, BakeTypeOK
<1>2. /\ UNCHANGED <<home, tool, encoder, source, dump, tmp, entry, begun>>
      /\ UNCHANGED <<faults, crashed, met, swapped>>
  BY DEF RememberIdentity, scratch, counters, history
<1>3. /\ home[s] \in Processes /\ known \in [Processes -> Files(Nat, Nat \ {0})]
      /\ tool \in Nat /\ bake[s].at = "remember"
  BY <1>1 DEF BakeTypeOK, RememberIdentity, At
<1>4. Key(s).by \in Nat \ {0}
  BY <1>3 DEF BakeInv, KeysKnown
<1>5. PICK b : b = [bake[s] EXCEPT !.at = "load"]
  OBVIOUS
<1>6. /\ b \in Bakes /\ b.at = "load" /\ b.key = bake[s].key /\ b.run = bake[s].run /\ b.fault = bake[s].fault
      /\ b.open = bake[s].open /\ b.container = bake[s].container
      /\ b.outcome = bake[s].outcome
  BY <1>1, <1>5 DEF Bakes, Steps
<1>7. bake' = [bake EXCEPT ![s] = b]
  BY <1>1, <1>5 DEF RememberIdentity, Goes
<1>8. bake' \in [Servers -> Bakes] /\ bake'[s] = b /\ \A o \in Servers : o # s => bake'[o] = bake[o]
  BY <1>1, <1>6, <1>7
<1>9. PICK f : f = Put(known[home[s]], tool, Key(s).by)
  OBVIOUS
<1>10. /\ f \in Files(Nat, Nat \ {0}) /\ DOMAIN f = DOMAIN known[home[s]] \cup {tool}
       /\ f[tool] = Key(s).by
       /\ \A t \in DOMAIN known[home[s]] : t # tool => f[t] = known[home[s]][t]
  <2>1. known[home[s]] \in Files(Nat, Nat \ {0}) /\ tool \in Nat /\ Key(s).by \in Nat \ {0}
    BY <1>3, <1>4
  <2>2. f \in Files(Nat, Nat \ {0})
    BY <1>9, <2>1, PutFiles
  <2> QED BY <1>9, <2>2 DEF Put
<1>11. known' = known \/ known' = [known EXCEPT ![home[s]] = f]
  BY <1>3, <1>9 DEF RememberIdentity
<1>12. /\ known' \in [Processes -> Files(Nat, Nat \ {0})]
       /\ \A p \in Processes : known'[p] = known[p] \/ (p = home[s] /\ known'[p] = f)
  BY <1>3, <1>10, <1>11
<1>20. BakeTypeOK'
  BY <1>1, <1>2, <1>8, <1>12 DEF BakeTypeOK
<1>21. RunsApart'
  BY <1>1, <1>2, <1>3, <1>4, <1>6, <1>8 DEF BakeInv, RunsApart, At
<1>22. KeysKnown'
  BY <1>1, <1>2, <1>3, <1>4, <1>6, <1>8 DEF BakeInv, KeysKnown, At, Key
<1>24. FilesMatch'
  BY <1>1, <1>2, <1>3, <1>4, <1>6, <1>8 DEF BakeInv, FilesMatch, Made, Whole
<1>25. \A o \in Servers : InHand(o)'
  BY <1>1, <1>2, <1>3, <1>4, <1>6, <1>8 DEF BakeInv, InHand, Whole, Publish, At, Key
<1>26. AloneUnlessMet'
  <2> SUFFICES ASSUME NEW o \in Servers, InScratch(o)', o \notin met'
               PROVE  Alone(o)' /\ Progress(o)'
    BY DEF AloneUnlessMet
  <2>1. o # s /\ InScratch(o) /\ o \notin met /\ bake'[o] = bake[o]
    BY <1>2, <1>6, <1>8 DEF InScratch, Key
  <2>2. Alone(o) /\ Progress(o)
    BY <2>1 DEF BakeInv, AloneUnlessMet
  <2>3. Alone(o)'
    BY <1>2, <1>6, <1>8, <2>1, <2>2 DEF Alone, InScratch, At, Key
  <2>4. Progress(o)'
    BY <1>2, <2>1, <2>2 DEF Progress, At, Key, HasSource, HasDump, Ran
  <2> QED BY <2>3, <2>4
<1>27. OnlySharedKeysFail'
  BY <1>1, <1>2, <1>3, <1>4, <1>6, <1>8 DEF BakeInv, OnlySharedKeysFail, Key
<1>28. \A o \in Servers : \A n : /\ OwnsSource(o, n) => OwnsSource(o, n)'
                                 /\ OwnsDump(o, n) => OwnsDump(o, n)'
                                 /\ OwnsTmp(o, n) => OwnsTmp(o, n)'
                                 /\ OwnsEncoder(o, n) => OwnsEncoder(o, n)'
  BY <1>1, <1>2, <1>3, <1>4, <1>6, <1>8 DEF BakeInv, OwnsSource, OwnsDump, OwnsTmp, OwnsEncoder, InScratch, At, Key, Publish
<1>29. FilesOwned'
  BY <1>2, <1>28 DEF BakeInv, FilesOwned
<1> QED BY <1>20, <1>21, <1>22, <1>24, <1>25, <1>26, <1>27, <1>29 DEF BakeInv

\* A bake that hits returns an entry of its key.
LEMMA LoadKeeps ==
  ASSUME BakeInv, NEW s \in Servers, LoadCached(s) \/ LoadFails(s)
  PROVE  BakeInv'
<1> USE BakeAssumption, ImagesAssumption
<1>1. BakeTypeOK /\ bake \in [Servers -> Bakes]
  BY DEF BakeInv, BakeTypeOK
<1>2. /\ UNCHANGED <<home, tool, known, encoder, source, dump, tmp, entry, begun>>
      /\ UNCHANGED <<crashed, met, swapped>>
      /\ bake[s].at = "load" /\ bake[s].outcome = "none"
  BY DEF LoadCached, LoadFails, scratch, counters, history, At, BakeInv, InHand
<1>3. bake[s] \in Bakes /\ bake[s].key \in Keys /\ bake[s].key.by \in Nat
  BY <1>1, <1>2 DEF Bakes, BakeInv, KeysKnown, Key
<1>4. \A k \in DOMAIN entry : entry[k] \in Containers /\ Whole(entry[k], k)
  <2>1. entry \in Files(Keys, Containers)
    BY <1>1 DEF BakeTypeOK
  <2> QED BY <2>1, FileFacts DEF BakeInv, FilesMatch
<1>5. PICK at \in {"idle", "create", "source"}, c \in Containers, out \in {"none", "cached"} :
        /\ bake' = [bake EXCEPT ![s] = [bake[s] EXCEPT !.at = at, !.container = c, !.outcome = out]]
        /\ at = "idle" \/ out = "none"
        /\ at \in {"idle", "create"} => Whole(c, bake[s].key)
        /\ at = "source" => bake[s].key.by > 0
        /\ at = "create" => bake[s].key.by = 0
  <2>1. CASE LoadCached(s) /\ Key(s) \in DOMAIN entry /\ Valid(entry[Key(s)])
    <3>1. bake' = [bake EXCEPT ![s] = [bake[s] EXCEPT !.at = "idle", !.container = entry[Key(s)],
                                                      !.outcome = "cached"]]
      BY <1>1, <1>3, <2>1 DEF LoadCached, Ends
    <3> QED BY <1>4, <2>1, <3>1 DEF Key
  <2>2. CASE Fresh(s) /\ Key(s).by = 0
    <3>1. PICK c : c = Container(Key(s).image, 0)
      OBVIOUS
    <3>2. c \in Containers /\ Whole(c, Key(s))
      BY <1>3, <2>2, <3>1 DEF Container, Containers, Pieces, Keys, Key, Whole
    <3>3. bake' = [bake EXCEPT ![s] = [bake[s] EXCEPT !.at = "create", !.container = c,
                                                      !.outcome = bake[s].outcome]]
      BY <1>1, <1>3, <2>2, <3>1 DEF Fresh, Bakes
    <3> QED BY <1>2, <2>2, <3>2, <3>3 DEF Key
  <2>3. CASE Fresh(s) /\ Key(s).by # 0
    <3>1. bake' = [bake EXCEPT ![s] = [bake[s] EXCEPT !.at = "source",
                                                      !.container = bake[s].container,
                                                      !.outcome = bake[s].outcome]]
      BY <1>1, <1>3, <2>3 DEF Fresh, Goes, Bakes
    <3>2. bake[s].container \in Containers
      BY <1>3 DEF Bakes
    <3>3. bake[s].key.by > 0
      BY <1>3, <2>3 DEF Key
    <3> QED BY <1>2, <3>1, <3>2, <3>3
  <2> QED BY <2>1, <2>2, <2>3 DEF LoadCached, LoadFails
<1>6. PICK b : b = [bake[s] EXCEPT !.at = at, !.container = c, !.outcome = out]
  OBVIOUS
<1>7. /\ b \in Bakes /\ b.at = at /\ b.key = bake[s].key /\ b.run = bake[s].run /\ b.fault = bake[s].fault
      /\ b.open = bake[s].open /\ b.container = c /\ b.outcome = out
  BY <1>3, <1>5, <1>6 DEF Bakes, Steps
<1>8. bake' \in [Servers -> Bakes] /\ bake'[s] = b /\ \A o \in Servers : o # s => bake'[o] = bake[o]
  BY <1>1, <1>5, <1>6, <1>7
<1>20. BakeTypeOK'
  BY <1>1, <1>2, <1>8 DEF BakeTypeOK
<1>21. RunsApart'
  BY <1>2, <1>3, <1>5, <1>7, <1>8 DEF BakeInv, RunsApart, At
<1>22. KeysKnown'
  BY <1>2, <1>3, <1>5, <1>7, <1>8 DEF BakeInv, KeysKnown, At, Key
<1>24. FilesMatch'
  BY <1>2, <1>3, <1>5, <1>7, <1>8 DEF BakeInv, FilesMatch, Made, Whole
<1>25. \A o \in Servers : InHand(o)'
  BY <1>2, <1>3, <1>5, <1>7, <1>8 DEF BakeInv, InHand, Whole, Publish, At, Key
<1>26. AloneUnlessMet'
  BY <1>2, <1>3, <1>5, <1>7, <1>8 DEF BakeInv, AloneUnlessMet, InScratch, At, Key, Alone, Progress, HasSource, HasDump, Ran
<1>27. OnlySharedKeysFail'
  BY <1>2, <1>3, <1>5, <1>7, <1>8 DEF BakeInv, OnlySharedKeysFail, Key
<1>28. \A o \in Servers : \A n : /\ OwnsSource(o, n) => OwnsSource(o, n)'
                                 /\ OwnsDump(o, n) => OwnsDump(o, n)'
                                 /\ OwnsTmp(o, n) => OwnsTmp(o, n)'
                                 /\ OwnsEncoder(o, n) => OwnsEncoder(o, n)'
  BY <1>2, <1>3, <1>5, <1>7, <1>8 DEF BakeInv, OwnsSource, OwnsDump, OwnsTmp, OwnsEncoder, InScratch, At, Key, Publish
<1>29. FilesOwned'
  BY <1>2, <1>28 DEF BakeInv, FilesOwned
<1> QED BY <1>20, <1>21, <1>22, <1>24, <1>25, <1>26, <1>27, <1>29 DEF BakeInv

\* The scratch files of a bake that opens its handoff are its own, or it has met.
LEMMA OpenKeeps == ASSUME BakeInv, NEW s \in Servers, OpenSource(s) PROVE BakeInv'
<1> USE BakeAssumption, ImagesAssumption
<1>1. BakeTypeOK /\ bake \in [Servers -> Bakes]
  BY DEF BakeInv, BakeTypeOK
<1>2. /\ UNCHANGED <<home, tool, known, encoder, dump, tmp, entry, begun>>
      /\ UNCHANGED <<faults, crashed, swapped>>
      /\ bake[s].at = "source" /\ source' = Put(source, Key(s), "empty")
  BY DEF OpenSource, counters, At, Scratch
<1>3. bake[s] \in Bakes /\ bake[s].key \in Keys
  BY <1>1 DEF Bakes
<1>4. /\ met \subseteq met'
      /\ s \notin met' => \A e \in DOMAIN encoder : encoder[e].key # Key(s)
      /\ \A o \in Servers \ {s} : InScratch(o) /\ Key(o) = Key(s) => s \in met' /\ o \in met'
  BY DEF OpenSource, Meets
<1>5. source' \in Files(Keys, Images \cup {"empty"})
  <2>1. source \in Files(Keys, Images \cup {"empty"}) /\ Key(s) \in Keys
    BY <1>1, <1>3 DEF BakeTypeOK, Key
  <2> QED BY <1>2, <2>1, PutFiles
<1>6. /\ DOMAIN source' = DOMAIN source \cup {Key(s)} /\ source'[Key(s)] = "empty"
      /\ \A k \in DOMAIN source : k # Key(s) => source'[k] = source[k]
  BY <1>2 DEF Put
<1>7. PICK b : b = [bake[s] EXCEPT !.at = "fill", !.open = TRUE]
  OBVIOUS
<1>8. /\ b \in Bakes /\ b.at = "fill" /\ b.key = bake[s].key /\ b.run = bake[s].run /\ b.fault = bake[s].fault
      /\ b.open = TRUE /\ b.container = bake[s].container /\ b.outcome = bake[s].outcome
  BY <1>3, <1>7 DEF Bakes, Steps
<1>9. bake' = [bake EXCEPT ![s] = b]
  BY <1>1, <1>3, <1>7 DEF OpenSource
<1>10. bake' \in [Servers -> Bakes] /\ bake'[s] = b /\ \A o \in Servers : o # s => bake'[o] = bake[o]
  BY <1>1, <1>8, <1>9
<1>20. BakeTypeOK'
  BY <1>1, <1>2, <1>5, <1>10 DEF BakeTypeOK
<1>21. RunsApart'
  BY <1>2, <1>3, <1>8, <1>10 DEF BakeInv, RunsApart, At
<1>22. KeysKnown'
  BY <1>2, <1>3, <1>8, <1>10 DEF BakeInv, KeysKnown, At, Key
<1>24. FilesMatch'
  BY <1>2, <1>6 DEF BakeInv, FilesMatch, Made, Whole, Key
<1>25. \A o \in Servers : InHand(o)'
  BY <1>2, <1>3, <1>8, <1>10 DEF BakeInv, InHand, Whole, Publish, At, Key
<1>26. AloneUnlessMet'
  <2> SUFFICES ASSUME NEW o \in Servers, InScratch(o)', o \notin met'
               PROVE  Alone(o)' /\ Progress(o)'
    BY DEF AloneUnlessMet
  <2>1. CASE o = s
    BY <1>2, <1>4, <1>8, <1>10, <2>1 DEF Alone, Progress, At, InScratch, Key
  <2>2. CASE o # s
    <3>1. InScratch(o) /\ o \notin met /\ Key(o) # Key(s) /\ Key(o)' = Key(o) /\ bake'[o] = bake[o]
      BY <1>4, <1>10, <2>2 DEF InScratch, Key
    <3>2. Alone(o) /\ Progress(o)
      BY <3>1 DEF BakeInv, AloneUnlessMet
    <3>3. Alone(o)'
      BY <1>2, <1>8, <1>10, <3>1, <3>2 DEF Alone, InScratch, At, Key
    <3>4. Progress(o)'
      BY <1>2, <1>6, <3>1, <3>2 DEF Progress, At, Key, HasSource, HasDump, Ran
    <3> QED BY <3>3, <3>4
  <2> QED BY <2>1, <2>2
<1>27. OnlySharedKeysFail'
  BY <1>2, <1>4, <1>8, <1>10 DEF BakeInv, OnlySharedKeysFail, Key
<1>28. FilesOwned'
  <2>1. \A o \in Servers : \A n : /\ OwnsSource(o, n) => OwnsSource(o, n)'
                                  /\ OwnsDump(o, n) => OwnsDump(o, n)'
                                  /\ OwnsTmp(o, n) => OwnsTmp(o, n)'
                                  /\ OwnsEncoder(o, n) => OwnsEncoder(o, n)'
    BY <1>2, <1>8, <1>10 DEF OwnsSource, OwnsDump, OwnsTmp, OwnsEncoder, InScratch, At, Key, Publish
  <2>2. OwnsSource(s, Key(s))'
    BY <1>2, <1>8, <1>10 DEF BakeInv, KeysKnown, OwnsSource, InScratch, At, Key
  <2>3. Key(s)' = Key(s)
    BY <1>8, <1>10 DEF Key
  <2> QED BY <1>2, <1>6, <2>1, <2>2, <2>3 DEF BakeInv, FilesOwned
<1> QED BY <1>20, <1>21, <1>22, <1>24, <1>25, <1>26, <1>27, <1>28 DEF BakeInv

\* A handoff holds the image of its key.
LEMMA FillKeeps == ASSUME BakeInv, NEW s \in Servers, FillSource(s) PROVE BakeInv'
<1> USE BakeAssumption, ImagesAssumption
<1>1. BakeTypeOK /\ bake \in [Servers -> Bakes]
  BY DEF BakeInv, BakeTypeOK
<1>2. /\ UNCHANGED <<home, tool, known, encoder, dump, tmp, entry, begun>>
      /\ UNCHANGED <<faults, crashed, met, swapped>>
      /\ bake[s].at = "fill"
  BY DEF FillSource, counters, history, At
<1>3. /\ bake[s] \in Bakes /\ bake[s].key \in Keys /\ bake[s].key.by > 0
      /\ bake[s].key.image \in Images
  BY <1>1, <1>2 DEF Bakes, BakeInv, KeysKnown, Key, At
<1>4. source' = IF bake[s].open THEN Put(source, Key(s), Key(s).image) ELSE source
  BY DEF FillSource, Scratch
<1>5. source' \in Files(Keys, Images \cup {"empty"})
  <2>1. source \in Files(Keys, Images \cup {"empty"}) /\ Key(s) \in Keys /\ Key(s).image \in Images \cup {"empty"}
    BY <1>1, <1>3 DEF BakeTypeOK, Key
  <2>2. PICK f : f = Put(source, Key(s), Key(s).image)
    OBVIOUS
  <2>3. f \in Files(Keys, Images \cup {"empty"})
    BY <2>1, <2>2, PutFiles
  <2> QED BY <1>4, <2>1, <2>2, <2>3
<1>6. /\ bake[s].open => Key(s) \in DOMAIN source' /\ source'[Key(s)] = Key(s).image
      /\ DOMAIN source' \subseteq DOMAIN source \cup {Key(s)}
      /\ DOMAIN source \subseteq DOMAIN source'
      /\ \A k \in DOMAIN source : k # Key(s) => source'[k] = source[k]
      /\ \A k \in DOMAIN source' : \/ source'[k] = Key(s).image /\ k = Key(s)
                                   \/ source'[k] = source[k] /\ k \in DOMAIN source
  BY <1>4 DEF Put
<1>7. PICK b : b = [bake[s] EXCEPT !.at = "spawn", !.open = FALSE]
  OBVIOUS
<1>8. /\ b \in Bakes /\ b.at = "spawn" /\ b.key = bake[s].key /\ b.run = bake[s].run /\ b.fault = bake[s].fault
      /\ b.open = FALSE /\ b.container = bake[s].container /\ b.outcome = bake[s].outcome
  BY <1>3, <1>7 DEF Bakes, Steps
<1>9. bake' = [bake EXCEPT ![s] = b]
  BY <1>1, <1>3, <1>7 DEF FillSource
<1>10. bake' \in [Servers -> Bakes] /\ bake'[s] = b /\ \A o \in Servers : o # s => bake'[o] = bake[o]
  BY <1>1, <1>8, <1>9
<1>20. BakeTypeOK'
  BY <1>1, <1>2, <1>5, <1>10 DEF BakeTypeOK
<1>21. RunsApart'
  BY <1>2, <1>3, <1>8, <1>10 DEF BakeInv, RunsApart, At
<1>22. KeysKnown'
  BY <1>2, <1>3, <1>8, <1>10 DEF BakeInv, KeysKnown, At, Key
<1>24. FilesMatch'
  BY <1>2, <1>6 DEF BakeInv, FilesMatch, Made, Whole, Key
<1>25. \A o \in Servers : InHand(o)'
  BY <1>2, <1>3, <1>8, <1>10 DEF BakeInv, InHand, Whole, Publish, At, Key
<1>26. AloneUnlessMet'
  <2> SUFFICES ASSUME NEW o \in Servers, InScratch(o)', o \notin met'
               PROVE  Alone(o)' /\ Progress(o)'
    BY DEF AloneUnlessMet
  <2>1. InScratch(o) /\ o \notin met /\ Key(o)' = Key(o)
    BY <1>2, <1>3, <1>8, <1>10 DEF InScratch, Key
  <2>2. Alone(o) /\ Progress(o)
    BY <2>1 DEF BakeInv, AloneUnlessMet
  <2>3. Alone(o)'
    BY <1>2, <1>3, <1>8, <1>10, <2>2 DEF Alone, InScratch, At, Key
  <2>4. CASE o = s
    BY <1>2, <1>6, <1>8, <1>10, <2>2, <2>3, <2>4 DEF Progress, At, Key, HasSource
  <2>5. CASE o # s
    <3>1. Key(o) # Key(s) /\ bake'[o] = bake[o]
      BY <1>2, <1>3, <1>10, <2>2, <2>5 DEF Alone, InScratch, Key
    <3>2. Progress(o)'
      BY <1>2, <1>6, <2>2, <3>1 DEF Progress, At, Key, HasSource, HasDump, Ran
    <3> QED BY <2>3, <3>2
  <2> QED BY <2>4, <2>5
<1>27. OnlySharedKeysFail'
  BY <1>2, <1>3, <1>8, <1>10 DEF BakeInv, OnlySharedKeysFail, Key
<1>28. FilesOwned'
  <2>1. \A o \in Servers : \A n : /\ OwnsSource(o, n) => OwnsSource(o, n)'
                                  /\ OwnsDump(o, n) => OwnsDump(o, n)'
                                  /\ OwnsTmp(o, n) => OwnsTmp(o, n)'
                                  /\ OwnsEncoder(o, n) => OwnsEncoder(o, n)'
    BY <1>2, <1>3, <1>8, <1>10 DEF OwnsSource, OwnsDump, OwnsTmp, OwnsEncoder, InScratch, At, Key, Publish
  <2>2. OwnsSource(s, Key(s))'
    BY <1>2, <1>3, <1>8, <1>10 DEF OwnsSource, InScratch, At, Key
  <2>3. Key(s)' = Key(s)
    BY <1>8, <1>10 DEF Key
  <2> QED BY <1>2, <1>6, <2>1, <2>2, <2>3 DEF BakeInv, FilesOwned
<1> QED BY <1>20, <1>21, <1>22, <1>24, <1>25, <1>26, <1>27, <1>28 DEF BakeInv

\* An encoder runs for the bake that spawned it; a spawn fails only without a tool.
LEMMA SpawnKeeps == ASSUME BakeInv, NEW s \in Servers, Spawn(s) PROVE BakeInv'
<1> USE BakeAssumption, ImagesAssumption
<1>1. BakeTypeOK /\ bake \in [Servers -> Bakes]
  BY DEF BakeInv, BakeTypeOK
<1>2. /\ UNCHANGED <<home, tool, known, source, dump, tmp, entry, begun>>
      /\ UNCHANGED <<faults, crashed, met>>
      /\ bake[s].at = "spawn"
  BY DEF Spawn, counters, history, At, scratch
<1>a. bake[s] \in Bakes /\ bake[s].key \in Keys /\ bake[s].run \in Nat /\ tool \in Nat
  BY <1>1 DEF Bakes, BakeTypeOK
<1>b. bake[s].key.by > 0
  BY <1>2 DEF BakeInv, KeysKnown, Key
<1>3. /\ bake[s] \in Bakes /\ bake[s].key \in Keys /\ bake[s].key.by > 0
      /\ bake[s].run \in Nat /\ tool \in Nat
      /\ tool = bake[s].key.by \/ Key(s) \in swapped'
      /\ swapped \subseteq swapped' /\ swapped' \subseteq Keys
      /\ \A o \in Servers : o # s /\ bake[o].at = "wait" => bake[o].run # bake[s].run
  <2>1. /\ tool = bake[s].key.by \/ Key(s) \in swapped'
        /\ swapped \subseteq swapped' /\ swapped' \subseteq Keys
    BY <1>1, <1>a DEF BakeTypeOK, Spawn, Key
  <2>2. bake[s].run > 0
    BY <1>2 DEF BakeInv, RunsApart, At
  <2>3. \A o \in Servers : o # s => bake[o].run # bake[s].run
    BY <2>2, <1>a DEF BakeInv, RunsApart
  <2> QED BY <1>a, <1>b, <2>1, <2>3
<1>4. PICK e : e = [at |-> "read", tool |-> tool, key |-> Key(s), out |-> Key(s), image |-> "none",
                   open |-> FALSE, broke |-> FALSE]
  OBVIOUS
<1>5. e \in Encoders
  BY <1>3, <1>4 DEF Encoders, EncoderSteps, Key
<1>6. PICK b : b = IF tool = 0 THEN [bake[s] EXCEPT !.at = "clean", !.outcome = "failed",
                                                     !.open = FALSE, !.fault = FALSE]
                   ELSE [bake[s] EXCEPT !.at = "wait"]
  OBVIOUS
<1>8. /\ b \in Bakes /\ b.key = bake[s].key /\ b.run = bake[s].run
      /\ b.container = bake[s].container
      /\ tool = 0 => b.at = "clean" /\ b.outcome = "failed"
      /\ tool # 0 => b.at = "wait" /\ b.outcome = bake[s].outcome /\ b.fault = bake[s].fault
  BY <1>3, <1>6 DEF Bakes, Steps
<1>9. bake' = [bake EXCEPT ![s] = b]
  BY <1>1, <1>3, <1>6 DEF Spawn, Goes, Fails
<1>10. bake' \in [Servers -> Bakes] /\ bake'[s] = b /\ \A o \in Servers : o # s => bake'[o] = bake[o]
  BY <1>1, <1>8, <1>9
<1>11. encoder' = IF tool = 0 THEN encoder ELSE Put(encoder, bake[s].run, e)
  BY <1>4 DEF Spawn, Scratch
<1>12. encoder' \in Files(Nat, Encoders)
  <2>1. encoder \in Files(Nat, Encoders) /\ bake[s].run \in Nat
    BY <1>1, <1>3 DEF BakeTypeOK
  <2>2. PICK f : f = Put(encoder, bake[s].run, e)
    OBVIOUS
  <2>3. f \in Files(Nat, Encoders)
    BY <1>5, <2>1, <2>2, PutFiles
  <2> QED BY <1>11, <2>1, <2>2, <2>3
<1>13. /\ tool # 0 => bake[s].run \in DOMAIN encoder' /\ encoder'[bake[s].run] = e
       /\ DOMAIN encoder \subseteq DOMAIN encoder'
       /\ \A i \in DOMAIN encoder : i # bake[s].run => encoder'[i] = encoder[i]
       /\ \A i \in DOMAIN encoder' : \/ tool # 0 /\ i = bake[s].run
                                     \/ i \in DOMAIN encoder /\ encoder'[i] = encoder[i]
  BY <1>11 DEF Put
<1>14. e.at = "read" /\ e.key = bake[s].key /\ e.out = e.key /\ e.tool = tool
  BY <1>4 DEF Key
<1>20. BakeTypeOK'
  BY <1>1, <1>2, <1>3, <1>12, <1>10 DEF BakeTypeOK
<1>21. RunsApart'
  BY <1>2, <1>3, <1>8, <1>10 DEF BakeInv, RunsApart, At
<1>22. KeysKnown'
  BY <1>2, <1>3, <1>8, <1>10 DEF BakeInv, KeysKnown, At, Key
<1>24. FilesMatch'
  BY <1>2, <1>3, <1>13, <1>14 DEF BakeInv, FilesMatch, Made, Whole, Key
<1>25. \A o \in Servers : InHand(o)'
  BY <1>2, <1>3, <1>8, <1>10, <1>13, <1>14 DEF BakeInv, InHand, Whole, Publish, At, Key
<1>26. AloneUnlessMet'
  <2> SUFFICES ASSUME NEW o \in Servers, InScratch(o)', o \notin met'
               PROVE  Alone(o)' /\ Progress(o)'
    BY DEF AloneUnlessMet
  <2>1. InScratch(o) /\ o \notin met /\ Key(o)' = Key(o)
    BY <1>2, <1>3, <1>8, <1>10 DEF InScratch, Key
  <2>2. Alone(o) /\ Progress(o)
    BY <2>1 DEF BakeInv, AloneUnlessMet
  <2>4. CASE o = s
    BY <1>2, <1>3, <1>8, <1>10, <1>13, <1>14, <2>2, <2>4 DEF Alone, Progress, InScratch, At, Key, HasSource, Ran
  <2>5. CASE o # s
    <3>1. Key(o) # Key(s) /\ bake'[o] = bake[o]
      BY <1>2, <1>3, <1>10, <2>2, <2>5 DEF Alone, InScratch, Key
    <3>2. Alone(o)'
      BY <1>2, <1>3, <1>8, <1>10, <1>13, <1>14, <2>2, <2>5, <3>1 DEF Alone, InScratch, At, Key
    <3>3. At(o, "wait") => bake[o].run \in DOMAIN encoder /\ bake[o].run # bake[s].run
      BY <1>3, <2>5 DEF BakeInv, InHand, At
    <3>4. Progress(o)'
      BY <1>2, <1>13, <2>2, <3>1, <3>3 DEF Progress, At, Key, HasSource, HasDump, Ran
    <3> QED BY <3>2, <3>4
  <2> QED BY <2>4, <2>5
<1>27. OnlySharedKeysFail'
  <2>1. tool = 0 => Key(s) \in swapped'
    BY <1>3
  <2>2. \A o \in Servers : Key(o)' = Key(o)
    BY <1>8, <1>10 DEF Key
  <2> QED BY <1>2, <1>3, <1>8, <1>10, <2>1, <2>2 DEF BakeInv, OnlySharedKeysFail, Key
<1>28. FilesOwned'
  <2>1. \A o \in Servers : \A n : /\ OwnsSource(o, n) => OwnsSource(o, n)'
                                  /\ OwnsDump(o, n) => OwnsDump(o, n)'
                                  /\ OwnsTmp(o, n) => OwnsTmp(o, n)'
    BY <1>2, <1>3, <1>8, <1>10 DEF OwnsSource, OwnsDump, OwnsTmp, InScratch, At, Key, Publish
  <2>2. tool # 0 => OwnsEncoder(s, bake[s].run)'
    BY <1>2, <1>8, <1>10, <1>13, <1>14 DEF OwnsEncoder, At, Key
  <2>3. \A o \in Servers : \A i \in DOMAIN encoder : OwnsEncoder(o, i) => OwnsEncoder(o, i)'
    BY <1>2, <1>3, <1>10, <1>13 DEF OwnsEncoder, At, Key
  <2>4. \A i \in DOMAIN encoder' : (tool # 0 /\ i = bake[s].run) \/ i \in DOMAIN encoder
    BY <1>13
  <2>5. ~crashed => \A i \in DOMAIN encoder' : \E o \in Servers : OwnsEncoder(o, i)'
    <3> SUFFICES ASSUME ~crashed, NEW i \in DOMAIN encoder'
                 PROVE  \E o \in Servers : OwnsEncoder(o, i)'
      OBVIOUS
    <3>1. CASE tool # 0 /\ i = bake[s].run
      BY <1>8, <1>10, <2>2, <3>1
    <3>2. CASE i \in DOMAIN encoder
      <4>1. PICK o \in Servers : OwnsEncoder(o, i)
        BY <3>2 DEF BakeInv, FilesOwned
      <4> QED BY <2>3, <3>2, <4>1
    <3> QED BY <2>4, <3>1, <3>2
  <2> QED BY <1>2, <2>1, <2>5 DEF BakeInv, FilesOwned
<1> QED BY <1>20, <1>21, <1>22, <1>24, <1>25, <1>26, <1>27, <1>28 DEF BakeInv

\* An encoder that had its files to itself has written a whole container.
LEMMA ExitedKeeps == ASSUME BakeInv, NEW s \in Servers, Exited(s) PROVE BakeInv'
<1> USE BakeAssumption, ImagesAssumption
<1>1. BakeTypeOK /\ bake \in [Servers -> Bakes]
  BY DEF BakeInv, BakeTypeOK
<1>2. /\ UNCHANGED <<home, tool, known, source, dump, tmp, entry, begun>>
      /\ UNCHANGED <<faults, crashed, met, swapped>>
      /\ bake[s].at = "wait" /\ encoder' = Without(encoder, bake[s].run)
  BY DEF Exited, counters, history, At, scratch
<1>a. bake[s] \in Bakes /\ bake[s].key \in Keys /\ bake[s].run \in Nat
  BY <1>1 DEF Bakes
<1>b. bake[s].key.by > 0
  BY <1>2 DEF BakeInv, KeysKnown, Key
<1>3. \A o \in Servers : o # s => bake[o].run # bake[s].run
  <2>1. bake[s].run > 0
    BY <1>2 DEF BakeInv, RunsApart, At
  <2> QED BY <2>1, <1>a DEF BakeInv, RunsApart
<1>4. bake[s].run \in DOMAIN encoder /\ encoder[bake[s].run].key = Key(s)
  BY <1>2 DEF BakeInv, InHand, At
<1>5. s \notin met => Alone(s) /\ Progress(s)
  BY <1>2, <1>b DEF BakeInv, AloneUnlessMet, InScratch, Key
<1>c. encoder[bake[s].run].broke \in BOOLEAN
  <2>1. encoder \in Files(Nat, Encoders)
    BY <1>1 DEF BakeTypeOK
  <2>2. encoder[bake[s].run] \in Encoders
    BY <1>4, <2>1, FileFacts
  <2> QED BY <2>2 DEF Encoders
<1>d. PICK broke : broke = encoder[bake[s].run].broke
  OBVIOUS
<1>6. PICK b : b = IF encoder[bake[s].run].at = "done"
                   THEN [bake[s] EXCEPT !.at = "read", !.fault = broke]
                   ELSE [bake[s] EXCEPT !.at = "clean", !.outcome = "failed", !.open = FALSE,
                                        !.fault = broke]
  OBVIOUS
<1>8. /\ b \in Bakes /\ b.key = bake[s].key /\ b.run = bake[s].run
      /\ b.fault = broke /\ b.container = bake[s].container
      /\ encoder[bake[s].run].at = "done" => b.at = "read" /\ b.outcome = bake[s].outcome
      /\ encoder[bake[s].run].at # "done" =>
           b.at = "clean" /\ b.outcome = "failed" /\ encoder[bake[s].run].at = "failed"
  BY <1>a, <1>c, <1>d, <1>6 DEF Exited, Bakes, Steps
<1>9. bake' = [bake EXCEPT ![s] = b]
  BY <1>1, <1>a, <1>d, <1>6 DEF Exited, Fails
<1>10. bake' \in [Servers -> Bakes] /\ bake'[s] = b /\ \A o \in Servers : o # s => bake'[o] = bake[o]
  BY <1>1, <1>8, <1>9
<1>12. encoder' \in Files(Nat, Encoders)
  <2>1. encoder \in Files(Nat, Encoders)
    BY <1>1 DEF BakeTypeOK
  <2> QED BY <1>2, <2>1, WithoutFiles
<1>13. /\ DOMAIN encoder' = DOMAIN encoder \ {bake[s].run}
       /\ \A i \in DOMAIN encoder : i # bake[s].run => encoder'[i] = encoder[i]
  BY <1>2 DEF Without, Restrict
<1>20. BakeTypeOK'
  BY <1>1, <1>2, <1>12, <1>10 DEF BakeTypeOK
<1>21. RunsApart'
  <2>1. \A o \in Servers : bake'[o].run = bake[o].run /\ (bake[o].at = "idle" => bake'[o].at = "idle")
    BY <1>2, <1>8, <1>10
  <2> QED BY <1>2, <2>1 DEF BakeInv, RunsApart, At
<1>22. KeysKnown'
  BY <1>2, <1>b, <1>8, <1>10 DEF BakeInv, KeysKnown, At, Key
<1>24. FilesMatch'
  BY <1>2, <1>13 DEF BakeInv, FilesMatch, Made, Whole, Key
<1>25. \A o \in Servers : InHand(o)'
  <2>1. InHand(s)'
    BY <1>2, <1>8, <1>10 DEF BakeInv, InHand, Whole, Key, At
  <2>2. ASSUME NEW o \in Servers, o # s PROVE InHand(o)'
    BY <1>2, <1>3, <1>10, <1>13, <2>2 DEF BakeInv, InHand, Whole, Publish, At, Key
  <2> QED BY <2>1, <2>2
<1>26. AloneUnlessMet'
  <2> SUFFICES ASSUME NEW o \in Servers, InScratch(o)', o \notin met'
               PROVE  Alone(o)' /\ Progress(o)'
    BY DEF AloneUnlessMet
  <2>1. InScratch(o) /\ o \notin met /\ Key(o)' = Key(o)
    BY <1>2, <1>b, <1>8, <1>10 DEF InScratch, Key
  <2>2. Alone(o) /\ Progress(o)
    BY <2>1 DEF BakeInv, AloneUnlessMet
  <2>3. Alone(o)'
    <3>1. \A x \in Servers : InScratch(x)' => InScratch(x) /\ Key(x)' = Key(x)
      BY <1>2, <1>b, <1>8, <1>10 DEF InScratch, Key
    <3>2. \A i \in DOMAIN encoder' : i # bake[s].run /\ i \in DOMAIN encoder /\ encoder'[i] = encoder[i]
      BY <1>13
    <3>3. \A x \in Servers : bake'[x].run = bake[x].run /\ (x # s => bake'[x] = bake[x])
      BY <1>8, <1>10
    <3> QED BY <1>4, <2>1, <2>2, <3>1, <3>2, <3>3 DEF Alone, At
  <2>4. CASE o = s
    BY <1>2, <1>d, <1>8, <1>10, <2>2, <2>3, <2>4 DEF Progress, At, Key, HasDump, Ran, Valid
  <2>5. CASE o # s
    <3>1. bake'[o] = bake[o]
      BY <1>10, <2>5
    <3>3. At(o, "wait") => bake[o].run \in DOMAIN encoder /\ bake[o].run # bake[s].run
      BY <1>3, <2>5 DEF BakeInv, InHand, At
    <3>4. Progress(o)'
      BY <1>2, <1>13, <2>2, <3>1, <3>3 DEF Progress, At, Key, HasSource, HasDump, Ran
    <3> QED BY <2>3, <3>4
  <2> QED BY <2>4, <2>5
<1>27. OnlySharedKeysFail'
  <2>1. s \in met \/ b.outcome = "none" \/ b.fault
    BY <1>2, <1>5, <1>d, <1>8 DEF Progress, At, Ran, BakeInv, InHand
  <2>2. \A o \in Servers : Key(o)' = Key(o)
    BY <1>8, <1>10 DEF Key
  <2> QED BY <1>2, <1>10, <2>1, <2>2 DEF BakeInv, OnlySharedKeysFail, Key
<1>28. FilesOwned'
  <2>1. \A o \in Servers : \A n : /\ OwnsSource(o, n) => OwnsSource(o, n)'
                                  /\ OwnsDump(o, n) => OwnsDump(o, n)'
                                  /\ OwnsTmp(o, n) => OwnsTmp(o, n)'
    BY <1>2, <1>b, <1>8, <1>10 DEF OwnsSource, OwnsDump, OwnsTmp, InScratch, At, Key, Publish
  <2>2. \A o \in Servers : \A i \in DOMAIN encoder' : OwnsEncoder(o, i) => OwnsEncoder(o, i)'
    BY <1>10, <1>13 DEF OwnsEncoder, At, Key
  <2>3. DOMAIN encoder' \subseteq DOMAIN encoder
    BY <1>13
  <2> QED BY <1>2, <2>1, <2>2, <2>3 DEF BakeInv, FilesOwned
<1> QED BY <1>20, <1>21, <1>22, <1>24, <1>25, <1>26, <1>27, <1>28 DEF BakeInv

\* The deadline ends the encoder with the bake.
LEMMA TimedOutKeeps == ASSUME BakeInv, NEW s \in Servers, TimedOut(s) PROVE BakeInv'
<1> USE BakeAssumption, ImagesAssumption
<1>1. BakeTypeOK /\ bake \in [Servers -> Bakes]
  BY DEF BakeInv, BakeTypeOK
<1>2. /\ UNCHANGED <<home, tool, known, source, dump, tmp, entry, begun>>
      /\ UNCHANGED <<faults, crashed, met, swapped>>
      /\ bake[s].at = "wait" /\ encoder' = Without(encoder, bake[s].run)
  BY DEF TimedOut, counters, history, At, scratch
<1>a. bake[s] \in Bakes /\ bake[s].key \in Keys /\ bake[s].run \in Nat
  BY <1>1 DEF Bakes
<1>b. bake[s].key.by > 0
  BY <1>2 DEF BakeInv, KeysKnown, Key
<1>3. \A o \in Servers : o # s => bake[o].run # bake[s].run
  <2>1. bake[s].run > 0
    BY <1>2 DEF BakeInv, RunsApart, At
  <2> QED BY <2>1, <1>a DEF BakeInv, RunsApart
<1>4. bake[s].run \in DOMAIN encoder /\ encoder[bake[s].run].key = Key(s)
  BY <1>2 DEF BakeInv, InHand, At
<1>5. s \notin met => Alone(s) /\ Progress(s)
  BY <1>2, <1>b DEF BakeInv, AloneUnlessMet, InScratch, Key
<1>6. PICK b : b = [bake[s] EXCEPT !.at = "clean", !.outcome = "timed out"]
  OBVIOUS
<1>8. /\ b \in Bakes /\ b.key = bake[s].key /\ b.run = bake[s].run /\ b.fault = bake[s].fault
      /\ b.open = bake[s].open /\ b.container = bake[s].container
      /\ b.at = "clean" /\ b.outcome = "timed out"
  BY <1>a, <1>6 DEF Bakes, Steps
<1>9. bake' = [bake EXCEPT ![s] = b]
  BY <1>1, <1>a, <1>6 DEF TimedOut
<1>10. bake' \in [Servers -> Bakes] /\ bake'[s] = b /\ \A o \in Servers : o # s => bake'[o] = bake[o]
  BY <1>1, <1>8, <1>9
<1>12. encoder' \in Files(Nat, Encoders)
  <2>1. encoder \in Files(Nat, Encoders)
    BY <1>1 DEF BakeTypeOK
  <2> QED BY <1>2, <2>1, WithoutFiles
<1>13. /\ DOMAIN encoder' = DOMAIN encoder \ {bake[s].run}
       /\ \A i \in DOMAIN encoder : i # bake[s].run => encoder'[i] = encoder[i]
  BY <1>2 DEF Without, Restrict
<1>20. BakeTypeOK'
  BY <1>1, <1>2, <1>12, <1>10 DEF BakeTypeOK
<1>21. RunsApart'
  <2>1. \A o \in Servers : bake'[o].run = bake[o].run /\ (bake[o].at = "idle" => bake'[o].at = "idle")
    BY <1>2, <1>8, <1>10
  <2> QED BY <1>2, <2>1 DEF BakeInv, RunsApart, At
<1>22. KeysKnown'
  BY <1>2, <1>b, <1>8, <1>10 DEF BakeInv, KeysKnown, At, Key
<1>24. FilesMatch'
  BY <1>2, <1>13 DEF BakeInv, FilesMatch, Made, Whole, Key
<1>25. \A o \in Servers : InHand(o)'
  <2>1. InHand(s)'
    BY <1>2, <1>8, <1>10 DEF BakeInv, InHand, Whole, Key, At
  <2>2. ASSUME NEW o \in Servers, o # s PROVE InHand(o)'
    BY <1>2, <1>3, <1>10, <1>13, <2>2 DEF BakeInv, InHand, Whole, Publish, At, Key
  <2> QED BY <2>1, <2>2
<1>26. AloneUnlessMet'
  <2> SUFFICES ASSUME NEW o \in Servers, InScratch(o)', o \notin met'
               PROVE  Alone(o)' /\ Progress(o)'
    BY DEF AloneUnlessMet
  <2>1. InScratch(o) /\ o \notin met /\ Key(o)' = Key(o)
    BY <1>2, <1>b, <1>8, <1>10 DEF InScratch, Key
  <2>2. Alone(o) /\ Progress(o)
    BY <2>1 DEF BakeInv, AloneUnlessMet
  <2>3. Alone(o)'
    <3>1. \A x \in Servers : InScratch(x)' => InScratch(x) /\ Key(x)' = Key(x)
      BY <1>2, <1>b, <1>8, <1>10 DEF InScratch, Key
    <3>2. \A i \in DOMAIN encoder' : i # bake[s].run /\ i \in DOMAIN encoder /\ encoder'[i] = encoder[i]
      BY <1>13
    <3>3. \A x \in Servers : bake'[x].run = bake[x].run /\ (x # s => bake'[x] = bake[x])
      BY <1>8, <1>10
    <3> QED BY <1>4, <2>1, <2>2, <3>1, <3>2, <3>3 DEF Alone, At
  <2>4. CASE o = s
    BY <1>2, <1>8, <1>10, <2>2, <2>3, <2>4 DEF Progress, At, Key, HasDump, Ran, Valid
  <2>5. CASE o # s
    <3>1. bake'[o] = bake[o]
      BY <1>10, <2>5
    <3>3. At(o, "wait") => bake[o].run \in DOMAIN encoder /\ bake[o].run # bake[s].run
      BY <1>3, <2>5 DEF BakeInv, InHand, At
    <3>4. Progress(o)'
      BY <1>2, <1>13, <2>2, <3>1, <3>3 DEF Progress, At, Key, HasSource, HasDump, Ran
    <3> QED BY <2>3, <3>4
  <2> QED BY <2>4, <2>5
<1>27. OnlySharedKeysFail'
  BY <1>2, <1>8, <1>10 DEF BakeInv, OnlySharedKeysFail, Key
<1>28. FilesOwned'
  <2>1. \A o \in Servers : \A n : /\ OwnsSource(o, n) => OwnsSource(o, n)'
                                  /\ OwnsDump(o, n) => OwnsDump(o, n)'
                                  /\ OwnsTmp(o, n) => OwnsTmp(o, n)'
    BY <1>2, <1>b, <1>8, <1>10 DEF OwnsSource, OwnsDump, OwnsTmp, InScratch, At, Key, Publish
  <2>2. \A o \in Servers : \A i \in DOMAIN encoder' : OwnsEncoder(o, i) => OwnsEncoder(o, i)'
    BY <1>10, <1>13 DEF OwnsEncoder, At, Key
  <2>3. DOMAIN encoder' \subseteq DOMAIN encoder
    BY <1>13
  <2> QED BY <1>2, <2>1, <2>2, <2>3 DEF BakeInv, FilesOwned
<1> QED BY <1>20, <1>21, <1>22, <1>24, <1>25, <1>26, <1>27, <1>28 DEF BakeInv

\* What is read back is a container of the key, or the bake has met another.
LEMMA ReadKeeps == ASSUME BakeInv, NEW s \in Servers, ReadDump(s) PROVE BakeInv'
<1> USE BakeAssumption, ImagesAssumption
<1>1. BakeTypeOK /\ bake \in [Servers -> Bakes]
  BY DEF BakeInv, BakeTypeOK
<1>2. /\ UNCHANGED <<home, tool, known, source, dump, tmp, entry, begun, encoder>>
      /\ UNCHANGED <<faults, crashed, met, swapped>>
      /\ bake[s].at = "read" /\ bake[s].outcome = "none"
  BY DEF ReadDump, counters, history, At, scratch, BakeInv, InHand
<1>a. bake[s] \in Bakes /\ bake[s].key \in Keys
  BY <1>1 DEF Bakes
<1>b. bake[s].key.by > 0
  BY <1>2 DEF BakeInv, KeysKnown, Key
<1> DEFINE found == Key(s) \in DOMAIN dump /\ Valid(dump[Key(s)])
<1>4. found => dump[Key(s)] \in Containers /\ Whole(dump[Key(s)], Key(s))
  <2>1. dump \in Files(Keys, Containers)
    BY <1>1 DEF BakeTypeOK
  <2>2. found => dump[Key(s)] \in Containers
    BY <2>1, FileFacts
  <2>3. \A k \in DOMAIN dump : Made(dump[k].head, k) /\ Made(dump[k].tail, k)
    BY DEF BakeInv, FilesMatch
  <2>4. \A c \in Containers, k \in Keys :
           Made(c.head, k) /\ Made(c.tail, k) /\ Valid(c) => Whole(c, k)
    BY DEF Made, Valid, Whole, Containers, Pieces, Keys, Container
  <2> QED BY <1>a, <2>2, <2>3, <2>4 DEF Key
<1>5. s \notin met /\ ~bake[s].fault => found
  BY <1>2, <1>b DEF BakeInv, AloneUnlessMet, InScratch, Key, Progress, HasDump, At
<1>6. PICK b : b = IF found THEN [bake[s] EXCEPT !.at = "create", !.container = dump[Key(s)]]
                   ELSE [bake[s] EXCEPT !.at = "clean", !.outcome = "failed", !.open = FALSE]
  OBVIOUS
<1>8. /\ b \in Bakes /\ b.key = bake[s].key /\ b.run = bake[s].run /\ b.fault = bake[s].fault
      /\ found => b.at = "create" /\ b.outcome = "none" /\ Whole(b.container, bake[s].key)
      /\ ~found => b.at = "clean" /\ b.outcome = "failed" /\ b.container = bake[s].container
  <2>1. CASE found
    <3>1. b = [bake[s] EXCEPT !.at = "create", !.container = dump[Key(s)]]
      BY <1>6, <2>1
    <3> HIDE DEF found
    <3> QED BY <1>2, <1>a, <1>4, <2>1, <3>1 DEF Bakes, Steps, Key
  <2>2. CASE ~found
    <3>1. b = [bake[s] EXCEPT !.at = "clean", !.outcome = "failed", !.open = FALSE]
      BY <1>6, <2>2
    <3> HIDE DEF found
    <3> QED BY <1>a, <2>2, <3>1 DEF Bakes, Steps
  <2> QED BY <2>1, <2>2
<1>9. bake' = [bake EXCEPT ![s] = b]
  <2>1. CASE found
    BY <1>1, <1>a, <1>6, <2>1 DEF ReadDump, Scratch
  <2>2. CASE ~found
    BY <1>1, <1>a, <1>6, <2>2 DEF ReadDump, Scratch, Fails, Bakes
  <2> QED BY <2>1, <2>2
<1>10. bake' \in [Servers -> Bakes] /\ bake'[s] = b /\ \A o \in Servers : o # s => bake'[o] = bake[o]
  BY <1>1, <1>8, <1>9
<1> HIDE DEF found
<1>11. /\ s \notin met /\ ~b.fault => b.at = "create" /\ b.outcome = "none"
       /\ \/ b.at = "create" /\ b.outcome = "none" /\ Whole(b.container, bake[s].key)
          \/ b.at = "clean" /\ b.outcome = "failed"
  BY <1>5, <1>8
<1>20. BakeTypeOK'
  BY <1>1, <1>2, <1>10 DEF BakeTypeOK
<1>21. RunsApart'
  BY <1>2, <1>b, <1>8, <1>10, <1>11 DEF BakeInv, RunsApart, At
<1>22. KeysKnown'
  BY <1>2, <1>b, <1>8, <1>10, <1>11 DEF BakeInv, KeysKnown, At, Key
<1>24. FilesMatch'
  BY <1>2, <1>b, <1>8, <1>10, <1>11 DEF BakeInv, FilesMatch, Made, Whole
<1>25. \A o \in Servers : InHand(o)'
  BY <1>2, <1>b, <1>8, <1>10, <1>11 DEF BakeInv, InHand, Whole, Publish, At, Key
<1>26. AloneUnlessMet'
  BY <1>2, <1>b, <1>8, <1>10, <1>11 DEF BakeInv, AloneUnlessMet, InScratch, At, Key, Alone, Progress, HasSource, HasDump, Ran
<1>27. OnlySharedKeysFail'
  BY <1>2, <1>b, <1>8, <1>10, <1>11 DEF BakeInv, OnlySharedKeysFail, Key
<1>28. \A o \in Servers : \A n : /\ OwnsSource(o, n) => OwnsSource(o, n)'
                                 /\ OwnsDump(o, n) => OwnsDump(o, n)'
                                 /\ OwnsTmp(o, n) => OwnsTmp(o, n)'
                                 /\ OwnsEncoder(o, n) => OwnsEncoder(o, n)'
  BY <1>2, <1>b, <1>8, <1>10, <1>11 DEF BakeInv, OwnsSource, OwnsDump, OwnsTmp, OwnsEncoder, InScratch, At, Key, Publish
<1>29. FilesOwned'
  BY <1>2, <1>28 DEF BakeInv, FilesOwned
<1> QED BY <1>20, <1>21, <1>22, <1>24, <1>25, <1>26, <1>27, <1>29 DEF BakeInv

\* The handoff is removed for every bake of the key.
LEMMA CleanSourceKeeps == ASSUME BakeInv, NEW s \in Servers, CleanSource(s) PROVE BakeInv'
<1> USE BakeAssumption, ImagesAssumption
<1>1. BakeTypeOK /\ bake \in [Servers -> Bakes]
  BY DEF BakeInv, BakeTypeOK
<1>2. /\ UNCHANGED <<home, tool, known, encoder, dump, tmp, entry, begun>>
      /\ UNCHANGED <<faults, crashed, met, swapped>>
      /\ bake[s].at = "clean" /\ source' = Without(source, Key(s))
  BY DEF CleanSource, counters, history, At, Scratch
<1>3. bake[s].key.by > 0
  BY <1>2 DEF BakeInv, KeysKnown, Key
<1>4. source' \in Files(Keys, Images \cup {"empty"})
  <2>1. source \in Files(Keys, Images \cup {"empty"})
    BY <1>1 DEF BakeTypeOK
  <2> QED BY <1>2, <2>1, WithoutFiles
<1>5. /\ DOMAIN source' = DOMAIN source \ {Key(s)}
      /\ \A k \in DOMAIN source : k # Key(s) => source'[k] = source[k]
  BY <1>2 DEF Without, Restrict
<1>6. \A o \in Servers :
        /\ bake'[o] \in Bakes
        /\ bake'[o].at = (IF o = s THEN "cleanDump" ELSE bake[o].at)
        /\ bake'[o].key = bake[o].key /\ bake'[o].run = bake[o].run
        /\ bake'[o].container = bake[o].container /\ bake'[o].outcome = bake[o].outcome
        /\ bake'[o].fault = bake[o].fault
        /\ o # s /\ Key(o) # Key(s) => bake'[o] = bake[o]
  <2> SUFFICES ASSUME NEW o \in Servers
               PROVE  /\ bake'[o] \in Bakes
                      /\ bake'[o].at = (IF o = s THEN "cleanDump" ELSE bake[o].at)
                      /\ bake'[o].key = bake[o].key /\ bake'[o].run = bake[o].run
                      /\ bake'[o].container = bake[o].container
                      /\ bake'[o].outcome = bake[o].outcome /\ bake'[o].fault = bake[o].fault
                      /\ o # s /\ Key(o) # Key(s) => bake'[o] = bake[o]
    OBVIOUS
  <2>1. bake[o] \in Bakes
    BY <1>1
  <2>2. \/ o = s /\ bake'[o] = [bake[o] EXCEPT !.at = "cleanDump"]
        \/ o # s /\ Key(o) = Key(s) /\ bake'[o] = [bake[o] EXCEPT !.open = FALSE]
        \/ o # s /\ bake'[o] = bake[o]
    BY DEF CleanSource, Scratch
  <2> QED BY <2>1, <2>2 DEF Bakes, Steps
<1>7. bake' \in [Servers -> Bakes]
  <2>1. \E f : f = bake' /\ DOMAIN f = Servers /\ f = [o \in DOMAIN f |-> f[o]]
    BY DEF CleanSource
  <2> QED BY <1>6, <2>1
<1>20. BakeTypeOK'
  BY <1>1, <1>2, <1>4, <1>7 DEF BakeTypeOK
<1>21. RunsApart'
  BY <1>2, <1>3, <1>6 DEF BakeInv, RunsApart, At
<1>22. KeysKnown'
  BY <1>2, <1>3, <1>6 DEF BakeInv, KeysKnown, At, Key
<1>24. FilesMatch'
  BY <1>2, <1>5 DEF BakeInv, FilesMatch, Made, Whole, Key
<1>25. \A o \in Servers : InHand(o)'
  BY <1>2, <1>3, <1>6 DEF BakeInv, InHand, Whole, Publish, At, Key
<1>26. AloneUnlessMet'
  <2> SUFFICES ASSUME NEW o \in Servers, InScratch(o)', o \notin met'
               PROVE  Alone(o)' /\ Progress(o)'
    BY DEF AloneUnlessMet
  <2>1. InScratch(o) /\ o \notin met /\ Key(o)' = Key(o)
    BY <1>2, <1>3, <1>6 DEF InScratch, Key
  <2>2. Alone(o) /\ Progress(o)
    BY <2>1 DEF BakeInv, AloneUnlessMet
  <2>3. Alone(o)'
    <3>1. \A x \in Servers : InScratch(x)' => InScratch(x) /\ Key(x)' = Key(x)
      BY <1>2, <1>3, <1>6 DEF InScratch, Key
    <3>2. (At(o, "wait") => At(o, "wait")') /\ bake'[o].run = bake[o].run
      BY <1>2, <1>6 DEF At
    <3> QED BY <1>2, <2>1, <2>2, <3>1, <3>2 DEF Alone
  <2>4. CASE o = s
    BY <1>6, <2>3, <2>4 DEF Progress, At
  <2>5. CASE o # s
    <3>1. Key(o) # Key(s) /\ bake'[o] = bake[o]
      BY <1>2, <1>3, <1>6, <2>2, <2>5 DEF Alone, InScratch, Key
    <3>2. Progress(o)'
      BY <1>2, <1>5, <2>2, <3>1 DEF Progress, At, Key, HasSource, HasDump, Ran
    <3> QED BY <2>3, <3>2
  <2> QED BY <2>4, <2>5
<1>27. OnlySharedKeysFail'
  BY <1>2, <1>3, <1>6 DEF BakeInv, OnlySharedKeysFail, Key
<1>28. FilesOwned'
  <2>1. \A o \in Servers : \A n : /\ n # Key(s) /\ OwnsSource(o, n) => OwnsSource(o, n)'
                                  /\ OwnsDump(o, n) => OwnsDump(o, n)'
                                  /\ OwnsTmp(o, n) => OwnsTmp(o, n)'
                                  /\ OwnsEncoder(o, n) => OwnsEncoder(o, n)'
    BY <1>2, <1>3, <1>6 DEF OwnsSource, OwnsDump, OwnsTmp, OwnsEncoder, InScratch, At, Key, Publish
  <2>2. \A k \in DOMAIN source' : k \in DOMAIN source /\ k # Key(s)
    BY <1>5
  <2> QED BY <1>2, <2>1, <2>2 DEF BakeInv, FilesOwned
<1> QED BY <1>20, <1>21, <1>22, <1>24, <1>25, <1>26, <1>27, <1>28 DEF BakeInv

\* A bake leaves no scratch file of its key.
LEMMA CleanDumpKeeps == ASSUME BakeInv, NEW s \in Servers, CleanDump(s) PROVE BakeInv'
<1> USE BakeAssumption, ImagesAssumption
<1>1. BakeTypeOK /\ bake \in [Servers -> Bakes]
  BY DEF BakeInv, BakeTypeOK
<1>2. /\ UNCHANGED <<home, tool, known, source, tmp, entry, begun>>
      /\ UNCHANGED <<faults, crashed, met, swapped>>
      /\ bake[s].at = "cleanDump" /\ dump' = Without(dump, Key(s))
  BY DEF CleanDump, counters, history, At, Scratch
<1>3. bake[s] \in Bakes /\ bake[s].key.by > 0
  BY <1>1, <1>2 DEF BakeInv, KeysKnown, Key
<1>4. dump' \in Files(Keys, Containers)
  <2>1. dump \in Files(Keys, Containers)
    BY <1>1 DEF BakeTypeOK
  <2> QED BY <1>2, <2>1, WithoutFiles
<1>5. /\ DOMAIN dump' = DOMAIN dump \ {Key(s)}
      /\ \A k \in DOMAIN dump : k # Key(s) => dump'[k] = dump[k]
  BY <1>2 DEF Without, Restrict
<1>6. encoder \in Files(Nat, Encoders) /\ \A e \in DOMAIN encoder : encoder[e] \in Encoders
  <2>1. encoder \in Files(Nat, Encoders)
    BY <1>1 DEF BakeTypeOK
  <2> QED BY <2>1, FileFacts
<1>7. /\ DOMAIN encoder' = DOMAIN encoder
      /\ \A e \in DOMAIN encoder :
           /\ encoder'[e] \in Encoders
           /\ encoder'[e].at = encoder[e].at /\ encoder'[e].tool = encoder[e].tool
           /\ encoder'[e].key = encoder[e].key /\ encoder'[e].out = encoder[e].out
           /\ encoder'[e].image = encoder[e].image /\ encoder'[e].broke = encoder[e].broke
           /\ encoder[e].out # Key(s) => encoder'[e].open = encoder[e].open
  <2>1. DOMAIN encoder' = DOMAIN encoder
    BY DEF CleanDump
  <2>2. ASSUME NEW e \in DOMAIN encoder
        PROVE  /\ encoder'[e] \in Encoders
               /\ encoder'[e].at = encoder[e].at /\ encoder'[e].tool = encoder[e].tool
               /\ encoder'[e].key = encoder[e].key /\ encoder'[e].out = encoder[e].out
               /\ encoder'[e].image = encoder[e].image /\ encoder'[e].broke = encoder[e].broke
               /\ encoder[e].out # Key(s) => encoder'[e].open = encoder[e].open
    <3>1. encoder'[e] = [encoder[e] EXCEPT !.open = encoder[e].open /\ encoder[e].out # Key(s)]
      BY DEF CleanDump, Scratch
    <3>2. encoder[e] \in Encoders /\ encoder[e].open \in BOOLEAN
      BY <1>6 DEF Encoders
    <3>3. CASE encoder[e].out # Key(s)
      <4>1. encoder'[e] = [encoder[e] EXCEPT !.open = encoder[e].open]
        BY <3>1, <3>2, <3>3
      <4> QED BY <3>2, <4>1 DEF Encoders
    <3>4. CASE encoder[e].out = Key(s)
      <4>1. encoder'[e] = [encoder[e] EXCEPT !.open = FALSE]
        BY <3>1, <3>2, <3>4
      <4> QED BY <3>2, <3>4, <4>1 DEF Encoders
    <3> QED BY <3>3, <3>4
  <2> QED BY <2>1, <2>2
<1>a. encoder' \in Files(Nat, Encoders)
  <2>1. \E f : f = encoder' /\ f = [e \in DOMAIN f |-> f[e]]
    BY DEF CleanDump
  <2>2. encoder' \in [DOMAIN encoder -> Encoders]
    BY <1>7, <2>1
  <2>3. DOMAIN encoder \in SUBSET Nat
    BY <1>6, FileFacts
  <2> QED BY <2>2, <2>3 DEF Files
<1>b. PICK b : b = [bake[s] EXCEPT !.at = "idle"]
  OBVIOUS
<1>8. /\ b \in Bakes /\ b.at = "idle" /\ b.key = bake[s].key /\ b.run = bake[s].run /\ b.fault = bake[s].fault
      /\ b.open = bake[s].open /\ b.container = bake[s].container
      /\ b.outcome = bake[s].outcome
  BY <1>3, <1>b DEF Bakes, Steps
<1>9. bake' = [bake EXCEPT ![s] = b]
  BY <1>1, <1>b DEF CleanDump, Goes
<1>10. bake' \in [Servers -> Bakes] /\ bake'[s] = b /\ \A o \in Servers : o # s => bake'[o] = bake[o]
  BY <1>1, <1>8, <1>9
<1>20. BakeTypeOK'
  BY <1>1, <1>2, <1>4, <1>10, <1>a DEF BakeTypeOK
<1>21. RunsApart'
  BY <1>2, <1>3, <1>8, <1>10 DEF BakeInv, RunsApart, At
<1>22. KeysKnown'
  BY <1>2, <1>3, <1>8, <1>10 DEF BakeInv, KeysKnown, At, Key
<1>24. FilesMatch'
  BY <1>2, <1>5, <1>7 DEF BakeInv, FilesMatch, Made, Whole, Key
<1>25. \A o \in Servers : InHand(o)'
  BY <1>2, <1>7, <1>8, <1>10 DEF BakeInv, InHand, Whole, Publish, At, Key
<1>26. AloneUnlessMet'
  <2> SUFFICES ASSUME NEW o \in Servers, InScratch(o)', o \notin met'
               PROVE  Alone(o)' /\ Progress(o)'
    BY DEF AloneUnlessMet
  <2>1. o # s /\ InScratch(o) /\ o \notin met /\ Key(o)' = Key(o) /\ bake'[o] = bake[o]
    BY <1>2, <1>3, <1>8, <1>10 DEF InScratch, Key
  <2>2. Alone(o) /\ Progress(o)
    BY <2>1 DEF BakeInv, AloneUnlessMet
  <2>3. Alone(o)'
    BY <1>2, <1>3, <1>7, <1>8, <1>10, <2>1, <2>2 DEF Alone, InScratch, At, Key
  <2>4. Key(o) # Key(s)
    BY <1>2, <1>3, <2>1, <2>2 DEF Alone, InScratch, Key
  <2>5. At(o, "wait") => /\ bake[o].run \in DOMAIN encoder
                         /\ encoder[bake[o].run].out = Key(o)
    BY DEF BakeInv, InHand, FilesMatch, Key
  <2>6. Progress(o)'
    BY <1>2, <1>5, <1>7, <2>1, <2>2, <2>4, <2>5 DEF Progress, At, Key, HasSource, HasDump, Ran
  <2> QED BY <2>3, <2>6
<1>27. OnlySharedKeysFail'
  BY <1>2, <1>3, <1>8, <1>10 DEF BakeInv, OnlySharedKeysFail, Key
<1>28. FilesOwned'
  <2>1. \A o \in Servers : \A n : /\ OwnsSource(o, n) => OwnsSource(o, n)'
                                  /\ n # Key(s) /\ OwnsDump(o, n) => OwnsDump(o, n)'
                                  /\ OwnsTmp(o, n) => OwnsTmp(o, n)'
    BY <1>2, <1>3, <1>8, <1>10 DEF OwnsSource, OwnsDump, OwnsTmp, InScratch, At, Key, Publish
  <2>2. \A k \in DOMAIN dump' : k \in DOMAIN dump /\ k # Key(s)
    BY <1>5
  <2>3. \A o \in Servers : \A i \in DOMAIN encoder : OwnsEncoder(o, i) => OwnsEncoder(o, i)'
    BY <1>2, <1>7, <1>8, <1>10 DEF OwnsEncoder, At, Key
  <2>4. DOMAIN encoder' = DOMAIN encoder
    BY <1>7
  <2> QED BY <1>2, <2>1, <2>2, <2>3, <2>4 DEF BakeInv, FilesOwned
<1> QED BY <1>20, <1>21, <1>22, <1>24, <1>25, <1>26, <1>27, <1>28 DEF BakeInv

\* A temporary file is one bake's.
LEMMA CreateTmpKeeps == ASSUME BakeInv, NEW s \in Servers, CreateTmp(s) PROVE BakeInv'
<1> USE BakeAssumption, ImagesAssumption
<1>1. BakeTypeOK /\ bake \in [Servers -> Bakes]
  BY DEF BakeInv, BakeTypeOK
<1>2. /\ UNCHANGED <<home, tool, known, encoder, source, dump, entry, begun>>
      /\ UNCHANGED <<faults, crashed, met, swapped>>
      /\ bake[s].at = "create" /\ tmp' = Put(tmp, Publish(s), Nothing)
  BY DEF CreateTmp, counters, history, At, scratch
<1>a. /\ bake[s] \in Bakes /\ bake[s].key \in Keys /\ bake[s].container \in Containers
      /\ tmp \in Files(Processes \X Nat, Containers) /\ Publish(s) \in Processes \X Nat
      /\ bake[s].key.by \in Nat
  <2>1. bake[s] \in Bakes /\ home[s] \in Processes /\ tmp \in Files(Processes \X Nat, Containers)
    BY <1>1 DEF BakeTypeOK
  <2>2. bake[s].key.by \in Nat
    BY <1>2 DEF BakeInv, KeysKnown, Key
  <2> QED BY <2>1, <2>2 DEF Bakes, Publish
<1>3. \A o \in Servers : o # s => Publish(o) # Publish(s)
  <2>1. bake[s].run > 0 /\ bake[s].run \in Nat
    BY <1>1, <1>2 DEF BakeInv, RunsApart, At, Bakes
  <2> QED BY <2>1 DEF BakeInv, RunsApart, Publish
<1>4. tmp' \in Files(Processes \X Nat, Containers)
  <2>1. Nothing \in Containers
    BY <1>a, IdleIsABake
  <2> QED BY <1>2, <1>a, <2>1, PutFiles
<1>6. PICK b : b = [bake[s] EXCEPT !.at = "write"]
  OBVIOUS
<1>8. /\ b \in Bakes /\ b.at = "write" /\ b.key = bake[s].key /\ b.run = bake[s].run /\ b.fault = bake[s].fault
      /\ b.open = bake[s].open /\ b.container = bake[s].container
      /\ b.outcome = bake[s].outcome
  BY <1>a, <1>6 DEF Bakes, Steps
<1>9. bake' = [bake EXCEPT ![s] = b]
  BY <1>1, <1>a, <1>4, <1>6 DEF CreateTmp, Goes
<1>10. bake' \in [Servers -> Bakes] /\ bake'[s] = b /\ \A o \in Servers : o # s => bake'[o] = bake[o]
  BY <1>1, <1>8, <1>9
<1>11. /\ DOMAIN tmp' = DOMAIN tmp \cup {Publish(s)} /\ tmp'[Publish(s)] = Nothing
       /\ \A n \in DOMAIN tmp : n # Publish(s) => tmp'[n] = tmp[n]
  BY <1>2 DEF Put
<1>12. \A o \in Servers : Publish(o)' = Publish(o)
  BY <1>2, <1>8, <1>10 DEF Publish
<1>20. BakeTypeOK'
  BY <1>1, <1>2, <1>10, <1>4 DEF BakeTypeOK
<1>21. RunsApart'
  BY <1>2, <1>a, <1>8, <1>10 DEF BakeInv, RunsApart, At
<1>22. KeysKnown'
  BY <1>2, <1>a, <1>8, <1>10 DEF BakeInv, KeysKnown, At, Key
<1>24. FilesMatch'
  BY <1>2, <1>a, <1>8, <1>10 DEF BakeInv, FilesMatch, Made, Whole
<1>25. \A o \in Servers : InHand(o)'
  <2>1. InHand(s)'
    BY <1>2, <1>8, <1>10, <1>11, <1>12 DEF BakeInv, InHand, Whole, Key, At
  <2>2. ASSUME NEW o \in Servers, o # s PROVE InHand(o)'
    <3>1. bake'[o] = bake[o] /\ Publish(o) # Publish(s) /\ InHand(o)
      BY <1>3, <1>10, <2>2 DEF BakeInv
    <3> QED BY <1>2, <1>11, <1>12, <3>1 DEF InHand, Whole, At, Key
  <2> QED BY <2>1, <2>2
<1>26. AloneUnlessMet'
  BY <1>2, <1>a, <1>8, <1>10 DEF BakeInv, AloneUnlessMet, InScratch, At, Key, Alone, Progress, HasSource, HasDump, Ran
<1>27. OnlySharedKeysFail'
  BY <1>2, <1>a, <1>8, <1>10 DEF BakeInv, OnlySharedKeysFail, Key
<1>28. FilesOwned'
  <2>1. \A o \in Servers : \A n : /\ OwnsSource(o, n) => OwnsSource(o, n)'
                                  /\ OwnsDump(o, n) => OwnsDump(o, n)'
                                  /\ OwnsTmp(o, n) => OwnsTmp(o, n)'
                                  /\ OwnsEncoder(o, n) => OwnsEncoder(o, n)'
    BY <1>2, <1>8, <1>10, <1>12 DEF OwnsSource, OwnsDump, OwnsTmp, OwnsEncoder, InScratch, At, Key
  <2>2. OwnsTmp(s, Publish(s))'
    BY <1>8, <1>10 DEF OwnsTmp
  <2> QED BY <1>2, <1>11, <1>12, <2>1, <2>2 DEF BakeInv, FilesOwned
<1> QED BY <1>20, <1>21, <1>22, <1>24, <1>25, <1>26, <1>27, <1>28 DEF BakeInv

\* A written temporary file is what the bake returns.
LEMMA WriteTmpKeeps == ASSUME BakeInv, NEW s \in Servers, WriteTmp(s) PROVE BakeInv'
<1> USE BakeAssumption, ImagesAssumption
<1>1. BakeTypeOK /\ bake \in [Servers -> Bakes]
  BY DEF BakeInv, BakeTypeOK
<1>2. /\ UNCHANGED <<home, tool, known, encoder, source, dump, entry, begun>>
      /\ UNCHANGED <<faults, crashed, met, swapped>>
      /\ bake[s].at = "write" /\ tmp' = Put(tmp, Publish(s), bake[s].container)
  BY DEF WriteTmp, counters, history, At, scratch
<1>a. /\ bake[s] \in Bakes /\ bake[s].key \in Keys /\ bake[s].container \in Containers
      /\ tmp \in Files(Processes \X Nat, Containers) /\ Publish(s) \in Processes \X Nat
      /\ bake[s].key.by \in Nat
  <2>1. bake[s] \in Bakes /\ home[s] \in Processes /\ tmp \in Files(Processes \X Nat, Containers)
    BY <1>1 DEF BakeTypeOK
  <2>2. bake[s].key.by \in Nat
    BY <1>2 DEF BakeInv, KeysKnown, Key
  <2> QED BY <2>1, <2>2 DEF Bakes, Publish
<1>3. \A o \in Servers : o # s => Publish(o) # Publish(s)
  <2>1. bake[s].run > 0 /\ bake[s].run \in Nat
    BY <1>1, <1>2 DEF BakeInv, RunsApart, At, Bakes
  <2> QED BY <2>1 DEF BakeInv, RunsApart, Publish
<1>4. tmp' \in Files(Processes \X Nat, Containers)
  <2>1. bake[s].container \in Containers
    BY <1>a, IdleIsABake
  <2> QED BY <1>2, <1>a, <2>1, PutFiles
<1>6. PICK b : b = [bake[s] EXCEPT !.at = "rename"]
  OBVIOUS
<1>8. /\ b \in Bakes /\ b.at = "rename" /\ b.key = bake[s].key /\ b.run = bake[s].run /\ b.fault = bake[s].fault
      /\ b.open = bake[s].open /\ b.container = bake[s].container
      /\ b.outcome = bake[s].outcome
  BY <1>a, <1>6 DEF Bakes, Steps
<1>9. bake' = [bake EXCEPT ![s] = b]
  BY <1>1, <1>a, <1>4, <1>6 DEF WriteTmp, Goes
<1>10. bake' \in [Servers -> Bakes] /\ bake'[s] = b /\ \A o \in Servers : o # s => bake'[o] = bake[o]
  BY <1>1, <1>8, <1>9
<1>11. /\ DOMAIN tmp' = DOMAIN tmp \cup {Publish(s)} /\ tmp'[Publish(s)] = bake[s].container
       /\ \A n \in DOMAIN tmp : n # Publish(s) => tmp'[n] = tmp[n]
  BY <1>2 DEF Put
<1>12. \A o \in Servers : Publish(o)' = Publish(o)
  BY <1>2, <1>8, <1>10 DEF Publish
<1>20. BakeTypeOK'
  BY <1>1, <1>2, <1>10, <1>4 DEF BakeTypeOK
<1>21. RunsApart'
  BY <1>2, <1>a, <1>8, <1>10 DEF BakeInv, RunsApart, At
<1>22. KeysKnown'
  BY <1>2, <1>a, <1>8, <1>10 DEF BakeInv, KeysKnown, At, Key
<1>24. FilesMatch'
  BY <1>2, <1>a, <1>8, <1>10 DEF BakeInv, FilesMatch, Made, Whole
<1>25. \A o \in Servers : InHand(o)'
  <2>1. InHand(s)'
    BY <1>2, <1>8, <1>10, <1>11, <1>12 DEF BakeInv, InHand, Whole, Key, At
  <2>2. ASSUME NEW o \in Servers, o # s PROVE InHand(o)'
    <3>1. bake'[o] = bake[o] /\ Publish(o) # Publish(s) /\ InHand(o)
      BY <1>3, <1>10, <2>2 DEF BakeInv
    <3> QED BY <1>2, <1>11, <1>12, <3>1 DEF InHand, Whole, At, Key
  <2> QED BY <2>1, <2>2
<1>26. AloneUnlessMet'
  BY <1>2, <1>a, <1>8, <1>10 DEF BakeInv, AloneUnlessMet, InScratch, At, Key, Alone, Progress, HasSource, HasDump, Ran
<1>27. OnlySharedKeysFail'
  BY <1>2, <1>a, <1>8, <1>10 DEF BakeInv, OnlySharedKeysFail, Key
<1>28. FilesOwned'
  <2>1. \A o \in Servers : \A n : /\ OwnsSource(o, n) => OwnsSource(o, n)'
                                  /\ OwnsDump(o, n) => OwnsDump(o, n)'
                                  /\ OwnsTmp(o, n) => OwnsTmp(o, n)'
                                  /\ OwnsEncoder(o, n) => OwnsEncoder(o, n)'
    BY <1>2, <1>8, <1>10, <1>12 DEF OwnsSource, OwnsDump, OwnsTmp, OwnsEncoder, InScratch, At, Key
  <2>2. OwnsTmp(s, Publish(s))'
    BY <1>8, <1>10 DEF OwnsTmp
  <2> QED BY <1>2, <1>11, <1>12, <2>1, <2>2 DEF BakeInv, FilesOwned
<1> QED BY <1>20, <1>21, <1>22, <1>24, <1>25, <1>26, <1>27, <1>28 DEF BakeInv

\* A published entry is whole and of its key.
LEMMA RenameTmpKeeps == ASSUME BakeInv, NEW s \in Servers, RenameTmp(s) PROVE BakeInv'
<1> USE BakeAssumption, ImagesAssumption
<1>1. BakeTypeOK /\ bake \in [Servers -> Bakes]
  BY DEF BakeInv, BakeTypeOK
<1>2. /\ UNCHANGED <<home, tool, known, encoder, source, dump, begun>>
      /\ UNCHANGED <<faults, crashed, met, swapped>>
      /\ bake[s].at = "rename" /\ tmp' = Without(tmp, Publish(s))
  BY DEF RenameTmp, counters, history, At, scratch
<1>a. /\ bake[s] \in Bakes /\ bake[s].key \in Keys /\ bake[s].container \in Containers
      /\ tmp \in Files(Processes \X Nat, Containers) /\ Publish(s) \in Processes \X Nat
      /\ bake[s].key.by \in Nat
  <2>1. bake[s] \in Bakes /\ home[s] \in Processes /\ tmp \in Files(Processes \X Nat, Containers)
    BY <1>1 DEF BakeTypeOK
  <2>2. bake[s].key.by \in Nat
    BY <1>2 DEF BakeInv, KeysKnown, Key
  <2> QED BY <2>1, <2>2 DEF Bakes, Publish
<1>3. \A o \in Servers : o # s => Publish(o) # Publish(s)
  <2>1. bake[s].run > 0 /\ bake[s].run \in Nat
    BY <1>1, <1>2 DEF BakeInv, RunsApart, At, Bakes
  <2> QED BY <2>1 DEF BakeInv, RunsApart, Publish
<1>b. /\ Publish(s) \in DOMAIN tmp /\ tmp[Publish(s)] = bake[s].container
      /\ Whole(bake[s].container, bake[s].key)
  BY <1>2 DEF BakeInv, InHand, At, Key
<1>c. tmp' \in Files(Processes \X Nat, Containers)
  BY <1>2, <1>a, WithoutFiles
<1>4. entry' = Put(entry, Key(s), bake[s].container)
  BY <1>b DEF RenameTmp
<1>5. entry' \in Files(Keys, Containers)
  <2>1. entry \in Files(Keys, Containers) /\ Key(s) \in Keys
    BY <1>1, <1>a DEF BakeTypeOK, Key
  <2> QED BY <1>4, <1>a, <2>1, PutFiles
<1>7. /\ DOMAIN entry' = DOMAIN entry \cup {Key(s)} /\ entry'[Key(s)] = bake[s].container
      /\ \A k \in DOMAIN entry : k # Key(s) => entry'[k] = entry[k]
      /\ Whole(entry'[Key(s)], Key(s))
  BY <1>b, <1>4 DEF Put, Key
<1>6. PICK b : b = [bake[s] EXCEPT !.at = Stored(s), !.outcome = "baked"]
  OBVIOUS
<1>8. /\ b \in Bakes /\ b.key = bake[s].key /\ b.run = bake[s].run /\ b.fault = bake[s].fault
      /\ b.open = bake[s].open /\ b.container = bake[s].container
      /\ b.outcome = "baked" /\ b.at \in {"idle", "clean"}
      /\ b.at = "clean" <=> bake[s].key.by # 0
  <2>1. PICK at : at = Stored(s)
    OBVIOUS
  <2>2. b = [bake[s] EXCEPT !.at = at, !.outcome = "baked"]
    BY <1>6, <2>1
  <2>3. at \in {"idle", "clean"} /\ (at = "clean" <=> bake[s].key.by # 0)
    BY <2>1 DEF Key, Stored
  <2> QED BY <1>a, <2>2, <2>3 DEF Bakes, Steps
<1>9. bake' = [bake EXCEPT ![s] = b]
  BY <1>1, <1>a, <1>b, <1>6 DEF RenameTmp
<1>10. bake' \in [Servers -> Bakes] /\ bake'[s] = b /\ \A o \in Servers : o # s => bake'[o] = bake[o]
  BY <1>1, <1>8, <1>9
<1>11. /\ DOMAIN tmp' = DOMAIN tmp \ {Publish(s)}
       /\ \A n \in DOMAIN tmp : n # Publish(s) => tmp'[n] = tmp[n]
  BY <1>2 DEF Without, Restrict
<1>13. Whole(b.container, b.key)
  BY <1>b, <1>8
<1>12. \A o \in Servers : Publish(o)' = Publish(o)
  BY <1>2, <1>8, <1>10 DEF Publish
<1>20. BakeTypeOK'
  BY <1>1, <1>2, <1>10, <1>5, <1>c DEF BakeTypeOK
<1>21. RunsApart'
  BY <1>2, <1>a, <1>8, <1>10 DEF BakeInv, RunsApart, At
<1>22. KeysKnown'
  BY <1>2, <1>a, <1>8, <1>10 DEF BakeInv, KeysKnown, At, Key
<1>24. FilesMatch'
  BY <1>2, <1>7 DEF BakeInv, FilesMatch, Made, Whole, Key
<1>25. \A o \in Servers : InHand(o)'
  <2>1. InHand(s)'
    BY <1>2, <1>8, <1>10, <1>11, <1>12, <1>13 DEF BakeInv, InHand, Whole, Key, At
  <2>2. ASSUME NEW o \in Servers, o # s PROVE InHand(o)'
    <3>1. bake'[o] = bake[o] /\ Publish(o) # Publish(s) /\ InHand(o)
      BY <1>3, <1>10, <2>2 DEF BakeInv
    <3> QED BY <1>2, <1>11, <1>12, <3>1 DEF InHand, Whole, At, Key
  <2> QED BY <2>1, <2>2
<1>26. AloneUnlessMet'
  BY <1>2, <1>a, <1>8, <1>10 DEF BakeInv, AloneUnlessMet, InScratch, At, Key, Alone, Progress, HasSource, HasDump, Ran
<1>27. OnlySharedKeysFail'
  BY <1>2, <1>8, <1>10 DEF BakeInv, OnlySharedKeysFail, Key
<1>28. FilesOwned'
  <2>1. \A o \in Servers : \A n : /\ OwnsSource(o, n) => OwnsSource(o, n)'
                                  /\ OwnsDump(o, n) => OwnsDump(o, n)'
                                  /\ n # Publish(s) /\ OwnsTmp(o, n) => OwnsTmp(o, n)'
                                  /\ OwnsEncoder(o, n) => OwnsEncoder(o, n)'
    BY <1>2, <1>a, <1>8, <1>10, <1>12 DEF OwnsSource, OwnsDump, OwnsTmp, OwnsEncoder, InScratch, At, Key
  <2>2. \A n \in DOMAIN tmp' : n \in DOMAIN tmp /\ n # Publish(s)
    BY <1>11
  <2> QED BY <1>2, <2>1, <2>2 DEF BakeInv, FilesOwned
<1> QED BY <1>20, <1>21, <1>22, <1>24, <1>25, <1>26, <1>27, <1>28 DEF BakeInv

\* A failure of the bake's own ends it, or sends it to discard its scratch files.
BreaksOff(s, b) ==
    /\ bake' = [bake EXCEPT ![s] = b]
    /\ b \in Bakes /\ b.key = bake[s].key /\ b.run = bake[s].run
    /\ b.outcome \in {"failed", "timed out"} /\ b.fault = TRUE
    /\ bake[s].at \notin {"idle", "wait", "clean", "cleanDump"}
    /\ \/ b.at = "clean" /\ Key(s).by \in Nat \ {0}
       \/ b.at = "idle" /\ ~InScratch(s)
    /\ met \subseteq met'
    /\ \/ b.at = "idle" \/ InScratch(s)
       \/ /\ s \notin met' => \A e \in DOMAIN encoder : encoder[e].key # Key(s)
          /\ \A o \in Servers \ {s} : InScratch(o) /\ Key(o) = Key(s) => s \in met' /\ o \in met'
    /\ \/ tmp' = Without(tmp, Publish(s))
       \/ tmp' = tmp /\ bake[s].at \notin {"write", "rename"}
    /\ UNCHANGED <<home, tool, known, encoder, source, dump, entry, begun, crashed, swapped>>

\* A bake that fails leaves the others what they have.
LEMMA BreaksOffKeeps == ASSUME BakeInv, NEW s \in Servers, NEW b, BreaksOff(s, b) PROVE BakeInv'
<1> USE BakeAssumption, ImagesAssumption
<1>1. BakeTypeOK /\ bake \in [Servers -> Bakes]
  BY DEF BakeInv, BakeTypeOK
<1>2. /\ UNCHANGED <<home, tool, known, encoder, source, dump, entry, begun>>
      /\ UNCHANGED <<crashed, swapped>>
      /\ bake[s].at \notin {"idle", "wait", "clean", "cleanDump"}
      /\ met \subseteq met'
  BY DEF BreaksOff
<1>3. /\ b \in Bakes /\ b.key = bake[s].key /\ b.run = bake[s].run
      /\ b.outcome \in {"failed", "timed out"} /\ b.fault = TRUE
      /\ \/ b.at = "clean" /\ Key(s).by \in Nat \ {0}
         \/ b.at = "idle" /\ ~InScratch(s)
  BY DEF BreaksOff
<1>4. bake' \in [Servers -> Bakes] /\ bake'[s] = b /\ \A o \in Servers : o # s => bake'[o] = bake[o]
  BY <1>1, <1>3 DEF BreaksOff
<1>5. \/ b.at = "idle" \/ InScratch(s)
      \/ /\ s \notin met' => \A e \in DOMAIN encoder : encoder[e].key # Key(s)
         /\ \A o \in Servers \ {s} : InScratch(o) /\ Key(o) = Key(s) => s \in met' /\ o \in met'
  BY DEF BreaksOff
<1>6. /\ tmp' \in Files(Processes \X Nat, Containers)
      /\ DOMAIN tmp' \subseteq DOMAIN tmp
      /\ \A n \in DOMAIN tmp : n # Publish(s) => n \in DOMAIN tmp' /\ tmp'[n] = tmp[n]
      /\ bake[s].at \in {"write", "rename"} => Publish(s) \notin DOMAIN tmp'
  <2>1. tmp \in Files(Processes \X Nat, Containers)
    BY <1>1 DEF BakeTypeOK
  <2>2. CASE tmp' = tmp /\ bake[s].at \notin {"write", "rename"}
    BY <2>1, <2>2
  <2>3. CASE tmp' = Without(tmp, Publish(s))
    <3>1. tmp' \in Files(Processes \X Nat, Containers)
      BY <2>1, <2>3, WithoutFiles
    <3> QED BY <2>3, <3>1 DEF Without, Restrict
  <2> QED BY <2>2, <2>3 DEF BreaksOff
<1>7. \A o \in Servers : Publish(o)' = Publish(o) /\ (o # s => Publish(o) # Publish(s))
  <2>1. bake[s].run # 0 /\ \A o \in Servers : o # s => bake[o].run # bake[s].run
    <3>1. bake[s].run > 0 /\ bake[s].run \in Nat
      BY <1>1, <1>2 DEF BakeInv, RunsApart, At, Bakes
    <3> QED BY <3>1 DEF BakeInv, RunsApart
  <2>2. \A o \in Servers : bake'[o].run = bake[o].run
    BY <1>3, <1>4
  <2> QED BY <1>2, <2>1, <2>2 DEF Publish
<1>20. BakeTypeOK'
  BY <1>1, <1>2, <1>4, <1>6 DEF BakeTypeOK
<1>21. RunsApart'
  <2>1. \A o \in Servers : bake'[o].run = bake[o].run /\ (bake[o].at = "idle" => bake'[o].at = "idle")
    BY <1>2, <1>3, <1>4
  <2> QED BY <1>2, <2>1 DEF BakeInv, RunsApart, At
<1>22. KeysKnown'
  <2>1. bake'[s].key = bake[s].key /\ bake[s].at # "idle" /\ bake'[s].at = b.at
    BY <1>2, <1>3, <1>4
  <2>2. b.at = "idle" \/ (b.at = "clean" /\ bake[s].key.by \in Nat \ {0})
    BY <1>3 DEF Key
  <2>3. \A o \in Servers : o # s => bake'[o] = bake[o]
    BY <1>4
  <2>4. bake[s].key.image \in Images
    BY <2>1 DEF BakeInv, KeysKnown, At, Key
  <2>5. b.at = "clean" => bake[s].key.by \in Nat /\ bake[s].key.by > 0
    BY <2>2
  <2> QED BY <2>1, <2>2, <2>3, <2>4, <2>5 DEF BakeInv, KeysKnown, At, Key
<1>24. FilesMatch'
  BY <1>2 DEF BakeInv, FilesMatch, Made, Whole
<1>25. \A o \in Servers : InHand(o)'
  <2>1. InHand(s)'
    BY <1>3, <1>4 DEF InHand, At
  <2>2. ASSUME NEW o \in Servers, o # s PROVE InHand(o)'
    <3>1. bake'[o] = bake[o] /\ Publish(o) # Publish(s) /\ Publish(o)' = Publish(o) /\ InHand(o)
      BY <1>4, <1>7, <2>2 DEF BakeInv
    <3> QED BY <1>2, <1>6, <3>1 DEF InHand, Whole, At, Key
  <2> QED BY <2>1, <2>2
<1>26. AloneUnlessMet'
  <2> SUFFICES ASSUME NEW o \in Servers, InScratch(o)', o \notin met'
               PROVE  Alone(o)' /\ Progress(o)'
    BY DEF AloneUnlessMet
  <2>1. CASE o = s
    <3>1. b.at = "clean"
      BY <1>3, <1>4, <2>1 DEF InScratch
    <3>2. Alone(s)'
      <4>1. CASE InScratch(s)
        <5>1. Alone(s)
          BY <1>2, <2>1, <4>1 DEF BakeInv, AloneUnlessMet
        <5> QED BY <1>2, <1>3, <1>4, <5>1 DEF Alone, InScratch, At, Key
      <4>2. CASE ~InScratch(s)
        <5>1. /\ \A e \in DOMAIN encoder : encoder[e].key # Key(s)
              /\ \A x \in Servers \ {s} : InScratch(x) => Key(x) # Key(s)
          BY <1>5, <2>1, <3>1, <4>2
        <5> QED BY <1>2, <1>3, <1>4, <5>1 DEF Alone, InScratch, At, Key
      <4> QED BY <4>1, <4>2
    <3>3. Progress(s)'
      BY <1>4, <3>1 DEF Progress, At
    <3> QED BY <2>1, <3>2, <3>3
  <2>2. CASE o # s
    <3>1. InScratch(o) /\ o \notin met /\ Key(o)' = Key(o) /\ bake'[o] = bake[o]
      BY <1>2, <1>4, <2>2 DEF InScratch, Key
    <3>2. Alone(o) /\ Progress(o)
      BY <3>1 DEF BakeInv, AloneUnlessMet
    <3>3. InScratch(s)' => Key(s)' # Key(o)
      <4>1. InScratch(s)' => b.at = "clean" /\ Key(s)' = Key(s)
        BY <1>3, <1>4 DEF InScratch, Key
      <4>2. InScratch(s) => Key(s) # Key(o)
        BY <2>2, <3>2 DEF Alone
      <4> QED BY <1>5, <2>2, <3>1, <4>1, <4>2
    <3>4. Alone(o)'
      BY <1>2, <1>4, <3>1, <3>2, <3>3 DEF Alone, InScratch, At, Key
    <3>5. Progress(o)'
      BY <1>2, <3>1, <3>2 DEF Progress, At, Key, HasSource, HasDump, Ran
    <3> QED BY <3>4, <3>5
  <2> QED BY <2>1, <2>2
<1>27. OnlySharedKeysFail'
  BY <1>2, <1>3, <1>4 DEF BakeInv, OnlySharedKeysFail, Key
<1>28. FilesOwned'
  <2>1. \A o \in Servers : \A n : /\ OwnsSource(o, n) => OwnsSource(o, n)'
                                  /\ OwnsDump(o, n) => OwnsDump(o, n)'
                                  /\ OwnsEncoder(o, n) => OwnsEncoder(o, n)'
    BY <1>2, <1>3, <1>4 DEF OwnsSource, OwnsDump, OwnsEncoder, InScratch, At, Key
  <2>2. \A o \in Servers : \A n \in DOMAIN tmp' : OwnsTmp(o, n) => OwnsTmp(o, n)'
    BY <1>4, <1>6, <1>7 DEF OwnsTmp
  <2> QED BY <1>2, <1>6, <2>1, <2>2 DEF BakeInv, FilesOwned
<1> QED BY <1>20, <1>21, <1>22, <1>24, <1>25, <1>26, <1>27, <1>28 DEF BakeInv

\* Every failure of a bake's own is such a step, but that of reading an entry.
LEMMA BakeFailsKeeps == ASSUME BakeInv, NEW s \in Servers, BakeFails(s) PROVE BakeInv'
<1> USE BakeAssumption, ImagesAssumption
<1>1. bake \in [Servers -> Bakes] /\ bake[s] \in Bakes
  BY DEF BakeInv, BakeTypeOK
<1>2. /\ bake[s].at \notin {"idle", "plan"} => Key(s).by \in Nat
      /\ bake[s].at \in {"source", "fill", "spawn", "read"} => Key(s).by > 0
  BY DEF BakeInv, KeysKnown
<1>3. ASSUME NEW step \in {"idle", "clean"}, Fails(s, step, TRUE)
      PROVE  \E b \in Bakes : /\ bake' = [bake EXCEPT ![s] = b] /\ b.at = step
                              /\ b.key = bake[s].key /\ b.run = bake[s].run
                              /\ b.outcome = "failed" /\ b.fault = TRUE
  <2>1. PICK b : b = [bake[s] EXCEPT !.at = step, !.outcome = "failed", !.open = FALSE,
                                     !.fault = TRUE]
    OBVIOUS
  <2>2. /\ b \in Bakes /\ b.at = step /\ b.key = bake[s].key /\ b.run = bake[s].run
        /\ b.outcome = "failed" /\ b.fault = TRUE
    BY <1>1, <2>1 DEF Bakes, Steps
  <2>3. bake' = [bake EXCEPT ![s] = b]
    BY <1>1, <1>3, <2>1 DEF Fails
  <2> QED BY <2>2, <2>3
<1>4. CASE ProbeFails(s)
  <2>1. PICK outcome \in {"failed", "timed out"} :
          bake' = [bake EXCEPT ![s].at = "idle", ![s].outcome = outcome, ![s].fault = TRUE]
    BY <1>4 DEF ProbeFails
  <2>2. PICK b : b = [bake[s] EXCEPT !.at = "idle", !.outcome = outcome, !.fault = TRUE]
    OBVIOUS
  <2>3. /\ b \in Bakes /\ b.at = "idle" /\ b.key = bake[s].key /\ b.run = bake[s].run
        /\ b.outcome \in {"failed", "timed out"} /\ b.fault = TRUE
    BY <1>1, <2>2 DEF Bakes, Steps
  <2>4. bake' = [bake EXCEPT ![s] = b]
    BY <1>1, <2>1, <2>2
  <2>5. BreaksOff(s, b)
    BY <1>4, <2>3, <2>4 DEF BreaksOff, ProbeFails, At, InScratch, scratch, history
  <2> QED BY ONLY <2>5, BakeInv, s \in Servers, BreaksOffKeeps
<1>5. CASE LoadFails(s)
  BY <1>5, LoadKeeps
<1>6. CASE SourceFails(s)
  <2>1. PICK step \in {"idle", "clean"} :
          /\ Fails(s, step, TRUE)
          /\ \/ step = "idle" /\ At(s, "source") /\ met' = met
             \/ step = "clean" /\ At(s, "source") /\ Meets(s)
             \/ step = "clean" /\ At(s, "fill") /\ met' = met
    BY <1>6 DEF SourceFails
  <2>2. PICK b \in Bakes : /\ bake' = [bake EXCEPT ![s] = b] /\ b.at = step
                           /\ b.key = bake[s].key /\ b.run = bake[s].run
                           /\ b.outcome = "failed" /\ b.fault = TRUE
    BY <1>3, <2>1
  <2>3. UNCHANGED <<home, tool, known, encoder, source, dump, tmp, entry, begun, crashed, swapped>>
    BY <1>6 DEF SourceFails, scratch
  <2>4. Meets(s) =>
          /\ met \subseteq met'
          /\ s \notin met' => \A e \in DOMAIN encoder : encoder[e].key # Key(s)
          /\ \A o \in Servers \ {s} : InScratch(o) /\ Key(o) = Key(s) => s \in met' /\ o \in met'
    BY DEF Meets
  <2>5. BreaksOff(s, b)
    BY <1>2, <2>1, <2>2, <2>3, <2>4 DEF BreaksOff, At, InScratch
  <2> QED BY ONLY <2>5, BakeInv, s \in Servers, BreaksOffKeeps
<1>7. CASE ToolFails(s)
  <2>1. Fails(s, "clean", TRUE) /\ bake[s].at \in {"spawn", "read"}
    BY <1>7 DEF ToolFails
  <2>2. PICK b \in Bakes : /\ bake' = [bake EXCEPT ![s] = b] /\ b.at = "clean"
                           /\ b.key = bake[s].key /\ b.run = bake[s].run
                           /\ b.outcome = "failed" /\ b.fault = TRUE
    BY <1>3, <2>1
  <2>3. /\ UNCHANGED <<home, tool, known, encoder, source, dump, tmp, entry, begun, crashed, swapped>>
        /\ UNCHANGED met
    BY <1>7 DEF ToolFails, scratch, history
  <2>5. BreaksOff(s, b)
    BY <1>2, <2>1, <2>2, <2>3 DEF BreaksOff, InScratch
  <2> QED BY ONLY <2>5, BakeInv, s \in Servers, BreaksOffKeeps
<1>8. CASE StoreFails(s)
  <2>1. PICK step \in {"idle", "clean"} :
          /\ Fails(s, step, TRUE) /\ step = Stored(s)
          /\ bake[s].at \in {"create", "write", "rename"}
    BY <1>8 DEF StoreFails, Stored
  <2>2. PICK b \in Bakes : /\ bake' = [bake EXCEPT ![s] = b] /\ b.at = step
                           /\ b.key = bake[s].key /\ b.run = bake[s].run
                           /\ b.outcome = "failed" /\ b.fault = TRUE
    BY <1>3, <2>1
  <2>3. /\ UNCHANGED <<home, tool, known, encoder, source, dump, entry, begun, crashed, swapped>>
        /\ UNCHANGED met /\ tmp' = Without(tmp, Publish(s))
    BY <1>8 DEF StoreFails, scratch, history
  <2>4. IF step = "idle" THEN Key(s).by = 0 ELSE Key(s).by \in Nat \ {0}
    BY <1>2, <2>1 DEF Stored
  <2>5. BreaksOff(s, b)
    BY <2>1, <2>2, <2>3, <2>4 DEF BreaksOff, InScratch
  <2> QED BY ONLY <2>5, BakeInv, s \in Servers, BreaksOffKeeps
<1> QED BY <1>4, <1>5, <1>6, <1>7, <1>8 DEF BakeFails

\* An encoder reads the image of its key.
LEMMA EncoderReadsKeeps == ASSUME BakeInv, NEW e \in DOMAIN encoder, EncoderReads(e) PROVE BakeInv'
<1> USE BakeAssumption, ImagesAssumption
<1>1. BakeTypeOK /\ bake \in [Servers -> Bakes] /\ encoder \in Files(Nat, Encoders)
  BY DEF BakeInv, BakeTypeOK
<1>2. /\ encoder[e] \in Encoders /\ encoder[e].out = encoder[e].key
      /\ encoder[e].key \in swapped \/ encoder[e].tool = encoder[e].key.by
      /\ encoder[e].at \in {"open", "head", "tail"} => encoder[e].image = encoder[e].key.image
  BY <1>1, FileFacts DEF BakeInv, FilesMatch
<1>3. /\ UNCHANGED <<home, tool, known, bake, source, dump, tmp, entry, begun>>
      /\ UNCHANGED <<faults, crashed, met, swapped>>
      /\ encoder[e].at = "read"
  BY DEF EncoderReads, counters, history, scratch
<1> DEFINE found == encoder[e].out \in DOMAIN source /\ source[encoder[e].out] # "empty"
<1>4. found => source[encoder[e].out] = encoder[e].key.image /\ encoder[e].key.image \in Images \cup {"none"}
  BY <1>2 DEF BakeInv, FilesMatch, Encoders, Keys
<1>5. PICK n : n = IF found THEN [encoder[e] EXCEPT !.at = "open", !.image = source[encoder[e].out]]
                   ELSE [encoder[e] EXCEPT !.at = "failed"]
  OBVIOUS
<1>6. /\ found => n = [encoder[e] EXCEPT !.at = "open", !.image = encoder[e].key.image]
      /\ ~found => n = [encoder[e] EXCEPT !.at = "failed"]
      /\ encoder' = [encoder EXCEPT ![e] = n]
  <2>1. CASE found
    BY <1>4, <1>5, <2>1 DEF EncoderReads
  <2>2. CASE ~found
    BY <1>5, <2>2 DEF EncoderReads, Encoder
  <2> QED BY <2>1, <2>2
<1>a. (\E o \in Servers : InScratch(o) /\ HasSource(o) /\ Key(o) = encoder[e].key) => found
  BY <1>2 DEF HasSource, BakeInv, KeysKnown, InScratch, At
<1> HIDE DEF found
<1>7. /\ n \in Encoders /\ n.tool = encoder[e].tool /\ n.key = encoder[e].key
      /\ n.broke = encoder[e].broke
      /\ n.out = encoder[e].out /\ n.open = encoder[e].open
      /\ found => n.at = "open" /\ n.image = encoder[e].key.image
      /\ ~found => n.at = "failed" /\ n.image = encoder[e].image
  BY <1>2, <1>4, <1>6 DEF Encoders, EncoderSteps
<1>8. encoder' = [encoder EXCEPT ![e] = n]
  BY <1>6
<1>9. /\ encoder' \in Files(Nat, Encoders) /\ DOMAIN encoder' = DOMAIN encoder
      /\ encoder'[e] = n /\ \A i \in DOMAIN encoder : i # e => encoder'[i] = encoder[i]
  <2>1. encoder \in [DOMAIN encoder -> Encoders] /\ DOMAIN encoder \in SUBSET Nat
    BY <1>1, FileFacts
  <2>2. encoder' \in [DOMAIN encoder -> Encoders]
    BY <1>7, <1>8, <2>1
  <2> QED BY <1>8, <2>1, <2>2 DEF Files
<1>10. \A o \in Servers : /\ At(o, "wait") => /\ bake[o].run \in DOMAIN encoder
                                             /\ encoder[bake[o].run].key = Key(o)
                          /\ InScratch(o) => Key(o).image \in Images /\ Key(o).by > 0
  BY DEF BakeInv, InHand, KeysKnown, InScratch, At
<1>20. BakeTypeOK'
  BY <1>1, <1>3, <1>9 DEF BakeTypeOK
<1>21. RunsApart'
  BY <1>3 DEF BakeInv, RunsApart, At
<1>22. KeysKnown'
  BY <1>3 DEF BakeInv, KeysKnown, At, Key
<1>24. FilesMatch'
  BY <1>2, <1>3, <1>7, <1>9 DEF BakeInv, FilesMatch, Made, Whole
<1>25. \A o \in Servers : InHand(o)'
  <2>1. \A i \in DOMAIN encoder : encoder'[i].key = encoder[i].key
    BY <1>7, <1>9
  <2> QED BY <1>3, <1>9, <2>1 DEF BakeInv, InHand, Whole, Publish, At, Key
<1>26. AloneUnlessMet'
  <2> SUFFICES ASSUME NEW o \in Servers, InScratch(o)', o \notin met'
               PROVE  Alone(o)' /\ Progress(o)'
    BY DEF AloneUnlessMet
  <2>1. Alone(o) /\ Progress(o) /\ InScratch(o)
    BY <1>3 DEF BakeInv, AloneUnlessMet, InScratch, Key
  <2>2. Alone(o)'
    <3>1. \A i \in DOMAIN encoder' : i \in DOMAIN encoder /\ encoder'[i].key = encoder[i].key
      BY <1>7, <1>9
    <3> QED BY <1>3, <2>1, <3>1 DEF Alone, InScratch, At, Key
  <2>a. CASE encoder[e].broke /\ encoder[e].key = Key(o)
    <3>1. At(o, "wait") /\ Ran(o)' = n
      BY <1>3, <1>9, <2>1, <2>a DEF Alone, Ran
    <3>2. Progress(o)'
      BY <1>3, <1>7, <2>a, <3>1 DEF Progress, At
    <3> QED BY <2>2, <3>2
  <2>3. CASE ~encoder[e].broke /\ encoder[e].key = Key(o)
    <3>1. At(o, "wait") /\ bake[o].run = e /\ Ran(o) = encoder[e] /\ Ran(o)' = n
      BY <1>3, <1>9, <2>1, <2>3 DEF Alone, Ran
    <3>2. found
      BY <1>3, <1>a, <2>1, <2>3, <3>1 DEF Progress
    <3>3. Progress(o)'
      BY <1>3, <1>7, <2>1, <3>1, <3>2 DEF Progress, At, Key
    <3> QED BY <2>2, <3>3
  <2>4. CASE encoder[e].key # Key(o)
    <3>1. At(o, "wait") => bake[o].run \in DOMAIN encoder /\ bake[o].run # e
      BY <1>10, <2>4
    <3>2. Progress(o)'
      BY <1>3, <1>9, <2>1, <3>1 DEF Progress, At, Key, HasSource, HasDump, Ran
    <3> QED BY <2>2, <3>2
  <2> QED BY <2>3, <2>4, <2>a
<1>27. OnlySharedKeysFail'
  BY <1>3 DEF BakeInv, OnlySharedKeysFail, Key
<1>28. FilesOwned'
  <2>1. \A o \in Servers : \A k : /\ OwnsSource(o, k) => OwnsSource(o, k)'
                                  /\ OwnsDump(o, k) => OwnsDump(o, k)'
                                  /\ OwnsTmp(o, k) => OwnsTmp(o, k)'
    BY <1>3 DEF OwnsSource, OwnsDump, OwnsTmp, InScratch, At, Key, Publish
  <2>2. \A o \in Servers : \A i \in DOMAIN encoder : OwnsEncoder(o, i) => OwnsEncoder(o, i)'
    BY <1>3, <1>7, <1>9 DEF OwnsEncoder, At, Key
  <2> QED BY <1>3, <1>9, <2>1, <2>2 DEF BakeInv, FilesOwned
<1> QED BY <1>20, <1>21, <1>22, <1>24, <1>25, <1>26, <1>27, <1>28 DEF BakeInv

\* An encoder creates the output of its key.
LEMMA EncoderOpensKeeps == ASSUME BakeInv, NEW e \in DOMAIN encoder, EncoderOpens(e) PROVE BakeInv'
<1> USE BakeAssumption, ImagesAssumption
<1>1. BakeTypeOK /\ bake \in [Servers -> Bakes] /\ encoder \in Files(Nat, Encoders)
  BY DEF BakeInv, BakeTypeOK
<1>2. /\ encoder[e] \in Encoders /\ encoder[e].out = encoder[e].key
      /\ encoder[e].key \in swapped \/ encoder[e].tool = encoder[e].key.by
      /\ encoder[e].at \in {"open", "head", "tail"} => encoder[e].image = encoder[e].key.image
  BY <1>1, FileFacts DEF BakeInv, FilesMatch
<1>3. /\ UNCHANGED <<home, tool, known, bake, source, tmp, entry, begun>>
      /\ UNCHANGED <<faults, crashed, met, swapped>>
      /\ encoder[e].at = "open" /\ dump' = Put(dump, encoder[e].key, Nothing)
  BY <1>2 DEF EncoderOpens, counters, history
<1>4. PICK n : n = [encoder[e] EXCEPT !.at = "head", !.open = TRUE]
  OBVIOUS
<1>5. dump' \in Files(Keys, Containers)
  <2>1. dump \in Files(Keys, Containers) /\ encoder[e].key \in Keys /\ Nothing \in Containers
    BY <1>1, <1>2, IdleIsABake DEF BakeTypeOK, Encoders
  <2> QED BY <1>3, <2>1, PutFiles
<1>6. /\ DOMAIN dump' = DOMAIN dump \cup {encoder[e].key} /\ dump'[encoder[e].key] = Nothing
      /\ \A k \in DOMAIN dump : k # encoder[e].key => dump'[k] = dump[k]
  BY <1>3 DEF Put
<1>7. /\ n \in Encoders /\ n.tool = encoder[e].tool /\ n.key = encoder[e].key
      /\ n.broke = encoder[e].broke
      /\ n.out = encoder[e].out /\ n.open = TRUE /\ n.at = "head" /\ n.image = encoder[e].image
  BY <1>2, <1>4 DEF Encoders, EncoderSteps
<1>8. encoder' = [encoder EXCEPT ![e] = n]
  BY <1>4 DEF EncoderOpens
<1>9. /\ encoder' \in Files(Nat, Encoders) /\ DOMAIN encoder' = DOMAIN encoder
      /\ encoder'[e] = n /\ \A i \in DOMAIN encoder : i # e => encoder'[i] = encoder[i]
  <2>1. encoder \in [DOMAIN encoder -> Encoders] /\ DOMAIN encoder \in SUBSET Nat
    BY <1>1, FileFacts
  <2>2. encoder' \in [DOMAIN encoder -> Encoders]
    BY <1>7, <1>8, <2>1
  <2> QED BY <1>8, <2>1, <2>2 DEF Files
<1>10. \A o \in Servers : /\ At(o, "wait") => /\ bake[o].run \in DOMAIN encoder
                                             /\ encoder[bake[o].run].key = Key(o)
                          /\ InScratch(o) => Key(o).image \in Images /\ Key(o).by > 0
  BY DEF BakeInv, InHand, KeysKnown, InScratch, At
<1>20. BakeTypeOK'
  BY <1>1, <1>3, <1>5, <1>9 DEF BakeTypeOK
<1>21. RunsApart'
  BY <1>3 DEF BakeInv, RunsApart, At
<1>22. KeysKnown'
  BY <1>3 DEF BakeInv, KeysKnown, At, Key
<1>24. FilesMatch'
  BY <1>2, <1>3, <1>6, <1>7, <1>9 DEF BakeInv, FilesMatch, Made, Whole, Nothing
<1>25. \A o \in Servers : InHand(o)'
  <2>1. \A i \in DOMAIN encoder : encoder'[i].key = encoder[i].key
    BY <1>7, <1>9
  <2> QED BY <1>3, <1>9, <2>1 DEF BakeInv, InHand, Whole, Publish, At, Key
<1>26. AloneUnlessMet'
  <2> SUFFICES ASSUME NEW o \in Servers, InScratch(o)', o \notin met'
               PROVE  Alone(o)' /\ Progress(o)'
    BY DEF AloneUnlessMet
  <2>1. Alone(o) /\ Progress(o) /\ InScratch(o)
    BY <1>3 DEF BakeInv, AloneUnlessMet, InScratch, Key
  <2>2. Alone(o)'
    <3>1. \A i \in DOMAIN encoder' : i \in DOMAIN encoder /\ encoder'[i].key = encoder[i].key
      BY <1>7, <1>9
    <3> QED BY <1>3, <2>1, <3>1 DEF Alone, InScratch, At, Key
  <2>a. CASE encoder[e].broke /\ encoder[e].key = Key(o)
    <3>1. At(o, "wait") /\ Ran(o)' = n
      BY <1>3, <1>9, <2>1, <2>a DEF Alone, Ran
    <3>2. Progress(o)'
      BY <1>3, <1>7, <2>a, <3>1 DEF Progress, At
    <3> QED BY <2>2, <3>2
  <2>3. CASE ~encoder[e].broke /\ encoder[e].key = Key(o)
    <3>1. At(o, "wait") /\ bake[o].run = e /\ Ran(o) = encoder[e] /\ Ran(o)' = n
      BY <1>3, <1>9, <2>1, <2>3 DEF Alone, Ran
    <3>2. HasDump(o)'
      BY <1>3, <1>6, <2>3 DEF HasDump, Key
    <3>3. Progress(o)'
      BY <1>3, <1>7, <2>1, <3>1, <3>2 DEF Progress, At, Key
    <3> QED BY <2>2, <3>3
  <2>4. CASE encoder[e].key # Key(o)
    <3>1. At(o, "wait") => bake[o].run \in DOMAIN encoder /\ bake[o].run # e
      BY <1>10, <2>4
    <3>2. Progress(o)'
      BY <1>3, <1>6, <1>9, <2>1, <2>4, <3>1 DEF Progress, At, Key, HasSource, HasDump, Ran
    <3> QED BY <2>2, <3>2
  <2> QED BY <2>3, <2>4, <2>a
<1>27. OnlySharedKeysFail'
  BY <1>3 DEF BakeInv, OnlySharedKeysFail, Key
<1>28. FilesOwned'
  <2>1. \A o \in Servers : \A k : /\ OwnsSource(o, k) => OwnsSource(o, k)'
                                  /\ OwnsDump(o, k) => OwnsDump(o, k)'
                                  /\ OwnsTmp(o, k) => OwnsTmp(o, k)'
    BY <1>3 DEF OwnsSource, OwnsDump, OwnsTmp, InScratch, At, Key, Publish
  <2>2. \A o \in Servers : \A i \in DOMAIN encoder : OwnsEncoder(o, i) => OwnsEncoder(o, i)'
    BY <1>3, <1>7, <1>9 DEF OwnsEncoder, At, Key
  <2>3. ~crashed => \E o \in Servers : OwnsDump(o, encoder[e].key)
    <3>1. \A o \in Servers : OwnsEncoder(o, e) => OwnsDump(o, encoder[e].key)
      BY <1>10 DEF OwnsEncoder, OwnsDump, At, InScratch, BakeInv, KeysKnown, Key
    <3> QED BY <3>1 DEF BakeInv, FilesOwned
  <2>4. ~crashed => \A k \in DOMAIN dump' : \E o \in Servers : OwnsDump(o, k)
    BY <1>6, <2>3 DEF BakeInv, FilesOwned
  <2> QED BY <1>3, <1>9, <2>1, <2>2, <2>4 DEF BakeInv, FilesOwned
<1> QED BY <1>20, <1>21, <1>22, <1>24, <1>25, <1>26, <1>27, <1>28 DEF BakeInv

\* An encoder writes pieces of the image of its key.
LEMMA EncoderWritesKeeps == ASSUME BakeInv, NEW e \in DOMAIN encoder, EncoderWrites(e) PROVE BakeInv'
<1> USE BakeAssumption, ImagesAssumption
<1>1. BakeTypeOK /\ bake \in [Servers -> Bakes] /\ encoder \in Files(Nat, Encoders)
  BY DEF BakeInv, BakeTypeOK
<1>2. /\ encoder[e] \in Encoders /\ encoder[e].out = encoder[e].key
      /\ encoder[e].key \in swapped \/ encoder[e].tool = encoder[e].key.by
      /\ encoder[e].at \in {"open", "head", "tail"} => encoder[e].image = encoder[e].key.image
  BY <1>1, FileFacts DEF BakeInv, FilesMatch
<1>3. /\ UNCHANGED <<home, tool, known, bake, source, tmp, entry, begun>>
      /\ UNCHANGED <<faults, crashed, met, swapped>>
      /\ encoder[e].at \in {"head", "tail"}
  BY DEF EncoderWrites, counters, history
<1>a. PICK piece : piece = [image |-> encoder[e].image, tool |-> encoder[e].tool]
  OBVIOUS
<1>b. /\ piece \in Pieces /\ piece # Missing /\ Made(piece, encoder[e].key)
  BY <1>2, <1>3, <1>a DEF Encoders, Pieces, Missing, Made
<1>c. dump \in Files(Keys, Containers) /\ \A k \in DOMAIN dump : dump[k] \in Containers
  <2>1. dump \in Files(Keys, Containers)
    BY <1>1 DEF BakeTypeOK
  <2> QED BY <2>1, FileFacts
<1> DEFINE c == dump[encoder[e].key]
<1>4. PICK w : w = IF encoder[e].at = "head" THEN [head |-> piece, tail |-> c.tail]
                   ELSE [head |-> c.head, tail |-> piece]
  OBVIOUS
<1>5. dump' = IF encoder[e].open /\ encoder[e].key \in DOMAIN dump
              THEN [dump EXCEPT ![encoder[e].key] = w] ELSE dump
  <2>1. CASE encoder[e].open /\ encoder[e].key \in DOMAIN dump
    <3>1. c \in Containers
      BY <1>c, <2>1
    <3>2. w = [c EXCEPT ![encoder[e].at] = piece]
      BY <1>3, <1>4, <3>1 DEF Containers
    <3>3. dump' = [dump EXCEPT ![encoder[e].key] = [c EXCEPT ![encoder[e].at] = piece]]
      BY <1>2, <1>a, <2>1 DEF EncoderWrites
    <3> QED BY <2>1, <3>2, <3>3
  <2>2. CASE encoder[e].open /\ encoder[e].key \notin DOMAIN dump
    <3>1. \E f : dump' = [dump EXCEPT ![encoder[e].key] = f]
      BY <1>2, <1>a, <2>2 DEF EncoderWrites
    <3>2. dump = [k \in DOMAIN dump |-> dump[k]]
      BY <1>c, FileFacts
    <3> QED BY <2>2, <3>1, <3>2
  <2>3. CASE ~encoder[e].open
    BY <2>3 DEF EncoderWrites
  <2> QED BY <2>1, <2>2, <2>3
<1>6. /\ DOMAIN dump' = DOMAIN dump
      /\ \A k \in DOMAIN dump : k # encoder[e].key => dump'[k] = dump[k]
      /\ encoder[e].key \in DOMAIN dump =>
           dump'[encoder[e].key] = IF encoder[e].open THEN w ELSE c
  <2>1. dump = [k \in DOMAIN dump |-> dump[k]]
    BY <1>c, FileFacts
  <2> QED BY <1>5, <2>1
<1>e. encoder[e].key \in DOMAIN dump => w \in Containers
  BY <1>b, <1>c, <1>4 DEF Containers
<1>f. dump' \in Files(Keys, Containers)
  <2>1. dump \in [DOMAIN dump -> Containers] /\ DOMAIN dump \in SUBSET Keys
    BY <1>c, FileFacts
  <2>2. dump' \in [DOMAIN dump -> Containers]
    BY <1>5, <1>e, <2>1
  <2> QED BY <2>1, <2>2 DEF Files
<1>g. PICK n : n = [encoder[e] EXCEPT !.at = IF encoder[e].at = "head" THEN "tail" ELSE "done"]
  OBVIOUS
<1>7. /\ n \in Encoders /\ n.tool = encoder[e].tool /\ n.key = encoder[e].key
      /\ n.broke = encoder[e].broke
      /\ n.out = encoder[e].out /\ n.open = encoder[e].open /\ n.image = encoder[e].image
      /\ encoder[e].at = "head" => n.at = "tail" /\ w.head = piece /\ w.tail = c.tail
      /\ encoder[e].at = "tail" => n.at = "done" /\ w.head = c.head /\ w.tail = piece
  BY <1>2, <1>3, <1>4, <1>g DEF Encoders, EncoderSteps
<1>8. encoder' = [encoder EXCEPT ![e] = n]
  BY <1>g DEF EncoderWrites, Encoder
<1>9. /\ encoder' \in Files(Nat, Encoders) /\ DOMAIN encoder' = DOMAIN encoder
      /\ encoder'[e] = n /\ \A i \in DOMAIN encoder : i # e => encoder'[i] = encoder[i]
  <2>1. encoder \in [DOMAIN encoder -> Encoders] /\ DOMAIN encoder \in SUBSET Nat
    BY <1>1, FileFacts
  <2>2. encoder' \in [DOMAIN encoder -> Encoders]
    BY <1>7, <1>8, <2>1
  <2> QED BY <1>8, <2>1, <2>2 DEF Files
<1>10. \A o \in Servers : /\ At(o, "wait") => /\ bake[o].run \in DOMAIN encoder
                                             /\ encoder[bake[o].run].key = Key(o)
                          /\ InScratch(o) => Key(o).image \in Images /\ Key(o).by > 0
  BY DEF BakeInv, InHand, KeysKnown, InScratch, At
<1>20. BakeTypeOK'
  BY <1>1, <1>3, <1>f, <1>9 DEF BakeTypeOK
<1>21. RunsApart'
  BY <1>3 DEF BakeInv, RunsApart, At
<1>22. KeysKnown'
  BY <1>3 DEF BakeInv, KeysKnown, At, Key
<1>24. FilesMatch'
  <2>1. \A k \in DOMAIN dump' : Made(dump'[k].head, k) /\ Made(dump'[k].tail, k)
    BY <1>3, <1>b, <1>6, <1>7 DEF BakeInv, FilesMatch
  <2>2. \A k \in DOMAIN dump' : (Made(dump[k].head, k) /\ Made(dump[k].tail, k))'
    BY <1>3, <2>1 DEF Made
  <2> QED BY <1>2, <1>3, <1>7, <1>9, <2>2 DEF BakeInv, FilesMatch, Whole
<1>25. \A o \in Servers : InHand(o)'
  <2>1. \A i \in DOMAIN encoder : encoder'[i].key = encoder[i].key
    BY <1>7, <1>9
  <2> QED BY <1>3, <1>9, <2>1 DEF BakeInv, InHand, Whole, Publish, At, Key
<1>26. AloneUnlessMet'
  <2> SUFFICES ASSUME NEW o \in Servers, InScratch(o)', o \notin met'
               PROVE  Alone(o)' /\ Progress(o)'
    BY DEF AloneUnlessMet
  <2>1. Alone(o) /\ Progress(o) /\ InScratch(o)
    BY <1>3 DEF BakeInv, AloneUnlessMet, InScratch, Key
  <2>2. Alone(o)'
    <3>1. \A i \in DOMAIN encoder' : i \in DOMAIN encoder /\ encoder'[i].key = encoder[i].key
      BY <1>7, <1>9
    <3> QED BY <1>3, <2>1, <3>1 DEF Alone, InScratch, At, Key
  <2>a. CASE encoder[e].broke /\ encoder[e].key = Key(o)
    <3>1. At(o, "wait") /\ Ran(o)' = n
      BY <1>3, <1>9, <2>1, <2>a DEF Alone, Ran
    <3>2. Progress(o)'
      BY <1>3, <1>7, <2>a, <3>1 DEF Progress, At
    <3> QED BY <2>2, <3>2
  <2>3. CASE ~encoder[e].broke /\ encoder[e].key = Key(o)
    <3>1. At(o, "wait") /\ bake[o].run = e /\ Ran(o) = encoder[e] /\ Ran(o)' = n
      BY <1>3, <1>9, <2>1, <2>3 DEF Alone, Ran
    <3>2. encoder[e].open /\ Key(o) \in DOMAIN dump /\ (encoder[e].at = "tail" => c.head # Missing)
      BY <1>3, <2>1, <2>3, <3>1 DEF Progress, HasDump
    <3>3. Key(o)' = Key(o) /\ Key(o) \in DOMAIN dump' /\ dump'[Key(o)] = w
      BY <1>3, <1>6, <2>3, <3>2 DEF Key
    <3>4. w.head # Missing /\ (n.at = "done" => w.tail # Missing) /\ n.at \in {"tail", "done"} /\ n.open = TRUE
      BY <1>2, <1>3, <1>b, <1>7, <3>2 DEF Encoders
    <3>5. Progress(o)'
      BY <1>3, <3>1, <3>3, <3>4 DEF Progress, At, HasDump
    <3> QED BY <2>2, <3>5
  <2>4. CASE encoder[e].key # Key(o)
    <3>1. At(o, "wait") => bake[o].run \in DOMAIN encoder /\ bake[o].run # e
      BY <1>10, <2>4
    <3>2. Progress(o)'
      BY <1>3, <1>6, <1>9, <2>1, <2>4, <3>1 DEF Progress, At, Key, HasSource, HasDump, Ran
    <3> QED BY <2>2, <3>2
  <2> QED BY <2>3, <2>4, <2>a
<1>27. OnlySharedKeysFail'
  BY <1>3 DEF BakeInv, OnlySharedKeysFail, Key
<1>28. FilesOwned'
  <2>1. \A o \in Servers : \A k : /\ OwnsSource(o, k) => OwnsSource(o, k)'
                                  /\ OwnsDump(o, k) => OwnsDump(o, k)'
                                  /\ OwnsTmp(o, k) => OwnsTmp(o, k)'
    BY <1>3 DEF OwnsSource, OwnsDump, OwnsTmp, InScratch, At, Key, Publish
  <2>2. \A o \in Servers : \A i \in DOMAIN encoder : OwnsEncoder(o, i) => OwnsEncoder(o, i)'
    BY <1>3, <1>7, <1>9 DEF OwnsEncoder, At, Key
  <2>4. ~crashed => \A k \in DOMAIN dump' : \E o \in Servers : OwnsDump(o, k)
    BY <1>6 DEF BakeInv, FilesOwned
  <2> QED BY <1>3, <1>9, <2>1, <2>2, <2>4 DEF BakeInv, FilesOwned
<1> QED BY <1>20, <1>21, <1>22, <1>24, <1>25, <1>26, <1>27, <1>28 DEF BakeInv

\* An encoder that gives up leaves its files as they are.
LEMMA EncoderBreaksKeeps == ASSUME BakeInv, NEW e \in DOMAIN encoder, EncoderBreaks(e) PROVE BakeInv'
<1> USE BakeAssumption, ImagesAssumption
<1>1. BakeTypeOK /\ bake \in [Servers -> Bakes] /\ encoder \in Files(Nat, Encoders)
  BY DEF BakeInv, BakeTypeOK
<1>2. /\ encoder[e] \in Encoders /\ encoder[e].out = encoder[e].key
      /\ encoder[e].key \in swapped \/ encoder[e].tool = encoder[e].key.by
  BY <1>1, FileFacts DEF BakeInv, FilesMatch
<1>3. /\ UNCHANGED <<home, tool, known, bake, source, dump, tmp, entry, begun>>
      /\ UNCHANGED <<crashed, met, swapped>>
  BY DEF EncoderBreaks, history, scratch
<1>4. PICK code \in {"done", "failed"} :
        encoder' = [encoder EXCEPT ![e].at = code, ![e].broke = TRUE]
  BY DEF EncoderBreaks
<1>5. PICK n : n = [encoder[e] EXCEPT !.at = code, !.broke = TRUE]
  OBVIOUS
<1>6. encoder \in [DOMAIN encoder -> Encoders] /\ DOMAIN encoder \in SUBSET Nat
  BY <1>1, FileFacts
<1>7. /\ n \in Encoders /\ n.tool = encoder[e].tool /\ n.key = encoder[e].key
      /\ n.broke = TRUE /\ n.out = encoder[e].out /\ n.at \in {"done", "failed"}
  BY <1>2, <1>5 DEF Encoders, EncoderSteps
<1>8. encoder' = [encoder EXCEPT ![e] = n]
  BY <1>4, <1>5, <1>6
<1>9. /\ encoder' \in Files(Nat, Encoders) /\ DOMAIN encoder' = DOMAIN encoder
      /\ encoder'[e] = n /\ \A i \in DOMAIN encoder : i # e => encoder'[i] = encoder[i]
  <2>1. encoder' \in [DOMAIN encoder -> Encoders]
    BY <1>6, <1>7, <1>8
  <2> QED BY <1>6, <1>8, <2>1 DEF Files
<1>10. \A o \in Servers : At(o, "wait") => /\ bake[o].run \in DOMAIN encoder
                                           /\ encoder[bake[o].run].key = Key(o)
  BY DEF BakeInv, InHand
<1>20. BakeTypeOK'
  BY <1>1, <1>3, <1>9 DEF BakeTypeOK
<1>21. RunsApart'
  BY <1>3 DEF BakeInv, RunsApart, At
<1>22. KeysKnown'
  BY <1>3 DEF BakeInv, KeysKnown, At, Key
<1>24. FilesMatch'
  BY <1>2, <1>3, <1>7, <1>9 DEF BakeInv, FilesMatch, Made, Whole
<1>25. \A o \in Servers : InHand(o)'
  <2>1. \A i \in DOMAIN encoder : encoder'[i].key = encoder[i].key
    BY <1>7, <1>9
  <2> QED BY <1>3, <1>9, <2>1 DEF BakeInv, InHand, Whole, Publish, At, Key
<1>26. AloneUnlessMet'
  <2> SUFFICES ASSUME NEW o \in Servers, InScratch(o)', o \notin met'
               PROVE  Alone(o)' /\ Progress(o)'
    BY DEF AloneUnlessMet
  <2>1. Alone(o) /\ Progress(o) /\ InScratch(o)
    BY <1>3 DEF BakeInv, AloneUnlessMet, InScratch, Key
  <2>2. Alone(o)'
    <3>1. \A i \in DOMAIN encoder' : i \in DOMAIN encoder /\ encoder'[i].key = encoder[i].key
      BY <1>7, <1>9
    <3> QED BY <1>3, <2>1, <3>1 DEF Alone, InScratch, At, Key
  <2>3. CASE encoder[e].key = Key(o)
    <3>1. At(o, "wait") /\ Ran(o)' = n
      BY <1>3, <1>9, <2>1, <2>3 DEF Alone, Ran
    <3>2. Progress(o)'
      BY <1>3, <1>7, <3>1 DEF Progress, At
    <3> QED BY <2>2, <3>2
  <2>4. CASE encoder[e].key # Key(o)
    <3>1. At(o, "wait") => bake[o].run \in DOMAIN encoder /\ bake[o].run # e
      BY <1>10, <2>4
    <3>2. Progress(o)'
      BY <1>3, <1>9, <2>1, <3>1 DEF Progress, At, Key, HasSource, HasDump, Ran
    <3> QED BY <2>2, <3>2
  <2> QED BY <2>3, <2>4
<1>27. OnlySharedKeysFail'
  BY <1>3 DEF BakeInv, OnlySharedKeysFail, Key
<1>28. FilesOwned'
  <2>1. \A o \in Servers : \A k : /\ OwnsSource(o, k) => OwnsSource(o, k)'
                                  /\ OwnsDump(o, k) => OwnsDump(o, k)'
                                  /\ OwnsTmp(o, k) => OwnsTmp(o, k)'
    BY <1>3 DEF OwnsSource, OwnsDump, OwnsTmp, InScratch, At, Key, Publish
  <2>2. \A o \in Servers : \A i \in DOMAIN encoder : OwnsEncoder(o, i) => OwnsEncoder(o, i)'
    BY <1>3, <1>7, <1>9 DEF OwnsEncoder, At, Key
  <2> QED BY <1>3, <1>9, <2>1, <2>2 DEF BakeInv, FilesOwned
<1> QED BY <1>20, <1>21, <1>22, <1>24, <1>25, <1>26, <1>27, <1>28 DEF BakeInv

\* A replaced tool leaves every file and bake as it is.
LEMMA ReplaceToolKeeps == ASSUME BakeInv, NEW t \in Tools, ReplaceTool(t) PROVE BakeInv'
<1> USE BakeAssumption, ImagesAssumption
<1>1. BakeTypeOK /\ bake \in [Servers -> Bakes]
  BY DEF BakeInv, BakeTypeOK
<1>2. /\ UNCHANGED <<home, known, bake, encoder, source, dump, tmp, entry, begun>>
      /\ UNCHANGED <<crashed, met, swapped>> /\ tool' \in Tools
  BY DEF ReplaceTool, scratch, history
<1>20. BakeTypeOK'
  BY <1>1, <1>2 DEF BakeTypeOK
<1>21. RunsApart'
  BY <1>2 DEF BakeInv, RunsApart, At
<1>22. KeysKnown'
  BY <1>2 DEF BakeInv, KeysKnown, At, Key
<1>24. FilesMatch'
  BY <1>2 DEF BakeInv, FilesMatch, Made, Whole
<1>25. \A o \in Servers : InHand(o)'
  BY <1>2 DEF BakeInv, InHand, Whole, Publish, At, Key
<1>26. AloneUnlessMet'
  BY <1>2 DEF BakeInv, AloneUnlessMet, InScratch, At, Key, Alone, Progress, HasSource, HasDump, Ran
<1>27. OnlySharedKeysFail'
  BY <1>2 DEF BakeInv, OnlySharedKeysFail, Key
<1>28. \A o \in Servers : \A n : /\ OwnsSource(o, n) => OwnsSource(o, n)'
                                 /\ OwnsDump(o, n) => OwnsDump(o, n)'
                                 /\ OwnsTmp(o, n) => OwnsTmp(o, n)'
                                 /\ OwnsEncoder(o, n) => OwnsEncoder(o, n)'
  BY <1>2 DEF BakeInv, OwnsSource, OwnsDump, OwnsTmp, OwnsEncoder, InScratch, At, Key, Publish
<1>29. FilesOwned'
  BY <1>2, <1>28 DEF BakeInv, FilesOwned
<1> QED BY <1>20, <1>21, <1>22, <1>24, <1>25, <1>26, <1>27, <1>29 DEF BakeInv

\* A process that dies leaves files, and no bake of its own.
LEMMA CrashKeeps == ASSUME BakeInv, NEW p \in Processes, Crash(p) PROVE BakeInv'
<1> USE BakeAssumption, ImagesAssumption
<1>1. BakeTypeOK /\ bake \in [Servers -> Bakes]
  BY DEF BakeInv, BakeTypeOK
<1>2. /\ UNCHANGED <<home, tool, encoder, source, dump, tmp, entry, begun>>
      /\ UNCHANGED <<met, swapped>> /\ crashed' = TRUE
  BY DEF Crash, scratch
<1>3. \A o \in Servers : bake'[o] = bake[o] \/ bake'[o] = Idle
  BY DEF Crash
<1>4. bake' \in [Servers -> Bakes]
  <2>1. \A o \in Servers : (IF home[o] = p THEN Idle ELSE bake[o]) \in Bakes
    BY <1>1, IdleIsABake
  <2> QED BY <2>1 DEF Crash
<1>5. known' = [known EXCEPT ![p] = <<>>] /\ known \in [Processes -> Files(Nat, Nat \ {0})]
  BY <1>1 DEF Crash, BakeTypeOK
<1>6. /\ known' \in [Processes -> Files(Nat, Nat \ {0})]
      /\ DOMAIN known'[p] = {}
      /\ \A q \in Processes : q # p => known'[q] = known[q]
  <2>1. <<>> \in Files(Nat, Nat \ {0}) /\ DOMAIN <<>> = {}
    BY EmptyFiles
  <2> QED BY <1>5, <2>1
<1>7. Idle.at = "idle" /\ Idle.run = 0 /\ Idle.outcome = "none"
  BY DEF Idle
<1>20. BakeTypeOK'
  BY <1>1, <1>2, <1>4, <1>6 DEF BakeTypeOK
<1>21. RunsApart'
  <2>1. begun \in Nat
    BY <1>1 DEF BakeTypeOK
  <2> QED BY <1>2, <1>3, <1>7, <2>1 DEF BakeInv, RunsApart, At
<1>22. KeysKnown'
  BY <1>2, <1>3, <1>7 DEF BakeInv, KeysKnown, At, Key
<1>24. FilesMatch'
  BY <1>2, <1>3, <1>7 DEF BakeInv, FilesMatch, Made, Whole
<1>25. \A o \in Servers : InHand(o)'
  BY <1>2, <1>3, <1>7 DEF BakeInv, InHand, Whole, Publish, At, Key
<1>26. AloneUnlessMet'
  BY <1>2, <1>3, <1>7 DEF BakeInv, AloneUnlessMet, InScratch, At, Key, Alone, Progress, HasSource, HasDump, Ran
<1>27. OnlySharedKeysFail'
  BY <1>2, <1>3, <1>7 DEF BakeInv, OnlySharedKeysFail, Key
<1>28. FilesOwned'
  BY <1>2 DEF FilesOwned
<1> QED BY <1>20, <1>21, <1>22, <1>24, <1>25, <1>26, <1>27, <1>28 DEF BakeInv

-----------------------------------------------------------------------------
(* The invariant and what it says of the cache.                            *)

\* Every step keeps the invariant.
LEMMA BakeNextKeeps == BakeInv /\ [BakeNext]_bakeVars => BakeInv'
<1> SUFFICES ASSUME BakeInv, [BakeNext]_bakeVars PROVE BakeInv'
  OBVIOUS
<1>1. ASSUME NEW s \in Servers, BakeStep(s) PROVE BakeInv'
  BY <1>1, PlanKeeps, RememberKeeps, LoadKeeps, OpenKeeps, FillKeeps, SpawnKeeps, ExitedKeeps,
     TimedOutKeeps, ReadKeeps, CleanSourceKeeps, CleanDumpKeeps, CreateTmpKeeps,
     WriteTmpKeeps, RenameTmpKeeps DEF BakeStep
<1>2. ASSUME NEW s \in Servers, NEW image \in Images, Request(s, image) PROVE BakeInv'
  BY <1>2, RequestKeeps
<1>3. ASSUME NEW e \in DOMAIN encoder,
             EncoderReads(e) \/ EncoderOpens(e) \/ EncoderWrites(e) \/ EncoderBreaks(e)
      PROVE  BakeInv'
  BY <1>3, EncoderReadsKeeps, EncoderOpensKeeps, EncoderWritesKeeps, EncoderBreaksKeeps
<1>7. ASSUME NEW s \in Servers, BakeFails(s) PROVE BakeInv'
  BY <1>7, BakeFailsKeeps
<1>4. ASSUME NEW t \in Tools, ReplaceTool(t) PROVE BakeInv'
  BY <1>4, ReplaceToolKeeps
<1>5. ASSUME NEW p \in Processes, Crash(p) PROVE BakeInv'
  BY <1>5, CrashKeeps
<1>6. CASE UNCHANGED bakeVars
  <2> USE <1>6 DEF bakeVars, scratch, counters, history
  <2>1. (BakeTypeOK /\ RunsApart /\ KeysKnown)'
    BY DEF BakeInv, BakeTypeOK, RunsApart, KeysKnown, At, Key
  <2>2. (FilesMatch /\ OnlySharedKeysFail)'
    BY DEF BakeInv, FilesMatch, Made, Whole, OnlySharedKeysFail, Key
  <2>3. (\A s \in Servers : InHand(s))'
    BY DEF BakeInv, InHand, Whole, Publish, At, Key
  <2>4. AloneUnlessMet'
    BY DEF BakeInv, AloneUnlessMet, InScratch, At, Key, Alone, Progress, HasSource, HasDump, Ran
  <2>5. FilesOwned'
    BY DEF BakeInv, FilesOwned, OwnsSource, OwnsDump, OwnsTmp, OwnsEncoder, InScratch, At, Key, Publish
  <2> QED BY <2>1, <2>2, <2>3, <2>4, <2>5 DEF BakeInv
<1> QED BY <1>1, <1>2, <1>3, <1>4, <1>5, <1>6, <1>7 DEF BakeNext

\* The invariant of the bakes: runs are one server's, temporary files one run's
\* (publish_path), what is in a file under a key is of that key (cache_file),
\* what a bake has in hand is what its step says, and a bake that shares its
\* scratch files with nobody finds them as it left them (encode_with_tool).
THEOREM BakeInvariant == BakeSpec => []BakeInv
<1>1. BakeInit => BakeInv
  BY BakeInitHolds
<1>2. BakeInv /\ [BakeNext]_bakeVars => BakeInv'
  BY BakeNextKeeps
<1> QED BY <1>1, <1>2, PTL DEF BakeSpec

\* However many servers and processes bake, die, and find the tool replaced,
\* a cache entry is a whole container of its key's image, by its key's tool
\* unless a bake spawned another for the key (store_cached, "Readers see the
\* previous container or the new one, never a partial write").
THEOREM EntriesAreWhole == BakeSpec => []EntriesMatchTheirKeys
<1>1. BakeInv => EntriesMatchTheirKeys
  BY DEF BakeInv, FilesMatch, InHand, EntriesMatchTheirKeys
<1> QED BY <1>1, BakeInvariant, PTL

\* A bake that fails either met a failure of its own - of the probe, of the
\* encoder, or of the disk - or shared the scratch files of its key, or another
\* tool was spawned for its key: nothing else fails one (encode_with_tool,
\* read_container, store_cached).
THEOREM FailuresAreExplained == BakeSpec => []OnlySharedKeysFail
<1>1. BakeInv => OnlySharedKeysFail
  BY DEF BakeInv
<1> QED BY <1>1, BakeInvariant, PTL

\* Idle servers of processes that never died leave entries only: success,
\* failure and timeout alike remove the scratch files (discard_scratch).
THEOREM ScratchIsDiscarded == BakeSpec => []ScratchIsRemoved
<1>1. BakeInv => ScratchIsRemoved
  BY DEF BakeInv, FilesOwned, OwnsSource, OwnsDump, OwnsTmp, OwnsEncoder, InScratch, At,
     ScratchIsRemoved
<1> QED BY <1>1, BakeInvariant, PTL
=============================================================================
