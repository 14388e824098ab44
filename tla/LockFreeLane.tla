---------------------------- MODULE LockFreeLane ----------------------------
(***************************************************************************)
(* LockFreeLaneInner of crates/core/src/smart_store.rs: readers under an   *)
(* epoch guard, writers that clone the snapshot, edit the clone and publish*)
(* it with a compare-and-swap, retired snapshots freed by the collector.   *)
(* A snapshot is the sequence of the writes applied to it.  The collector  *)
(* (crossbeam-epoch) is external: it may free a snapshot as soon as every  *)
(* thread that was pinned when it was retired has unpinned since.          *)
(* Addresses are reused, so a pointer comparison may meet one twice.       *)
(***************************************************************************)
EXTENDS Naturals, Sequences, FiniteSets

CONSTANTS Writers, Readers,
          Rounds,       \* bound on the calls a thread makes
          Addresses,    \* bound on memory
          Null          \* no address

ASSUME LaneAssumption == /\ Writers \intersect Readers = {}
                         /\ Rounds \in Nat
                         /\ IsFiniteSet(Addresses) /\ Null \notin Addresses

Threads == Writers \union Readers

VARIABLES store,    \* the published address: Atomic<ComponentStore<T>>
          memory,   \* address -> snapshot
          free,     \* addresses the allocator may hand out
          waits,    \* retired address -> threads whose guards keep it
          pinned,   \* threads holding an epoch guard
          pc, shared, fresh,  \* of each thread: where it is, what it loaded, its clone
          round     \* calls completed

lockFreeVars == <<store, memory, free, waits, pinned, pc, shared, fresh, round>>

LockFreeInit ==
    /\ store \in Addresses
    /\ memory = [a \in Addresses |-> <<>>]
    /\ free = Addresses \ {store}
    /\ waits = <<>>
    /\ pinned = {}
    /\ pc = [t \in Threads |-> "idle"]
    /\ shared = [t \in Threads |-> Null]
    /\ fresh = [t \in Threads |-> Null]
    /\ round = [t \in Threads |-> 0]

Goto(t, label) == pc' = [pc EXCEPT ![t] = label]

(* epoch_pin(), at the head of a read or of an iteration of the loop. *)
Pin(t) ==
    /\ pc[t] = "idle" /\ round[t] < Rounds
    /\ pinned' = pinned \union {t}
    /\ Goto(t, "load")
    /\ UNCHANGED <<store, memory, free, waits, shared, fresh, round>>

(* self.store.load(Acquire, guard). *)
Load(t) ==
    /\ pc[t] = "load"
    /\ shared' = [shared EXCEPT ![t] = store]
    /\ Goto(t, IF t \in Writers THEN "clone" ELSE "read")
    /\ UNCHANGED <<store, memory, free, waits, pinned, fresh, round>>

(* Clone the snapshot, run f on the clone, box it (Owned::new). *)
CloneAndEdit(t) ==
    /\ pc[t] = "clone"
    /\ \E a \in free :
          /\ free' = free \ {a}
          /\ fresh' = [fresh EXCEPT ![t] = a]
          /\ memory' = [memory EXCEPT ![a] =
                           Append(memory[shared[t]], <<t, round[t] + 1>>)]
    /\ Goto(t, "exchange")
    /\ UNCHANGED <<store, waits, pinned, shared, round>>

(* A guard goes: the collector no longer waits for its thread. *)
Released(w, t) == [a \in DOMAIN w |-> w[a] \ {t}]

(* The publish is a plain store: the loaded snapshot is not compared. *)
BugUnchanged(t) == TRUE

(* The comparison of compare_exchange: by address. *)
Unchanged(t) == store = shared[t]

(* Won: the clone is published; this call has taken effect. *)
ExchangeWins(t) ==
    /\ pc[t] = "exchange" /\ Unchanged(t)
    /\ store' = fresh[t]
    /\ round' = [round EXCEPT ![t] = @ + 1]
    /\ fresh' = [fresh EXCEPT ![t] = Null]
    /\ Goto(t, "retire")
    /\ UNCHANGED <<memory, free, waits, pinned, shared>>

(* A lost exchange clones again what it had loaded. *)
BugRetry == "clone"

(* The next iteration pins and loads afresh. *)
Retry == "idle"

(* Lost: the clone is dropped with the error, the guard with the iteration.*)
ExchangeLoses(t) ==
    /\ pc[t] = "exchange" /\ ~Unchanged(t)
    /\ free' = free \union {fresh[t]}
    /\ memory' = [memory EXCEPT ![fresh[t]] = <<>>]
    /\ pinned' = pinned \ {t}
    /\ waits' = Released(waits, t)
    /\ fresh' = [fresh EXCEPT ![t] = Null]
    /\ Goto(t, Retry)
    /\ UNCHANGED <<store, shared, round>>

(* The replaced snapshot is dropped at once. *)
BugGuards(t) == {}

(* The guards a retired snapshot outlives. *)
Guards(t) == pinned \ {t}

(* defer_destroy(shared); the guard is dropped as the loop breaks. *)
Retire(t) ==
    /\ pc[t] = "retire"
    /\ pinned' = pinned \ {t}
    /\ waits' = [a \in DOMAIN waits \union {shared[t]} |->
                    IF a = shared[t] THEN Guards(t) ELSE waits[a] \ {t}]
    /\ shared' = [shared EXCEPT ![t] = Null]
    /\ Goto(t, "idle")
    /\ UNCHANGED <<store, memory, free, fresh, round>>

(* with_lock_free_lane returns. *)
EndRead(t) ==
    /\ pc[t] = "read"
    /\ pinned' = pinned \ {t}
    /\ waits' = Released(waits, t)
    /\ round' = [round EXCEPT ![t] = @ + 1]
    /\ shared' = [shared EXCEPT ![t] = Null]
    /\ Goto(t, "idle")
    /\ UNCHANGED <<store, memory, free, fresh>>

(* The collector frees a retired snapshot. *)
Reclaim(a) ==
    /\ a \in DOMAIN waits /\ waits[a] = {}
    /\ waits' = [b \in DOMAIN waits \ {a} |-> waits[b]]
    /\ free' = free \union {a}
    /\ memory' = [memory EXCEPT ![a] = <<>>]
    /\ UNCHANGED <<store, pinned, pc, shared, fresh, round>>

ThreadStep(t) == \/ Pin(t) \/ Load(t) \/ CloneAndEdit(t)
                 \/ ExchangeWins(t) \/ ExchangeLoses(t) \/ Retire(t) \/ EndRead(t)

Collect == \E a \in Addresses : Reclaim(a)

Finished == /\ \A t \in Threads : pc[t] = "idle" /\ round[t] = Rounds
            /\ UNCHANGED lockFreeVars

LockFreeNext == (\E t \in Threads : ThreadStep(t)) \/ Collect \/ Finished

LockFreeSpec == LockFreeInit /\ [][LockFreeNext]_lockFreeVars

(* Threads keep running; the collector keeps collecting. *)
LockFreeFairness ==
    (\A t \in Threads : WF_lockFreeVars(ThreadStep(t))) /\ WF_lockFreeVars(Collect)

-----------------------------------------------------------------------------
(* Properties. *)

Uses(t, a) == \/ pc[t] \in {"clone", "exchange", "read", "retire"} /\ shared[t] = a
              \/ pc[t] = "exchange" /\ fresh[t] = a

(* No thread holds a pointer to a snapshot that has been freed.            *)
NoUseAfterFree == \A t \in Threads, a \in Addresses : Uses(t, a) => a \notin free

(* A replaced snapshot is retired by the one thread whose exchange         *)
(* replaced it, so never twice.                                            *)
RetiredOnce ==
    \A t \in Threads : pc[t] = "retire" =>
        /\ shared[t] \notin DOMAIN waits
        /\ shared[t] # store
        /\ \A u \in Threads \ {t} : pc[u] = "retire" => shared[u] # shared[t]

(* The SAFETY comments of write and read and the one on write's loop:      *)
(* memory is freed once, after the last thread that uses it.               *)
SnapshotsAreSafe == NoUseAfterFree /\ RetiredOnce

(* Readers and writers see an atomic lane. *)
Lane == INSTANCE AtomicLane WITH
            lane <- memory[store],
            view <- [r \in Readers |-> IF pc[r] = "read" THEN <<memory[shared[r]]>> ELSE <<>>]
LaneSpec == Lane!LaneSpec

(* Every call returns: a lost exchange means another write has landed. *)
CallsReturn == <>(\A t \in Threads : round[t] = Rounds /\ pc[t] = "idle")

=============================================================================
