--------------------------- MODULE ComponentStore ---------------------------
(***************************************************************************)
(* Component stores in use: the calls of systems, the change feed that a   *)
(* consumer drains, clones, the layout clock the stores share, and the     *)
(* alignment cache of a generated system that walks all of them            *)
(* (crates/macros/src/smart_system_lanes.rs).  A call takes &mut self, so  *)
(* it is one step; the log and the clock have locks of their own.          *)
(***************************************************************************)
EXTENDS SparseSet

CONSTANTS NumStores,
          MaxClock    \* bound on the layout clock

ASSUME NumStoresAssumption == NumStores \in Nat \ {0}
ASSUME MaxClockAssumption == MaxClock \in Nat
\* The component of an entity is its handle.
ASSUME ValuesAssumption == Entity \subseteq Values

VARIABLES stores,
          clock,       \* LAYOUT_CLOCK: the last layout version handed out
          alignment,   \* __smart_alignment of the system; <<>> stands for None
          touched      \* history: ids inserted, mutated or removed since the
                       \* log of their store was last taken

storeVars == <<stores, clock, alignment, touched>>

Stores == 1 .. NumStores
NextLayout == clock + 1

\* The call leaves store x as s; a stamp it took moves the clock.
Set(x, s) ==
  /\ stores' = [stores EXCEPT ![x] = s]
  /\ clock' = IF s.layout = NextLayout THEN NextLayout ELSE clock
  /\ UNCHANGED alignment

\* The same for a call that gives its caller write access to ids.
Call(x, s, ids) ==
  /\ Set(x, s)
  /\ touched' = [touched EXCEPT ![x] = @ \cup ids]

StoreInit ==
  /\ stores = [x \in Stores |-> NewStore(x)]
  /\ clock = NumStores
  /\ alignment = <<>>
  /\ touched = [x \in Stores |-> {}]

\* The component of an entity is its handle: no method looks at a value, and
\* one that ends up in the wrong slot, or is left behind, shows.
InsertAt(x) ==
  \E e \in Entity :
    /\ clock < MaxClock
    /\ Call(x, Insert(stores[x], e, e, NextLayout), {e.id})

RemoveAt(x) ==
  \E e \in Entity :
    /\ clock < MaxClock
    /\ Has(stores[x], e)
    /\ Call(x, Remove(stores[x], e, NextLayout), {e.id})

WriteAt(x) ==
  \E e \in Entity :
    /\ Has(stores[x], e)
    /\ Call(x, Write(stores[x], e, e), {e.id})

WriteAllAt(x) == Call(x, WriteAll(stores[x], stores[x].entities), stores[x].bitset)

\* defrag() returns early below two components.
DefragAt(x) ==
  /\ clock < MaxClock
  /\ Len(stores[x].data) >= 2
  /\ \E p \in [1 .. Len(stores[x].data) -> 1 .. Len(stores[x].data)] :
       /\ IsIdOrder(stores[x], p)
       /\ Call(x, Reorder(stores[x], p, NextLayout), {})

EnableAt(x) == Call(x, EnableChangeTracking(stores[x]), {})

\* The consumer catches up with the store when it takes the log.
TakeAt(x) ==
  /\ Set(x, TakeChanges(stores[x]))
  /\ touched' = [touched EXCEPT ![x] = {}]

\* Store y becomes a clone of store x; whoever reads y's log knows nothing.
CloneTo(x, y) ==
  /\ x # y
  /\ Set(y, Clone(stores[x]))
  /\ touched' = [touched EXCEPT ![y] = stores[x].bitset]

Aligned ==
  /\ IsIdOrdered(stores[1])
  /\ \A x \in Stores : stores[x].entities = stores[1].entities

Layouts == [x \in Stores |-> stores[x].layout]
CacheHit == alignment # <<>> /\ alignment.layouts = Layouts

\* The system asks once per run and keeps the answer for these layouts.
CheckAlignment ==
  /\ ~CacheHit
  /\ alignment' = [layouts |-> Layouts, aligned |-> Aligned]
  /\ UNCHANGED <<stores, clock, touched>>

StoreNext ==
  \/ \E x \in Stores :
       \/ InsertAt(x) \/ RemoveAt(x) \/ WriteAt(x) \/ WriteAllAt(x) \/ DefragAt(x)
       \/ EnableAt(x) \/ TakeAt(x)
       \/ \E y \in Stores : CloneTo(x, y)
  \/ CheckAlignment

StoreSpec == StoreInit /\ [][StoreNext]_storeVars
-----------------------------------------------------------------------------
\* The variables have their types, and no log outgrows its cap.
StoreTypeOK ==
  /\ stores \in [Stores -> Store]
  /\ \A x \in Stores : Len(stores[x].log) <= ChangeIdCap
  /\ clock \in Nat

\* After any sequence of inserts, swap-removals, handle refreshes, defrags and
\* clones, the three structures of every store describe the same components:
\* the invariants listed in the doc comment of ComponentStore.  A consumer that
\* trusts the log without the exhaustive flag misses nothing: every id
\* inserted, mutated or removed since the last take has an entry, whatever
\* overflowed, was cloned or was enabled late in between.
StoresCoherent ==
  /\ StoreTypeOK
  /\ \A x \in Stores :
       /\ Coherent(stores[x])
       /\ Logging(stores[x]) => \A i \in touched[x] : Logged(stores[x], i)

\* The alignment a system cached is the alignment it would compute now: equal
\* layout versions mean equal entity sequences, across stores, clones and time.
AlignmentFresh == CacheHit => alignment.aligned = Aligned

Maps == INSTANCE ComponentMaps WITH maps <- [x \in Stores |-> Content(stores[x])]

\* Whatever the dense arrays go through, each store is a map from ids to the
\* generation and component written last: a stale handle removes nothing, and
\* swap-removal, defrag and writes move no component to another id.
MapsSpec == Maps!Spec
=============================================================================
