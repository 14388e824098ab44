------------------------------- MODULE Timeline -------------------------------
(***************************************************************************)
(* What the undo history of an edited mesh promises: the views the user    *)
(* has passed through form a line, undo and redo walk it one entry at a    *)
(* time, an edit forgets what lay ahead, and only the oldest entries may   *)
(* be forgotten to stay within the history's limits.  Two things depart    *)
(* from a plain line: a logged commit is an edit whose entry leads back to *)
(* the view committed before it, and a refused edit forgets the future.    *)
(***************************************************************************)
EXTENDS Naturals, Sequences

CONSTANT Views

VARIABLES
    past,    \* entries that undo walks back through, oldest first
    now,     \* the view displayed
    future,  \* entries that redo walks forward through, nearest first
    saved,   \* the committed view
    call     \* what the last call did

timeline == <<past, now, future, saved, call>>

\* An entry is the view on its far side and whether it stands for a drag.
Entry(drag, view) == [drag |-> drag, view |-> view]

LastOf(s) == s[Len(s)]

\* The history may forget its oldest entries, never the newest.
Remembers(entries, entry) ==
    \E k \in 1..(Len(entries) + 1) :
        past' = Append(SubSeq(entries, k, Len(entries)), entry)

TimelineInit ==
    /\ past = <<>> /\ future = <<>>
    /\ now \in Views /\ saved = now
    /\ call = "none"

Edit ==
    /\ call' = "edit"
    /\ \E drag \in BOOLEAN : Remembers(past, Entry(drag, now))
    /\ future' = <<>>
    /\ now' \in Views
    /\ UNCHANGED saved

\* The view on display becomes the committed one.
LoggedCommit ==
    /\ call' = "edit"
    /\ Remembers(past, Entry(FALSE, saved))
    /\ future' = <<>>
    /\ saved' = now
    /\ UNCHANGED now

\* A further frame of a drag belongs to the entry the drag opened.
Drag ==
    /\ call' = "edit"
    /\ past # <<>> /\ LastOf(past).drag
    /\ future' = <<>>
    /\ now' \in Views
    /\ UNCHANGED <<past, saved>>

Back ==
    /\ call' = "undo"
    /\ past # <<>>
    /\ now' = LastOf(past).view
    /\ past' = SubSeq(past, 1, Len(past) - 1)
    /\ future' = <<Entry(LastOf(past).drag, now)>> \o future
    /\ UNCHANGED saved

Forward ==
    /\ call' = "redo"
    /\ future # <<>>
    /\ now' = Head(future).view
    /\ Remembers(past, Entry(Head(future).drag, now))
    /\ future' = Tail(future)
    /\ UNCHANGED saved

\* The view on display is replaced in place: an exact result or a cancelled
\* preview, and the committed view with it or alone.
Replace ==
    /\ call' = "replace"
    /\ now' \in Views
    /\ saved' \in {saved, now, now'}
    /\ UNCHANGED <<past, future>>

Clear ==
    /\ call' = "clear"
    /\ past' = <<>> /\ future' = <<>>
    /\ UNCHANGED <<now, saved>>

\* A call that is refused changes nothing the user sees.
Refuse ==
    /\ \/ call' \in {"budget", "empty"} /\ UNCHANGED future
       \/ call' = "budget" /\ future' = <<>>
    /\ UNCHANGED <<past, now, saved>>

TimelineNext ==
    \/ Edit \/ LoggedCommit \/ Drag \/ Back \/ Forward
    \/ Replace \/ Clear \/ Refuse

TimelineSpec == TimelineInit /\ [][TimelineNext]_timeline
===============================================================================
