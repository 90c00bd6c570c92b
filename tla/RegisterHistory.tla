--------------------------- MODULE RegisterHistory ---------------------------
(***************************************************************************)
(* What the mirror promises: it holds the last listing it observed and a   *)
(* history per flagger, and the two move together.  One step observes one  *)
(* listing.  A flagger whose entry changed gets exactly one history event, *)
(* of the type of the change and with the content it changed to; any other *)
(* history is left alone.                                                  *)
(*                                                                         *)
(* No run, transaction, table read or partial failure appears here: Ingest *)
(* is shown to implement this specification.                               *)
(***************************************************************************)
EXTENDS Sequences

CONSTANTS
    Id,       \* flaggers
    Content,  \* what the register can say of a listed flagger
    Absent    \* not listed, never seen: neither a content nor an entry

VARIABLES
    mirror,   \* for each flagger: Absent, or [content, listed]
    history   \* for each flagger: the sequence of its events

mirrorVars == <<mirror, history>>

MirrorInit ==
    /\ mirror = [id \in Id |-> Absent]
    /\ history = [id \in Id |-> <<>>]

\* The entry of a flagger after a listing that says l of it.
Mirrored(entry, l) ==
    IF l \in Content THEN [content |-> l, listed |-> TRUE]
    ELSE IF entry = Absent THEN Absent
    ELSE [content |-> entry.content, listed |-> FALSE]

\* The name of a change from one entry to a different one.
ChangeType(before, after) ==
    IF before = Absent THEN "created"
    ELSE IF ~after.listed THEN "removed"
    ELSE IF ~before.listed THEN "restored"
    ELSE "updated"

\* h1 records the change from before to after at the end of h.
Records(h, h1, before, after) ==
    IF before = after
    THEN h1 = h
    ELSE h1 = Append(h, [type     |-> ChangeType(before, after),
                         snapshot |-> after.content])

Observe(listing) ==
    /\ mirror' = [id \in Id |-> Mirrored(mirror[id], listing[id])]
    /\ \A id \in Id :
           Records(history[id], history'[id], mirror[id], mirror'[id])
    /\ DOMAIN history' = Id

MirrorNext == \E listing \in [Id -> Content \union {Absent}] : Observe(listing)

MirrorSpec == MirrorInit /\ [][MirrorNext]_mirrorVars
=============================================================================
