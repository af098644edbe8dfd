-------------------------------- MODULE Dedup --------------------------------
(***************************************************************************)
(* The rename-pair correlator manage_duplicate_dropbox_events of           *)
(* src/crashlog/dropbox.c, fed by the inotify queue of the dropbox-type    *)
(* watches.                                                                *)
(*                                                                         *)
(* The correlator keeps one pending rename (previous_event_cookie,         *)
(* previous_filename) for every watch that calls it. An IN_MOVED_FROM is   *)
(* recorded and suppressed; an IN_MOVED_TO with the recorded non-zero      *)
(* cookie is turned into one informational event naming both files and     *)
(* suppressed; everything else is returned to the handler, which           *)
(* processes it as a crash (process_anruiwdt_event, priv_process_usercrash_*)
(* event, process_lost_event).                                             *)
(*                                                                         *)
(* The environment renames files inside the dropbox (a MOVED_FROM/MOVED_TO *)
(* pair with a fresh cookie), moves files out of it (a lone MOVED_FROM) or *)
(* into it (a lone MOVED_TO), and creates files (an event with cookie 0).  *)
(* When PairsMayInterleave holds, the MOVED_TO of a rename may reach the   *)
(* queue after other events; the code assumes it never does.               *)
(* File names are model values; the copy of the dropbox file and the       *)
(* rendered timestamp are left out.                                        *)
(***************************************************************************)
EXTENDS Naturals, Sequences, FiniteSets

CONSTANTS
    Names,              \* dropbox file names, model values
    NoName,             \* previous_filename = ""
    MaxCookie,          \* bound on the inotify cookies handed out
    PairsMayInterleave  \* whether a rename's two events may be split

ASSUME NoName \notin Names /\ MaxCookie \in Nat
ASSUME PairsMayInterleave \in BOOLEAN

Kinds == {"moved_from", "moved_to", "other"}
Event == [kind : Kinds, cookie : 0 .. MaxCookie, name : Names]

VARIABLES
    queue,       \* inotify events not yet read by the dispatch thread
    split,       \* MOVED_TO halves of renames not yet queued
    cookie,      \* the last inotify cookie handed out
    fresh,       \* names not yet used by the environment
    present,     \* names of the files now in the dropbox
    prevCookie,  \* static previous_event_cookie
    prevName,    \* static previous_filename
    infos,       \* informational events: [from, to] (history)
    crashes,     \* names processed as crash events (history)
    renames,     \* ghost: renames done inside the dropbox, [from, to]
    splitRenames, \* ghost: the renames whose two events were split
    created      \* ghost: names that arrived as new files

vars == <<queue, split, cookie, fresh, present, prevCookie, prevName, infos, crashes,
          renames, splitRenames, created>>

Init ==
    /\ queue = <<>>
    /\ split = {}
    /\ cookie = 0
    /\ fresh = Names
    /\ present = {}
    /\ prevCookie = 0
    /\ prevName = NoName
    /\ infos = {}
    /\ crashes = {}
    /\ renames = {}
    /\ splitRenames = {}
    /\ created = {}

-----------------------------------------------------------------------------
(* The environment: DropBoxManager and the kernel.                         *)

Ev(k, c, n) == [kind |-> k, cookie |-> c, name |-> n]

\* A file of the dropbox is renamed from a to b (a time change, a move out
\* and back): MOVED_FROM and MOVED_TO with one fresh cookie.
Rename(a, b) ==
    /\ a \in present
    /\ b \in fresh
    /\ cookie < MaxCookie
    /\ cookie' = cookie + 1
    /\ fresh' = fresh \ {b}
    /\ present' = (present \ {a}) \cup {b}
    /\ renames' = renames \cup {[from |-> a, to |-> b]}
    /\ \/ /\ queue' = queue \o <<Ev("moved_from", cookie', a), Ev("moved_to", cookie', b)>>
          /\ UNCHANGED <<split, splitRenames>>
       \/ /\ PairsMayInterleave
          /\ queue' = Append(queue, Ev("moved_from", cookie', a))
          /\ split' = split \cup {Ev("moved_to", cookie', b)}
          /\ splitRenames' = splitRenames \cup {[from |-> a, to |-> b]}
    /\ UNCHANGED <<prevCookie, prevName, infos, crashes, created>>

\* The delayed MOVED_TO half of a rename reaches the queue.
DeliverSplit ==
    /\ \E e \in split :
         /\ queue' = Append(queue, e)
         /\ split' = split \ {e}
    /\ UNCHANGED <<cookie, fresh, present, prevCookie, prevName, infos, crashes,
                   renames, splitRenames, created>>

\* A new crash file appears: written in place (cookie 0) or moved in from an
\* unwatched directory (a lone MOVED_TO with a fresh cookie).
Create(n) ==
    /\ n \in fresh
    /\ fresh' = fresh \ {n}
    /\ present' = present \cup {n}
    /\ created' = created \cup {n}
    /\ \/ /\ queue' = Append(queue, Ev("other", 0, n))
          /\ UNCHANGED cookie
       \/ /\ cookie < MaxCookie
          /\ cookie' = cookie + 1
          /\ queue' = Append(queue, Ev("moved_to", cookie', n))
    /\ UNCHANGED <<split, prevCookie, prevName, infos, crashes, renames, splitRenames>>

\* A file is moved out of the dropbox to an unwatched directory: a lone
\* MOVED_FROM.
MoveOut(a) ==
    /\ a \in present
    /\ cookie < MaxCookie
    /\ cookie' = cookie + 1
    /\ present' = present \ {a}
    /\ queue' = Append(queue, Ev("moved_from", cookie', a))
    /\ UNCHANGED <<split, fresh, prevCookie, prevName, infos, crashes, renames,
                   splitRenames, created>>

-----------------------------------------------------------------------------
(* The dispatch thread reads the oldest event and its handler calls        *)
(* manage_duplicate_dropbox_events(event).                                 *)

\* Seeded variant: the cookie is not remembered.
RecordMovedFromNoCookie(e) ==
    /\ e.kind = "moved_from"
    /\ prevName' = e.name
    /\ UNCHANGED <<prevCookie, infos, crashes>>

\* IN_MOVED_FROM: remember cookie and name, suppress the event.
RecordMovedFrom(e) ==
    /\ e.kind = "moved_from"
    /\ prevCookie' = e.cookie
    /\ prevName' = e.name
    /\ UNCHANGED <<infos, crashes>>

\* Seeded variant: any MOVED_TO completes the pending rename.
IsMatchNoCookieCheck(e) ==
    e.kind = "moved_to" /\ prevCookie /= 0

\* The test of the matched pair: an IN_MOVED_TO carrying the remembered
\* non-zero cookie (every event has a name here, so event->len holds).
IsMatch(e) ==
    e.kind = "moved_to" /\ prevCookie /= 0 /\ prevCookie = e.cookie

\* Seeded variant: previous_filename is not reset after a match.
MatchMovedToKeepName(e) ==
    /\ IsMatch(e)
    /\ infos' = infos \cup {[from |-> prevName, to |-> e.name]}
    /\ prevCookie' = 0
    /\ UNCHANGED <<prevName, crashes>>

\* The matched pair: one informational event (previous name, new name);
\* the pending rename is reset.
MatchMovedTo(e) ==
    /\ IsMatch(e)
    /\ infos' = infos \cup {[from |-> prevName, to |-> e.name]}
    /\ prevCookie' = 0
    /\ prevName' = NoName
    /\ UNCHANGED crashes

\* Anything else is returned with 0: the handler processes it as a crash.
PassThrough(e) ==
    /\ e.kind /= "moved_from"
    /\ ~IsMatch(e)
    /\ crashes' = crashes \cup {e.name}
    /\ UNCHANGED <<prevCookie, prevName, infos>>

Dispatch ==
    /\ queue /= <<>>
    /\ LET e == Head(queue) IN
         RecordMovedFrom(e) \/ MatchMovedTo(e) \/ PassThrough(e)
    /\ queue' = Tail(queue)
    /\ UNCHANGED <<split, cookie, fresh, present, renames, splitRenames, created>>

Next ==
    \/ \E a, b \in Names : Rename(a, b)
    \/ DeliverSplit
    \/ \E n \in Names : Create(n) \/ MoveOut(n)
    \/ Dispatch

Spec == Init /\ [][Next]_vars

-----------------------------------------------------------------------------
(* Properties                                                              *)

\* Types, and the pending rename is either wholly set or wholly cleared.
TypeOK ==
    /\ queue \in Seq(Event)
    /\ split \subseteq Event
    /\ cookie \in 0 .. MaxCookie
    /\ fresh \subseteq Names /\ present \subseteq Names
    /\ prevCookie \in 0 .. MaxCookie
    /\ prevName \in Names \cup {NoName}
    /\ (prevCookie = 0) = (prevName = NoName)
    /\ infos \subseteq [from : Names \cup {NoName}, to : Names]
    /\ crashes \subseteq Names
    /\ splitRenames \subseteq renames /\ renames \subseteq [from : Names, to : Names]
    /\ created \subseteq Names

\* Spec 1 and 4.4: a rename inside the dropbox never reaches the handler as a
\* crash: only a file that arrived as a new file is processed as one, or the
\* target of a rename whose two events were split (which the comment of
\* manage_duplicate_dropbox_events rules out), however the other renames,
\* moves in and out and new files interleave with it.
NoFalseCrash == crashes \subseteq created \cup {r.to : r \in splitRenames}

\* Every informational event names a rename that happened, old name first.
InfoOnlyForRenames == infos \subseteq renames

\* Once every event has been read, each new file has been processed as a
\* crash and each rename whose events came as a pair has produced its
\* informational event: a lone MOVED_FROM (a move out), a lone MOVED_TO (a
\* move in) or a split pair never swallows the other half of a later pair.
NothingLostWhenDrained ==
    (queue = <<>> /\ split = {}) =>
        (created \subseteq crashes /\ renames \ splitRenames \subseteq infos)
=============================================================================
