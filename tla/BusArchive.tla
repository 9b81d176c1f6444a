----------------------------- MODULE BusArchive -----------------------------
(***************************************************************************)
(* EventBus.archive_ticket_events (bus/event_bus.py), the rotation script  *)
(* that drives it (scripts/archive_event_bus.py), and the calls of emit    *)
(* beside them: the events of a ticket move from the live file to a file   *)
(* of the ticket.                                                          *)
(*                                                                         *)
(* The move is a read of the live file, a read and a rewrite of the        *)
(* archive file (opened with "w", not atomic), and an atomic replacement   *)
(* of the live file by what its read left over.  No lock is held: several  *)
(* rotations overlap, and emits come in between.  An emit is a read, which *)
(* gives the number, an open("a"), and a write, which goes to the file     *)
(* that was opened even when another has taken its place since.  Which     *)
(* calls emit refuses is a question for EventBus: here any may be written. *)
(***************************************************************************)
EXTENDS BusRules

CONSTANTS
  Processes,    \* they emit and they rotate
  Requests,     \* the events that may be written
  MaxEvents,    \* bound of the model: events ever written
  MaxRotations, \* bound of the model: rotations started
  MaxCrashes    \* bound of the model: rotations killed

VARIABLES
  live,       \* events.jsonl
  archive,    \* archive[t]: archive/events.<t>.jsonl
  pass,       \* pass[p]: the rotation of p: where it is, what it holds in memory
  draft,      \* draft[p]: the emit of p: how far it is, its number
  rotations,  \* rotations started so far
  written,    \* history: every event ever written, in order
  outrun,     \* history: ids of events whose number came from an outdated read
  stranded,   \* history: ids of events written to a file that was replaced
  overtaken,  \* history: ids of events written while a rotation held its read
  contended,  \* history: ids of events whose archive two rotations rewrote at once
  torn,       \* history: ids of events in an archive rewrite that a kill cut
  overlapped, \* history: two rotations held a read of the live file at once
  crashes     \* number of rotations killed so far

races == << outrun, stranded, overtaken, contended, torn, overlapped, crashes >>
vars == << live, archive, pass, draft, rotations, written, races >>

(* The last STATE_CHANGED states that the rotation takes for closed        *)
(* (TERMINAL_STATES of the script, which adds HUMAN_GATE).                 *)
ArchivedStates == TerminalStates \cup { "HUMAN_GATE" }

(* A mutation: the record is written without its id. *)
RecordWithoutId(r, n, id) == Stamp(r, n)

(* event_id, a uuid in the code, is the position in "written". *)
Record(r, n, id) ==
  [ type |-> r.type, ticket |-> r.ticket, actor |-> r.actor, arg |-> r.arg,
    rest |-> r.rest, seq |-> n, id |-> id ]

Ids(s) == { s[i].id : i \in DOMAIN s }

(* The records of s at some of its positions, in their order. *)
Nth(positions, k) ==
  CHOOSE i \in positions : Cardinality({ j \in positions : j <= i }) = k

Extract(s, positions) ==
  [ k \in 1..Cardinality(positions) |-> s[Nth(positions, k)] ]

(* A mutation: the whole file is taken for the ticket's. *)
OfAnyTicket(s, t) == s

(* The split of the file: what is the ticket's, and what is kept. *)
OfTicket(s, t) == Extract(s, { i \in DOMAIN s : s[i].ticket = t })

NotOfTicket(s, t) == Extract(s, { i \in DOMAIN s : s[i].ticket # t })

NoPass == [ at |-> "idle", todo |-> {}, ticket |-> "", kept |-> << >>,
            union |-> << >> ]

NoDraft == [ at |-> "none", seq |-> 0, current |-> FALSE ]

(* A rotation that has read the live file, and has not replaced it. *)
Holding(p) == pass[p].at \in { "merge", "truncate", "write", "replace" }

(* A rotation between its read of an archive and the end of the rewrite. *)
Rewriting(p, t) == pass[p].at \in { "truncate", "write" } /\ pass[p].ticket = t
-----------------------------------------------------------------------------
Init ==
  /\ live = << >>
  /\ archive = [t \in Tickets |-> << >>]
  /\ pass = [p \in Processes |-> NoPass]
  /\ draft = [p \in Processes |-> NoDraft]
  /\ rotations = 0
  /\ written = << >>
  /\ outrun = {}
  /\ stranded = {}
  /\ overtaken = {}
  /\ contended = {}
  /\ torn = {}
  /\ overlapped = FALSE
  /\ crashes = 0

(* What was read to number an event is no longer the live file; what was   *)
(* opened is not either, when the file was replaced.                       *)
Outdated(opened) ==
  [p \in Processes |->
     [ at |-> IF draft[p].at = "opened" THEN opened ELSE draft[p].at,
       seq |-> draft[p].seq, current |-> FALSE ]]

(* _read_raw_events at the top of emit *)
Number(p) ==
  /\ pass[p].at = "idle" /\ draft[p].at = "none"
  /\ Len(written) < MaxEvents
  /\ draft' = [draft EXCEPT ![p] = [ at |-> "numbered", seq |-> LastSeq(live) + 1,
                                     current |-> TRUE ]]
  /\ UNCHANGED << live, archive, pass, rotations, written, races >>

(* events_path.open("a") *)
Open(p) ==
  /\ draft[p].at = "numbered"
  /\ draft' = [draft EXCEPT ![p].at = "opened"]
  /\ UNCHANGED << live, archive, pass, rotations, written, races >>

With(ids, id, when) == IF when THEN ids \cup { id } ELSE ids

(* The write ends the call. *)
Write(p, r) ==
  /\ draft[p].at \in { "opened", "detached" }
  /\ Len(written) < MaxEvents
  /\ LET id == Len(written) + 1
         e == Record(r, draft[p].seq, id)
         lost == draft[p].at = "detached"
     IN /\ written' = Append(written, e)
        /\ live' = IF lost THEN live ELSE Append(live, e)
        /\ draft' = [(IF lost THEN draft ELSE Outdated("opened")) EXCEPT ![p] = NoDraft]
        /\ stranded' = With(stranded, id, lost)
        /\ outrun' = With(outrun, id, ~draft[p].current)
        /\ overtaken' = With(overtaken, id, \E q \in Processes : Holding(q))
  /\ UNCHANGED << archive, pass, rotations, contended, torn, overlapped, crashes >>

(* --all-terminal: the tickets whose latest STATE_CHANGED is terminal. *)
ClosedTickets(s) ==
  { t \in Tickets :
      \E i \in DOMAIN s : /\ LastOf(s, t, { "STATE_CHANGED" }, i)
                          /\ s[i].arg \in ArchivedStates }

(* --all-terminal, or --ticket with any ticket *)
Select(p) ==
  /\ pass[p].at = "idle" /\ draft[p].at = "none"
  /\ \E todo \in { ClosedTickets(live) } \cup { {t} : t \in Tickets } :
       /\ todo # {}
       /\ pass' = [pass EXCEPT ![p] = [NoPass EXCEPT !.at = "read", !.todo = todo]]
  /\ rotations < MaxRotations
  /\ rotations' = rotations + 1
  /\ UNCHANGED << live, archive, draft, written, races >>

(* archive_ticket_events reads the live file and splits it; the tickets    *)
(* are taken in some order.  A ticket without events is skipped.           *)
ReadLive(p, t) ==
  /\ pass[p].at = "read"
  /\ t \in pass[p].todo
  /\ LET todo == pass[p].todo \ {t}
     IN IF OfTicket(live, t) = << >>
        THEN /\ pass' = [pass EXCEPT ![p].todo = todo]
             /\ overlapped' = overlapped
        ELSE /\ pass' = [pass EXCEPT ![p] =
                           [ at |-> "merge", todo |-> todo, ticket |-> t,
                             kept |-> NotOfTicket(live, t),
                             union |-> OfTicket(live, t) ]]
             /\ overlapped' = (overlapped \/ \E q \in Processes : Holding(q))
  /\ UNCHANGED << live, archive, draft, rotations, written, outrun, stranded, overtaken,
                  contended, torn, crashes >>

(* Mutations of Joined: the archive is overwritten; it comes second. *)
JoinedAnew(old, moved) == moved
JoinedBehind(old, moved) == moved \o old

(* What the archive will hold: its old events, then the moved ones. *)
Joined(old, moved) == old \o moved

(* read_archived_events.  From here on the rewrite is at odds with any     *)
(* other of the same file, for all the events there are of the ticket.     *)
MergeArchive(p) ==
  /\ pass[p].at = "merge"
  /\ pass' = [pass EXCEPT ![p].at = "truncate",
                          ![p].union = Joined(archive[pass[p].ticket], @)]
  /\ contended' =
       IF \E q \in Processes : Rewriting(q, pass[p].ticket)
       THEN contended \cup { i \in DOMAIN written : written[i].ticket = pass[p].ticket }
       ELSE contended
  /\ UNCHANGED << live, archive, draft, rotations, written, outrun, stranded, overtaken,
                  torn, overlapped, crashes >>

(* archive_path.open("w"): the file is empty. *)
TruncateArchive(p) ==
  /\ pass[p].at = "truncate"
  /\ archive' = [archive EXCEPT ![pass[p].ticket] = << >>]
  /\ pass' = [pass EXCEPT ![p].at = "write"]
  /\ UNCHANGED << live, draft, rotations, written, races >>

(* A file written from its beginning keeps what is beyond the new text;    *)
(* the lines are taken for equally long.                                   *)
Overwritten(old, new) == new \o Extract(old, { i \in DOMAIN old : i > Len(new) })

WriteArchive(p) ==
  /\ pass[p].at = "write"
  /\ archive' = [archive EXCEPT ![pass[p].ticket] = Overwritten(@, pass[p].union)]
  /\ pass' = [pass EXCEPT ![p].at = "replace"]
  /\ UNCHANGED << live, draft, rotations, written, races >>

(* os.replace(temp_path, events_path) *)
ReplaceLive(p) ==
  /\ pass[p].at = "replace"
  /\ live' = pass[p].kept
  /\ draft' = Outdated("detached")
  /\ pass' = [pass EXCEPT ![p] = [NoPass EXCEPT !.at = "read", !.todo = pass[p].todo]]
  /\ UNCHANGED << archive, rotations, written, races >>

Finish(p) ==
  /\ pass[p].at = "read"
  /\ pass[p].todo = {}
  /\ pass' = [pass EXCEPT ![p] = NoPass]
  /\ UNCHANGED << live, archive, draft, rotations, written, races >>

(* The events of a rewrite that are still in the live file, where no other *)
(* rotation may take them away.                                            *)
Safe(p) == IF \E q \in Processes : q # p /\ Holding(q) THEN {} ELSE Ids(live)

(* The rotation is killed, or an exception ends it, such as that of        *)
(* os.replace on Windows when another process has the file open.           *)
Crash(p) ==
  /\ pass[p].at # "idle"
  /\ crashes < MaxCrashes
  /\ crashes' = crashes + 1
  /\ pass' = [pass EXCEPT ![p] = NoPass]
  /\ torn' = IF pass[p].at = "write" THEN torn \cup (Ids(pass[p].union) \ Safe(p))
             ELSE torn
  /\ UNCHANGED << live, archive, draft, rotations, written, outrun, stranded, overtaken,
                  contended, overlapped >>

Rotate(p) == \/ Select(p)
             \/ \E t \in Tickets : ReadLive(p, t)
             \/ MergeArchive(p)
             \/ TruncateArchive(p)
             \/ WriteArchive(p)
             \/ ReplaceLive(p)
             \/ Finish(p)

Emit(p) == Number(p) \/ Open(p) \/ \E r \in Requests : Write(p, r)

Next == \E p \in Processes : Emit(p) \/ Rotate(p) \/ Crash(p)

Spec == Init /\ [][Next]_vars
-----------------------------------------------------------------------------
Archived == [ type : STRING, ticket : Tickets, actor : STRING, arg : STRING,
              rest : Seq(STRING), seq : Nat, id : Nat ]

(* Type correctness of both files, of what rotations and emits hold in     *)
(* memory and of the history.                                              *)
TypeOK ==
  /\ live \in Seq(Archived)
  /\ archive \in [Tickets -> Seq(Archived)]
  /\ pass \in [ Processes ->
       [ at : { "idle", "read", "merge", "truncate", "write", "replace" },
         todo : SUBSET Tickets, ticket : Tickets \cup { "" },
         kept : Seq(Archived), union : Seq(Archived) ] ]
  /\ draft \in [ Processes ->
       [ at : { "none", "numbered", "opened", "detached" }, seq : Nat,
         current : BOOLEAN ] ]
  /\ written \in Seq(Archived)
  /\ \A ids \in { outrun, stranded, overtaken, contended, torn } :
        ids \subseteq DOMAIN written
  /\ overlapped \in BOOLEAN
  /\ rotations \in 0..MaxRotations
  /\ crashes \in 0..MaxCrashes

(* read_events_live_and_archived *)
LiveAndArchived(t) == archive[t] \o OfTicket(live, t)

(* What emits and rotations may lose.  An event that was ever written is   *)
(* still in the live file, in the archive of its ticket or in the memory   *)
(* of the rotation that is rewriting that archive, unless it was written   *)
(* to a file that had been replaced, or while a rotation held its read, or *)
(* had its archive rewritten by two rotations at once or by one that was   *)
(* killed.  There is no fifth way to lose one.                             *)
LostOnlyByRace ==
  \A i \in DOMAIN written :
     \/ written[i].id \in Ids(live) \cup Ids(archive[written[i].ticket])
     \/ \E p \in Processes : pass[p].at = "write" /\ i \in Ids(pass[p].union)
     \/ i \in stranded \cup overtaken \cup contended \cup torn

(* Numbers that do not grow within the live file are the work of a call    *)
(* whose read was outdated when it wrote, by another write or by a         *)
(* rotation: consumers that keep the highest number they processed lose    *)
(* events by such calls, never by what a rotation takes out.               *)
LiveSequenceGrows ==
  \A i \in DOMAIN live, j \in DOMAIN live :
     i < j => \/ live[i].seq < live[j].seq
              \/ \E k \in outrun : live[i].id < k /\ k <= live[j].id

(* The archive of a ticket holds events of that ticket only, the live file *)
(* no event twice: however many rotations overlap and are killed, tickets  *)
(* are not mixed up.                                                       *)
ArchivesSeparate ==
  /\ \A t \in Tickets : \A i \in DOMAIN archive[t] : archive[t][i].ticket = t
  /\ Cardinality(Ids(live)) = Len(live)

(* Between two moves, and if no rotation was killed or overlapped another, *)
(* archived and live events of a ticket joined are in the order they were  *)
(* written, none twice: what read_events_live_and_archived promises.       *)
UnionIsChronological ==
  crashes = 0 /\ ~overlapped /\ (\A p \in Processes : ~Holding(p)) =>
    \A t \in Tickets :
       LET u == LiveAndArchived(t)
       IN \A i \in DOMAIN u, j \in DOMAIN u : i < j => u[i].id < u[j].id

=============================================================================
