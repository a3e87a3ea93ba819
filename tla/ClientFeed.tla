----------------------------- MODULE ClientFeed -----------------------------
(***************************************************************************)
(* What a phone sees: the user's numbered changes and the numbered events  *)
(* of a session, with the timeline the Gateway projects from them. A watch *)
(* fixes a barrier (ready), pump() sends what was committed behind it      *)
(* through a bounded queue, and the client fetches what lies before it in  *)
(* pages. Changes are deleted after a while, the history of a session may  *)
(* be purged, a slow client is disconnected.                               *)
(*                                                                         *)
(* One user with one session and one socket. The client is not part of the *)
(* repository; it follows the recovery procedure of backend-design.md 10   *)
(* (external). Texts are sequences of the events they were written by.     *)
(***************************************************************************)
EXTENDS Naturals, Sequences, SequencesExt, FiniteSetsExt

CONSTANTS
  Items,          \* itemIds of messages
  MaxEvents,      \* bound: events of the session
  MaxRevision,    \* bound: changes of the user
  MaxText,        \* length a message is cut at (48000)
  QueueFrames,    \* capacity of a peer's write queue
  Batch,          \* changes or events per pump (200)
  Page,           \* changes or events per page
  MaxFaults       \* bound: connections lost and reads of pump() refused by the database

ASSUME ConstantsAssumption ==
  /\ MaxEvents \in Nat /\ MaxRevision \in Nat /\ MaxText \in Nat /\ MaxFaults \in Nat
  /\ QueueFrames \in Nat \ {0} /\ Batch \in Nat \ {0} /\ Page \in Nat \ {0}

VARIABLES
  \* database
  log,          \* session_events: item and kind of each event
  timeline,     \* timeline_items of the session
  revision,     \* users.last_revision
  floor,        \* changes up to this one have been deleted
  purged,       \* history_state = 'purged'
  checkpoint,   \* a checkpoint the client asked for, or NoCheckpoint
  \* the client's peer
  peer,
  \* the client
  phone,
  faults

db   == <<log, timeline, revision, floor, purged>>
vars == <<db, checkpoint, peer, phone, faults>>

Unwatched == MaxEvents + 1            \* in place of a cursor
Kinds     == {"delta", "completed"}
NoItem    == [text |-> <<>>, complete |-> FALSE, cut |-> FALSE]
Empty     == [i \in Items |-> NoItem]
NoCheckpoint == [sequence |-> 0, items |-> Empty]

Change(n)   == [type |-> "change", number |-> n]
Event(n)    == [type |-> "event", number |-> n]
Ready(r, n) == [type |-> "ready", revision |-> r, highWater |-> n]
Error(code) == [type |-> "error", code |-> code]

NoPeer  == [open |-> FALSE, watching |-> FALSE, revision |-> 0, cursor |-> Unwatched,
            queue |-> <<>>]
NewPhone == [mode |-> "off", revision |-> 0, cursor |-> 0, items |-> Empty, wants |-> TRUE,
             untilRevision |-> 0, untilEvent |-> 0, inbox |-> <<>>]

Init ==
  /\ log = <<>> /\ timeline = Empty /\ revision = 0 /\ floor = 0 /\ purged = FALSE
  /\ checkpoint = NoCheckpoint /\ peer = NoPeer /\ phone = NewPhone /\ faults = 0

-----------------------------------------------------------------------------
(* projectItem(): a delta extends a message that is not complete, a        *)
(* completed one replaces it.                                              *)

Truncate(text) == SubSeq(text, 1, IF Len(text) < MaxText THEN Len(text) ELSE MaxText)

\* Mutated form: a late delta reopens a complete message.
ProjectLate(items, e, n) ==
  LET prev == items[e.item]
      text == IF e.kind = "delta" THEN Append(prev.text, n) ELSE <<n>> IN
  [items EXCEPT ![e.item] =
     [text |-> Truncate(text), complete |-> e.kind = "completed",
      cut |-> Len(text) > MaxText \/ (e.kind = "delta" /\ prev.cut)]]

Project(items, e, n) ==
  LET prev == items[e.item]
      text == IF e.kind = "delta" THEN Append(prev.text, n) ELSE <<n>> IN
  IF e.kind = "delta" /\ prev.complete THEN items
  ELSE [items EXCEPT ![e.item] =
          [text |-> Truncate(text), complete |-> e.kind = "completed",
           cut |-> Len(text) > MaxText \/ (e.kind = "delta" /\ prev.cut)]]

-----------------------------------------------------------------------------
(* pump() *)

Room(p) == QueueFrames - Len(p.queue)

\* Mutated form: the queue has no limit.
OfferAll(p, frames) == [p EXCEPT !.queue = @ \o frames]

\* enqueue() of frames one after the other: the peer is stopped at the first one
\* that does not fit.
Offer(p, frames) ==
  IF Len(frames) <= Room(p) THEN [p EXCEPT !.queue = @ \o frames]
  ELSE [p EXCEPT !.queue = @ \o SubSeq(frames, 1, Room(p)), !.open = FALSE]

\* The cursor after k of the numbers behind it were enqueued.
Upto(cursor, last, n) == Min({last, cursor + n})

\* Mutated form: a peer whose changes cannot be read is dropped without a word.
PumpChangesSilent(p, last, fails) ==
  LET to == Upto(p.revision, last, Batch)
      q  == Offer(p, [i \in 1..(to - p.revision) |-> Change(p.revision + i)]) IN
  IF fails THEN [p EXCEPT !.watching = FALSE]
  ELSE [q EXCEPT !.revision = Min({to, p.revision + Room(p)})]

\* The changes up to last; an error of readChanges(), whatever its cause, is reported
\* and ends the watch.
PumpChanges(p, last, fails) ==
  LET to == Upto(p.revision, last, Batch)
      q  == Offer(p, [i \in 1..(to - p.revision) |-> Change(p.revision + i)]) IN
  IF fails
  THEN [Offer(p, <<Error("CURSOR_EXPIRED")>>) EXCEPT !.watching = FALSE]
  ELSE [q EXCEPT !.revision = Min({to, p.revision + Room(p)})]

\* The events up to last; an error of readEvents() ends the watch of the session.
PumpEvents(p, last, fails) ==
  LET to == Upto(p.cursor, last, Batch)
      q  == Offer(p, [i \in 1..(to - p.cursor) |-> Event(p.cursor + i)]) IN
  IF ~p.open \/ ~p.watching \/ p.cursor = Unwatched THEN p
  ELSE IF fails
  THEN [Offer(p, <<Error("CURSOR_EXPIRED")>>) EXCEPT !.cursor = Unwatched]
  ELSE [q EXCEPT !.cursor = Min({to, p.cursor + Room(p)})]

\* pump() on the committed state: a read fails because what it would return has been
\* deleted, or by an error of the database.
Pump(p, errors) ==
  IF p.open /\ p.watching
  THEN PumpEvents(PumpChanges(p, revision', p.revision < floor' \/ "changes" \in errors),
                  Len(log'), (purged' /\ p.cursor < Len(log')) \/ "events" \in errors)
  ELSE p

Pumps(p) ==
  \E errors \in SUBSET {"changes", "events"} :
    /\ peer' = Pump(p, errors)
    /\ IF errors = {} THEN UNCHANGED faults
       ELSE p.open /\ p.watching /\ faults < MaxFaults /\ faults' = faults + 1

-----------------------------------------------------------------------------
(* Commits. Every handler that commits pumps before it gives up the mutex. *)

\* appendEvent() with the change of its session.
AppendEvent(e) ==
  /\ ~purged /\ Len(log) < MaxEvents /\ revision < MaxRevision
  /\ log' = Append(log, e)
  /\ timeline' = Project(timeline, e, Len(log'))
  /\ revision' = revision + 1
  /\ UNCHANGED <<floor, purged>>
  /\ Pumps(peer)
  /\ UNCHANGED <<checkpoint, phone>>

\* change() of other resources, one or several in a transaction.
CommitChanges ==
  /\ \E k \in 1..(Batch + 1) : revision + k <= MaxRevision /\ revision' = revision + k
  /\ UNCHANGED <<log, timeline, floor, purged>>
  /\ Pumps(peer)
  /\ UNCHANGED <<checkpoint, phone>>

\* maintenance(): the content of the session is due.
PurgeHistory ==
  /\ ~purged /\ revision < MaxRevision
  /\ purged' = TRUE /\ timeline' = Empty /\ revision' = revision + 1
  /\ checkpoint' = NoCheckpoint
  /\ UNCHANGED <<log, floor>>
  /\ Pumps(peer)
  /\ UNCHANGED phone

\* maintenance(): old changes are deleted.
DeleteChanges ==
  /\ \E to \in (floor + 1)..revision : floor' = to
  /\ UNCHANGED <<log, timeline, revision, purged>>
  /\ Pumps(peer)
  /\ UNCHANGED <<checkpoint, phone>>

\* The tick.
Tick ==
  /\ UNCHANGED db
  /\ Pumps(peer)
  /\ UNCHANGED <<checkpoint, phone>>

-----------------------------------------------------------------------------
(* The socket. *)

Connect ==
  /\ phone.mode = "off" /\ ~peer.open
  /\ peer' = [NoPeer EXCEPT !.open = TRUE]
  /\ phone' = [phone EXCEPT !.mode = "idle", !.inbox = <<>>]
  /\ UNCHANGED <<db, checkpoint, faults>>

HighWater == IF phone.wants THEN Len(log) ELSE Unwatched

\* What clientFrame() sets when a watch succeeds.
Barrier(p) == [p EXCEPT !.revision = revision, !.cursor = HighWater]

\* Mutated form: ready repeats what the client asked for.
ReadyEcho == Ready(phone.revision, IF phone.wants THEN phone.cursor ELSE Unwatched)

\* The answer to a watch: the revision and high water the peer is registered at.
ReadyFrame == Ready(revision, HighWater)

WatchError ==
  IF phone.revision < floor THEN "CURSOR_EXPIRED"
  ELSE IF phone.wants /\ purged THEN "HISTORY_PURGED" ELSE "none"

Refuse(code) == peer' = Offer(peer, <<Error(code)>>)

\* clientFrame(): watch, refused as a whole, also by an error of the database, or
\* registered at the barrier with ready as its first frame; reader() pumps after it.
Watch ==
  /\ phone.mode \in {"idle", "live"} /\ peer.open
  /\ UNCHANGED db
  /\ \/ /\ WatchError # "none" /\ UNCHANGED faults
        /\ Refuse(WatchError)
     \/ /\ WatchError = "none" /\ faults < MaxFaults /\ faults' = faults + 1
        /\ Refuse("CURSOR_EXPIRED")
     \/ /\ WatchError = "none"
        /\ Pumps(Offer([Barrier(peer) EXCEPT !.watching = TRUE], <<ReadyFrame>>))
  /\ phone' = [phone EXCEPT !.mode = "asked"]
  /\ UNCHANGED checkpoint

\* clientFrame(): unwatch.
Unwatch ==
  /\ phone.mode = "live" /\ peer.open /\ phone.wants
  /\ UNCHANGED db
  /\ Pumps([peer EXCEPT !.cursor = Unwatched])
  /\ phone' = [phone EXCEPT !.wants = FALSE]
  /\ UNCHANGED checkpoint

\* writer() and the network.
Deliver ==
  /\ phone.mode # "off" /\ peer.queue # <<>>
  /\ phone' = [phone EXCEPT !.inbox = Append(@, Head(peer.queue))]
  /\ peer' = [peer EXCEPT !.queue = Tail(@)]
  /\ UNCHANGED <<db, checkpoint, faults>>

\* The client notices that it was disconnected.
Disconnected ==
  /\ phone.mode # "off" /\ ~peer.open
  /\ phone' = [phone EXCEPT !.mode = "off", !.inbox = <<>>]
  /\ peer' = NoPeer
  /\ UNCHANGED <<db, checkpoint, faults>>

LoseConnection ==
  /\ peer.open /\ faults < MaxFaults /\ faults' = faults + 1
  /\ peer' = [peer EXCEPT !.open = FALSE]
  /\ UNCHANGED <<db, checkpoint, phone>>

-----------------------------------------------------------------------------
(* HTTP: pages, bootstrap, checkpoints. *)

\* changesPage() between the client's revision and that of ready.
PageChanges ==
  /\ phone.mode = "recovering" /\ phone.revision < phone.untilRevision
  /\ phone.revision >= floor
  /\ phone' = [phone EXCEPT !.revision = Upto(@, phone.untilRevision, Page)]
  /\ UNCHANGED <<db, checkpoint, peer, faults>>

\* The client applies events of the log to its copy of the timeline.
Applied(from, to) ==
  LET items[n \in from..to] ==
        IF n = from THEN phone.items ELSE Project(items[n - 1], log[n], n)
  IN items[to]

\* eventsPage() between the client's cursor and the high water of ready.
PageEvents ==
  LET to == Upto(phone.cursor, phone.untilEvent, Page) IN
  /\ phone.mode = "recovering" /\ phone.wants /\ phone.cursor < phone.untilEvent /\ ~purged
  /\ phone' = [phone EXCEPT !.cursor = to, !.items = Applied(phone.cursor, to)]
  /\ UNCHANGED <<db, checkpoint, peer, faults>>

\* eventsPage() answers HISTORY_PURGED: there is nothing to show.
PageGone ==
  /\ phone.mode = "recovering" /\ phone.wants /\ phone.cursor < phone.untilEvent /\ purged
  /\ phone' = [phone EXCEPT !.wants = FALSE, !.items = Empty, !.cursor = 0]
  /\ UNCHANGED <<db, checkpoint, peer, faults>>

\* bootstrap(), when a change the client needs has been deleted.
Bootstrap ==
  /\ phone.mode \in {"recovering", "expired"} /\ phone.revision < floor
  /\ phone' = [phone EXCEPT !.revision = revision,
                            !.mode = IF @ = "expired" THEN "idle" ELSE @]
  /\ UNCHANGED <<db, checkpoint, peer, faults>>

\* An expired cursor that was not the revision: watch again.
Resume ==
  /\ phone.mode = "expired" /\ phone.revision >= floor
  /\ phone' = [phone EXCEPT !.mode = "idle"]
  /\ UNCHANGED <<db, checkpoint, peer, faults>>

\* Mutated form: the sequence is read before the transaction that copies the items,
\* and an event comes between.
CopyEarly == [sequence |-> Max({0, Len(log) - 1}), items |-> timeline]

\* checkpoint(): sequence and items under one lock of the session.
Copy == [sequence |-> Len(log), items |-> timeline]

\* checkpoint(): an immutable copy of the timeline; reader of a POST pumps.
TakeCheckpoint ==
  /\ phone.mode = "recovering" /\ phone.wants /\ phone.cursor = 0 /\ ~purged
  /\ checkpoint = NoCheckpoint
  /\ checkpoint' = Copy
  /\ UNCHANGED db
  /\ Pumps(peer)
  /\ UNCHANGED phone

\* checkpointItems() to the last page, then body and sequence at once.
InstallCheckpoint ==
  /\ phone.mode = "recovering" /\ phone.wants /\ checkpoint.sequence > phone.cursor
  /\ phone' = [phone EXCEPT !.cursor = checkpoint.sequence, !.items = checkpoint.items]
  /\ checkpoint' = NoCheckpoint
  /\ UNCHANGED <<db, peer, faults>>

ExpireCheckpoint ==
  /\ checkpoint # NoCheckpoint /\ checkpoint' = NoCheckpoint
  /\ UNCHANGED <<db, peer, phone, faults>>

-----------------------------------------------------------------------------
(* The client's frames (external). *)

Next1(p) == [p EXCEPT !.inbox = Tail(@)]

\* Every ready is a new barrier. It does not say which watch it answers, so that an
\* earlier one, still on its way, is taken like the one that was asked for.
AtBarrier(p, f) == [Next1(p) EXCEPT !.mode = "recovering", !.untilRevision = f.revision,
                                    !.untilEvent = f.highWater]

\* Outside of a watch only its answer counts.
TakeAnswer ==
  LET f == Head(phone.inbox) IN
  /\ phone.mode \in {"idle", "asked", "expired"} /\ phone.inbox # <<>>
  /\ phone' =
       IF phone.mode = "asked" /\ f.type = "ready"
       THEN AtBarrier(phone, f)
       ELSE IF phone.mode = "asked" /\ f.type = "error"
       THEN IF f.code = "HISTORY_PURGED"
            THEN [Next1(phone) EXCEPT !.mode = "idle", !.wants = FALSE, !.items = Empty, !.cursor = 0]
            ELSE [Next1(phone) EXCEPT !.mode = "expired"]
       ELSE Next1(phone)
  /\ UNCHANGED <<db, checkpoint, peer, faults>>

\* Both bounds of ready are reached: the frames received since then follow.
Recovered ==
  /\ phone.mode = "recovering" /\ phone.revision >= phone.untilRevision
  /\ ~phone.wants \/ phone.untilEvent = Unwatched \/ phone.cursor >= phone.untilEvent
  /\ phone' = [phone EXCEPT !.mode = "live"]
  /\ UNCHANGED <<db, checkpoint, peer, faults>>

TakeFrame ==
  LET f == Head(phone.inbox) IN
  /\ phone.mode = "live" /\ phone.inbox # <<>>
  /\ phone' =
       CASE f.type = "change" /\ f.number = phone.revision + 1 ->
              [Next1(phone) EXCEPT !.revision = f.number]
         [] f.type = "event" /\ phone.wants /\ f.number = phone.cursor + 1 ->
              [Next1(phone) EXCEPT !.cursor = f.number,
                                   !.items = Project(@, log[f.number], f.number)]
         [] f.type = "ready" -> AtBarrier(phone, f)
         [] f.type = "error" -> [Next1(phone) EXCEPT !.mode = "expired"]
         [] OTHER -> Next1(phone)
  /\ UNCHANGED <<db, checkpoint, peer, faults>>

-----------------------------------------------------------------------------
Next ==
  \/ \E i \in Items, kind \in Kinds : AppendEvent([item |-> i, kind |-> kind])
  \/ CommitChanges \/ PurgeHistory \/ DeleteChanges \/ Tick
  \/ Connect \/ Watch \/ Unwatch \/ Deliver \/ Disconnected \/ LoseConnection
  \/ PageChanges \/ PageEvents \/ PageGone \/ Bootstrap \/ Resume
  \/ TakeCheckpoint \/ InstallCheckpoint \/ ExpireCheckpoint
  \/ TakeAnswer \/ Recovered \/ TakeFrame

Spec == Init /\ [][Next]_vars

(* The tick runs every second, the writer and the network deliver, the     *)
(* client keeps following the recovery procedure. Nothing makes the client *)
(* watch twice, unwatch or take a checkpoint.                              *)
Fairness ==
  /\ WF_vars(Tick /\ UNCHANGED faults) /\ WF_vars(Connect) /\ WF_vars(phone.mode = "idle" /\ Watch)
  /\ WF_vars(Deliver) /\ WF_vars(Disconnected)
  /\ WF_vars(PageChanges) /\ WF_vars(PageEvents) /\ WF_vars(PageGone)
  /\ WF_vars(Bootstrap) /\ WF_vars(Resume)
  /\ WF_vars(TakeAnswer) /\ WF_vars(Recovered) /\ WF_vars(TakeFrame)

FairSpec == Spec /\ Fairness

-----------------------------------------------------------------------------
ItemType == [text : SeqOf(1..MaxEvents, MaxText), complete : BOOLEAN, cut : BOOLEAN]

\* The type invariant.
TypeOK ==
  /\ log \in SeqOf([item : Items, kind : Kinds], MaxEvents)
  /\ timeline \in [Items -> ItemType] /\ phone.items \in [Items -> ItemType]
  /\ revision \in 0..MaxRevision /\ floor \in 0..revision /\ purged \in BOOLEAN
  /\ checkpoint.sequence \in 0..Len(log) /\ checkpoint.items \in [Items -> ItemType]
  /\ Len(peer.queue) <= QueueFrames /\ peer.revision \in 0..revision
  /\ peer.cursor \in 0..Len(log) \cup {Unwatched}
  /\ phone.revision \in 0..revision /\ phone.cursor \in 0..Len(log)
  /\ phone.mode \in {"off", "idle", "asked", "recovering", "live", "expired"}

Of(lg, i, kind, n) == {m \in 1..n : lg[m].item = i /\ lg[m].kind = kind}

\* A text is the first MaxText of some events, in their order.
Lists(text, events) ==
  /\ Len(text) <= MaxText
  /\ \A k \in DOMAIN text : /\ text[k] \in events
                           /\ \A l \in DOMAIN text : k < l => text[k] < text[l]
  /\ \A m \in events \ Range(text) : Len(text) = MaxText /\ \A k \in DOMAIN text : text[k] < m

\* x is what the first n events of a log say of message i: the last completion wins and nothing
\* after it counts; without one, the deltas in their order, cut once.
Says(lg, x, i, n) ==
  LET done   == Of(lg, i, "completed", n)
      deltas == Of(lg, i, "delta", n) IN
  IF done # {} THEN x = [text |-> Truncate(<<Max(done)>>), complete |-> TRUE, cut |-> MaxText = 0]
  ELSE ~x.complete /\ Lists(x.text, deltas) /\ x.cut = (deltas # Range(x.text))

\* What the client shows is what the events up to its cursor say, however it came by
\* them: in frames of pump(), in pages of eventsPage() or in a checkpoint.
BodyMatchesCursor == \A i \in Items : Says(log, phone.items[i], i, phone.cursor)

\* The frames on their way to the client, oldest first.
Underway == phone.inbox \o peer.queue

\* The client's last barrier: a ready on its way, or the one it has taken (0).
LastBarrier(b) ==
  /\ IF b = 0 THEN phone.mode \in {"recovering", "live"} ELSE Underway[b].type = "ready"
  /\ \A k \in (b + 1)..Len(Underway) : Underway[k].type # "ready"

\* What the client has, or will have when it has recovered.
Reached(has, bound) == IF phone.mode = "recovering" /\ has < bound THEN bound ELSE has

\* Behind position b come, in order and once, all frames of a type from the one after
\* seen to the one sent last.
Continues(type, b, seen, sent) ==
  LET frames == {k \in (b + 1)..Len(Underway) : Underway[k].type = type} IN
  /\ \A k \in frames : /\ Underway[k].number <= sent
                      /\ \A l \in frames : k < l => Underway[k].number < Underway[l].number
  /\ \A n \in (seen + 1)..sent : \E k \in frames : Underway[k].number = n

\* Behind the last barrier the changes and events on their way continue what the client
\* has at it, without a gap up to what pump() sent last (clientFrame() registers at the
\* high water it reports, within one critical section), whatever was watched before.
NoGapAtBarrier ==
  \A b \in 0..Len(Underway) : LastBarrier(b) /\ peer.open /\ peer.watching =>
    /\ Continues("change", b,
                 IF b = 0 THEN Reached(phone.revision, phone.untilRevision)
                 ELSE Underway[b].revision, peer.revision)
    /\ phone.wants /\ peer.cursor # Unwatched =>
         Continues("event", b,
                   IF b = 0 THEN Reached(phone.cursor, phone.untilEvent)
                   ELSE Underway[b].highWater, peer.cursor)

CaughtUp ==
  /\ phone.mode = "live" /\ phone.revision = revision
  /\ phone.wants => purged \/ phone.cursor = Len(log)

\* A client that follows the procedure always gets to the present: past an expired
\* cursor, a purged history, a full queue and lost connections.
AlwaysCatchesUp == []<>CaughtUp
=============================================================================
