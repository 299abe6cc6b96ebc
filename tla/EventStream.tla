---------------------------- MODULE EventStream ----------------------------
(***************************************************************************)
(* The event log and its live streams: EventBroker (server/events.py), the *)
(* two WebSocket handlers of server/app.py and the events table.           *)
(*                                                                         *)
(* emit runs in request threads and in the loop: it inserts the row, which *)
(* takes the id, and then schedules a broadcast in the event loop.  Two    *)
(* emitters may schedule in the other order than they inserted.  The loop  *)
(* runs the broadcasts one after the other; between them, where a handler  *)
(* awaits, run the streams: a stream reads the history, sends it, then     *)
(* subscribes, and sends what its bounded queue receives.                  *)
(***************************************************************************)
EXTENDS Integers, Sequences, FiniteSets, SequencesExt

CONSTANTS
  Jobs,          \* what an event may be about
  NoJob,         \* the subject of events of no job, such as a registration
  Emitters,      \* threads that emit, and the loop itself
  JobStreams,    \* connections to the stream of one job
  GlobalStreams, \* connections to the stream of everything
  JobFollowed,   \* the job of a job stream
  QueueMax,      \* _QUEUE_MAX
  ReplayMax,     \* the limit of list_events
  RecentMax,     \* the limit of list_recent_events
  MaxEvents,     \* bound on the events emitted
  MaxOpen        \* bound on the connections made; they do not affect each other

Streams == JobStreams \cup GlobalStreams
Subjects == Jobs \cup {NoJob}

ASSUME StreamAssumption ==
  /\ NoJob \notin Jobs
  /\ JobStreams \cap GlobalStreams = {}
  /\ JobFollowed \in [JobStreams -> Jobs]
  /\ {QueueMax, ReplayMax, RecentMax} \subseteq Nat \ {0}
  /\ {MaxEvents, MaxOpen} \subseteq Nat

VARIABLES
  log,        \* the events table: the subject of each id
  toSchedule, \* the id an emitter has inserted and not scheduled, 0 if none
  scheduled,  \* broadcasts waiting in the loop, in the order they will run
  phase,      \* where the handler of a stream is
  connected,  \* streams whose client is still there
  history,    \* the ids read from the table and not sent yet: the rows are in
              \* the order of their ids, so a set tells the list
  queue,      \* the asyncio.Queue of a subscriber
  sent,       \* the ids sent to the client
  readAt,     \* Len(log) when the history was read
  joinedAt,   \* Len(log) when the handler subscribed
  overflowed  \* streams whose queue dropped an event

emitVars   == <<log, toSchedule, scheduled>>
clientVars == <<history, sent>>
markVars   == <<readAt, joinedAt, overflowed>>
streamVars == <<emitVars, phase, connected, clientVars, queue, markVars>>

-----------------------------------------------------------------------------
(* Helpers                                                                 *)

Wants == [s \in Streams |-> IF s \in JobStreams THEN {JobFollowed[s]} ELSE Subjects]

Ids == 1..Len(log)

\* The rows about one of the subjects.
EventsAbout(subjects) == {id \in Ids : log[id] \in subjects}

Subscribers == {s \in Streams : phase[s] = "live"}

\* last_id of a handler: it is set with every event sent.
LastId(s) == IF sent[s] = <<>> THEN 0 ELSE Last(sent[s])

-----------------------------------------------------------------------------
(* emit                                                                    *)

\* add_event: the id is the row's, taken under the lock of the database.
AddEvent(e, x) ==
  /\ toSchedule[e] = 0
  /\ Len(log) < MaxEvents
  /\ log' = Append(log, x)
  /\ toSchedule' = [toSchedule EXCEPT ![e] = Len(log) + 1]
  /\ UNCHANGED <<scheduled, phase, connected, clientVars, queue, markVars>>

\* A fault to detect: a request thread has no running loop and broadcasts nothing.
CallSoon_NoLoop(e) ==
  /\ toSchedule[e] # 0
  /\ toSchedule' = [toSchedule EXCEPT ![e] = 0]
  /\ UNCHANGED <<log, scheduled, phase, connected, clientVars, queue, markVars>>

\* call_soon or call_soon_threadsafe.
CallSoon(e) ==
  /\ toSchedule[e] # 0
  /\ scheduled' = Append(scheduled, toSchedule[e])
  /\ toSchedule' = [toSchedule EXCEPT ![e] = 0]
  /\ UNCHANGED <<log, phase, connected, clientVars, queue, markVars>>

Audience(id) == {s \in Subscribers : log[id] \in Wants[s]}

\* A fault to detect: a full queue takes no more.
Broadcast_DropNewest ==
  LET id == Head(scheduled)
  IN  /\ scheduled # <<>>
      /\ queue' = [s \in Streams |-> IF s \in Audience(id) /\ Len(queue[s]) < QueueMax
                                       THEN Append(queue[s], id) ELSE queue[s]]
      /\ scheduled' = Tail(scheduled)
      /\ UNCHANGED <<log, toSchedule, phase, connected, clientVars, markVars>>

\* A fault to detect: the queue grows without bound.
Broadcast_Unbounded ==
  LET id == Head(scheduled)
  IN  /\ scheduled # <<>>
      /\ queue' = [s \in Streams |-> IF s \in Audience(id) THEN Append(queue[s], id) ELSE queue[s]]
      /\ scheduled' = Tail(scheduled)
      /\ UNCHANGED <<log, toSchedule, phase, connected, clientVars, markVars>>

\* _broadcast: a full queue drops its oldest event for the new one.
Broadcast ==
  LET id == Head(scheduled)
      full == {s \in Audience(id) : Len(queue[s]) = QueueMax}
  IN  /\ scheduled # <<>>
      /\ queue' = [s \in Streams |->
                     IF s \in full THEN Append(Tail(queue[s]), id)
                     ELSE IF s \in Audience(id) THEN Append(queue[s], id) ELSE queue[s]]
      /\ overflowed' = overflowed \cup full
      /\ scheduled' = Tail(scheduled)
      /\ UNCHANGED <<log, toSchedule, phase, connected, clientVars, readAt, joinedAt>>

-----------------------------------------------------------------------------
(* stream_events and stream_all_events                                     *)

Oldest(ids, limit) == {id \in ids : Cardinality({i \in ids : i < id}) < limit}
Newest(ids, limit) == {id \in ids : Cardinality({i \in ids : i > id}) < limit}

\* A fault to detect: the newest rows of a job instead of the oldest.
Replay_Newest(s) == Newest(EventsAbout(Wants[s]), IF s \in JobStreams THEN ReplayMax ELSE RecentMax)

\* list_events gives the oldest rows of the job, list_recent_events the newest
\* rows of all.
Replay(s) ==
  IF s \in JobStreams THEN Oldest(EventsAbout(Wants[s]), ReplayMax)
                      ELSE Newest(EventsAbout(Wants[s]), RecentMax)

Accept(s) ==
  /\ phase[s] = "new"
  /\ Cardinality({t \in Streams : phase[t] # "new"}) < MaxOpen
  /\ phase' = [phase EXCEPT ![s] = "replay"]
  /\ history' = [history EXCEPT ![s] = Replay(s)]
  /\ readAt' = [readAt EXCEPT ![s] = Len(log)]
  /\ UNCHANGED <<emitVars, connected, sent, queue, joinedAt, overflowed>>

\* The handler sends id to its client, or finds that it is gone.
Send(s, id) ==
  IF s \in connected
  THEN /\ sent' = [sent EXCEPT ![s] = Append(@, id)]
       /\ UNCHANGED phase
  ELSE /\ phase' = [phase EXCEPT ![s] = "closed"]
       /\ UNCHANGED sent

SendHistory(s) ==
  /\ phase[s] = "replay"
  /\ \E id \in history[s] :
       /\ \A i \in history[s] : id =< i
       /\ Send(s, id)
       /\ history' = [history EXCEPT ![s] = @ \ {id}]
  /\ UNCHANGED <<emitVars, connected, queue, markVars>>

\* subscribe and subscribe_global, once the history is sent.
Subscribe(s) ==
  /\ phase[s] = "replay"
  /\ history[s] = {}
  /\ phase' = [phase EXCEPT ![s] = "live"]
  /\ joinedAt' = [joinedAt EXCEPT ![s] = Len(log)]
  /\ UNCHANGED <<emitVars, connected, clientVars, queue, readAt, overflowed>>

\* A fault to detect: an id that was sent already passes.
IsNews_OrEqual(s, id) == id >= LastId(s)

IsNews(s, id) == id > LastId(s)

\* One round of the loop.  An event that is not news is passed over.  A handler
\* whose client is gone unsubscribes when it next sends.
TakeEvent(s) ==
  LET id == Head(queue[s])
  IN  /\ phase[s] = "live"
      /\ queue[s] # <<>>
      /\ queue' = [queue EXCEPT ![s] = Tail(@)]
      /\ IF IsNews(s, id) THEN Send(s, id) ELSE UNCHANGED <<sent, phase>>
      /\ UNCHANGED <<emitVars, connected, history, markVars>>

\* The client leaves; the handler does not know yet.
Disconnect(s) ==
  /\ s \in connected
  /\ phase[s] \in {"replay", "live"}
  /\ connected' = connected \ {s}
  /\ UNCHANGED <<emitVars, phase, clientVars, queue, markVars>>

-----------------------------------------------------------------------------
(* Specification                                                           *)

StreamInit ==
  /\ log = <<>>
  /\ toSchedule = [e \in Emitters |-> 0]
  /\ scheduled = <<>>
  /\ phase = [s \in Streams |-> "new"]
  /\ connected = Streams
  /\ history = [s \in Streams |-> {}]
  /\ queue = [s \in Streams |-> <<>>]
  /\ sent = [s \in Streams |-> <<>>]
  /\ readAt = [s \in Streams |-> 0]
  /\ joinedAt = [s \in Streams |-> 0]
  /\ overflowed = {}

Emit(e) == CallSoon(e) \/ \E x \in Subjects : AddEvent(e, x)

Serve(s) == SendHistory(s) \/ Subscribe(s) \/ TakeEvent(s)

StreamNext ==
  \/ \E e \in Emitters : Emit(e)
  \/ Broadcast
  \/ \E s \in Streams : Accept(s) \/ Serve(s) \/ Disconnect(s)

StreamSpec == StreamInit /\ [][StreamNext]_streamVars

\* The loop runs its callbacks and resumes its coroutines; an emitter that has
\* inserted its row goes on to schedule the broadcast.
StreamFairness ==
  /\ \A e \in Emitters : WF_streamVars(CallSoon(e))
  /\ WF_streamVars(Broadcast)
  /\ \A s \in Streams : WF_streamVars(Serve(s))

FairStreamSpec == StreamSpec /\ StreamFairness

-----------------------------------------------------------------------------
(* Properties                                                              *)

StreamTypeOK ==
  /\ log \in Seq(Subjects) /\ Len(log) =< MaxEvents
  /\ toSchedule \in [Emitters -> Ids \cup {0}]
  /\ scheduled \in Seq(Ids)
  /\ phase \in [Streams -> {"new", "replay", "live", "closed"}]
  /\ connected \subseteq Streams
  /\ history \in [Streams -> SUBSET Ids]
  /\ queue \in [Streams -> Seq(Ids)]
  /\ \A s \in Streams : Len(queue[s]) =< QueueMax
  /\ sent \in [Streams -> Seq(Ids)]
  /\ readAt \in [Streams -> Ids \cup {0}]
  /\ joinedAt \in [Streams -> Ids \cup {0}]
  /\ overflowed \subseteq Streams

\* A stream keeps the promise of EventFeed although broadcasts overtake each
\* other, history and queue overlap, and queues overflow: in order, no event
\* twice, none of another job.
Feed == INSTANCE EventFeed WITH got <- sent
FeedKept == Feed!FeedSpec

Broadcasted(id) == id \notin ToSet(scheduled) \cup {toSchedule[e] : e \in Emitters}

\* What a handler could find when it read the history.
Before(s) == {id \in 1..readAt[s] : log[id] \in Wants[s]}

\* The stream will not send id any more.
Missed(s, id) ==
  /\ log[id] \in Wants[s]
  /\ Broadcasted(id)
  /\ id \notin ToSet(sent[s]) \cup ToSet(queue[s])

\* The four ways in which an event of a live stream is lost, and no other:
\* emitted between the read of the history and the subscription; older than
\* that and beyond the limit of the history; overtaken by a later one; or
\* dropped by a full queue.  What is neither is sent or on its way.
LossIsExplained ==
  \A s \in Subscribers : \A id \in {i \in Ids : Missed(s, i)} :
    \/ id \in (readAt[s] + 1)..joinedAt[s]
    \/ /\ id =< readAt[s]
       /\ Cardinality(Before(s)) > IF s \in JobStreams THEN ReplayMax ELSE RecentMax
    \/ \E later \in ToSet(sent[s]) \cup ToSet(queue[s]) : later > id
    \/ s \in overflowed

\* The start of a job is in the replay of its stream whatever came later: an
\* event that was emitted before the connection and has fewer than ReplayMax
\* before it is sent, and so are those before it: with FeedKept, a prefix.
ReplayStartsAtTheBeginning ==
  \A s \in JobStreams \cap Subscribers : \A id \in Before(s) :
    Cardinality({i \in Before(s) : i < id}) < ReplayMax => id \in ToSet(sent[s])

\* An event emitted while a stream is live reaches its client, or a later one
\* does, or the queue overflowed; and a client that left is noticed by then.
LiveEventArrives ==
  \A s \in Streams, id \in 1..MaxEvents :
    (phase[s] = "live" /\ id = Len(log) /\ id > joinedAt[s] /\ log[id] \in Wants[s])
      ~> (LastId(s) >= id \/ s \in overflowed \/ phase[s] = "closed")

=============================================================================
