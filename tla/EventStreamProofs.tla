------------------------- MODULE EventStreamProofs -------------------------
(***************************************************************************)
(* Theorems about EventStream, for any numbers of emitters and streams and *)
(* any limits: a stream is a feed, and what it loses is accounted for.     *)
(***************************************************************************)
EXTENDS EventStream, FiniteSetTheorems, SequenceTheorems, TLAPS

USE StreamAssumption

-----------------------------------------------------------------------------
(* Sequences as sets                                                       *)

LEMMA ToSetAppend ==
  ASSUME NEW S, NEW seq \in Seq(S), NEW x \in S
  PROVE  ToSet(Append(seq, x)) = ToSet(seq) \cup {x}
<1> DEFINE longer == Append(seq, x)
<1>1. /\ Len(seq) \in Nat /\ DOMAIN seq = 1..Len(seq)
      /\ DOMAIN longer = 1..(Len(seq) + 1)
      /\ longer[Len(seq) + 1] = x
      /\ \A i \in 1..Len(seq) : longer[i] = seq[i]
  BY LenProperties
<1>2. \A i \in 1..(Len(seq) + 1) : i \in 1..Len(seq) \/ i = Len(seq) + 1
  BY <1>1
<1>3. ToSet(longer) \subseteq ToSet(seq) \cup {x}
  <2>1. ASSUME NEW i \in 1..(Len(seq) + 1)
        PROVE  longer[i] \in ToSet(seq) \cup {x}
    BY <1>1, <1>2 DEF ToSet
  <2> HIDE DEF longer
  <2> QED
    BY <1>1, <2>1 DEF ToSet
<1>4. 1..Len(seq) \subseteq 1..(Len(seq) + 1) /\ Len(seq) + 1 \in 1..(Len(seq) + 1)
  BY <1>1
<1>5. ToSet(seq) \cup {x} \subseteq ToSet(longer)
  <2> HIDE DEF longer
  <2> QED
    BY <1>1, <1>4 DEF ToSet
<1> QED
  BY <1>3, <1>5

LEMMA ToSetTail ==
  ASSUME NEW S, NEW seq \in Seq(S), seq # <<>>
  PROVE  /\ Head(seq) \in S
         /\ Tail(seq) \in Seq(S)
         /\ ToSet(seq) = {Head(seq)} \cup ToSet(Tail(seq))
<1>1. /\ Head(seq) \in S /\ Tail(seq) \in Seq(S)
      /\ Len(Tail(seq)) = Len(seq) - 1
      /\ \A i \in 1..Len(Tail(seq)) : Tail(seq)[i] = seq[i + 1]
  BY HeadTailProperties
<1>2. /\ Len(seq) \in Nat \ {0} /\ DOMAIN seq = 1..Len(seq)
      /\ DOMAIN Tail(seq) = 1..(Len(seq) - 1)
  BY <1>1, EmptySeq, LenProperties
<1>3. Head(seq) = seq[1]
  BY <1>2
<1>4. \A i \in 2..Len(seq) : seq[i] = Tail(seq)[i - 1] /\ i - 1 \in 1..(Len(seq) - 1)
  BY <1>1, <1>2
<1>5. ToSet(seq) \subseteq {Head(seq)} \cup ToSet(Tail(seq))
  <2>1. ASSUME NEW i \in 1..Len(seq)
        PROVE  seq[i] \in {Head(seq)} \cup ToSet(Tail(seq))
    <3>1. CASE i = 1
      BY <1>3, <3>1
    <3>2. CASE i # 1
      <4>1. i \in 2..Len(seq)
        BY <1>2, <3>2
      <4> QED
        BY <1>2, <1>4, <4>1 DEF ToSet
    <3> QED
      BY <3>1, <3>2
  <2> QED
    BY <1>2, <2>1 DEF ToSet
<1>6. {Head(seq)} \cup ToSet(Tail(seq)) \subseteq ToSet(seq)
  <2>1. \A i \in 1..(Len(seq) - 1) : i + 1 \in 1..Len(seq) /\ Tail(seq)[i] = seq[i + 1]
    BY <1>1, <1>2
  <2>2. 1 \in 1..Len(seq)
    BY <1>2
  <2> QED
    BY <1>2, <1>3, <2>1, <2>2 DEF ToSet
<1> QED
  BY <1>1, <1>5, <1>6

-----------------------------------------------------------------------------
(* Type correctness                                                        *)

LEMMA LogGrows ==
  ASSUME StreamTypeOK, NEW x \in Subjects, log' = Append(log, x)
  PROVE  /\ log' \in Seq(Subjects)
         /\ Len(log') = Len(log) + 1
         /\ Ids \subseteq Ids'
         /\ Len(log) + 1 \in Ids'
         /\ \A id \in Ids : log'[id] = log[id]
         /\ log'[Len(log) + 1] = x
BY DEF StreamTypeOK, Ids

LEMMA LastIdType ==
  ASSUME StreamTypeOK, NEW s \in Streams
  PROVE  /\ LastId(s) \in Ids \cup {0}
         /\ LastId(s) # 0 => LastId(s) \in ToSet(sent[s])
<1>1. sent[s] \in Seq(Ids)
  BY DEF StreamTypeOK
<1>2. CASE sent[s] = <<>>
  BY <1>2 DEF LastId
<1>3. CASE sent[s] # <<>>
  <2>1. Len(sent[s]) \in 1..Len(sent[s]) /\ DOMAIN sent[s] = 1..Len(sent[s])
    BY <1>1, <1>3, EmptySeq, LenProperties
  <2> QED
    BY <1>1, <1>3, <2>1, ElementOfSeq DEF LastId, Last, ToSet
<1> QED
  BY <1>2, <1>3

LEMMA StreamTypeInit == StreamInit => StreamTypeOK
<1> SUFFICES ASSUME StreamInit PROVE StreamTypeOK
  OBVIOUS
<1>1. \A S : <<>> \in Seq(S) /\ Len(<<>>) = 0
  BY EmptySeq
<1> QED
  BY <1>1 DEF StreamInit, StreamTypeOK, Ids

LEMMA SendType ==
  ASSUME StreamTypeOK, NEW s \in Streams, NEW id \in Ids, Send(s, id)
  PROVE  /\ sent' \in [Streams -> Seq(Ids)]
         /\ phase' \in [Streams -> {"new", "replay", "live", "closed"}]
<1>1. Append(sent[s], id) \in Seq(Ids)
  BY DEF StreamTypeOK
<1> QED
  BY <1>1 DEF Send, StreamTypeOK

LEMMA BroadcastType ==
  ASSUME StreamTypeOK, Broadcast
  PROVE  /\ queue' \in [Streams -> Seq(Ids)]
         /\ \A s \in Streams : Len(queue'[s]) =< QueueMax
         /\ scheduled' \in Seq(Ids)
         /\ overflowed' \subseteq Streams
<1> DEFINE id == Head(scheduled)
<1>1. id \in Ids /\ scheduled' \in Seq(Ids)
  BY ToSetTail DEF Broadcast, StreamTypeOK
<1>2. Audience(id) \subseteq Streams
  BY DEF Audience, Subscribers
<1>3. ASSUME NEW s \in Streams
      PROVE  queue'[s] \in Seq(Ids) /\ Len(queue'[s]) =< QueueMax
  <2>1. queue[s] \in Seq(Ids) /\ Len(queue[s]) =< QueueMax /\ Len(queue[s]) \in Nat
    BY DEF StreamTypeOK
  <2>2. CASE s \in Audience(id) /\ Len(queue[s]) = QueueMax
    <3>1. queue'[s] = Append(Tail(queue[s]), id)
      BY <2>2 DEF Broadcast
    <3>2. Tail(queue[s]) \in Seq(Ids) /\ Len(Tail(queue[s])) = QueueMax - 1
      BY <2>1, <2>2, EmptySeq, HeadTailProperties
    <3> QED
      BY <1>1, <3>1, <3>2
  <2>3. CASE s \in Audience(id) /\ Len(queue[s]) # QueueMax
    <3>1. queue'[s] = Append(queue[s], id)
      BY <2>3 DEF Broadcast
    <3> QED
      BY <1>1, <2>1, <2>3, <3>1
  <2>4. CASE s \notin Audience(id)
    BY <2>1, <2>4 DEF Broadcast
  <2> QED
    BY <2>2, <2>3, <2>4
<1>4. queue' = [s \in Streams |-> queue'[s]]
  BY DEF Broadcast
<1>5. overflowed' \subseteq Streams
  BY <1>2 DEF Broadcast, StreamTypeOK
<1> QED
  BY <1>1, <1>3, <1>4, <1>5

LEMMA StreamTypeStep ==
  ASSUME StreamTypeOK, [StreamNext]_streamVars
  PROVE  StreamTypeOK'
<1> USE DEF streamVars, emitVars, clientVars, markVars
<1>1. ASSUME NEW e \in Emitters, NEW x \in Subjects, AddEvent(e, x) PROVE StreamTypeOK'
  <2>1. \A seq \in Seq(Ids) : seq \in Seq(Ids')
    BY <1>1, LogGrows, SeqMonotonic DEF AddEvent
  <2>2. /\ scheduled' \in Seq(Ids') /\ queue' \in [Streams -> Seq(Ids')]
        /\ sent' \in [Streams -> Seq(Ids')]
    BY <1>1, <2>1 DEF AddEvent, StreamTypeOK
  <2>3. /\ log' \in Seq(Subjects) /\ Len(log') =< MaxEvents
        /\ toSchedule' \in [Emitters -> Ids' \cup {0}]
        /\ history' \in [Streams -> SUBSET Ids']
        /\ readAt' \in [Streams -> Ids' \cup {0}]
        /\ joinedAt' \in [Streams -> Ids' \cup {0}]
    BY <1>1, LogGrows DEF AddEvent, StreamTypeOK
  <2> QED
    BY <1>1, <2>2, <2>3 DEF AddEvent, StreamTypeOK
<1>2. ASSUME NEW e \in Emitters, CallSoon(e) PROVE StreamTypeOK'
  <2>1. scheduled' \in Seq(Ids) /\ toSchedule' \in [Emitters -> Ids \cup {0}]
    BY <1>2 DEF CallSoon, StreamTypeOK
  <2> QED
    BY <1>2, <2>1 DEF CallSoon, StreamTypeOK, Ids
<1>3. CASE Broadcast
  BY <1>3, BroadcastType DEF Broadcast, StreamTypeOK, Ids
<1>4. ASSUME NEW s \in Streams, Accept(s) PROVE StreamTypeOK'
  <2>1. Replay(s) \subseteq Ids
    BY DEF Replay, Oldest, Newest, EventsAbout
  <2>2. Len(log) \in Ids \cup {0}
    BY DEF Ids, StreamTypeOK
  <2>3. Ids' = Ids
    BY <1>4 DEF Accept, Ids
  <2> QED
    BY <1>4, <2>1, <2>2, <2>3 DEF Accept, StreamTypeOK
<1>5. ASSUME NEW s \in Streams, SendHistory(s) PROVE StreamTypeOK'
  <2>1. PICK id \in history[s] : Send(s, id) /\ history' = [history EXCEPT ![s] = @ \ {id}]
    BY <1>5 DEF SendHistory
  <2>2. id \in Ids
    BY <2>1 DEF StreamTypeOK
  <2>3. history' \in [Streams -> SUBSET Ids]
    BY <2>1 DEF StreamTypeOK
  <2>4. Ids' = Ids
    BY <1>5 DEF SendHistory, Ids
  <2> QED
    BY <1>5, <2>1, <2>2, <2>3, <2>4, SendType DEF SendHistory, StreamTypeOK
<1>6. ASSUME NEW s \in Streams, Subscribe(s) PROVE StreamTypeOK'
  <2>1. Len(log) \in Ids \cup {0} /\ Ids' = Ids
    BY <1>6 DEF Ids, StreamTypeOK, Subscribe
  <2> QED
    BY <1>6, <2>1 DEF Subscribe, StreamTypeOK
<1>7. ASSUME NEW s \in Streams, TakeEvent(s) PROVE StreamTypeOK'
  <2>1. queue[s] \in Seq(Ids) /\ queue[s] # <<>> /\ Len(queue[s]) =< QueueMax
    BY <1>7 DEF TakeEvent, StreamTypeOK
  <2>2. /\ Head(queue[s]) \in Ids /\ Tail(queue[s]) \in Seq(Ids)
        /\ Len(Tail(queue[s])) =< QueueMax
    BY <2>1, HeadTailProperties, LenProperties
  <2>3. queue' = [queue EXCEPT ![s] = Tail(@)]
    BY <1>7 DEF TakeEvent
  <2>4. queue' \in [Streams -> Seq(Ids)] /\ \A t \in Streams : Len(queue'[t]) =< QueueMax
    BY <2>2, <2>3 DEF StreamTypeOK
  <2>5. /\ sent' \in [Streams -> Seq(Ids)]
        /\ phase' \in [Streams -> {"new", "replay", "live", "closed"}]
    BY <1>7, <2>2, SendType DEF TakeEvent, StreamTypeOK
  <2>6. Ids' = Ids
    BY <1>7 DEF TakeEvent, Ids
  <2> QED
    BY <1>7, <2>4, <2>5, <2>6 DEF TakeEvent, StreamTypeOK
<1>8. ASSUME NEW s \in Streams, Disconnect(s) PROVE StreamTypeOK'
  BY <1>8 DEF Disconnect, StreamTypeOK, Ids
<1>9. CASE UNCHANGED streamVars
  BY <1>9 DEF StreamTypeOK, Ids
<1> QED
  BY <1>1, <1>2, <1>3, <1>4, <1>5, <1>6, <1>7, <1>8, <1>9 DEF StreamNext, Emit, Serve

\* Every queue stays within its limit and every id names an event of the log,
\* whatever the emitters, the loop and the clients do.
THEOREM StreamKeepsTypes == FairStreamSpec => []StreamTypeOK
<1> QED
  BY StreamTypeInit, StreamTypeStep, PTL DEF FairStreamSpec, StreamSpec

-----------------------------------------------------------------------------
(* A stream is a feed                                                      *)

\* What a stream has read and not sent yet is of its subjects, and a replay is
\* ahead of what was sent.
Wanted(s) ==
  /\ \A id \in history[s] \cup ToSet(queue[s]) : log[id] \in Wants[s]
  /\ phase[s] = "replay" => \A id \in history[s] : LastId(s) < id
  /\ phase[s] = "new" => sent[s] = <<>>

FeedInv == StreamTypeOK /\ \A s \in Streams : Wanted(s)

LEMMA QueuedIds ==
  ASSUME StreamTypeOK, NEW s \in Streams
  PROVE  /\ ToSet(queue[s]) \subseteq Ids
         /\ ToSet(sent[s]) \subseteq Ids
<1>1. queue[s] \in Seq(Ids) /\ sent[s] \in Seq(Ids)
  BY DEF StreamTypeOK
<1>2. \A seq \in Seq(Ids) : ToSet(seq) \subseteq Ids
  BY LenProperties, ElementOfSeq DEF ToSet
<1> QED
  BY <1>1, <1>2

\* What one broadcast does to the queue of a stream.
LEMMA BroadcastQueue ==
  ASSUME StreamTypeOK, Broadcast, NEW s \in Streams
  PROVE  LET id == Head(scheduled)
         IN  /\ id \in Ids
             /\ ToSet(scheduled) = {id} \cup ToSet(scheduled')
             /\ s \notin Audience(id) => queue'[s] = queue[s]
             /\ s \in Audience(id) => /\ id \in ToSet(queue'[s])
                                      /\ ToSet(queue'[s]) \subseteq ToSet(queue[s]) \cup {id}
                                      /\ \/ ToSet(queue[s]) \subseteq ToSet(queue'[s])
                                         \/ s \in overflowed'
<1> DEFINE id == Head(scheduled)
<1>1. id \in Ids /\ ToSet(scheduled) = {id} \cup ToSet(scheduled')
  BY ToSetTail DEF Broadcast, StreamTypeOK
<1>2. queue[s] \in Seq(Ids)
  BY DEF StreamTypeOK
<1>3. CASE s \notin Audience(id)
  BY <1>1, <1>3 DEF Broadcast
<1>4. CASE s \in Audience(id) /\ Len(queue[s]) # QueueMax
  <2>1. queue'[s] = Append(queue[s], id)
    BY <1>4 DEF Broadcast
  <2> QED
    BY <1>1, <1>2, <1>4, <2>1, ToSetAppend
<1>5. CASE s \in Audience(id) /\ Len(queue[s]) = QueueMax
  <2>1. queue'[s] = Append(Tail(queue[s]), id) /\ s \in overflowed'
    BY <1>5 DEF Broadcast
  <2>2. queue[s] # <<>>
    BY <1>5, EmptySeq
  <2>3. Tail(queue[s]) \in Seq(Ids) /\ ToSet(Tail(queue[s])) \subseteq ToSet(queue[s])
    BY <1>2, <2>2, ToSetTail
  <2>4. ToSet(queue'[s]) = ToSet(Tail(queue[s])) \cup {id}
    <3> DEFINE rest == Tail(queue[s])
    <3> HIDE DEF rest, id
    <3>1. rest \in Seq(Ids)
      BY <2>3 DEF rest
    <3>2. ToSet(Append(rest, id)) = ToSet(rest) \cup {id}
      BY <1>1, <3>1, ToSetAppend
    <3> QED
      BY <2>1, <3>2 DEF rest
  <2> QED
    BY <1>1, <1>5, <2>1, <2>3, <2>4
<1> QED
  BY <1>3, <1>4, <1>5

\* What sending one id does.
LEMMA SendLast ==
  ASSUME StreamTypeOK, NEW s \in Streams, NEW id \in Ids, Send(s, id)
  PROVE  /\ \A t \in Streams \ {s} : sent'[t] = sent[t] /\ phase'[t] = phase[t]
         /\ \/ phase'[s] = "closed" /\ sent' = sent
            \/ /\ phase' = phase
               /\ sent' = [sent EXCEPT ![s] = Append(@, id)]
               /\ LastId(s)' = id
               /\ ToSet(sent'[s]) = ToSet(sent[s]) \cup {id}
<1>1. sent[s] \in Seq(Ids)
  BY DEF StreamTypeOK
<1>2. CASE s \in connected
  <2>1. sent' = [sent EXCEPT ![s] = Append(@, id)] /\ phase' = phase
    BY <1>2 DEF Send
  <2>2. sent'[s] = Append(sent[s], id)
    BY <2>1 DEF StreamTypeOK
  <2>3. ToSet(sent'[s]) = ToSet(sent[s]) \cup {id}
    BY <1>1, <2>2, ToSetAppend
  <2>4. /\ Len(sent'[s]) = Len(sent[s]) + 1 /\ Len(sent[s]) \in Nat
        /\ sent'[s][Len(sent[s]) + 1] = id
    BY <1>1, <2>2
  <2>5. sent'[s] # <<>>
    BY <2>4, EmptySeq
  <2>6. LastId(s)' = id
    BY <2>4, <2>5 DEF LastId, Last
  <2> QED
    BY <2>1, <2>3, <2>6 DEF StreamTypeOK
<1>3. CASE s \notin connected
  BY <1>3 DEF Send, StreamTypeOK
<1> QED
  BY <1>2, <1>3

LEMMA FeedInvInit == StreamInit => FeedInv
<1> SUFFICES ASSUME StreamInit PROVE FeedInv
  OBVIOUS
<1>1. ToSet(<<>>) = {}
  BY DEF ToSet
<1> QED
  BY <1>1, StreamTypeInit DEF FeedInv, Wanted, StreamInit

LEMMA FeedInvStep ==
  ASSUME FeedInv, [StreamNext]_streamVars
  PROVE  FeedInv'
<1> USE DEF streamVars, emitVars, clientVars, markVars
<1>0. StreamTypeOK /\ StreamTypeOK'
  BY StreamTypeStep DEF FeedInv
<1> SUFFICES ASSUME NEW t \in Streams PROVE Wanted(t)'
  BY <1>0 DEF FeedInv
<1>w. Wanted(t)
  BY DEF FeedInv
<1>i. history[t] \subseteq Ids /\ ToSet(queue[t]) \subseteq Ids
  BY <1>0, QueuedIds DEF StreamTypeOK
<1>1. ASSUME NEW e \in Emitters, NEW x \in Subjects, AddEvent(e, x) PROVE Wanted(t)'
  BY <1>0, <1>1, <1>i, <1>w, LogGrows DEF AddEvent, Wanted, LastId
<1>2. ASSUME NEW e \in Emitters, CallSoon(e) PROVE Wanted(t)'
  BY <1>2, <1>w DEF CallSoon, Wanted, LastId
<1>3. CASE Broadcast
  <2> DEFINE id == Head(scheduled)
  <2>1. \A i \in ToSet(queue'[t]) : log[i] \in Wants[t]
    BY <1>0, <1>3, <1>w, BroadcastQueue DEF Wanted, Audience
  <2> QED
    BY <1>3, <1>w, <2>1 DEF Broadcast, Wanted, LastId
<1>4. ASSUME NEW s \in Streams, Accept(s) PROVE Wanted(t)'
  <2>1. CASE t = s
    <3>1. history'[s] = Replay(s) /\ sent[s] = <<>>
      BY <1>0, <1>4, <1>w, <2>1 DEF Accept, StreamTypeOK, Wanted
    <3>2. \A id \in Replay(s) : id \in Ids /\ log[id] \in Wants[s] /\ 0 < id
      BY <1>0 DEF Replay, Oldest, Newest, EventsAbout, Ids, StreamTypeOK
    <3>3. phase'[s] = "replay" /\ LastId(s)' = 0
      BY <1>0, <1>4, <3>1 DEF Accept, LastId, StreamTypeOK
    <3> QED
      BY <1>4, <1>w, <2>1, <3>1, <3>2, <3>3 DEF Accept, Wanted
  <2>2. CASE t # s
    BY <1>0, <1>4, <1>w, <2>2 DEF Accept, Wanted, StreamTypeOK, LastId
  <2> QED
    BY <2>1, <2>2
<1>5. ASSUME NEW s \in Streams, SendHistory(s) PROVE Wanted(t)'
  <2>1. PICK id \in history[s] : /\ Send(s, id)
                                 /\ \A i \in history[s] : id =< i
                                 /\ history' = [history EXCEPT ![s] = @ \ {id}]
    BY <1>5 DEF SendHistory
  <2>2. id \in Ids
    BY <1>0, <2>1 DEF StreamTypeOK
  <2>3. CASE t = s
    <3>1. history'[s] = history[s] \ {id} /\ \A i \in history'[s] : id < i
      BY <1>0, <1>i, <2>1, <2>2, <2>3 DEF StreamTypeOK, Ids
    <3>2. phase'[s] = "closed" \/ (LastId(s)' = id /\ phase'[s] = "replay")
      BY <1>0, <1>5, <2>1, <2>2, SendLast DEF SendHistory
    <3>3. log' = log /\ queue' = queue
      BY <1>5 DEF SendHistory
    <3>4. \A i \in history'[s] \cup ToSet(queue'[s]) : log'[i] \in Wants[s]
      BY <1>w, <2>3, <3>1, <3>3 DEF Wanted
    <3> QED
      BY <2>3, <3>1, <3>2, <3>4 DEF Wanted, LastId
  <2>4. CASE t # s
    <3>1. sent'[t] = sent[t] /\ phase'[t] = phase[t] /\ history'[t] = history[t]
      BY <1>0, <2>1, <2>2, <2>4, SendLast DEF StreamTypeOK
    <3> QED
      BY <1>5, <1>w, <3>1 DEF SendHistory, Wanted, LastId
  <2> QED
    BY <2>3, <2>4
<1>6. ASSUME NEW s \in Streams, Subscribe(s) PROVE Wanted(t)'
  BY <1>0, <1>6, <1>w DEF Subscribe, Wanted, StreamTypeOK, LastId
<1>7. ASSUME NEW s \in Streams, TakeEvent(s) PROVE Wanted(t)'
  <2> DEFINE id == Head(queue[s])
  <2>1. /\ id \in Ids
        /\ queue' = [queue EXCEPT ![s] = Tail(@)]
        /\ ToSet(Tail(queue[s])) \subseteq ToSet(queue[s])
    BY <1>0, <1>7, ToSetTail DEF TakeEvent, StreamTypeOK
  <2>2. ToSet(queue'[t]) \subseteq ToSet(queue[t])
    BY <1>0, <2>1 DEF StreamTypeOK
  <2>3. phase'[t] = "closed" \/ phase'[t] = phase[t]
    BY <1>0, <1>7, <2>1, SendLast DEF TakeEvent
  <2>4. t = s => phase[t] = "live"
    BY <1>7 DEF TakeEvent
  <2>5. t # s => sent'[t] = sent[t]
    BY <1>0, <1>7, <2>1, SendLast DEF TakeEvent
  <2> QED
    BY <1>7, <1>w, <2>2, <2>3, <2>4, <2>5 DEF TakeEvent, Wanted, LastId
<1>8. ASSUME NEW s \in Streams, Disconnect(s) PROVE Wanted(t)'
  BY <1>8, <1>w DEF Disconnect, Wanted, LastId
<1>9. CASE UNCHANGED streamVars
  BY <1>9, <1>w DEF Wanted, LastId
<1> QED
  BY <1>1, <1>2, <1>3, <1>4, <1>5, <1>6, <1>7, <1>8, <1>9 DEF StreamNext, Emit, Serve

\* An id that is sent is a delivery of the feed.
LEMMA SendDelivers ==
  ASSUME StreamTypeOK, NEW s \in Streams, NEW id \in Ids, Send(s, id), log' = log,
         log[id] \in Wants[s], LastId(s) < id
  PROVE  Feed!Deliver(s, id) \/ UNCHANGED <<log, sent>>
<1>1. \/ sent' = sent
      \/ sent' = [sent EXCEPT ![s] = Append(@, id)]
  BY SendLast
<1>2. LastId(s) = Feed!LastGot(s)
  BY DEF LastId, Last, Feed!LastGot
<1> QED
  BY <1>1, <1>2 DEF Feed!Deliver

LEMMA FeedStep ==
  ASSUME FeedInv, [StreamNext]_streamVars
  PROVE  [Feed!FeedNext]_(Feed!feedVars)
<1> USE DEF streamVars, emitVars, clientVars, markVars
<1>0. StreamTypeOK
  BY DEF FeedInv
<1>n. \A s \in Streams, id \in Ids : Feed!Deliver(s, id) => Feed!FeedNext
  BY DEF Feed!FeedNext, Ids
<1>1. ASSUME NEW e \in Emitters, NEW x \in Subjects, AddEvent(e, x) PROVE Feed!FeedNext
  BY <1>1 DEF AddEvent, Feed!FeedNext, Feed!Record
<1>2. ASSUME NEW s \in Streams, SendHistory(s) PROVE [Feed!FeedNext]_(Feed!feedVars)
  <2>1. PICK id \in history[s] : Send(s, id)
    BY <1>2 DEF SendHistory
  <2>2. id \in Ids /\ log[id] \in Wants[s] /\ LastId(s) < id /\ log' = log
    BY <1>0, <1>2, <2>1 DEF StreamTypeOK, FeedInv, Wanted, SendHistory
  <2> QED
    BY <1>0, <1>n, <2>1, <2>2, SendDelivers DEF Feed!feedVars
<1>3. ASSUME NEW s \in Streams, TakeEvent(s) PROVE [Feed!FeedNext]_(Feed!feedVars)
  <2> DEFINE id == Head(queue[s])
  <2>1. id \in Ids /\ id \in ToSet(queue[s]) /\ log' = log
    BY <1>0, <1>3, ToSetTail DEF TakeEvent, StreamTypeOK
  <2>2. log[id] \in Wants[s]
    BY <2>1 DEF FeedInv, Wanted
  <2>3. CASE IsNews(s, id)
    <3>1. Send(s, id)
      BY <1>3, <2>3 DEF TakeEvent
    <3>2. LastId(s) < id
      BY <1>0, <2>1, <2>3, LastIdType DEF IsNews, Ids
    <3> QED
      BY <1>0, <1>n, <2>1, <2>2, <3>1, <3>2, SendDelivers DEF Feed!feedVars
  <2>4. CASE ~IsNews(s, id)
    BY <1>3, <2>4 DEF TakeEvent, Feed!feedVars
  <2> QED
    BY <2>3, <2>4
<1>4. ASSUME \/ \E e \in Emitters : CallSoon(e)
             \/ Broadcast
             \/ \E s \in Streams : Accept(s) \/ Subscribe(s) \/ Disconnect(s)
             \/ UNCHANGED streamVars
      PROVE  UNCHANGED <<log, sent>>
  BY <1>4 DEF CallSoon, Broadcast, Accept, Subscribe, Disconnect
<1> QED
  BY <1>1, <1>2, <1>3, <1>4 DEF StreamNext, Emit, Serve, Feed!feedVars

\* Replay, subscription, overtaking broadcasts and full queues together make a
\* feed: in order, nothing twice, nothing of another job.
THEOREM StreamImplementsFeed == FairStreamSpec => FeedKept
<1>1. StreamInit => Feed!FeedInit
  BY DEF StreamInit, Feed!FeedInit
<1> QED
  BY <1>1, FeedInvInit, FeedInvStep, FeedStep, PTL
     DEF FairStreamSpec, StreamSpec, FeedKept, Feed!FeedSpec

-----------------------------------------------------------------------------
(* What a stream loses                                                     *)

\* The limit of the replay leaves id out.
Beyond(s, id) ==
  IF s \in JobStreams THEN Cardinality({i \in Before(s) : i < id}) >= ReplayMax
                      ELSE Cardinality({i \in Before(s) : i > id}) >= RecentMax

\* From the read of the history on: what was there is sent, still to be sent, or
\* beyond the limit.
Replayed(s) ==
  phase[s] \in {"replay", "live"} =>
    /\ readAt[s] =< Len(log)
    /\ phase[s] = "live" => history[s] = {}
    /\ \A id \in Before(s) : id \in history[s] \cup ToSet(sent[s]) \/ Beyond(s, id)

\* id or a later event was sent or is on its way, or the queue has overflowed.
Kept(s, id) ==
  \/ \E later \in ToSet(sent[s]) \cup ToSet(queue[s]) : later >= id
  \/ s \in overflowed

\* From the subscription on.
Followed(s) ==
  s \in Subscribers =>
    \A id \in Ids : (log[id] \in Wants[s] /\ id > joinedAt[s] /\ Broadcasted(id)) => Kept(s, id)

LossInv == StreamTypeOK /\ \A s \in Streams : Replayed(s) /\ Followed(s)

LEMMA CountedUpTo ==
  ASSUME NEW n \in Nat, NEW T \in SUBSET (1..n)
  PROVE  IsFiniteSet(T) /\ Cardinality(T) \in Nat
<1>1. 1 \in Int /\ n \in Int
  OBVIOUS
<1>2. IsFiniteSet(1..n)
  BY ONLY <1>1, FS_Interval
<1> QED
  BY <1>2, FS_Subset, FS_CardinalityType

\* What was read once does not change, although the log grows.
LEMMA BeforeStays ==
  ASSUME StreamTypeOK, NEW s \in Streams, readAt[s] =< Len(log), readAt' = readAt,
         log' = log \/ \E x \in Subjects : log' = Append(log, x)
  PROVE  /\ Before(s)' = Before(s)
         /\ \A id : Beyond(s, id)' = Beyond(s, id)
         /\ readAt'[s] =< Len(log')
<1>1. \A i \in 1..readAt[s] : i \in Ids
  <2>1. readAt[s] \in Nat /\ Len(log) \in Nat
    BY DEF StreamTypeOK, Ids
  <2> QED
    BY <2>1 DEF Ids
<1>2. \A i \in Ids : log'[i] = log[i]
  BY LogGrows
<1>3. Before(s)' = Before(s)
  BY <1>1, <1>2 DEF Before
<1>4. readAt'[s] =< Len(log')
  <2>1. Len(log) \in Nat /\ readAt[s] \in Nat
    BY DEF StreamTypeOK, Ids
  <2> QED
    BY <2>1, LogGrows
<1> QED
  BY <1>3, <1>4 DEF Beyond

LEMMA LossInvInit == StreamInit => LossInv
BY StreamTypeInit DEF LossInv, Replayed, Followed, Subscribers, StreamInit

\* Everything but reading the history and sending it.
LEMMA ReplayedStays ==
  ASSUME StreamTypeOK, NEW s \in Streams, Replayed(s), readAt'[s] = readAt[s], readAt' = readAt,
         log' = log \/ \E x \in Subjects : log' = Append(log, x),
         history'[s] = history[s], ToSet(sent[s]) \subseteq ToSet(sent'[s]),
         phase'[s] \in {"replay", "live"} => phase[s] \in {"replay", "live"},
         (phase'[s] = "live" /\ phase[s] = "replay") => history[s] = {}
  PROVE  Replayed(s)'
<1> SUFFICES ASSUME phase'[s] \in {"replay", "live"} PROVE Replayed(s)'
  BY DEF Replayed
<1>1. /\ readAt[s] =< Len(log)
      /\ \A id \in Before(s) : id \in history[s] \cup ToSet(sent[s]) \/ Beyond(s, id)
  BY DEF Replayed
<1>2. phase'[s] = "live" => history'[s] = {}
  BY DEF Replayed
<1>3. /\ Before(s)' = Before(s) /\ readAt'[s] =< Len(log')
      /\ \A id : Beyond(s, id)' = Beyond(s, id)
  BY <1>1, BeforeStays
<1>4. ASSUME NEW id \in Before(s)'
      PROVE  id \in history'[s] \cup ToSet(sent'[s]) \/ Beyond(s, id)'
  BY <1>1, <1>3, <1>4
<1> QED
  BY <1>2, <1>3, <1>4 DEF Replayed

\* The history is read and sent.
LEMMA AcceptReplays ==
  ASSUME StreamTypeOK, NEW s \in Streams, Accept(s)
  PROVE  Replayed(s)'
<1>1. /\ log' = log /\ sent' = sent
      /\ history'[s] = Replay(s) /\ readAt'[s] = Len(log) /\ phase'[s] = "replay"
  BY DEF Accept, StreamTypeOK, emitVars
<1>2. Before(s)' = EventsAbout(Wants[s])
  BY <1>1 DEF Before, EventsAbout, Ids
<1>3. ASSUME NEW id \in Before(s)', id \notin Replay(s)
      PROVE  Beyond(s, id)'
  <2>1. StreamTypeOK'
    BY StreamTypeStep DEF StreamNext
  <2>2. \A T \in SUBSET Before(s)' : Cardinality(T) \in Nat
    <3>1. readAt'[s] \in Nat
      BY <1>1 DEF StreamTypeOK
    <3>2. Before(s)' \subseteq 1..readAt'[s]
      BY DEF Before
    <3> QED
      BY <3>1, <3>2, CountedUpTo
  <2>3. CASE s \in JobStreams
    <3> DEFINE T == {i \in EventsAbout(Wants[s]) : i < id}
    <3>1. Cardinality(T) \in Nat
      BY <1>2, <2>2
    <3>2. ~(Cardinality(T) < ReplayMax)
      BY <1>2, <1>3, <2>3 DEF Replay, Oldest
    <3> QED
      BY <1>2, <2>3, <3>1, <3>2 DEF Beyond
  <2>4. CASE s \notin JobStreams
    <3> DEFINE T == {i \in EventsAbout(Wants[s]) : i > id}
    <3>1. Cardinality(T) \in Nat
      BY <1>2, <2>2
    <3>2. ~(Cardinality(T) < RecentMax)
      BY <1>2, <1>3, <2>4 DEF Replay, Newest
    <3> QED
      BY <1>2, <2>4, <3>1, <3>2 DEF Beyond
  <2> QED
    BY <2>3, <2>4
<1>4. readAt'[s] =< Len(log')
  BY <1>1 DEF StreamTypeOK
<1> QED
  BY <1>1, <1>3, <1>4 DEF Replayed

LEMMA ReplayedStep ==
  ASSUME LossInv, [StreamNext]_streamVars, NEW t \in Streams
  PROVE  Replayed(t)'
<1> USE DEF streamVars, emitVars, clientVars, markVars
<1>0. StreamTypeOK /\ Replayed(t)
  BY DEF LossInv
<1>1. CASE /\ history' = history /\ sent' = sent /\ phase' = phase /\ readAt' = readAt
           /\ log' = log \/ \E x \in Subjects : log' = Append(log, x)
  BY <1>0, <1>1, ReplayedStays
<1>2. ASSUME NEW s \in Streams, Accept(s) PROVE Replayed(t)'
  <2>1. CASE t = s
    BY <1>0, <1>2, <2>1, AcceptReplays
  <2>2. CASE t # s
    <3>1. /\ history'[t] = history[t] /\ phase'[t] = phase[t] /\ readAt'[t] = readAt[t]
          /\ sent' = sent /\ log' = log
      BY <1>0, <1>2, <2>2 DEF Accept, StreamTypeOK
    <3>2. Before(t)' = Before(t) /\ \A id : Beyond(t, id)' = Beyond(t, id)
      BY <3>1 DEF Before, Beyond
    <3> QED
      BY <1>0, <3>1, <3>2 DEF Replayed
  <2> QED
    BY <2>1, <2>2
<1>3. ASSUME NEW s \in Streams, SendHistory(s) PROVE Replayed(t)'
  <2>1. PICK id \in history[s] : Send(s, id) /\ history' = [history EXCEPT ![s] = @ \ {id}]
    BY <1>3 DEF SendHistory
  <2>2. id \in Ids /\ log' = log /\ readAt' = readAt /\ phase[s] = "replay"
    BY <1>0, <1>3, <2>1 DEF StreamTypeOK, SendHistory
  <2>3. CASE t # s
    <3>1. sent'[t] = sent[t] /\ phase'[t] = phase[t] /\ history'[t] = history[t]
      BY <1>0, <2>1, <2>2, <2>3, SendLast DEF StreamTypeOK
    <3> QED
      BY <1>0, <2>2, <3>1, ReplayedStays
  <2>4. CASE t = s /\ phase'[s] # "closed"
    <3>1. /\ ToSet(sent'[t]) = ToSet(sent[t]) \cup {id} /\ phase'[t] = "replay"
          /\ history'[t] = history[t] \ {id}
      BY <1>0, <2>1, <2>2, <2>4, SendLast DEF StreamTypeOK
    <3>2. Before(t)' = Before(t) /\ \A i : Beyond(t, i)' = Beyond(t, i)
      BY <2>2 DEF Before, Beyond
    <3> QED
      BY <1>0, <2>2, <2>4, <3>1, <3>2 DEF Replayed
  <2>5. CASE t = s /\ phase'[s] = "closed"
    BY <2>5 DEF Replayed
  <2> QED
    BY <2>3, <2>4, <2>5
<1>4. ASSUME NEW s \in Streams, Subscribe(s) PROVE Replayed(t)'
  <2>1. /\ history' = history /\ sent' = sent /\ readAt' = readAt /\ log' = log
        /\ t # s => phase'[t] = phase[t]
        /\ phase[s] = "replay" /\ history[s] = {}
    BY <1>0, <1>4 DEF Subscribe, StreamTypeOK
  <2> QED
    BY <1>0, <2>1, ReplayedStays
<1>5. ASSUME NEW s \in Streams, TakeEvent(s) PROVE Replayed(t)'
  <2>1. history' = history /\ readAt' = readAt /\ log' = log
    BY <1>5 DEF TakeEvent
  <2>2. Head(queue[s]) \in Ids
    BY <1>0, <1>5, ToSetTail DEF TakeEvent, StreamTypeOK
  <2>3. /\ phase'[t] = "closed" \/ phase'[t] = phase[t]
        /\ ToSet(sent[t]) \subseteq ToSet(sent'[t])
    BY <1>0, <1>5, <2>2, SendLast DEF TakeEvent
  <2> QED
    BY <1>0, <2>1, <2>3, ReplayedStays
<1>6. ASSUME \/ \E e \in Emitters, x \in Subjects : AddEvent(e, x)
             \/ \E e \in Emitters : CallSoon(e)
             \/ Broadcast
             \/ \E s \in Streams : Disconnect(s)
             \/ UNCHANGED streamVars
      PROVE  /\ history' = history /\ sent' = sent /\ phase' = phase /\ readAt' = readAt
             /\ log' = log \/ \E x \in Subjects : log' = Append(log, x)
  BY <1>6 DEF AddEvent, CallSoon, Broadcast, Disconnect
<1> QED
  BY <1>1, <1>2, <1>3, <1>4, <1>5, <1>6 DEF StreamNext, Emit, Serve

\* Nothing but a broadcast brings an event to the streams, and what is kept stays
\* kept as long as neither queue nor sent lose their last word.
LEMMA FollowedStays ==
  ASSUME NEW t \in Streams, Followed(t), t \in Subscribers' => t \in Subscribers,
         Ids' = Ids, log' = log, joinedAt'[t] = joinedAt[t],
         \A id \in Ids : Broadcasted(id)' => Broadcasted(id),
         \A id \in Ids : t \in Subscribers' => (Kept(t, id) => Kept(t, id)')
  PROVE  Followed(t)'
<1> SUFFICES ASSUME t \in Subscribers',
                    NEW id \in Ids', log'[id] \in Wants[t], id > joinedAt'[t], Broadcasted(id)'
             PROVE  Kept(t, id)'
  BY DEF Followed
<1> QED
  BY DEF Followed

LEMMA AddEventFollowed ==
  ASSUME StreamTypeOK, NEW t \in Streams, Followed(t),
         NEW e \in Emitters, NEW x \in Subjects, AddEvent(e, x)
  PROVE  Followed(t)'
<1>1. /\ scheduled' = scheduled /\ joinedAt' = joinedAt /\ toSchedule[e] = 0
      /\ toSchedule' = [toSchedule EXCEPT ![e] = Len(log) + 1]
      /\ Subscribers' = Subscribers
      /\ \A id : Kept(t, id)' = Kept(t, id)
  BY DEF AddEvent, clientVars, markVars, Subscribers, Kept
<1> SUFFICES ASSUME t \in Subscribers',
                    NEW id \in Ids', log'[id] \in Wants[t], id > joinedAt'[t], Broadcasted(id)'
             PROVE  Kept(t, id)'
  BY DEF Followed
<1>2. id # Len(log) + 1
  BY <1>1 DEF Broadcasted, StreamTypeOK
<1>3. id \in Ids /\ log'[id] = log[id]
  <2>1. Len(log') = Len(log) + 1 /\ Len(log) \in Nat
    BY LogGrows DEF AddEvent, StreamTypeOK
  <2>2. id \in Ids
    BY <1>2, <2>1 DEF Ids
  <2> QED
    BY <2>2, LogGrows DEF AddEvent
<1>4. Broadcasted(id)
  <2>1. ASSUME NEW f \in Emitters PROVE toSchedule[f] # id
    <3>1. CASE f = e
      BY <1>1, <1>3, <3>1 DEF Ids
    <3>2. CASE f # e
      BY <1>1, <3>2 DEF Broadcasted, StreamTypeOK
    <3> QED
      BY <3>1, <3>2
  <2> QED
    BY <1>1, <2>1 DEF Broadcasted
<1> QED
  BY <1>1, <1>3, <1>4 DEF Followed

LEMMA BroadcastFollowed ==
  ASSUME StreamTypeOK, NEW t \in Streams, Followed(t), Broadcast
  PROVE  Followed(t)'
<1> DEFINE id == Head(scheduled)
<1>1. /\ log' = log /\ Ids' = Ids /\ sent' = sent /\ joinedAt' = joinedAt
      /\ toSchedule' = toSchedule /\ Subscribers' = Subscribers
      /\ overflowed \subseteq overflowed'
  BY DEF Broadcast, clientVars, Subscribers, Ids
<1>2. /\ id \in Ids
      /\ ToSet(scheduled) = {id} \cup ToSet(scheduled')
      /\ t \notin Audience(id) => queue'[t] = queue[t]
      /\ t \in Audience(id) => /\ id \in ToSet(queue'[t])
                               /\ \/ ToSet(queue[t]) \subseteq ToSet(queue'[t])
                                  \/ t \in overflowed'
  BY BroadcastQueue
<1> HIDE DEF id
<1> SUFFICES ASSUME t \in Subscribers',
                    NEW i \in Ids', log'[i] \in Wants[t], i > joinedAt'[t], Broadcasted(i)'
             PROVE  Kept(t, i)'
  BY DEF Followed
<1>3. CASE i = id
  <2>1. t \in Audience(id)
    BY <1>1, <1>3 DEF Audience
  <2>2. i >= i
    BY DEF Ids
  <2> QED
    BY <1>2, <1>3, <2>1, <2>2 DEF Kept
<1>4. CASE i # id
  <2>1. Broadcasted(i)
    BY <1>1, <1>2, <1>4 DEF Broadcasted
  <2>2. Kept(t, i)
    BY <1>1, <2>1 DEF Followed
  <2> QED
    BY <1>1, <1>2, <2>2 DEF Kept
<1> QED
  BY <1>3, <1>4

\* An event that is passed over is not newer than the last one sent.
LEMMA TakeEventFollowed ==
  ASSUME StreamTypeOK, NEW t \in Streams, Followed(t), NEW s \in Streams, TakeEvent(s)
  PROVE  Followed(t)'
<1> DEFINE head == Head(queue[s])
<1>1. /\ log' = log /\ Ids' = Ids /\ joinedAt' = joinedAt /\ overflowed' = overflowed
      /\ toSchedule' = toSchedule /\ scheduled' = scheduled
      /\ queue' = [queue EXCEPT ![s] = Tail(@)] /\ phase[s] = "live"
      /\ IF IsNews(s, head) THEN Send(s, head) ELSE UNCHANGED <<sent, phase>>
  BY DEF TakeEvent, emitVars, markVars, Ids
<1>2. head \in Ids /\ ToSet(queue[s]) = {head} \cup ToSet(Tail(queue[s]))
  BY ToSetTail DEF TakeEvent, StreamTypeOK
<1> HIDE DEF head
<1>3. \A id : Broadcasted(id)' = Broadcasted(id)
  BY <1>1 DEF Broadcasted
<1>4. \/ phase'[s] = "closed" /\ sent' = sent
      \/ phase' = phase /\ ToSet(sent'[s]) = ToSet(sent[s]) \cup {head}
      \/ phase' = phase /\ sent' = sent /\ ~IsNews(s, head)
  BY <1>1, <1>2, SendLast
<1>5. \A u \in Streams \ {s} : phase'[u] = phase[u] /\ sent'[u] = sent[u] /\ queue'[u] = queue[u]
  BY <1>1, <1>2, SendLast DEF StreamTypeOK
<1>6. t \in Subscribers' => t \in Subscribers
  BY <1>1, <1>5 DEF Subscribers
<1>7. ASSUME NEW id \in Ids, t \in Subscribers', Kept(t, id)
      PROVE  Kept(t, id)'
  <2>1. CASE t # s
    BY <1>1, <1>5, <1>7, <2>1 DEF Kept
  <2>2. CASE t = s /\ t \in overflowed
    BY <1>1, <2>2 DEF Kept
  <2>3. CASE t = s /\ t \notin overflowed
    <3>1. PICK later \in ToSet(sent[s]) \cup ToSet(queue[s]) : later >= id
      BY <1>7, <2>3 DEF Kept
    <3>2. ToSet(queue'[s]) = ToSet(Tail(queue[s]))
      BY <1>1 DEF StreamTypeOK
    <3>3. phase'[s] = "live"
      BY <1>7, <2>3 DEF Subscribers
    <3>4. ToSet(sent[s]) \subseteq ToSet(sent'[s])
      BY <1>4, <3>3
    <3>5. CASE later \in ToSet(sent'[s]) \cup ToSet(queue'[s])
      BY <2>3, <3>1, <3>5 DEF Kept
    <3>6. CASE later \notin ToSet(sent'[s]) \cup ToSet(queue'[s])
      <4>1. later = head /\ sent' = sent /\ ~(head > LastId(s))
        BY <1>2, <1>4, <3>1, <3>2, <3>3, <3>4, <3>6 DEF IsNews
      <4>2. LastId(s) \in Ids \cup {0} /\ (LastId(s) # 0 => LastId(s) \in ToSet(sent[s]))
        BY LastIdType
      <4>3. LastId(s) >= id /\ LastId(s) # 0
        BY <1>2, <3>1, <4>1, <4>2 DEF Ids
      <4> QED
        BY <2>3, <4>1, <4>2, <4>3 DEF Kept
    <3> QED
      BY <3>5, <3>6
  <2> QED
    BY <2>1, <2>2, <2>3
<1> QED
  BY <1>1, <1>3, <1>6, <1>7, FollowedStays

LEMMA FollowedStep ==
  ASSUME LossInv, [StreamNext]_streamVars, NEW t \in Streams
  PROVE  Followed(t)'
<1> USE DEF streamVars, emitVars, clientVars, markVars
<1>0. StreamTypeOK /\ Followed(t)
  BY DEF LossInv
<1>1. ASSUME NEW e \in Emitters, NEW x \in Subjects, AddEvent(e, x) PROVE Followed(t)'
  BY <1>0, <1>1, AddEventFollowed
<1>2. ASSUME NEW e \in Emitters, CallSoon(e) PROVE Followed(t)'
  <2>1. /\ log' = log /\ Ids' = Ids /\ joinedAt' = joinedAt /\ Subscribers' = Subscribers
        /\ \A id : Kept(t, id)' = Kept(t, id)
    BY <1>2 DEF CallSoon, Ids, Subscribers, Kept
  <2>2. /\ ToSet(scheduled') = ToSet(scheduled) \cup {toSchedule[e]}
        /\ toSchedule' = [toSchedule EXCEPT ![e] = 0]
    BY <1>0, <1>2, ToSetAppend DEF CallSoon, StreamTypeOK
  <2>3. ASSUME NEW id \in Ids, Broadcasted(id)' PROVE Broadcasted(id)
    <3>1. \A f \in Emitters : toSchedule'[f] # id /\ id \notin ToSet(scheduled')
      BY <2>3 DEF Broadcasted
    <3>2. \A f \in Emitters : toSchedule[f] # id
      BY <1>0, <2>2, <3>1 DEF StreamTypeOK
    <3> QED
      BY <2>2, <2>3, <3>2 DEF Broadcasted
  <2> QED
    BY <1>0, <2>1, <2>3, FollowedStays
<1>3. CASE Broadcast
  BY <1>0, <1>3, BroadcastFollowed
<1>4. ASSUME NEW s \in Streams, Accept(s) \/ SendHistory(s) \/ Disconnect(s)
      PROVE  Followed(t)'
  <2>1. /\ log' = log /\ Ids' = Ids /\ joinedAt' = joinedAt /\ overflowed' = overflowed
        /\ toSchedule' = toSchedule /\ scheduled' = scheduled /\ queue' = queue
    BY <1>4 DEF Accept, SendHistory, Disconnect, Ids
  <2>2. t \in Subscribers' => t \in Subscribers /\ sent'[t] = sent[t]
    <3>1. CASE Accept(s)
      BY <1>0, <3>1 DEF Accept, StreamTypeOK, Subscribers
    <3>2. CASE SendHistory(s)
      <4>1. PICK id \in history[s] : Send(s, id)
        BY <3>2 DEF SendHistory
      <4>2. id \in Ids /\ phase[s] = "replay"
        BY <1>0, <3>2, <4>1 DEF SendHistory, StreamTypeOK
      <4> QED
        BY <1>0, <4>1, <4>2, SendLast DEF Subscribers
    <3>3. CASE Disconnect(s)
      BY <3>3 DEF Disconnect, Subscribers
    <3> QED
      BY <1>4, <3>1, <3>2, <3>3
  <2>3. \A id : Broadcasted(id)' = Broadcasted(id)
    BY <2>1 DEF Broadcasted
  <2>4. \A id \in Ids : t \in Subscribers' => (Kept(t, id) => Kept(t, id)')
    BY <2>1, <2>2 DEF Kept
  <2> QED
    BY <1>0, <2>1, <2>2, <2>3, <2>4, FollowedStays
<1>5. ASSUME NEW s \in Streams, Subscribe(s) PROVE Followed(t)'
  <2>1. /\ log' = log /\ Ids' = Ids /\ overflowed' = overflowed /\ sent' = sent
        /\ toSchedule' = toSchedule /\ scheduled' = scheduled /\ queue' = queue
        /\ joinedAt' = [joinedAt EXCEPT ![s] = Len(log)]
        /\ phase' = [phase EXCEPT ![s] = "live"]
    BY <1>5 DEF Subscribe, Ids
  <2>2. CASE t = s
    <3>1. joinedAt'[t] = Len(log)
      BY <1>0, <2>1, <2>2 DEF StreamTypeOK
    <3>2. \A id \in Ids' : ~(id > joinedAt'[t])
      BY <1>0, <2>1, <3>1 DEF Ids, StreamTypeOK
    <3> QED
      BY <3>2 DEF Followed
  <2>3. CASE t # s
    <3>1. joinedAt'[t] = joinedAt[t] /\ (t \in Subscribers' => t \in Subscribers)
      BY <1>0, <2>1, <2>3 DEF StreamTypeOK, Subscribers
    <3>2. \A id : Broadcasted(id)' = Broadcasted(id) /\ Kept(t, id)' = Kept(t, id)
      BY <2>1 DEF Broadcasted, Kept
    <3> QED
      BY <1>0, <2>1, <3>1, <3>2, FollowedStays
  <2> QED
    BY <2>2, <2>3
<1>6. ASSUME NEW s \in Streams, TakeEvent(s) PROVE Followed(t)'
  BY <1>0, <1>6, TakeEventFollowed
<1>7. CASE UNCHANGED streamVars
  <2>1. /\ log' = log /\ Ids' = Ids /\ joinedAt' = joinedAt /\ Subscribers' = Subscribers
        /\ \A id : Broadcasted(id)' = Broadcasted(id) /\ Kept(t, id)' = Kept(t, id)
    BY <1>7 DEF Ids, Subscribers, Broadcasted, Kept
  <2> QED
    BY <1>0, <2>1, FollowedStays
<1> QED
  BY <1>1, <1>2, <1>3, <1>4, <1>5, <1>6, <1>7 DEF StreamNext, Emit, Serve

LEMMA LossInvStep ==
  ASSUME LossInv, [StreamNext]_streamVars
  PROVE  LossInv'
<1>1. StreamTypeOK'
  BY StreamTypeStep DEF LossInv
<1> QED
  BY <1>1, ReplayedStep, FollowedStep DEF LossInv

LEMMA LossInvExplains == LossInv => LossIsExplained
<1> SUFFICES ASSUME LossInv, NEW s \in Subscribers, NEW id \in Ids, Missed(s, id)
             PROVE  \/ id \in (readAt[s] + 1)..joinedAt[s]
                    \/ /\ id =< readAt[s]
                       /\ Cardinality(Before(s)) > IF s \in JobStreams THEN ReplayMax ELSE RecentMax
                    \/ \E later \in ToSet(sent[s]) \cup ToSet(queue[s]) : later > id
                    \/ s \in overflowed
  BY DEF LossIsExplained
<1>0. /\ StreamTypeOK /\ s \in Streams /\ phase[s] = "live"
      /\ Replayed(s) /\ Followed(s)
  BY DEF LossInv, Subscribers
<1>1. readAt[s] \in Nat /\ joinedAt[s] \in Nat /\ id \in Nat \ {0} /\ id =< Len(log)
  BY <1>0 DEF StreamTypeOK, Ids
<1>2. CASE id =< readAt[s]
  <2>1. id \in Before(s)
    BY <1>1, <1>2 DEF Before, Missed
  <2>2. Beyond(s, id)
    BY <1>0, <2>1 DEF Replayed, Missed
  <2>3. ASSUME NEW T \in SUBSET Before(s), NEW limit \in Nat, id \notin T, Cardinality(T) >= limit
        PROVE  Cardinality(Before(s)) > limit
    <3>1. /\ IsFiniteSet(Before(s)) /\ Cardinality(Before(s)) \in Nat
          /\ IsFiniteSet(T) /\ Cardinality(T) \in Nat
      BY <1>1, CountedUpTo DEF Before
    <3>2. Cardinality(T \cup {id}) = Cardinality(T) + 1
      BY <2>3, <3>1, FS_AddElement
    <3>3. Cardinality(T \cup {id}) =< Cardinality(Before(s))
      BY <2>1, <3>1, FS_Subset
    <3> QED
      BY <2>3, <3>1, <3>2, <3>3
  <2>4. CASE s \in JobStreams
    <3> DEFINE T == {i \in Before(s) : i < id}
    <3>1. Cardinality(T) >= ReplayMax /\ id \notin T
      BY <1>1, <2>2, <2>4 DEF Beyond
    <3> HIDE DEF T
    <3>2. T \subseteq Before(s)
      BY DEF T
    <3> QED
      BY <1>2, <2>3, <2>4, <3>1, <3>2
  <2>5. CASE s \notin JobStreams
    <3> DEFINE T == {i \in Before(s) : i > id}
    <3>1. Cardinality(T) >= RecentMax /\ id \notin T
      BY <1>1, <2>2, <2>5 DEF Beyond
    <3> HIDE DEF T
    <3>2. T \subseteq Before(s)
      BY DEF T
    <3> QED
      BY <1>2, <2>3, <2>5, <3>1, <3>2
  <2> QED
    BY <2>4, <2>5
<1>3. CASE id > joinedAt[s]
  <2>1. Kept(s, id)
    BY <1>0, <1>3 DEF Followed, Missed
  <2>2. ToSet(sent[s]) \cup ToSet(queue[s]) \subseteq Ids
    BY <1>0, QueuedIds
  <2>3. \A later \in ToSet(sent[s]) \cup ToSet(queue[s]) : later >= id => later > id
    BY <1>1, <2>2 DEF Missed, Ids
  <2> QED
    BY <2>1, <2>3 DEF Kept
<1>4. CASE id > readAt[s] /\ ~(id > joinedAt[s])
  BY <1>1, <1>4
<1> QED
  BY <1>1, <1>2, <1>3, <1>4

LEMMA LossInvStarts == LossInv => ReplayStartsAtTheBeginning
<1> SUFFICES ASSUME LossInv, NEW s \in JobStreams \cap Subscribers, NEW id \in Before(s),
                    Cardinality({i \in Before(s) : i < id}) < ReplayMax
             PROVE  id \in ToSet(sent[s])
  BY DEF ReplayStartsAtTheBeginning
<1>1. /\ StreamTypeOK /\ s \in Streams /\ history[s] = {}
      /\ id \in history[s] \cup ToSet(sent[s]) \/ Beyond(s, id)
  BY DEF LossInv, Subscribers, Replayed
<1>2. Cardinality({i \in Before(s) : i < id}) \in Nat
  <2>1. readAt[s] \in Nat /\ {i \in Before(s) : i < id} \subseteq 1..readAt[s]
    BY <1>1 DEF Before, StreamTypeOK, Ids
  <2> HIDE DEF Before
  <2> QED
    BY <2>1, CountedUpTo
<1> QED
  BY <1>1, <1>2 DEF Beyond

\* An event of a live stream is lost in one of the four ways stated and in no
\* other, for any limits of queue and replay.
THEOREM LossIsAlwaysExplained == FairStreamSpec => []LossIsExplained
<1> QED
  BY LossInvInit, LossInvStep, LossInvExplains, PTL DEF FairStreamSpec, StreamSpec

\* The replay of a job's stream has the start of the job.
THEOREM ReplayAlwaysStartsAtTheBeginning == FairStreamSpec => []ReplayStartsAtTheBeginning
<1> QED
  BY LossInvInit, LossInvStep, LossInvStarts, PTL DEF FairStreamSpec, StreamSpec
=============================================================================
