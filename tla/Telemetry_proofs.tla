-------------------------- MODULE Telemetry_proofs --------------------------
(***************************************************************************)
(* Proofs about the telemetry worker thread, for any order of its timer,   *)
(* messages and answers, and about the telemetry path from end to end, for *)
(* any number of events, any limits of the control plane and any faults:   *)
(* nothing is logged twice, a reported failure is one, and the dashboard's *)
(* window holds the latest events.                                         *)
(*                                                                         *)
(* The events a worker still has to handle are numbered above those it has *)
(* handed on, whatever the network and the server made of them since.      *)
(***************************************************************************)
EXTENDS Telemetry, SequenceTheorems, Induction

-----------------------------------------------------------------------------
(* The worker thread by itself. *)

(* The first message of a non-empty inbox, and what is left of the inbox.    *)
LEMMA ReceiveType ==
    ASSUME inbox \in Seq(Messages), NEW type, Receive(type)
    PROVE  /\ Head(inbox) \in Messages
           /\ Head(inbox).type = type
           /\ inbox' \in Seq(Messages)
BY DEF Receive

(* A flush leaves a well-typed buffer and adds a well-typed request.         *)
LEMMA FlushType ==
    ASSUME WorkerTypeOK, NEW handle \in {"null", "armed", "spent"},
           NEW last \in BOOLEAN, FlushEvents(handle, last)
    PROVE  /\ eventBuffer' \in Seq(Event)
           /\ flushTimer' \in {"null", "armed", "spent"}
           /\ requests' \subseteq Requests
           /\ worker' \in {"up", "dead"}
<1>1. CASE eventBuffer # <<>> /\ SendBatch(last)
  <2>1. [batch |-> eventBuffer, last |-> last] \in Requests
    BY <1>1 DEF WorkerTypeOK, Requests, Batches
  <2>2. QED
    BY <1>1, <2>1 DEF SendBatch, WorkerTypeOK
<1>2. CASE eventBuffer = <<>>
  BY <1>2 DEF FlushEvents, SendBatch, ExitWhen, WorkerTypeOK
<1>3. QED
  BY <1>1, <1>2 DEF FlushEvents

LEMMA WorkerTypeStep == WorkerTypeOK /\ [WorkerNext]_workerVars => WorkerTypeOK'
<1> SUFFICES ASSUME WorkerTypeOK, [WorkerNext]_workerVars PROVE WorkerTypeOK'
  OBVIOUS
<1> USE WorkerAssumption
<1>1. CASE ReceiveEvent
  <2>1. Head(inbox).payload \in Event /\ inbox' \in Seq(Messages)
    BY <1>1, ReceiveType DEF ReceiveEvent, WorkerTypeOK, Messages
  <2>2. eventBuffer' \in Seq(Event)
    BY <1>1, <2>1 DEF ReceiveEvent, WorkerTypeOK
  <2>3. QED
    BY <1>1, <2>1, <2>2 DEF ReceiveEvent, WorkerTypeOK
<1>2. CASE ReceiveForceFlush \/ ReceiveTerminate \/ TimerFires
  <2>1. inbox' \in Seq(Messages)
    BY <1>2, ReceiveType
    DEF ReceiveForceFlush, ReceiveTerminate, TimerFires, WorkerTypeOK
  <2>2. ClearedHandle \in {"null", "armed", "spent"}
    BY DEF ClearedHandle, WorkerTypeOK
  <2>3. \E handle \in {"null", "armed", "spent"}, last \in BOOLEAN :
          FlushEvents(handle, last)
    BY <1>2, <2>2 DEF ReceiveForceFlush, ReceiveTerminate, TimerFires
  <2>4. /\ terminating' \in BOOLEAN /\ emitted' = emitted
        /\ reported' = reported
    BY <1>2 DEF ReceiveForceFlush, ReceiveTerminate, TimerFires, WorkerTypeOK
  <2>5. QED
    BY <2>1, <2>3, <2>4, FlushType DEF WorkerTypeOK
<1>3. CASE PostEvent
  <2>1. [type |-> "TELEMETRY_EVENT", payload |-> emitted + 1] \in Messages
    BY <1>3 DEF PostEvent, Messages, Event, WorkerTypeOK
  <2>2. QED
    BY <1>3, <2>1 DEF PostEvent, Post, WorkerTypeOK
<1>4. ASSUME NEW type \in {"FORCE_FLUSH", "TERMINATE"}, PostCommand(type)
      PROVE  WorkerTypeOK'
  <2>1. [type |-> type] \in Messages
    BY DEF Messages
  <2>2. QED
    BY <1>4, <2>1 DEF PostCommand, Post, WorkerTypeOK
<1>5. ASSUME NEW r \in requests, NEW status \in Statuses,
             Answered(r, status) \/ GivesUp(r)
      PROVE  WorkerTypeOK'
  <2>1. r.batch \in Batches
    BY DEF WorkerTypeOK, Requests
  <2>2. QED
    BY <1>5, <2>1 DEF Answered, GivesUp, ExitWhen, WorkerTypeOK
<1>6. CASE WorkerDies
  BY <1>6 DEF WorkerDies, WorkerTypeOK
<1>7. CASE UNCHANGED workerVars
  BY <1>7 DEF workerVars, WorkerTypeOK
<1>8. 202 \in Statuses
  BY DEF Statuses
<1>9. QED
  BY <1>1, <1>2, <1>3, <1>4, <1>5, <1>6, <1>7, <1>8 DEF WorkerNext, Handles

LEMMA WorkerInitType == WorkerInit => WorkerTypeOK
<1> SUFFICES ASSUME WorkerInit PROVE WorkerTypeOK
  OBVIOUS
<1>1. emitted \in 0..MaxEvents
  BY WorkerAssumption DEF WorkerInit
<1>2. inbox \in Seq(Messages) /\ eventBuffer \in Seq(Event)
  BY DEF WorkerInit
<1>3. /\ requests \subseteq Requests /\ reported \subseteq Batches
      /\ worker \in {"up", "dead"} /\ flushTimer \in {"null", "armed", "spent"}
      /\ terminating \in BOOLEAN
  BY DEF WorkerInit
<1>4. QED
  BY <1>1, <1>2, <1>3 DEF WorkerTypeOK

(* The thread's state always has the types its declarations give it.         *)
THEOREM WorkerTypeCorrect == WorkerSpec => []WorkerTypeOK
BY WorkerInitType, WorkerTypeStep, PTL DEF WorkerSpec

-----------------------------------------------------------------------------
(* BufferedIsTimed needs no strengthening beyond TerminatingWaits: a spent   *)
(* handle can only be left behind by a flush of an empty buffer, and while   *)
(* the buffer is empty the handle is already null.                           *)
TimerInv == WorkerTypeOK /\ BufferedIsTimed /\ TerminatingWaits

LEMMA TimerInvStep == TimerInv /\ [WorkerNext]_workerVars => TimerInv'
<1> SUFFICES ASSUME TimerInv, [WorkerNext]_workerVars
             PROVE  BufferedIsTimed' /\ TerminatingWaits'
  BY WorkerTypeStep DEF TimerInv
<1> USE DEF TimerInv, BufferedIsTimed, TerminatingWaits
<1>1. CASE ReceiveEvent
  <2>1. worker = "up" /\ UNCHANGED <<worker, terminating, requests>>
    BY <1>1 DEF ReceiveEvent, Receive
  <2>2. CASE terminating
    BY <1>1, <2>1, <2>2 DEF ReceiveEvent
  <2>3. CASE ~terminating
    <3>1. eventBuffer' # <<>>
      BY <1>1, <2>3 DEF ReceiveEvent, WorkerTypeOK
    <3>2. flushTimer' = "armed"
      BY <1>1, <2>1, <2>3 DEF ReceiveEvent
    <3>3. QED
      BY <2>1, <2>3, <3>1, <3>2
  <2>4. QED
    BY <2>2, <2>3
<1>2. CASE ReceiveForceFlush \/ TimerFires
  <2>1. worker = "up" /\ UNCHANGED terminating
    BY <1>2 DEF ReceiveForceFlush, TimerFires, Receive
  <2>2. CASE eventBuffer # <<>>
    BY <1>2, <2>1, <2>2 DEF ReceiveForceFlush, TimerFires, FlushEvents, SendBatch
  <2>3. CASE eventBuffer = <<>>
    <3>1. UNCHANGED <<eventBuffer, requests, worker>>
      BY <1>2, <2>3 DEF ReceiveForceFlush, TimerFires, FlushEvents, ExitWhen
    <3>2. CASE terminating
      BY <2>1, <3>1, <3>2
    <3>3. CASE ~terminating
      <4>1. flushTimer = "null" /\ ~TimerFires
        BY <2>1, <2>3, <3>3 DEF TimerFires
      <4>2. flushTimer' = "null"
        BY <1>2, <2>3, <4>1 DEF ReceiveForceFlush, FlushEvents, ClearedHandle
      <4>3. QED
        BY <2>1, <2>3, <3>1, <3>3, <4>2
    <3>4. QED
      BY <3>2, <3>3
  <2>4. QED
    BY <2>2, <2>3
<1>3. CASE ReceiveTerminate
  <2>1. terminating' = TRUE
    BY <1>3 DEF ReceiveTerminate
  <2>2. CASE eventBuffer # <<>>
    <3>1. /\ eventBuffer' = <<>>
          /\ requests' = requests \cup {[batch |-> eventBuffer, last |-> TRUE]}
      BY <1>3, <2>2 DEF ReceiveTerminate, FlushEvents, SendBatch
    <3>2. \E r \in requests' : r.last
      <4> DEFINE lastRequest == [batch |-> eventBuffer, last |-> TRUE]
      <4>1. lastRequest \in requests' /\ lastRequest.last
        BY <3>1
      <4>2. QED
        BY <4>1
    <3>3. QED
      BY <2>1, <3>1, <3>2
  <2>3. CASE eventBuffer = <<>>
    BY <1>3, <2>1, <2>3 DEF ReceiveTerminate, FlushEvents, ExitWhen
  <2>4. QED
    BY <2>2, <2>3
<1>4. ASSUME NEW r \in requests, NEW status \in Statuses,
             Answered(r, status) \/ GivesUp(r)
      PROVE  BufferedIsTimed' /\ TerminatingWaits'
  <2>1. /\ UNCHANGED <<eventBuffer, flushTimer, terminating>>
        /\ requests' = requests \ {r}
        /\ worker = "up"
        /\ worker' = IF r.last THEN "dead" ELSE worker
    BY <1>4 DEF Answered, GivesUp, ExitWhen
  <2>2. CASE r.last
    BY <2>1, <2>2
  <2>3. CASE ~r.last
    BY <2>1, <2>3
  <2>4. QED
    BY <2>2, <2>3
<1>5. CASE PostEvent \/ (\E type \in {"FORCE_FLUSH", "TERMINATE"} : PostCommand(type))
  BY <1>5 DEF PostEvent, PostCommand, Post
<1>6. CASE WorkerDies
  BY <1>6 DEF WorkerDies
<1>7. CASE UNCHANGED workerVars
  BY <1>7 DEF workerVars
<1>8. 202 \in Statuses
  BY DEF Statuses
<1>9. QED
  BY <1>1, <1>2, <1>3, <1>4, <1>5, <1>6, <1>7, <1>8 DEF WorkerNext, Handles

LEMMA TimerInvHolds == WorkerSpec => []TimerInv
<1>1. WorkerInit => TimerInv
  BY WorkerInitType DEF WorkerInit, TimerInv, BufferedIsTimed, TerminatingWaits
<1>2. QED
  BY <1>1, TimerInvStep, PTL DEF WorkerSpec

(* Whenever an event is in the buffer of a worker that accepts events, an     *)
(* armed timer will flush it; and no spent handle is ever left in the way.    *)
THEOREM BufferedIsTimedHolds == WorkerSpec => []BufferedIsTimed
<1>1. TimerInv => BufferedIsTimed
  BY DEF TimerInv
<1>2. QED
  BY <1>1, TimerInvHolds, PTL

(* A terminating worker still waits for the request that will exit it.        *)
THEOREM TerminatingWaitsHolds == WorkerSpec => []TerminatingWaits
<1>1. TimerInv => TerminatingWaits
  BY DEF TimerInv
<1>2. QED
  BY <1>1, TimerInvHolds, PTL

-----------------------------------------------------------------------------
(* From the events posted to the requests. *)

Elems(seq) == {seq[i] : i \in 1..Len(seq)}
Distinct(seq) == \A i, j \in 1..Len(seq) : seq[i] = seq[j] => i = j

Posts(i) == inbox[i].type = "TELEMETRY_EVENT"

\* e was posted, and before every event that waits in the inbox.
Passed(e) ==
    /\ e <= emitted
    /\ \A i \in 1..Len(inbox) : Posts(i) => e < inbox[i].payload

\* The same, and before every event in the buffer: e has left the worker.
Gone(e) == Passed(e) /\ \A i \in 1..Len(eventBuffer) : e < eventBuffer[i]

InboxInOrder ==
    /\ \A i \in 1..Len(inbox) : Posts(i) => inbox[i].payload <= emitted
    /\ \A i, j \in 1..Len(inbox) :
         i < j /\ Posts(i) /\ Posts(j) => inbox[i].payload < inbox[j].payload

BufferInOrder ==
    /\ \A i \in 1..Len(eventBuffer) : Passed(eventBuffer[i])
    /\ \A i, j \in 1..Len(eventBuffer) : i < j => eventBuffer[i] < eventBuffer[j]

WorkerInOrder == InboxInOrder /\ BufferInOrder

(* Taking the first message from the inbox moves the others by one.          *)
LEMMA InboxTail ==
    ASSUME WorkerTypeOK, inbox # <<>>, inbox' = Tail(inbox), emitted' = emitted
    PROVE  /\ InboxInOrder => InboxInOrder'
           /\ \A e \in Event : Passed(e) => Passed(e)'
           /\ InboxInOrder /\ Posts(1) =>
                \A e \in Event : e = inbox[1].payload => Passed(e)'
<1>1. /\ Len(inbox) \in Nat \ {0} /\ Len(inbox') = Len(inbox) - 1
      /\ \A i \in 1..Len(inbox') : i + 1 \in 1..Len(inbox) /\ inbox'[i] = inbox[i + 1]
  BY DEF WorkerTypeOK
<1>2. \A i \in 1..Len(inbox') : Posts(i)' <=> Posts(i + 1)
  BY <1>1 DEF Posts
<1>3. InboxInOrder => InboxInOrder'
  <2> SUFFICES ASSUME InboxInOrder PROVE InboxInOrder'
    OBVIOUS
  <2>1. ASSUME NEW i \in 1..Len(inbox'), Posts(i)'
        PROVE  inbox'[i].payload <= emitted'
    BY <1>1, <1>2, <2>1 DEF InboxInOrder
  <2>2. ASSUME NEW i \in 1..Len(inbox'), NEW j \in 1..Len(inbox'),
               i < j, Posts(i)', Posts(j)'
        PROVE  inbox'[i].payload < inbox'[j].payload
    <3>1. i + 1 < j + 1 /\ i + 1 \in 1..Len(inbox) /\ j + 1 \in 1..Len(inbox)
      BY <1>1, <2>2
    <3>2. Posts(i + 1) /\ Posts(j + 1)
      BY <1>2, <2>2
    <3>3. QED
      BY <1>1, <3>1, <3>2 DEF InboxInOrder
  <2>3. QED
    BY <2>1, <2>2 DEF InboxInOrder
<1>4. ASSUME NEW e \in Event, Passed(e)
      PROVE  Passed(e)'
  BY <1>1, <1>2, <1>4 DEF Passed
<1>5. ASSUME InboxInOrder, Posts(1), NEW e \in Event, e = inbox[1].payload
      PROVE  Passed(e)'
  <2>1. 1 \in 1..Len(inbox) /\ e <= emitted
    BY <1>1, <1>5 DEF InboxInOrder
  <2>2. ASSUME NEW i \in 1..Len(inbox'), Posts(i)'
        PROVE  e < inbox'[i].payload
    <3>1. 1 < i + 1 /\ i + 1 \in 1..Len(inbox) /\ Posts(i + 1)
      BY <1>1, <1>2, <2>2
    <3>2. e < inbox[i + 1].payload
      BY <1>5, <2>1, <3>1 DEF InboxInOrder
    <3>3. QED
      BY <1>1, <3>2
  <2>3. QED
    BY <2>1, <2>2 DEF Passed
<1>6. QED
  BY <1>3, <1>4, <1>5

(* A message posted behind the others keeps their order, if it is the next    *)
(* event or a command.                                                        *)
LEMMA InboxAppend ==
    ASSUME WorkerTypeOK, InboxInOrder, NEW message \in Messages,
           inbox' = Append(inbox, message), emitted' \in Nat, emitted <= emitted',
           message.type = "TELEMETRY_EVENT" =>
               emitted < message.payload /\ message.payload <= emitted'
    PROVE  /\ InboxInOrder'
           /\ \A e \in Event : Passed(e) => Passed(e)'
<1> DEFINE n == Len(inbox)
<1>1. /\ n \in Nat /\ Len(inbox') = n + 1 /\ inbox'[n + 1] = message
      /\ \A i \in 1..n : inbox'[i] = inbox[i]
      /\ \A i \in 1..Len(inbox') : i \in 1..n \/ i = n + 1
  BY DEF WorkerTypeOK
<1>2. /\ \A i \in 1..n : Posts(i)' <=> Posts(i)
      /\ \A i \in 1..Len(inbox') :
           i = n + 1 => (Posts(i)' <=> message.type = "TELEMETRY_EVENT")
  BY <1>1 DEF Posts
<1>3. emitted \in Nat /\ \A i \in 1..n : Posts(i) => inbox[i].payload \in Nat
  BY DEF WorkerTypeOK, Messages, Event, Posts
<1>4. message.type = "TELEMETRY_EVENT" => message.payload \in Nat
  BY DEF Messages, Event
<1>5. ASSUME NEW i \in 1..Len(inbox'), Posts(i)'
      PROVE  inbox'[i].payload <= emitted'
  <2>1. CASE i \in 1..n
    <3>1. inbox[i].payload <= emitted
      BY <1>2, <1>5, <2>1 DEF InboxInOrder
    <3>2. QED
      BY <1>1, <1>2, <1>3, <1>5, <2>1, <3>1
  <2>2. CASE i = n + 1
    BY <1>1, <1>2, <1>5, <2>2
  <2>3. QED
    BY <1>1, <2>1, <2>2
<1>6. ASSUME NEW i \in 1..Len(inbox'), NEW j \in 1..Len(inbox'),
             i < j, Posts(i)', Posts(j)'
      PROVE  inbox'[i].payload < inbox'[j].payload
  <2>1. i \in 1..n
    BY <1>1, <1>6
  <2>2. CASE j \in 1..n
    BY <1>1, <1>2, <1>6, <2>1, <2>2 DEF InboxInOrder
  <2>3. CASE j = n + 1
    <3>1. inbox[i].payload <= emitted
      BY <1>2, <1>6, <2>1 DEF InboxInOrder
    <3>2. QED
      BY <1>1, <1>2, <1>3, <1>4, <1>6, <2>1, <2>3, <3>1
  <2>4. QED
    BY <1>1, <2>2, <2>3
<1>7. ASSUME NEW e \in Event, Passed(e)
      PROVE  Passed(e)'
  <2>1. e \in Nat /\ e <= emitted
    BY <1>7 DEF Passed, Event
  <2>2. ASSUME NEW i \in 1..Len(inbox'), Posts(i)'
        PROVE  e < inbox'[i].payload
    <3>1. CASE i \in 1..n
      BY <1>1, <1>2, <1>7, <2>2, <3>1 DEF Passed
    <3>2. CASE i = n + 1
      BY <1>1, <1>2, <1>3, <1>4, <2>1, <2>2, <3>2
    <3>3. QED
      BY <1>1, <3>1, <3>2
  <2>3. QED
    BY <1>3, <2>1, <2>2 DEF Passed
<1>8. QED
  BY <1>5, <1>6, <1>7 DEF InboxInOrder

(* Every step of the worker and of what is posted to it keeps the order.      *)
LEMMA InboxStep ==
    ASSUME WorkerTypeOK, InboxInOrder, [WorkerNext]_workerVars
    PROVE  /\ InboxInOrder'
           /\ \A e \in Event : Passed(e) => Passed(e)'
<1>1. CASE inbox # <<>> /\ inbox' = Tail(inbox) /\ emitted' = emitted
  BY <1>1, InboxTail
<1>2. CASE inbox' = inbox /\ emitted' = emitted
  BY <1>2 DEF InboxInOrder, Passed, Posts
<1>3. CASE PostEvent
  <2> DEFINE message == [type |-> "TELEMETRY_EVENT", payload |-> emitted + 1]
  <2>1. message \in Messages /\ emitted \in Nat
    BY <1>3, WorkerAssumption DEF PostEvent, Messages, Event, WorkerTypeOK
  <2>2. inbox' = Append(inbox, message) /\ emitted' = emitted + 1
    BY <1>3 DEF PostEvent, Post
  <2>3. message.payload = emitted + 1
    OBVIOUS
  <2> HIDE DEF message
  <2>4. QED
    BY <2>1, <2>2, <2>3, InboxAppend
<1>4. ASSUME NEW type \in {"FORCE_FLUSH", "TERMINATE"}, PostCommand(type)
      PROVE  InboxInOrder' /\ \A e \in Event : Passed(e) => Passed(e)'
  <2> DEFINE message == [type |-> type]
  <2>1. message \in Messages /\ message.type # "TELEMETRY_EVENT" /\ emitted \in Nat
    BY DEF Messages, WorkerTypeOK
  <2>2. inbox' = Append(inbox, message) /\ emitted' = emitted
    BY <1>4 DEF PostCommand, Post
  <2> HIDE DEF message
  <2>3. QED
    BY <2>1, <2>2, InboxAppend
<1>5. CASE Handles
  BY <1>1, <1>2, <1>5
  DEF Handles, ReceiveEvent, ReceiveForceFlush, ReceiveTerminate, TimerFires, Receive
<1>6. CASE \E r \in requests : GivesUp(r) \/ \E status \in Statuses : Answered(r, status)
  BY <1>2, <1>6 DEF GivesUp, Answered
<1>7. CASE WorkerDies \/ UNCHANGED workerVars
  BY <1>2, <1>7 DEF WorkerDies, workerVars
<1>8. QED
  BY <1>3, <1>4, <1>5, <1>6, <1>7 DEF WorkerNext

(* A step leaves the buffer, empties it, or moves one event into it.          *)
LEMMA BufferStep ==
    ASSUME WorkerTypeOK, [WorkerNext]_workerVars
    PROVE  \/ eventBuffer' = eventBuffer
           \/ eventBuffer' = <<>>
           \/ /\ inbox # <<>> /\ inbox' = Tail(inbox) /\ emitted' = emitted
              /\ Posts(1) /\ inbox[1].payload \in Event
              /\ eventBuffer' = Append(eventBuffer, inbox[1].payload)
<1>1. CASE ReceiveEvent
  <2>1. Head(inbox) = inbox[1] /\ Head(inbox).payload \in Event
    BY <1>1, ReceiveType DEF ReceiveEvent, Receive, WorkerTypeOK, Messages
  <2>2. QED
    BY <1>1, <2>1 DEF ReceiveEvent, Receive, Posts
<1>2. CASE ReceiveForceFlush \/ ReceiveTerminate \/ TimerFires
  BY <1>2
  DEF ReceiveForceFlush, ReceiveTerminate, TimerFires, FlushEvents, SendBatch
<1>3. CASE ~Handles
  BY <1>3 DEF WorkerNext, workerVars, PostEvent, PostCommand, Post, GivesUp,
              Answered, WorkerDies
<1>4. QED
  BY <1>1, <1>2, <1>3 DEF Handles

(* What has left the worker stays before everything it still has to handle.   *)
LEMMA WorkerOrderStep ==
    ASSUME WorkerTypeOK, WorkerInOrder, [WorkerNext]_workerVars
    PROVE  /\ WorkerInOrder'
           /\ \A e \in Event : Gone(e) => Gone(e)'
<1> DEFINE n == Len(eventBuffer)
<1>1. InboxInOrder' /\ \A e \in Event : Passed(e) => Passed(e)'
  BY InboxStep DEF WorkerInOrder
<1>2. n \in Nat /\ \A i \in 1..n : eventBuffer[i] \in Event /\ Passed(eventBuffer[i])
  BY DEF WorkerTypeOK, WorkerInOrder, BufferInOrder
<1>3. CASE eventBuffer' = eventBuffer
  <2>1. \A i \in 1..n : \A e \in Event : e = eventBuffer[i] => Passed(e)'
    BY <1>1, <1>2
  <2>2. BufferInOrder'
    BY <1>2, <1>3, <2>1 DEF WorkerInOrder, BufferInOrder, Passed
  <2>3. QED
    BY <1>1, <1>3, <2>2 DEF WorkerInOrder, Gone
<1>4. CASE eventBuffer' = <<>>
  <2>1. BufferInOrder'
    BY <1>4 DEF BufferInOrder
  <2>2. QED
    BY <1>1, <1>4, <2>1 DEF WorkerInOrder, Gone
<1>5. ASSUME inbox # <<>>, inbox' = Tail(inbox), emitted' = emitted, Posts(1),
             NEW next \in Event, next = inbox[1].payload,
             eventBuffer' = Append(eventBuffer, next)
      PROVE  WorkerInOrder' /\ \A e \in Event : Gone(e) => Gone(e)'
  <2>1. /\ Len(eventBuffer') = n + 1 /\ eventBuffer'[n + 1] = next
        /\ \A i \in 1..n : eventBuffer'[i] = eventBuffer[i]
        /\ \A i \in 1..Len(eventBuffer') : i \in 1..n \/ i = n + 1
    BY <1>2, <1>5 DEF WorkerTypeOK
  <2>2. \A e \in Event : Passed(e) => e < next
    BY <1>5 DEF Passed, WorkerTypeOK
  <2>3. \A e \in Event : e = next => Passed(e)'
    BY <1>5, InboxTail DEF WorkerInOrder
  <2>4. ASSUME NEW i \in 1..Len(eventBuffer'), NEW e \in Event, e = eventBuffer'[i]
        PROVE  Passed(e)'
    BY <1>1, <1>2, <2>1, <2>3, <2>4
  <2>5. ASSUME NEW i \in 1..Len(eventBuffer'), NEW j \in 1..Len(eventBuffer'), i < j
        PROVE  eventBuffer'[i] < eventBuffer'[j]
    <3>1. i \in 1..n
      BY <1>2, <2>1, <2>5
    <3>2. CASE j \in 1..n
      BY <2>1, <2>5, <3>1, <3>2 DEF WorkerInOrder, BufferInOrder
    <3>3. CASE j = n + 1
      BY <1>2, <2>1, <2>2, <3>1, <3>3
    <3>4. QED
      BY <2>1, <3>2, <3>3
  <2>6. \A i \in 1..Len(eventBuffer') : eventBuffer'[i] \in Event
    BY <1>2, <1>5, <2>1
  <2>7. BufferInOrder'
    BY <2>4, <2>5, <2>6 DEF BufferInOrder, Passed
  <2>8. ASSUME NEW e \in Event, Gone(e)
        PROVE  Gone(e)'
    <3>1. Passed(e) /\ Passed(e)' /\ \A i \in 1..n : e < eventBuffer[i]
      BY <1>1, <2>8 DEF Gone
    <3>2. \A i \in 1..Len(eventBuffer') : e < eventBuffer'[i]
      BY <2>1, <2>2, <3>1
    <3>3. QED
      BY <3>1, <3>2 DEF Gone
  <2>9. QED
    BY <1>1, <2>7, <2>8 DEF WorkerInOrder
<1>6. QED
  BY <1>3, <1>4, <1>5, BufferStep

-----------------------------------------------------------------------------
(* The network and the server. *)

NetworkTypeOK ==
    /\ wire \subseteq Seq(Event)
    /\ answers \subseteq [batch : Seq(Event), status : Statuses]
    /\ logged \in Seq(Event)
    /\ accepted \in Seq(Event)

\* Batches the worker reported, or will when their answer reaches it.
Failed == reported \cup {a.batch : a \in {x \in answers : x.status # 202}}

\* Events the server took.
Taken == Elems(logged) \cup Elems(accepted)

\* Events that have left the worker.
Away == Taken \cup UNION {Elems(batch) : batch \in wire \cup Failed}

\* No event is in two of the places it may have gone to.
NowhereTwice ==
    /\ \A batch \in wire : Distinct(batch) /\ Elems(batch) \cap Taken = {}
    /\ \A b1, b2 \in wire : b1 # b2 => Elems(b1) \cap Elems(b2) = {}
    /\ Distinct(logged)
    /\ \A b1 \in Failed :
         /\ Elems(b1) \cap Taken = {}
         /\ \A b2 \in wire : Elems(b1) \cap Elems(b2) = {}

DeliveryInv ==
    /\ WorkerTypeOK /\ NetworkTypeOK
    /\ WorkerInOrder
    /\ \A e \in Away : Gone(e)
    /\ NowhereTwice

LEMMA AwayType == WorkerTypeOK /\ NetworkTypeOK => Away \subseteq Event
<1> SUFFICES ASSUME WorkerTypeOK, NetworkTypeOK PROVE Away \subseteq Event
  OBVIOUS
<1>1. \A seq \in Seq(Event) : Elems(seq) \subseteq Event
  BY DEF Elems
<1>2. Failed \subseteq Seq(Event)
  BY DEF Failed, WorkerTypeOK, NetworkTypeOK, Batches
<1>3. QED
  BY <1>1, <1>2 DEF Away, Taken, NetworkTypeOK

(* Losing requests and answers, or forgetting what was accepted, puts no      *)
(* event anywhere.                                                            *)
LEMMA LosingKeeps ==
    ASSUME NowhereTwice, wire' \subseteq wire, Failed' \subseteq Failed,
           logged' = logged, accepted' = accepted \/ accepted' = <<>>
    PROVE  NowhereTwice' /\ Away' \subseteq Away
<1>1. Taken' \subseteq Taken
  BY DEF Taken, Elems
<1>2. NowhereTwice'
  BY <1>1 DEF NowhereTwice
<1>3. Away' \subseteq Away
  BY <1>1 DEF Away
<1>4. QED
  BY <1>2, <1>3

(* What the server appends to its log or to what it accepted.                 *)
LEMMA ConcatElems ==
    ASSUME NEW s \in Seq(Event), NEW t \in Seq(Event)
    PROVE  /\ s \o t \in Seq(Event)
           /\ Elems(s \o t) = Elems(s) \cup Elems(t)
           /\ Distinct(s) /\ Distinct(t) /\ Elems(s) \cap Elems(t) = {}
                => Distinct(s \o t)
<1> DEFINE m == Len(s)
           n == Len(t)
<1>1. /\ s \o t \in Seq(Event) /\ Len(s \o t) = m + n /\ m \in Nat /\ n \in Nat
      /\ \A i \in 1..m : i \in 1..(m + n) /\ (s \o t)[i] = s[i]
      /\ \A i \in 1..n : m + i \in 1..(m + n) /\ (s \o t)[m + i] = t[i]
      /\ \A i \in 1..(m + n) : i \in 1..m \/ (i - m \in 1..n /\ i = m + (i - m))
  OBVIOUS
<1>2. Elems(s \o t) = Elems(s) \cup Elems(t)
  <2>1. ASSUME NEW i \in 1..(m + n) PROVE (s \o t)[i] \in Elems(s) \cup Elems(t)
    BY <1>1 DEF Elems
  <2>2. ASSUME NEW i \in 1..m PROVE s[i] \in Elems(s \o t)
    BY <1>1 DEF Elems
  <2>3. ASSUME NEW i \in 1..n PROVE t[i] \in Elems(s \o t)
    BY <1>1 DEF Elems
  <2>4. QED
    BY <1>1, <2>1, <2>2, <2>3 DEF Elems
<1>3. ASSUME Distinct(s), Distinct(t), Elems(s) \cap Elems(t) = {},
             NEW i \in 1..(m + n), NEW j \in 1..(m + n), (s \o t)[i] = (s \o t)[j]
      PROVE  i = j
  <2>1. CASE i \in 1..m /\ j \in 1..m
    BY <1>1, <1>3, <2>1 DEF Distinct
  <2>2. CASE i - m \in 1..n /\ j - m \in 1..n
    <3>1. t[i - m] = t[j - m]
      BY <1>1, <1>3, <2>2
    <3>2. i - m = j - m
      BY <1>3, <2>2, <3>1 DEF Distinct
    <3>3. QED
      BY <1>1, <3>2
  <2>3. CASE i \in 1..m /\ j - m \in 1..n
    <3>1. s[i] \in Elems(s) /\ t[j - m] \in Elems(t)
      BY <2>3 DEF Elems
    <3>2. s[i] = t[j - m]
      BY <1>1, <1>3, <2>3
    <3>3. QED
      BY <1>3, <3>1, <3>2
  <2>4. CASE i - m \in 1..n /\ j \in 1..m
    <3>1. s[j] \in Elems(s) /\ t[i - m] \in Elems(t)
      BY <2>4 DEF Elems
    <3>2. s[j] = t[i - m]
      BY <1>1, <1>3, <2>4
    <3>3. QED
      BY <1>3, <3>1, <3>2
  <2>5. QED
    BY <1>1, <2>1, <2>2, <2>3, <2>4
<1>4. QED
  BY <1>1, <1>2, <1>3 DEF Distinct

(* A batch that the server took, or refused, moves off the wire.              *)
LEMMA ArrivalKeeps ==
    ASSUME NetworkTypeOK, NowhereTwice, NEW batch \in wire, RequestArrives(batch)
    PROVE  NetworkTypeOK' /\ NowhereTwice' /\ Away' \subseteq Away
<1>1. PICK status \in Answer(batch) :
        /\ HandlePost(batch, status)
        /\ answers' = answers \cup {[batch |-> batch, status |-> status]}
  BY DEF RequestArrives
<1>2. wire' = wire \ {batch} /\ reported' = reported
  BY DEF RequestArrives, workerVars
<1>3. batch \in Seq(Event) /\ status \in Statuses
  BY DEF NetworkTypeOK, Answer, StatusOf, Statuses
<1>4. [batch |-> batch, status |-> status] \in [batch : Seq(Event), status : Statuses]
  BY <1>3
<1>5. CASE status = 202
  <2>1. /\ accepted' = accepted \o batch
        /\ logged' = logged \/ logged' = logged \o batch
    BY <1>1, <1>5 DEF HandlePost, Accept, Persist
  <2>2. Failed' = Failed
    BY <1>1, <1>2, <1>5 DEF Failed
  <2>3. Distinct(batch) /\ Elems(batch) \cap Taken = {} /\ Distinct(logged)
    BY DEF NowhereTwice
  <2>4. Elems(logged) \cap Elems(batch) = {}
    BY <2>3 DEF Taken
  <2>5. NetworkTypeOK' /\ Distinct(logged')
    BY <1>1, <1>2, <1>3, <1>4, <2>1, <2>3, <2>4, ConcatElems, ZenonT(40) DEF NetworkTypeOK
  <2>6. Taken' \subseteq Taken \cup Elems(batch)
    BY <1>3, <2>1, ConcatElems, ZenonT(40) DEF NetworkTypeOK, Taken
  <2>7. \A b \in Failed \cup wire' : Elems(b) \cap Elems(batch) = {}
    BY <1>2 DEF NowhereTwice
  <2>8. NowhereTwice'
    BY <1>2, <2>2, <2>5, <2>6, <2>7 DEF NowhereTwice
  <2>9. Away' \subseteq Away
    BY <1>2, <2>2, <2>6 DEF Away
  <2>10. QED
    BY <2>5, <2>8, <2>9
<1>6. CASE status # 202
  <2>1. accepted' = accepted /\ logged' = logged
    BY <1>1, <1>6 DEF HandlePost, controlVars
  <2>2. Failed' = Failed \cup {batch}
    <3> DEFINE a == [batch |-> batch, status |-> status]
    <3>1. a.batch = batch /\ a.status # 202
      BY <1>6
    <3>2. answers' = answers \cup {a}
      BY <1>1
    <3> HIDE DEF a
    <3>3. {x \in answers' : x.status # 202} = {x \in answers : x.status # 202} \cup {a}
      BY <3>1, <3>2
    <3>4. QED
      BY <1>2, <3>1, <3>3 DEF Failed
  <2>3. Taken' = Taken
    BY <2>1 DEF Taken
  <2>4. NetworkTypeOK'
    BY <1>1, <1>2, <1>4, <2>1 DEF NetworkTypeOK
  <2>5. NowhereTwice'
    BY <1>2, <2>1, <2>2, <2>3 DEF NowhereTwice
  <2>6. Away' \subseteq Away
    BY <1>2, <2>2, <2>3 DEF Away
  <2>7. QED
    BY <2>4, <2>5, <2>6
<1>7. QED
  BY <1>5, <1>6

(* The buffer, sent: its events are in it once, and nowhere else.             *)
LEMMA SendingKeeps ==
    ASSUME DeliveryInv, wire \subseteq wire', wire' \subseteq wire \cup {eventBuffer},
           eventBuffer' = <<>>,
           Failed' = Failed, logged' = logged, accepted' = accepted,
           \A e \in Event : Passed(e) => Passed(e)'
    PROVE  /\ NowhereTwice'
           /\ \A e \in Away' : e \in Away \/ Gone(e)'
<1>1. Taken' = Taken /\ Away \subseteq Event
  BY AwayType DEF Taken, DeliveryInv
<1>2. \A i \in 1..Len(eventBuffer) : eventBuffer[i] \in Event
  BY DEF DeliveryInv, WorkerTypeOK
<1>3. Distinct(eventBuffer)
  <2>1. ASSUME NEW i \in 1..Len(eventBuffer), NEW j \in 1..Len(eventBuffer),
               eventBuffer[i] = eventBuffer[j]
        PROVE  i = j
    <3>1. eventBuffer[i] \in Nat /\ ~(i < j) /\ ~(j < i)
      BY <1>2, <2>1 DEF Event, DeliveryInv, WorkerInOrder, BufferInOrder
    <3>2. QED
      BY <3>1
  <2>2. QED
    BY <2>1 DEF Distinct
<1>4. Elems(eventBuffer) \cap Away = {}
  <2>1. ASSUME NEW i \in 1..Len(eventBuffer), eventBuffer[i] \in Away
        PROVE  FALSE
    <3>1. eventBuffer[i] < eventBuffer[i]
      BY <2>1 DEF DeliveryInv, Gone
    <3>2. QED
      BY <1>2, <3>1 DEF Event
  <2>2. QED
    BY <2>1 DEF Elems
<1>5. /\ Elems(eventBuffer) \cap Taken = {}
      /\ \A b \in wire \cup Failed : Elems(eventBuffer) \cap Elems(b) = {}
  BY <1>4 DEF Away
<1>6. NowhereTwice'
  <2>1. NowhereTwice
    BY DEF DeliveryInv
  <2>2. \A b \in wire' : Distinct(b) /\ Elems(b) \cap Taken = {}
    BY <1>3, <1>5, <2>1 DEF NowhereTwice
  <2>3. \A b1, b2 \in wire' : b1 # b2 => Elems(b1) \cap Elems(b2) = {}
    BY <1>5, <2>1 DEF NowhereTwice
  <2>4. \A b1 \in Failed : /\ Elems(b1) \cap Taken = {}
                           /\ \A b2 \in wire' : Elems(b1) \cap Elems(b2) = {}
    BY <1>5, <2>1 DEF NowhereTwice
  <2>5. QED
    BY <1>1, <2>1, <2>2, <2>3, <2>4 DEF NowhereTwice
<1>7. ASSUME NEW e \in Away', e \notin Away
      PROVE  Gone(e)'
  <2>1. e \in Elems(eventBuffer)
    BY <1>1, <1>7 DEF Away
  <2>2. e \in Event /\ Passed(e)
    BY <1>2, <2>1 DEF Elems, DeliveryInv, WorkerInOrder, BufferInOrder
  <2>3. QED
    BY <2>2 DEF Gone
<1>8. QED
  BY <1>6, <1>7

-----------------------------------------------------------------------------
(* The steps of the whole system. *)

(* Whatever happens, the worker makes a step of its own or none.              *)
LEMMA WorkerMoves ==
    ASSUME NetworkTypeOK, [TelemetryNext]_telemetryVars
    PROVE  [WorkerNext]_workerVars
<1>1. CASE Emit
  BY <1>1 DEF Emit, WorkerNext
<1>2. CASE Shutdown
  BY <1>2 DEF Shutdown, WorkerNext
<1>3. CASE ShutdownEnds \/ WorkerCrashes
  BY <1>3 DEF ShutdownEnds, WorkerCrashes, WorkerNext
<1>4. CASE WorkerRuns
  BY <1>4 DEF WorkerRuns, WorkerNext
<1>5. ASSUME NEW a \in answers, AnswerArrives(a)
      PROVE  [WorkerNext]_workerVars
  <2>1. a.status \in Statuses
    BY DEF NetworkTypeOK
  <2>2. QED
    BY <1>5, <2>1 DEF AnswerArrives, WorkerNext
<1>6. CASE \E r \in requests : RequestFails(r)
  BY <1>6 DEF RequestFails, WorkerNext
<1>7. CASE DegradeTelemetry \/ Arrivals \/ ServerRuns \/ UNCHANGED telemetryVars
  BY <1>7 DEF DegradeTelemetry, Arrivals, RequestArrives, ServerRuns, telemetryVars
<1>8. QED
  BY <1>1, <1>2, <1>3, <1>4, <1>5, <1>6, <1>7 DEF TelemetryNext, Answers

(* The worker's own steps report nothing, and send the whole buffer or        *)
(* nothing.                                                                   *)
LEMMA HandlesSends ==
    ASSUME WorkerTypeOK, Handles
    PROVE  /\ reported' = reported
           /\ \/ requests' = requests
              \/ /\ eventBuffer' = <<>>
                 /\ \E last \in BOOLEAN :
                      requests' = requests \cup {[batch |-> eventBuffer, last |-> last]}
<1>1. CASE ReceiveEvent
  BY <1>1 DEF ReceiveEvent
<1>2. CASE ReceiveForceFlush
  BY <1>2 DEF ReceiveForceFlush, FlushEvents, SendBatch
<1>3. CASE ReceiveTerminate
  BY <1>3 DEF ReceiveTerminate, FlushEvents, SendBatch
<1>4. CASE TimerFires
  BY <1>4 DEF TimerFires, FlushEvents, SendBatch
<1>5. QED
  BY <1>1, <1>2, <1>3, <1>4 DEF Handles

LEMMA DeliveryStep ==
    ASSUME DeliveryInv, [TelemetryNext]_telemetryVars
    PROVE  DeliveryInv'
<1> USE DEF DeliveryInv
<1>1. [WorkerNext]_workerVars
  BY WorkerMoves
<1>2. /\ WorkerTypeOK' /\ WorkerInOrder'
      /\ \A e \in Event : Passed(e) => Passed(e)'
      /\ \A e \in Event : Gone(e) => Gone(e)'
  <2>1. \A e \in Event : Passed(e) => Passed(e)'
    BY <1>1, InboxStep DEF WorkerInOrder
  <2>2. QED
    BY <1>1, <2>1, WorkerTypeStep, WorkerOrderStep
<1>3. Away \subseteq Event
  BY AwayType
<1>4. CASE /\ wire' \subseteq wire /\ answers' \subseteq answers /\ Failed' \subseteq Failed
           /\ logged' = logged /\ (accepted' = accepted \/ accepted' = <<>>)
  <2>1. NowhereTwice' /\ Away' \subseteq Away
    BY <1>4, LosingKeeps
  <2>2. accepted' \in Seq(Event)
    <3>1. <<>> \in Seq(Event) /\ accepted \in Seq(Event)
      BY DEF NetworkTypeOK
    <3>2. QED
      BY <1>4, <3>1
  <2>3. NetworkTypeOK'
    BY <1>4, <2>2 DEF NetworkTypeOK
  <2>4. QED
    BY <1>2, <1>3, <2>1, <2>3
<1>5. CASE WorkerRuns
  <2>1. /\ UNCHANGED <<answers, reported, logged, accepted>>
        /\ wire' = wire \cup {r.batch : r \in requests' \ requests}
    BY <1>5, HandlesSends DEF WorkerRuns, controlVars
  <2>2. Failed' = Failed
    BY <2>1 DEF Failed
  <2>3. CASE requests' = requests
    BY <1>4, <2>1, <2>2, <2>3
  <2>4. CASE /\ eventBuffer' = <<>>
             /\ \E last \in BOOLEAN :
                  requests' = requests \cup {[batch |-> eventBuffer, last |-> last]}
    <3>1. wire \subseteq wire' /\ wire' \subseteq wire \cup {eventBuffer}
      BY <2>1, <2>4
    <3>2. NowhereTwice' /\ \A e \in Away' : e \in Away \/ Gone(e)'
      BY <1>2, <2>1, <2>2, <2>4, <3>1, SendingKeeps
    <3>3. NetworkTypeOK'
      BY <2>1, <3>1 DEF NetworkTypeOK, WorkerTypeOK
    <3>4. \A e \in Away' : Gone(e)'
      BY <1>2, <1>3, <3>2
    <3>5. QED
      BY <1>2, <3>2, <3>3, <3>4
  <2>5. QED
    BY <1>5, <2>3, <2>4, HandlesSends DEF WorkerRuns
<1>6. ASSUME NEW batch \in wire, RequestArrives(batch)
      PROVE  DeliveryInv'
  <2>1. NetworkTypeOK' /\ NowhereTwice' /\ Away' \subseteq Away
    BY <1>6, ArrivalKeeps
  <2>2. QED
    BY <1>2, <1>3, <2>1
<1>7. ASSUME NEW a \in answers, AnswerArrives(a)
      PROVE  DeliveryInv'
  <2>1. /\ wire' = wire /\ answers' = answers \ {a}
        /\ logged' = logged /\ accepted' = accepted
    BY <1>7 DEF AnswerArrives, controlVars
  <2>2. reported' = reported \/ (a.status # 202 /\ reported' = reported \cup {a.batch})
    BY <1>7 DEF AnswerArrives, Answered, Refused
  <2>3. Failed' \subseteq Failed
    BY <2>1, <2>2 DEF Failed
  <2>4. QED
    BY <1>4, <2>1, <2>3
<1>8. ASSUME NEW r \in requests, RequestFails(r)
      PROVE  DeliveryInv'
  <2>1. /\ wire' \subseteq wire /\ UNCHANGED <<answers, reported, logged, accepted>>
    BY <1>8 DEF RequestFails, GivesUp, controlVars
  <2>2. QED
    BY <1>4, <2>1 DEF Failed
<1>9. CASE ServerRuns
  <2>1. /\ UNCHANGED <<wire, answers, reported, logged>>
        /\ accepted' = accepted \/ accepted' = <<>>
    BY <1>9 DEF ServerRuns, NetworkIdle, workerVars, Drain, Signalled, ServerEnds,
                ServerStarts
  <2>2. QED
    BY <1>4, <2>1 DEF Failed
<1>10. CASE \/ Emit \/ DegradeTelemetry \/ Shutdown \/ ShutdownEnds \/ WorkerCrashes
            \/ UNCHANGED telemetryVars
  <2>1. UNCHANGED <<wire, answers, reported, logged, accepted>>
    BY <1>10 DEF Emit, DegradeTelemetry, Shutdown, ShutdownEnds, WorkerCrashes, PostEvent,
                 PostCommand, Post, WorkerDies, NetworkIdle, controlVars, workerVars,
                 telemetryVars
  <2>2. QED
    BY <1>4, <2>1 DEF Failed
<1>11. QED
  BY <1>5, <1>6, <1>7, <1>8, <1>9, <1>10 DEF TelemetryNext, Arrivals, Answers

LEMMA DeliveryInit == TelemetryInit => DeliveryInv
<1> SUFFICES ASSUME TelemetryInit PROVE DeliveryInv
  OBVIOUS
<1>1. /\ inbox = <<>> /\ eventBuffer = <<>> /\ emitted = 0
      /\ wire = {} /\ answers = {} /\ reported = {} /\ logged = <<>> /\ accepted = <<>>
  BY DEF TelemetryInit, WorkerInit, ControlInit
<1>2. WorkerTypeOK
  BY WorkerInitType DEF TelemetryInit
<1>3. NetworkTypeOK
  BY <1>1 DEF NetworkTypeOK
<1>4. WorkerInOrder
  BY <1>1 DEF WorkerInOrder, InboxInOrder, BufferInOrder
<1>5. Taken = {} /\ Failed = {} /\ Away = {}
  BY <1>1 DEF Taken, Failed, Away, Elems
<1>6. NowhereTwice
  BY <1>1, <1>5 DEF NowhereTwice, Distinct
<1>7. QED
  BY <1>2, <1>3, <1>4, <1>5, <1>6 DEF DeliveryInv

LEMMA DeliveryInvHolds == TelemetrySpec => []DeliveryInv
<1>1. DeliveryInv /\ [TelemetryNext /\ UNCHANGED faults]_<<telemetryVars, faults>>
        => DeliveryInv'
  BY DeliveryStep DEF telemetryVars
<1>2. QED
  BY <1>1, DeliveryInit, PTL DEF TelemetrySpec

(* The audit log never holds an event twice, nor one that is still in the     *)
(* worker's hands or on its way: nothing is sent again.                       *)
THEOREM LoggedOnceHolds == TelemetrySpec => []LoggedOnce
<1>1. DeliveryInv => LoggedOnce
  <2> SUFFICES ASSUME DeliveryInv PROVE LoggedOnce
    OBVIOUS
  <2>1. \A i, j \in 1..Len(logged) : logged[i] = logged[j] => i = j
    BY DEF DeliveryInv, NowhereTwice, Distinct
  <2>2. ASSUME NEW i \in 1..Len(logged), NEW e \in Event, e = logged[i]
        PROVE  ~Unsent(e) /\ \A batch \in wire : ~Holds(batch, e)
    <3>1. e \in Taken
      BY <2>2 DEF Taken, Elems
    <3>2. Gone(e)
      BY <3>1 DEF DeliveryInv, Away
    <3>3. ~Buffered(e)
      BY <2>2, <3>2 DEF Gone, Buffered, Event
    <3>4. \A k \in 1..Len(inbox) :
            ~(inbox[k].type = "TELEMETRY_EVENT" /\ inbox[k].payload = e)
      BY <2>2, <3>2 DEF Gone, Passed, Posts, Event
    <3>5. \A batch \in wire : ~Holds(batch, e)
      BY <3>1 DEF DeliveryInv, NowhereTwice, Holds, Elems
    <3>6. QED
      BY <3>3, <3>4, <3>5 DEF Unsent
  <2>3. \A i \in 1..Len(logged) : logged[i] \in Event
    BY DEF DeliveryInv, NetworkTypeOK
  <2>4. QED
    BY <2>1, <2>2, <2>3 DEF LoggedOnce
<1>2. QED
  BY <1>1, DeliveryInvHolds, PTL

(* A batch that the agent reports as undelivered has no event that the        *)
(* control plane took.                                                        *)
THEOREM ReportedWasRefusedHolds == TelemetrySpec => []ReportedWasRefused
<1>1. DeliveryInv => ReportedWasRefused
  <2> SUFFICES ASSUME DeliveryInv, NEW batch \in reported, NEW i \in 1..Len(batch)
               PROVE  ~Holds(logged, batch[i]) /\ ~Holds(accepted, batch[i])
    BY DEF ReportedWasRefused
  <2>1. Elems(batch) \cap Taken = {}
    BY DEF DeliveryInv, NowhereTwice, Failed
  <2>2. batch[i] \in Elems(batch)
    BY DEF Elems
  <2>3. QED
    BY <2>1, <2>2 DEF Taken, Elems, Holds
<1>2. QED
  BY <1>1, DeliveryInvHolds, PTL

-----------------------------------------------------------------------------
(* The dashboard's window, element by element. *)

WindowInv ==
    /\ recent \in Seq(Event)
    /\ Len(recent) = Smaller(MaxRecent, Len(accepted))
    /\ \A i \in 1..Len(recent) : recent[i] = accepted[Len(accepted) - Len(recent) + i]

(* Appending a batch and trimming keeps the latest events in the window.      *)
LEMMA WindowAccepts ==
    ASSUME NEW batch \in Seq(Event), accepted \in Seq(Event), WindowInv,
           recent' = Window(batch), accepted' = accepted \o batch
    PROVE  WindowInv'
<1> DEFINE all == recent \o batch
           r == Len(recent)
           a == Len(accepted)
           b == Len(batch)
           M == MaxRecent
<1>1. r \in Nat /\ a \in Nat /\ b \in Nat /\ M \in Nat \ {0}
  BY ControlAssumption DEF WindowInv
<1>2. r <= M /\ r <= a /\ (r = M \/ r = a)
  BY <1>1 DEF WindowInv, Smaller
<1>3. /\ all \in Seq(Event) /\ Len(all) = r + b
      /\ \A i \in 1..(r + b) : all[i] = IF i <= r THEN recent[i] ELSE batch[i - r]
  BY ConcatProperties DEF WindowInv
<1>4. /\ Len(accepted') = a + b
      /\ \A i \in 1..(a + b) : accepted'[i] = IF i <= a THEN accepted[i] ELSE batch[i - a]
  BY ConcatProperties
<1>5. \A i \in 1..r : recent[i] = accepted[a - r + i]
  BY DEF WindowInv
<1>6. ASSUME NEW i \in 1..(r + b)
      PROVE  all[i] = accepted'[a - r + i]
  <2>1. a - r + i \in 1..(a + b)
    BY <1>1, <1>2, <1>6
  <2>2. CASE i <= r
    <3>1. all[i] = recent[i] /\ recent[i] = accepted[a - r + i]
      BY <1>1, <1>3, <1>5, <1>6, <2>2
    <3>2. a - r + i <= a
      BY <1>1, <1>6, <2>2
    <3>3. QED
      BY <1>4, <2>1, <3>1, <3>2
  <2>3. CASE ~(i <= r)
    <3>1. all[i] = batch[i - r]
      BY <1>3, <1>6, <2>3
    <3>2. ~(a - r + i <= a) /\ (a - r + i) - a = i - r
      BY <1>1, <1>6, <2>3
    <3>3. QED
      BY <1>4, <2>1, <3>1, <3>2
  <2>4. QED
    BY <2>2, <2>3
<1>7. CASE r + b <= M
  <2>1. recent' = all
    BY <1>1, <1>3, <1>7 DEF Window
  <2>2. r + b = Smaller(M, a + b) /\ (a + b) - (r + b) = a - r
    <3> HIDE DEF r, a, b, M
    <3>1. CASE r = a
      BY <1>1, <1>7, <3>1 DEF Smaller
    <3>2. CASE r = M
      BY <1>1, <1>2, <1>7, <3>2 DEF Smaller
    <3>3. QED
      BY <1>2, <3>1, <3>2
  <2>3. Len(recent') = Smaller(M, Len(accepted'))
    BY <1>3, <1>4, <2>1, <2>2
  <2>4. \A i \in 1..Len(recent') : recent'[i] = accepted'[Len(accepted') - Len(recent') + i]
    BY <1>3, <1>4, <1>6, <2>1, <2>2, ZenonT(40)
  <2>5. QED
    BY <1>3, <2>1, <2>3, <2>4 DEF WindowInv, Smaller
<1>8. CASE r + b > M
  <2>1. recent' = SubSeq(all, (r + b) - M + 1, r + b)
    BY <1>1, <1>3, <1>8 DEF Window
  <2> DEFINE m == (r + b) - M + 1
             n == r + b
  <2>2. m \in Int /\ n \in Int /\ m <= n /\ n - m + 1 = M /\ 1 <= m
    BY <1>1, <1>8
  <2>3. \A i \in m..n : all[i] \in Event
    BY <1>1, <1>3, <2>2
  <2>4. /\ recent' \in Seq(Event) /\ Len(recent') = M
        /\ \A i \in 1..M : recent'[i] = all[m + i - 1]
    <3> HIDE DEF m, n, all, M
    <3>1. /\ SubSeq(all, m, n) \in Seq(Event)
          /\ Len(SubSeq(all, m, n)) = IF m <= n THEN n - m + 1 ELSE 0
          /\ \A i \in 1..(n - m + 1) : SubSeq(all, m, n)[i] = all[m + i - 1]
      BY <2>2, <2>3, SubSeqProperties
    <3>2. recent' = SubSeq(all, m, n)
      BY <2>1 DEF m, n, M
    <3>3. QED
      BY <2>2, <3>1, <3>2
  <2>5. Smaller(M, a + b) = M
    BY <1>1, <1>2, <1>8 DEF Smaller
  <2>6. ASSUME NEW i \in 1..M
        PROVE  recent'[i] = accepted'[(a + b) - M + i]
    <3>1. m + i - 1 \in 1..(r + b) /\ a - r + (m + i - 1) = (a + b) - M + i
      BY <1>1, <2>2, <2>6
    <3>2. all[m + i - 1] = accepted'[a - r + (m + i - 1)]
      BY <1>6, <3>1
    <3>3. QED
      BY <2>4, <2>6, <3>1, <3>2
  <2>7. QED
    BY <1>4, <2>4, <2>5, <2>6 DEF WindowInv, Smaller
<1>9. QED
  BY <1>1, <1>7, <1>8

LEMMA WindowStep ==
    ASSUME NetworkTypeOK, WindowInv, [TelemetryNext]_telemetryVars
    PROVE  WindowInv'
<1>1. CASE recent' = recent /\ accepted' = accepted
  BY <1>1 DEF WindowInv, Smaller
<1>2. CASE recent' = <<>> /\ accepted' = <<>>
  <2>1. Smaller(MaxRecent, 0) = 0
    BY ControlAssumption DEF Smaller
  <2>2. <<>> \in Seq(Event) /\ Len(<<>>) = 0
    OBVIOUS
  <2>3. QED
    BY <1>2, <2>1, <2>2 DEF WindowInv, Smaller
<1>3. ASSUME NEW batch \in wire, RequestArrives(batch)
      PROVE  WindowInv'
  <2>1. PICK status \in Answer(batch) : HandlePost(batch, status)
    BY <1>3 DEF RequestArrives
  <2>2. CASE status = 202
    <3>1. recent' = Window(batch) /\ accepted' = accepted \o batch
      BY <2>1, <2>2 DEF HandlePost, Accept
    <3>2. batch \in Seq(Event) /\ accepted \in Seq(Event)
      BY DEF NetworkTypeOK
    <3>3. QED
      BY <3>1, <3>2, WindowAccepts
  <2>3. CASE status # 202
    BY <1>1, <2>1, <2>3 DEF HandlePost, controlVars
  <2>4. QED
    BY <2>2, <2>3
<1>4. CASE ServerRuns
  BY <1>1, <1>2, <1>4 DEF ServerRuns, Drain, Signalled, ServerEnds, ServerStarts
<1>5. CASE ~Arrivals /\ ~ServerRuns
  <2>1. UNCHANGED controlVars
    BY <1>5 DEF TelemetryNext, telemetryVars, Emit, DegradeTelemetry, Shutdown, ShutdownEnds,
                WorkerCrashes, WorkerRuns, Answers, AnswerArrives, RequestFails
  <2>2. QED
    BY <1>1, <2>1 DEF controlVars
<1>6. QED
  BY <1>3, <1>4, <1>5 DEF Arrivals

(* The dashboard shows the latest accepted events in their order, and forgets *)
(* none while there is room.                                                  *)
THEOREM WindowIsLatestHolds == TelemetrySpec => []WindowIsLatest
<1>1. TelemetryInit => WindowInv
  <2> SUFFICES ASSUME TelemetryInit PROVE WindowInv
    OBVIOUS
  <2>1. recent = <<>> /\ accepted = <<>>
    BY DEF TelemetryInit, ControlInit
  <2>2. Smaller(MaxRecent, 0) = 0
    BY ControlAssumption DEF Smaller
  <2>3. <<>> \in Seq(Event) /\ Len(<<>>) = 0
    OBVIOUS
  <2>4. QED
    BY <2>1, <2>2, <2>3 DEF WindowInv
<1>2. DeliveryInv /\ WindowInv /\ [TelemetryNext /\ UNCHANGED faults]_<<telemetryVars, faults>>
        => WindowInv'
  BY WindowStep DEF telemetryVars, DeliveryInv
<1>3. DeliveryInv /\ WindowInv => WindowIsLatest
  <2> SUFFICES ASSUME DeliveryInv, WindowInv PROVE WindowIsLatest
    OBVIOUS
  <2> DEFINE a == Len(accepted)
             r == Smaller(MaxRecent, a)
             m == a - r + 1
  <2>1. /\ a \in Nat /\ r \in Nat /\ r <= a /\ m \in Int /\ 1 <= m
        /\ a - m + 1 = r /\ (m <= a \/ r = 0)
    BY ControlAssumption DEF DeliveryInv, NetworkTypeOK, Smaller
  <2>2. \A i \in m..a : accepted[i] \in Event
    BY <2>1 DEF DeliveryInv, NetworkTypeOK
  <2>3. Len(recent) = r /\ \A i \in 1..r : recent[i] = accepted[m + i - 1]
    <3>1. Len(recent) = r
      BY DEF WindowInv
    <3>2. \A i \in 1..r : a - r + i = m + i - 1
      BY <2>1
    <3>3. QED
      BY <3>1, <3>2 DEF WindowInv
  <2> HIDE DEF m, a, r
  <2>4. /\ SubSeq(accepted, m, a) \in Seq(Event)
        /\ Len(SubSeq(accepted, m, a)) = IF m <= a THEN a - m + 1 ELSE 0
        /\ \A i \in 1..(a - m + 1) : SubSeq(accepted, m, a)[i] = accepted[m + i - 1]
    BY <2>1, <2>2, SubSeqProperties
  <2>5. Len(SubSeq(accepted, m, a)) = Len(recent)
    BY <2>1, <2>3, <2>4
  <2>6. \A i \in 1..Len(recent) : recent[i] = SubSeq(accepted, m, a)[i]
    BY <2>1, <2>3, <2>4
  <2>7. recent = SubSeq(accepted, m, a)
    BY <2>4, <2>5, <2>6, SeqEqual DEF WindowInv
  <2>8. QED
    BY <2>7 DEF WindowIsLatest, m, a, r
<1>4. QED
  BY <1>1, <1>2, <1>3, DeliveryInvHolds, PTL DEF TelemetrySpec
-----------------------------------------------------------------------------
(* The two budgets of the queue. *)

Sizes(batches) == [i \in 1..Len(batches) |-> Bytes(batches[i])]

LEMMA SizesType ==
    ASSUME NEW batches \in Seq(Seq(Event))
    PROVE  Len(batches) \in Nat /\ Sizes(batches) \in [1..Len(batches) -> Nat]
<1>1. Len(batches) \in Nat /\ \A i \in 1..Len(batches) : Bytes(batches[i]) \in Nat
  BY ElementOfSeq DEF Bytes
<1> QED BY <1>1 DEF Sizes

\* The recursive sum is the last of the sums of the sizes.
LEMMA SumBytesIs ==
    ASSUME NEW batches \in Seq(Seq(Event)), NEW s, SumOf(s, Sizes(batches), Len(batches))
    PROVE  SumBytes(batches) = s[Len(batches)]
<1> DEFINE n == Len(batches)
           Sums(f) == f = [i \in 0..n |-> IF i = 0 THEN 0 ELSE f[i - 1] + Bytes(batches[i])]
           sum == CHOOSE f : Sums(f)
<1>1. n \in Nat /\ Sizes(batches) \in [1..n -> Int]
  BY SizesType
<1>2. \A i \in 1..n : Sizes(batches)[i] = Bytes(batches[i])
  BY DEF Sizes
<1>3. Sums(s)
  <2> HIDE DEF n
  <2>1. s = [i \in 0..n |-> s[i]]
    BY DEF SumOf, n
  <2>2. \A i \in 0..n : s[i] = IF i = 0 THEN 0 ELSE s[i - 1] + Bytes(batches[i])
    BY <1>1, <1>2 DEF SumOf, n
  <2> QED BY <2>1, <2>2
<1>4. Sums(sum)
  BY <1>3, Zenon
<1>5. SumBytes(batches) = sum[n]
  BY Zenon DEF SumBytes
<1>6. sum = [i \in 0..n |-> IF i = 0 THEN 0 ELSE sum[i - 1] + Bytes(batches[i])]
  BY <1>4, Zenon
<1> HIDE DEF n, sum
<1>7. SumOf(sum, Sizes(batches), n)
  <2> DEFINE Typed == {m \in Nat : m <= n => sum[m] \in Int}
  <2>1. 0 \in Typed
    BY <1>1, <1>6
  <2>2. ASSUME NEW m \in Nat, m \in Typed PROVE m + 1 \in Typed
    <3> SUFFICES ASSUME m + 1 <= n PROVE sum[m + 1] \in Int
      OBVIOUS
    <3>1. m + 1 \in 1..n /\ (m + 1) - 1 = m /\ sum[m] \in Int /\ Bytes(batches[m + 1]) \in Int
      BY <1>1, <1>2, <2>2
    <3>2. m + 1 \in 0..n /\ m + 1 # 0
      BY <1>1
    <3>3. sum[m + 1] = sum[(m + 1) - 1] + Bytes(batches[m + 1])
      BY <1>6, <3>2
    <3> QED BY <3>1, <3>3
  <2> HIDE DEF Typed
  <2>3. \A m \in Nat : m \in Typed
    BY <2>1, <2>2, SetInduction
  <2>4. sum \in [0..n -> Int]
    <3>1. \A m \in 0..n : sum[m] \in Int
      BY <2>3 DEF Typed
    <3>2. sum = [m \in 0..n |-> sum[m]]
      BY <1>6
    <3> QED BY <3>1, <3>2
  <2> QED BY <1>1, <1>2, <1>6, <2>4 DEF SumOf
<1>8. sum = s
  BY <1>1, <1>7, SumUnique DEF n
<1> QED BY <1>5, <1>8 DEF n

LEMMA SumBytesEmpty == SumBytes(<<>>) = 0
<1>1. <<>> \in Seq(Seq(Event)) /\ Len(<<>>) = 0
  OBVIOUS
<1>2. SumOf([i \in 0..0 |-> 0], Sizes(<<>>), Len(<<>>))
  BY <1>1 DEF SumOf
<1>3. SumBytes(<<>>) = [i \in 0..0 |-> 0][Len(<<>>)]
  BY <1>1, <1>2, SumBytesIs
<1> QED BY <1>1, <1>3

LEMMA SumBytesType ==
    ASSUME NEW batches \in Seq(Seq(Event))
    PROVE  SumBytes(batches) \in Nat
<1> DEFINE n == Len(batches)
           w == Sizes(batches)
<1>1. n \in Nat /\ w \in [1..n -> Nat] /\ w \in [1..n -> Int]
  BY SizesType
<1> HIDE DEF n, w
<1>2. PICK s : SumOf(s, w, n)
  BY <1>1, SumExists
<1>3. s[0] <= s[n] /\ s[0] = 0 /\ s[n] \in Int
  <2>1. 0 \in 0..n /\ n \in 0..n /\ 0 <= n
    BY <1>1
  <2>2. \A i, j \in 0..n : i <= j => s[i] <= s[j]
    BY <1>1, <1>2, SumGrows
  <2> QED BY <1>2, <2>1, <2>2 DEF SumOf
<1>4. SumBytes(batches) = s[n]
  BY <1>2, SumBytesIs DEF n, w
<1> QED BY <1>3, <1>4

\* The requests that are drained take their bytes along.
LEMMA SumBytesSplit ==
    ASSUME NEW batches \in Seq(Seq(Event)), NEW k \in 0..Len(batches)
    PROVE  /\ SubSeq(batches, 1, k) \in Seq(Seq(Event)) /\ Len(SubSeq(batches, 1, k)) = k
           /\ SubSeq(batches, k + 1, Len(batches)) \in Seq(Seq(Event))
           /\ Len(SubSeq(batches, k + 1, Len(batches))) = Len(batches) - k
           /\ SumBytes(SubSeq(batches, k + 1, Len(batches)))
                = SumBytes(batches) - SumBytes(SubSeq(batches, 1, k))
<1> DEFINE n == Len(batches)
           w == Sizes(batches)
           head == SubSeq(batches, 1, k)
           rest == SubSeq(batches, k + 1, n)
<1>1. n \in Nat /\ k \in Nat /\ k <= n /\ \A i \in 1..n : batches[i] \in Seq(Event)
  BY ElementOfSeq
<1>2. w \in [1..n -> Int] /\ \A i \in 1..n : w[i] = Bytes(batches[i])
  BY SizesType DEF Sizes
<1> HIDE DEF n, w
<1>3. /\ head \in Seq(Seq(Event)) /\ Len(head) = k
      /\ \A i \in 1..k : head[i] = batches[i]
  <2>1. /\ head \in Seq(Seq(Event)) /\ Len(head) = IF 1 <= k THEN k - 1 + 1 ELSE 0
        /\ \A i \in 1..(k - 1 + 1) : head[i] = batches[1 + i - 1]
    BY <1>1, SubSeqProperties
  <2> HIDE DEF head
  <2> QED BY <1>1, <2>1
<1>4. /\ rest \in Seq(Seq(Event)) /\ Len(rest) = n - k
      /\ \A i \in 1..(n - k) : rest[i] = batches[k + i]
  <2>1. /\ rest \in Seq(Seq(Event)) /\ Len(rest) = IF k + 1 <= n THEN n - (k + 1) + 1 ELSE 0
        /\ \A i \in 1..(n - (k + 1) + 1) : rest[i] = batches[(k + 1) + i - 1]
    BY <1>1, SubSeqProperties
  <2>2. n - (k + 1) + 1 = n - k /\ \A i \in 1..(n - k) : (k + 1) + i - 1 = k + i
    BY <1>1
  <2> HIDE DEF rest
  <2> QED BY <1>1, <2>1, <2>2
<1> HIDE DEF head, rest
<1>5. PICK s : SumOf(s, w, n)
  BY <1>1, <1>2, SumExists
<1>6. Sizes(head) = [i \in 1..k |-> w[i]]
  <2>1. \A i \in 1..k : i \in 1..n
    BY <1>1
  <2> QED BY <1>2, <1>3, <2>1 DEF Sizes
<1>7. Sizes(rest) = [i \in 1..(n - k) |-> w[k + i]]
  <2>1. \A i \in 1..(n - k) : k + i \in 1..n
    BY <1>1
  <2> QED BY <1>2, <1>4, <2>1 DEF Sizes
<1>8. k \in 0..n
  BY <1>1
<1>9. /\ SumOf([i \in 0..k |-> s[i]], Sizes(head), k)
      /\ SumOf([i \in 0..(n - k) |-> s[k + i] - s[k]], Sizes(rest), n - k)
  BY <1>1, <1>2, <1>5, <1>6, <1>7, <1>8, SumSplits, ZenonT(40)
<1>10. SumBytes(head) = s[k]
  <2>1. SumBytes(head) = [i \in 0..k |-> s[i]][k]
    BY <1>3, <1>9, SumBytesIs
  <2> QED BY <1>1, <2>1
<1>11. SumBytes(rest) = s[n] - s[k]
  <2>1. SumBytes(rest) = [i \in 0..(n - k) |-> s[k + i] - s[k]][n - k]
    BY <1>4, <1>9, SumBytesIs
  <2>2. n - k \in 0..(n - k) /\ k + (n - k) = n
    BY <1>1
  <2> QED BY <2>1, <2>2
<1>12. SumBytes(batches) = s[n]
  BY <1>5, SumBytesIs DEF n, w
<1> QED BY <1>3, <1>4, <1>10, <1>11, <1>12 DEF n, head, rest

\* A request that is queued adds its bytes.
LEMMA SumBytesAppend ==
    ASSUME NEW batches \in Seq(Seq(Event)), NEW batch \in Seq(Event)
    PROVE  SumBytes(Append(batches, batch)) = SumBytes(batches) + Bytes(batch)
<1> DEFINE more == Append(batches, batch)
           n == Len(batches)
           w == Sizes(more)
<1>1. /\ more \in Seq(Seq(Event)) /\ Len(more) = n + 1 /\ more[n + 1] = batch
      /\ \A i \in 1..n : more[i] = batches[i]
  BY AppendProperties
<1>2. n \in Nat /\ Bytes(batch) \in Int
  BY DEF Bytes
<1> HIDE DEF more, n
<1>3. w \in [1..(n + 1) -> Int] /\ \A i \in 1..(n + 1) : w[i] = Bytes(more[i])
  BY <1>1, SizesType DEF Sizes
<1>4. Sizes(batches) = [i \in 1..n |-> w[i]]
  <2>1. \A i \in 1..n : i \in 1..(n + 1)
    BY <1>2
  <2>2. \A i \in 1..n : Bytes(batches[i]) = w[i]
    BY <1>1, <1>3, <2>1
  <2> HIDE DEF w
  <2> QED BY <2>2 DEF Sizes, n
<1> HIDE DEF w
<1>5. PICK s : SumOf(s, w, n + 1)
  BY <1>2, <1>3, SumExists
<1>6. n \in 0..(n + 1) /\ n + 1 \in Nat /\ n + 1 \in 1..(n + 1) /\ (n + 1) - 1 = n
  BY <1>2
<1>7. SumOf([i \in 0..n |-> s[i]], Sizes(batches), n)
  BY <1>3, <1>4, <1>5, <1>6, SumSplits
<1>8. SumBytes(batches) = s[n]
  <2>1. SumBytes(batches) = [i \in 0..n |-> s[i]][n]
    BY <1>7, SumBytesIs DEF n
  <2> QED BY <1>2, <2>1
<1>9. SumBytes(more) = s[n + 1]
  BY <1>1, <1>5, SumBytesIs DEF w
<1>10. s[n + 1] = s[n] + Bytes(batch)
  BY <1>1, <1>3, <1>5, <1>6 DEF SumOf
<1> QED BY <1>8, <1>9, <1>10 DEF more

LedgerInv == queue \in Seq(Seq(Event)) /\ QueueBounded

LEMMA LedgerStep ==
    ASSUME NetworkTypeOK, LedgerInv, [TelemetryNext]_telemetryVars
    PROVE  LedgerInv'
<1> USE ControlAssumption
<1>1. CASE UNCHANGED <<queue, queueBytes>>
  BY <1>1 DEF LedgerInv, QueueBounded
<1>2. CASE queue' = <<>> /\ queueBytes' = 0
  <2>1. <<>> \in Seq(Seq(Event)) /\ Len(<<>>) = 0
    OBVIOUS
  <2> QED BY <1>2, <2>1, SumBytesEmpty DEF LedgerInv, QueueBounded
<1>3. ASSUME NEW batch \in wire, RequestArrives(batch)
      PROVE  LedgerInv'
  <2>1. PICK status \in Answer(batch) : HandlePost(batch, status)
    BY <1>3 DEF RequestArrives
  <2>2. CASE status = 202
    <3>1. StatusOf(batch) = 202
      BY <2>2 DEF Answer
    <3>2. Len(queue) < MaxQueueSize /\ queueBytes + Bytes(batch) <= MaxQueueBytes
      <4>1. batch \in Seq(Event) /\ queue \in Seq(Seq(Event)) /\ queueBytes \in Nat
        BY SumBytesType DEF NetworkTypeOK, LedgerInv, QueueBounded
      <4> QED BY <3>1, <4>1 DEF StatusOf, QueueFull, Bytes
    <3>3. queue' = Append(queue, batch) /\ queueBytes' = queueBytes + Bytes(batch)
      BY <2>1, <2>2 DEF HandlePost, Accept
    <3>4. batch \in Seq(Event) /\ queue \in Seq(Seq(Event))
      BY DEF NetworkTypeOK, LedgerInv
    <3>5. SumBytes(queue') = queueBytes'
      BY <3>3, <3>4, SumBytesAppend DEF LedgerInv, QueueBounded
    <3>6. queue' \in Seq(Seq(Event)) /\ Len(queue') = Len(queue) + 1
      BY <3>3, <3>4, AppendProperties
    <3> QED BY <3>2, <3>3, <3>4, <3>5, <3>6 DEF LedgerInv, QueueBounded
  <2>3. CASE status # 202
    BY <1>1, <2>1, <2>3 DEF HandlePost, controlVars
  <2> QED BY <2>2, <2>3
<1>4. CASE Drain
  <2> DEFINE k == Smaller(DrainSize, Len(queue))
  <2>1. queue \in Seq(Seq(Event)) /\ k \in 0..Len(queue) /\ Len(queue) \in Nat
    BY DEF LedgerInv, Smaller
  <2>2. queue' = SubSeq(queue, Len(SubSeq(queue, 1, k)) + 1, Len(queue))
    BY <1>4 DEF Drain
  <2>3. queueBytes' = queueBytes - SumBytes(SubSeq(queue, 1, k))
    BY <1>4 DEF Drain
  <2> HIDE DEF k
  <2>4. /\ queue' \in Seq(Seq(Event)) /\ Len(queue') = Len(queue) - k
        /\ SumBytes(queue') = SumBytes(queue) - SumBytes(SubSeq(queue, 1, k))
        /\ SubSeq(queue, 1, k) \in Seq(Seq(Event))
    BY <2>1, <2>2, SumBytesSplit
  <2>5. SumBytes(queue) \in Nat /\ SumBytes(SubSeq(queue, 1, k)) \in Nat
    BY <2>1, <2>4, SumBytesType
  <2> QED BY <2>1, <2>3, <2>4, <2>5 DEF LedgerInv, QueueBounded
<1>5. CASE ServerRuns
  BY <1>1, <1>2, <1>4, <1>5 DEF ServerRuns, Signalled, ServerEnds, ServerStarts
<1>6. CASE ~Arrivals /\ ~ServerRuns
  <2>1. UNCHANGED controlVars
    BY <1>6 DEF TelemetryNext, telemetryVars, Emit, DegradeTelemetry, Shutdown, ShutdownEnds,
                WorkerCrashes, WorkerRuns, Answers, AnswerArrives, RequestFails
  <2> QED BY <1>1, <2>1 DEF controlVars
<1> QED BY <1>3, <1>5, <1>6 DEF Arrivals

\* Neither budget of the control plane's queue is exceeded, and its count of
\* bytes is that of the queued requests, for any limits and drain size.
THEOREM QueueBoundedHolds == TelemetrySpec => []QueueBounded
<1>1. TelemetryInit => LedgerInv
  <2> SUFFICES ASSUME TelemetryInit PROVE LedgerInv
    OBVIOUS
  <2>1. queue = <<>> /\ queueBytes = 0
    BY DEF TelemetryInit, ControlInit
  <2>2. <<>> \in Seq(Seq(Event)) /\ Len(<<>>) = 0
    OBVIOUS
  <2> QED BY <2>1, <2>2, SumBytesEmpty, ControlAssumption DEF LedgerInv, QueueBounded
<1>2. DeliveryInv /\ LedgerInv /\ [TelemetryNext /\ UNCHANGED faults]_<<telemetryVars, faults>>
        => LedgerInv'
  BY LedgerStep DEF telemetryVars, DeliveryInv
<1>3. LedgerInv => QueueBounded
  BY DEF LedgerInv
<1> QED BY <1>1, <1>2, <1>3, DeliveryInvHolds, PTL DEF TelemetrySpec
=============================================================================
