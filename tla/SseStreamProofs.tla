---------------------------- MODULE SseStreamProofs ----------------------------
(***************************************************************************)
(* A question as a stream, for every number of streams over one session    *)
(* and of status frames in a turn.                                         *)
(***************************************************************************)
EXTENDS SseStream, SequenceTheorems, TLAPS

(* What the generator takes from the queue it adds to the page.            *)
LEMMA Relayed ==
    ASSUME NEW p \in Seq(Frame), NEW q \in Seq(Frame), q # <<>>
    PROVE  /\ Append(p, Head(q)) \o Tail(q) = p \o q
           /\ Append(p, Head(q)) \in Seq(Frame) /\ Tail(q) \in Seq(Frame)
           /\ (p \o q)[Len(p) + 1] = Head(q) /\ Len(p) + 1 \in DOMAIN (p \o q)
           /\ Len(p) + 1 = Len(p \o q) => Tail(q) = <<>>
           /\ p \o q \in Seq(Frame)
OBVIOUS

(* What a worker puts comes last.                                          *)
LEMMA PutLast ==
    ASSUME NEW p \in Seq(Frame), NEW q \in Seq(Frame), NEW f \in Frame
    PROVE  /\ p \o Append(q, f) = Append(p \o q, f)
           /\ p \o q \in Seq(Frame) /\ Append(q, f) \in Seq(Frame)
OBVIOUS
-------------------------------------------------------------------------------
(* How many of its status events a stream's worker has put.                *)
Shown(s) == IF worker[s] = "putting" THEN Len(trail[s]) - 1 ELSE Len(trail[s])

(* The trail of a turn is its own, numbered as emitted.                    *)
TrailNumbered(s) ==
    \A i \in 1..Len(trail[s]) :
        trail[s][i].kind = "status" /\ trail[s][i].of = s /\ trail[s][i].at = i

(* What a stream carries: the trail as far as it is put, and once the      *)
(* worker is done one terminal frame more.                                 *)
Carried(s) ==
    /\ worker[s] = "putting" => trail[s] # <<>>
    /\ Len(Seen(s)) = IF worker[s] = "done" THEN Shown(s) + 1 ELSE Shown(s)
    /\ \A i \in 1..Shown(s) : Seen(s)[i] = trail[s][i]
    /\ worker[s] = "done" => Terminal(Last(Seen(s)))

(* Where each worker stands in its turn.                                   *)
Placed(s) ==
    /\ worker[s] \in {"none", "asking"} => trail[s] = <<>>
    /\ worker[s] \in {"running", "putting"} => events = s
    /\ worker[s] = "recording" => s \in kept
    /\ worker[s] \in {"releasing", "answered"}
          => s \in kept /\ s \in DOMAIN turn_log /\ turn_log[s] = trail[s]
    /\ worker[s] = "done" /\ Last(Seen(s)).kind = "result"
          => s \in kept /\ s \in DOMAIN turn_log /\ turn_log[s] = trail[s]
    /\ reader[s] = "ended" => frames[s] = <<>> /\ worker[s] = "done"
    /\ reader[s] \in {"none", "opened"} => worker[s] = "none"

SInv ==
    /\ TypeOK
    /\ \A s \in Streams : TrailNumbered(s) /\ Carried(s) /\ Placed(s)
-------------------------------------------------------------------------------
LEMMA SInvInitially == Init => SInv
<1>. SUFFICES ASSUME Init PROVE SInv
  OBVIOUS
<1>1. TypeOK
  BY StreamsAssumption DEF Init, TypeOK, InTurn
<1>2. ASSUME NEW s \in Streams PROVE TrailNumbered(s) /\ Carried(s) /\ Placed(s)
  BY DEF Init, TrailNumbered, Carried, Placed, Shown, Seen
<1>. QED  BY <1>1, <1>2 DEF SInv

(* Nodes write to the event log of the turn that runs, which is theirs.    *)
LEMMA EventsOwn ==
    ASSUME SInv, NEW s \in Streams, worker[s] \in {"running", "putting"}
    PROVE  events = s
BY DEF SInv, Placed

LEMMA TypeKept == SInv /\ [Next]_vars => TypeOK'
<1>. SUFFICES ASSUME SInv, [Next]_vars PROVE TypeOK'
  OBVIOUS
<1>1. TypeOK
  BY DEF SInv
<1>. USE <1>1, StreamsAssumption DEF session, Work
<1>2. ASSUME NEW s \in Streams, Open(s) \/ GeneratorStep(s) \/ Disconnect(s) PROVE TypeOK'
  <2>1. CASE Open(s) \/ Begin(s) \/ Disconnect(s)
    BY <2>1 DEF Open, Begin, Disconnect, TypeOK, InTurn
  <2>2. CASE Relay(s)
    <3>1. page'[s] \in Seq(Frame) /\ frames'[s] \in Seq(Frame)
      BY <2>2, Relayed DEF Relay, TypeOK
    <3>. QED  BY <2>2, <3>1 DEF Relay, TypeOK
  <2>. QED  BY <1>2, <2>1, <2>2 DEF GeneratorStep
<1>3. ASSUME NEW s \in Streams, WorkerStep(s) PROVE TypeOK'
  <2>. USE DEF TypeOK, InTurn
  <2>1. CASE Acquire(s) BY <2>1 DEF Acquire, LockFree
  <2>2. CASE Prepare(s) BY <2>2 DEF Prepare
  <2>3. CASE Emit(s)
    <3>. DEFINE f == [kind |-> "status", of |-> s, at |-> Len(trail[s]) + 1]
    <3>1. trail' = [trail EXCEPT ![s] = Append(trail[s], f)] /\ Len(trail[s]) < MaxStatus
      BY <2>3, EventsOwn DEF Emit
    <3>2. f \in Frame
      BY <3>1 DEF Frame
    <3>. HIDE DEF f
    <3>3. trail' \in [Streams -> Seq(Frame)]
      BY <3>1, <3>2
    <3>. QED  BY <2>3, <3>3 DEF Emit
  <2>4. CASE PutStatus(s)
    <3>. DEFINE f == Last(trail[s])
    <3>1. frames' = [frames EXCEPT ![s] = Append(frames[s], f)] /\ trail[s] # <<>>
      BY <2>4, EventsOwn DEF PutStatus, Put, SInv, Carried
    <3>2. f \in Frame
      BY <3>1 DEF Last
    <3>. HIDE DEF f
    <3>. QED  BY <2>4, <3>1, <3>2 DEF PutStatus
  <2>5. CASE GraphEnds(s) BY <2>5 DEF GraphEnds
  <2>6. CASE GraphRaises(s) BY <2>6 DEF GraphRaises
  <2>7. CASE Record(s)
    <3>1. s \in kept
      BY <2>7 DEF Record, SInv, Placed
    <3>. QED  BY <2>7, <3>1 DEF Record
  <2>8. CASE Release(s) BY <2>8 DEF Release
  <2>9. CASE PutResult(s)
    <3>. DEFINE f == [kind |-> "result", of |-> s, at |-> 0]
    <3>1. frames' = [frames EXCEPT ![s] = Append(frames[s], f)] /\ f \in Frame
      BY <2>9 DEF PutResult, Put, Frame
    <3>. HIDE DEF f
    <3>. QED  BY <2>9, <3>1 DEF PutResult, ResultAt, AfterResult
  <2>10. CASE PutError(s)
    <3>. DEFINE f == [kind |-> "error", of |-> s, at |-> 0]
    <3>1. frames' = [frames EXCEPT ![s] = Append(frames[s], f)] /\ f \in Frame
      BY <2>10 DEF PutError, Report, Put, Frame
    <3>. HIDE DEF f
    <3>. QED  BY <2>10, <3>1 DEF PutError
  <2>. QED  BY <1>3, <2>1, <2>2, <2>3, <2>4, <2>5, <2>6, <2>7, <2>8, <2>9, <2>10 DEF WorkerStep
<1>4. CASE UNCHANGED vars BY <1>4 DEF vars, TypeOK
<1>. QED  BY <1>2, <1>3, <1>4 DEF Next, Served

(* A stream no step touches keeps what it has, the log growing beside it.  *)
LEMMA Untouched ==
    ASSUME SInv, NEW r \in Streams,
           UNCHANGED <<reader[r], worker[r], frames[r], page[r], trail[r]>>,
           worker[r] \in {"running", "putting"} => events' = events,
           kept \subseteq kept',
           r \in DOMAIN turn_log => r \in DOMAIN turn_log' /\ turn_log'[r] = turn_log[r]
    PROVE  TrailNumbered(r)' /\ Carried(r)' /\ Placed(r)'
<1>1. TrailNumbered(r) /\ Carried(r) /\ Placed(r)
  BY DEF SInv
<1>2. Seen(r)' = Seen(r) /\ Shown(r)' = Shown(r)
  BY DEF Seen, Shown
<1>3. TrailNumbered(r)'
  BY <1>1 DEF TrailNumbered
<1>4. Carried(r)'
  BY <1>1, <1>2 DEF Carried, Terminal
<1>5. Placed(r)'
  BY <1>1, <1>2 DEF Placed
<1>. QED  BY <1>3, <1>4, <1>5

LEMMA OthersKept ==
    ASSUME SInv, NEW s \in Streams,
           Open(s) \/ GeneratorStep(s) \/ WorkerStep(s) \/ Disconnect(s)
    PROVE  \A r \in Streams \ {s} : TrailNumbered(r)' /\ Carried(r)' /\ Placed(r)'
<1>. SUFFICES ASSUME NEW r \in Streams \ {s}
              PROVE  TrailNumbered(r)' /\ Carried(r)' /\ Placed(r)'
  OBVIOUS
<1>1. TypeOK /\ worker[s] \in {"running", "putting"} => events = s
  BY EventsOwn
<1>. USE DEF SInv, TypeOK, session, Work, Put
<1>2. CASE Open(s) \/ GeneratorStep(s) \/ Disconnect(s)
  BY <1>2, Untouched DEF Open, GeneratorStep, Begin, Relay, Disconnect
<1>3. CASE WorkerStep(s)
  <2>1. CASE Acquire(s) \/ GraphEnds(s) \/ GraphRaises(s) \/ Release(s)
    BY <2>1, Untouched DEF Acquire, GraphEnds, GraphRaises, Release
  <2>2. CASE Prepare(s)
    <3>1. worker[r] \notin InTurn
      BY <2>2 DEF Prepare, InTurn
    <3>. QED  BY <2>2, <3>1, Untouched DEF Prepare, InTurn
  <2>3. CASE Emit(s)
    BY <1>1, <2>3, Untouched DEF Emit
  <2>4. CASE PutStatus(s)
    BY <1>1, <2>4, Untouched DEF PutStatus
  <2>5. CASE Record(s)
    BY <2>5, Untouched DEF Record
  <2>6. CASE PutResult(s) \/ PutError(s)
    BY <2>6, Untouched DEF PutResult, PutError, Report
  <2>. QED  BY <1>3, <2>1, <2>2, <2>3, <2>4, <2>5, <2>6 DEF WorkerStep
<1>. QED  BY <1>2, <1>3

(* A generator moves frames from the queue to the page, no more.           *)
LEMMA GeneratorKept ==
    ASSUME SInv, NEW s \in Streams, Open(s) \/ GeneratorStep(s) \/ Disconnect(s)
    PROVE  TrailNumbered(s)' /\ Carried(s)' /\ Placed(s)'
<1>1. TypeOK /\ TrailNumbered(s) /\ Carried(s) /\ Placed(s)
  BY DEF SInv
<1>2. /\ Seen(s)' = Seen(s) /\ trail' = trail
      /\ reader'[s] = "ended" =>
            \/ reader[s] = "ended"
            \/ Relay(s) /\ frames[s] # <<>> /\ Terminal(Head(frames[s]))
  <2>1. CASE Open(s) \/ Begin(s) \/ Disconnect(s)
    BY <1>1, <2>1 DEF Open, Begin, Disconnect, TypeOK, Seen, session
  <2>2. CASE Relay(s)
    <3>1. /\ page'[s] = Append(page[s], Head(frames[s])) /\ frames'[s] = Tail(frames[s])
          /\ page[s] \in Seq(Frame) /\ frames[s] \in Seq(Frame) /\ frames[s] # <<>>
      BY <1>1, <2>2 DEF Relay, TypeOK
    <3>. QED  BY <1>1, <2>2, <3>1, Relayed DEF Relay, TypeOK, Seen, session
  <2>. QED  BY <2>1, <2>2 DEF GeneratorStep
<1>3. \/ worker'[s] = worker[s]
      \/ worker[s] = "none" /\ worker'[s] = "asking" /\ reader'[s] = "waiting"
  <2>1. CASE Open(s) \/ Disconnect(s)
    <3>1. worker' = worker BY <2>1 DEF Open, Disconnect
    <3>. QED  BY <3>1
  <2>2. CASE Begin(s) BY <1>1, <2>2 DEF Begin, Work, TypeOK
  <2>3. CASE Relay(s)
    <3>1. worker' = worker BY <2>3 DEF Relay
    <3>. QED  BY <3>1
  <2>. QED  BY <2>1, <2>2, <2>3 DEF GeneratorStep
<1>4. UNCHANGED <<events, kept, turn_log, turn_lock>>
  BY DEF Open, GeneratorStep, Begin, Relay, Disconnect, session
<1>5. TrailNumbered(s)'
  BY <1>1, <1>2 DEF TrailNumbered
<1>6. Carried(s)'
  BY <1>1, <1>2, <1>3 DEF Carried, Shown, Terminal
<1>7. reader'[s] = "ended" => frames'[s] = <<>> /\ worker'[s] = "done"
  <2>1. CASE reader[s] = "ended"
    BY <1>1, <2>1 DEF Open, GeneratorStep, Begin, Relay, Disconnect, Placed
  <2>2. CASE Relay(s) /\ frames[s] # <<>> /\ Terminal(Head(frames[s]))
    <3>1. page[s] \in Seq(Frame) /\ frames[s] \in Seq(Frame)
      BY <1>1 DEF TypeOK
    <3>2. /\ Seen(s)[Len(page[s]) + 1] = Head(frames[s]) /\ Len(page[s]) + 1 \in DOMAIN Seen(s)
          /\ Len(page[s]) + 1 = Len(Seen(s)) => Tail(frames[s]) = <<>>
      BY <2>2, <3>1, Relayed DEF Seen
    <3>3. Seen(s) \in Seq(Frame) /\ Len(page[s]) + 1 \in 1..Len(Seen(s))
      <4>1. Seen(s) \in Seq(Frame)
        BY <2>2, <3>1, Relayed DEF Seen
      <4>. QED  BY <3>2, <4>1
    <3>4. Shown(s) < Len(page[s]) + 1
      <4>1. \A i \in 1..Shown(s) : ~Terminal(Seen(s)[i])
        <5>1. Shown(s) <= Len(trail[s]) /\ Shown(s) \in Int /\ Len(trail[s]) \in Nat
          BY <1>1 DEF Shown, TypeOK
        <5>. QED  BY <1>1, <5>1 DEF Carried, TrailNumbered, Terminal
      <4>2. Shown(s) \in Int
        BY <1>1 DEF Shown, TypeOK
      <4>. QED  BY <2>2, <3>2, <3>3, <4>1, <4>2
    <3>5. worker[s] = "done" /\ Len(page[s]) + 1 = Len(Seen(s))
      <4>1. Shown(s) \in Int /\ Len(page[s]) \in Nat
        BY <1>1, <3>1 DEF Shown, TypeOK
      <4>. QED  BY <1>1, <3>3, <3>4, <4>1 DEF Carried
    <3>. QED  BY <1>1, <2>2, <3>2, <3>5 DEF Relay, TypeOK
  <2>. QED  BY <1>2, <2>1, <2>2
<1>8. reader'[s] \in {"none", "opened"} => worker'[s] = "none"
  BY <1>1 DEF Open, GeneratorStep, Begin, Relay, Disconnect, Work, TypeOK, Placed
<1>9. Placed(s)'
  BY <1>1, <1>2, <1>3, <1>4, <1>7, <1>8 DEF Placed
<1>. QED  BY <1>5, <1>6, <1>9

(* A worker's step that puts no frame and emits nothing.                   *)
LEMMA WorkerQuiet ==
    ASSUME SInv, NEW s \in Streams,
           UNCHANGED <<reader, frames, page, trail>>,
           worker[s] \notin {"putting", "done"}, worker'[s] \notin {"none", "putting", "done"},
           worker[s] # "none",
           worker'[s] = "asking" => worker[s] = "asking",
           worker'[s] = "running" => events' = s,
           worker'[s] = "recording" => s \in kept',
           worker'[s] \in {"releasing", "answered"}
               => s \in kept' /\ s \in DOMAIN turn_log' /\ turn_log'[s] = trail[s]
    PROVE  TrailNumbered(s)' /\ Carried(s)' /\ Placed(s)'
<1>1. TypeOK /\ TrailNumbered(s) /\ Carried(s) /\ Placed(s)
  BY DEF SInv
<1>2. Seen(s)' = Seen(s) /\ Shown(s)' = Shown(s)
  BY DEF Seen, Shown
<1>3. TrailNumbered(s)'
  BY <1>1 DEF TrailNumbered
<1>4. Carried(s)'
  BY <1>1, <1>2 DEF Carried
<1>5. Placed(s)'
  BY <1>1, <1>2 DEF Placed
<1>. QED  BY <1>3, <1>4, <1>5

(* The terminal frame comes after the whole trail.                         *)
LEMMA WorkerFinishes ==
    ASSUME SInv, NEW s \in Streams, NEW f \in Frame, Terminal(f),
           UNCHANGED <<reader, page, session>>,
           frames' = [frames EXCEPT ![s] = Append(frames[s], f)],
           worker[s] \in {"answered", "raised"}, worker'[s] = "done",
           f.kind = "result" => worker[s] = "answered"
    PROVE  TrailNumbered(s)' /\ Carried(s)' /\ Placed(s)'
<1>1. TypeOK /\ TrailNumbered(s) /\ Carried(s) /\ Placed(s)
  BY DEF SInv
<1>2. Seen(s)' = Append(Seen(s), f) /\ Seen(s) \in Seq(Frame)
  <2>1. page[s] \in Seq(Frame) /\ frames[s] \in Seq(Frame) /\ frames'[s] = Append(frames[s], f)
    BY <1>1 DEF TypeOK
  <2>2. page[s] \o frames[s] \in Seq(Frame)
        /\ page[s] \o Append(frames[s], f) = Append(page[s] \o frames[s], f)
    BY <2>1, PutLast
  <2>. QED  BY <2>1, <2>2 DEF Seen
<1>3. trail' = trail /\ Shown(s) = Len(trail[s]) /\ Shown(s)' = Len(trail[s]) /\ Len(trail[s]) \in Nat
  BY <1>1 DEF Shown, session, TypeOK
<1>4. Last(Seen(s)')= f
  BY <1>2 DEF Last
<1>5. TrailNumbered(s)'
  BY <1>1, <1>3 DEF TrailNumbered
<1>6. Carried(s)'
  BY <1>1, <1>2, <1>3, <1>4 DEF Carried
<1>7. Placed(s)'
  BY <1>1, <1>3, <1>4 DEF Placed, session
<1>. QED  BY <1>5, <1>6, <1>7

LEMMA WorkerKept ==
    ASSUME SInv, NEW s \in Streams, WorkerStep(s)
    PROVE  TrailNumbered(s)' /\ Carried(s)' /\ Placed(s)'
<1>1. TypeOK /\ TrailNumbered(s) /\ Carried(s) /\ Placed(s)
  BY DEF SInv
<1>2. CASE Acquire(s) \/ Prepare(s) \/ GraphEnds(s) \/ GraphRaises(s) \/ Release(s)
  BY <1>1, <1>2, WorkerQuiet
     DEF Acquire, Prepare, GraphEnds, GraphRaises, Release, Work, TypeOK, Placed, session
<1>3. CASE Record(s)
  BY <1>1, <1>3, WorkerQuiet DEF Record, Work, TypeOK, Placed
<1>4. CASE Emit(s)
  <2>. DEFINE f == [kind |-> "status", of |-> s, at |-> Len(trail[s]) + 1]
  <2>1. /\ trail'[s] = Append(trail[s], f) /\ trail[s] \in Seq(Frame) /\ Len(trail[s]) < MaxStatus
        /\ UNCHANGED <<reader, frames, page, events, kept, turn_log>>
        /\ worker[s] = "running" /\ worker'[s] = "putting" /\ events = s
    BY <1>1, <1>4, EventsOwn DEF Emit, Work, TypeOK
  <2>2. f \in Frame /\ f.kind = "status" /\ f.of = s /\ f.at = Len(trail[s]) + 1
    BY <2>1, StreamsAssumption DEF Frame
  <2>. HIDE DEF f
  <2>3. /\ Len(trail'[s]) = Len(trail[s]) + 1
        /\ \A i \in 1..Len(trail[s]) : trail'[s][i] = trail[s][i]
        /\ trail'[s][Len(trail[s]) + 1] = f /\ trail'[s] # <<>> /\ Len(trail[s]) \in Nat
    BY <2>1, <2>2
  <2>4. TrailNumbered(s)'
    BY <1>1, <2>2, <2>3 DEF TrailNumbered
  <2>5. Seen(s)' = Seen(s) /\ Shown(s)' = Shown(s) /\ Shown(s) = Len(trail[s])
    BY <2>1, <2>3 DEF Seen, Shown
  <2>6. Carried(s)'
    BY <1>1, <2>1, <2>3, <2>5 DEF Carried
  <2>7. Placed(s)'
    BY <1>1, <2>1 DEF Placed
  <2>. QED  BY <2>4, <2>6, <2>7
<1>5. CASE PutStatus(s)
  <2>. DEFINE f == Last(trail[s])
  <2>1. /\ frames'[s] = Append(frames[s], f) /\ frames[s] \in Seq(Frame) /\ page[s] \in Seq(Frame)
        /\ UNCHANGED <<reader, page, trail, events, kept, turn_log>> /\ trail[s] \in Seq(Frame)
        /\ worker[s] = "putting" /\ worker'[s] = "running" /\ trail[s] # <<>> /\ events = s
    BY <1>1, <1>5, EventsOwn DEF PutStatus, Put, Work, TypeOK, Carried, session
  <2>2. f = trail[s][Len(trail[s])] /\ f \in Frame /\ Len(trail[s]) \in Nat \ {0}
    BY <2>1 DEF Last
  <2>. HIDE DEF f
  <2>3. Seen(s)' = Append(Seen(s), f) /\ Seen(s) \in Seq(Frame)
    <3>1. page[s] \o frames[s] \in Seq(Frame)
          /\ page[s] \o Append(frames[s], f) = Append(page[s] \o frames[s], f)
      BY <2>1, <2>2, PutLast
    <3>. QED  BY <2>1, <3>1 DEF Seen
  <2>4. Shown(s) = Len(trail[s]) - 1 /\ Shown(s)' = Len(trail[s])
    BY <2>1 DEF Shown
  <2>5. Carried(s)'
    <3>1. Len(Seen(s)) = Len(trail[s]) - 1 /\ \A i \in 1..(Len(trail[s]) - 1) : Seen(s)[i] = trail[s][i]
      BY <1>1, <2>1, <2>4 DEF Carried
    <3>2. Len(Seen(s)') = Len(trail[s]) /\ \A i \in 1..Len(trail[s]) : Seen(s)'[i] = trail[s][i]
      BY <2>2, <2>3, <3>1
    <3>. QED  BY <2>1, <2>4, <3>2 DEF Carried
  <2>6. TrailNumbered(s)'
    BY <1>1, <2>1 DEF TrailNumbered
  <2>7. Placed(s)'
    BY <1>1, <2>1 DEF Placed
  <2>. QED  BY <2>5, <2>6, <2>7
<1>6. CASE PutResult(s)
  <2>. DEFINE f == [kind |-> "result", of |-> s, at |-> 0]
  <2>1. f \in Frame /\ Terminal(f) /\ f.kind = "result"
    BY StreamsAssumption DEF Frame, Terminal
  <2>2. /\ frames' = [frames EXCEPT ![s] = Append(frames[s], f)]
        /\ UNCHANGED <<reader, page, session>> /\ worker[s] = "answered" /\ worker'[s] = "done"
    BY <1>1, <1>6 DEF PutResult, Put, Work, ResultAt, AfterResult, TypeOK
  <2>. HIDE DEF f
  <2>. QED  BY <2>1, <2>2, WorkerFinishes
<1>7. CASE PutError(s)
  <2>. DEFINE f == [kind |-> "error", of |-> s, at |-> 0]
  <2>1. f \in Frame /\ Terminal(f) /\ f.kind # "result"
    BY StreamsAssumption DEF Frame, Terminal
  <2>2. /\ frames' = [frames EXCEPT ![s] = Append(frames[s], f)]
        /\ UNCHANGED <<reader, page, session>> /\ worker[s] = "raised" /\ worker'[s] = "done"
    BY <1>1, <1>7 DEF PutError, Report, Put, Work, TypeOK
  <2>. HIDE DEF f
  <2>. QED  BY <2>1, <2>2, WorkerFinishes
<1>. QED  BY <1>2, <1>3, <1>4, <1>5, <1>6, <1>7 DEF WorkerStep

LEMMA SInvKept == SInv /\ [Next]_vars => SInv'
<1>. SUFFICES ASSUME SInv, [Next]_vars PROVE SInv'
  OBVIOUS
<1>1. TypeOK'
  BY TypeKept
<1>2. ASSUME NEW s \in Streams, Open(s) \/ GeneratorStep(s) \/ WorkerStep(s) \/ Disconnect(s)
      PROVE  \A r \in Streams : TrailNumbered(r)' /\ Carried(r)' /\ Placed(r)'
  BY <1>2, OthersKept, GeneratorKept, WorkerKept
<1>3. CASE UNCHANGED vars
  <2>1. \A r \in Streams : TrailNumbered(r)' /\ Carried(r)' /\ Placed(r)'
    BY <1>3, Untouched DEF vars, session
  <2>. QED  BY <1>1, <2>1 DEF SInv
<1>. QED  BY <1>1, <1>2, <1>3 DEF SInv, Next, Served

LEMMA SInvHolds == Spec => []SInv
BY SInvInitially, SInvKept, PTL DEF Spec
-------------------------------------------------------------------------------
(* At most one terminal frame, last, and a done worker has put it.         *)
LEMMA TerminalLast ==
    ASSUME SInv, NEW s \in Streams
    PROVE  /\ Len(trail[s]) \in Nat /\ Shown(s) \in Nat /\ Shown(s) <= Len(trail[s])
           /\ Seen(s) \in Seq(Frame) /\ DOMAIN Seen(s) = 1..Len(Seen(s))
           /\ Len(Seen(s)) = IF worker[s] = "done" THEN Shown(s) + 1 ELSE Shown(s)
           /\ \A i \in 1..Shown(s) : ~Terminal(Seen(s)[i]) /\ Seen(s)[i].kind = "status"
           /\ worker[s] = "done" => Terminal(Seen(s)[Shown(s) + 1]) /\ Shown(s) = Len(trail[s])
<1>1. TypeOK /\ TrailNumbered(s) /\ Carried(s)
  BY DEF SInv
<1>2. /\ trail[s] \in Seq(Frame) /\ page[s] \in Seq(Frame) /\ frames[s] \in Seq(Frame)
  BY <1>1 DEF TypeOK
<1>3. Seen(s) \in Seq(Frame) /\ DOMAIN Seen(s) = 1..Len(Seen(s))
  BY <1>2 DEF Seen
<1>4. Len(trail[s]) \in Nat /\ Shown(s) \in Nat /\ Shown(s) <= Len(trail[s])
  BY <1>1, <1>2 DEF Shown, Carried
<1>5. Len(Seen(s)) = IF worker[s] = "done" THEN Shown(s) + 1 ELSE Shown(s)
  BY <1>1 DEF Carried
<1>6. ASSUME NEW i \in 1..Shown(s)
      PROVE  ~Terminal(Seen(s)[i]) /\ Seen(s)[i].kind = "status"
  <2>1. i \in 1..Len(trail[s])
    BY <1>4
  <2>. QED  BY <1>1, <2>1 DEF Carried, TrailNumbered, Terminal
<1>7. worker[s] = "done" => Terminal(Seen(s)[Shown(s) + 1]) /\ Shown(s) = Len(trail[s])
  BY <1>1, <1>5 DEF Carried, Shown, Last
<1>. QED  BY <1>3, <1>4, <1>5, <1>6, <1>7

(* Each stream that ends, ends in one terminal frame with nothing after    *)
(* it, whatever the other streams do to the session meanwhile.             *)
THEOREM OneTerminalFrameHolds == Spec => []OneTerminalFrame
<1>1. SInv => OneTerminalFrame
  <2>. SUFFICES ASSUME SInv, NEW s \in Streams
                PROVE  /\ \A i \in 1..Len(Seen(s)) : Terminal(Seen(s)[i]) => i = Len(Seen(s))
                       /\ worker[s] = "done" => Seen(s) # <<>> /\ Terminal(Last(Seen(s)))
                       /\ reader[s] = "ended" => frames[s] = <<>> /\ worker[s] = "done"
    BY DEF OneTerminalFrame
  <2>1. \A i \in 1..Len(Seen(s)) : Terminal(Seen(s)[i]) => i = Len(Seen(s))
    BY TerminalLast
  <2>2. worker[s] = "done" => Seen(s) # <<>> /\ Terminal(Last(Seen(s)))
    BY TerminalLast DEF SInv, Carried
  <2>3. reader[s] = "ended" => frames[s] = <<>> /\ worker[s] = "done"
    BY DEF SInv, Placed
  <2>. QED  BY <2>1, <2>2, <2>3
<1>. QED  BY <1>1, SInvHolds, PTL

(* No trail is cross-wired: the status frames of a stream are its turn's   *)
(* events, in order, however many streams share deps.events.               *)
THEOREM TrailsOwnHolds == Spec => []TrailsOwn
<1>1. SInv => TrailsOwn
  <2>. SUFFICES ASSUME SInv, NEW s \in Streams
                PROVE  /\ {i \in DOMAIN Seen(s) : Seen(s)[i].kind = "status"} = 1..Shown(s)
                       /\ \A i \in 1..Shown(s) :
                             Seen(s)[i] = trail[s][i] /\ Seen(s)[i].of = s /\ Seen(s)[i].at = i
    BY DEF TrailsOwn, Shown
  <2>1. {i \in DOMAIN Seen(s) : Seen(s)[i].kind = "status"} = 1..Shown(s)
    BY TerminalLast DEF Terminal
  <2>2. \A i \in 1..Shown(s) :
            Seen(s)[i] = trail[s][i] /\ Seen(s)[i].of = s /\ Seen(s)[i].at = i
    BY TerminalLast DEF SInv, Carried, TrailNumbered
  <2>. QED  BY <2>1, <2>2
<1>. QED  BY <1>1, SInvHolds, PTL

(* A result is read only once its turn is saved and the session free, for  *)
(* every number of streams and of frames.                                  *)
THEOREM ResultMeansDoneHolds == Spec => []ResultMeansDone
<1>1. SInv => ResultMeansDone
  <2>. SUFFICES ASSUME SInv, NEW s \in Streams, NEW i \in 1..Len(Seen(s)), Terminal(Seen(s)[i])
                PROVE  /\ turn_lock # s
                       /\ Seen(s)[i].kind = "result" =>
                             s \in kept /\ s \in DOMAIN turn_log
                             /\ turn_log[s] = SubSeq(Seen(s), 1, i - 1)
    BY DEF ResultMeansDone, Terminal
  <2>1. worker[s] = "done" /\ i = Len(Seen(s)) /\ i = Len(trail[s]) + 1
    BY TerminalLast
  <2>2. turn_lock # s
    BY <2>1 DEF SInv, TypeOK, InTurn
  <2>3. SubSeq(Seen(s), 1, i - 1) = trail[s]
    <3>1. /\ trail[s] \in Seq(Frame) /\ Seen(s) \in Seq(Frame)
          /\ \A k \in 1..Len(trail[s]) : Seen(s)[k] = trail[s][k]
      BY <2>1, TerminalLast DEF SInv, TypeOK, Carried, Shown
    <3>. QED  BY <2>1, <3>1
  <2>4. Seen(s)[i].kind = "result" => s \in kept /\ s \in DOMAIN turn_log /\ turn_log[s] = trail[s]
    BY <2>1 DEF SInv, Placed, Last
  <2>. QED  BY <2>2, <2>3, <2>4
<1>. QED  BY <1>1, SInvHolds, PTL

(* Type correctness: the worker inside ask is the one that holds the       *)
(* session, and only a turn the graph finished has a row.                  *)
THEOREM TypeCorrect == Spec => []TypeOK
<1>1. SInv => TypeOK
  BY DEF SInv
<1>. QED  BY <1>1, SInvHolds, PTL
===============================================================================
