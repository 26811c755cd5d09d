------------------------------ MODULE SseStream -------------------------------
(***************************************************************************)
(* One question as a stream of server-sent events: the route's generator   *)
(* starts a worker, the worker runs session.ask, whose listener puts every *)
(* status event in a queue, and the generator drains the queue to the      *)
(* page.  Several streams share one session: its turn lock, and the        *)
(* deps.events through which the graph's nodes find the listener.          *)
(*                                                                         *)
(* A keepalive says only that the queue was empty; it is left out, so a    *)
(* generator that would send nothing else is one that waits.               *)
(***************************************************************************)
EXTENDS Naturals, Sequences, SequencesExt

CONSTANTS
    Streams,
    MaxStatus       \* bound: status events of a turn

Nobody == "nobody"

ASSUME StreamsAssumption == MaxStatus \in Nat /\ Nobody \notin Streams

VARIABLES
    reader,         \* the generator of each stream
    worker,         \* the thread it starts
    frames,         \* the queue between them: of [kind, of, at]
    page,           \* what the generator has yielded
    turn_lock,      \* AskSession._turn_lock
    events,         \* deps.events: whose EventLog the graph's nodes write
    trail,          \* EventLog.events of each stream's turn
    kept,           \* streams whose turn the graph's last checkpoint holds
    turn_log        \* stream -> the trail its turn_log row holds, once there

session == <<turn_lock, events, trail, kept, turn_log>>
vars == <<reader, worker, frames, page, session>>

Frame == [kind : {"status", "result", "error"}, of : Streams, at : 0..MaxStatus]
Terminal(f) == f.kind # "status"
Seen(s) == page[s] \o frames[s]

Init ==
    /\ reader = [s \in Streams |-> "none"] /\ worker = [s \in Streams |-> "none"]
    /\ frames = [s \in Streams |-> <<>>] /\ page = [s \in Streams |-> <<>>]
    /\ turn_lock = Nobody /\ events = Nobody
    /\ trail = [s \in Streams |-> <<>>]
    /\ kept = {} /\ turn_log = [s \in {} |-> <<>>]

Work(s, from, to) == worker[s] = from /\ worker' = [worker EXCEPT ![s] = to]
Put(s, f) == frames' = [frames EXCEPT ![s] = Append(@, f)]
-------------------------------------------------------------------------------
(* POST /api/ask: 409 when busy; else a generator that has not begun.      *)
Open(s) ==
    /\ reader[s] = "none"
    /\ turn_lock = Nobody
    /\ reader' = [reader EXCEPT ![s] = "opened"]
    /\ UNCHANGED <<worker, frames, page, session>>

(* The server asks it for its first frame: the worker starts.              *)
Begin(s) ==
    /\ reader[s] = "opened"
    /\ reader' = [reader EXCEPT ![s] = "waiting"]
    /\ Work(s, "none", "asking")
    /\ UNCHANGED <<frames, page, session>>

(* The next frame goes to the page; a terminal one ends the generator.     *)
Relay(s) ==
    /\ reader[s] = "waiting" /\ frames[s] # <<>>
    /\ page' = [page EXCEPT ![s] = Append(@, Head(frames[s]))]
    /\ frames' = [frames EXCEPT ![s] = Tail(@)]
    /\ reader' = [reader EXCEPT ![s] = IF Terminal(Head(frames[s])) THEN "ended" ELSE @]
    /\ UNCHANGED <<worker, session>>

(* The page goes away: GeneratorExit, and nothing tells the worker.        *)
Disconnect(s) ==
    /\ reader[s] \in {"opened", "waiting"}
    /\ reader' = [reader EXCEPT ![s] = "gone"]
    /\ UNCHANGED <<worker, frames, page, session>>
-------------------------------------------------------------------------------
(* A slip: the worker trusts the route's busy check.                       *)
LockFreeUnchecked == TRUE

LockFree == turn_lock = Nobody

(* ask takes the lock without waiting; TurnInProgressError otherwise.      *)
Acquire(s) ==
    /\ IF LockFree THEN Work(s, "asking", "turning") /\ turn_lock' = s
                   ELSE Work(s, "asking", "raised") /\ UNCHANGED turn_lock
    /\ UNCHANGED <<reader, frames, page, events, trail, kept, turn_log>>

(* The conversation is found or opened, and deps.events is this turn's;    *)
(* or it is not found.                                                     *)
Prepare(s) ==
    /\ \/ Work(s, "turning", "running") /\ events' = s
       \/ Work(s, "turning", "raising") /\ UNCHANGED events
    /\ UNCHANGED <<reader, frames, page, turn_lock, trail, kept, turn_log>>

(* A node emits: into the EventLog of deps.events ...                      *)
Emit(s) ==
    /\ Work(s, "running", "putting")
    /\ Len(trail[events]) < MaxStatus
    /\ trail' = [trail EXCEPT ![events] =
          Append(@, [kind |-> "status", of |-> s, at |-> Len(@) + 1])]
    /\ UNCHANGED <<reader, frames, page, turn_lock, events, kept, turn_log>>

(* A slip: a queue of one frame, whose put waits for room.                 *)
RoomForOne(s) == Len(frames[s]) < 1

Room(s) == TRUE     \* queue.Queue(): put never waits

(* ... and then to its listener, the stream's queue.                       *)
PutStatus(s) ==
    /\ Work(s, "putting", "running")
    /\ Room(events)
    /\ Put(events, Last(trail[events]))
    /\ UNCHANGED <<reader, page, session>>

(* The graph ends, its last checkpoint written; or a node raises.          *)
GraphEnds(s) ==
    /\ Work(s, "running", "recording")
    /\ kept' = kept \cup {s}
    /\ UNCHANGED <<reader, frames, page, turn_lock, events, trail, turn_log>>

GraphRaises(s) ==
    /\ Work(s, "running", "raising")
    /\ UNCHANGED <<reader, frames, page, session>>

(* The turn_log row, with the trail as it stands; or the write fails.      *)
Record(s) ==
    /\ \/ /\ Work(s, "recording", "releasing")
          /\ turn_log' = [r \in DOMAIN turn_log \cup {s} |->
                             IF r = s THEN trail[s] ELSE turn_log[r]]
       \/ Work(s, "recording", "raising") /\ UNCHANGED turn_log
    /\ UNCHANGED <<reader, frames, page, turn_lock, events, trail, kept>>

(* ask's finally, on both ways out.                                        *)
Release(s) ==
    /\ turn_lock' = Nobody
    /\ \/ Work(s, "releasing", "answered")
       \/ Work(s, "raising", "raised")
    /\ UNCHANGED <<reader, frames, page, events, trail, kept, turn_log>>

(* Where work() puts its terminal frame.                                   *)
(* A slip: the result goes out as soon as the turn is recorded.            *)
ResultBeforeRelease == "releasing"

ResultAt == "answered"

(* A slip: except without else, the error in a finally.                    *)
DoneWithErrorToo == "raised"

AfterResult == "done"

PutResult(s) ==
    /\ Work(s, ResultAt, AfterResult)
    /\ Put(s, [kind |-> "result", of |-> s, at |-> 0])
    /\ UNCHANGED <<reader, page, session>>

(* A slip: the worker dies silently.                                       *)
ReportNothing(s) == UNCHANGED frames

Report(s) == Put(s, [kind |-> "error", of |-> s, at |-> 0])

PutError(s) ==
    /\ Work(s, "raised", "done")
    /\ Report(s)
    /\ UNCHANGED <<reader, page, session>>

WorkerStep(s) ==
    \/ Acquire(s) \/ Prepare(s) \/ Emit(s) \/ PutStatus(s) \/ GraphEnds(s) 
    \/ GraphRaises(s) \/ Record(s) \/ Release(s) \/ PutResult(s) \/ PutError(s)

GeneratorStep(s) == Begin(s) \/ Relay(s)

Served ==
    /\ \A s \in Streams : reader[s] \in {"none", "ended", "gone"} /\ worker[s] \in {"none", "done"}
    /\ UNCHANGED vars

Next ==
    \/ \E s \in Streams : Open(s) \/ GeneratorStep(s) \/ WorkerStep(s) \/ Disconnect(s)
    \/ Served

Spec == Init /\ [][Next]_vars

(* Threads that can run do: the worker (a turn's model and tool calls all  *)
(* return or raise), and the generator the server keeps asking.            *)
FairSpec == Spec /\ \A s \in Streams : WF_vars(WorkerStep(s)) /\ WF_vars(GeneratorStep(s))
-------------------------------------------------------------------------------
InTurn == {"turning", "running", "putting", "recording", "releasing", "raising"}

(* Every variable has its type, and the one worker inside ask holds the    *)
(* session.                                                                *)
TypeOK ==
    /\ reader \in [Streams -> {"none", "opened", "waiting", "ended", "gone"}]
    /\ worker \in [Streams -> InTurn \cup {"none", "asking", "answered", "raised", "done"}]
    /\ frames \in [Streams -> Seq(Frame)] /\ page \in [Streams -> Seq(Frame)]
    /\ turn_lock \in Streams \cup {Nobody} /\ events \in Streams \cup {Nobody}
    /\ trail \in [Streams -> Seq(Frame)]
    /\ kept \subseteq Streams /\ DOMAIN turn_log \subseteq kept
    /\ \A s \in Streams : worker[s] \in InTurn <=> turn_lock = s

(* Exactly one terminal frame, and nothing after it (sse.py's contract):   *)
(* whatever a stream carries up to its worker's end ends in the one.       *)
OneTerminalFrame ==
    \A s \in Streams :
        /\ \A i \in 1..Len(Seen(s)) : Terminal(Seen(s)[i]) => i = Len(Seen(s))
        /\ worker[s] = "done" => Seen(s) # <<>> /\ Terminal(Last(Seen(s)))
        /\ reader[s] = "ended" => frames[s] = <<>> /\ worker[s] = "done"

(* Two turns never cross-wire their trails (session.py's comment): a       *)
(* stream carries the status events of its own turn, each once, in the     *)
(* order they were emitted.                                                *)
TrailsOwn ==
    \A s \in Streams :
        LET put == IF worker[s] = "putting" THEN Len(trail[s]) - 1 ELSE Len(trail[s])
        IN  /\ {i \in DOMAIN Seen(s) : Seen(s)[i].kind = "status"} = 1..put
            /\ \A i \in 1..put :
                  Seen(s)[i] = trail[s][i] /\ Seen(s)[i].of = s /\ Seen(s)[i].at = i

(* A page that reads a result finds its turn saved, with the very          *)
(* trail it was shown, and may ask again: the session is not still held by *)
(* the turn it has just been told about.                                   *)
ResultMeansDone ==
    \A s \in Streams : \A i \in 1..Len(Seen(s)) :
        /\ Terminal(Seen(s)[i]) => turn_lock # s
        /\ Seen(s)[i].kind = "result" =>
              s \in kept /\ s \in DOMAIN turn_log /\ turn_log[s] = SubSeq(Seen(s), 1, i - 1)

(* A turn the graph finished is logged or its write failed, and the        *)
(* session is given back, whether or not anybody still reads the stream.   *)
TurnLandsUnread == \A s \in Streams : worker[s] \in InTurn ~> worker[s] = "done"

(* A stream somebody reads comes to its end.                               *)
StreamEnds == \A s \in Streams : reader[s] = "opened" ~> reader[s] \in {"ended", "gone"}
===============================================================================
