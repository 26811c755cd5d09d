------------------------------ MODULE AskService ------------------------------
(***************************************************************************)
(* The web process around the turn graph: request threads that ask, create *)
(* and delete, the session's turn lock, the SQLite work store, and the     *)
(* checkpoints the graph keeps beside it.                                  *)
(*                                                                         *)
(* Each store method is one transaction under the store's lock, so one     *)
(* step; what a route or the session reads in one step it uses in a later  *)
(* one.  delete_conversation is two: its rows, then, still under the       *)
(* store's lock but through another connection, its checkpoint thread.     *)
(* The graph itself is TurnGraph; here a turn begins (spending its number  *)
(* in the checkpoint), and ends or raises.                                 *)
(*                                                                         *)
(* Row ids are SQLite's for INTEGER PRIMARY KEY without AUTOINCREMENT: one *)
(* more than the largest in the table, so that a deleted id comes back.    *)
(* born tells the conversations that wore one id apart; it, by_ask (ask    *)
(* opened the conversation), births, asked and mishaps are history.  Both  *)
(* bounds are spent when a request comes in, so that no thread stops short *)
(* of its end on one.                                                      *)
(***************************************************************************)
EXTENDS Naturals

CONSTANTS
    Threads,            \* request threads, each with the worker it starts
    Refs,               \* evidence bundle refs (content addresses)
    MaxConversations,   \* bound: conversations ever created
    MaxWorkspaces,      \* bound: workspace ids
    MaxTurns,           \* bound: turns ever asked for
    MaxFailures         \* bound: crashes and failed writes

ASSUME BoundsAssumption ==
    /\ {MaxConversations, MaxTurns, MaxFailures} \subseteq Nat
    /\ MaxWorkspaces \in Nat \ {0}

Nobody == "nobody"
NoRef == "none"

ASSUME NamesAssumption == Nobody \notin Threads /\ NoRef \notin Refs

VARIABLES
    workspaces,     \* rows [id, scratch]
    conversations,  \* rows [id, workspace, born, by_ask]
    turn_log,       \* rows [conversation, turn, ref, born]
    bundles,        \* refs in evidence_bundle
    checkpoints,    \* conversation id -> [turn, turns], the latest checkpoint of its thread
    turn_lock,      \* who holds AskSession._turn_lock
    store_lock,     \* who holds SqliteWorkStore._lock across steps
    pc, req,        \* where each thread is, and what it carries
    births,         \* conversations ever created
    asked,          \* turns ever asked for
    failures,       \* crashes and failed writes so far
    mishaps         \* what went wrong outside the code's own control flow

store == <<workspaces, conversations, turn_log, bundles>>
counts == <<births, asked, failures>>
vars == <<store, checkpoints, turn_lock, store_lock, pc, req, counts, mishaps>>

Ids == 1..MaxConversations
EmptyThread == [turn |-> 0, turns |-> {}]

Idle == [conversation |-> 0, workspace |-> 0, born |-> 0, created |-> FALSE,
         state |-> EmptyThread, ref |-> NoRef]

(* stale_check: what a route checked no longer held when it acted on it;   *)
(* torn_delete: a delete ended between its rows and its checkpoint thread; *)
(* raised_late: a finished turn raised before its row.                     *)
Mishaps == {"stale_check", "store_error", "crash", "torn_delete", "raised_late"}

Init ==
    /\ workspaces = {} /\ conversations = {} /\ turn_log = {} /\ bundles = {}
    /\ checkpoints = [c \in Ids |-> EmptyThread]
    /\ turn_lock = Nobody /\ store_lock = Nobody
    /\ pc = [t \in Threads |-> "idle"] /\ req = [t \in Threads |-> Idle]
    /\ births = 0 /\ asked = 0 /\ failures = 0 /\ mishaps = {}
-------------------------------------------------------------------------------
WorkspaceIds == {w.id : w \in workspaces}
ConversationIds == {c.id : c \in conversations}
ConversationOf(id) == CHOOSE c \in conversations : c.id = id

(* lastrowid of the next insert.                                           *)
NextId(ids) == IF ids = {} THEN 1 ELSE 1 + CHOOSE m \in ids : \A i \in ids : i <= m

CanStore(t) == store_lock \in {Nobody, t}

At(t, label) == pc[t] = label
Move(t, label) == pc' = [pc EXCEPT ![t] = label]
Finish(t) == pc' = [pc EXCEPT ![t] = "idle"] /\ req' = [req EXCEPT ![t] = Idle]

(* The turn is over for the session: the lock goes, the request ends.      *)
ReleaseTurnLock(t) == turn_lock' = Nobody /\ Finish(t)

(* A slip: an answered turn leaves the lock taken.                         *)
ReleaseForgotten(t) == UNCHANGED turn_lock /\ Finish(t)

Release(t) == ReleaseTurnLock(t)
-------------------------------------------------------------------------------
(* Workspaces: POST (under any name), the default the first listing makes, *)
(* DELETE.  One id is left for ask's own.                                  *)
InsertWorkspace(scratch) ==
    workspaces' = workspaces \cup {[id |-> NextId(WorkspaceIds), scratch |-> scratch]}

CreateWorkspace(t) ==
    /\ At(t, "idle") /\ CanStore(t)
    /\ NextId(WorkspaceIds) < MaxWorkspaces
    /\ \E scratch \in BOOLEAN :
          InsertWorkspace(scratch)
    /\ UNCHANGED <<conversations, turn_log, bundles, checkpoints, turn_lock, store_lock,
                   pc, req, counts, mishaps>>

(* Counting the conversations and deleting are one transaction.            *)
DeleteWorkspace(t) ==
    /\ At(t, "idle") /\ CanStore(t)
    /\ \E w \in workspaces :
          /\ \A c \in conversations : c.workspace # w.id
          /\ workspaces' = workspaces \ {w}
    /\ UNCHANGED <<conversations, turn_log, bundles, checkpoints, turn_lock, store_lock,
                   pc, req, counts, mishaps>>

InsertConversation(w, born, by_ask) ==
    /\ conversations' = conversations \cup
          {[id |-> NextId(ConversationIds), workspace |-> w, born |-> born, by_ask |-> by_ask]}
    /\ mishaps' = mishaps \cup (IF w \in WorkspaceIds THEN {} ELSE {"stale_check"})

(* POST conversations: the workspace is looked up, then the row inserted.  *)
CreateConversationCheck(t) ==
    /\ At(t, "idle") /\ CanStore(t)
    /\ births < MaxConversations /\ births' = births + 1
    /\ \E w \in WorkspaceIds : req' = [req EXCEPT ![t].workspace = w, ![t].born = births']
    /\ Move(t, "create")
    /\ UNCHANGED <<store, checkpoints, turn_lock, store_lock, asked, failures, mishaps>>

CreateConversation(t) ==
    /\ At(t, "create") /\ CanStore(t)
    /\ InsertConversation(req[t].workspace, req[t].born, FALSE)
    /\ Finish(t)
    /\ UNCHANGED <<workspaces, turn_log, bundles, checkpoints, turn_lock, store_lock, counts>>
-------------------------------------------------------------------------------
(* POST /api/ask.  A named conversation must exist; a new one names a      *)
(* workspace that must, or none.  Then busy is read, and the worker        *)
(* starts.                                                                 *)
AskExisting(t) ==
    /\ At(t, "idle") /\ CanStore(t)
    /\ asked < MaxTurns /\ asked' = asked + 1
    /\ \E c \in conversations :
          req' = [req EXCEPT ![t].conversation = c.id, ![t].born = c.born]
    /\ Move(t, "ask")
    /\ UNCHANGED <<store, checkpoints, turn_lock, store_lock, births, failures, mishaps>>

AskNew(t) ==
    /\ At(t, "idle") /\ CanStore(t)
    /\ asked < MaxTurns /\ asked' = asked + 1
    /\ births < MaxConversations /\ births' = births + 1
    /\ \E w \in WorkspaceIds \cup {0} :
          req' = [req EXCEPT ![t].workspace = w, ![t].born = births']
    /\ Move(t, "ask")
    /\ UNCHANGED <<store, checkpoints, turn_lock, store_lock, failures, mishaps>>

AskBusy(t) ==
    /\ At(t, "ask")
    /\ IF turn_lock = Nobody THEN Move(t, "acquire") /\ UNCHANGED req ELSE Finish(t)
    /\ UNCHANGED <<store, checkpoints, turn_lock, store_lock, counts, mishaps>>

(* A slip: the worker trusts the route's busy check.                       *)
LockFreeUnchecked == TRUE

LockFree == turn_lock = Nobody

(* ask: take the lock without waiting, or raise TurnInProgressError.       *)
Acquire(t) ==
    /\ At(t, "acquire")
    /\ IF LockFree
         THEN turn_lock' = t /\ Move(t, "resolve") /\ UNCHANGED req
         ELSE UNCHANGED turn_lock /\ Finish(t)
    /\ UNCHANGED <<store, checkpoints, store_lock, counts, mishaps>>

(* _resolve_conversation, a named conversation: it may be gone, or another *)
(* may wear its id.                                                        *)
ResolveExisting(t) ==
    /\ At(t, "resolve") /\ CanStore(t)
    /\ req[t].conversation # 0
    /\ IF req[t].conversation \in ConversationIds
         THEN LET c == ConversationOf(req[t].conversation)
              IN  /\ req' = [req EXCEPT ![t].born = c.born]
                  /\ mishaps' = mishaps \cup (IF c.born = req[t].born THEN {} ELSE {"stale_check"})
                  /\ Move(t, "invoke") /\ UNCHANGED turn_lock
         ELSE Release(t) /\ UNCHANGED mishaps
    /\ UNCHANGED <<store, checkpoints, store_lock, counts>>

(* A new conversation: find the workspace (the named one, or the owner's   *)
(* first scratch workspace, created when there is none) ...                *)
ResolveWorkspace(t) ==
    /\ At(t, "resolve") /\ CanStore(t)
    /\ req[t].conversation = 0
    /\ \/ /\ req[t].workspace \in WorkspaceIds
          /\ Move(t, "open") /\ UNCHANGED <<req, turn_lock>>
       \/ /\ req[t].workspace \notin WorkspaceIds \cup {0}
          /\ Release(t)
       \/ /\ req[t].workspace = 0
          /\ \E w \in workspaces :
                /\ w.scratch /\ \A v \in workspaces : v.scratch => w.id <= v.id
                /\ req' = [req EXCEPT ![t].workspace = w.id]
          /\ Move(t, "open") /\ UNCHANGED turn_lock
       \/ /\ req[t].workspace = 0
          /\ \A w \in workspaces : ~w.scratch
          /\ Move(t, "scratch") /\ UNCHANGED <<req, turn_lock>>
    /\ UNCHANGED <<store, checkpoints, store_lock, counts, mishaps>>

OpenScratch(t) ==
    /\ At(t, "scratch") /\ CanStore(t)
    /\ InsertWorkspace(TRUE)
    /\ req' = [req EXCEPT ![t].workspace = NextId(WorkspaceIds)]
    /\ Move(t, "open")
    /\ UNCHANGED <<conversations, turn_log, bundles, checkpoints, turn_lock, store_lock,
                   counts, mishaps>>

(* ... then insert the conversation.                                       *)
OpenConversation(t) ==
    /\ At(t, "open") /\ CanStore(t)
    /\ InsertConversation(req[t].workspace, req[t].born, TRUE)
    /\ req' = [req EXCEPT ![t].conversation = NextId(ConversationIds), ![t].created = TRUE]
    /\ Move(t, "invoke")
    /\ UNCHANGED <<workspaces, turn_log, bundles, checkpoints, turn_lock, store_lock, counts>>
-------------------------------------------------------------------------------
(* graph.invoke.  The thread's latest checkpoint is read once; every       *)
(* superstep writes a whole checkpoint from the state in memory.           *)
InvokeBegin(t) ==
    /\ At(t, "invoke")
    /\ LET c == req[t].conversation
           state == [checkpoints[c] EXCEPT !.turn = @ + 1]
       IN  /\ req' = [req EXCEPT ![t].state = state]
           /\ checkpoints' = [checkpoints EXCEPT ![c] = state]
    /\ Move(t, "running")
    /\ UNCHANGED <<store, turn_lock, store_lock, counts, mishaps>>

(* finalize's checkpoint holds the turn's record: the turn is in the       *)
(* history from here on, with summarize still to run.                      *)
Finalize(t) ==
    /\ At(t, "running")
    /\ LET c == req[t].conversation
           state == [req[t].state EXCEPT !.turns = @ \cup {<<req[t].born, req[t].state.turn>>}]
       IN  /\ checkpoints' = [checkpoints EXCEPT ![c] = state]
           /\ req' = [req EXCEPT ![t].state = state]
    /\ Move(t, "finalized")
    /\ UNCHANGED <<store, turn_lock, store_lock, counts, mishaps>>

(* summarize's checkpoint, and the return, with evidence to save or none.  *)
InvokeReturn(t) ==
    /\ At(t, "finalized")
    /\ checkpoints' = [checkpoints EXCEPT ![req[t].conversation] = req[t].state]
    /\ \E ref \in Refs \cup {NoRef} :
          /\ req' = [req EXCEPT ![t].ref = ref]
          /\ Move(t, IF ref = NoRef THEN "log" ELSE "save")
    /\ UNCHANGED <<store, turn_lock, store_lock, counts, mishaps>>

(* A node or the saver raised, perhaps before the turn began: a            *)
(* conversation this call opened is taken back out. In one that was there  *)
(* before, a raise after finalize's checkpoint (summarize's own write, its *)
(* listener) leaves a finished turn that no row of the log will tell of.   *)
(* A slip: the conversation is left where it is.                           *)
AfterRaiseKeeps(t) == Release(t)

AfterRaise(t) ==
    IF req[t].created THEN Move(t, "take_back") /\ UNCHANGED <<req, turn_lock>> ELSE Release(t)

InvokeRaise(t) ==
    /\ pc[t] \in {"invoke", "running", "finalized"}
    /\ AfterRaise(t)
    /\ mishaps' = mishaps \cup
          (IF At(t, "finalized") /\ ~req[t].created THEN {"raised_late"} ELSE {})
    /\ UNCHANGED <<store, checkpoints, store_lock, counts>>

(* The evidence bundle, then the turn_log row, each its own transaction.   *)
SaveBundle(t) ==
    /\ At(t, "save") /\ CanStore(t)
    /\ bundles' = bundles \cup {req[t].ref}
    /\ Move(t, "log")
    /\ UNCHANGED <<workspaces, conversations, turn_log, checkpoints, turn_lock, store_lock,
                   req, counts, mishaps>>

AppendTurnLog(t) ==
    /\ At(t, "log") /\ CanStore(t)
    /\ turn_log' = turn_log \cup
          {[conversation |-> req[t].conversation, turn |-> req[t].state.turn,
            ref |-> req[t].ref, born |-> req[t].born]}
    /\ Release(t)
    /\ UNCHANGED <<workspaces, conversations, bundles, checkpoints, store_lock, counts, mishaps>>

-------------------------------------------------------------------------------
(* delete_conversation: the rows, with the bundles no other conversation   *)
(* cites, in one transaction; then the checkpoint thread.                  *)
CitedBy(rows) == {row.ref : row \in rows}

(* A slip: every bundle the conversation cites goes, shared or not.        *)
DoomedBundlesShared(id) == CitedBy({row \in turn_log : row.conversation = id})

DoomedBundles(id) ==
    CitedBy({row \in turn_log : row.conversation = id})
        \ CitedBy({row \in turn_log : row.conversation # id})

HeldBetween(t) == t

DeleteRows(t, id) ==
    /\ CanStore(t)
    /\ bundles' = bundles \ DoomedBundles(id)
    /\ turn_log' = {row \in turn_log : row.conversation # id}
    /\ conversations' = {c \in conversations : c.id # id}
    /\ store_lock' = HeldBetween(t)

(* A slip: the rows go and the checkpoint thread stays.                    *)
ThreadKept(id) == checkpoints

ThreadDeleted(id) == [checkpoints EXCEPT ![id] = EmptyThread]

DeleteThread(t, id) ==
    /\ checkpoints' = ThreadDeleted(id)
    /\ store_lock' = Nobody

(* After a raised turn, the lock still held.                               *)
TakeBackRows(t) ==
    /\ At(t, "take_back")
    /\ DeleteRows(t, req[t].conversation)
    /\ Move(t, "take_back_thread")
    /\ UNCHANGED <<workspaces, checkpoints, turn_lock, req, counts, mishaps>>

TakeBackThread(t) ==
    /\ At(t, "take_back_thread")
    /\ DeleteThread(t, req[t].conversation)
    /\ Release(t)
    /\ UNCHANGED <<store, counts, mishaps>>

(* DELETE a conversation: it must exist in a workspace that does; busy is  *)
(* read; then it is deleted.                                               *)
DeleteCheck(t) ==
    /\ At(t, "idle") /\ CanStore(t)
    /\ \E c \in conversations :
          /\ c.workspace \in WorkspaceIds
          /\ req' = [req EXCEPT ![t].conversation = c.id, ![t].born = c.born]
    /\ Move(t, "delete_busy")
    /\ UNCHANGED <<store, checkpoints, turn_lock, store_lock, counts, mishaps>>

DeleteBusy(t) ==
    /\ At(t, "delete_busy")
    /\ IF turn_lock = Nobody THEN Move(t, "delete") /\ UNCHANGED req ELSE Finish(t)
    /\ UNCHANGED <<store, checkpoints, turn_lock, store_lock, counts, mishaps>>

(* The check is stale when a turn has started since, or the id was reused. *)
DeleteConversation(t) ==
    /\ At(t, "delete")
    /\ DeleteRows(t, req[t].conversation)
    /\ Move(t, "delete_thread")
    /\ mishaps' = mishaps \cup
          (IF /\ turn_lock = Nobody
              /\ \A c \in conversations : c.id = req[t].conversation => c.born = req[t].born
           THEN {} ELSE {"stale_check"})
    /\ UNCHANGED <<workspaces, checkpoints, turn_lock, req, counts>>

DeleteConversationThread(t) ==
    /\ At(t, "delete_thread")
    /\ DeleteThread(t, req[t].conversation)
    /\ Finish(t)
    /\ UNCHANGED <<store, turn_lock, counts, mishaps>>

(* A write may raise (a locked or a full database): its transaction rolls  *)
(* back, what the request wrote before stays, and the request ends.        *)
Writing == {"create", "scratch", "open", "save", "log", "take_back", "take_back_thread",
            "delete", "delete_thread"}

StoreFails(t) ==
    /\ pc[t] \in Writing /\ CanStore(t)
    /\ failures < MaxFailures /\ failures' = failures + 1
    /\ store_lock' = Nobody
    /\ IF turn_lock = t THEN Release(t) ELSE Finish(t) /\ UNCHANGED turn_lock
    /\ mishaps' = mishaps \cup {"store_error"} \cup
          (IF store_lock = t THEN {"torn_delete"} ELSE {})
    /\ UNCHANGED <<store, checkpoints, births, asked>>
-------------------------------------------------------------------------------
(* The process dies and is restarted: what is in memory goes.              *)
Crash ==
    /\ failures < MaxFailures
    /\ \E t \in Threads : pc[t] # "idle"
    /\ failures' = failures + 1
    /\ mishaps' = mishaps \cup {"crash"} \cup
          (IF store_lock = Nobody THEN {} ELSE {"torn_delete"})
    /\ turn_lock' = Nobody /\ store_lock' = Nobody
    /\ pc' = [t \in Threads |-> "idle"] /\ req' = [t \in Threads |-> Idle]
    /\ UNCHANGED <<store, checkpoints, births, asked>>

(* The steps a thread takes once its request is in.                        *)
Serve(t) ==
    \/ CreateConversation(t)
    \/ AskBusy(t) \/ Acquire(t) \/ ResolveExisting(t) \/ ResolveWorkspace(t)
    \/ OpenScratch(t) \/ OpenConversation(t) \/ InvokeBegin(t)
    \/ Finalize(t) \/ InvokeReturn(t) \/ InvokeRaise(t)
    \/ SaveBundle(t) \/ AppendTurnLog(t) \/ StoreFails(t)
    \/ TakeBackRows(t) \/ TakeBackThread(t)
    \/ DeleteBusy(t) \/ DeleteConversation(t) \/ DeleteConversationThread(t)

Request(t) ==
    \/ CreateWorkspace(t) \/ DeleteWorkspace(t) \/ CreateConversationCheck(t)
    \/ AskExisting(t) \/ AskNew(t) \/ DeleteCheck(t)

Quiet == (\A t \in Threads : At(t, "idle")) /\ UNCHANGED vars

Next == (\E t \in Threads : Request(t) \/ Serve(t)) \/ Crash \/ Quiet

Spec == Init /\ [][Next]_vars

(* The operating system runs every thread that can run.                    *)
FairSpec == Spec /\ \A t \in Threads : WF_vars(Serve(t))
-------------------------------------------------------------------------------
(* The steps of a turn, those of them that work on its conversation, and   *)
(* those of a delete from a check to its rows.                             *)
OnConversation == {"invoke", "running", "finalized", "save", "log"}
Turning == OnConversation \cup {"resolve", "scratch", "open", "take_back", "take_back_thread"}
Labels == Turning \cup
    {"idle", "create", "ask", "acquire", "delete_busy", "delete", "delete_thread"}

Workspaces == [id : 1..MaxWorkspaces, scratch : BOOLEAN]
Conversations == [id : Ids, workspace : 1..MaxWorkspaces, born : Ids, by_ask : BOOLEAN]
Rows == [conversation : Ids, turn : Nat, ref : Refs \cup {NoRef}, born : Ids]
Thread == [turn : Nat, turns : SUBSET (Nat \X Nat)]
Requests == [conversation : Ids \cup {0}, workspace : 0..MaxWorkspaces, born : Ids \cup {0},
             created : BOOLEAN, state : Thread, ref : Refs \cup {NoRef}]

(* Every variable has its type, ids are keys, and the store lock is held   *)
(* across steps by deletes alone.                                          *)
TypeOK ==
    /\ workspaces \subseteq Workspaces /\ conversations \subseteq Conversations
    /\ \A v, w \in workspaces : v.id = w.id => v = w
    /\ \A c, d \in conversations : c.id = d.id => c = d
    /\ turn_log \subseteq Rows /\ bundles \subseteq Refs
    /\ checkpoints \in [Ids -> Thread]
    /\ turn_lock \in Threads \cup {Nobody} /\ store_lock \in Threads \cup {Nobody}
    /\ pc \in [Threads -> Labels]
    /\ req \in [Threads -> Requests]
    /\ births \in 0..MaxConversations /\ asked \in 0..MaxTurns /\ failures \in 0..MaxFailures
    /\ mishaps \subseteq Mishaps
    /\ \A t \in Threads :
          store_lock = t <=> pc[t] \in {"take_back_thread", "delete_thread"}

(* One turn in flight per session: whoever is inside ask holds the lock,   *)
(* and nobody holds it from outside (session.ask's acquire and finally).   *)
OneTurnAtATime == \A t \in Threads : pc[t] \in Turning <=> turn_lock = t

(* What the log says can be opened: its conversation is the one the turn   *)
(* was asked of, its evidence is stored, and a turn number names one turn. *)
LogReadable ==
    /\ \A row \in turn_log :
          /\ \E c \in conversations : c.id = row.conversation /\ c.born = row.born
          /\ row.ref # NoRef => row.ref \in bundles
    /\ \A r, q \in turn_log : r.conversation = q.conversation /\ r.turn = q.turn => r = q

(* The log stays readable through deletes that share evidence, raised      *)
(* turns, failed writes and crashes, as long as no check went stale.       *)
LogSurvives == "stale_check" \notin mishaps => LogReadable

(* No conversation sees another's turns: a reused id comes with an empty   *)
(* checkpoint thread (delete_conversation ends with delete_thread).        *)
HistoryIsOwn ==
    mishaps \cap {"stale_check", "torn_delete"} = {} =>
        \A c \in conversations : \A turn \in checkpoints[c.id].turns : turn[1] = c.born

(* With nothing going wrong, what is at rest is consistent: no             *)
(* conversation ask opened is empty, every finished turn is logged and     *)
(* every row is of a finished turn, every bundle is cited, and no thread   *)
(* outlives its conversation. A raise after finalize's checkpoint, in a    *)
(* conversation opened before, costs the finished turn its row, and that   *)
(* alone: all the rest holds then too.                                     *)
LoggedTurns(id) == {<<row.born, row.turn>> : row \in {r \in turn_log : r.conversation = id}}

NothingLeftBehind ==
    (mishaps \subseteq {"raised_late"} /\ \A t \in Threads : At(t, "idle")) =>
        /\ \A c \in conversations :
              /\ c.by_ask => \E row \in turn_log : row.conversation = c.id
              /\ LoggedTurns(c.id) \subseteq checkpoints[c.id].turns
              /\ "raised_late" \notin mishaps => LoggedTurns(c.id) = checkpoints[c.id].turns
        /\ bundles = CitedBy(turn_log) \ {NoRef}
        /\ \A id \in Ids \ ConversationIds : checkpoints[id] = EmptyThread

(* A conversation's checkpoints are a CheckpointThread's, though a turn    *)
(* works on the copy it read and writes that back whole: two turns never   *)
(* take one number, none is lost from the history by another's write, a    *)
(* failure or a crash, and only a conversation that is gone is forgotten   *)
(* (graph.invoke under the turn lock, _delete_checkpoint_thread after the  *)
(* rows), as long as no check went stale.                                  *)
ThreadOf(c) == INSTANCE CheckpointThread WITH
    turn <- checkpoints[c].turn,
    finished <- {record[2] : record \in checkpoints[c].turns}

ThreadsKeepTheirTurns ==
    [][\A c \in Ids : "stale_check" \notin mishaps' =>
          \/ UNCHANGED checkpoints[c]
          \/ c \in ConversationIds /\ (ThreadOf(c)!Begin \/ ThreadOf(c)!End)
          \/ c \notin ConversationIds /\ ThreadOf(c)!Forget]_vars

(* The session and the store are free again and again: whatever raises,    *)
(* ask's finally and the store's with-block give their locks back.         *)
ServiceRecovers == []<>(turn_lock = Nobody /\ store_lock = Nobody)
===============================================================================
