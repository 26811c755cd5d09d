--------------------------- MODULE AskServiceProofs ---------------------------
(***************************************************************************)
(* The web process, for every number of threads, of conversations and of   *)
(* failures.                                                               *)
(***************************************************************************)
EXTENDS AskService, FiniteSetTheorems, WellFoundedInduction, TLAPS

(* A set of numbers with a bound has a largest: it is least below it.      *)
LEMMA HasLargest ==
    ASSUME NEW S \in SUBSET Nat, S # {}, NEW bound \in Nat, \A i \in S : i <= bound
    PROVE  \E m \in S : \A i \in S : i <= m
<1>. DEFINE R == OpToRel(<, Nat)
            Below == {n \in Nat : bound - n \in S}
<1>1. \A i, j \in Nat : <<i, j>> \in R <=> i < j
  BY DEF OpToRel
<1>2. ASSUME NEW i \in S PROVE bound - i \in Below /\ i = bound - (bound - i)
  BY <1>2
<1>3. IsWellFoundedOn(R, Nat)
  BY NatLessThanWellFounded
<1>4. Below \subseteq Nat /\ Below # {}
  BY <1>2
<1>. HIDE DEF R, Below
<1>5. PICK n \in Below : \A k \in Below : ~(<<k, n>> \in R)
  BY <1>3, <1>4, WFMin
<1>6. n \in Nat /\ bound - n \in S
  BY <1>5 DEF Below
<1>7. ASSUME NEW i \in S PROVE i <= bound - n
  <2>1. bound - i \in Below /\ bound - i \in Nat
    BY <1>2, <1>4
  <2>2. ~(bound - i < n)
    BY <1>1, <1>5, <1>6, <2>1
  <2>. QED  BY <1>6, <2>2
<1>. QED  BY <1>6, <1>7

(* A fresh id is one past the largest.                                     *)
LEMMA NextIdIsFresh ==
    ASSUME NEW ids \in SUBSET (Nat \ {0}), NEW bound \in Nat, \A i \in ids : i <= bound
    PROVE  NextId(ids) \in 1..(bound + 1) /\ NextId(ids) \notin ids
<1>1. CASE ids = {}
  BY <1>1 DEF NextId
<1>2. CASE ids # {}
  <2>1. \E m \in ids : \A i \in ids : i <= m
    BY <1>2, HasLargest
  <2>. DEFINE largest == CHOOSE m \in ids : \A i \in ids : i <= m
  <2>2. largest \in ids /\ \A i \in ids : i <= largest
    BY <2>1
  <2>3. NextId(ids) = 1 + largest
    BY <1>2 DEF NextId
  <2>. HIDE DEF largest
  <2>. QED  BY <2>2, <2>3
<1>. QED  BY <1>1, <1>2

(* Where each thread is, and who holds the session.                        *)
Locks ==
    /\ pc \in [Threads -> Labels]
    /\ turn_lock \in Threads \cup {Nobody}
    /\ OneTurnAtATime
-------------------------------------------------------------------------------
LEMMA LocksInitially == Init => Locks
BY NamesAssumption DEF Init, Locks, OneTurnAtATime, Labels, Turning, OnConversation

LEMMA LocksKept == Locks /\ [Next]_vars => Locks'
<1> SUFFICES ASSUME Locks, [Next]_vars PROVE Locks'
    OBVIOUS
<1> USE NamesAssumption DEF Locks, OneTurnAtATime, Labels, Turning, OnConversation,
        At, Move, Finish, Release, ReleaseTurnLock
<1>1. ASSUME NEW t \in Threads, Request(t) PROVE Locks'
    <2>1. CASE CreateWorkspace(t) BY <2>1 DEF CreateWorkspace
    <2>2. CASE DeleteWorkspace(t) BY <2>2 DEF DeleteWorkspace
    <2>3. CASE CreateConversationCheck(t) BY <2>3 DEF CreateConversationCheck
    <2>4. CASE AskExisting(t) BY <2>4 DEF AskExisting
    <2>5. CASE AskNew(t) BY <2>5 DEF AskNew
    <2>6. CASE DeleteCheck(t) BY <2>6 DEF DeleteCheck
    <2> QED BY <1>1, <2>1, <2>2, <2>3, <2>4, <2>5, <2>6 DEF Request
<1>2. ASSUME NEW t \in Threads, Serve(t) PROVE Locks'
    <2>1. CASE CreateConversation(t) BY <2>1 DEF CreateConversation
    <2>2. CASE AskBusy(t) BY <2>2 DEF AskBusy
    <2>3. CASE Acquire(t) BY <2>3 DEF Acquire, LockFree
    <2>4. CASE ResolveExisting(t) BY <2>4 DEF ResolveExisting
    <2>5. CASE ResolveWorkspace(t) BY <2>5 DEF ResolveWorkspace
    <2>6. CASE OpenScratch(t) BY <2>6 DEF OpenScratch
    <2>7. CASE OpenConversation(t) BY <2>7 DEF OpenConversation
    <2>8. CASE InvokeBegin(t) BY <2>8 DEF InvokeBegin
    <2>9. CASE Finalize(t) BY <2>9 DEF Finalize
    <2>19. CASE InvokeReturn(t) BY <2>19 DEF InvokeReturn
    <2>10. CASE InvokeRaise(t) BY <2>10 DEF InvokeRaise, AfterRaise
    <2>11. CASE SaveBundle(t) BY <2>11 DEF SaveBundle
    <2>12. CASE AppendTurnLog(t) BY <2>12 DEF AppendTurnLog
    <2>13. CASE StoreFails(t) BY <2>13 DEF StoreFails, Writing
    <2>14. CASE TakeBackRows(t) BY <2>14 DEF TakeBackRows
    <2>15. CASE TakeBackThread(t) BY <2>15 DEF TakeBackThread
    <2>16. CASE DeleteBusy(t) BY <2>16 DEF DeleteBusy
    <2>17. CASE DeleteConversation(t) BY <2>17 DEF DeleteConversation
    <2>18. CASE DeleteConversationThread(t) BY <2>18 DEF DeleteConversationThread
    <2> QED BY <1>2, <2>1, <2>2, <2>3, <2>4, <2>5, <2>6, <2>7, <2>8, <2>9, <2>10, <2>11, <2>12,
               <2>13, <2>14, <2>15, <2>16, <2>17, <2>18, <2>19 DEF Serve
<1>3. CASE Crash BY <1>3 DEF Crash
<1>4. CASE UNCHANGED vars BY <1>4 DEF vars
<1> QED BY <1>1, <1>2, <1>3, <1>4 DEF Next, Quiet

(* One turn in flight, whatever the threads, the failures and the crashes. *)
THEOREM OneTurnAtATimeHolds == Spec => []OneTurnAtATime
<1>1. Locks => OneTurnAtATime
    BY DEF Locks
<1> QED BY <1>1, LocksInitially, LocksKept, PTL DEF Spec
-------------------------------------------------------------------------------
(* What a thread carries from step to step, each thing known once the      *)
(* steps before have set it.                                               *)
Carried(t) ==
    /\ pc[t] = "idle" => req[t] = Idle
    /\ pc[t] # "idle" => req[t].born \in Ids
    /\ pc[t] \in {"create", "scratch", "open"} => req[t].conversation = 0
    /\ pc[t] \in {"create", "open"} => req[t].workspace # 0
    /\ pc[t] \in OnConversation \cup {"take_back", "take_back_thread", "delete_busy", "delete", "delete_thread"}
          => req[t].conversation \in Ids
    /\ pc[t] \notin OnConversation \cup {"take_back", "take_back_thread"} => ~req[t].created
    /\ pc[t] = "save" => req[t].ref \in Refs

(* Conversations still to come, of those whose number is spent: ids stay   *)
(* below the births that made room for them.                               *)
Pending == {t \in Threads : \/ pc[t] \in {"create", "scratch", "open"}
                            \/ pc[t] \in {"ask", "acquire", "resolve"} /\ req[t].conversation = 0}

Room ==
    /\ IsFiniteSet(Pending) /\ Cardinality(Pending) <= births
    /\ \A c \in conversations : c.id + Cardinality(Pending) <= births

(* The last workspace id is for the scratch workspace ask may open.        *)
ScratchRoom ==
    /\ \A w \in workspaces : w.id < MaxWorkspaces \/ w.scratch
    /\ \A t \in Threads : pc[t] = "scratch" => \A w \in workspaces : w.id < MaxWorkspaces

Typed ==
    /\ TypeOK /\ OneTurnAtATime
    /\ \A t \in Threads : Carried(t)
    /\ Room /\ ScratchRoom

LEMMA Constants ==
    /\ MaxConversations \in Nat /\ MaxWorkspaces \in Nat \ {0} /\ MaxTurns \in Nat /\ MaxFailures \in Nat
    /\ Nobody \notin Threads /\ NoRef \notin Refs
    /\ Idle \in Requests /\ EmptyThread \in Thread
BY BoundsAssumption, NamesAssumption DEF Idle, Requests, EmptyThread, Thread, Ids

LEMMA TypedInitially == Init => Typed
<1>. SUFFICES ASSUME Init PROVE Typed
  OBVIOUS
<1>1. TypeOK /\ OneTurnAtATime
  BY Constants DEF Init, TypeOK, OneTurnAtATime, Labels, Turning, OnConversation
<1>2. \A t \in Threads : Carried(t)
  BY DEF Init, Carried, Idle, OnConversation
<1>3. Pending = {}
  BY DEF Init, Pending
<1>. QED  BY <1>1, <1>2, <1>3, FS_EmptySet DEF Typed, Room, ScratchRoom, Init

(* A step of one thread leaves what the others carry alone.                *)
LEMMA OthersStay ==
    ASSUME TypeOK, NEW t \in Threads, Request(t) \/ Serve(t)
    PROVE  /\ \A u \in Threads \ {t} : pc'[u] = pc[u] /\ req'[u] = req[u]
           /\ pc' \in [Threads -> Labels]
<1>. USE DEF TypeOK, At, Move, Finish, Release, ReleaseTurnLock, Labels, Turning, OnConversation
<1>1. CASE Request(t)
  BY <1>1 DEF Request, CreateWorkspace, DeleteWorkspace, CreateConversationCheck, AskExisting,
              AskNew, DeleteCheck
<1>2. CASE Serve(t)
  <2>1. CASE CreateConversation(t) \/ AskBusy(t) \/ Acquire(t) \/ ResolveExisting(t)
    BY <2>1 DEF CreateConversation, AskBusy, Acquire, ResolveExisting
  <2>2. CASE ResolveWorkspace(t) \/ OpenScratch(t) \/ OpenConversation(t)
    BY <2>2 DEF ResolveWorkspace, OpenScratch, OpenConversation
  <2>3. CASE InvokeBegin(t) \/ Finalize(t) \/ InvokeReturn(t) \/ InvokeRaise(t)
    BY <2>3 DEF InvokeBegin, Finalize, InvokeReturn, InvokeRaise, AfterRaise
  <2>4. CASE SaveBundle(t) \/ AppendTurnLog(t) \/ StoreFails(t)
    BY <2>4 DEF SaveBundle, AppendTurnLog, StoreFails
  <2>5. CASE TakeBackRows(t) \/ TakeBackThread(t)
    BY <2>5 DEF TakeBackRows, TakeBackThread
  <2>6. CASE DeleteBusy(t) \/ DeleteConversation(t) \/ DeleteConversationThread(t)
    BY <2>6 DEF DeleteBusy, DeleteConversation, DeleteConversationThread
  <2>. QED  BY <1>2, <2>1, <2>2, <2>3, <2>4, <2>5, <2>6 DEF Serve
<1>. QED  BY <1>1, <1>2

LEMMA ConversationIdsFresh ==
    ASSUME Typed, NEW t \in Pending
    PROVE  /\ NextId(ConversationIds) \in Ids
           /\ \A c \in conversations : c.id # NextId(ConversationIds)
           /\ NextId(ConversationIds) + Cardinality(Pending \ {t}) <= births
           /\ IsFiniteSet(Pending \ {t}) /\ Cardinality(Pending \ {t}) = Cardinality(Pending) - 1
<1>1. /\ births \in Nat /\ births <= MaxConversations /\ MaxConversations \in Nat
      /\ conversations \subseteq Conversations
  BY Constants DEF Typed, TypeOK
<1>2. /\ IsFiniteSet(Pending) /\ Cardinality(Pending) \in Nat
      /\ IsFiniteSet(Pending \ {t}) /\ Cardinality(Pending \ {t}) = Cardinality(Pending) - 1
      /\ Cardinality(Pending \ {t}) \in Nat
  BY FS_RemoveElement, FS_CardinalityType DEF Typed, Room
<1>3. births - Cardinality(Pending) \in Nat
  BY <1>1, <1>2 DEF Typed, Room
<1>4. ConversationIds \in SUBSET (Nat \ {0}) /\ \A i \in ConversationIds : i <= births - Cardinality(Pending)
  BY <1>1, <1>2, <1>3 DEF Typed, Room, ConversationIds, Conversations, Ids
<1>5. /\ NextId(ConversationIds) \in 1..(births - Cardinality(Pending) + 1)
      /\ NextId(ConversationIds) \notin ConversationIds
  BY <1>3, <1>4, NextIdIsFresh
<1>6. \A c \in conversations : c.id # NextId(ConversationIds)
  <2>1. \A c \in conversations : c.id \in ConversationIds
    BY DEF ConversationIds
  <2>. QED  BY <1>5, <2>1
<1>. HIDE DEF Pending, ConversationIds
<1>. QED  BY <1>1, <1>2, <1>3, <1>5, <1>6 DEF Ids

LEMMA WorkspaceIdsFresh ==
    ASSUME TypeOK
    PROVE  /\ NextId(WorkspaceIds) \in Nat \ {0}
           /\ \A w \in workspaces : w.id # NextId(WorkspaceIds)
           /\ (\A w \in workspaces : w.id < MaxWorkspaces) => NextId(WorkspaceIds) \in 1..MaxWorkspaces
<1>1. WorkspaceIds \in SUBSET (Nat \ {0}) /\ \A i \in WorkspaceIds : i <= MaxWorkspaces
  BY Constants DEF TypeOK, Workspaces, WorkspaceIds
<1>2. NextId(WorkspaceIds) \in 1..(MaxWorkspaces + 1) /\ NextId(WorkspaceIds) \notin WorkspaceIds
  BY <1>1, Constants, NextIdIsFresh
<1>3. ASSUME \A w \in workspaces : w.id < MaxWorkspaces PROVE NextId(WorkspaceIds) \in 1..MaxWorkspaces
  <2>1. \A i \in WorkspaceIds : i <= MaxWorkspaces - 1
    BY <1>1, <1>3, Constants DEF WorkspaceIds
  <2>2. NextId(WorkspaceIds) \in 1..(MaxWorkspaces - 1 + 1)
    BY <1>1, <2>1, Constants, NextIdIsFresh
  <2>. QED  BY <2>2, Constants
<1>4. \A w \in workspaces : w.id # NextId(WorkspaceIds)
  <2>1. \A w \in workspaces : w.id \in WorkspaceIds
    BY DEF WorkspaceIds
  <2>. QED  BY <1>2, <2>1
<1>. QED  BY <1>2, <1>3, <1>4, Constants

LEMMA RoomShrinks ==
    ASSUME TypeOK, Room, births' = births, conversations' \subseteq conversations,
           Pending' \subseteq Pending
    PROVE  Room'
<1>1. /\ IsFiniteSet(Pending') /\ Cardinality(Pending') \in Nat /\ Cardinality(Pending) \in Nat
      /\ Cardinality(Pending') <= Cardinality(Pending)
  BY FS_Subset, FS_CardinalityType DEF Room
<1>2. births \in Nat /\ \A c \in conversations : c.id \in Nat
  BY Constants DEF TypeOK, Conversations, Ids
<1>. QED  BY <1>1, <1>2 DEF Room

LEMMA RoomGrows ==
    ASSUME TypeOK, Room, births' = births + 1, conversations' = conversations,
           NEW t, t \notin Pending, Pending' = Pending \cup {t}
    PROVE  Room'
<1>. DEFINE n == Cardinality(Pending)
            m == Cardinality(Pending')
<1>1. IsFiniteSet(Pending') /\ n \in Nat /\ m = n + 1
  BY FS_AddElement, FS_CardinalityType DEF Room
<1>2. n <= births /\ \A c \in conversations : c.id + n <= births
  BY DEF Room
<1>3. births \in Nat /\ \A c \in conversations : c.id \in Nat
  BY Constants DEF TypeOK, Conversations, Ids
<1>. HIDE DEF n, m
<1>4. m <= births' /\ \A c \in conversations' : c.id + m <= births'
  BY <1>1, <1>2, <1>3
<1>. QED  BY <1>1, <1>4 DEF Room, m

LEMMA RoomFilled ==
    ASSUME Typed, births' = births, NEW t \in Pending, Pending' = Pending \ {t},
           NEW c, c.id = NextId(ConversationIds), conversations' = conversations \cup {c}
    PROVE  Room'
<1>. DEFINE n == Cardinality(Pending)
            m == Cardinality(Pending')
<1>1. IsFiniteSet(Pending') /\ n \in Nat /\ m = n - 1 /\ c.id + m <= births
  BY ConversationIdsFresh, FS_CardinalityType DEF Typed, Room
<1>2. n <= births /\ \A d \in conversations : d.id + n <= births
  BY DEF Typed, Room
<1>3. births \in Nat /\ \A d \in conversations : d.id \in Nat
  BY Constants DEF Typed, TypeOK, Conversations, Ids
<1>. HIDE DEF n, m
<1>4. m <= births' /\ \A d \in conversations' : d.id + m <= births'
  BY <1>1, <1>2, <1>3
<1>. QED  BY <1>1, <1>4 DEF Room, m

LEMMA CarriedKept == Typed /\ [Next]_vars => \A t \in Threads : Carried(t)'
<1>. SUFFICES ASSUME Typed, [Next]_vars PROVE \A t \in Threads : Carried(t)'
  OBVIOUS
<1>. USE DEF Carried, At, Move, Finish, Release, ReleaseTurnLock, OnConversation
<1>1. ASSUME NEW t \in Threads, Request(t) \/ Serve(t) PROVE \A u \in Threads \ {t} : Carried(u)'
  BY <1>1, OthersStay DEF Typed
<1>2. TypeOK /\ \A t \in Threads : Carried(t)
  BY DEF Typed
<1>3. ASSUME NEW t \in Threads, Request(t) PROVE Carried(t)'
  <2>. USE <1>2, Constants DEF TypeOK, Idle
  <2>1. CASE CreateWorkspace(t) BY <2>1 DEF CreateWorkspace
  <2>2. CASE DeleteWorkspace(t) BY <2>2 DEF DeleteWorkspace
  <2>3. CASE CreateConversationCheck(t)
    BY <2>3 DEF CreateConversationCheck, WorkspaceIds, Workspaces, Ids
  <2>4. CASE AskExisting(t) BY <2>4 DEF AskExisting, Conversations
  <2>5. CASE AskNew(t) BY <2>5 DEF AskNew, Ids
  <2>6. CASE DeleteCheck(t) BY <2>6 DEF DeleteCheck, Conversations
  <2>. QED BY <1>3, <2>1, <2>2, <2>3, <2>4, <2>5, <2>6 DEF Request
<1>7. ASSUME NEW t \in Threads, Finish(t) PROVE Carried(t)'
  BY <1>2, <1>7 DEF TypeOK, Idle
<1>4. ASSUME NEW t \in Threads, Serve(t) PROVE Carried(t)'
  <2>1. CASE Finish(t) BY <2>1, <1>7
  <2>. SUFFICES ASSUME ~Finish(t) PROVE Carried(t)'
    BY <2>1
  <2>. HIDE DEF Finish
  <2>. USE <1>2, Constants DEF TypeOK
  <2>2. CASE CreateConversation(t) BY <2>2 DEF CreateConversation
  <2>3. CASE AskBusy(t) BY <2>3 DEF AskBusy
  <2>4. CASE Acquire(t) BY <2>4 DEF Acquire
  <2>5. CASE ResolveExisting(t)
    <3>1. PICK c \in conversations : req' = [req EXCEPT ![t].born = c.born] /\ Move(t, "invoke")
      BY <2>5 DEF ResolveExisting, ConversationOf, ConversationIds
    <3>2. c.born \in Ids /\ req[t].conversation \in Ids
      BY <2>5 DEF Conversations, ResolveExisting, Requests
    <3>. QED BY <2>5, <3>1, <3>2 DEF ResolveExisting
  <2>6. CASE ResolveWorkspace(t)
    <3>1. \A w \in workspaces : w.id # 0
      BY DEF Workspaces
    <3>2. CASE req[t].workspace \in WorkspaceIds /\ Move(t, "open") /\ UNCHANGED req
      BY <2>6, <3>1, <3>2 DEF ResolveWorkspace, WorkspaceIds
    <3>3. CASE Move(t, "scratch") /\ UNCHANGED req
      BY <2>6, <3>3 DEF ResolveWorkspace
    <3>4. CASE \E w \in workspaces :
                  req' = [req EXCEPT ![t].workspace = w.id] /\ Move(t, "open")
      BY <2>6, <3>1, <3>4 DEF ResolveWorkspace
    <3>. QED BY <2>6, <3>2, <3>3, <3>4 DEF ResolveWorkspace
  <2>7. CASE OpenScratch(t) BY <2>7, WorkspaceIdsFresh DEF OpenScratch
  <2>8. CASE OpenConversation(t)
    <3>1. NextId(ConversationIds) \in Ids
      BY <2>8, ConversationIdsFresh DEF OpenConversation, Pending
    <3>. QED BY <2>8, <3>1 DEF OpenConversation
  <2>9. CASE InvokeBegin(t) BY <2>9 DEF InvokeBegin
  <2>10. CASE Finalize(t) BY <2>10 DEF Finalize
  <2>21. CASE InvokeReturn(t) BY <2>21 DEF InvokeReturn
  <2>11. CASE InvokeRaise(t) BY <2>11 DEF InvokeRaise, AfterRaise
  <2>12. CASE SaveBundle(t) BY <2>12 DEF SaveBundle
  <2>13. CASE AppendTurnLog(t) BY <2>13 DEF AppendTurnLog
  <2>14. CASE StoreFails(t) BY <2>14 DEF StoreFails
  <2>15. CASE TakeBackRows(t) BY <2>15 DEF TakeBackRows
  <2>16. CASE TakeBackThread(t) BY <2>16 DEF TakeBackThread
  <2>17. CASE DeleteBusy(t) BY <2>17 DEF DeleteBusy
  <2>18. CASE DeleteConversation(t) BY <2>18 DEF DeleteConversation
  <2>19. CASE DeleteConversationThread(t) BY <2>19 DEF DeleteConversationThread
  <2>. QED BY <1>4, <2>2, <2>3, <2>4, <2>5, <2>6, <2>7, <2>8, <2>9, <2>10, <2>11, <2>12,
              <2>13, <2>14, <2>15, <2>16, <2>17, <2>18, <2>19, <2>21 DEF Serve
<1>5. CASE Crash BY <1>5 DEF Crash, Idle
<1>6. CASE UNCHANGED vars BY <1>2, <1>6 DEF vars
<1>. QED  BY <1>1, <1>3, <1>4, <1>5, <1>6 DEF Next, Quiet

(* Room and ScratchRoom.                                                   *)
LEMMA RoomKept == Typed /\ [Next]_vars => Room'
<1>. SUFFICES ASSUME Typed, [Next]_vars PROVE Room'
  OBVIOUS
<1>1. TypeOK /\ Room /\ \A t \in Threads : Carried(t)
  BY DEF Typed
<1>. DEFINE Same == births' = births /\ conversations' \subseteq conversations
<1>2. ASSUME Same, Pending' \subseteq Pending PROVE Room'
  BY <1>1, <1>2, RoomShrinks
<1>3. ASSUME NEW t \in Threads, Request(t) \/ Serve(t) PROVE Pending' \ {t} = Pending \ {t}
  BY <1>1, <1>3, OthersStay DEF Pending
<1>4. ASSUME NEW t \in Threads, Request(t) \/ Serve(t), Same, t \in Pending' => t \in Pending PROVE Room'
  BY <1>2, <1>3, <1>4
<1>. USE DEF At, Move, Release, ReleaseTurnLock
<1>5. ASSUME NEW t \in Threads, Finish(t) PROVE t \notin Pending'
  BY <1>1, <1>5 DEF Finish, TypeOK, Pending
<1>6. ASSUME NEW t \in Threads, Request(t) PROVE Room'
  <2>. USE <1>1 DEF TypeOK, Carried
  <2>1. CASE CreateWorkspace(t) BY <1>4, <1>6, <2>1 DEF CreateWorkspace, counts, Pending
  <2>2. CASE DeleteWorkspace(t) BY <1>4, <1>6, <2>2 DEF DeleteWorkspace, counts, Pending
  <2>3. CASE CreateConversationCheck(t) \/ AskNew(t)
    <3>1. t \notin Pending /\ t \in Pending'
      <4>1. pc[t] = "idle" /\ req[t].conversation = 0
        BY <2>3 DEF CreateConversationCheck, AskNew, Idle
      <4>2. CASE CreateConversationCheck(t)
        BY <4>1, <4>2 DEF CreateConversationCheck, Pending
      <4>3. CASE AskNew(t)
        BY <4>1, <4>3 DEF AskNew, Pending
      <4>. QED BY <2>3, <4>1, <4>2, <4>3
    <3>2. births' = births + 1 /\ conversations' = conversations
      BY <2>3 DEF CreateConversationCheck, AskNew, store
    <3>3. Pending' = Pending \cup {t}
      BY <1>3, <1>6, <3>1
    <3>. QED BY <3>1, <3>2, <3>3, RoomGrows
  <2>4. CASE AskExisting(t)
    <3>1. t \notin Pending'
      BY <2>4, Constants DEF AskExisting, Pending, Conversations, Ids
    <3>. QED BY <1>4, <1>6, <2>4, <3>1 DEF AskExisting, store
  <2>5. CASE DeleteCheck(t) BY <1>4, <1>6, <2>5 DEF DeleteCheck, store, counts, Pending
  <2>. QED BY <1>6, <2>1, <2>2, <2>3, <2>4, <2>5 DEF Request
<1>7. ASSUME NEW t \in Threads, Serve(t) PROVE Room'
  <2>. USE <1>1 DEF TypeOK, Carried
  <2>1. CASE CreateConversation(t)
    <3>1. t \in Pending /\ t \notin Pending'
      BY <1>5, <2>1 DEF CreateConversation, Pending
    <3>2. Pending' = Pending \ {t}
      BY <1>3, <1>7, <3>1
    <3>. QED BY <2>1, <3>1, <3>2, RoomFilled DEF CreateConversation, InsertConversation, counts
  <2>2. CASE OpenConversation(t)
    <3>1. t \in Pending /\ t \notin Pending'
      BY <2>2 DEF OpenConversation, Pending
    <3>2. Pending' = Pending \ {t}
      BY <1>3, <1>7, <3>1
    <3>. QED BY <2>2, <3>1, <3>2, RoomFilled DEF OpenConversation, InsertConversation, counts
  <2>. SUFFICES ASSUME ~CreateConversation(t), ~OpenConversation(t) PROVE Room'
    BY <2>1, <2>2
  <2>3. Same
    BY <1>7 DEF Serve, AskBusy, Acquire, ResolveExisting, ResolveWorkspace, OpenScratch,
                InvokeBegin, Finalize, InvokeReturn, InvokeRaise, SaveBundle, AppendTurnLog, StoreFails,
                TakeBackRows, TakeBackThread, DeleteBusy, DeleteConversation, DeleteRows,
                DeleteConversationThread, store, counts
  <2>4. t \in Pending' => t \in Pending
    <3>1. CASE Finish(t) BY <1>5, <3>1
    <3>2. CASE ResolveWorkspace(t)
      BY <3>2 DEF ResolveWorkspace, Pending
    <3>3. CASE AskBusy(t) \/ Acquire(t) \/ ResolveExisting(t) \/ OpenScratch(t)
      BY <1>5, <3>3 DEF AskBusy, Acquire, ResolveExisting, OpenScratch, Pending
    <3>4. CASE InvokeBegin(t) \/ Finalize(t) \/ InvokeReturn(t) \/ InvokeRaise(t) \/ SaveBundle(t)
      BY <1>5, <3>4 DEF InvokeBegin, Finalize, InvokeReturn, InvokeRaise, AfterRaise, SaveBundle, Pending
    <3>5. CASE TakeBackRows(t) \/ DeleteBusy(t) \/ DeleteConversation(t)
      BY <1>5, <3>5 DEF TakeBackRows, DeleteBusy, DeleteConversation, Pending
    <3>. QED BY <1>7, <3>1, <3>2, <3>3, <3>4, <3>5
             DEF Serve, AppendTurnLog, StoreFails, TakeBackThread, DeleteConversationThread
  <2>. QED BY <1>4, <1>7, <2>3, <2>4
<1>8. CASE Crash
  <2>1. Pending' = {} BY <1>8 DEF Crash, Pending
  <2>. QED BY <1>2, <1>8, <2>1 DEF Crash, store
<1>9. CASE UNCHANGED vars
  <2>1. Pending' = Pending BY <1>9 DEF vars, Pending
  <2>. QED BY <1>2, <1>9, <2>1 DEF vars, store, counts
<1>. QED  BY <1>6, <1>7, <1>8, <1>9 DEF Next, Quiet

LEMMA ScratchRoomKept == Typed /\ [Next]_vars => ScratchRoom'
<1>. SUFFICES ASSUME Typed, [Next]_vars PROVE ScratchRoom'
  OBVIOUS
<1>1. TypeOK /\ ScratchRoom /\ OneTurnAtATime
  BY DEF Typed
<1>. USE DEF At, Move, Release, ReleaseTurnLock, ScratchRoom
<1>2. ASSUME NEW t \in Threads, Request(t) \/ Serve(t), ~ResolveWorkspace(t)
      PROVE  \A u \in Threads : pc'[u] = "scratch" => pc[u] = "scratch"
  <2>1. pc \in [Threads -> Labels]
    BY <1>1 DEF TypeOK
  <2>2. CASE Finish(t)
    BY <2>1, <2>2 DEF Finish
  <2>3. CASE Request(t)
    BY <2>1, <2>3 DEF Request, CreateWorkspace, DeleteWorkspace, CreateConversationCheck,
                      AskExisting, AskNew, DeleteCheck
  <2>4. CASE Serve(t) /\ ~Finish(t)
    BY <1>2, <2>1, <2>4
       DEF Serve, CreateConversation, AskBusy, Acquire, ResolveExisting, OpenScratch,
           OpenConversation, InvokeBegin, Finalize, InvokeReturn, InvokeRaise, AfterRaise, SaveBundle,
           AppendTurnLog, StoreFails, TakeBackRows, TakeBackThread, DeleteBusy,
           DeleteConversation, DeleteConversationThread
  <2>. QED  BY <1>2, <2>2, <2>3, <2>4
<1>3. ASSUME NEW t \in Threads, CreateWorkspace(t) PROVE ScratchRoom'
  BY <1>1, <1>2, <1>3 DEF CreateWorkspace, InsertWorkspace, Request
<1>4. ASSUME NEW t \in Threads, OpenScratch(t) PROVE ScratchRoom'
  <2>1. \A u \in Threads : pc'[u] # "scratch"
    BY <1>1, <1>4 DEF OpenScratch, TypeOK, OneTurnAtATime, Turning
  <2>. QED  BY <1>1, <1>4, <2>1 DEF OpenScratch, InsertWorkspace
<1>5. ASSUME NEW t \in Threads, ResolveWorkspace(t) PROVE ScratchRoom'
  BY <1>1, <1>5 DEF ResolveWorkspace, TypeOK, store, Finish
<1>6. ASSUME NEW t \in Threads, Request(t) \/ Serve(t),
             ~CreateWorkspace(t), ~OpenScratch(t)
      PROVE  workspaces' \subseteq workspaces
  BY <1>6 DEF Request, DeleteWorkspace, CreateConversationCheck, AskExisting, AskNew, DeleteCheck,
      Serve, CreateConversation, AskBusy, Acquire, ResolveExisting, ResolveWorkspace, OpenConversation, InvokeBegin,
      Finalize, InvokeReturn, InvokeRaise, SaveBundle, AppendTurnLog, StoreFails, TakeBackRows,
      TakeBackThread, DeleteBusy, DeleteConversation, DeleteConversationThread, store
<1>7. ASSUME NEW t \in Threads, Request(t) \/ Serve(t) PROVE ScratchRoom'
  BY <1>1, <1>2, <1>3, <1>4, <1>5, <1>6, <1>7
<1>8. CASE Crash BY <1>1, <1>8 DEF Crash, store
<1>9. CASE UNCHANGED vars BY <1>1, <1>9 DEF vars, store
<1>. QED  BY <1>7, <1>8, <1>9 DEF Next, Quiet

(* What a step writes into a request is well typed.                        *)
LEMMA RequestsKept == Typed /\ [Next]_vars => req' \in [Threads -> Requests]
<1>. SUFFICES ASSUME Typed, [Next]_vars PROVE req' \in [Threads -> Requests]
  OBVIOUS
<1>1. TypeOK /\ \A t \in Threads : Carried(t)
  BY DEF Typed
<1>2. req \in [Threads -> Requests] /\ checkpoints \in [Ids -> Thread]
  BY <1>1 DEF TypeOK
<1>3. ASSUME NEW t \in Threads, NEW r \in Requests, req' = [req EXCEPT ![t] = r]
      PROVE  req' \in [Threads -> Requests]
  BY <1>2, <1>3
<1>. USE DEF At, Move, Release, ReleaseTurnLock
<1>4. ASSUME NEW t \in Threads, Finish(t) PROVE req' \in [Threads -> Requests]
  BY <1>3, <1>4, Constants DEF Finish
<1>5. CASE UNCHANGED req BY <1>2, <1>5
<1>6. ASSUME NEW t \in Threads, NEW w \in 0..MaxWorkspaces, NEW b \in Ids,
             req' = [req EXCEPT ![t].workspace = w, ![t].born = b]
      PROVE  req' \in [Threads -> Requests]
  BY <1>2, <1>6 DEF Requests
<1>7. ASSUME NEW t \in Threads, NEW c \in Ids, NEW b \in Ids,
             req' = [req EXCEPT ![t].conversation = c, ![t].born = b]
      PROVE  req' \in [Threads -> Requests]
  BY <1>2, <1>7 DEF Requests
<1>8. ASSUME NEW t \in Threads, Request(t) PROVE req' \in [Threads -> Requests]
  <2>1. CASE CreateConversationCheck(t) \/ AskNew(t)
    <3>1. births' \in Ids
      BY <1>1, <2>1, Constants DEF CreateConversationCheck, AskNew, TypeOK, Ids
    <3>2. \A w \in WorkspaceIds \cup {0} : w \in 0..MaxWorkspaces
      BY <1>1, Constants DEF TypeOK, Workspaces, WorkspaceIds
    <3>. QED BY <1>6, <2>1, <3>1, <3>2 DEF CreateConversationCheck, AskNew
  <2>2. CASE AskExisting(t) \/ DeleteCheck(t)
    <3>1. \A c \in conversations : c.id \in Ids /\ c.born \in Ids
      BY <1>1 DEF TypeOK, Conversations
    <3>. QED BY <1>7, <2>2, <3>1 DEF AskExisting, DeleteCheck
  <2>. QED BY <1>5, <1>8, <2>1, <2>2 DEF Request, CreateWorkspace, DeleteWorkspace
<1>9. ASSUME NEW t \in Threads, Serve(t), ~Finish(t), ~UNCHANGED req
      PROVE  req' \in [Threads -> Requests]
  <2>1. CASE ResolveExisting(t)
    <3>1. PICK c \in conversations : req' = [req EXCEPT ![t].born = c.born]
      BY <1>9, <2>1 DEF ResolveExisting, ConversationOf, ConversationIds
    <3>2. c.born \in Ids
      BY <1>1 DEF TypeOK, Conversations
    <3>. QED BY <1>2, <3>1, <3>2 DEF Requests
  <2>2. CASE ResolveWorkspace(t)
    <3>1. PICK w \in workspaces : req' = [req EXCEPT ![t].workspace = w.id]
      BY <1>9, <2>2 DEF ResolveWorkspace
    <3>2. w.id \in 0..MaxWorkspaces
      BY <1>1, Constants DEF TypeOK, Workspaces
    <3>. QED BY <1>2, <3>1, <3>2 DEF Requests
  <2>3. CASE OpenScratch(t)
    <3>1. NextId(WorkspaceIds) \in 0..MaxWorkspaces
      BY <1>1, <2>3, WorkspaceIdsFresh, Constants DEF OpenScratch, Typed, ScratchRoom
    <3>2. req' = [req EXCEPT ![t].workspace = NextId(WorkspaceIds)]
      BY <2>3 DEF OpenScratch
    <3>. QED BY <1>2, <3>1, <3>2 DEF Requests
  <2>4. CASE OpenConversation(t)
    <3>1. NextId(ConversationIds) \in Ids
      BY <2>4, ConversationIdsFresh DEF OpenConversation, Pending
    <3>2. req' = [req EXCEPT ![t].conversation = NextId(ConversationIds), ![t].created = TRUE]
      BY <2>4 DEF OpenConversation
    <3>. QED BY <1>2, <3>1, <3>2 DEF Requests
  <2>5. CASE InvokeBegin(t)
    <3>. DEFINE c == req[t].conversation
                state == [checkpoints[c] EXCEPT !.turn = @ + 1]
    <3>1. c \in Ids
      BY <1>1, <2>5 DEF InvokeBegin, Carried, OnConversation
    <3>2. state \in Thread
      BY <1>2, <3>1 DEF Thread
    <3>3. req' = [req EXCEPT ![t].state = state]
      BY <2>5 DEF InvokeBegin
    <3>. HIDE DEF state
    <3>. QED BY <1>2, <3>2, <3>3 DEF Requests
  <2>6. CASE Finalize(t)
    <3>. DEFINE state == [req[t].state EXCEPT !.turns = @ \cup {<<req[t].born, req[t].state.turn>>}]
    <3>1. req[t].state \in Thread /\ req[t].born \in Nat
      BY <1>2, Constants DEF Requests, Ids
    <3>2. state \in Thread
      BY <3>1 DEF Thread
    <3>3. req' = [req EXCEPT ![t].state = state]
      BY <2>6 DEF Finalize
    <3>. HIDE DEF state
    <3>. QED BY <1>2, <3>2, <3>3 DEF Requests
  <2>7. CASE InvokeReturn(t)
    <3>1. PICK ref \in Refs \cup {NoRef} : req' = [req EXCEPT ![t].ref = ref]
      BY <2>7 DEF InvokeReturn
    <3>. QED BY <1>2, <3>1 DEF Requests
  <2>. QED BY <1>9, <2>1, <2>2, <2>3, <2>4, <2>5, <2>6, <2>7
       DEF Serve, CreateConversation, AskBusy, Acquire, InvokeRaise, AfterRaise, SaveBundle,
           AppendTurnLog, StoreFails, TakeBackRows, TakeBackThread, DeleteBusy,
           DeleteConversation, DeleteConversationThread
<1>10. CASE Crash BY <1>10, Constants DEF Crash
<1>11. CASE UNCHANGED vars BY <1>2, <1>11 DEF vars
<1>. QED  BY <1>4, <1>5, <1>8, <1>9, <1>10, <1>11 DEF Next, Quiet

(* A step of a graph writes the state in memory, and nothing else, into    *)
(* the checkpoint of its conversation.                                     *)
LEMMA Checkpointed ==
    ASSUME Typed, NEW t \in Threads, InvokeBegin(t) \/ Finalize(t)
    PROVE  /\ req[t].conversation \in Ids
           /\ checkpoints' = [checkpoints EXCEPT ![req[t].conversation] = req'[t].state]
           /\ req'[t].conversation = req[t].conversation /\ req'[t].born = req[t].born
           /\ req'[t].created = req[t].created
           /\ InvokeBegin(t) =>
                 req'[t].state = [checkpoints[req[t].conversation] EXCEPT
                                     !.turn = checkpoints[req[t].conversation].turn + 1]
           /\ Finalize(t) =>
                 req'[t].state = [req[t].state EXCEPT
                     !.turns = req[t].state.turns \cup {<<req[t].born, req[t].state.turn>>}]
<1>1. req \in [Threads -> Requests] /\ Carried(t)
  BY DEF Typed, TypeOK
<1>2. req[t].conversation \in Ids
  BY <1>1 DEF InvokeBegin, Finalize, Carried, OnConversation, At
<1>3. CASE InvokeBegin(t)
  <2>. DEFINE state == [checkpoints[req[t].conversation] EXCEPT
                           !.turn = checkpoints[req[t].conversation].turn + 1]
  <2>1. req' = [req EXCEPT ![t].state = state]
        /\ checkpoints' = [checkpoints EXCEPT ![req[t].conversation] = state]
    BY <1>3 DEF InvokeBegin
  <2>2. ~Finalize(t)
    BY <1>3 DEF InvokeBegin, Finalize, At
  <2>. HIDE DEF state
  <2>3. req'[t].state = state /\ req'[t].conversation = req[t].conversation
        /\ req'[t].born = req[t].born /\ req'[t].created = req[t].created
    BY <1>1, <2>1 DEF Requests
  <2>. QED  BY <1>2, <2>1, <2>2, <2>3 DEF state
<1>4. CASE Finalize(t)
  <2>. DEFINE state == [req[t].state EXCEPT
                     !.turns = req[t].state.turns \cup {<<req[t].born, req[t].state.turn>>}]
  <2>1. req' = [req EXCEPT ![t].state = state]
    BY <1>4 DEF Finalize
  <2>2. checkpoints' = [checkpoints EXCEPT ![req[t].conversation] = state]
    BY <1>4 DEF Finalize
  <2>3. ~InvokeBegin(t)
    BY <1>4 DEF InvokeBegin, Finalize, At
  <2>. HIDE DEF state
  <2>4. req'[t].state = state /\ req'[t].conversation = req[t].conversation
        /\ req'[t].born = req[t].born /\ req'[t].created = req[t].created
    BY <1>1, <2>1 DEF Requests
  <2>. QED  BY <1>2, <2>2, <2>3, <2>4 DEF state
<1>. QED  BY <1>3, <1>4

(* The types of what is stored.                                            *)
StoreTyped ==
    /\ workspaces \subseteq Workspaces /\ conversations \subseteq Conversations
    /\ \A v, w \in workspaces : v.id = w.id => v = w
    /\ \A c, d \in conversations : c.id = d.id => c = d
    /\ turn_log \subseteq Rows /\ bundles \subseteq Refs
    /\ checkpoints \in [Ids -> Thread]

LEMMA StoreTypedKept == Typed /\ [Next]_vars => StoreTyped'
<1>. SUFFICES ASSUME Typed, [Next]_vars PROVE StoreTyped'
  OBVIOUS
<1>1. /\ TypeOK /\ StoreTyped /\ \A t \in Threads : Carried(t)
      /\ req \in [Threads -> Requests] /\ req' \in [Threads -> Requests]
  BY RequestsKept DEF Typed, TypeOK, StoreTyped
<1>. DEFINE NoneMade ==
        /\ workspaces' \subseteq workspaces /\ conversations' \subseteq conversations
        /\ turn_log' \subseteq turn_log /\ bundles' \subseteq bundles
<1>2. ASSUME NoneMade, checkpoints' = checkpoints PROVE StoreTyped'
  BY <1>1, <1>2 DEF StoreTyped
<1>. USE DEF store, At
<1>8. ASSUME NEW scratch \in BOOLEAN, InsertWorkspace(scratch), NextId(WorkspaceIds) \in 1..MaxWorkspaces
      PROVE  workspaces' \subseteq Workspaces /\ \A v, w \in workspaces' : v.id = w.id => v = w
  <2>. DEFINE new == [id |-> NextId(WorkspaceIds), scratch |-> scratch]
  <2>1. new \in Workspaces /\ \A w \in workspaces : w.id # new.id
    BY <1>1, <1>8, WorkspaceIdsFresh DEF Workspaces
  <2>2. workspaces' = workspaces \cup {new}
    BY <1>8 DEF InsertWorkspace
  <2>. HIDE DEF new
  <2>. QED  BY <1>1, <2>1, <2>2 DEF StoreTyped
<1>3. ASSUME NEW t \in Threads, Request(t) PROVE StoreTyped'
  <2>1. CASE CreateWorkspace(t)
    <3>1. NextId(WorkspaceIds) \in 1..MaxWorkspaces
      BY <1>1, <2>1, WorkspaceIdsFresh, Constants DEF CreateWorkspace
    <3>. QED BY <1>1, <1>8, <2>1, <3>1 DEF CreateWorkspace, StoreTyped
  <2>. QED BY <1>2, <1>3, <2>1
       DEF Request, DeleteWorkspace, CreateConversationCheck, AskExisting, AskNew, DeleteCheck
<1>4. ASSUME NEW t \in Pending, NEW w \in 1..MaxWorkspaces, NEW by_ask \in BOOLEAN,
             InsertConversation(w, req[t].born, by_ask), req[t].born \in Ids
      PROVE  /\ conversations' \subseteq Conversations
             /\ \A c, d \in conversations' : c.id = d.id => c = d
  <2>. DEFINE new == [id |-> NextId(ConversationIds), workspace |-> w, born |-> req[t].born,
                      by_ask |-> by_ask]
  <2>1. new \in Conversations /\ \A c \in conversations : c.id # new.id
    BY <1>4, ConversationIdsFresh DEF Conversations
  <2>2. conversations' = conversations \cup {new}
    BY <1>4 DEF InsertConversation
  <2>. HIDE DEF new
  <2>. QED  BY <1>1, <2>1, <2>2 DEF StoreTyped
<1>5. ASSUME NEW t \in Threads, Serve(t) PROVE StoreTyped'
  <2>1. CASE CreateConversation(t) \/ OpenConversation(t)
    <3>1. t \in Pending /\ req[t].born \in Ids /\ req[t].workspace \in 1..MaxWorkspaces
      <4>1. req[t] \in Requests /\ Carried(t) /\ pc[t] \in {"create", "open"}
        BY <1>1, <2>1 DEF CreateConversation, OpenConversation
      <4>2. req[t].workspace \in 0..MaxWorkspaces /\ req[t].workspace # 0 /\ req[t].born \in Ids
        BY <4>1 DEF Requests, Carried
      <4>. QED BY <4>1, <4>2, Constants DEF Pending
    <3>. QED BY <1>1, <1>4, <2>1, <3>1 DEF CreateConversation, OpenConversation, StoreTyped
  <2>2. CASE OpenScratch(t)
    <3>1. NextId(WorkspaceIds) \in 1..MaxWorkspaces
      BY <1>1, <2>2, WorkspaceIdsFresh DEF OpenScratch, Typed, ScratchRoom
    <3>. QED BY <1>1, <1>8, <2>2, <3>1 DEF OpenScratch, StoreTyped
  <2>3. CASE InvokeBegin(t) \/ Finalize(t)
    <3>1. checkpoints' \in [Ids -> Thread]
      <4>1. req'[t] \in Requests
        BY <1>1
      <4>2. req'[t].state \in Thread
        BY <4>1 DEF Requests
      <4>. QED BY <1>1, <2>3, <4>2, Checkpointed DEF StoreTyped
    <3>. QED BY <1>1, <2>3, <3>1 DEF InvokeBegin, Finalize, StoreTyped
  <2>8. CASE InvokeReturn(t)
    <3>1. req[t].state \in Thread
      BY <1>1 DEF Requests
    <3>2. checkpoints' \in [Ids -> Thread]
      BY <1>1, <2>8, <3>1 DEF InvokeReturn, StoreTyped
    <3>. QED BY <1>1, <2>8, <3>2 DEF InvokeReturn, StoreTyped
  <2>4. CASE SaveBundle(t)
    <3>1. req[t].ref \in Refs
      BY <1>1, <2>4 DEF SaveBundle, Carried
    <3>. QED BY <1>1, <2>4, <3>1 DEF SaveBundle, StoreTyped
  <2>5. CASE AppendTurnLog(t)
    <3>. DEFINE row == [conversation |-> req[t].conversation, turn |-> req[t].state.turn,
                        ref |-> req[t].ref, born |-> req[t].born]
    <3>1. row \in Rows
      BY <1>1, <2>5 DEF AppendTurnLog, Carried, OnConversation, Requests, Thread, Rows
    <3>2. turn_log' = turn_log \cup {row}
      BY <2>5 DEF AppendTurnLog
    <3>. HIDE DEF row
    <3>. QED BY <1>1, <2>5, <3>1, <3>2 DEF AppendTurnLog, StoreTyped
  <2>6. CASE TakeBackRows(t) \/ DeleteConversation(t)
    BY <1>2, <2>6 DEF TakeBackRows, DeleteConversation, DeleteRows
  <2>7. CASE TakeBackThread(t) \/ DeleteConversationThread(t)
    <3>1. checkpoints' \in [Ids -> Thread]
      BY <1>1, <2>7, Constants
         DEF TakeBackThread, DeleteConversationThread, DeleteThread, ThreadDeleted, StoreTyped
    <3>. QED BY <1>1, <2>7, <3>1 DEF TakeBackThread, DeleteConversationThread, StoreTyped
  <2>. QED BY <1>2, <1>5, <2>1, <2>2, <2>3, <2>4, <2>5, <2>6, <2>7, <2>8
       DEF Serve, AskBusy, Acquire, ResolveExisting, ResolveWorkspace, InvokeRaise, StoreFails, DeleteBusy
<1>6. CASE Crash BY <1>2, <1>6 DEF Crash
<1>7. CASE UNCHANGED vars BY <1>2, <1>7 DEF vars
<1>. QED  BY <1>3, <1>5, <1>6, <1>7 DEF Next, Quiet

LEMMA StoreLockKept ==
    Typed /\ [Next]_vars =>
        /\ store_lock' \in Threads \cup {Nobody}
        /\ \A t \in Threads : store_lock' = t <=> pc'[t] \in {"take_back_thread", "delete_thread"}
<1>. DEFINE Held == /\ store_lock \in Threads \cup {Nobody}
                    /\ \A t \in Threads : store_lock = t <=> pc[t] \in {"take_back_thread", "delete_thread"}
<1>. SUFFICES ASSUME Typed, [Next]_vars PROVE Held'
  OBVIOUS
<1>1. Held /\ pc \in [Threads -> Labels]
  BY DEF Typed, TypeOK
<1>. USE <1>1, Constants DEF At, Move, Finish, Release, ReleaseTurnLock
<1>2. ASSUME NEW t \in Threads, Request(t) PROVE Held'
  BY <1>2 DEF Request, CreateWorkspace, DeleteWorkspace, CreateConversationCheck, AskExisting,
              AskNew, DeleteCheck
<1>3. ASSUME NEW t \in Threads, Serve(t) PROVE Held'
  <2>1. CASE CreateConversation(t) \/ AskBusy(t) \/ Acquire(t) \/ ResolveExisting(t)
    BY <2>1 DEF CreateConversation, AskBusy, Acquire, ResolveExisting
  <2>2. CASE ResolveWorkspace(t) \/ OpenScratch(t) \/ OpenConversation(t)
    BY <2>2 DEF ResolveWorkspace, OpenScratch, OpenConversation
  <2>3. CASE InvokeBegin(t) \/ Finalize(t) \/ InvokeReturn(t) \/ InvokeRaise(t)
    BY <2>3 DEF InvokeBegin, Finalize, InvokeReturn, InvokeRaise, AfterRaise
  <2>4. CASE SaveBundle(t) \/ AppendTurnLog(t)
    BY <2>4 DEF SaveBundle, AppendTurnLog
  <2>5. CASE StoreFails(t)
    BY <2>5 DEF StoreFails, CanStore
  <2>6. CASE TakeBackRows(t) \/ TakeBackThread(t)
    BY <2>6 DEF TakeBackRows, TakeBackThread, DeleteRows, HeldBetween, DeleteThread, CanStore
  <2>7. CASE DeleteBusy(t) \/ DeleteConversation(t) \/ DeleteConversationThread(t)
    BY <2>7 DEF DeleteBusy, DeleteConversation, DeleteConversationThread, DeleteRows,
                HeldBetween, DeleteThread, CanStore
  <2>. QED BY <1>3, <2>1, <2>2, <2>3, <2>4, <2>5, <2>6, <2>7 DEF Serve
<1>4. CASE Crash BY <1>4 DEF Crash
<1>5. CASE UNCHANGED vars BY <1>5 DEF vars
<1>. QED  BY <1>2, <1>3, <1>4, <1>5 DEF Next, Quiet

LEMMA CountsKept ==
    Typed /\ [Next]_vars =>
        /\ births' \in 0..MaxConversations /\ asked' \in 0..MaxTurns /\ failures' \in 0..MaxFailures
        /\ mishaps' \subseteq Mishaps /\ mishaps \subseteq mishaps'
<1>. SUFFICES ASSUME Typed, [Next]_vars
     PROVE  /\ births' \in 0..MaxConversations /\ asked' \in 0..MaxTurns /\ failures' \in 0..MaxFailures
            /\ mishaps' \subseteq Mishaps /\ mishaps \subseteq mishaps'
  OBVIOUS
<1>1. TypeOK BY DEF Typed
<1>. USE <1>1, Constants DEF TypeOK, counts, Mishaps
<1>2. ASSUME NEW t \in Threads, Request(t)
      PROVE  /\ births' \in 0..MaxConversations /\ asked' \in 0..MaxTurns
             /\ failures' = failures /\ mishaps' = mishaps
  BY <1>2 DEF Request, CreateWorkspace, DeleteWorkspace, CreateConversationCheck, AskExisting,
              AskNew, DeleteCheck
<1>3. ASSUME NEW t \in Threads, Serve(t)
      PROVE  /\ births' = births /\ asked' = asked /\ failures' \in 0..MaxFailures
             /\ mishaps' \subseteq Mishaps /\ mishaps \subseteq mishaps'
  <2>1. CASE StoreFails(t) BY <2>1 DEF StoreFails
  <2>2. CASE CreateConversation(t) \/ OpenConversation(t)
    BY <2>2 DEF CreateConversation, OpenConversation, InsertConversation
  <2>. QED BY <1>3, <2>1, <2>2
       DEF Serve, AskBusy, Acquire, ResolveExisting, ResolveWorkspace, OpenScratch,
           InvokeBegin, Finalize, InvokeReturn, InvokeRaise, SaveBundle, AppendTurnLog, TakeBackRows,
           TakeBackThread, DeleteBusy, DeleteConversation, DeleteConversationThread
<1>4. CASE Crash BY <1>4 DEF Crash
<1>5. CASE UNCHANGED vars BY <1>5 DEF vars
<1>. QED  BY <1>2, <1>3, <1>4, <1>5 DEF Next, Quiet

LEMMA TypedKept == Typed /\ [Next]_vars => Typed'
<1>. SUFFICES ASSUME Typed, [Next]_vars PROVE Typed'
  OBVIOUS
<1>1. Locks
  BY DEF Typed, TypeOK, Locks
<1>2. Locks'
  BY <1>1, LocksKept
<1>3. TypeOK'
  BY <1>2, RequestsKept, StoreTypedKept, StoreLockKept, CountsKept DEF TypeOK, StoreTyped, Locks
<1>. QED  BY <1>2, <1>3, CarriedKept, RoomKept, ScratchRoomKept DEF Typed, Locks

(* Type correctness: ids never outgrow the births that made room for them, *)
(* nor workspaces their bound, for every number of threads.                *)
THEOREM TypeCorrect == Spec => []TypeOK
<1>1. Typed => TypeOK BY DEF Typed
<1>. QED  BY <1>1, TypedInitially, TypedKept, PTL DEF Spec
-------------------------------------------------------------------------------
(***************************************************************************)
(* What the web process leaves in its store: the log can be read back, a   *)
(* conversation's history is its own, and what is at rest is consistent.   *)
(***************************************************************************)
Deleting == {"take_back_thread", "delete_thread"}

(* The conversation a thread works on is there, the one it was asked of.   *)
Served(t) == \E c \in conversations : c.id = req[t].conversation /\ c.born = req[t].born

(* A turn has a number no row of its conversation wears, and what it       *)
(* carries is its thread's checkpoint.                                     *)
Numbered(t) ==
    /\ req[t].state = checkpoints[req[t].conversation]
    /\ \A row \in turn_log : row.conversation = req[t].conversation => row.turn < req[t].state.turn

(* Between the two steps of a delete the id is worn by nothing.            *)
Vacated(t) ==
    /\ \A c \in conversations : c.id # req[t].conversation
    /\ \A row \in turn_log : row.conversation # req[t].conversation

LogThread(t) ==
    /\ pc[t] \in OnConversation => Served(t)
    /\ pc[t] \in {"running", "finalized", "save", "log"} => Numbered(t)
    /\ pc[t] = "log" /\ req[t].ref # NoRef => req[t].ref \in bundles
    /\ pc[t] \in Deleting => Vacated(t)

LogStore ==
    /\ LogReadable
    /\ \A row \in turn_log : row.turn <= checkpoints[row.conversation].turn

Log == LogStore /\ \A t \in Threads : LogThread(t)
-------------------------------------------------------------------------------
LEMMA LogInitially == Init => Log
BY DEF Init, Log, LogStore, LogThread, LogReadable, OnConversation, Deleting

(* A step that leaves the rows and the checkpoints alone, and its thread   *)
(* off the conversation.                                                   *)
LEMMA LogFrame ==
    ASSUME Typed, Log, NEW t \in Threads, Request(t) \/ Serve(t),
           UNCHANGED <<conversations, turn_log, bundles, checkpoints>>,
           LogThread(t)'
    PROVE  Log'
<1>1. \A u \in Threads \ {t} : LogThread(u)'
  BY OthersStay DEF Typed, Log, LogThread, Served, Numbered, Vacated
<1>2. LogStore'
  BY DEF Log, LogStore, LogReadable
<1>. QED  BY <1>1, <1>2 DEF Log

(* While one thread holds the turn lock no other is on a conversation.     *)
LEMMA NobodyElseOn ==
    ASSUME Typed, NEW t \in Threads, pc[t] \in Turning \/ turn_lock = Nobody
    PROVE  \A u \in Threads \ {t} : pc[u] \notin Turning
BY Constants DEF Typed, OneTurnAtATime

LEMMA NobodyElseDeleting ==
    ASSUME Typed, NEW t \in Threads, CanStore(t)
    PROVE  \A u \in Threads \ {t} : pc[u] \notin Deleting
BY Constants DEF Typed, TypeOK, CanStore, Deleting

LEMMA LogRequested ==
    ASSUME Typed, Log, NEW t \in Threads, Request(t)
    PROVE  Log'
<1>. USE DEF Typed, TypeOK
<1>1. UNCHANGED <<conversations, turn_log, bundles, checkpoints>>
  BY DEF Request, CreateWorkspace, DeleteWorkspace, CreateConversationCheck, AskExisting, AskNew,
         DeleteCheck, store
<1>2. pc'[t] \notin OnConversation \cup Deleting
  BY DEF Request, CreateWorkspace, DeleteWorkspace, CreateConversationCheck, AskExisting, AskNew,
         DeleteCheck, At, Move, OnConversation, Deleting
<1>3. LogThread(t)'
  BY <1>2 DEF LogThread, OnConversation
<1>. QED  BY <1>1, <1>3, LogFrame

(* A row is inserted under an id nothing wears.                            *)
LEMMA LogInserted ==
    ASSUME Typed, Log, NEW t \in Threads, CreateConversation(t) \/ OpenConversation(t)
    PROVE  Log'
<1>. DEFINE id == NextId(ConversationIds)
            new == [id |-> id, workspace |-> req[t].workspace, born |-> req[t].born,
                    by_ask |-> pc[t] = "open"]
<1>1. t \in Pending /\ CanStore(t)
  BY DEF CreateConversation, OpenConversation, At, Pending
<1>2. \A c \in conversations : c.id # id
  BY <1>1, ConversationIdsFresh
<1>3. conversations' = conversations \cup {new}
  BY DEF CreateConversation, OpenConversation, InsertConversation, At
<1>4. UNCHANGED <<turn_log, bundles, checkpoints>>
  BY DEF CreateConversation, OpenConversation
<1>5. LogStore'
  BY <1>3, <1>4 DEF Log, LogStore, LogReadable
<1>6. \A u \in Threads \ {t} : LogThread(u)'
  BY <1>1, <1>3, <1>4, OthersStay, NobodyElseDeleting DEF Serve, Typed, Log, LogThread, Served, Numbered
<1>7. LogThread(t)'
  <2>. USE DEF Typed, TypeOK, LogThread, OnConversation, Deleting, At, Move, Finish
  <2>1. CASE CreateConversation(t)
    BY <2>1 DEF CreateConversation
  <2>2. CASE OpenConversation(t)
    <3>1. pc' = [pc EXCEPT ![t] = "invoke"] /\ new.id = id /\ new.born = req[t].born
      BY <2>2 DEF OpenConversation
    <3>2. req' = [req EXCEPT ![t].conversation = id, ![t].created = TRUE]
      BY <2>2 DEF OpenConversation
    <3>. HIDE DEF id, new
    <3>3. req[t] \in Requests
      OBVIOUS
    <3>4. req'[t].conversation = id /\ req'[t].born = req[t].born
      BY <3>2, <3>3 DEF Requests
    <3>. QED  BY <1>3, <3>1, <3>4 DEF Served
  <2>. QED  BY <2>1, <2>2
<1>. QED  BY <1>5, <1>6, <1>7 DEF Log

(* The steps of a turn from its conversation to its end.                   *)
LEMMA LogInvoked ==
    ASSUME Typed, Typed', Log, NEW t \in Threads, InvokeBegin(t) \/ Finalize(t)
    PROVE  Log'
<1>. DEFINE c == req[t].conversation
            state == req'[t].state
<1>1. /\ pc[t] \in OnConversation /\ Served(t) /\ c \in Ids /\ checkpoints \in [Ids -> Thread]
      /\ turn_log \subseteq Rows
  BY DEF Typed, TypeOK, Carried, Log, LogThread, InvokeBegin, Finalize, At, OnConversation
<1>2. UNCHANGED <<conversations, turn_log, bundles>>
  BY DEF InvokeBegin, Finalize, store
<1>3. /\ checkpoints' = [checkpoints EXCEPT ![c] = state]
      /\ req'[t].conversation = c /\ req'[t].born = req[t].born
  BY Checkpointed
<1>4. /\ checkpoints[c].turn <= state.turn
      /\ \A row \in turn_log : row.conversation = c => row.turn < state.turn
      /\ state.turn \in Nat
  <2>4. req'[t] \in Requests
    BY DEF Typed, TypeOK
  <2>5. state.turn \in Nat
    BY <2>4 DEF Requests, Thread
  <2>1. checkpoints[c] \in Thread /\ \A row \in turn_log : row.turn \in Nat
    BY <1>1 DEF Rows
  <2>2. CASE InvokeBegin(t)
    <3>1. state.turn = checkpoints[c].turn + 1
      BY <2>1, <2>2, Checkpointed DEF Thread
    <3>2. \A row \in turn_log : row.conversation = c => row.turn <= checkpoints[c].turn
      BY DEF Log, LogStore
    <3>. QED  BY <2>1, <3>1, <3>2 DEF Thread
  <2>3. CASE Finalize(t)
    <3>1. Numbered(t)
      BY <2>3 DEF Log, LogThread, Finalize, At
    <3>2. state.turn = req[t].state.turn
      BY <2>1, <2>3, <3>1, Checkpointed DEF Thread, Numbered
    <3>. QED  BY <2>1, <3>1, <3>2 DEF Thread, Numbered
  <2>. QED  BY <2>2, <2>3, <2>5
<1>. HIDE DEF c, state
<1>5. LogStore'
  <2>1. ASSUME NEW row \in turn_log PROVE row.turn <= checkpoints'[row.conversation].turn
    <3>1. row.conversation \in Ids /\ row.turn \in Nat
      BY <1>1 DEF Rows
    <3>2. CASE row.conversation = c
      BY <1>1, <1>3, <1>4, <3>1, <3>2
      DEF Log, LogStore
    <3>3. CASE row.conversation # c
      BY <1>1, <1>3, <3>1, <3>3 DEF Log, LogStore
    <3>. QED  BY <3>2, <3>3
  <2>. QED  BY <1>2, <2>1 DEF Log, LogStore, LogReadable
<1>6. ASSUME NEW u \in Threads, u # t PROVE LogThread(u)'
  <2>1. pc'[u] = pc[u] /\ req'[u] = req[u]
    BY <1>6, OthersStay DEF Serve, Typed
  <2>2. pc[u] \notin OnConversation
    BY <1>1, <1>6, NobodyElseOn DEF Turning
  <2>. QED  BY <1>2, <2>1, <2>2 DEF Log, LogThread, OnConversation, Vacated
<1>7. LogThread(t)'
  <2>1. pc'[t] \in {"running", "finalized"}
    BY DEF Typed, TypeOK, InvokeBegin, Finalize, Move
  <2>3. Served(t)'
    BY <1>1, <1>2, <1>3 DEF Served, c
  <2>4. Numbered(t)'
    BY <1>1, <1>2, <1>3, <1>4 DEF Numbered, state, c
  <2>. QED  BY <2>1, <2>3, <2>4 DEF LogThread, Deleting
<1>. QED  BY <1>5, <1>6, <1>7 DEF Log

(* summarize's checkpoint is the one finalize wrote.                       *)
LEMMA ReturnWritesTheSame ==
    ASSUME Typed, Log, NEW t \in Threads, InvokeReturn(t)
    PROVE  /\ UNCHANGED <<conversations, turn_log, bundles, checkpoints>>
           /\ pc[t] = "finalized" /\ pc'[t] \in {"save", "log"}
           /\ pc'[t] = "log" => req'[t].ref = NoRef
           /\ \A field \in {"conversation", "born", "created", "state"} :
                 req'[t][field] = req[t][field]
<1>1. /\ req[t].conversation \in Ids /\ checkpoints \in [Ids -> Thread]
      /\ req[t] \in Requests /\ req \in [Threads -> Requests] /\ pc \in [Threads -> Labels]
  BY DEF Typed, TypeOK, Carried, InvokeReturn, At, OnConversation
<1>2. pc[t] = "finalized" /\ Numbered(t)
  BY DEF InvokeReturn, At, Log, LogThread
<1>3. checkpoints' = [checkpoints EXCEPT ![req[t].conversation] = req[t].state]
  BY DEF InvokeReturn
<1>4. checkpoints' = checkpoints
  BY <1>1, <1>2, <1>3 DEF Numbered
<1>5. PICK ref \in Refs \cup {NoRef} :
          /\ req' = [req EXCEPT ![t].ref = ref]
          /\ Move(t, IF ref = NoRef THEN "log" ELSE "save")
  BY DEF InvokeReturn
<1>6. req'[t].ref = ref
  BY <1>1, <1>5 DEF Requests
<1>7. pc'[t] = IF ref = NoRef THEN "log" ELSE "save"
  BY <1>1, <1>5 DEF Move
<1>8. /\ req'[t].conversation = req[t].conversation /\ req'[t].born = req[t].born
      /\ req'[t].created = req[t].created /\ req'[t].state = req[t].state
  BY <1>1, <1>5 DEF Requests
<1>. QED  BY <1>2, <1>4, <1>6, <1>7, <1>8 DEF InvokeReturn, store

LEMMA LogReturned ==
    ASSUME Typed, Log, NEW t \in Threads, InvokeReturn(t)
    PROVE  Log'
<1>1. /\ UNCHANGED <<conversations, turn_log, bundles, checkpoints>>
      /\ pc[t] = "finalized" /\ pc'[t] \in {"save", "log"}
      /\ pc'[t] = "log" => req'[t].ref = NoRef
      /\ req'[t].conversation = req[t].conversation /\ req'[t].born = req[t].born
      /\ req'[t].state = req[t].state
  BY ReturnWritesTheSame
<1>2. Served(t) /\ Numbered(t)
  BY <1>1 DEF Log, LogThread, OnConversation
<1>3. LogThread(t)'
  BY <1>1, <1>2 DEF LogThread, Served, Numbered, Deleting
<1>. QED  BY <1>1, <1>3, LogFrame DEF Serve

(* The bundle is stored before the row that cites it is written, and the   *)
(* row has a number of its own.                                            *)
LEMMA LogSaved ==
    ASSUME Typed, Log, NEW t \in Threads, SaveBundle(t)
    PROVE  Log'
<1>. USE DEF SaveBundle, At, Move
<1>1. /\ UNCHANGED <<conversations, turn_log, checkpoints, req>>
      /\ bundles' = bundles \cup {req[t].ref} /\ pc[t] = "save" /\ pc' = [pc EXCEPT ![t] = "log"]
  OBVIOUS
<1>2. LogStore'
  BY <1>1 DEF Log, LogStore, LogReadable
<1>3. \A u \in Threads \ {t} : LogThread(u)'
  BY <1>1, OthersStay DEF Serve, Typed, Log, LogThread, Served, Numbered, Vacated
<1>4. LogThread(t)'
  BY <1>1 DEF Typed, TypeOK, Log, LogThread, OnConversation, Served, Numbered, Deleting
<1>. QED  BY <1>2, <1>3, <1>4 DEF Log

LEMMA LogAppended ==
    ASSUME Typed, Log, NEW t \in Threads, AppendTurnLog(t)
    PROVE  Log'
<1>. DEFINE new == [conversation |-> req[t].conversation, turn |-> req[t].state.turn,
                    ref |-> req[t].ref, born |-> req[t].born]
<1>1. /\ UNCHANGED <<conversations, bundles, checkpoints>> /\ turn_log' = turn_log \cup {new}
      /\ pc[t] = "log" /\ pc' = [pc EXCEPT ![t] = "idle"]
  BY DEF AppendTurnLog, At, Release, ReleaseTurnLock, Finish
<1>2. /\ Served(t) /\ Numbered(t) /\ (new.ref # NoRef => new.ref \in bundles)
      /\ req[t].state \in Thread
  <2>1. req[t] \in Requests
    BY DEF Typed, TypeOK
  <2>. QED  BY <1>1, <2>1 DEF Log, LogThread, OnConversation, Requests
<1>3. \A row \in turn_log : row.conversation = new.conversation => row.turn < new.turn
  BY <1>2 DEF Numbered
<1>4. new.turn <= checkpoints[new.conversation].turn /\ new.turn \in Nat
  BY <1>2 DEF Numbered, Thread
<1>5. \E d \in conversations : d.id = new.conversation /\ d.born = new.born
  BY <1>2 DEF Served
<1>6. turn_log \subseteq Rows
  BY DEF Typed, TypeOK
<1>. HIDE DEF new
<1>7. LogStore'
  <2>1. \A row \in turn_log' : /\ \E d \in conversations : d.id = row.conversation /\ d.born = row.born
                               /\ row.ref # NoRef => row.ref \in bundles
    BY <1>1, <1>2, <1>5 DEF Log, LogStore, LogReadable
  <2>2. \A r, q \in turn_log' : r.conversation = q.conversation /\ r.turn = q.turn => r = q
    BY <1>1, <1>3, <1>4, <1>6 DEF Log, LogStore, LogReadable, Rows
  <2>. QED  BY <1>1, <1>4, <2>1, <2>2 DEF Log, LogStore, LogReadable
<1>8. \A u \in Threads \ {t} : LogThread(u)'
  <2>1. ASSUME NEW u \in Threads \ {t} PROVE LogThread(u)'
    <3>1. pc[u] \notin Turning /\ pc[u] \notin Deleting /\ pc'[u] = pc[u]
      BY <1>1, NobodyElseOn, NobodyElseDeleting, OthersStay
         DEF Serve, Typed, AppendTurnLog, Turning, OnConversation
    <3>. QED  BY <3>1 DEF LogThread, Turning, OnConversation
  <2>. QED  BY <2>1
<1>9. LogThread(t)'
  BY <1>1 DEF Typed, TypeOK, LogThread, OnConversation, Deleting
<1>. QED  BY <1>7, <1>8, <1>9 DEF Log

(* A delete in order finds no turn on the way, takes a conversation's rows *)
(* with it and leaves every bundle another row cites.                      *)
LEMMA LogRowsDeleted ==
    ASSUME Typed, Log, NEW t \in Threads, NEW id, id = req[t].conversation,
           DeleteRows(t, id), UNCHANGED <<checkpoints, req>>,
           pc'[t] \in Deleting, Serve(t),
           pc[t] = "take_back" \/ turn_lock = Nobody
    PROVE  Log'
<1>1. /\ bundles' = bundles \ DoomedBundles(id)
      /\ turn_log' = {row \in turn_log : row.conversation # id}
      /\ conversations' = {c \in conversations : c.id # id}
      /\ CanStore(t)
  BY DEF DeleteRows
<1>2. \A row \in turn_log' : row.ref # NoRef => row.ref \in bundles'
  BY <1>1 DEF Log, LogStore, LogReadable, DoomedBundles, CitedBy
<1>3. \A row \in turn_log' : \E c \in conversations' : c.id = row.conversation /\ c.born = row.born
  BY <1>1 DEF Log, LogStore, LogReadable
<1>4. LogStore'
  BY <1>1, <1>2, <1>3 DEF Log, LogStore, LogReadable
<1>5. ASSUME NEW u \in Threads \ {t} PROVE LogThread(u)'
  <2>1. pc[u] \notin Turning /\ pc[u] \notin Deleting /\ pc'[u] = pc[u]
    BY <1>1, NobodyElseOn, NobodyElseDeleting, OthersStay DEF Typed, Turning
  <2>. QED  BY <2>1 DEF LogThread, Turning, OnConversation
<1>6. LogThread(t)'
  BY <1>1 DEF LogThread, OnConversation, Deleting, Vacated
<1>. QED  BY <1>4, <1>5, <1>6 DEF Log

LEMMA LogThreadDeleted ==
    ASSUME Typed, Log, NEW t \in Threads, TakeBackThread(t) \/ DeleteConversationThread(t)
    PROVE  Log'
<1>. DEFINE id == req[t].conversation
<1>1. /\ UNCHANGED <<conversations, turn_log, bundles>>
      /\ checkpoints' = [checkpoints EXCEPT ![id] = EmptyThread]
      /\ pc[t] \in Deleting /\ pc' = [pc EXCEPT ![t] = "idle"]
  BY DEF TakeBackThread, DeleteConversationThread, DeleteThread, ThreadDeleted, store, Deleting, At,
         Release, ReleaseTurnLock, Finish
<1>2. /\ \A c \in conversations : c.id # id
      /\ \A row \in turn_log : row.conversation # id
  BY <1>1 DEF Log, LogThread, Vacated
<1>3. checkpoints \in [Ids -> Thread] /\ turn_log \subseteq Rows
  BY DEF Typed, TypeOK
<1>. HIDE DEF id
<1>4. LogStore'
  <2>1. ASSUME NEW row \in turn_log PROVE row.turn <= checkpoints'[row.conversation].turn
    <3>1. row.conversation \in Ids /\ row.conversation # id
      BY <1>2, <1>3 DEF Rows
    <3>. QED  BY <1>1, <1>3, <3>1 DEF Log, LogStore
  <2>. QED  BY <1>1, <2>1 DEF Log, LogStore, LogReadable
<1>5. ASSUME NEW u \in Threads \ {t} PROVE LogThread(u)'
  <2>1. pc'[u] = pc[u] /\ req'[u] = req[u] /\ Carried(u)
    BY OthersStay DEF Serve, Typed
  <2>2. CASE pc[u] \in OnConversation
    <3>1. Served(u) /\ req[u].conversation \in Ids /\ LogThread(u)
      BY <2>1, <2>2 DEF Log, LogThread, Carried
    <3>2. req[u].conversation # id
      BY <1>2, <3>1 DEF Served
    <3>3. checkpoints'[req[u].conversation] = checkpoints[req[u].conversation]
      BY <1>1, <1>3, <3>1, <3>2
    <3>. QED  BY <1>1, <2>1, <3>1, <3>3 DEF LogThread, Served, Numbered, Vacated
  <2>3. CASE pc[u] \notin OnConversation
    BY <1>1, <2>1, <2>3 DEF Log, LogThread, OnConversation, Vacated
  <2>. QED  BY <2>2, <2>3
<1>6. LogThread(t)'
  BY <1>1 DEF Typed, TypeOK, LogThread, OnConversation, Deleting
<1>. QED  BY <1>4, <1>5, <1>6 DEF Log

(* The steps that move a thread and nothing it stores.                     *)
LEMMA LogMoved ==
    ASSUME Typed, Log, NEW t \in Threads,
           \/ AskBusy(t) \/ Acquire(t) \/ ResolveExisting(t) \/ ResolveWorkspace(t) \/ OpenScratch(t)
           \/ InvokeRaise(t) \/ StoreFails(t) \/ DeleteBusy(t),
           "stale_check" \notin mishaps'
    PROVE  Log'
<1>1. UNCHANGED <<conversations, turn_log, bundles, checkpoints>>
  BY DEF AskBusy, Acquire, ResolveExisting, ResolveWorkspace, OpenScratch, InvokeRaise, StoreFails,
         DeleteBusy, store
<1>2. CASE ResolveExisting(t) /\ req[t].conversation \in ConversationIds
  <2>1. PICK c \in conversations : /\ c = ConversationOf(req[t].conversation)
                                   /\ c.id = req[t].conversation
    BY <1>2 DEF ConversationOf, ConversationIds
  <2>2. /\ req' = [req EXCEPT ![t].born = c.born] /\ pc' = [pc EXCEPT ![t] = "invoke"]
    BY <1>2, <2>1 DEF ResolveExisting, Move
  <2>3. req[t] \in Requests
    BY DEF Typed, TypeOK
  <2>4. req'[t].conversation = c.id /\ req'[t].born = c.born
    BY <2>1, <2>2, <2>3 DEF Requests, Typed, TypeOK
  <2>5. LogThread(t)'
    BY <1>1, <2>2, <2>4 DEF LogThread, Served, Deleting, Typed, TypeOK
  <2>. QED  BY <1>1, <1>2, <2>5, LogFrame DEF Serve
<1>3. CASE ~(ResolveExisting(t) /\ req[t].conversation \in ConversationIds)
  <2>1. pc'[t] \notin OnConversation \cup Deleting
    BY <1>3 DEF Typed, TypeOK, AskBusy, Acquire, ResolveExisting, ResolveWorkspace, OpenScratch,
                InvokeRaise, AfterRaise, StoreFails, DeleteBusy, Move, Release, ReleaseTurnLock, Finish,
                OnConversation, Deleting
  <2>2. LogThread(t)'
    BY <2>1 DEF LogThread, OnConversation
  <2>. QED  BY <1>1, <2>2, LogFrame DEF Serve
<1>. QED  BY <1>2, <1>3

LEMMA LogKept ==
    ASSUME Typed, Log, [Next]_vars, "stale_check" \notin mishaps'
    PROVE  Log'
<1>1. Typed'
  BY TypedKept
<1>2. ASSUME NEW t \in Threads, Serve(t) PROVE Log'
  <2>1. CASE CreateConversation(t) \/ OpenConversation(t)
    BY <2>1, LogInserted
  <2>2. CASE InvokeBegin(t) \/ Finalize(t)
    BY <1>1, <2>2, LogInvoked
  <2>8. CASE InvokeReturn(t)
    BY <2>8, LogReturned
  <2>3. CASE SaveBundle(t)
    BY <2>3, LogSaved
  <2>4. CASE AppendTurnLog(t)
    BY <2>4, LogAppended
  <2>5. CASE TakeBackRows(t)
    <3>1. pc'[t] \in Deleting /\ pc[t] = "take_back" /\ UNCHANGED <<checkpoints, req>>
      BY <2>5 DEF Typed, TypeOK, TakeBackRows, Move, At, Deleting
    <3>. QED  BY <1>2, <2>5, <3>1, LogRowsDeleted DEF TakeBackRows
  <2>6. CASE DeleteConversation(t)
    <3>1. pc'[t] \in Deleting /\ turn_lock = Nobody /\ UNCHANGED <<checkpoints, req>>
      BY <2>6 DEF Typed, TypeOK, DeleteConversation, Move, At, Deleting
    <3>. QED  BY <1>2, <2>6, <3>1, LogRowsDeleted DEF DeleteConversation
  <2>7. CASE TakeBackThread(t) \/ DeleteConversationThread(t)
    BY <2>7, LogThreadDeleted
  <2>. QED  BY <1>2, <2>1, <2>2, <2>3, <2>4, <2>5, <2>6, <2>7, <2>8, LogMoved DEF Serve
<1>3. CASE Crash
  BY <1>3 DEF Crash, Log, LogStore, LogReadable, LogThread, OnConversation, Deleting, store
<1>4. CASE UNCHANGED vars
  BY <1>4 DEF vars, store, Log, LogStore, LogReadable, LogThread, Served, Numbered, Vacated
<1>. QED  BY <1>2, <1>3, <1>4, LogRequested DEF Next, Quiet

(* The log stays readable, whatever the number of threads, as long as no   *)
(* check went stale between its route and its delete.                      *)
THEOREM LogSurvivesHolds == Spec => []LogSurvives
<1>. DEFINE Inv == Typed /\ ("stale_check" \notin mishaps => Log)
<1>1. Init => Inv
  BY TypedInitially, LogInitially
<1>2. Inv /\ [Next]_vars => Inv'
  BY TypedKept, CountsKept, LogKept
<1>3. Inv => LogSurvives
  BY DEF LogSurvives, Log, LogStore
<1>. QED  BY <1>1, <1>2, <1>3, PTL DEF Spec
-------------------------------------------------------------------------------
(* An id nobody wears has an empty checkpoint thread, or a delete between  *)
(* its two steps is about to empty it.                                     *)
History ==
    /\ \A c \in conversations : \A turn \in checkpoints[c.id].turns : turn[1] = c.born
    /\ \A id \in Ids : \/ \E c \in conversations : c.id = id
                       \/ checkpoints[id] = EmptyThread
                       \/ \E t \in Threads : pc[t] \in Deleting /\ req[t].conversation = id

LEMMA HistoryInitially == Init => History
BY DEF Init, History

(* A step that leaves the conversations and the checkpoints alone, and no  *)
(* delete half done.                                                       *)
LEMMA HistoryFrame ==
    ASSUME Typed, History, NEW t \in Threads, Request(t) \/ Serve(t),
           UNCHANGED <<conversations, checkpoints>>, pc[t] \notin Deleting
    PROVE  History'
<1>1. \A u \in Threads : pc[u] \in Deleting => pc'[u] = pc[u] /\ req'[u] = req[u]
  BY OthersStay DEF Typed
<1>. QED  BY <1>1 DEF History

(* No id is given away while a delete is half done: the store is held.     *)
LEMMA HistoryInserted ==
    ASSUME Typed, History, NEW t \in Threads, CreateConversation(t) \/ OpenConversation(t)
    PROVE  History'
<1>. DEFINE id == NextId(ConversationIds)
            new == [id |-> id, workspace |-> req[t].workspace, born |-> req[t].born,
                    by_ask |-> pc[t] = "open"]
<1>1. t \in Pending /\ CanStore(t) /\ pc[t] \notin Deleting
  BY DEF CreateConversation, OpenConversation, At, Pending, Deleting
<1>2. /\ id \in Ids /\ \A c \in conversations : c.id # id
  BY <1>1, ConversationIdsFresh
<1>3. conversations' = conversations \cup {new} /\ checkpoints' = checkpoints
  BY DEF CreateConversation, OpenConversation, InsertConversation, At
<1>4. \A u \in Threads : pc[u] \notin Deleting
  BY <1>1, NobodyElseDeleting
<1>5. new.id = id
  OBVIOUS
<1>. HIDE DEF id, new
<1>6. checkpoints[id].turns = {}
  BY <1>2, <1>4 DEF History, EmptyThread
<1>7. \A c \in conversations' : \A turn \in checkpoints'[c.id].turns : turn[1] = c.born
  BY <1>3, <1>5, <1>6 DEF History
<1>8. \A i \in Ids : (\E c \in conversations' : c.id = i) \/ checkpoints'[i] = EmptyThread
  BY <1>3, <1>4 DEF History
<1>. QED  BY <1>7, <1>8 DEF History

(* A turn writes its own conversation into its own thread.                 *)
LEMMA HistoryInvoked ==
    ASSUME Typed, Log, History, NEW t \in Threads, InvokeBegin(t) \/ Finalize(t)
    PROVE  History'
<1>. DEFINE id == req[t].conversation
            state == req'[t].state
<1>1. /\ pc[t] \in OnConversation /\ pc[t] \notin Deleting /\ conversations' = conversations
      /\ checkpoints \in [Ids -> Thread]
  BY DEF Typed, TypeOK, InvokeBegin, Finalize, At, OnConversation, Deleting, store
<1>2. PICK c \in conversations : c.id = id /\ c.born = req[t].born
  BY <1>1 DEF Log, LogThread, Served
<1>3. id \in Ids /\ checkpoints' = [checkpoints EXCEPT ![id] = state]
  BY Checkpointed
<1>4. \A turn \in state.turns : turn[1] = c.born
  <2>1. checkpoints[id] \in Thread /\ \A turn \in checkpoints[id].turns : turn[1] = c.born
    BY <1>1, <1>2, <1>3 DEF History
  <2>2. CASE InvokeBegin(t)
    <3>1. state.turns = checkpoints[id].turns
      BY <2>1, <2>2, Checkpointed DEF Thread
    <3>. QED  BY <2>1, <3>1
  <2>3. CASE Finalize(t)
    <3>1. req[t].state = checkpoints[id]
      BY <2>3 DEF Log, LogThread, Numbered, Finalize, At
    <3>2. state = [req[t].state EXCEPT !.turns = req[t].state.turns \cup {<<req[t].born, req[t].state.turn>>}]
      BY <2>3, Checkpointed
    <3>. HIDE DEF state, id
    <3>3. state.turns = checkpoints[id].turns \cup {<<req[t].born, req[t].state.turn>>}
      BY <2>1, <3>1, <3>2 DEF Thread
    <3>. QED  BY <1>2, <2>1, <3>3
  <2>. QED  BY <2>2, <2>3
<1>5. \A d \in conversations : d.id \in Ids /\ (d.id = c.id => d = c)
  BY DEF Typed, TypeOK, Conversations
<1>6. \A u \in Threads : pc[u] \in Deleting => pc'[u] = pc[u] /\ req'[u] = req[u]
  BY <1>1, OthersStay DEF Typed, Serve
<1>. HIDE DEF id, state
<1>7. ASSUME NEW d \in conversations, NEW turn \in checkpoints'[d.id].turns PROVE turn[1] = d.born
  <2>1. CASE d.id = id
    BY <1>1, <1>2, <1>3, <1>4, <1>5, <1>7, <2>1
  <2>2. CASE d.id # id
    BY <1>1, <1>3, <1>5, <1>7, <2>2 DEF History
  <2>. QED  BY <2>1, <2>2
<1>8. ASSUME NEW i \in Ids, \A d \in conversations : d.id # i, checkpoints'[i] # EmptyThread
      PROVE  \E u \in Threads : pc'[u] \in Deleting /\ req'[u].conversation = i
  <2>1. checkpoints'[i] = checkpoints[i]
    BY <1>1, <1>2, <1>3, <1>8
  <2>. QED  BY <1>6, <1>8, <2>1 DEF History
<1>. QED  BY <1>1, <1>7, <1>8 DEF History

LEMMA HistoryRowsDeleted ==
    ASSUME Typed, History, NEW t \in Threads, NEW id, id = req[t].conversation,
           DeleteRows(t, id), UNCHANGED <<checkpoints, req>>, pc'[t] \in Deleting
    PROVE  History'
<1>1. conversations' = {c \in conversations : c.id # id} /\ CanStore(t)
  BY DEF DeleteRows
<1>2. \A u \in Threads \ {t} : pc[u] \notin Deleting
  BY <1>1, NobodyElseDeleting
<1>3. \A i \in Ids : \/ \E c \in conversations' : c.id = i
                     \/ checkpoints'[i] = EmptyThread
                     \/ pc'[t] \in Deleting /\ req'[t].conversation = i
  <2>1. ASSUME NEW i \in Ids, i # id
        PROVE  (\E c \in conversations' : c.id = i) \/ checkpoints'[i] = EmptyThread
    BY <1>1, <1>2, <2>1 DEF History
  <2>. QED  BY <2>1
<1>. QED  BY <1>1, <1>3 DEF History

LEMMA HistoryThreadDeleted ==
    ASSUME Typed, Log, History, NEW t \in Threads, TakeBackThread(t) \/ DeleteConversationThread(t)
    PROVE  History'
<1>. DEFINE id == req[t].conversation
<1>1. /\ conversations' = conversations /\ checkpoints' = [checkpoints EXCEPT ![id] = EmptyThread]
      /\ pc[t] \in Deleting
  BY DEF TakeBackThread, DeleteConversationThread, DeleteThread, ThreadDeleted, store, Deleting, At
<1>2. /\ \A c \in conversations : c.id # id /\ c.id \in Ids
      /\ id \in Ids /\ checkpoints \in [Ids -> Thread]
  BY <1>1 DEF Typed, TypeOK, Conversations, Log, LogThread, Vacated, Carried, Deleting
<1>3. \A u \in Threads \ {t} : pc'[u] = pc[u] /\ req'[u] = req[u]
  BY OthersStay DEF Typed, Serve
<1>4. \A i \in Ids \ {id} : checkpoints'[i] = checkpoints[i]
  BY <1>1, <1>2
<1>5. checkpoints'[id] = EmptyThread
  BY <1>1, <1>2
<1>. HIDE DEF id
<1>6. \A c \in conversations' : \A turn \in checkpoints'[c.id].turns : turn[1] = c.born
  BY <1>1, <1>2, <1>4 DEF History
<1>7. ASSUME NEW i \in Ids, i # id, \A c \in conversations : c.id # i, checkpoints[i] # EmptyThread
      PROVE  \E u \in Threads : pc'[u] \in Deleting /\ req'[u].conversation = i
  <2>1. PICK u \in Threads : pc[u] \in Deleting /\ req[u].conversation = i
    BY <1>7 DEF History
  <2>2. u # t
    BY <1>7, <2>1 DEF id
  <2>. QED  BY <1>3, <2>1, <2>2
<1>. QED  BY <1>1, <1>4, <1>5, <1>6, <1>7 DEF History

LEMMA HistoryKept ==
    ASSUME Typed, Log, History, [Next]_vars, mishaps' \cap {"stale_check", "torn_delete"} = {}
    PROVE  History'
<1>1. ASSUME NEW t \in Threads, Request(t) PROVE History'
  <2>1. UNCHANGED <<conversations, checkpoints>> /\ pc[t] \notin Deleting
    BY <1>1 DEF Request, CreateWorkspace, DeleteWorkspace, CreateConversationCheck, AskExisting,
           AskNew, DeleteCheck, store, At, Deleting
  <2>. QED  BY <1>1, <2>1, HistoryFrame
<1>2. ASSUME NEW t \in Threads, Serve(t) PROVE History'
  <2>1. CASE CreateConversation(t) \/ OpenConversation(t)
    BY <2>1, HistoryInserted
  <2>2. CASE InvokeBegin(t) \/ Finalize(t)
    BY <2>2, HistoryInvoked
  <2>8. CASE InvokeReturn(t)
    <3>1. UNCHANGED <<conversations, checkpoints>> /\ pc[t] = "finalized"
      BY <2>8, ReturnWritesTheSame
    <3>. QED  BY <1>2, <3>1, HistoryFrame DEF Deleting
  <2>3. CASE TakeBackRows(t)
    <3>1. pc'[t] \in Deleting /\ UNCHANGED <<checkpoints, req>>
      BY <2>3 DEF Typed, TypeOK, TakeBackRows, Move, Deleting
    <3>. QED  BY <2>3, <3>1, HistoryRowsDeleted DEF TakeBackRows
  <2>4. CASE DeleteConversation(t)
    <3>1. pc'[t] \in Deleting /\ UNCHANGED <<checkpoints, req>>
      BY <2>4 DEF Typed, TypeOK, DeleteConversation, Move, Deleting
    <3>. QED  BY <2>4, <3>1, HistoryRowsDeleted DEF DeleteConversation
  <2>5. CASE TakeBackThread(t) \/ DeleteConversationThread(t)
    BY <2>5, HistoryThreadDeleted
  <2>6. CASE \/ AskBusy(t) \/ Acquire(t) \/ ResolveExisting(t) \/ ResolveWorkspace(t) \/ OpenScratch(t)
             \/ InvokeRaise(t) \/ SaveBundle(t) \/ AppendTurnLog(t) \/ DeleteBusy(t)
    <3>1. UNCHANGED <<conversations, checkpoints>> /\ pc[t] \notin Deleting
      BY <2>6 DEF AskBusy, Acquire, ResolveExisting, ResolveWorkspace, OpenScratch, InvokeRaise,
             SaveBundle, AppendTurnLog, DeleteBusy, store, At, Deleting
    <3>. QED  BY <1>2, <3>1, HistoryFrame
  <2>7. CASE StoreFails(t)
    <3>1. UNCHANGED <<conversations, checkpoints>> /\ store_lock # t
      BY <2>7 DEF StoreFails, store
    <3>2. pc[t] \notin Deleting
      BY <3>1 DEF Typed, TypeOK, Deleting
    <3>. QED  BY <1>2, <3>1, <3>2, HistoryFrame
  <2>. QED  BY <1>2, <2>1, <2>2, <2>3, <2>4, <2>5, <2>6, <2>7, <2>8 DEF Serve
<1>3. CASE Crash
  <2>1. UNCHANGED <<conversations, checkpoints>> /\ store_lock = Nobody
    BY <1>3 DEF Crash, store
  <2>2. \A u \in Threads : pc[u] \notin Deleting
    BY <2>1, Constants DEF Typed, TypeOK, Deleting
  <2>. QED  BY <2>1, <2>2 DEF History
<1>4. CASE UNCHANGED vars
  BY <1>4 DEF vars, store, History
<1>. QED  BY <1>1, <1>2, <1>3, <1>4 DEF Next, Quiet

(* No conversation sees another's turns, whatever the number of threads    *)
(* and however often an id comes back, as long as no check went stale and  *)
(* no delete was cut in two.                                               *)
THEOREM HistoryIsOwnHolds == Spec => []HistoryIsOwn
<1>. DEFINE Inv == /\ Typed
                   /\ "stale_check" \notin mishaps => Log
                   /\ mishaps \cap {"stale_check", "torn_delete"} = {} => History
<1>1. Init => Inv
  BY TypedInitially, LogInitially, HistoryInitially
<1>2. Inv /\ [Next]_vars => Inv'
  BY TypedKept, CountsKept, LogKept, HistoryKept
<1>3. Inv => HistoryIsOwn
  BY DEF HistoryIsOwn, History
<1>. QED  BY <1>1, <1>2, <1>3, PTL DEF Spec
-------------------------------------------------------------------------------
(* The numbers in a history are of turns that began; a turn that is        *)
(* running has the latest number, which is not in the history yet.         *)
Numbers ==
    /\ \A c \in Ids : \A record \in checkpoints[c].turns : record[2] \in 1..checkpoints[c].turn
    /\ \A t \in Threads : pc[t] = "running" =>
          LET thread == checkpoints[req[t].conversation]
          IN  thread.turn # 0 /\ \A record \in thread.turns : record[2] # thread.turn

(* One record more is one number more.                                    *)
LEMMA NumberAdded ==
    ASSUME NEW records, NEW born, NEW number
    PROVE  {record[2] : record \in records \cup {<<born, number>>}} =
              {record[2] : record \in records} \cup {number}
<1>1. <<born, number>>[2] = number
  OBVIOUS
<1>. DEFINE new == <<born, number>>
<1>2. new[2] = number
  BY <1>1
<1>. HIDE DEF new
<1>3. {record[2] : record \in records \cup {new}} = {record[2] : record \in records} \cup {number}
  BY <1>2
<1>. QED  BY <1>3 DEF new

LEMMA NumbersInitially == Init => Numbers
BY DEF Init, Numbers, EmptyThread

(* What writes a checkpoint, and what lets a turn run.                     *)
LEMMA CheckpointWriters ==
    ASSUME Typed, [Next]_vars
    PROVE  /\ \/ checkpoints' = checkpoints
              \/ \E t \in Threads : \/ InvokeBegin(t) \/ Finalize(t) \/ InvokeReturn(t)
                                    \/ TakeBackThread(t) \/ DeleteConversationThread(t)
           /\ \A t \in Threads : pc'[t] = "running" =>
                 InvokeBegin(t) \/ (pc[t] = "running" /\ req'[t] = req[t])
<1>. USE DEF Typed, TypeOK, At, Move, Finish, Release, ReleaseTurnLock
<1>1. ASSUME NEW t \in Threads, Request(t)
      PROVE  checkpoints' = checkpoints /\ pc'[t] # "running"
  BY <1>1 DEF Request, CreateWorkspace, DeleteWorkspace, CreateConversationCheck, AskExisting,
              AskNew, DeleteCheck
<1>2. ASSUME NEW t \in Threads, Serve(t)
      PROVE  /\ \/ checkpoints' = checkpoints \/ InvokeBegin(t) \/ Finalize(t) \/ InvokeReturn(t)
                \/ TakeBackThread(t) \/ DeleteConversationThread(t)
             /\ pc'[t] = "running" => InvokeBegin(t)
  <2>1. CASE CreateConversation(t) \/ AskBusy(t) \/ Acquire(t) \/ ResolveExisting(t)
    BY <2>1 DEF CreateConversation, AskBusy, Acquire, ResolveExisting
  <2>2. CASE ResolveWorkspace(t) \/ OpenScratch(t) \/ OpenConversation(t)
    BY <2>2 DEF ResolveWorkspace, OpenScratch, OpenConversation
  <2>3. CASE InvokeBegin(t) \/ Finalize(t) \/ InvokeReturn(t) \/ InvokeRaise(t)
    BY <2>3 DEF Finalize, InvokeReturn, InvokeRaise, AfterRaise
  <2>4. CASE SaveBundle(t) \/ AppendTurnLog(t) \/ StoreFails(t)
    BY <2>4 DEF SaveBundle, AppendTurnLog, StoreFails
  <2>5. CASE TakeBackRows(t) \/ TakeBackThread(t)
    BY <2>5 DEF TakeBackRows, TakeBackThread
  <2>6. CASE DeleteBusy(t) \/ DeleteConversation(t) \/ DeleteConversationThread(t)
    BY <2>6 DEF DeleteBusy, DeleteConversation, DeleteConversationThread
  <2>. QED  BY <1>2, <2>1, <2>2, <2>3, <2>4, <2>5, <2>6 DEF Serve
<1>3. CASE Crash
  BY <1>3 DEF Crash
<1>4. CASE UNCHANGED vars
  BY <1>4 DEF vars
<1>5. ASSUME NEW t \in Threads, Request(t) \/ Serve(t), NEW u \in Threads \ {t}
      PROVE  pc'[u] = pc[u] /\ req'[u] = req[u]
  BY <1>5, OthersStay
<1>6. ASSUME NEW t \in Threads, Request(t) \/ Serve(t)
      PROVE  \A u \in Threads : pc'[u] = "running" =>
                InvokeBegin(u) \/ (pc[u] = "running" /\ req'[u] = req[u])
  BY <1>1, <1>2, <1>5, <1>6
<1>. QED  BY <1>1, <1>2, <1>3, <1>4, <1>6 DEF Next, Quiet

(* What a turn writes is a step of its conversation's thread.              *)
LEMMA TurnIsThreadStep ==
    ASSUME Typed, Log, Numbers, NEW t \in Threads, InvokeBegin(t) \/ Finalize(t),
           NEW c, c = req[t].conversation
    PROVE  /\ c \in ConversationIds /\ c \in Ids /\ c = req'[t].conversation
           /\ \A i \in Ids \ {c} : checkpoints'[i] = checkpoints[i]
           /\ \/ /\ InvokeBegin(t)
                 /\ checkpoints'[c].turn = checkpoints[c].turn + 1
                 /\ checkpoints'[c].turns = checkpoints[c].turns
              \/ /\ Finalize(t)
                 /\ checkpoints'[c].turn = checkpoints[c].turn
                 /\ checkpoints'[c].turns =
                       checkpoints[c].turns \cup {<<req[t].born, checkpoints[c].turn>>}
                 /\ checkpoints[c].turn # 0
                 /\ \A record \in checkpoints[c].turns : record[2] # checkpoints[c].turn
<1>1. /\ checkpoints \in [Ids -> Thread] /\ c \in Ids /\ c = req'[t].conversation
      /\ checkpoints' = [checkpoints EXCEPT ![c] = req'[t].state]
  BY Checkpointed DEF Typed, TypeOK
<1>2. c \in ConversationIds
  BY DEF Log, LogThread, Served, InvokeBegin, Finalize, At, OnConversation, ConversationIds
<1>3. checkpoints'[c] = req'[t].state /\ checkpoints[c] \in Thread
  BY <1>1
<1>4. CASE InvokeBegin(t)
  <2>1. req'[t].state = [checkpoints[c] EXCEPT !.turn = checkpoints[c].turn + 1]
    BY <1>4, Checkpointed
  <2>. QED  BY <1>1, <1>2, <1>3, <1>4, <2>1 DEF Thread
<1>5. CASE Finalize(t)
  <2>1. pc[t] = "running" /\ req[t].state = checkpoints[c]
    BY <1>5 DEF Finalize, At, Log, LogThread, Numbered
  <2>2. req'[t].state = [checkpoints[c] EXCEPT
            !.turns = checkpoints[c].turns \cup {<<req[t].born, checkpoints[c].turn>>}]
    BY <1>5, <2>1, Checkpointed
  <2>3. /\ checkpoints[c].turn # 0
        /\ \A record \in checkpoints[c].turns : record[2] # checkpoints[c].turn
    BY <2>1 DEF Numbers
  <2>. QED  BY <1>1, <1>2, <1>3, <1>5, <2>2, <2>3 DEF Thread
<1>. QED  BY <1>4, <1>5

LEMMA ThreadEmptied ==
    ASSUME Typed, Log, NEW t \in Threads, TakeBackThread(t) \/ DeleteConversationThread(t),
           NEW c, c = req[t].conversation
    PROVE  /\ c \notin ConversationIds /\ c \in Ids
           /\ \A i \in Ids \ {c} : checkpoints'[i] = checkpoints[i]
           /\ checkpoints'[c] = EmptyThread
<1>1. /\ checkpoints' = [checkpoints EXCEPT ![c] = EmptyThread] /\ pc[t] \in Deleting
      /\ checkpoints \in [Ids -> Thread]
  BY DEF TakeBackThread, DeleteConversationThread, DeleteThread, ThreadDeleted, At, Deleting,
         Typed, TypeOK
<1>2. c \in Ids
  BY <1>1 DEF Typed, Carried, Deleting
<1>3. c \notin ConversationIds
  BY <1>1 DEF Log, LogThread, Vacated, ConversationIds
<1>. QED  BY <1>1, <1>2, <1>3

LEMMA NumbersKept ==
    ASSUME Typed, Log, Numbers, [Next]_vars
    PROVE  Numbers'
<1>1. \A c \in Ids : /\ checkpoints[c].turn \in Nat
                      /\ \A record \in checkpoints[c].turns : record[2] \in 1..checkpoints[c].turn
  BY DEF Typed, TypeOK, Thread, Numbers
<1>2. ASSUME NEW t \in Threads, pc[t] = "running" \/ InvokeBegin(t)
      PROVE  /\ req[t].conversation \in Ids
             /\ \E d \in conversations : d.id = req[t].conversation
             /\ \A u \in Threads \ {t} : pc[u] \notin Turning
  BY <1>2, NobodyElseOn DEF Typed, Carried, Log, LogThread, Served, InvokeBegin, At, OnConversation,
                            Turning
<1>3. ASSUME NEW t \in Threads, InvokeBegin(t) \/ Finalize(t) PROVE Numbers'
  <2>. DEFINE c == req[t].conversation
  <2>1. /\ c \in Ids /\ c = req'[t].conversation
        /\ \A i \in Ids \ {c} : checkpoints'[i] = checkpoints[i]
        /\ \/ /\ InvokeBegin(t)
              /\ checkpoints'[c].turn = checkpoints[c].turn + 1
              /\ checkpoints'[c].turns = checkpoints[c].turns
           \/ /\ Finalize(t)
              /\ checkpoints'[c].turn = checkpoints[c].turn
              /\ checkpoints'[c].turns =
                    checkpoints[c].turns \cup {<<req[t].born, checkpoints[c].turn>>}
              /\ checkpoints[c].turn # 0
    BY <1>3, TurnIsThreadStep
  <2>2. \A u \in Threads : pc'[u] = "running" => u = t /\ InvokeBegin(t)
    <3>1. ASSUME NEW u \in Threads, pc'[u] = "running", u # t PROVE FALSE
      <4>1. pc[u] = "running"
        BY <1>3, <3>1, OthersStay DEF Typed, Serve
      <4>. QED  BY <1>2, <1>3, <3>1, <4>1 DEF Finalize, At, Turning, OnConversation
    <3>2. Finalize(t) => pc'[t] # "running"
      BY DEF Finalize, Move, Typed, TypeOK
    <3>. QED  BY <1>3, <3>1, <3>2
  <2>. HIDE DEF c
  <2>3. ASSUME NEW i \in Ids, NEW record \in checkpoints'[i].turns
        PROVE  record[2] \in 1..checkpoints'[i].turn
    <3>1. CASE i # c
      BY <1>1, <2>1, <2>3, <3>1
    <3>2. CASE i = c
      BY <1>1, <2>1, <2>3, <3>2
    <3>. QED  BY <3>1, <3>2
  <2>4. InvokeBegin(t) => /\ checkpoints'[c].turn # 0
                          /\ \A record \in checkpoints'[c].turns : record[2] # checkpoints'[c].turn
    BY <1>1, <2>1, <1>2 DEF InvokeBegin, Finalize, At
  <2>. QED  BY <2>1, <2>2, <2>3, <2>4 DEF Numbers
<1>4. ASSUME NEW t \in Threads, TakeBackThread(t) \/ DeleteConversationThread(t) PROVE Numbers'
  <2>. DEFINE c == req[t].conversation
  <2>1. /\ c \notin ConversationIds /\ c \in Ids
        /\ \A i \in Ids \ {c} : checkpoints'[i] = checkpoints[i]
        /\ checkpoints'[c] = EmptyThread
    BY <1>4, ThreadEmptied
  <2>. HIDE DEF c
  <2>2. \A i \in Ids : \A record \in checkpoints'[i].turns : record[2] \in 1..checkpoints'[i].turn
    BY <1>1, <2>1 DEF EmptyThread
  <2>3. ASSUME NEW u \in Threads, pc'[u] = "running"
        PROVE  /\ pc[u] = "running" /\ req'[u] = req[u]
               /\ checkpoints'[req'[u].conversation] = checkpoints[req[u].conversation]
    <3>1. ~InvokeBegin(u)
      <4>1. CASE u = t
        BY <1>4, <4>1 DEF InvokeBegin, TakeBackThread, DeleteConversationThread, At
      <4>2. CASE u # t
        <5>1. pc'[u] = pc[u]
          BY <1>4, <4>2, OthersStay DEF Typed, Serve
        <5>. QED  BY <2>3, <5>1 DEF InvokeBegin, At
      <4>. QED  BY <4>1, <4>2
    <3>2. pc[u] = "running" /\ req'[u] = req[u]
      BY <2>3, <3>1, CheckpointWriters
    <3>. QED  BY <1>2, <2>1, <3>2 DEF ConversationIds
  <2>. QED  BY <2>2, <2>3 DEF Numbers
<1>5. CASE checkpoints' = checkpoints /\ \A t \in Threads : ~InvokeBegin(t)
  BY <1>5, CheckpointWriters DEF Numbers
<1>6. ASSUME NEW t \in Threads, InvokeReturn(t) PROVE Numbers'
  <2>1. checkpoints' = checkpoints /\ pc[t] = "finalized"
    BY <1>6, ReturnWritesTheSame
  <2>2. \A u \in Threads : ~InvokeBegin(u) \/ pc'[u] # "running"
    <3>1. CASE turn_lock = t
      <4>1. \A u \in Threads \ {t} : pc[u] \notin Turning
        BY <2>1, NobodyElseOn DEF Turning, OnConversation
      <4>. QED  BY <2>1, <4>1 DEF InvokeBegin, At, Turning, OnConversation
    <3>. QED  BY <2>1, <3>1 DEF Typed, OneTurnAtATime, Turning, OnConversation
  <2>. QED  BY <2>1, <2>2, CheckpointWriters DEF Numbers
<1>. QED  BY <1>3, <1>4, <1>5, <1>6, CheckpointWriters

(* Every conversation's checkpoints step as a CheckpointThread, whatever   *)
(* the number of threads, the failures and the crashes: no turn's number   *)
(* is taken twice, no ended turn is lost to another's write, and only a    *)
(* conversation that is gone is forgotten.                                 *)
THEOREM ThreadsKeepTheirTurnsHolds == Spec => ThreadsKeepTheirTurns
<1>. DEFINE Inv == Typed /\ ("stale_check" \notin mishaps => Log /\ Numbers)
            Step(c) == \/ UNCHANGED checkpoints[c]
                       \/ c \in ConversationIds /\ (ThreadOf(c)!Begin \/ ThreadOf(c)!End)
                       \/ c \notin ConversationIds /\ ThreadOf(c)!Forget
<1>1. Init => Inv
  BY TypedInitially, LogInitially, NumbersInitially
<1>2. Inv /\ [Next]_vars => Inv'
  BY TypedKept, CountsKept, LogKept, NumbersKept
<1>3. ASSUME Inv, [Next]_vars, NEW c \in Ids, "stale_check" \notin mishaps' PROVE Step(c)
  <2>1. Typed /\ Log /\ Numbers
    BY <1>3, CountsKept
  <2>. HIDE DEF Inv
  <2>2. ASSUME NEW t \in Threads, InvokeBegin(t) \/ Finalize(t), c = req[t].conversation
        PROVE  Step(c)
    <3>1. /\ c \in ConversationIds
          /\ \/ /\ checkpoints'[c].turn = checkpoints[c].turn + 1
                /\ checkpoints'[c].turns = checkpoints[c].turns
             \/ /\ checkpoints'[c].turn = checkpoints[c].turn
                /\ checkpoints'[c].turns =
                      checkpoints[c].turns \cup {<<req[t].born, checkpoints[c].turn>>}
                /\ checkpoints[c].turn # 0
                /\ \A record \in checkpoints[c].turns : record[2] # checkpoints[c].turn
      BY <2>1, <2>2, TurnIsThreadStep
    <3>. DEFINE past == {record[2] : record \in checkpoints[c].turns}
    <3>2. CASE /\ checkpoints'[c].turn = checkpoints[c].turn + 1
               /\ checkpoints'[c].turns = checkpoints[c].turns
      BY <3>1, <3>2 DEF ThreadOf!Begin
    <3>3. CASE /\ checkpoints'[c].turn = checkpoints[c].turn
               /\ checkpoints'[c].turns =
                     checkpoints[c].turns \cup {<<req[t].born, checkpoints[c].turn>>}
               /\ checkpoints[c].turn # 0
               /\ \A record \in checkpoints[c].turns : record[2] # checkpoints[c].turn
      <4>. DEFINE more == checkpoints[c].turns \cup {<<req[t].born, checkpoints[c].turn>>}
      <4>1. {record[2] : record \in more} = past \cup {checkpoints[c].turn}
        BY NumberAdded
      <4>2. checkpoints'[c].turns = more
        BY <3>3
      <4>. HIDE DEF more
      <4>3. past' = past \cup {checkpoints[c].turn}
        BY <4>1, <4>2
      <4>4. checkpoints[c].turn \notin past
        BY <3>3
      <4>. QED  BY <3>1, <3>3, <4>3, <4>4 DEF ThreadOf!End
    <3>. QED  BY <3>1, <3>2, <3>3
  <2>3. ASSUME NEW t \in Threads, TakeBackThread(t) \/ DeleteConversationThread(t),
               c = req[t].conversation
        PROVE  Step(c)
    <3>1. c \notin ConversationIds /\ checkpoints'[c] = EmptyThread
      BY <2>1, <2>3, ThreadEmptied
    <3>2. ThreadOf(c)!Forget
      BY <3>1 DEF ThreadOf!Forget, EmptyThread
    <3>. QED  BY <3>1, <3>2
  <2>4. ASSUME NEW t \in Threads, c # req[t].conversation,
               \/ InvokeBegin(t) \/ Finalize(t)
               \/ TakeBackThread(t) \/ DeleteConversationThread(t)
        PROVE  UNCHANGED checkpoints[c]
    BY <2>1, <2>4, TurnIsThreadStep, ThreadEmptied
  <2>5. ASSUME NEW t \in Threads, InvokeReturn(t) PROVE UNCHANGED checkpoints[c]
    BY <2>1, <2>5, ReturnWritesTheSame
  <2>. QED  BY <1>3, <2>1, <2>2, <2>3, <2>4, <2>5, CheckpointWriters
<1>4. Inv /\ [Next]_vars => \A c \in Ids : "stale_check" \notin mishaps' => Step(c)
  BY <1>3
<1>. QED  BY <1>1, <1>2, <1>4, PTL DEF Spec, ThreadsKeepTheirTurns
-------------------------------------------------------------------------------
(* What the store is to hold of a conversation: the turns its rows are of, *)
(* and the turn that has ended and has no row yet; more only where a turn  *)
(* raised when it had ended, and for as long as a conversation on its way  *)
(* out is still there.                                                     *)
Ended(id) == {<<req[t].born, req[t].state.turn>> :
                 t \in {u \in Threads : pc[u] \in {"finalized", "save", "log"} /\ req[u].conversation = id}}
Saved == {req[t].ref : t \in {u \in Threads : pc[u] = "log"}}

(* The turn that opened a conversation is on its way to a row, or to       *)
(* taking the conversation back.                                           *)
Opening(t, id) ==
    /\ pc[t] \in OnConversation \cup {"take_back"}
    /\ req[t].conversation = id /\ req[t].created

TakenBack(id) == \E t \in Threads : pc[t] = "take_back" /\ req[t].conversation = id

Tells(id) ==
    /\ LoggedTurns(id) \cup Ended(id) \subseteq checkpoints[id].turns
    /\ "raised_late" \notin mishaps /\ ~TakenBack(id) =>
          checkpoints[id].turns \subseteq LoggedTurns(id) \cup Ended(id)

Tidy ==
    /\ \A c \in conversations :
          /\ c.by_ask => \/ \E row \in turn_log : row.conversation = c.id
                         \/ \E t \in Threads : Opening(t, c.id)
          /\ Tells(c.id)
    /\ bundles = (CitedBy(turn_log) \cup Saved) \ {NoRef}

LEMMA TidyInitially == Init => Tidy
BY DEF Init, Tidy, CitedBy, Saved

LEMMA TellsKept ==
    ASSUME NEW id, Tells(id), mishaps \subseteq mishaps', TakenBack(id) => TakenBack(id)',
           UNCHANGED <<checkpoints[id], LoggedTurns(id), Ended(id)>>
    PROVE  Tells(id)'
BY DEF Tells

LEMMA MishapsStay == ASSUME Typed, [Next]_vars PROVE mishaps \subseteq mishaps'
BY CountsKept

LEMMA TidyFrame ==
    ASSUME Typed, Tidy, NEW t \in Threads, Request(t) \/ Serve(t),
           UNCHANGED <<conversations, turn_log, bundles, checkpoints>>,
           pc[t] \notin {"finalized", "save", "log", "take_back"},
           pc'[t] \notin {"finalized", "save", "log"},
           \A id : Opening(t, id) => Opening(t, id)'
    PROVE  Tidy'
<1>1. \A u \in Threads \ {t} : pc'[u] = pc[u] /\ req'[u] = req[u]
  BY OthersStay DEF Typed
<1>2. \A id : LoggedTurns(id)' = LoggedTurns(id)
  BY DEF LoggedTurns
<1>3. \A id : Ended(id)' = Ended(id)
  BY <1>1 DEF Ended
<1>4. Saved' = Saved
  BY <1>1 DEF Saved
<1>5. \A u \in Threads : \A id : Opening(u, id) => Opening(u, id)'
  BY <1>1 DEF Opening
<1>6. \A id : TakenBack(id) => TakenBack(id)'
  BY <1>1 DEF TakenBack
<1>7. mishaps \subseteq mishaps'
  BY MishapsStay DEF Next
<1>8. \A id : Tells(id) => Tells(id)'
  BY <1>2, <1>3, <1>6, <1>7, TellsKept
<1>. QED  BY <1>4, <1>5, <1>8 DEF Tidy, CitedBy

LEMMA TidyInserted ==
    ASSUME Typed, Log, History, Tidy, NEW t \in Threads, CreateConversation(t) \/ OpenConversation(t)
    PROVE  Tidy'
<1>. DEFINE id == NextId(ConversationIds)
            new == [id |-> id, workspace |-> req[t].workspace, born |-> req[t].born,
                    by_ask |-> pc[t] = "open"]
<1>1. t \in Pending /\ CanStore(t) /\ pc[t] \notin Deleting
  BY DEF CreateConversation, OpenConversation, At, Pending, Deleting
<1>2. /\ id \in Ids /\ \A c \in conversations : c.id # id
  BY <1>1, ConversationIdsFresh
<1>3. /\ conversations' = conversations \cup {new}
      /\ UNCHANGED <<turn_log, bundles, checkpoints>>
  BY DEF CreateConversation, OpenConversation, InsertConversation, At
<1>4. \A u \in Threads : pc[u] \notin Deleting
  BY <1>1, NobodyElseDeleting
<1>5. \A u \in Threads \ {t} : pc'[u] = pc[u] /\ req'[u] = req[u]
  BY OthersStay DEF Typed, Serve
<1>6. /\ pc[t] \notin {"finalized", "save", "log"} /\ pc'[t] \notin {"finalized", "save", "log"}
      /\ pc[t] \notin OnConversation \cup {"take_back"}
  BY DEF Typed, TypeOK, CreateConversation, OpenConversation, At, Move, Finish, OnConversation
<1>7. new.by_ask => \A i : i = id => Opening(t, i)'
  <2>. HIDE DEF id
  <2>1. CASE pc[t] = "open"
    <3>1. /\ pc' = [pc EXCEPT ![t] = "invoke"]
          /\ req' = [req EXCEPT ![t].conversation = id, ![t].created = TRUE]
      BY <2>1 DEF CreateConversation, OpenConversation, At, Move, id
    <3>2. req[t] \in Requests /\ req \in [Threads -> Requests] /\ pc \in [Threads -> Labels]
      BY DEF Typed, TypeOK
    <3>3. req'[t].conversation = id /\ req'[t].created
      BY <3>1, <3>2 DEF Requests
    <3>. QED  BY <3>1, <3>2, <3>3 DEF Opening, OnConversation
  <2>. QED  BY <2>1
<1>8. new.id = id
  OBVIOUS
<1>. HIDE DEF id, new
<1>9. checkpoints[id].turns = {}
  BY <1>2, <1>4 DEF History, EmptyThread
<1>10. LoggedTurns(id) = {} /\ \A i : LoggedTurns(i)' = LoggedTurns(i)
  <2>1. \A row \in turn_log : row.conversation # id
    BY <1>2 DEF Log, LogStore, LogReadable
  <2>. QED  BY <1>3, <2>1 DEF LoggedTurns
<1>11. Ended(id) = {} /\ \A i : Ended(i)' = Ended(i)
  <2>1. \A u \in Threads : pc[u] \in {"finalized", "save", "log"} => req[u].conversation # id
    BY <1>2 DEF Log, LogThread, Served, OnConversation
  <2>2. Ended(id) = {}
    BY <2>1 DEF Ended
  <2>3. ASSUME NEW i PROVE Ended(i)' = Ended(i)
    BY <1>5, <1>6 DEF Ended
  <2>. QED  BY <2>2, <2>3
<1>12. Saved' = Saved
  BY <1>5, <1>6 DEF Saved
<1>13. \A u \in Threads : \A i : Opening(u, i) => Opening(u, i)'
  BY <1>5, <1>6 DEF Opening
<1>14. \A i : TakenBack(i) => TakenBack(i)'
  BY <1>5, <1>6 DEF TakenBack
<1>15. mishaps \subseteq mishaps'
  BY MishapsStay DEF Next, Serve
<1>16. ASSUME NEW c \in conversations'
       PROVE  /\ c.by_ask => \/ \E row \in turn_log' : row.conversation = c.id
                             \/ \E u \in Threads : Opening(u, c.id)'
              /\ Tells(c.id)'
  <2>1. CASE c = new
    <3>1. \A i : i = id => Tells(i)'
      BY <1>3, <1>9, <1>10, <1>11 DEF Tells
    <3>. QED  BY <1>7, <1>8, <2>1, <3>1
  <2>2. CASE c \in conversations
    <3>1. /\ c.by_ask => \/ \E row \in turn_log : row.conversation = c.id
                         \/ \E u \in Threads : Opening(u, c.id)
          /\ Tells(c.id)
      BY <2>2 DEF Tidy
    <3>2. Tells(c.id)'
      BY <1>3, <1>10, <1>11, <1>14, <1>15, <3>1, TellsKept
    <3>. QED  BY <1>3, <1>13, <3>1, <3>2
  <2>. QED  BY <1>3, <1>16, <2>1, <2>2
<1>. QED  BY <1>3, <1>12, <1>16 DEF Tidy, CitedBy

LEMMA TidyInvoked ==
    ASSUME Typed, Log, Tidy, NEW t \in Threads, InvokeBegin(t) \/ Finalize(t)
    PROVE  Tidy'
<1>. DEFINE id == req[t].conversation
            state == req'[t].state
            pair == <<req[t].born, req[t].state.turn>>
<1>1. /\ pc[t] \in OnConversation /\ UNCHANGED <<conversations, turn_log, bundles>>
      /\ checkpoints \in [Ids -> Thread] /\ pc[t] \notin {"finalized", "save", "log"}
      /\ mishaps' = mishaps
  BY DEF Typed, TypeOK, InvokeBegin, Finalize, At, OnConversation, store
<1>2. /\ id \in Ids /\ checkpoints' = [checkpoints EXCEPT ![id] = state]
      /\ req'[t].conversation = id /\ req'[t].born = req[t].born /\ req'[t].created = req[t].created
  BY Checkpointed
<1>3. \A u \in Threads \ {t} : pc'[u] = pc[u] /\ req'[u] = req[u] /\ pc[u] \notin OnConversation
  BY <1>1, OthersStay, NobodyElseOn DEF Typed, Serve, Turning
<1>4. checkpoints[id] \in Thread
  BY <1>1, <1>2
<1>5. \A i : Ended(i) = {}
  BY <1>1, <1>3 DEF Ended, OnConversation
<1>6. /\ pc'[t] \in {"running", "finalized"}
      /\ IF pc'[t] = "finalized"
           THEN state.turns = checkpoints[id].turns \cup {pair} /\ state.turn = req[t].state.turn
           ELSE state.turns = checkpoints[id].turns
  <2>1. CASE InvokeBegin(t)
    <3>1. state.turns = checkpoints[id].turns
      BY <1>4, <2>1, Checkpointed DEF Thread
    <3>2. pc'[t] = "running"
      BY <2>1 DEF Typed, TypeOK, InvokeBegin, Move
    <3>. QED  BY <3>1, <3>2
  <2>2. CASE Finalize(t)
    <3>1. req[t].state = checkpoints[id]
      BY <2>2 DEF Log, LogThread, Numbered, Finalize, At
    <3>2. state = [req[t].state EXCEPT !.turns = req[t].state.turns \cup {pair}]
      BY <2>2, Checkpointed
    <3>. HIDE DEF state, id, pair
    <3>3. state.turns = checkpoints[id].turns \cup {pair} /\ state.turn = req[t].state.turn
      BY <1>4, <3>1, <3>2 DEF Thread
    <3>4. pc'[t] = "finalized"
      BY <2>2 DEF Typed, TypeOK, Finalize, Move
    <3>. QED  BY <3>3, <3>4
  <2>. QED  BY <2>1, <2>2
<1>7. \A i : Ended(i)' = IF i = id /\ pc'[t] = "finalized" THEN {<<req[t].born, state.turn>>} ELSE {}
  BY <1>2, <1>3, <1>6 DEF Ended, OnConversation
<1>8. \A i : LoggedTurns(i)' = LoggedTurns(i)
  BY <1>1 DEF LoggedTurns
<1>9. Saved = {} /\ Saved' = {}
  BY <1>1, <1>3, <1>6 DEF Saved, OnConversation
<1>10. \A u \in Threads : \A i : Opening(u, i) => Opening(u, i)'
  <2>1. \A i : Opening(t, i) => Opening(t, i)'
    BY <1>2, <1>6 DEF Opening, OnConversation
  <2>2. \A u \in Threads \ {t} : \A i : Opening(u, i) => Opening(u, i)'
    BY <1>3 DEF Opening
  <2>. QED  BY <2>1, <2>2
<1>11. \A c \in conversations : c.id \in Ids
  BY DEF Typed, TypeOK, Conversations
<1>. HIDE DEF id, state
<1>12. \A i : ~TakenBack(i)
  BY <1>1, <1>3, NobodyElseOn DEF TakenBack, OnConversation, Turning
<1>13. ASSUME NEW c \in conversations
       PROVE  /\ c.by_ask => \/ \E row \in turn_log' : row.conversation = c.id
                             \/ \E u \in Threads : Opening(u, c.id)'
              /\ Tells(c.id)'
  <2>1. /\ c.by_ask => \/ \E row \in turn_log : row.conversation = c.id
                       \/ \E u \in Threads : Opening(u, c.id)
        /\ LoggedTurns(c.id) \subseteq checkpoints[c.id].turns
        /\ "raised_late" \notin mishaps => checkpoints[c.id].turns \subseteq LoggedTurns(c.id)
    BY <1>5, <1>12 DEF Tidy, Tells
  <2>2. CASE c.id = id
    <3>1. checkpoints'[c.id] = state
      BY <1>1, <1>2, <2>2
    <3>2. checkpoints'[c.id].turns = checkpoints[c.id].turns \cup Ended(c.id)'
      BY <1>6, <1>7, <2>2, <3>1
    <3>3. Tells(c.id)'
      BY <1>1, <1>8, <2>1, <3>2 DEF Tells
    <3>. QED  BY <1>1, <1>10, <2>1, <3>3
  <2>3. CASE c.id # id
    <3>1. checkpoints'[c.id] = checkpoints[c.id] /\ Ended(c.id)' = {}
      BY <1>1, <1>2, <1>7, <1>11, <2>3
    <3>2. Tells(c.id)'
      BY <1>1, <1>8, <2>1, <3>1 DEF Tells
    <3>. QED  BY <1>1, <1>10, <2>1, <3>2
  <2>. QED  BY <2>2, <2>3
<1>. QED  BY <1>1, <1>9, <1>13 DEF Tidy, CitedBy

LEMMA TidyReturned ==
    ASSUME Typed, Log, Tidy, NEW t \in Threads, InvokeReturn(t)
    PROVE  Tidy'
<1>1. /\ UNCHANGED <<conversations, turn_log, bundles, checkpoints>>
      /\ pc[t] = "finalized" /\ pc'[t] \in {"save", "log"}
      /\ pc'[t] = "log" => req'[t].ref = NoRef
      /\ req'[t].conversation = req[t].conversation /\ req'[t].born = req[t].born
      /\ req'[t].created = req[t].created /\ req'[t].state = req[t].state
  BY ReturnWritesTheSame
<1>2. \A u \in Threads \ {t} : pc'[u] = pc[u] /\ req'[u] = req[u] /\ pc[u] \notin Turning
  BY <1>1, OthersStay, NobodyElseOn DEF Typed, Serve, Turning, OnConversation
<1>3. \A i : LoggedTurns(i)' = LoggedTurns(i)
  BY <1>1 DEF LoggedTurns
<1>4. \A i : Ended(i)' = Ended(i)
  BY <1>1, <1>2 DEF Ended, Turning, OnConversation
<1>5. Saved = {} /\ Saved' \subseteq {NoRef}
  BY <1>1, <1>2 DEF Saved, Turning, OnConversation
<1>6. \A u \in Threads : \A i : Opening(u, i) => Opening(u, i)'
  BY <1>1, <1>2 DEF Opening, OnConversation
<1>7. \A i : Tells(i) => Tells(i)'
  <2>1. \A i : ~TakenBack(i)
    BY <1>1, <1>2 DEF TakenBack, Turning
  <2>2. mishaps' = mishaps
    BY DEF InvokeReturn
  <2>. QED  BY <1>1, <1>3, <1>4, <2>1, <2>2, TellsKept
<1>. QED  BY <1>1, <1>5, <1>6, <1>7 DEF Tidy, CitedBy

(* A turn that raises when it has ended takes its conversation back, or is *)
(* one of those the log does not tell of.                                  *)
LEMMA TidyRaised ==
    ASSUME Typed, Tidy, NEW t \in Threads, InvokeRaise(t), pc[t] = "finalized"
    PROVE  Tidy'
<1>1. /\ UNCHANGED <<conversations, turn_log, bundles, checkpoints>>
      /\ IF req[t].created
           THEN pc'[t] = "take_back" /\ req'[t] = req[t] /\ mishaps \subseteq mishaps'
           ELSE pc'[t] = "idle" /\ "raised_late" \in mishaps'
  BY DEF Typed, TypeOK, InvokeRaise, AfterRaise, Release, ReleaseTurnLock, Finish, Move, At, store
<1>2. \A u \in Threads \ {t} : pc'[u] = pc[u] /\ req'[u] = req[u] /\ pc[u] \notin Turning
  BY OthersStay, NobodyElseOn DEF Typed, Serve, Turning, OnConversation
<1>3. \A i : LoggedTurns(i)' = LoggedTurns(i)
  BY <1>1 DEF LoggedTurns
<1>4. \A i : Ended(i)' = {} /\ ~TakenBack(i) /\ (i # req[t].conversation => Ended(i) = {})
  BY <1>1, <1>2 DEF Ended, TakenBack, Turning, OnConversation
<1>5. Saved = {} /\ Saved' = {}
  BY <1>1, <1>2 DEF Saved, Turning, OnConversation
<1>6. \A u \in Threads : \A i : Opening(u, i) => Opening(u, i)'
  BY <1>1, <1>2 DEF Opening, Turning, OnConversation
<1>7. ASSUME NEW i, Tells(i) PROVE Tells(i)'
  <2>1. LoggedTurns(i)' \cup Ended(i)' \subseteq checkpoints'[i].turns
    BY <1>1, <1>3, <1>4, <1>7 DEF Tells
  <2>2. CASE ~req[t].created
    BY <1>1, <2>1, <2>2 DEF Tells
  <2>3. CASE req[t].created /\ i = req[t].conversation
    BY <1>1, <2>1, <2>3 DEF Tells, TakenBack
  <2>4. CASE req[t].created /\ i # req[t].conversation
    BY <1>1, <1>3, <1>4, <1>7, <2>1, <2>4 DEF Tells
  <2>. QED  BY <2>2, <2>3, <2>4
<1>. QED  BY <1>1, <1>5, <1>6, <1>7 DEF Tidy, CitedBy

LEMMA TidySaved ==
    ASSUME Typed, Tidy, NEW t \in Threads, SaveBundle(t)
    PROVE  Tidy'
<1>1. /\ UNCHANGED <<conversations, turn_log, checkpoints, req>>
      /\ bundles' = bundles \cup {req[t].ref} /\ pc[t] = "save" /\ pc' = [pc EXCEPT ![t] = "log"]
      /\ pc \in [Threads -> Labels] /\ req[t].ref \in Refs
  BY DEF SaveBundle, At, Move, Typed, TypeOK, Carried
<1>2. \A u \in Threads \ {t} : pc[u] # "log" /\ pc'[u] = pc[u]
  BY <1>1, NobodyElseOn DEF Turning, OnConversation
<1>3. \A i : LoggedTurns(i)' = LoggedTurns(i) /\ Ended(i)' = Ended(i)
  BY <1>1 DEF LoggedTurns, Ended
<1>4. Saved = {} /\ Saved' = {req[t].ref}
  BY <1>1, <1>2 DEF Saved
<1>5. \A u \in Threads : \A i : Opening(u, i) => Opening(u, i)'
  BY <1>1 DEF Opening, OnConversation
<1>6. bundles' = (CitedBy(turn_log) \cup Saved') \ {NoRef}
  BY <1>1, <1>4, Constants DEF Tidy
<1>7. \A i : Tells(i) => Tells(i)'
  <2>1. \A i : TakenBack(i) => TakenBack(i)'
    BY <1>1 DEF TakenBack
  <2>2. mishaps' = mishaps
    BY DEF SaveBundle
  <2>. QED  BY <1>1, <1>3, <2>1, <2>2, TellsKept
<1>. QED  BY <1>1, <1>5, <1>6, <1>7 DEF Tidy, CitedBy

LEMMA TidyAppended ==
    ASSUME Typed, Log, Tidy, NEW t \in Threads, AppendTurnLog(t)
    PROVE  Tidy'
<1>. DEFINE new == [conversation |-> req[t].conversation, turn |-> req[t].state.turn,
                    ref |-> req[t].ref, born |-> req[t].born]
            id == req[t].conversation
            pair == <<req[t].born, req[t].state.turn>>
<1>1. /\ UNCHANGED <<conversations, bundles, checkpoints>> /\ turn_log' = turn_log \cup {new}
      /\ pc[t] = "log" /\ pc' = [pc EXCEPT ![t] = "idle"] /\ pc \in [Threads -> Labels]
  BY DEF AppendTurnLog, At, Release, ReleaseTurnLock, Finish, Typed, TypeOK
<1>2. \A u \in Threads \ {t} : pc'[u] = pc[u] /\ pc[u] \notin Turning
  BY <1>1, NobodyElseOn DEF Turning, OnConversation
<1>3. \A i : /\ Ended(i) = IF i = id THEN {pair} ELSE {}
             /\ Ended(i)' = {}
  BY <1>1, <1>2 DEF Ended, Turning, OnConversation
<1>4. Saved = {new.ref} /\ Saved' = {}
  BY <1>1, <1>2 DEF Saved, Turning, OnConversation
<1>5. new.conversation = id /\ <<new.born, new.turn>> = pair
  OBVIOUS
<1>. HIDE DEF new, id, pair
<1>6. \A i : LoggedTurns(i)' = IF i = id THEN LoggedTurns(i) \cup {pair} ELSE LoggedTurns(i)
  BY <1>1, <1>5 DEF LoggedTurns
<1>7. CitedBy(turn_log') = CitedBy(turn_log) \cup {new.ref}
  BY <1>1 DEF CitedBy
<1>8. \A u \in Threads : \A i : Opening(u, i) => u = t /\ i = id
  BY <1>2 DEF Opening, id, Turning
<1>9. ASSUME NEW c \in conversations
      PROVE  /\ c.by_ask => \E row \in turn_log' : row.conversation = c.id
             /\ Tells(c.id)'
  <2>1. /\ c.by_ask => \/ \E row \in turn_log : row.conversation = c.id
                       \/ \E u \in Threads : Opening(u, c.id)
        /\ Tells(c.id)
    BY DEF Tidy
  <2>2. c.by_ask => \E row \in turn_log' : row.conversation = c.id
    BY <1>1, <1>5, <1>8, <2>1
  <2>3. LoggedTurns(c.id)' \cup Ended(c.id)' = LoggedTurns(c.id) \cup Ended(c.id)
    BY <1>3, <1>6
  <2>4. ~TakenBack(c.id) /\ mishaps' = mishaps
    BY <1>1, <1>2 DEF TakenBack, Turning, AppendTurnLog
  <2>5. Tells(c.id)'
    BY <1>1, <2>1, <2>3, <2>4 DEF Tells
  <2>. QED  BY <2>2, <2>5
<1>10. bundles = (CitedBy(turn_log') \cup Saved') \ {NoRef}
  BY <1>4, <1>7 DEF Tidy
<1>. QED  BY <1>1, <1>9, <1>10 DEF Tidy

LEMMA TidyRowsDeleted ==
    ASSUME Typed, Tidy, NEW t \in Threads, NEW id, id = req[t].conversation,
           DeleteRows(t, id), UNCHANGED <<checkpoints, req>>,
           pc'[t] \in Deleting, Serve(t),
           pc[t] \notin OnConversation, pc[t] = "take_back" \/ turn_lock = Nobody
    PROVE  Tidy'
<1>1. /\ bundles' = bundles \ DoomedBundles(id)
      /\ turn_log' = {row \in turn_log : row.conversation # id}
      /\ conversations' = {c \in conversations : c.id # id}
  BY DEF DeleteRows
<1>2. \A u \in Threads \ {t} : pc[u] \notin Turning /\ pc'[u] = pc[u]
  BY NobodyElseOn, OthersStay DEF Typed, Turning
<1>3. \A i : Ended(i) = {} /\ Ended(i)' = {}
  BY <1>2 DEF Ended, Turning, OnConversation, Deleting
<1>4. Saved = {} /\ Saved' = {}
  BY <1>2 DEF Saved, Turning, OnConversation, Deleting
<1>5. \A i : i # id => LoggedTurns(i)' = LoggedTurns(i)
  BY <1>1 DEF LoggedTurns
<1>6. \A u \in Threads : \A i : Opening(u, i) => i = id
  BY <1>2 DEF Opening, Turning
<1>7. bundles' = CitedBy(turn_log') \ {NoRef}
  BY <1>1, <1>4 DEF Tidy, DoomedBundles, CitedBy
<1>8. ASSUME NEW c \in conversations'
      PROVE  /\ c.by_ask => \E row \in turn_log' : row.conversation = c.id
             /\ Tells(c.id)'
  <2>1. c \in conversations /\ c.id # id
    BY <1>1, <1>8
  <2>2. /\ c.by_ask => \/ \E row \in turn_log : row.conversation = c.id
                       \/ \E u \in Threads : Opening(u, c.id)
        /\ Tells(c.id)
    BY <2>1 DEF Tidy
  <2>3. ~TakenBack(c.id)
    BY <1>2, <2>1 DEF TakenBack, Turning
  <2>4. mishaps \subseteq mishaps'
    BY MishapsStay DEF Next
  <2>5. Tells(c.id)'
    BY <1>3, <1>5, <2>1, <2>2, <2>3, <2>4, TellsKept
  <2>. QED  BY <1>1, <1>6, <2>1, <2>2, <2>5
<1>. QED  BY <1>4, <1>7, <1>8 DEF Tidy

LEMMA TidyThreadDeleted ==
    ASSUME Typed, Log, Tidy, NEW t \in Threads, TakeBackThread(t) \/ DeleteConversationThread(t)
    PROVE  Tidy'
<1>. DEFINE id == req[t].conversation
<1>1. /\ UNCHANGED <<conversations, turn_log, bundles>>
      /\ checkpoints' = [checkpoints EXCEPT ![id] = EmptyThread]
      /\ pc[t] \in Deleting /\ pc' = [pc EXCEPT ![t] = "idle"] /\ pc \in [Threads -> Labels]
  BY DEF TakeBackThread, DeleteConversationThread, DeleteThread, ThreadDeleted, store, Deleting, At,
         Release, ReleaseTurnLock, Finish, Typed, TypeOK
<1>2. /\ \A c \in conversations : c.id # id /\ c.id \in Ids
      /\ checkpoints \in [Ids -> Thread]
  BY <1>1 DEF Typed, TypeOK, Conversations, Log, LogThread, Vacated
<1>3. \A u \in Threads \ {t} : pc'[u] = pc[u] /\ req'[u] = req[u]
  BY OthersStay DEF Typed, Serve
<1>4. \A c \in conversations : checkpoints'[c.id] = checkpoints[c.id]
  BY <1>1, <1>2
<1>5. \A i : LoggedTurns(i)' = LoggedTurns(i)
  BY <1>1 DEF LoggedTurns
<1>6. \A i : Ended(i)' = Ended(i)
  BY <1>1, <1>3 DEF Ended, Deleting
<1>7. Saved' = Saved
  BY <1>1, <1>3 DEF Saved, Deleting
<1>8. \A u \in Threads : \A i : Opening(u, i) => Opening(u, i)'
  BY <1>1, <1>3 DEF Opening, OnConversation, Deleting
<1>9. \A c \in conversations : Tells(c.id) => Tells(c.id)'
  <2>1. \A i : TakenBack(i) => TakenBack(i)'
    BY <1>1, <1>3 DEF TakenBack, Deleting
  <2>2. mishaps' = mishaps
    BY DEF TakeBackThread, DeleteConversationThread
  <2>. QED  BY <1>4, <1>5, <1>6, <2>1, <2>2, TellsKept
<1>. QED  BY <1>1, <1>7, <1>8, <1>9 DEF Tidy, CitedBy

LEMMA TidyMoved ==
    ASSUME Typed, Tidy, NEW t \in Threads,
           \/ AskBusy(t) \/ Acquire(t) \/ ResolveExisting(t) \/ ResolveWorkspace(t) \/ OpenScratch(t)
           \/ InvokeRaise(t) \/ DeleteBusy(t),
           pc[t] # "finalized"
    PROVE  Tidy'
<1>1. UNCHANGED <<conversations, turn_log, bundles, checkpoints>>
  BY DEF AskBusy, Acquire, ResolveExisting, ResolveWorkspace, OpenScratch, InvokeRaise,
         DeleteBusy, store
<1>2. /\ pc[t] \notin {"finalized", "save", "log", "take_back"}
      /\ pc'[t] \notin {"finalized", "save", "log"}
  BY DEF Typed, TypeOK, AskBusy, Acquire, ResolveExisting, ResolveWorkspace, OpenScratch,
         InvokeRaise, AfterRaise, DeleteBusy, At, Move, Release, ReleaseTurnLock, Finish
<1>3. ASSUME NEW id, Opening(t, id) PROVE Opening(t, id)'
  <2>1. InvokeRaise(t)
    BY <1>3 DEF Opening, OnConversation, AskBusy, Acquire, ResolveExisting, ResolveWorkspace,
                OpenScratch, DeleteBusy, At
  <2>2. req' = req /\ pc' = [pc EXCEPT ![t] = "take_back"]
    BY <1>3, <2>1 DEF Opening, InvokeRaise, AfterRaise, Move
  <2>. QED  BY <1>3, <2>2 DEF Typed, TypeOK, Opening
<1>. QED  BY <1>1, <1>2, <1>3, TidyFrame DEF Serve

LEMMA TidyKept ==
    ASSUME Typed, Log, History, Tidy, [Next]_vars, mishaps' \subseteq {"raised_late"}
    PROVE  Tidy'
<1>1. ASSUME NEW t \in Threads, Request(t) PROVE Tidy'
  <2>1. UNCHANGED <<conversations, turn_log, bundles, checkpoints>>
    BY <1>1 DEF Request, CreateWorkspace, DeleteWorkspace, CreateConversationCheck, AskExisting,
           AskNew, DeleteCheck, store
  <2>2. /\ pc[t] \notin OnConversation \cup {"take_back"}
        /\ pc'[t] \notin {"finalized", "save", "log"}
    BY <1>1 DEF Typed, TypeOK, Request, CreateWorkspace, DeleteWorkspace, CreateConversationCheck,
           AskExisting, AskNew, DeleteCheck, At, Move, OnConversation
  <2>. QED  BY <1>1, <2>1, <2>2, TidyFrame DEF Opening, OnConversation
<1>2. ASSUME NEW t \in Threads, Serve(t) PROVE Tidy'
  <2>1. CASE CreateConversation(t) \/ OpenConversation(t)
    BY <2>1, TidyInserted
  <2>2. CASE InvokeBegin(t) \/ Finalize(t)
    BY <2>2, TidyInvoked
  <2>7. CASE InvokeReturn(t)
    BY <2>7, TidyReturned
  <2>8. CASE InvokeRaise(t) /\ pc[t] = "finalized"
    BY <2>8, TidyRaised
  <2>9. ~InvokeReturn(t) /\ ~InvokeRaise(t) /\ pc[t] = "finalized" => FALSE
    BY <1>2 DEF Serve, CreateConversation, AskBusy, Acquire, ResolveExisting, ResolveWorkspace,
           OpenScratch, OpenConversation, InvokeBegin, Finalize, SaveBundle, AppendTurnLog, StoreFails,
           Writing, TakeBackRows, TakeBackThread, DeleteBusy, DeleteConversation,
           DeleteConversationThread, At
  <2>3. CASE TakeBackRows(t)
    <3>1. /\ pc'[t] \in Deleting /\ pc[t] = "take_back" /\ UNCHANGED <<checkpoints, req>>
          /\ pc[t] \notin OnConversation
      BY <2>3 DEF Typed, TypeOK, TakeBackRows, Move, At, Deleting, OnConversation
    <3>. QED  BY <1>2, <2>3, <3>1, TidyRowsDeleted DEF TakeBackRows
  <2>4. CASE DeleteConversation(t)
    <3>1. turn_lock = Nobody
      BY <2>4 DEF DeleteConversation
    <3>2. /\ pc'[t] \in Deleting /\ UNCHANGED <<checkpoints, req>>
          /\ pc[t] \notin OnConversation
      BY <2>4 DEF Typed, TypeOK, DeleteConversation, Move, At, Deleting, OnConversation
    <3>. QED  BY <1>2, <2>4, <3>1, <3>2, TidyRowsDeleted DEF DeleteConversation
  <2>5. CASE TakeBackThread(t) \/ DeleteConversationThread(t)
    BY <2>5, TidyThreadDeleted
  <2>6. ~StoreFails(t)
    BY DEF StoreFails
  <2>. QED  BY <1>2, <2>1, <2>2, <2>3, <2>4, <2>5, <2>6, <2>7, <2>8, <2>9,
                TidyMoved, TidySaved, TidyAppended DEF Serve
<1>3. ~Crash
  BY DEF Crash
<1>4. CASE UNCHANGED vars
  BY <1>4 DEF vars, store, Tidy, Tells, TakenBack, LoggedTurns, Ended, Saved, Opening, CitedBy
<1>. QED  BY <1>1, <1>2, <1>3, <1>4 DEF Next, Quiet

(* With nothing going wrong, the store at rest is consistent: for every    *)
(* number of threads, each finished turn has its row, each bundle is       *)
(* cited, no conversation ask opened is empty, no thread is left over; and *)
(* a raise after a turn has ended costs that turn its row and nothing else.*)
THEOREM NothingLeftBehindHolds == Spec => []NothingLeftBehind
<1>. DEFINE Inv == /\ Typed
                   /\ "stale_check" \notin mishaps => Log
                   /\ mishaps \cap {"stale_check", "torn_delete"} = {} => History
                   /\ mishaps \subseteq {"raised_late"} => Tidy
<1>1. Init => Inv
  BY TypedInitially, LogInitially, HistoryInitially, TidyInitially
<1>2. Inv /\ [Next]_vars => Inv'
  BY TypedKept, CountsKept, LogKept, HistoryKept, TidyKept
<1>3. Inv => NothingLeftBehind
  <2>. SUFFICES ASSUME Inv, mishaps \subseteq {"raised_late"}, \A t \in Threads : At(t, "idle")
                PROVE  /\ \A c \in conversations :
                             /\ c.by_ask => \E row \in turn_log : row.conversation = c.id
                             /\ LoggedTurns(c.id) \subseteq checkpoints[c.id].turns
                             /\ "raised_late" \notin mishaps =>
                                   checkpoints[c.id].turns \subseteq LoggedTurns(c.id)
                       /\ bundles = CitedBy(turn_log) \ {NoRef}
                       /\ \A id \in Ids \ ConversationIds : checkpoints[id] = EmptyThread
    BY DEF NothingLeftBehind
  <2>1. \A t \in Threads : \A id : ~Opening(t, id)
    BY DEF At, Opening, OnConversation
  <2>2. \A id : Ended(id) = {} /\ ~TakenBack(id)
    BY DEF At, Ended, TakenBack
  <2>3. Saved = {}
    BY DEF At, Saved
  <2>4. \A id \in Ids \ ConversationIds : checkpoints[id] = EmptyThread
    BY DEF At, Deleting, History, ConversationIds
  <2>. QED  BY <2>1, <2>2, <2>3, <2>4 DEF Tidy, Tells
<1>. QED  BY <1>1, <1>2, <1>3, PTL DEF Spec
===============================================================================
