----------------------------- MODULE RunSqlProofs -----------------------------
(***************************************************************************)
(* The run_sql call, for every budget of attempts, every choice of lints   *)
(* and every sequence of replies.                                          *)
(***************************************************************************)
EXTENDS RunSql, SequenceTheorems, TLAPS

(* There is a round left for every statement under way.                    *)
Rounds ==
    /\ pc # "returned" => /\ Len(attempts) <= MaxRepairAttempts
                          /\ invocation = Returned("none", <<>>)
    /\ \A n \in DOMAIN attempts : attempts[n].error = "none" =>
          n = Len(attempts) /\ invocation = Returned("ok", attempts)

(* The flags of the loop remember what the attempts record.                *)
Flags ==
    /\ \A k \in Lints :
          k \in challenged <=> \E n \in DOMAIN attempts : k \in attempts[n].blocked
    /\ pc = "execute" => Objections(statement) = {}

(* Only what nothing objects to any more reaches the database.             *)
Outcome ==
    /\ invocation.status = "ok" =>
          /\ attempts # <<>> /\ executed # <<>>
          /\ invocation.evidence = attempts
          /\ attempts[Len(attempts)].error = "none"
          /\ attempts[Len(attempts)].blocked = {}
          /\ attempts[Len(attempts)].reasons = Recorded(executed[Len(executed)])
          /\ Invented(executed[Len(executed)]) = {}
    /\ invocation.status = "failed" =>
          /\ Len(attempts) = MaxRepairAttempts + 1
          /\ invocation.evidence = attempts
          /\ attempts[Len(attempts)].error # "none"
    /\ invocation.status \notin {"ok", "failed"} => invocation.evidence = <<>>

SqlInv ==
    /\ TypeOK
    /\ Rounds
    /\ Flags
    /\ ChallengedOnce
    /\ InventedNeverRuns
    /\ Outcome
-------------------------------------------------------------------------------
(* What Append leaves and what it adds.                                    *)
LEMMA Appended ==
    ASSUME NEW S, NEW s \in Seq(S), NEW e \in S
    PROVE  /\ Append(s, e) \in Seq(S)
           /\ Len(Append(s, e)) = Len(s) + 1
           /\ DOMAIN Append(s, e) = DOMAIN s \cup {Len(s) + 1}
           /\ \A n \in DOMAIN s : Append(s, e)[n] = s[n]
           /\ Append(s, e)[Len(s) + 1] = e
           /\ Append(s, e) # <<>>
    BY AppendProperties

(* A first statement always finds a call with nothing on record.           *)
LEMMA Initially == Init => SqlInv
<1> SUFFICES ASSUME Init PROVE SqlInv
    OBVIOUS
<1> USE RunSqlAssumption DEF Init, NoStatement, Returned
<1>1. TypeOK
    BY EmptySeq DEF TypeOK, Statement, Statuses
<1>2. Rounds
    BY EmptySeq DEF Rounds
<1>3. Flags /\ ChallengedOnce /\ InventedNeverRuns /\ Outcome
    BY DEF Flags, ChallengedOnce, InventedNeverRuns, Outcome
<1> QED BY <1>1, <1>2, <1>3 DEF SqlInv

(* Any attempt the loop records keeps the lints' account: what it blocked  *)
(* had not been challenged, what it tripped had been or is now, and the    *)
(* flags follow.                                                           *)
LEMMA RecordKeepsAccount ==
    ASSUME SqlInv, NEW a \in Attempt,
           attempts' = Append(attempts, a),
           \A k \in a.blocked \cap Lints : k \notin challenged,
           \A k \in a.reasons : k \in a.blocked \/ (k \in Lints /\ k \in challenged),
           challenged' = challenged \cup (a.blocked \cap Lints)
    PROVE  /\ ChallengedOnce'
           /\ \A k \in Lints :
                 k \in challenged' <=> \E n \in DOMAIN attempts' : k \in attempts'[n].blocked
<1> DEFINE L == Len(attempts)
<1>1. attempts \in Seq(Attempt) /\ L \in Nat /\ DOMAIN attempts = 1..L
    BY LenProperties DEF SqlInv, TypeOK
<1>2. /\ DOMAIN attempts' = DOMAIN attempts \cup {L + 1}
      /\ \A n \in DOMAIN attempts : attempts'[n] = attempts[n]
      /\ attempts'[L + 1] = a
    BY <1>1, Appended
<1>3. \A k \in Lints :
          k \in challenged <=> \E n \in DOMAIN attempts : k \in attempts[n].blocked
    BY DEF SqlInv, Flags
<1>4. \A k \in Lints :
          k \in challenged' <=> \E n \in DOMAIN attempts' : k \in attempts'[n].blocked
    BY <1>1, <1>2, <1>3
<1>5. ASSUME NEW n \in DOMAIN attempts'
      PROVE  /\ \A k \in attempts'[n].blocked \cap Lints :
                   \A m \in 1..(n - 1) : k \notin attempts'[m].blocked
             /\ \A k \in attempts'[n].reasons :
                   \E m \in 1..n : k \in attempts'[m].blocked
  <2>1. CASE n \in DOMAIN attempts
    <3>1. \A m \in 1..n : m \in DOMAIN attempts /\ attempts'[m] = attempts[m]
        BY <1>1, <1>2, <2>1
    <3> QED BY <1>1, <2>1, <3>1 DEF SqlInv, ChallengedOnce
  <2>2. CASE n = L + 1
    <3>1. /\ 1..(n - 1) = DOMAIN attempts
          /\ DOMAIN attempts \subseteq 1..n /\ n \in 1..n
        BY <1>1, <2>2
    <3>2. \A k \in a.blocked \cap Lints : \A m \in DOMAIN attempts : k \notin attempts[m].blocked
        BY <1>3
    <3>3. \A k \in a.reasons : k \in a.blocked \/ \E m \in DOMAIN attempts : k \in attempts[m].blocked
        BY <1>3
    <3>4. attempts'[n] = a
        BY <1>2, <2>2
    <3> QED BY <1>2, <3>1, <3>2, <3>3, <3>4
  <2> QED BY <1>2, <2>1, <2>2
<1> QED BY <1>4, <1>5 DEF ChallengedOnce

(* A failed attempt either leaves a round or ends the call with all of     *)
(* them in evidence.                                                       *)
LEMMA FailKeepsRounds ==
    ASSUME SqlInv, pc # "returned", NEW a \in Attempt, a.error # "none", Fail(a)
    PROVE  /\ attempts' \in Seq(Attempt) /\ Len(attempts') <= MaxRepairAttempts + 1
           /\ invocation' \in [status : Statuses, evidence : Seq(Attempt)]
           /\ pc' \in {"ask", "returned"}
           /\ Rounds' /\ Outcome'
<1> USE RunSqlAssumption
<1> DEFINE L == Len(attempts)
<1>1. attempts \in Seq(Attempt) /\ L \in Nat /\ DOMAIN attempts = 1..L
    BY LenProperties DEF SqlInv, TypeOK
<1>2. attempts' = Append(attempts, a)
    BY DEF Fail
<1>3. /\ attempts' \in Seq(Attempt)
      /\ Len(attempts') = L + 1
      /\ DOMAIN attempts' = DOMAIN attempts \cup {L + 1}
      /\ \A n \in DOMAIN attempts : attempts'[n] = attempts[n]
      /\ attempts'[L + 1] = a
    BY <1>1, <1>2, Appended
<1>4. L <= MaxRepairAttempts /\ invocation = Returned("none", <<>>)
    BY DEF SqlInv, Rounds
<1>5. \A n \in DOMAIN attempts : attempts[n].error # "none"
    BY <1>4 DEF SqlInv, Rounds, Returned
<1>6. \A n \in DOMAIN attempts' : attempts'[n].error # "none"
    BY <1>3, <1>5
<1>7. CASE Exhausted
  <2>1. pc' = "returned" /\ invocation' = Returned("failed", attempts')
      BY <1>7 DEF Fail
  <2>2. L + 1 = MaxRepairAttempts + 1
      BY <1>7 DEF Exhausted
  <2>3. Rounds'
      BY <1>6, <2>1 DEF Rounds
  <2>4. Outcome'
      BY <1>3, <2>1, <2>2 DEF Outcome, Returned
  <2> QED BY <1>3, <2>1, <2>2, <2>3, <2>4 DEF Returned, Statuses
<1>8. CASE ~Exhausted
  <2>1. pc' = "ask" /\ invocation' = Returned("none", <<>>)
      BY <1>4, <1>8 DEF Fail
  <2>2. L + 1 <= MaxRepairAttempts
    <3>1. L # MaxRepairAttempts /\ L <= MaxRepairAttempts /\ L \in Nat
        BY <1>1, <1>4, <1>8 DEF Exhausted
    <3>2. MaxRepairAttempts \in Nat
        BY RunSqlAssumption
    <3> HIDE DEF L
    <3> QED BY <3>1, <3>2
  <2>3. Rounds'
      BY <1>3, <1>6, <2>1, <2>2 DEF Rounds
  <2>4. Outcome'
      BY <2>1 DEF Outcome, Returned
  <2> QED BY <1>1, <1>3, <2>1, <2>2, <2>3, <2>4, EmptySeq DEF Returned, Statuses
<1> QED BY <1>7, <1>8
-------------------------------------------------------------------------------
(* What a statement is recorded with is recorded as a set of reasons.      *)
LEMMA ReasonsTyped ==
    ASSUME NEW s \in Statement
    PROVE  /\ Recorded(s) \in SUBSET Reasons
           /\ Objections(s) \in SUBSET Recorded(s)
           /\ \A k \in Recorded(s) : k \in Objections(s) \/ (k \in Lints /\ k \in challenged)
           /\ \A k \in Objections(s) \cap Lints : k \notin challenged
           /\ Objections(s) = {} => Invented(s) = {}
<1>1. Tripped(s) \subseteq Lints
    BY RunSqlAssumption DEF Tripped, Statement
<1>2. Invented(s) \subseteq {"placeholder"} /\ "placeholder" \notin Lints
    BY DEF Invented, Lints
<1> QED BY <1>1, <1>2 DEF Recorded, Objections, Reasons

LEMMA NothingRecorded == NoStatement \in Statement
    BY DEF NoStatement, Statement

(* Steps that record no attempt and leave the database alone.              *)
LEMMA QuietSteps ==
    ASSUME SqlInv, Refuse \/ Ground \/ ReplyStatement \/ CallRaises
    PROVE  SqlInv'
<1> USE DEF SqlInv
<1>1. /\ UNCHANGED <<in_conversation, challenged, blocking, attempts, executed>>
      /\ pc \in {"call", "ask", "check"} /\ pc' \in {"ask", "check", "returned"}
      /\ statement' \in Statement
    BY DEF Refuse, Ground, ReplyStatement, CallRaises, TypeOK
<1>2. invocation = Returned("none", <<>>) /\ Len(attempts) <= MaxRepairAttempts
    BY <1>1 DEF Rounds
<1>3. \/ pc' # "returned" /\ invocation' = invocation
      \/ /\ pc' = "returned"
         /\ \E status \in {"refused", "raised"} : invocation' = Returned(status, <<>>)
    BY DEF Refuse, Ground, ReplyStatement, CallRaises
<1>4. TypeOK'
  <2>1. invocation' \in [status : Statuses, evidence : Seq(Attempt)]
    <3>1. <<>> \in Seq(Attempt)
        BY EmptySeq
    <3>2. \A status \in Statuses : Returned(status, <<>>) \in [status : Statuses, evidence : Seq(Attempt)]
        BY <3>1 DEF Returned
    <3> QED BY <1>3, <3>2 DEF Statuses, TypeOK
  <2> QED BY <1>1, <2>1 DEF TypeOK
<1>5. Rounds'
  <2>1. \A n \in DOMAIN attempts : attempts[n].error # "none"
      BY <1>2 DEF Rounds, Returned
  <2> QED BY <1>1, <1>2, <1>3, <2>1 DEF Rounds
<1>6. Flags' /\ ChallengedOnce' /\ InventedNeverRuns'
    BY <1>1 DEF Flags, ChallengedOnce, InventedNeverRuns
<1>7. Outcome'
    BY <1>2, <1>3 DEF Outcome, Returned
<1> QED BY <1>4, <1>5, <1>6, <1>7

LEMMA UnreadableStep == SqlInv /\ ReplyUnreadable => SqlInv'
<1> SUFFICES ASSUME SqlInv, ReplyUnreadable PROVE SqlInv'
    OBVIOUS
<1> DEFINE a == [statement |-> NoStatement, reasons |-> {}, blocked |-> {},
                 error |-> "unreadable"]
<1>1. a \in Attempt /\ a.error # "none"
    BY NothingRecorded DEF Attempt, Errors
<1>2. /\ Fail(a) /\ pc = "ask"
      /\ UNCHANGED <<in_conversation, statement, challenged, blocking, executed>>
    BY DEF ReplyUnreadable
<1> HIDE DEF a
<1>3. /\ attempts' \in Seq(Attempt) /\ Len(attempts') <= MaxRepairAttempts + 1
      /\ invocation' \in [status : Statuses, evidence : Seq(Attempt)]
      /\ pc' \in {"ask", "returned"}
      /\ Rounds' /\ Outcome'
    BY <1>1, <1>2, FailKeepsRounds
<1>4. TypeOK'
    BY <1>2, <1>3 DEF SqlInv, TypeOK
<1>5. a.blocked = {} /\ a.reasons = {}
    BY DEF a
<1>6. attempts' = Append(attempts, a)
    BY <1>2 DEF Fail
<1>7. challenged' = challenged \cup (a.blocked \cap Lints)
    BY <1>2, <1>5
<1>8. /\ ChallengedOnce'
      /\ \A k \in Lints :
            k \in challenged' <=> \E n \in DOMAIN attempts' : k \in attempts'[n].blocked
    BY <1>1, <1>5, <1>6, <1>7, RecordKeepsAccount
<1>9. Flags' /\ InventedNeverRuns'
    BY <1>2, <1>3, <1>8 DEF SqlInv, Flags, InventedNeverRuns
<1> QED BY <1>3, <1>4, <1>8, <1>9 DEF SqlInv

LEMMA CheckStep == SqlInv /\ Check => SqlInv'
<1> SUFFICES ASSUME SqlInv, Check PROVE SqlInv'
    OBVIOUS
<1> DEFINE a == [statement |-> statement, reasons |-> Recorded(statement),
                 blocked |-> Objections(statement), error |-> "blocked"]
<1>1. /\ statement \in Statement
      /\ pc = "check" /\ blocking' = Objections(statement)
      /\ challenged' = challenged \cup (Objections(statement) \cap Lints)
      /\ UNCHANGED <<in_conversation, statement, executed>>
    BY DEF SqlInv, TypeOK, Check
<1>2. /\ Recorded(statement) \in SUBSET Reasons
      /\ Objections(statement) \in SUBSET Recorded(statement)
      /\ \A k \in Recorded(statement) :
            k \in Objections(statement) \/ (k \in Lints /\ k \in challenged)
      /\ \A k \in Objections(statement) \cap Lints : k \notin challenged
    BY <1>1, ReasonsTyped
<1>3. CASE Objections(statement) # {}
  <2>1. a \in Attempt /\ a.error # "none"
      BY <1>1, <1>2 DEF Attempt, Errors
  <2>2. Fail(a)
      BY <1>1, <1>3 DEF Check
  <2>3. a.blocked = Objections(statement) /\ a.reasons = Recorded(statement)
      OBVIOUS
  <2> HIDE DEF a
  <2>4. /\ attempts' \in Seq(Attempt) /\ Len(attempts') <= MaxRepairAttempts + 1
        /\ invocation' \in [status : Statuses, evidence : Seq(Attempt)]
        /\ pc' \in {"ask", "returned"}
        /\ Rounds' /\ Outcome'
      BY <1>1, <2>1, <2>2, FailKeepsRounds
  <2>5. TypeOK'
      BY <1>1, <1>2, <2>4 DEF SqlInv, TypeOK
  <2>6. attempts' = Append(attempts, a)
      BY <2>2 DEF Fail
  <2>7. /\ ChallengedOnce'
        /\ \A k \in Lints :
              k \in challenged' <=> \E n \in DOMAIN attempts' : k \in attempts'[n].blocked
      BY <1>1, <1>2, <2>1, <2>3, <2>6, RecordKeepsAccount
  <2>8. Flags' /\ InventedNeverRuns'
      BY <1>1, <2>4, <2>7 DEF SqlInv, Flags, InventedNeverRuns
  <2> QED BY <2>4, <2>5, <2>7, <2>8 DEF SqlInv
<1>4. CASE Objections(statement) = {}
  <2>1. /\ pc' = "execute" /\ UNCHANGED <<attempts, invocation>>
        /\ challenged' = challenged /\ blocking' = {}
      BY <1>1, <1>4 DEF Check
  <2>2. TypeOK'
      BY <1>1, <2>1 DEF SqlInv, TypeOK
  <2>3. Rounds' /\ ChallengedOnce' /\ InventedNeverRuns'
      BY <1>1, <2>1 DEF SqlInv, Rounds, ChallengedOnce, InventedNeverRuns
  <2>6. invocation' = Returned("none", <<>>)
      BY <1>1, <2>1 DEF SqlInv, Rounds
  <2>7. Outcome'
      BY <2>6 DEF Outcome, Returned
  <2>4. Objections(statement)' = {}
      BY <1>1, <1>4, <2>1 DEF Objections, Tripped, Invented
  <2>5. Flags'
      BY <2>1, <2>4 DEF SqlInv, Flags
  <2> QED BY <2>2, <2>3, <2>5, <2>7 DEF SqlInv
<1> QED BY <1>3, <1>4
-------------------------------------------------------------------------------
(* A statement reaches the database only with no objection left to it.     *)
LEMMA ExecuteKeepsPromise ==
    ASSUME SqlInv, pc = "execute", executed' = Append(executed, statement),
           UNCHANGED <<in_conversation, statement, challenged, blocking>>
    PROVE  /\ executed' \in Seq(Statement) /\ executed' # <<>>
           /\ executed'[Len(executed')] = statement
           /\ Invented(statement) = {}
           /\ InventedNeverRuns'
           /\ \A k \in Recorded(statement) : k \in Lints /\ k \in challenged
           /\ Recorded(statement) \in SUBSET Reasons
<1>1. executed \in Seq(Statement) /\ statement \in Statement
    BY DEF SqlInv, TypeOK
<1>2. /\ executed' \in Seq(Statement) /\ executed' # <<>>
      /\ Len(executed') = Len(executed) + 1
      /\ DOMAIN executed' = DOMAIN executed \cup {Len(executed) + 1}
      /\ \A n \in DOMAIN executed : executed'[n] = executed[n]
      /\ executed'[Len(executed) + 1] = statement
    BY <1>1, Appended
<1>3. Objections(statement) = {}
    BY DEF SqlInv, Flags
<1>4. /\ Invented(statement) = {}
      /\ \A k \in Recorded(statement) : k \in Lints /\ k \in challenged
      /\ Recorded(statement) \in SUBSET Reasons
    BY <1>1, <1>3, ReasonsTyped
<1>5. PlaceholderLint => ~statement.invented
    BY <1>4 DEF Invented
<1>6. InventedNeverRuns'
    BY <1>2, <1>5 DEF SqlInv, InventedNeverRuns
<1> QED BY <1>2, <1>4, <1>6

LEMMA ExecuteFailsStep == SqlInv /\ ExecuteFails => SqlInv'
<1> SUFFICES ASSUME SqlInv, ExecuteFails PROVE SqlInv'
    OBVIOUS
<1>1. PICK error \in {"raised", "alias"} : Fail(Tried(error))
    BY DEF ExecuteFails
<1>2. /\ pc = "execute" /\ executed' = Append(executed, statement)
      /\ UNCHANGED <<in_conversation, statement, challenged, blocking>>
      /\ statement \in Statement
    BY DEF ExecuteFails, SqlInv, TypeOK
<1>3. /\ executed' \in Seq(Statement)
      /\ InventedNeverRuns'
      /\ \A k \in Recorded(statement) : k \in Lints /\ k \in challenged
      /\ Recorded(statement) \in SUBSET Reasons
    BY <1>2, ExecuteKeepsPromise
<1> DEFINE a == Tried(error)
<1>4. /\ a \in Attempt /\ a.error # "none"
      /\ a.blocked = {} /\ a.reasons = Recorded(statement)
    BY <1>2, <1>3 DEF Tried, Attempt, Errors
<1>5. Fail(a)
    BY <1>1
<1> HIDE DEF a
<1>6. /\ attempts' \in Seq(Attempt) /\ Len(attempts') <= MaxRepairAttempts + 1
      /\ invocation' \in [status : Statuses, evidence : Seq(Attempt)]
      /\ pc' \in {"ask", "returned"}
      /\ Rounds' /\ Outcome'
    BY <1>2, <1>4, <1>5, FailKeepsRounds
<1>7. TypeOK'
    BY <1>2, <1>3, <1>6 DEF SqlInv, TypeOK
<1>8. attempts' = Append(attempts, a) /\ challenged' = challenged \cup (a.blocked \cap Lints)
    BY <1>2, <1>4, <1>5 DEF Fail
<1>9. /\ ChallengedOnce'
      /\ \A k \in Lints :
            k \in challenged' <=> \E n \in DOMAIN attempts' : k \in attempts'[n].blocked
    BY <1>3, <1>4, <1>8, RecordKeepsAccount
<1>10. Flags'
    BY <1>6, <1>9 DEF Flags
<1> QED BY <1>3, <1>6, <1>7, <1>9, <1>10 DEF SqlInv

LEMMA ExecuteReturnsStep == SqlInv /\ ExecuteReturns => SqlInv'
<1> SUFFICES ASSUME SqlInv, ExecuteReturns PROVE SqlInv'
    OBVIOUS
<1> DEFINE a == Tried("none")
           L == Len(attempts)
<1>1. /\ pc = "execute" /\ executed' = Append(executed, statement)
      /\ UNCHANGED <<in_conversation, statement, challenged, blocking>>
      /\ attempts' = Append(attempts, a)
      /\ invocation' = Returned("ok", attempts') /\ pc' = "returned"
      /\ statement \in Statement
    BY DEF ExecuteReturns, SqlInv, TypeOK
<1>2. /\ executed' \in Seq(Statement) /\ executed' # <<>>
      /\ executed'[Len(executed')] = statement
      /\ Invented(statement) = {}
      /\ InventedNeverRuns'
      /\ \A k \in Recorded(statement) : k \in Lints /\ k \in challenged
      /\ Recorded(statement) \in SUBSET Reasons
    BY <1>1, ExecuteKeepsPromise
<1>3. /\ a \in Attempt /\ a.error = "none"
      /\ a.blocked = {} /\ a.reasons = Recorded(statement)
    BY <1>1, <1>2 DEF Tried, Attempt, Errors
<1> HIDE DEF a
<1>4. attempts \in Seq(Attempt) /\ L \in Nat /\ DOMAIN attempts = 1..L
    BY LenProperties DEF SqlInv, TypeOK
<1>5. /\ attempts' \in Seq(Attempt) /\ attempts' # <<>>
      /\ Len(attempts') = L + 1
      /\ DOMAIN attempts' = DOMAIN attempts \cup {L + 1}
      /\ \A n \in DOMAIN attempts : attempts'[n] = attempts[n]
      /\ attempts'[L + 1] = a
    BY <1>1, <1>3, <1>4, Appended
<1>6. L <= MaxRepairAttempts /\ invocation = Returned("none", <<>>)
    BY <1>1 DEF SqlInv, Rounds
<1>7. \A n \in DOMAIN attempts : attempts[n].error # "none"
    BY <1>6 DEF SqlInv, Rounds, Returned
<1>8. TypeOK'
  <2>1. L + 1 <= MaxRepairAttempts + 1
    <3>1. MaxRepairAttempts \in Nat
        BY RunSqlAssumption
    <3> HIDE DEF L
    <3> QED BY <1>4, <1>6, <3>1
  <2>2. invocation' \in [status : Statuses, evidence : Seq(Attempt)]
      BY <1>1, <1>5 DEF Returned, Statuses
  <2> QED BY <1>1, <1>2, <1>5, <2>1, <2>2 DEF SqlInv, TypeOK
<1>9. Rounds'
    BY <1>1, <1>4, <1>5, <1>7 DEF Rounds
<1>10. challenged' = challenged \cup (a.blocked \cap Lints)
    BY <1>1, <1>3
<1>11. /\ ChallengedOnce'
       /\ \A k \in Lints :
             k \in challenged' <=> \E n \in DOMAIN attempts' : k \in attempts'[n].blocked
    BY <1>1, <1>2, <1>3, <1>10, RecordKeepsAccount
<1>12. Flags'
    BY <1>1, <1>11 DEF Flags
<1>13. Outcome'
  <2>1. attempts'[Len(attempts')] = a
      BY <1>5
  <2>2. /\ Recorded(executed[Len(executed)])' = Recorded(statement)
        /\ Invented(executed[Len(executed)])' = {}
      BY <1>1, <1>2 DEF Recorded, Tripped, Invented
  <2>3. invocation'.status = "ok" /\ invocation'.evidence = attempts'
      BY <1>1 DEF Returned
  <2> QED BY <1>2, <1>3, <1>5, <2>1, <2>2, <2>3 DEF Outcome
<1> QED BY <1>2, <1>8, <1>9, <1>11, <1>12, <1>13 DEF SqlInv

LEMMA RenderRaisesStep == SqlInv /\ RenderRaises => SqlInv'
<1> SUFFICES ASSUME SqlInv, RenderRaises PROVE SqlInv'
    OBVIOUS
<1>1. /\ pc = "execute" /\ executed' = Append(executed, statement)
      /\ invocation' = Returned("raised", <<>>) /\ pc' = "returned"
      /\ UNCHANGED <<in_conversation, statement, challenged, blocking, attempts>>
    BY DEF RenderRaises
<1>2. executed' \in Seq(Statement) /\ InventedNeverRuns'
    BY <1>1, ExecuteKeepsPromise
<1>3. TypeOK'
  <2>1. invocation' \in [status : Statuses, evidence : Seq(Attempt)]
      BY <1>1, EmptySeq DEF Returned, Statuses
  <2> QED BY <1>1, <1>2, <2>1 DEF SqlInv, TypeOK
<1>4. Rounds'
    BY <1>1 DEF SqlInv, Rounds, Returned
<1>5. Flags' /\ ChallengedOnce'
    BY <1>1 DEF SqlInv, Flags, ChallengedOnce
<1>6. Outcome'
    BY <1>1 DEF Outcome, Returned
<1> QED BY <1>2, <1>3, <1>4, <1>5, <1>6 DEF SqlInv

LEMMA StutterStep == SqlInv /\ UNCHANGED vars => SqlInv'
<1> SUFFICES ASSUME SqlInv, UNCHANGED vars PROVE SqlInv'
    OBVIOUS
<1> USE DEF SqlInv, vars
<1>1. TypeOK' /\ Rounds'
    BY DEF TypeOK, Rounds
<1>2. Flags'
    BY DEF Flags, Objections, Tripped, Invented
<1>3. ChallengedOnce' /\ InventedNeverRuns'
    BY DEF ChallengedOnce, InventedNeverRuns
<1>4. Outcome'
    BY DEF Outcome, Recorded, Tripped, Invented
<1> QED BY <1>1, <1>2, <1>3, <1>4

(* The invariant of the loop.                                              *)
THEOREM Invariance == Spec => []SqlInv
<1>1. SqlInv /\ [Next]_vars => SqlInv'
    BY QuietSteps, UnreadableStep, CheckStep, ExecuteFailsStep, ExecuteReturnsStep,
       RenderRaisesStep, StutterStep
       DEF Next, Over
<1> QED BY Initially, <1>1, PTL DEF Spec

(* Every variable keeps its type, and the attempts their bound.            *)
THEOREM TypeCorrect == Spec => []TypeOK
<1>1. SqlInv => TypeOK
    BY DEF SqlInv
<1> QED BY Invariance, <1>1, PTL

(* No lint takes two rounds of a call, and none is passed over: run_sql's  *)
(* flags, whatever the model resends.                                      *)
THEOREM LintsChallengeOnce == Spec => []ChallengedOnce
<1>1. SqlInv => ChallengedOnce
    BY DEF SqlInv
<1> QED BY Invariance, <1>1, PTL

(* The hard challenge: an invented value is never executed.                *)
THEOREM InventedValuesNeverRun == Spec => []InventedNeverRuns
<1>1. SqlInv => InventedNeverRuns
    BY DEF SqlInv
<1> QED BY Invariance, <1>1, PTL

(* A call ends within its attempts, with every one of them in evidence.    *)
THEOREM RepairsAlwaysEnd == Spec => []RepairsEnd
<1>1. SqlInv => RepairsEnd
    BY DEF SqlInv, Rounds, Outcome, RepairsEnd
<1> QED BY Invariance, <1>1, PTL

(* What a result still trips, the Verifier warns of, and the model had     *)
(* been challenged with in an earlier round.                               *)
THEOREM OverridesCostTheBadge == Spec => []OverrideCostsBadge
<1>1. ASSUME SqlInv PROVE OverrideCostsBadge
  <2> DEFINE L == Len(attempts)
             s == executed[Len(executed)]
  <2>1. attempts \in Seq(Attempt) /\ L \in Nat /\ DOMAIN attempts = 1..L
      BY <1>1, LenProperties DEF SqlInv, TypeOK
  <2>2. /\ executed \in Seq(Statement) /\ Len(executed) \in Nat
        /\ DOMAIN executed = 1..Len(executed)
      BY <1>1, LenProperties DEF SqlInv, TypeOK
  <2>3. CASE invocation.status = "ok"
    <3>1. /\ attempts # <<>> /\ executed # <<>> /\ invocation.evidence = attempts
          /\ attempts[L].error = "none" /\ attempts[L].blocked = {}
          /\ attempts[L].reasons = Recorded(s) /\ Invented(s) = {}
        BY <1>1, <2>3 DEF SqlInv, Outcome
    <3>2. L # 0 /\ Len(executed) # 0
        BY <2>1, <2>2, <3>1, EmptySeq
    <3>3. L \in DOMAIN attempts /\ s \in Statement
        BY <2>1, <2>2, <3>2, ElementOfSeq
    <3>4. Tripped(s) \subseteq Lints
        BY <3>3, RunSqlAssumption DEF Tripped, Statement
    <3>5. Overrides(invocation.evidence) = Tripped(s)
        BY <3>1, <3>4 DEF Overrides, Recorded
    <3>6. ASSUME NEW k \in Tripped(s)
          PROVE  \E m \in 1..(L - 1) : k \in attempts[m].blocked
      <4>1. k \in attempts[L].reasons
          BY <3>1, <3>6 DEF Recorded
      <4>2. PICK m \in 1..L : k \in attempts[m].blocked
          BY <1>1, <3>3, <4>1 DEF SqlInv, ChallengedOnce
      <4>3. m # L
          BY <3>1, <4>2
      <4>4. m \in 1..(L - 1)
        <5> HIDE DEF L
        <5> QED BY <2>1, <4>3
      <4> QED BY <4>2, <4>4
    <3> QED BY <2>3, <3>5, <3>6 DEF OverrideCostsBadge
  <2>4. CASE invocation.status # "ok"
    <3>1. \/ invocation.evidence = <<>>
          \/ /\ invocation.evidence = attempts
             /\ attempts[L].error # "none"
        BY <1>1, <2>4 DEF SqlInv, Outcome
    <3>2. Overrides(invocation.evidence) = {}
        BY <3>1 DEF Overrides
    <3> QED BY <2>4, <3>2 DEF OverrideCostsBadge
  <2> QED BY <2>3, <2>4
<1>2. SqlInv => OverrideCostsBadge
    BY <1>1
<1> QED BY Invariance, <1>2, PTL
===============================================================================
