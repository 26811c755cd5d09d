-------------------------------- MODULE RunSql --------------------------------
(***************************************************************************)
(* One call of the run_sql tool: the model writes a statement, the lints   *)
(* challenge it, the database runs it, and whatever went wrong is told to  *)
(* the model for another attempt.                                          *)
(*                                                                         *)
(* Four of the lints block once per call and are then only recorded; the   *)
(* placeholder lint blocks whenever it fires.  A statement is what the     *)
(* lints say of it.  What the call did, the Verifier reads from the        *)
(* attempts of its evidence.                                               *)
(***************************************************************************)
EXTENDS Naturals, Sequences, FiniteSets

CONSTANTS
    MaxRepairAttempts,  \* run_sql.max_repair_attempts
    EnabledLints,       \* the challenges the pack leaves on
    PlaceholderLint     \* run_sql.placeholder_lint

Lints == {"key", "fan_out", "enum", "interval"}

ASSUME RunSqlAssumption ==
    /\ MaxRepairAttempts \in Nat
    /\ EnabledLints \subseteq Lints
    /\ PlaceholderLint \in BOOLEAN

VARIABLES
    pc,             \* "call", "ask", "check", "execute", "returned"
    in_conversation,\* the call came with a TurnContext
    statement,      \* the statement under way
    challenged,     \* the lints that have had their word
    blocking,       \* why the statement under way may not run
    attempts,       \* the failed attempts, and the one that succeeded
    executed,       \* statements the database was given (history)
    invocation      \* what the tool returned: [status, evidence]

vars == <<pc, in_conversation, statement, challenged, blocking, attempts, executed, invocation>>

(* trips: the enabled lints that object; invented: a comment or a bind     *)
(* shape says a value is made up.                                          *)
Statement == [trips : SUBSET EnabledLints, invented : BOOLEAN]
NoStatement == [trips |-> {}, invented |-> FALSE]

Reasons == Lints \cup {"placeholder"}
Errors == {"none", "unreadable", "blocked", "raised", "alias"}

(* reasons: the lints recorded on the attempt; blocked: those among them   *)
(* its error names.                                                        *)
Attempt == [statement : Statement, reasons : SUBSET Reasons, blocked : SUBSET Reasons,
            error : Errors]

Statuses == {"none", "ok", "failed", "refused", "raised"}
Returned(status, evidence) == [status |-> status, evidence |-> evidence]

Init ==
    /\ pc = "call"
    /\ in_conversation \in BOOLEAN
    /\ statement = NoStatement
    /\ challenged = {} /\ blocking = {}
    /\ attempts = <<>> /\ executed = <<>>
    /\ invocation = Returned("none", <<>>)
-------------------------------------------------------------------------------
(* The question is SQL, or the substrates do not load: an error, with no   *)
(* attempt.                                                                *)
Refuse ==
    /\ pc = "call"
    /\ invocation' = Returned("refused", <<>>)
    /\ pc' = "returned"
    /\ UNCHANGED <<in_conversation, statement, challenged, blocking, attempts, executed>>

Ground ==
    /\ pc = "call"
    /\ pc' = "ask"
    /\ UNCHANGED <<in_conversation, statement, challenged, blocking, attempts, executed,
                   invocation>>

(* An attempt failed.  The model is told why, unless that was its last.    *)
Exhausted == Len(attempts) = MaxRepairAttempts

Fail(attempt) ==
    /\ attempts' = Append(attempts, attempt)
    /\ IF Exhausted
         THEN pc' = "returned" /\ invocation' = Returned("failed", attempts')
         ELSE pc' = "ask" /\ UNCHANGED invocation

(* No statement in the reply, or not a single SELECT: nothing is linted.   *)
ReplyUnreadable ==
    /\ pc = "ask"
    /\ Fail([statement |-> NoStatement, reasons |-> {}, blocked |-> {},
             error |-> "unreadable"])
    /\ UNCHANGED <<in_conversation, statement, challenged, blocking, executed>>

ReplyStatement ==
    /\ pc = "ask"
    /\ statement' \in Statement
    /\ pc' = "check"
    /\ UNCHANGED <<in_conversation, challenged, blocking, attempts, executed, invocation>>

(* The model, a lint or the grounding raised: the registry turns it into   *)
(* an error invocation, and the attempts are gone.                         *)
CallRaises ==
    /\ pc \in {"call", "ask", "check"}
    /\ invocation' = Returned("raised", <<>>)
    /\ pc' = "returned"
    /\ UNCHANGED <<in_conversation, statement, challenged, blocking, attempts, executed>>
-------------------------------------------------------------------------------
(* The key lint has nothing to ground against outside a conversation.      *)
Tripped(s) == IF in_conversation THEN s.trips ELSE s.trips \ {"key"}

Invented(s) == IF PlaceholderLint /\ s.invented THEN {"placeholder"} ELSE {}

(* Slips in what blocks, for the checks to tell apart.                     *)
ObjectionsOnceEach(s) ==
    {r \in Tripped(s) \cup Invented(s) : \A n \in DOMAIN attempts : r \notin attempts[n].blocked}
ObjectionsAlways(s) == Tripped(s) \cup Invented(s)

Objections(s) == (Tripped(s) \ challenged) \cup Invented(s)

(* A slip: only what blocks is recorded.                                   *)
RecordedIfBlocking(s) == Objections(s)

Recorded(s) == Tripped(s) \cup Invented(s)

Check ==
    /\ pc = "check"
    /\ blocking' = Objections(statement)
    /\ challenged' = challenged \cup (blocking' \cap Lints)
    /\ IF blocking' # {}
         THEN Fail([statement |-> statement, reasons |-> Recorded(statement),
                    blocked |-> blocking', error |-> "blocked"])
         ELSE pc' = "execute" /\ UNCHANGED <<attempts, invocation>>
    /\ UNCHANGED <<in_conversation, statement, executed>>

Tried(error) ==
    [statement |-> statement, reasons |-> Recorded(statement), blocked |-> {}, error |-> error]

(* The database raises, or a column of a non-empty result has no plain     *)
(* name.                                                                   *)
ExecuteFails ==
    /\ pc = "execute"
    /\ executed' = Append(executed, statement)
    /\ \E error \in {"raised", "alias"} : Fail(Tried(error))
    /\ UNCHANGED <<in_conversation, statement, challenged, blocking>>

ExecuteReturns ==
    /\ pc = "execute"
    /\ executed' = Append(executed, statement)
    /\ attempts' = Append(attempts, Tried("none"))
    /\ invocation' = Returned("ok", attempts')
    /\ pc' = "returned"
    /\ UNCHANGED <<in_conversation, statement, challenged, blocking>>

(* The rows came, and what is made of them raised.                         *)
RenderRaises ==
    /\ pc = "execute"
    /\ executed' = Append(executed, statement)
    /\ invocation' = Returned("raised", <<>>)
    /\ pc' = "returned"
    /\ UNCHANGED <<in_conversation, statement, challenged, blocking, attempts>>

Over == pc = "returned" /\ UNCHANGED vars

Next ==
    \/ Refuse \/ Ground \/ ReplyUnreadable \/ ReplyStatement \/ CallRaises
    \/ Check \/ ExecuteFails \/ ExecuteReturns \/ RenderRaises \/ Over

Spec == Init /\ [][Next]_vars

-------------------------------------------------------------------------------
(* What the Verifier warns of: the lints the last attempt of the evidence  *)
(* still trips, if it succeeded.                                           *)
Overrides(evidence) ==
    IF evidence # <<>> /\ evidence[Len(evidence)].error = "none"
      THEN evidence[Len(evidence)].reasons \cap Lints ELSE {}

TypeOK ==
    /\ pc \in {"call", "ask", "check", "execute", "returned"}
    /\ in_conversation \in BOOLEAN
    /\ statement \in Statement
    /\ challenged \subseteq Lints /\ blocking \subseteq Reasons
    /\ attempts \in Seq(Attempt) /\ Len(attempts) <= MaxRepairAttempts + 1
    /\ executed \in Seq(Statement)
    /\ invocation \in [status : Statuses, evidence : Seq(Attempt)]

(* Each lint blocks at most once per call, and none is passed over: an     *)
(* objection to any attempt has blocked that one or an earlier one, in the *)
(* one round with every other that was new.                                *)
ChallengedOnce ==
    \A n \in DOMAIN attempts :
        /\ \A k \in attempts[n].blocked \cap Lints :
              \A m \in 1..(n - 1) : k \notin attempts[m].blocked
        /\ \A k \in attempts[n].reasons : \E m \in 1..n : k \in attempts[m].blocked

(* An invented value never reaches the database, whatever was challenged   *)
(* and resent before: the placeholder challenge has no licence.            *)
InventedNeverRuns ==
    PlaceholderLint => \A n \in DOMAIN executed : ~executed[n].invented

(* A result comes from the statement the model insisted on: what it still  *)
(* trips is exactly what the Verifier warns of, and the model had heard    *)
(* each of those objections before it; without a result nothing is warned  *)
(* of.                                                                     *)
OverrideCostsBadge ==
    LET warned == Overrides(invocation.evidence)
    IN  IF invocation.status = "ok"
          THEN /\ warned = Tripped(executed[Len(executed)])
               /\ \A k \in warned : \E m \in 1..(Len(attempts) - 1) : k \in attempts[m].blocked
          ELSE warned = {}

(* The call ends within its attempts: a result from the last, or an error  *)
(* with every one of them in its evidence, unless something raised.        *)
RepairsEnd ==
    /\ \A n \in DOMAIN attempts : attempts[n].error = "none" =>
          n = Len(attempts) /\ invocation = Returned("ok", attempts)
    /\ invocation.status = "failed" =>
          Len(attempts) = MaxRepairAttempts + 1 /\ invocation.evidence = attempts
===============================================================================
