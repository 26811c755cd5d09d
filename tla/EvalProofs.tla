------------------------------- MODULE EvalProofs -------------------------------
(***************************************************************************)
(* What a report holds, for every number of keys and of turns, every set   *)
(* of systems, and any number of processes killed at any write; and what   *)
(* grading a report says, for every bank.                                  *)
(***************************************************************************)
EXTENDS EvalReport, Grading, NaturalsInduction, WellFoundedInduction, FiniteSetTheorems,
        SequenceTheorems, TLAPS

Place(lines, n, i) == n \in DOMAIN lines /\ i \in DOMAIN lines[n]
RecordAt(lines, n, i) == Place(lines, n, i) /\ lines[n][i].kind = "record"
HasKey(lines, k) == \E n, i : RecordAt(lines, n, i) /\ lines[n][i].key = k

AllPieces == {Part} \cup [kind : {"header"}, system : Systems] \cup RunRecords

(* The turns of one attempt, in one conversation, c; and all of them.      *)
OneConversation(ts, c) ==
    \A i \in DOMAIN ts :
        /\ ts[i].conversation_id = c
        /\ ~ts[i].error => ts[i].engine_turn = i /\ c # 0
        /\ ts[i].error => i = Len(ts)

Whole(ts) == Len(ts) > 0 /\ (~ts[Len(ts)].error => Len(ts) = NumTurns)

Conversation(r) == r.turns[1].conversation_id

GoodRecord(r, held) ==
    OneConversation(r.turns, Conversation(r)) /\ Whole(r.turns) /\ Conversation(r) <= held

(* A file's lines, whatever was cut: one header, at the top; the records   *)
(* are its system's, of different keys, and of conversations of their own. *)
Filed(lines, held) ==
    /\ \A n, i : Place(lines, n, i) /\ lines[n][i].kind = "header" => n = 1 /\ i = 1
    /\ \A n, i : RecordAt(lines, n, i) =>
          /\ lines[1][1].kind = "header" /\ lines[1][1].system = lines[n][i].system
          /\ GoodRecord(lines[n][i], held)
    /\ \A n, i, m, j :
          RecordAt(lines, n, i) /\ RecordAt(lines, m, j) /\ (n # m \/ i # j) =>
             /\ lines[n][i].key # lines[m][j].key
             /\ Conversation(lines[n][i]) = Conversation(lines[m][j]) =>
                   Conversation(lines[n][i]) = 0

File ==
    /\ ~report.exists => report = NoReport
    /\ report.terminated \/ report.lines # <<>>
    /\ ~report.terminated /\ Parses(Last(report.lines)) => newline_lost

Process ==
    /\ pc # "off" => result = "none"
    /\ pc = "header" => report = NoReport
    /\ pc = "rewrite" => Kept # <<>>
    /\ pc \in {"header", "load", "rewrite", "resume"} =>
          attempt = 1 /\ turns = <<>> /\ conversation = NoConversation

Sweeping ==
    pc \in {"play", "append"} =>
        /\ pending # {}
        /\ report.lines # <<>> /\ report.lines[1][1] = Header(system)
        /\ \A k \in pending : ~HasKey(report.lines, k)
        /\ ~Separators => \A k \in selected \ pending : HasKey(report.lines, k)
        /\ ~Separators /\ ~newline_lost => Readable /\ report.terminated

Rep ==
    pc \in {"play", "append"} =>
        /\ OneConversation(turns, conversation.id) /\ conversation.id <= conversations
        /\ conversation.id # 0 =>
              \A n, i : RecordAt(report.lines, n, i) =>
                           Conversation(report.lines[n][i]) # conversation.id
        /\ pc = "play" => /\ \A i \in DOMAIN turns : ~turns[i].error
                          /\ Len(turns) < NumTurns /\ conversation.spent = Len(turns)
        /\ pc = "append" => Whole(turns)

Finished ==
    ~Separators /\ result = "finished" =>
        /\ \A k \in selected : HasKey(report.lines, k)
        /\ ~newline_lost => Readable

EInv ==
    /\ TypeOK /\ Filed(report.lines, conversations)
    /\ File /\ Process /\ Sweeping /\ Rep /\ Finished
-------------------------------------------------------------------------------
(* Every set of numbers up to a bound has a largest, and a least.          *)
LEMMA HasLeast ==
    ASSUME NEW S \in SUBSET Nat, S # {}
    PROVE  \E k \in S : \A m \in S : k <= m
<1>. DEFINE R == OpToRel(<, Nat)
<1>1. \A i, j \in Nat : <<i, j>> \in R <=> i < j
  BY DEF OpToRel
<1>2. IsWellFoundedOn(R, Nat)
  BY NatLessThanWellFounded
<1>. HIDE DEF R
<1>3. PICK k \in S : \A m \in S : ~(<<m, k>> \in R)
  BY <1>2, WFMin
<1>4. \A m \in S : ~(m < k) /\ m \in Nat /\ k \in Nat
  BY <1>1, <1>3
<1>. QED  BY <1>4

LEMMA HasLargest ==
    ASSUME NEW S \in SUBSET Nat, S # {}, NEW bound \in Nat, \A i \in S : i <= bound
    PROVE  \E m \in S : \A i \in S : i <= m
<1>. DEFINE Left == {n \in Nat : bound - n \in S}
<1>1. ASSUME NEW i \in S PROVE bound - i \in Left /\ i = bound - (bound - i)
  BY <1>1
<1>2. Left \in SUBSET Nat /\ Left # {}
  BY <1>1
<1>. HIDE DEF Left
<1>3. PICK k \in Left : \A m \in Left : k <= m
  BY <1>2, HasLeast
<1>4. k \in Nat /\ bound - k \in S
  BY <1>3 DEF Left
<1>5. ASSUME NEW i \in S PROVE i <= bound - k
  <2>1. bound - i \in Left /\ bound - i \in Nat /\ i \in Nat
    BY <1>1, <1>2
  <2>2. k <= bound - i
    BY <1>3, <2>1
  <2>. QED  BY <1>4, <2>1, <2>2
<1>. QED  BY <1>4, <1>5

LEMMA NowIsPending ==
    ASSUME TypeOK, pending # {}
    PROVE  Now \in pending
<1>1. pending \in SUBSET Nat
  BY EvalReportAssumption DEF TypeOK, Keys
<1>2. \E k \in pending : \A m \in pending : k <= m
  BY <1>1, HasLeast
<1>. QED  BY <1>2 DEF Now

(* What a file is made of.                                                 *)
LEMMA Shape ==
    ASSUME NEW lines \in Seq(Lines)
    PROVE  /\ Len(lines) \in Nat /\ DOMAIN lines = 1..Len(lines)
           /\ \A n \in DOMAIN lines :
                 /\ lines[n] \in Seq(AllPieces) /\ Len(lines[n]) \in Nat
                 /\ Len(lines[n]) > 0 /\ DOMAIN lines[n] = 1..Len(lines[n])
                 /\ \A i \in DOMAIN lines[n] : lines[n][i] \in AllPieces
           /\ lines # <<>> => Len(lines) > 0 /\ Place(lines, 1, 1)
<1>1. Lines = Seq(AllPieces) \ {<<>>}
  BY DEF Lines, AllPieces
<1>2. Len(lines) \in Nat /\ DOMAIN lines = 1..Len(lines)
  OBVIOUS
<1>3. ASSUME NEW n \in DOMAIN lines
      PROVE  /\ lines[n] \in Seq(AllPieces) /\ Len(lines[n]) \in Nat
             /\ Len(lines[n]) > 0 /\ DOMAIN lines[n] = 1..Len(lines[n])
             /\ \A i \in DOMAIN lines[n] : lines[n][i] \in AllPieces
  <2>1. lines[n] \in Lines
    OBVIOUS
  <2>2. lines[n] \in Seq(AllPieces) /\ lines[n] # <<>>
    BY <1>1, <2>1
  <2>. QED  BY <2>2
<1>4. lines # <<>> => Len(lines) > 0 /\ Place(lines, 1, 1)
  <2>1. lines # <<>> => 1 \in DOMAIN lines
    BY <1>2
  <2>2. 1 \in DOMAIN lines => 1 \in DOMAIN lines[1]
    BY <1>3
  <2>. QED  BY <1>2, <2>1, <2>2 DEF Place
<1>. QED  BY <1>2, <1>3, <1>4

LEMMA PieceKinds ==
    ASSUME NEW p \in AllPieces
    PROVE  /\ p.kind \in {"part", "header", "record"}
           /\ p.kind = "record" => p \in RunRecords
           /\ p.kind = "header" => p.system \in Systems
           /\ p.kind = "part" => p = Part
           /\ p # Part => p.kind # "part"
<1>1. Part.kind = "part"
  BY DEF Part
<1>2. CASE p \in [kind : {"header"}, system : Systems]
  BY <1>1, <1>2
<1>3. CASE p \in RunRecords
  BY <1>1, <1>3 DEF RunRecords
<1>. QED  BY <1>1, <1>2, <1>3 DEF AllPieces

(* A piece more at the end of a file: on a line of its own, or on the last *)
(* one; the other pieces are where they were.                              *)
Extends(M, lines, a, b, e) ==
    /\ Place(M, a, b) /\ M[a][b] = e /\ ~Place(lines, a, b)
    /\ \A n, i : Place(M, n, i) <=> Place(lines, n, i) \/ (n = a /\ i = b)
    /\ \A n, i : Place(lines, n, i) => M[n][i] = lines[n][i]

LEMMA NewLine ==
    ASSUME NEW lines \in Seq(Lines), NEW e \in AllPieces
    PROVE  /\ lines \o <<<<e>>>> = Append(lines, <<e>>)
           /\ Append(lines, <<e>>) \in Seq(Lines)
           /\ Extends(Append(lines, <<e>>), lines, Len(lines) + 1, 1, e)
<1> DEFINE M == Append(lines, <<e>>)
<1>1. <<e>> \in Lines
  BY DEF Lines, AllPieces
<1>2. /\ lines \o <<<<e>>>> = M /\ M \in Seq(Lines) /\ DOMAIN M = 1..(Len(lines) + 1)
      /\ Len(lines) \in Nat /\ DOMAIN lines = 1..Len(lines)
      /\ M[Len(lines) + 1] = <<e>> /\ \A n \in 1..Len(lines) : M[n] = lines[n]
  BY <1>1
<1>3. DOMAIN <<e>> = {1} /\ <<e>>[1] = e
  OBVIOUS
<1> HIDE DEF M
<1>. QED  BY <1>2, <1>3 DEF Extends, Place, M

LEMMA OnLastLine ==
    ASSUME NEW lines \in Seq(Lines), lines # <<>>, NEW e \in AllPieces
    PROVE  LET M == Front(lines) \o <<Last(lines) \o <<e>>>>
           IN  /\ M \in Seq(Lines)
               /\ \E b : Extends(M, lines, Len(lines), b, e)
<1> DEFINE k == Len(lines)
           last == lines[k]
           line == last \o <<e>>
           M == Front(lines) \o <<line>>
<1>1. k \in Nat /\ k > 0 /\ DOMAIN lines = 1..k
  OBVIOUS
<1>2. last \in Seq(AllPieces) /\ Len(last) \in Nat /\ DOMAIN last = 1..Len(last)
  BY <1>1, Shape
<1>3. Front(lines) \in Seq(Lines) /\ Len(Front(lines)) = k - 1
      /\ \A n \in 1..(k - 1) : Front(lines)[n] = lines[n]
  BY <1>1 DEF Front
<1>4. Last(lines) = last
  BY DEF Last
<1> HIDE DEF last
<1>5. /\ line \in Seq(AllPieces) /\ line # <<>> /\ DOMAIN line = 1..(Len(last) + 1)
      /\ line[Len(last) + 1] = e /\ \A i \in 1..Len(last) : line[i] = last[i]
  BY <1>2
<1>6. line \in Lines
  BY <1>5 DEF Lines, AllPieces
<1> HIDE DEF line
<1>7. /\ M \in Seq(Lines) /\ DOMAIN M = 1..k /\ M[k] = line
      /\ \A n \in 1..(k - 1) : M[n] = lines[n]
  <2> DEFINE f == Front(lines)
  <2>1. f \in Seq(Lines) /\ Len(f) = k - 1
    BY <1>3
  <2> HIDE DEF f, k
  <2>2. /\ f \o <<line>> \in Seq(Lines) /\ DOMAIN (f \o <<line>>) = 1..k /\ (f \o <<line>>)[k] = line
        /\ \A n \in 1..(k - 1) : (f \o <<line>>)[n] = f[n]
    BY <1>1, <1>6, <2>1
  <2>. QED  BY <1>3, <2>2 DEF f
<1>8. lines[k] = last
  BY DEF last
<1> HIDE DEF M, k
<1>9. Extends(M, lines, k, Len(last) + 1, e)
  <2> DEFINE b == Len(last) + 1
  <2>1. DOMAIN M[k] = 1..b /\ DOMAIN lines[k] = 1..(b - 1) /\ b \in Nat /\ b > 0
        /\ M[k][b] = e /\ \A i \in 1..(b - 1) : M[k][i] = lines[k][i]
    BY <1>2, <1>5, <1>7, <1>8
  <2> HIDE DEF b
  <2>2. Place(M, k, b) /\ M[k][b] = e /\ ~Place(lines, k, b)
    BY <1>1, <1>7, <2>1 DEF Place
  <2>3. ASSUME NEW n, NEW i, Place(lines, n, i)
        PROVE  Place(M, n, i) /\ M[n][i] = lines[n][i]
    <3>1. CASE n = k
      BY <1>1, <1>7, <2>1, <2>3, <3>1 DEF Place
    <3>2. CASE n # k
      <4>1. n \in 1..(k - 1)
        BY <1>1, <2>3, <3>2 DEF Place
      <4>. QED  BY <1>1, <1>7, <2>3, <4>1 DEF Place
    <3>. QED  BY <3>1, <3>2
  <2>4. ASSUME NEW n, NEW i, Place(M, n, i), ~(n = k /\ i = b)
        PROVE  Place(lines, n, i)
    <3>1. CASE n = k
      <4>1. i \in 1..b /\ i # b
        BY <2>1, <2>4, <3>1 DEF Place
      <4>. QED  BY <1>1, <2>1, <3>1, <4>1 DEF Place
    <3>2. CASE n # k
      <4>1. n \in 1..(k - 1)
        BY <1>1, <1>7, <2>4, <3>2 DEF Place
      <4>. QED  BY <1>1, <1>7, <2>4, <4>1 DEF Place
    <3>. QED  BY <3>1, <3>2
  <2>5. \A n, i : Place(M, n, i) <=> Place(lines, n, i) \/ (n = k /\ i = b)
    BY <2>2, <2>3, <2>4
  <2>. QED  BY <2>2, <2>3, <2>5 DEF Extends, b
<1>. QED  BY <1>4, <1>7, <1>9 DEF M, k, line

LEMMA AtEndOne ==
    ASSUME NEW lines \in Seq(Lines), NEW terminated \in BOOLEAN, terminated \/ lines # <<>>,
           NEW e \in AllPieces, NEW M, M = AtEnd(lines, terminated, <<<<e>>>>)
    PROVE  /\ M \in Seq(Lines) /\ M # <<>>
           /\ terminated => M = Append(lines, <<e>>)
           /\ \E a, b : Extends(M, lines, a, b, e)
<1>1. CASE terminated
  <2>1. M = lines \o <<<<e>>>>
    BY <1>1 DEF AtEnd
  <2>2. M = Append(lines, <<e>>) /\ M \in Seq(Lines) /\ Extends(M, lines, Len(lines) + 1, 1, e)
    BY <2>1, NewLine
  <2>3. M # <<>>
    BY <2>2
  <2>. QED  BY <2>2, <2>3
<1>2. CASE ~terminated
  <2> DEFINE N == Front(lines) \o <<Last(lines) \o <<e>>>>
  <2>1. Head(<<<<e>>>>) = <<e>> /\ Tail(<<<<e>>>>) = <<>>
    OBVIOUS
  <2>2. N \in Seq(Lines) /\ \E b : Extends(N, lines, Len(lines), b, e)
    BY <1>2, OnLastLine
  <2>3. M = N \o <<>>
    BY <1>2, <2>1 DEF AtEnd
  <2> HIDE DEF N
  <2>4. M = N
    BY <2>2, <2>3
  <2>5. M # <<>>
    BY <2>2, <2>4 DEF Extends, Place
  <2>. QED  BY <1>2, <2>2, <2>4, <2>5
<1>. QED  BY <1>1, <1>2
LEMMA AtEndTwo ==
    ASSUME NEW lines \in Seq(Lines), NEW terminated \in BOOLEAN, terminated \/ lines # <<>>,
           NEW d \in AllPieces, NEW e \in AllPieces
    PROVE  AtEnd(lines, terminated, <<<<d>>, <<e>>>>) =
              AtEnd(AtEnd(lines, terminated, <<<<d>>>>), TRUE, <<<<e>>>>)
<1>1. /\ Head(<<<<d>>, <<e>>>>) = <<d>> /\ Tail(<<<<d>>, <<e>>>>) = <<<<e>>>>
      /\ Head(<<<<d>>>>) = <<d>> /\ Tail(<<<<d>>>>) = <<>>
  OBVIOUS
<1>2. <<d>> \in Lines /\ <<e>> \in Lines
  BY DEF Lines, AllPieces
<1>3. CASE terminated
  <2>1. ASSUME NEW x \in Lines, NEW y \in Lines
        PROVE  lines \o <<x, y>> = (lines \o <<x>>) \o <<y>>
    <3> DEFINE k == Len(lines)
               p == lines \o <<x, y>>
               f == lines \o <<x>>
               q == f \o <<y>>
    <3>1. /\ p \in Seq(Lines) /\ k \in Nat /\ Len(p) = k + 2
          /\ \A i \in 1..k : p[i] = lines[i]
          /\ p[k + 1] = x /\ p[k + 2] = y
      OBVIOUS
    <3>2. /\ f \in Seq(Lines) /\ Len(f) = k + 1 /\ f[k + 1] = x
          /\ \A i \in 1..k : f[i] = lines[i]
      OBVIOUS
    <3> HIDE DEF f
    <3>3. /\ q \in Seq(Lines) /\ Len(q) = k + 2 /\ q[k + 2] = y
          /\ \A i \in 1..(k + 1) : q[i] = f[i]
      BY <3>1, <3>2
    <3> HIDE DEF p, q, k
    <3>4. \A i \in 1..Len(p) : p[i] = q[i]
      BY <3>1, <3>2, <3>3
    <3>5. p = q
      BY <3>1, <3>3, <3>4, SeqEqual
    <3>. QED  BY <3>5 DEF p, q, f
  <2>. QED  BY <1>2, <1>3, <2>1 DEF AtEnd
<1>4. CASE ~terminated
  <2> DEFINE N == Front(lines) \o <<Last(lines) \o <<d>>>>
  <2>1. N \in Seq(Lines)
    BY <1>4, OnLastLine
  <2>2. /\ AtEnd(lines, terminated, <<<<d>>, <<e>>>>) = N \o <<<<e>>>>
        /\ AtEnd(lines, terminated, <<<<d>>>>) = N \o <<>>
    BY <1>1, <1>4 DEF AtEnd
  <2> HIDE DEF N
  <2>3. N \o <<>> = N
    BY <2>1
  <2>. QED  BY <2>2, <2>3 DEF AtEnd
<1>. QED  BY <1>3, <1>4

(* What is left of a file, and pieces cut short, keep its records as they  *)
(* were.                                                                   *)
LEMMA ContentCut ==
    ASSUME NEW lines, NEW M, NEW held \in Nat, NEW more \in Nat, held <= more,
           Filed(lines, held), M \in Seq(Lines), lines \in Seq(Lines),
           \A n, i : Place(M, n, i) =>
              \/ M[n][i] = Part
              \/ /\ Place(lines, n, i) /\ M[n][i] = lines[n][i]
                 /\ M[1][1] = lines[1][1]
    PROVE  Filed(M, more)
<1>1. \A n, i : Place(M, n, i) /\ M[n][i].kind # "part" =>
          Place(lines, n, i) /\ M[n][i] = lines[n][i] /\ M[1][1] = lines[1][1]
  BY DEF Part
<1>2. \A n, i : Place(M, n, i) /\ M[n][i].kind = "header" => n = 1 /\ i = 1
  BY <1>1 DEF Filed
<1>3. \A n, i : RecordAt(M, n, i) =>
          RecordAt(lines, n, i) /\ M[n][i] = lines[n][i] /\ M[1][1] = lines[1][1]
  BY <1>1 DEF RecordAt
<1>4. ASSUME NEW n, NEW i, RecordAt(M, n, i)
      PROVE  /\ M[1][1].kind = "header" /\ M[1][1].system = M[n][i].system
             /\ GoodRecord(M[n][i], more)
  <2>1. /\ RecordAt(lines, n, i) /\ M[n][i] = lines[n][i] /\ M[1][1] = lines[1][1]
    BY <1>3, <1>4
  <2>2. /\ lines[1][1].kind = "header" /\ lines[1][1].system = lines[n][i].system
        /\ GoodRecord(lines[n][i], held)
    BY <2>1 DEF Filed
  <2>3. Conversation(lines[n][i]) \in Nat
    <3>1. lines[n][i] \in RunRecords
      BY <2>1, Shape, PieceKinds DEF RecordAt, Place
    <3>2. lines[n][i].turns \in Seq(TurnRecords) /\ Len(lines[n][i].turns) > 0
      BY <2>2, <3>1 DEF RunRecords, GoodRecord, Whole
    <3>3. lines[n][i].turns[1] \in TurnRecords
      BY <3>2
    <3>. QED  BY <3>3 DEF Conversation, TurnRecords
  <2>4. GoodRecord(lines[n][i], more)
    BY <2>2, <2>3 DEF GoodRecord
  <2>. QED  BY <2>1, <2>2, <2>4
<1>5. ASSUME NEW n, NEW i, NEW m, NEW j, RecordAt(M, n, i), RecordAt(M, m, j), n # m \/ i # j
      PROVE  /\ M[n][i].key # M[m][j].key
             /\ Conversation(M[n][i]) = Conversation(M[m][j]) => Conversation(M[n][i]) = 0
  <2>1. /\ RecordAt(lines, n, i) /\ M[n][i] = lines[n][i]
        /\ RecordAt(lines, m, j) /\ M[m][j] = lines[m][j]
    BY <1>3, <1>5
  <2>. QED  BY <1>5, <2>1 DEF Filed
<1>. QED  BY <1>2, <1>4, <1>5 DEF Filed

(* Another record of the same system, of a key not there yet and of a      *)
(* conversation of its own.                                                *)
LEMMA ContentRecord ==
    ASSUME NEW lines, NEW M, NEW a, NEW b, NEW e, NEW held,
           Filed(lines, held), Extends(M, lines, a, b, e), e.kind = "record",
           Place(lines, 1, 1), lines[1][1].kind = "header", lines[1][1].system = e.system,
           GoodRecord(e, held), ~HasKey(lines, e.key),
           Conversation(e) # 0 =>
              \A n, i : RecordAt(lines, n, i) => Conversation(lines[n][i]) # Conversation(e)
    PROVE  Filed(M, held) /\ HasKey(M, e.key)
<1>1. \A n, i : Place(M, n, i) =>
          \/ n = a /\ i = b /\ M[n][i] = e
          \/ Place(lines, n, i) /\ M[n][i] = lines[n][i] /\ ~(n = a /\ i = b)
  BY DEF Extends
<1>2. M[1][1] = lines[1][1] /\ M[a][b] = e /\ Place(M, a, b)
  BY DEF Extends
<1>3. \A n, i : Place(M, n, i) /\ M[n][i].kind = "header" => n = 1 /\ i = 1
  BY <1>1 DEF Filed
<1>4. \A n, i : RecordAt(M, n, i) =>
          \/ n = a /\ i = b /\ M[n][i] = e
          \/ RecordAt(lines, n, i) /\ M[n][i] = lines[n][i] /\ ~(n = a /\ i = b)
  BY <1>1 DEF RecordAt
<1>5. \A n, i : RecordAt(M, n, i) =>
          /\ M[1][1].kind = "header" /\ M[1][1].system = M[n][i].system
          /\ GoodRecord(M[n][i], held)
  BY <1>2, <1>4 DEF Filed
<1>6. ASSUME NEW n, NEW i, NEW m, NEW j, RecordAt(M, n, i), RecordAt(M, m, j), n # m \/ i # j
      PROVE  /\ M[n][i].key # M[m][j].key
             /\ Conversation(M[n][i]) = Conversation(M[m][j]) => Conversation(M[n][i]) = 0
  <2>1. CASE n = a /\ i = b
    <3>1. M[n][i] = e /\ RecordAt(lines, m, j) /\ M[m][j] = lines[m][j]
      BY <1>2, <1>4, <1>6, <2>1
    <3>. QED  BY <3>1 DEF HasKey
  <2>2. CASE m = a /\ j = b
    <3>1. M[m][j] = e /\ RecordAt(lines, n, i) /\ M[n][i] = lines[n][i]
      BY <1>2, <1>4, <1>6, <2>2
    <3>. QED  BY <3>1 DEF HasKey
  <2>3. CASE ~(n = a /\ i = b) /\ ~(m = a /\ j = b)
    <3>1. /\ RecordAt(lines, n, i) /\ M[n][i] = lines[n][i]
          /\ RecordAt(lines, m, j) /\ M[m][j] = lines[m][j]
      BY <1>4, <1>6, <2>3
    <3>. QED  BY <1>6, <3>1 DEF Filed
  <2>. QED  BY <2>1, <2>2, <2>3
<1>. QED  BY <1>2, <1>3, <1>5, <1>6 DEF Filed, HasKey, RecordAt

(* A piece cut short, at the end.                                          *)
LEMMA ContentPart ==
    ASSUME NEW lines \in Seq(Lines), NEW M \in Seq(Lines), NEW a, NEW b, NEW held \in Nat,
           Filed(lines, held), Extends(M, lines, a, b, Part)
    PROVE  Filed(M, held)
<1>1. \A n, i : Place(M, n, i) =>
          M[n][i] = Part \/ (Place(lines, n, i) /\ M[n][i] = lines[n][i] /\ M[1][1] = lines[1][1])
  <2>1. \A n, i : Place(lines, n, i) => M[1][1] = lines[1][1]
    BY Shape DEF Extends, Place
  <2>. QED  BY <2>1 DEF Extends
<1>. QED  BY <1>1, ContentCut

(* The lines a resume keeps are the first of them, up to some line.        *)
LEMMA FirstLines ==
    ASSUME NEW lines \in Seq(Lines), NEW m \in 0..Len(lines)
    PROVE  /\ SubSeq(lines, 1, m) \in Seq(Lines) /\ Len(SubSeq(lines, 1, m)) = m
           /\ DOMAIN SubSeq(lines, 1, m) = 1..m
           /\ \A n \in 1..m : SubSeq(lines, 1, m)[n] = lines[n]
           /\ SubSeq(lines, 1, m) = <<>> <=> m = 0
OBVIOUS

LEMMA KeptLines ==
    ASSUME TypeOK
    PROVE  \E m \in 0..Len(report.lines) :
              /\ Kept = SubSeq(report.lines, 1, m)
              /\ m > 0 => Parses(report.lines[m])
              /\ \A n \in DOMAIN report.lines : Parses(report.lines[n]) => n <= m
<1> DEFINE good == {n \in DOMAIN report.lines : Parses(report.lines[n])}
           m == CHOOSE n \in good \cup {0} : \A k \in good : k <= n
<1>1. Len(report.lines) \in Nat /\ DOMAIN report.lines = 1..Len(report.lines)
  BY DEF TypeOK
<1>2. good \in SUBSET Nat /\ \A n \in good : n <= Len(report.lines) /\ n > 0
  BY <1>1
<1>3. Kept = SubSeq(report.lines, 1, m)
  BY DEF Kept
<1> HIDE DEF good
<1>4. \E n \in good \cup {0} : \A k \in good : k <= n
  <2>1. CASE good = {}
    BY <2>1
  <2>2. CASE good # {}
    BY <1>1, <1>2, <2>2, HasLargest
  <2>. QED  BY <2>1, <2>2
<1>5. m \in good \cup {0} /\ \A k \in good : k <= m
  BY <1>4
<1> HIDE DEF m
<1>6. m \in 0..Len(report.lines)
  BY <1>1, <1>2, <1>5
<1>7. /\ m > 0 => Parses(report.lines[m])
      /\ \A n \in DOMAIN report.lines : Parses(report.lines[n]) => n <= m
  BY <1>5 DEF good
<1>. QED  BY <1>3, <1>6, <1>7
-------------------------------------------------------------------------------
(* The record about to be written, and the file it is written to.          *)
LEMMA ThisRecordGood ==
    ASSUME EInv, pc = "append"
    PROVE  /\ ThisRecord \in RunRecords /\ ThisRecord \in AllPieces
           /\ ThisRecord.kind = "record" /\ ThisRecord.key = Now /\ ThisRecord.system = system
           /\ Now \in pending /\ Now \in Keys /\ ~HasKey(report.lines, Now)
           /\ GoodRecord(ThisRecord, conversations)
           /\ Conversation(ThisRecord) # 0 =>
                 \A n, i : RecordAt(report.lines, n, i) =>
                              Conversation(report.lines[n][i]) # Conversation(ThisRecord)
<1>1. Now \in pending /\ Now \in Keys /\ ~HasKey(report.lines, Now)
  BY NowIsPending DEF EInv, Sweeping, TypeOK
<1>2. /\ ThisRecord.kind = "record" /\ ThisRecord.key = Now /\ ThisRecord.system = system
      /\ ThisRecord.turns = turns /\ ThisRecord \in RunRecords
  BY <1>1 DEF ThisRecord, Record, EInv, TypeOK, RunRecords
<1>3. /\ OneConversation(turns, conversation.id) /\ conversation.id <= conversations
      /\ Whole(turns) /\ turns \in Seq(TurnRecords)
  BY DEF EInv, Rep, TypeOK
<1>4. turns[1].conversation_id = conversation.id
  BY <1>3 DEF OneConversation, Whole
<1>5. Conversation(ThisRecord) = conversation.id
  BY <1>2, <1>4 DEF Conversation
<1>6. GoodRecord(ThisRecord, conversations)
  BY <1>2, <1>3, <1>5 DEF GoodRecord
<1>7. conversation.id # 0 =>
        \A n, i : RecordAt(report.lines, n, i) => Conversation(report.lines[n][i]) # conversation.id
  BY DEF EInv, Rep
<1>. QED  BY <1>1, <1>2, <1>5, <1>6, <1>7 DEF AllPieces

ReadableLines(lines) == lines # <<>> /\ \A n \in DOMAIN lines : Parses(lines[n])

(* A record written at the end of the file, whole or split by a separator  *)
(* in it.                                                                  *)
LEMMA RecordWritten ==
    ASSUME EInv, pc = "append", NEW text \in Texts(ThisRecord), NEW M,
           M = AtEnd(report.lines, report.terminated, text)
    PROVE  /\ M \in Seq(Lines) /\ M # <<>> /\ Filed(M, conversations)
           /\ M[1][1] = report.lines[1][1]
           /\ \A k : HasKey(report.lines, k) => HasKey(M, k)
           /\ \A k : HasKey(M, k) => HasKey(report.lines, k) \/ k = Now
           /\ ~Separators => HasKey(M, Now)
           /\ ~Separators /\ report.terminated /\ ReadableLines(report.lines) => ReadableLines(M)
<1> DEFINE lines == report.lines
           e == ThisRecord
<1>1. /\ lines \in Seq(Lines) /\ lines # <<>> /\ report.terminated \in BOOLEAN
      /\ lines[1][1] = Header(system) /\ Filed(lines, conversations) /\ conversations \in Nat
  BY DEF EInv, TypeOK, Sweeping
<1>2. Place(lines, 1, 1) /\ lines[1][1].kind = "header" /\ lines[1][1].system = system
  BY <1>1, Shape DEF Header
<1>3. /\ e \in AllPieces /\ e.kind = "record" /\ e.key = Now /\ e.system = system
      /\ ~HasKey(lines, Now) /\ GoodRecord(e, conversations)
      /\ Conversation(e) # 0 =>
            \A n, i : RecordAt(lines, n, i) => Conversation(lines[n][i]) # Conversation(e)
  BY ThisRecordGood
<1> HIDE DEF lines, e
<1>4. Part \in AllPieces /\ Part.kind = "part"
  BY DEF AllPieces, Part
<1>5. CASE text = <<<<e>>>>
  <2>1. /\ M \in Seq(Lines) /\ M # <<>>
        /\ report.terminated => M = Append(lines, <<e>>)
        /\ \E a, b : Extends(M, lines, a, b, e)
    <3>1. M = AtEnd(lines, report.terminated, <<<<e>>>>)
      BY <1>5 DEF lines
    <3>. QED  BY <1>1, <1>3, <3>1, AtEndOne
  <2>2. PICK a, b : Extends(M, lines, a, b, e)
    BY <2>1
  <2>3. Filed(M, conversations) /\ HasKey(M, Now)
    BY <1>1, <1>2, <1>3, <2>2, ContentRecord
  <2>4. M[1][1] = lines[1][1]
    BY <1>2, <2>2 DEF Extends
  <2>5. /\ \A k : HasKey(lines, k) => HasKey(M, k)
        /\ \A k : HasKey(M, k) => HasKey(lines, k) \/ k = Now
    BY <1>3, <2>2 DEF Extends, HasKey, RecordAt
  <2>6. report.terminated /\ ReadableLines(lines) => ReadableLines(M)
    <3>1. SUFFICES ASSUME report.terminated, ReadableLines(lines) PROVE ReadableLines(M)
      OBVIOUS
    <3>2. M = Append(lines, <<e>>)
      BY <2>1, <3>1
    <3>3. Parses(<<e>>)
      BY <1>3, <1>4 DEF Parses
    <3>4. DOMAIN M = 1..(Len(lines) + 1) /\ M[Len(lines) + 1] = <<e>>
          /\ Len(lines) \in Nat /\ DOMAIN lines = 1..Len(lines)
          /\ \A n \in 1..Len(lines) : M[n] = lines[n]
      BY <1>1, <1>3, <3>2
    <3>5. ASSUME NEW n \in DOMAIN M PROVE Parses(M[n])
      <4>1. CASE n \in 1..Len(lines)
        BY <3>1, <3>4, <4>1 DEF ReadableLines
      <4>2. CASE n = Len(lines) + 1
        BY <3>3, <3>4, <4>2
      <4>. QED  BY <3>4, <4>1, <4>2
    <3>. QED  BY <2>1, <3>5 DEF ReadableLines
  <2>. QED  BY <2>1, <2>3, <2>4, <2>5, <2>6 DEF lines
<1>6. CASE Separators /\ text = <<<<Part>>, <<Part>>>>
  <2> DEFINE N == AtEnd(lines, report.terminated, <<<<Part>>>>)
  <2>1. N \in Seq(Lines) /\ N # <<>> /\ \E a, b : Extends(N, lines, a, b, Part)
    BY <1>1, <1>4, AtEndOne
  <2>2. M = AtEnd(N, TRUE, <<<<Part>>>>)
    BY <1>1, <1>4, <1>6, AtEndTwo DEF lines
  <2> HIDE DEF N
  <2>3. M \in Seq(Lines) /\ M # <<>> /\ \E a, b : Extends(M, N, a, b, Part)
    BY <1>4, <2>1, <2>2, AtEndOne
  <2>4. PICK a, b : Extends(N, lines, a, b, Part)
    BY <2>1
  <2>5. PICK c, d : Extends(M, N, c, d, Part)
    BY <2>3
  <2>6. Filed(N, conversations)
    BY <1>1, <2>1, <2>4, ContentPart
  <2>7. Filed(M, conversations)
    BY <1>1, <2>1, <2>3, <2>5, <2>6, ContentPart
  <2>8. M[1][1] = lines[1][1]
    BY <1>2, <2>4, <2>5 DEF Extends
  <2>9. \A n, i : RecordAt(M, n, i) <=> RecordAt(lines, n, i)
    BY <1>4, <2>4, <2>5 DEF Extends, RecordAt
  <2>10. \A n, i : RecordAt(lines, n, i) => M[n][i] = lines[n][i]
    BY <2>4, <2>5 DEF Extends, RecordAt
  <2>11. \A k : HasKey(lines, k) <=> HasKey(M, k)
    BY <2>9, <2>10 DEF HasKey
  <2>. QED  BY <1>6, <2>3, <2>7, <2>8, <2>11 DEF lines
<1>. QED  BY <1>5, <1>6 DEF Texts, e

LEMMA NoTurns ==
    /\ OneConversation(<<>>, NoConversation.id) /\ NoConversation.id = 0
    /\ NoConversation.spent = 0 /\ Len(<<>>) = 0
    /\ \A i \in DOMAIN <<>> : ~<<>>[i].error
    /\ <<>> \in Seq(TurnRecords) /\ NoConversation \in [id : Nat, spent : Nat]
BY DEF OneConversation, NoConversation

(* A file that is only grown older has the content it had.                 *)
LEMMA ContentMore ==
    ASSUME NEW lines \in Seq(Lines), NEW held \in Nat, NEW more \in Nat, held <= more,
           Filed(lines, held)
    PROVE  Filed(lines, more)
BY ContentCut

(* A step that writes nothing and plays nothing.                           *)
LEMMA StartStep ==
    ASSUME EInv, NEW s \in Systems, NEW keys \in SUBSET Keys, NEW resume \in BOOLEAN,
           Start(s, keys, resume)
    PROVE  EInv'
<1>1. TypeOK'
  BY NoTurns, EvalReportAssumption DEF Start, EInv, TypeOK, End, RepAttempts
<1>2. report' = report /\ conversations' = conversations /\ newline_lost' = newline_lost
  BY DEF Start
<1>3. Filed(report.lines, conversations)' /\ File'
  BY <1>2 DEF EInv, File
<1>4. pc' \in {"header", "load", "off"} /\ (pc' # "off" => result' = "none")
      /\ result' # "finished" /\ (pc' = "header" => ~report.exists)
      /\ attempt' = 1 /\ turns' = <<>> /\ conversation' = NoConversation
  BY DEF Start, End
<1>5. Process'
  BY <1>2, <1>4 DEF Process, EInv, File
<1>6. Sweeping' /\ Rep' /\ Finished'
  BY <1>4 DEF Sweeping, Rep, Finished
<1>. QED  BY <1>1, <1>3, <1>5, <1>6 DEF EInv

(* The sweep begins with what the file does not hold.                      *)
LEMMA SweepBegins ==
    ASSUME EInv, NEW done, Sweep(done), pc \in {"header", "resume"},
           UNCHANGED <<system, selected, rep, conversations, starts, synced, newline_lost>>,
           report' \in [exists : {TRUE}, lines : Seq(Lines), terminated : BOOLEAN],
           Filed(report'.lines, conversations), File',
           Place(report'.lines, 1, 1), report'.lines[1][1] = Header(system),
           \A k : k \in done <=> HasKey(report'.lines, k),
           Readable', ~newline_lost => report'.terminated
    PROVE  EInv'
<1>1. /\ pending' = selected \ done /\ selected' = selected
      /\ system' = system /\ conversations' = conversations /\ newline_lost' = newline_lost
      /\ turns' = turns /\ conversation' = conversation /\ attempt' = attempt
      /\ starts' = starts /\ synced' = synced
  BY DEF Sweep, Missing, rep
<1>2. \/ pending' = {} /\ pc' = "off" /\ result' = "finished"
      \/ pending' # {} /\ pc' = "play" /\ result' = "none"
  BY DEF Sweep, End, EInv, Process
<1>3. turns = <<>> /\ conversation = NoConversation /\ attempt = 1
  BY DEF EInv, Process
<1>4. TypeOK'
  BY <1>1, <1>2 DEF EInv, TypeOK
<1>5. Process'
  BY <1>2 DEF Process
<1>6. Sweeping'
  BY <1>1, <1>2 DEF Sweeping, Place
<1>7. Rep'
  BY <1>1, <1>2, <1>3, NoTurns, EvalReportAssumption DEF Rep, EInv, TypeOK
<1>8. Finished'
  BY <1>1, <1>2 DEF Finished
<1>. QED  BY <1>1, <1>4, <1>5, <1>6, <1>7, <1>8 DEF EInv

LEMMA HeaderOnly ==
    ASSUME NEW s \in Systems, NEW held
    PROVE  LET M == <<<<Header(s)>>>>
           IN  /\ M \in Seq(Lines) /\ M # <<>> /\ Filed(M, held) /\ ReadableLines(M)
               /\ Place(M, 1, 1) /\ M[1][1] = Header(s) /\ \A k : ~HasKey(M, k)
<1> DEFINE h == Header(s)
           M == <<<<h>>>>
<1>1. h \in AllPieces /\ h.kind = "header" /\ h # Part /\ h.kind # "record"
  BY DEF Header, AllPieces, Part
<1> HIDE DEF h
<1>2. M \in Seq(Lines) /\ M # <<>> /\ DOMAIN M = {1} /\ DOMAIN M[1] = {1} /\ M[1][1] = h
      /\ M[1] = <<h>>
  <2>1. <<h>> \in Lines
    BY <1>1 DEF Lines, AllPieces
  <2>. QED  BY <2>1
<1>3. \A n, i : Place(M, n, i) <=> n = 1 /\ i = 1
  BY <1>2 DEF Place
<1> HIDE DEF M
<1>4. Filed(M, held) /\ \A k : ~HasKey(M, k)
  BY <1>1, <1>2, <1>3 DEF Filed, HasKey, RecordAt
<1>5. ReadableLines(M)
  <2>1. Parses(<<h>>)
    BY <1>1 DEF Parses
  <2>. QED  BY <1>2, <2>1 DEF ReadableLines
<1>. QED  BY <1>2, <1>3, <1>4, <1>5 DEF h, M

LEMMA WriteHeaderStep ==
    ASSUME EInv, WriteHeader
    PROVE  EInv'
<1> DEFINE M == <<<<Header(system)>>>>
<1>1. pc = "header" /\ report = NoReport /\ system \in Systems
  BY DEF WriteHeader, EInv, Process, TypeOK
<1>2. report' = [exists |-> TRUE, lines |-> M, terminated |-> TRUE]
  <2>1. report.lines = <<>> /\ report.terminated = TRUE
    BY <1>1 DEF NoReport
  <2>2. <<>> \o M = M
    OBVIOUS
  <2>. QED  BY <2>1, <2>2 DEF WriteHeader, Written, AtEnd
<1>3. /\ M \in Seq(Lines) /\ M # <<>> /\ Filed(M, conversations) /\ ReadableLines(M)
      /\ Place(M, 1, 1) /\ M[1][1] = Header(system) /\ \A k : ~HasKey(M, k)
  BY <1>1, HeaderOnly
<1> HIDE DEF M
<1>4. /\ report' \in [exists : {TRUE}, lines : Seq(Lines), terminated : BOOLEAN]
      /\ report'.exists = TRUE /\ report'.lines = M /\ report'.terminated = TRUE
  BY <1>2, <1>3
<1>5. File' /\ Readable'
  BY <1>3, <1>4 DEF File, Readable, ReadableLines
<1>6. Sweep({}) /\ UNCHANGED <<system, selected, rep, conversations, starts, synced, newline_lost>>
  BY DEF WriteHeader
<1>. QED  BY <1>1, <1>3, <1>4, <1>5, <1>6, SweepBegins

LEMMA LoadStep ==
    ASSUME EInv, Load
    PROVE  EInv'
<1>1. /\ pc = "load" /\ report' = report /\ conversations' = conversations
      /\ newline_lost' = newline_lost /\ turns' = turns /\ conversation' = conversation
      /\ attempt' = attempt
  BY DEF Load, rep
<1>2. \/ pc' = "off" /\ result' = "refused"
      \/ pc' = "rewrite" /\ Kept # <<>> /\ result' = result
      \/ pc' = "resume" /\ result' = result
  BY DEF Load, End
<1>3. TypeOK'
  BY <1>1, <1>2 DEF Load, rep, EInv, TypeOK
<1>4. Filed(report.lines, conversations)' /\ File'
  BY <1>1 DEF EInv, File
<1>5. Kept' = Kept
  BY <1>1 DEF Kept
<1>6. Process'
  BY <1>1, <1>2, <1>5 DEF EInv, Process
<1>7. Sweeping' /\ Rep' /\ Finished'
  BY <1>1, <1>2 DEF Sweeping, Rep, Finished, EInv, Process
<1>. QED  BY <1>3, <1>4, <1>6, <1>7 DEF EInv

LEMMA RewriteStep ==
    ASSUME EInv, Rewrite
    PROVE  EInv'
<1>1. /\ pc = "rewrite" /\ pc' = "resume" /\ result' = result /\ conversations' = conversations
      /\ newline_lost' = newline_lost /\ turns' = turns /\ conversation' = conversation
      /\ attempt' = attempt
  BY DEF Rewrite, rep
<1>2. PICK m \in 0..Len(report.lines) : Kept = SubSeq(report.lines, 1, m)
  BY KeptLines DEF EInv
<1>3. report.lines \in Seq(Lines) /\ report \in [exists : BOOLEAN, lines : Seq(Lines), terminated : BOOLEAN]
      /\ conversations \in Nat
  BY DEF EInv, TypeOK
<1>4. /\ Kept \in Seq(Lines) /\ DOMAIN Kept = 1..m /\ \A n \in 1..m : Kept[n] = report.lines[n]
  BY <1>2, <1>3, FirstLines
<1>5. /\ report'.exists = report.exists /\ report'.lines = Kept /\ report'.terminated = TRUE
      /\ report' \in [exists : BOOLEAN, lines : Seq(Lines), terminated : BOOLEAN]
  BY <1>3, <1>4 DEF Rewrite, Rewritten
<1>6. Filed(Kept, conversations)
  <2>1. \A n, i : Place(Kept, n, i) =>
           /\ Place(report.lines, n, i) /\ Kept[n][i] = report.lines[n][i]
           /\ Kept[1][1] = report.lines[1][1]
    BY <1>3, <1>4 DEF Place
  <2>. QED  BY <1>3, <1>4, <2>1, ContentCut DEF EInv
<1>7. TypeOK'
  BY <1>1, <1>5 DEF Rewrite, rep, EInv, TypeOK
<1>8. report.exists
  <2>1. Kept # <<>>
    BY <1>1 DEF EInv, Process
  <2>2. Len(report.lines) # 0
    BY <1>2, <1>3, <2>1, FirstLines
  <2>. QED  BY <2>2 DEF EInv, File, NoReport
<1>9. Filed(report.lines, conversations)' /\ File'
  BY <1>1, <1>5, <1>6, <1>8 DEF File
<1>10. Process'
  BY <1>1 DEF EInv, Process
<1>11. Sweeping' /\ Rep' /\ Finished'
  BY <1>1 DEF Sweeping, Rep, Finished, EInv, Process
<1>. QED  BY <1>7, <1>9, <1>10, <1>11 DEF EInv

LEMMA ResumeStep ==
    ASSUME EInv, Resume
    PROVE  EInv'
<1> DEFINE lines == report.lines
           done == {lines[n][1].key : n \in 2..Len(lines)}
<1>1. /\ pc = "resume" /\ report' = report
      /\ UNCHANGED <<system, selected, rep, conversations, starts, synced, newline_lost>>
  BY DEF Resume
<1>2. CASE Readable /\ SameSystem
  <2>1. Sweep(done)
    BY <1>2 DEF Resume
  <2>2. /\ lines \in Seq(Lines) /\ lines # <<>> /\ Filed(lines, conversations)
        /\ report \in [exists : BOOLEAN, lines : Seq(Lines), terminated : BOOLEAN]
    BY <1>2 DEF EInv, TypeOK, Readable
  <2>3. lines[1][1] = Header(system)
    BY <1>2 DEF SameSystem
  <2>4. Place(lines, 1, 1) /\ Len(lines) \in Nat /\ DOMAIN lines = 1..Len(lines)
    BY <2>2, Shape
  <2> HIDE DEF lines
  <2>5. ASSUME NEW n \in DOMAIN lines
        PROVE  DOMAIN lines[n] = {1} /\ lines[n][1] \in AllPieces /\ lines[n][1] # Part
    <3>1. Parses(lines[n])
      BY <1>2 DEF Readable, lines
    <3>2. DOMAIN lines[n] = 1..1 /\ lines[n][1] # Part
      BY <2>2, <3>1, Shape DEF Parses
    <3>3. 1 \in DOMAIN lines[n]
      BY <3>2
    <3>. QED  BY <2>2, <3>2, <3>3, Shape
  <2>6. ASSUME NEW n \in 2..Len(lines) PROVE RecordAt(lines, n, 1)
    <3>1. n \in DOMAIN lines /\ n # 1
      BY <2>4
    <3>2. Place(lines, n, 1) /\ lines[n][1] \in AllPieces /\ lines[n][1] # Part
      BY <2>5, <3>1 DEF Place
    <3>3. lines[n][1].kind # "header"
      BY <2>2, <3>1, <3>2 DEF Filed
    <3>. QED  BY <3>2, <3>3, PieceKinds DEF RecordAt
  <2>7. ASSUME NEW n, NEW i, RecordAt(lines, n, i) PROVE n \in 2..Len(lines) /\ i = 1
    <3>1. n \in DOMAIN lines /\ i = 1
      BY <2>5, <2>7 DEF RecordAt, Place
    <3>2. n # 1
      BY <2>3, <2>7, <3>1 DEF RecordAt, Header
    <3>. QED  BY <2>4, <3>1, <3>2
  <2>8. \A k : k \in done <=> HasKey(lines, k)
    BY <2>6, <2>7 DEF HasKey
  <2> HIDE DEF done
  <2>9. /\ report' \in [exists : {TRUE}, lines : Seq(Lines), terminated : BOOLEAN]
        /\ report'.lines = lines
    <3>1. report.exists = TRUE
      BY <2>2 DEF EInv, File, NoReport, lines, TypeOK
    <3>. QED  BY <1>1, <2>2, <3>1 DEF lines
  <2>10. File'
    BY <1>1 DEF EInv, File
  <2>11. Readable'
    BY <1>1, <1>2 DEF Readable
  <2>12. ~newline_lost => report'.terminated
    <3>1. Parses(Last(lines))
      <4>1. Len(lines) \in DOMAIN lines
        BY <2>2, <2>4
      <4>. QED  BY <1>2, <4>1 DEF Readable, lines, Last
    <3>. QED  BY <1>1, <3>1 DEF EInv, File, lines
  <2>. QED  BY <1>1, <2>1, <2>2, <2>3, <2>4, <2>8, <2>9, <2>10, <2>11, <2>12, SweepBegins
<1>3. CASE ~(Readable /\ SameSystem)
  <2>1. /\ pc' = "off" /\ result' \in {"refused", "unreadable"} /\ pending' = pending
        /\ conversations' = conversations /\ newline_lost' = newline_lost
    BY <1>1, <1>3 DEF Resume, End
  <2>2. TypeOK'
    BY <1>1, <2>1 DEF rep, EInv, TypeOK
  <2>3. Filed(report.lines, conversations)' /\ File'
    BY <1>1, <2>1 DEF EInv, File
  <2>4. Process' /\ Sweeping' /\ Rep' /\ Finished'
    BY <2>1 DEF Process, Sweeping, Rep, Finished
  <2>. QED  BY <2>2, <2>3, <2>4 DEF EInv
<1>. QED  BY <1>2, <1>3

(* A step of the rep being played leaves the file alone.                   *)
LEMMA PlayKeeps ==
    ASSUME EInv, pc = "play", pc' \in {"play", "append", "off"},
           pc' # "off" => result' = "none", result' # "finished",
           UNCHANGED <<report, system, pending, selected, newline_lost>>,
           conversations' \in Nat, conversations <= conversations'
    PROVE  /\ Filed(report.lines, conversations)' /\ File' /\ Process' /\ Sweeping' /\ Finished'
<1>1. report.lines \in Seq(Lines) /\ conversations \in Nat /\ Filed(report.lines, conversations)
  BY DEF EInv, TypeOK
<1>2. Filed(report.lines, conversations')
  BY <1>1, ContentMore
<1>3. Filed(report.lines, conversations)' /\ File'
  BY <1>2 DEF EInv, File
<1>4. Process' /\ Finished'
  BY DEF Process, Finished
<1>5. Sweeping'
  BY DEF EInv, Sweeping, Readable
<1>. QED  BY <1>3, <1>4, <1>5

(* The conversations of the file's records are of those there have been.   *)
LEMMA RecordsHeld ==
    ASSUME EInv, NEW n, NEW i, RecordAt(report.lines, n, i)
    PROVE  /\ Conversation(report.lines[n][i]) \in Nat
           /\ Conversation(report.lines[n][i]) <= conversations
<1> DEFINE r == report.lines[n][i]
<1>1. report.lines \in Seq(Lines) /\ Filed(report.lines, conversations)
  BY DEF EInv, TypeOK
<1>2. GoodRecord(r, conversations)
  BY <1>1 DEF Filed
<1>3. r \in RunRecords
  BY <1>1, Shape, PieceKinds DEF RecordAt, Place
<1> HIDE DEF r
<1>4. r.turns \in Seq(TurnRecords) /\ Len(r.turns) > 0
  BY <1>2, <1>3 DEF RunRecords, GoodRecord, Whole
<1>5. r.turns[1] \in TurnRecords
  BY <1>4
<1>. QED  BY <1>2, <1>5 DEF GoodRecord, Conversation, TurnRecords, r

LEMMA AnsweredStep ==
    ASSUME EInv, Answered
    PROVE  EInv'
<1> DEFINE fresh == conversation.id = 0
           id == IF fresh THEN conversations + 1 ELSE conversation.id
           n == Len(turns) + 1
           turn == [conversation_id |-> id, engine_turn |-> n, error |-> FALSE]
<1>1. /\ pc = "play" /\ conversation \in [id : Nat, spent : Nat] /\ conversations \in Nat
      /\ turns \in Seq(TurnRecords) /\ conversation.id <= conversations
      /\ OneConversation(turns, conversation.id) /\ \A i \in DOMAIN turns : ~turns[i].error
      /\ Len(turns) < NumTurns /\ conversation.spent = Len(turns)
  BY DEF Answered, EInv, TypeOK, Rep
<1>2. /\ conversations' = IF fresh THEN conversations + 1 ELSE conversations
      /\ conversation' = [id |-> id, spent |-> n]
      /\ turns' = Append(turns, turn)
      /\ pc' = IF Len(turns') = NumTurns THEN "append" ELSE "play"
      /\ UNCHANGED <<result, report, system, pending, selected, attempt, starts, synced,
                     newline_lost>>
  <2>1. conversation'.id = id
    BY <1>1 DEF Answered
  <2>2. conversation' = [id |-> id, spent |-> n] /\ conversation'.spent = n
    BY <1>1 DEF Answered
  <2>. QED  BY <1>1, <2>1, <2>2 DEF Answered
<1>3. /\ id \in Nat /\ id # 0 /\ id <= conversations' /\ conversations <= conversations'
      /\ conversations' \in Nat /\ n \in Nat
  BY <1>1, <1>2
<1>4. fresh => turns = <<>>
  <2>1. SUFFICES ASSUME fresh, Len(turns) > 0 PROVE FALSE
    BY <1>1
  <2>2. 1 \in DOMAIN turns
    BY <1>1, <2>1
  <2>. QED  BY <1>1, <2>1, <2>2 DEF OneConversation
<1>5. OneConversation(turns, id)
  BY <1>1, <1>4, NoTurns DEF OneConversation
<1>6. /\ turn \in TurnRecords /\ turn.conversation_id = id /\ turn.engine_turn = n
      /\ turn.error = FALSE
  BY <1>3 DEF TurnRecords
<1> HIDE DEF turn, id
<1>7. /\ turns' \in Seq(TurnRecords) /\ DOMAIN turns' = 1..n /\ Len(turns') = n
      /\ turns'[n] = turn /\ \A i \in 1..(n - 1) : turns'[i] = turns[i]
      /\ DOMAIN turns = 1..(n - 1)
  BY <1>1, <1>2, <1>6
<1> HIDE DEF n
<1>8. \A i \in 1..n : i = n \/ i \in 1..(n - 1)
  BY <1>3
<1>9. OneConversation(turns', id) /\ \A i \in DOMAIN turns' : ~turns'[i].error
  BY <1>1, <1>3, <1>5, <1>6, <1>7, <1>8 DEF OneConversation
<1>10. n <= NumTurns /\ n > 0
  BY <1>1, EvalReportAssumption DEF n
<1>11. conversation'.id = id /\ conversation'.spent = n /\ conversation' \in [id : Nat, spent : Nat]
  BY <1>2, <1>3
<1>12. TypeOK'
  BY <1>2, <1>3, <1>7, <1>11 DEF EInv, TypeOK
<1>13. ASSUME NEW m, NEW i, RecordAt(report.lines, m, i)
       PROVE  Conversation(report.lines[m][i]) # id
  <2>1. CASE fresh
    <3>1. Conversation(report.lines[m][i]) <= conversations /\ Conversation(report.lines[m][i]) \in Nat
      BY <1>13, RecordsHeld
    <3>. QED  BY <1>1, <2>1, <3>1 DEF id
  <2>2. CASE ~fresh
    BY <1>1, <1>13, <2>2 DEF EInv, Rep, id
  <2>. QED  BY <2>1, <2>2
<1>14. Rep'
  <2>1. pc' = "play" => Len(turns') < NumTurns
    BY <1>2, <1>3, <1>7, <1>10, EvalReportAssumption
  <2>2. Whole(turns') <=> Len(turns') = NumTurns
    BY <1>7, <1>9, <1>10 DEF Whole
  <2>. QED  BY <1>2, <1>3, <1>7, <1>9, <1>11, <1>13, <2>1, <2>2 DEF Rep
<1>15. Filed(report.lines, conversations)' /\ File' /\ Process' /\ Sweeping' /\ Finished'
  <2>1. result' = "none" /\ pc' \in {"play", "append", "off"}
    BY <1>1, <1>2 DEF EInv, Process
  <2>. QED  BY <1>1, <1>2, <1>3, <2>1, PlayKeeps
<1>. QED  BY <1>12, <1>14, <1>15 DEF EInv

LEMMA RaisedHolds ==
    ASSUME TypeOK, Raised
    PROVE  conversations' \in Nat /\ conversations <= conversations'
BY DEF TypeOK, Raised

LEMMA TimedOutStep ==
    ASSUME EInv, TimedOut
    PROVE  EInv'
<1>1. /\ pc = "play" /\ pc' = pc /\ turns' = <<>> /\ conversation' = NoConversation
      /\ UNCHANGED <<result, report, system, pending, selected, starts, synced, newline_lost>>
  BY DEF TimedOut, Replay
<1>2. conversations' \in Nat /\ conversations <= conversations'
  BY RaisedHolds DEF TimedOut, EInv
<1>3. attempt' \in 1..RepAttempts
  BY DEF TimedOut, EInv, TypeOK, Final, RepAttempts
<1>4. TypeOK'
  BY <1>1, <1>2, <1>3, NoTurns DEF EInv, TypeOK
<1>5. Rep'
  BY <1>1, <1>2, NoTurns, EvalReportAssumption DEF Rep
<1>6. Filed(report.lines, conversations)' /\ File' /\ Process' /\ Sweeping' /\ Finished'
  <2>1. result' = "none"
    BY <1>1 DEF EInv, Process
  <2>. QED  BY <1>1, <1>2, <2>1, PlayKeeps
<1>. QED  BY <1>4, <1>5, <1>6 DEF EInv

LEMMA TurnFailsStep ==
    ASSUME EInv, TurnFails
    PROVE  EInv'
<1> DEFINE n == Len(turns) + 1
           turn == [conversation_id |-> conversation.id, engine_turn |-> 0, error |-> TRUE]
<1>1. /\ pc = "play" /\ conversation \in [id : Nat, spent : Nat] /\ conversations \in Nat
      /\ turns \in Seq(TurnRecords) /\ conversation.id <= conversations
      /\ OneConversation(turns, conversation.id) /\ \A i \in DOMAIN turns : ~turns[i].error
  BY DEF TurnFails, EInv, TypeOK, Rep
<1>2. /\ turns' = Append(turns, turn) /\ pc' = "append" /\ conversation' = conversation
      /\ UNCHANGED <<result, report, system, pending, selected, attempt, starts, synced,
                     newline_lost>>
  BY DEF TurnFails
<1>3. conversations' \in Nat /\ conversations <= conversations'
  BY RaisedHolds DEF TurnFails, EInv
<1>4. turn \in TurnRecords /\ turn.conversation_id = conversation.id /\ turn.error = TRUE
  BY <1>1 DEF TurnRecords
<1> HIDE DEF turn
<1>5. /\ turns' \in Seq(TurnRecords) /\ DOMAIN turns' = 1..n /\ Len(turns') = n
      /\ turns'[n] = turn /\ \A i \in 1..(n - 1) : turns'[i] = turns[i]
      /\ DOMAIN turns = 1..(n - 1) /\ n \in Nat /\ n > 0
  BY <1>1, <1>2, <1>4
<1> HIDE DEF n
<1>6. \A i \in 1..n : i = n \/ i \in 1..(n - 1)
  BY <1>5
<1>7. OneConversation(turns', conversation.id)
  BY <1>1, <1>4, <1>5, <1>6 DEF OneConversation
<1>8. Whole(turns')
  BY <1>4, <1>5 DEF Whole
<1>9. TypeOK'
  BY <1>1, <1>2, <1>3, <1>5 DEF EInv, TypeOK
<1>10. Rep'
  <2>1. conversation.id <= conversations'
    BY <1>1, <1>3
  <2>. QED  BY <1>1, <1>2, <1>7, <1>8, <2>1 DEF EInv, Rep
<1>11. Filed(report.lines, conversations)' /\ File' /\ Process' /\ Sweeping' /\ Finished'
  <2>1. result' = "none" /\ pc' \in {"play", "append", "off"}
    BY <1>1, <1>2 DEF EInv, Process
  <2>. QED  BY <1>1, <1>2, <1>3, <2>1, PlayKeeps
<1>. QED  BY <1>9, <1>10, <1>11 DEF EInv

LEMMA AppendRecordStep ==
    ASSUME EInv, AppendRecord
    PROVE  EInv'
<1>1. /\ pc = "append" /\ pending' = pending \ {Now} /\ synced' = synced \cup {Now}
      /\ attempt' = 1 /\ turns' = <<>> /\ conversation' = NoConversation
      /\ UNCHANGED <<system, selected, conversations, starts, newline_lost>>
  BY DEF AppendRecord
<1>2. \/ pending' = {} /\ pc' = "off" /\ result' = "finished"
      \/ pending' # {} /\ pc' = "play" /\ result' = "none"
  BY <1>1 DEF AppendRecord, End, EInv, Process
<1>3. PICK text \in Texts(ThisRecord) : report' = Written(text, TRUE)
  BY DEF AppendRecord
<1> DEFINE M == AtEnd(report.lines, report.terminated, text)
<1>4. report'.exists = TRUE /\ report'.lines = M /\ report'.terminated = TRUE
      /\ report' = [exists |-> TRUE, lines |-> M, terminated |-> TRUE]
  BY <1>3 DEF Written
<1>5. /\ M \in Seq(Lines) /\ M # <<>> /\ Filed(M, conversations)
      /\ M[1][1] = report.lines[1][1]
      /\ \A k : HasKey(report.lines, k) => HasKey(M, k)
      /\ \A k : HasKey(M, k) => HasKey(report.lines, k) \/ k = Now
      /\ ~Separators => HasKey(M, Now)
      /\ ~Separators /\ report.terminated /\ ReadableLines(report.lines) => ReadableLines(M)
  BY <1>1, RecordWritten
<1> HIDE DEF M
<1>6. Now \in Keys
  BY <1>1, ThisRecordGood
<1>7. /\ report.lines[1][1] = Header(system)
      /\ \A k \in pending : ~HasKey(report.lines, k)
      /\ ~Separators => \A k \in selected \ pending : HasKey(report.lines, k)
      /\ ~Separators /\ ~newline_lost => Readable /\ report.terminated
  BY <1>1 DEF EInv, Sweeping
<1>8. TypeOK'
  BY <1>1, <1>2, <1>4, <1>5, <1>6, NoTurns DEF EInv, TypeOK, RepAttempts
<1>9. Filed(report.lines, conversations)' /\ File'
  BY <1>1, <1>4, <1>5 DEF File
<1>10. Process'
  BY <1>2 DEF Process
<1>11. /\ \A k \in pending' : ~HasKey(M, k)
       /\ ~Separators => \A k \in selected' \ pending' : HasKey(M, k)
  BY <1>1, <1>5, <1>7
<1>12. ~Separators /\ ~newline_lost' => Readable'
  <2>1. ~Separators /\ ~newline_lost => ReadableLines(report.lines) /\ report.terminated
    BY <1>7 DEF Readable, ReadableLines
  <2>2. ~Separators /\ ~newline_lost => ReadableLines(M)
    BY <1>5, <2>1
  <2>. QED  BY <1>1, <1>4, <2>2 DEF Readable, ReadableLines
<1>13. Sweeping'
  BY <1>1, <1>2, <1>4, <1>5, <1>7, <1>11, <1>12 DEF Sweeping
<1>14. Rep'
  BY <1>1, <1>2, NoTurns, EvalReportAssumption DEF Rep, EInv, TypeOK
<1>15. Finished'
  BY <1>1, <1>2, <1>4, <1>11, <1>12 DEF Finished
<1>. QED  BY <1>8, <1>9, <1>10, <1>13, <1>14, <1>15 DEF EInv

(* What a cut leaves of some lines: the first of them, perhaps with a      *)
(* piece cut short after.                                                  *)
LEMMA CutLines ==
    ASSUME NEW lines \in Seq(Lines), NEW m \in 0..Len(lines), NEW held \in Nat,
           Filed(lines, held)
    PROVE  LET kept == SubSeq(lines, 1, m)
           IN  /\ kept \in Seq(Lines) /\ Filed(kept, held) /\ Len(kept) = m
               /\ kept # <<>> <=> m > 0
               /\ kept \o <<<<Part>>>> \in Seq(Lines) /\ kept \o <<<<Part>>>> # <<>>
               /\ Filed(kept \o <<<<Part>>>>, held)
<1> DEFINE kept == SubSeq(lines, 1, m)
           M == Append(kept, <<Part>>)
<1>1. /\ kept \in Seq(Lines) /\ Len(kept) = m /\ DOMAIN kept = 1..m /\ DOMAIN lines = 1..Len(lines)
      /\ \A n \in 1..m : kept[n] = lines[n]
      /\ kept = <<>> <=> m = 0
      /\ m \in Nat
  BY FirstLines
<1> HIDE DEF kept
<1>2. Filed(kept, held)
  <2>1. \A n, i : Place(kept, n, i) =>
           Place(lines, n, i) /\ kept[n][i] = lines[n][i] /\ kept[1][1] = lines[1][1]
    BY <1>1 DEF Place
  <2>. QED  BY <1>1, <2>1, ContentCut
<1>3. Part \in AllPieces
  BY DEF AllPieces
<1>4. kept \o <<<<Part>>>> = M /\ M \in Seq(Lines) /\ Extends(M, kept, Len(kept) + 1, 1, Part)
  BY <1>1, <1>3, NewLine
<1> HIDE DEF M
<1>5. Filed(M, held)
  BY <1>1, <1>2, <1>4, ContentPart
<1>6. M # <<>>
  BY <1>4 DEF Extends, Place
<1>7. /\ kept \in Seq(Lines) /\ Filed(kept, held) /\ Len(kept) = m
      /\ kept # <<>> <=> m > 0
      /\ kept \o <<<<Part>>>> \in Seq(Lines) /\ kept \o <<<<Part>>>> # <<>>
      /\ Filed(kept \o <<<<Part>>>>, held)
  <2>1. kept # <<>> <=> m > 0
    BY <1>1
  <2>2. kept \o <<<<Part>>>> # <<>> /\ Filed(kept \o <<<<Part>>>>, held)
        /\ kept \o <<<<Part>>>> \in Seq(Lines)
    BY <1>4, <1>5, <1>6, Zenon
  <2>. QED  BY <1>1, <1>2, <2>1, <2>2
<1>. QED  BY <1>7, Zenon DEF kept

(* However a write is cut short, what is left is a report's.               *)
LEMMA CutReport ==
    ASSUME EInv, pc # "off", CutShort
    PROVE  /\ report' \in [exists : BOOLEAN, lines : Seq(Lines), terminated : BOOLEAN]
           /\ Filed(report'.lines, conversations)
           /\ ~report'.exists => report' = NoReport
           /\ report'.terminated \/ report'.lines # <<>>
<1> DEFINE lines == report.lines
<1>1. /\ report \in [exists : BOOLEAN, lines : Seq(Lines), terminated : BOOLEAN]
      /\ lines \in Seq(Lines) /\ report.terminated \in BOOLEAN /\ conversations \in Nat
      /\ Filed(lines, conversations)
      /\ ~report.exists => report = NoReport
      /\ report.terminated \/ lines # <<>>
  BY DEF EInv, TypeOK, File
<1>2. CASE report' = report
  BY <1>1, <1>2
<1>3. Part \in AllPieces
  BY DEF AllPieces
(* It is enough to know the lines.                                         *)
<1>4. ASSUME NEW M \in Seq(Lines), Filed(M, conversations), NEW ended \in BOOLEAN,
             ended \/ M # <<>>,
             report' \in [exists : BOOLEAN, lines : Seq(Lines), terminated : BOOLEAN],
             report'.exists = TRUE, report'.lines = M, report'.terminated = ended
      PROVE  /\ report' \in [exists : BOOLEAN, lines : Seq(Lines), terminated : BOOLEAN]
             /\ Filed(report'.lines, conversations)
             /\ ~report'.exists => report' = NoReport
             /\ report'.terminated \/ report'.lines # <<>>
  BY <1>4
<1>5. CASE report' = Written(<<<<Part>>>>, FALSE)
  <2> DEFINE M == AtEnd(lines, report.terminated, <<<<Part>>>>)
  <2>1. M \in Seq(Lines) /\ M # <<>> /\ \E a, b : Extends(M, lines, a, b, Part)
    BY <1>1, <1>3, AtEndOne
  <2>2. report' = [exists |-> TRUE, lines |-> M, terminated |-> FALSE]
    BY <1>5 DEF Written
  <2> HIDE DEF M
  <2>3. Filed(M, conversations)
    BY <1>1, <2>1, ContentPart
  <2>. QED  BY <1>4, <2>1, <2>2, <2>3
<1>6. CASE pc = "header"
  <2> DEFINE M == <<<<Header(system)>>>>
  <2>1. lines = <<>> /\ report.terminated = TRUE
    BY <1>6 DEF EInv, Process, NoReport
  <2>2. CASE report' = [exists |-> TRUE, lines |-> <<>>, terminated |-> TRUE]
    <3>1. <<>> \in Seq(Lines) /\ Filed(<<>>, conversations)
      BY DEF Filed, Place, RecordAt
    <3>. QED  BY <1>4, <2>2, <3>1
  <2>3. CASE report' = Written(<<<<Header(system)>>>>, FALSE)
    <3>1. report' = [exists |-> TRUE, lines |-> M, terminated |-> FALSE]
      <4>1. <<>> \o M = M
        OBVIOUS
      <4>. QED  BY <2>1, <2>3, <4>1 DEF Written, AtEnd
    <3>2. M \in Seq(Lines) /\ M # <<>> /\ Filed(M, conversations)
      BY HeaderOnly DEF EInv, TypeOK
    <3> HIDE DEF M
    <3>. QED  BY <1>4, <3>1, <3>2
  <2>. QED  BY <1>2, <1>5, <1>6, <2>2, <2>3 DEF CutShort, HeaderCut
<1>7. CASE pc = "rewrite"
  <2>1. PICK m \in 0..Len(lines) : Kept = SubSeq(lines, 1, m)
    BY KeptLines DEF EInv
  <2>2. /\ Kept \in Seq(Lines) /\ Kept # <<>> /\ Filed(Kept, conversations)
        /\ Len(Kept) \in Nat /\ Len(Kept) > 0
    <3>1. Kept # <<>>
      BY <1>7 DEF EInv, Process
    <3>2. Kept \in Seq(Lines) /\ Filed(Kept, conversations)
      BY <1>1, <2>1, CutLines
    <3>. QED  BY <3>1, <3>2
  <2>3. report.exists = TRUE
    <3>1. Len(lines) # 0
      BY <1>1, <2>1, <2>2, FirstLines
    <3>. QED  BY <1>1, <3>1 DEF NoReport
  <2>4. ASSUME NEW M \in Seq(Lines), NEW ended \in BOOLEAN,
               report' = [report EXCEPT !.lines = M, !.terminated = ended]
        PROVE  /\ report' \in [exists : BOOLEAN, lines : Seq(Lines), terminated : BOOLEAN]
               /\ report'.exists = TRUE /\ report'.lines = M /\ report'.terminated = ended
    BY <1>1, <2>3, <2>4
  <2>6. ASSUME NEW n \in 0..(Len(Kept) - 1), NEW tail \in {<<>>, <<<<Part>>>>},
               report' = [report EXCEPT !.lines = SubSeq(Kept, 1, n) \o tail,
                                        !.terminated = (tail = <<>>)]
        PROVE  /\ report' \in [exists : BOOLEAN, lines : Seq(Lines), terminated : BOOLEAN]
               /\ Filed(report'.lines, conversations)
               /\ ~report'.exists => report' = NoReport
               /\ report'.terminated \/ report'.lines # <<>>
    <3> DEFINE kept == SubSeq(Kept, 1, n)
    <3>1. n \in 0..Len(Kept)
      BY <2>2
    <3>2. /\ kept \in Seq(Lines) /\ Filed(kept, conversations)
          /\ kept \o <<<<Part>>>> \in Seq(Lines) /\ kept \o <<<<Part>>>> # <<>>
          /\ Filed(kept \o <<<<Part>>>>, conversations)
      BY <1>1, <2>2, <3>1, CutLines
    <3>3. report' = [report EXCEPT !.lines = kept \o tail, !.terminated = (tail = <<>>)]
      BY <2>6
    <3> HIDE DEF kept
    <3>4. CASE tail = <<>>
      <4>1. kept \o tail = kept
        BY <3>2, <3>4
      <4>2. report' = [report EXCEPT !.lines = kept, !.terminated = TRUE]
        BY <3>3, <3>4, <4>1
      <4>. QED  BY <1>4, <2>4, <3>2, <4>2
    <3>5. CASE tail = <<<<Part>>>>
      <4>1. (tail = <<>>) = FALSE
        BY <3>5
      <4>2. report' = [report EXCEPT !.lines = kept \o <<<<Part>>>>, !.terminated = FALSE]
        BY <3>3, <3>5, <4>1
      <4>. QED  BY <1>4, <2>4, <3>2, <4>2
    <3>. QED  BY <3>4, <3>5
  <2>7. ASSUME NEW n \in 1..Len(Kept),
               report' = [report EXCEPT !.lines = SubSeq(Kept, 1, n), !.terminated = FALSE]
        PROVE  /\ report' \in [exists : BOOLEAN, lines : Seq(Lines), terminated : BOOLEAN]
               /\ Filed(report'.lines, conversations)
               /\ ~report'.exists => report' = NoReport
               /\ report'.terminated \/ report'.lines # <<>>
    <3> DEFINE kept == SubSeq(Kept, 1, n)
    <3>1. n \in 0..Len(Kept) /\ n > 0
      BY <2>2
    <3>2. kept \in Seq(Lines) /\ Filed(kept, conversations) /\ kept # <<>>
      BY <1>1, <2>2, <3>1, CutLines
    <3>3. report' = [report EXCEPT !.lines = kept, !.terminated = FALSE]
      BY <2>7
    <3> HIDE DEF kept
    <3>. QED  BY <1>4, <2>4, <3>2, <3>3
  <2>8. report' = report \/ RewriteCut
    BY <1>7 DEF CutShort
  <2>. QED  BY <1>2, <2>6, <2>7, <2>8, Zenon DEF RewriteCut
<1>8. CASE pc = "append"
  <2>2. ASSUME NEW text \in Texts(ThisRecord), report' = Written(text, FALSE)
        PROVE  /\ report' \in [exists : BOOLEAN, lines : Seq(Lines), terminated : BOOLEAN]
               /\ Filed(report'.lines, conversations)
               /\ ~report'.exists => report' = NoReport
               /\ report'.terminated \/ report'.lines # <<>>
    <3> DEFINE M == AtEnd(lines, report.terminated, text)
    <3>1. M \in Seq(Lines) /\ M # <<>> /\ Filed(M, conversations)
      BY <1>8, RecordWritten
    <3>2. report' = [exists |-> TRUE, lines |-> M, terminated |-> FALSE]
      BY <2>2 DEF Written
    <3> HIDE DEF M
    <3>. QED  BY <1>4, <3>1, <3>2
  <2>. QED  BY <1>2, <1>5, <1>8, <2>2 DEF CutShort, RecordCut
<1>9. CASE pc \notin {"header", "rewrite", "append"}
  BY <1>2, <1>9 DEF CutShort
<1>. QED  BY <1>6, <1>7, <1>8, <1>9

LEMMA KilledStep ==
    ASSUME EInv, Killed
    PROVE  EInv'
<1>1. /\ pc # "off" /\ pc' = "off" /\ result' = "killed" /\ CutShort
      /\ newline_lost' = (newline_lost \/ (~report'.terminated /\ Parses(Last(report'.lines))))
      /\ UNCHANGED <<system, pending, selected, attempt, turns, conversation, starts, synced>>
  BY DEF Killed, End, rep
<1>2. conversations' \in Nat /\ conversations <= conversations'
  BY RaisedHolds DEF Killed, EInv, TypeOK
<1>3. /\ report' \in [exists : BOOLEAN, lines : Seq(Lines), terminated : BOOLEAN]
      /\ Filed(report'.lines, conversations)
      /\ ~report'.exists => report' = NoReport
      /\ report'.terminated \/ report'.lines # <<>>
  BY <1>1, CutReport
<1>4. Filed(report'.lines, conversations')
  <2>1. report'.lines \in Seq(Lines) /\ conversations \in Nat
    BY <1>3 DEF EInv, TypeOK
  <2>. QED  BY <1>2, <1>3, <2>1, ContentMore
<1>5. newline_lost' \in BOOLEAN /\ (~report'.terminated /\ Parses(Last(report'.lines)) => newline_lost')
  BY <1>1 DEF EInv, TypeOK
<1>6. TypeOK'
  BY <1>1, <1>2, <1>3, <1>5 DEF EInv, TypeOK
<1>7. File'
  BY <1>3, <1>5 DEF File
<1>8. Process' /\ Sweeping' /\ Rep' /\ Finished'
  BY <1>1 DEF Process, Sweeping, Rep, Finished
<1>. QED  BY <1>4, <1>6, <1>7, <1>8 DEF EInv

LEMMA InitHolds == Init => EInv
<1>. SUFFICES ASSUME Init PROVE EInv
  OBVIOUS
<1>1. /\ report.lines = <<>> /\ report.exists = FALSE /\ report.terminated = TRUE
      /\ report = NoReport /\ pc = "off" /\ result = "none" /\ turns = <<>>
      /\ conversation = NoConversation /\ conversations = 0
  BY DEF Init, NoReport
<1>2. report \in [exists : BOOLEAN, lines : Seq(Lines), terminated : BOOLEAN]
  BY <1>1 DEF NoReport
<1>3. TypeOK
  <2>1. /\ attempt = 1 /\ starts = 0 /\ system \in Systems /\ pending = {} /\ selected = {}
        /\ synced = {} /\ newline_lost = FALSE
    BY DEF Init
  <2>2. 1 \in 1..RepAttempts /\ 0 \in 0..MaxStarts /\ 0 \in Nat
    BY EvalReportAssumption DEF RepAttempts
  <2>. QED  BY <1>1, <1>2, <2>1, <2>2, NoTurns DEF TypeOK
<1>4. Filed(report.lines, conversations)
  BY <1>1 DEF Filed, Place, RecordAt
<1>5. File /\ Process /\ Sweeping /\ Rep /\ Finished
  BY <1>1 DEF File, Process, Sweeping, Rep, Finished
<1>. QED  BY <1>3, <1>4, <1>5 DEF EInv

LEMMA StepHolds == EInv /\ [Next]_vars => EInv'
<1>. SUFFICES ASSUME EInv, [Next]_vars PROVE EInv'
  OBVIOUS
<1>1. CASE \E s \in Systems, keys \in (SUBSET Keys) \ {{}}, resume \in BOOLEAN : Start(s, keys, resume)
  BY <1>1, StartStep
<1>2. CASE WriteHeader
  BY <1>2, WriteHeaderStep
<1>3. CASE Load
  BY <1>3, LoadStep
<1>4. CASE Rewrite
  BY <1>4, RewriteStep
<1>5. CASE Resume
  BY <1>5, ResumeStep
<1>6. CASE Answered
  BY <1>6, AnsweredStep
<1>7. CASE TimedOut
  BY <1>7, TimedOutStep
<1>8. CASE TurnFails
  BY <1>8, TurnFailsStep
<1>9. CASE AppendRecord
  BY <1>9, AppendRecordStep
<1>10. CASE Killed
  BY <1>10, KilledStep
<1>11. CASE UNCHANGED vars
  <2>1. /\ pc' = pc /\ result' = result /\ report' = report /\ system' = system
        /\ pending' = pending /\ selected' = selected /\ attempt' = attempt /\ turns' = turns
        /\ conversation' = conversation /\ conversations' = conversations /\ starts' = starts
        /\ synced' = synced /\ newline_lost' = newline_lost
    BY <1>11 DEF vars, rep
  <2>2. TypeOK'
    BY <2>1 DEF EInv, TypeOK
  <2>3. Filed(report.lines, conversations)' /\ File'
    BY <2>1 DEF EInv, File
  <2>4. Kept' = Kept /\ (Readable' <=> Readable)
    BY <2>1 DEF Kept, Readable
  <2>5. Process' /\ Sweeping' /\ Finished'
    BY <2>1, <2>4 DEF EInv, Process, Sweeping, Finished
  <2>6. Rep'
    BY <2>1 DEF EInv, Rep
  <2>. QED  BY <2>2, <2>3, <2>5, <2>6 DEF EInv
<1>. QED  BY <1>1, <1>2, <1>3, <1>4, <1>5, <1>6, <1>7, <1>8, <1>9, <1>10, <1>11 DEF Next

LEMMA ReportInvariant == Spec => []EInv
BY InitHolds, StepHolds, PTL DEF Spec
-------------------------------------------------------------------------------
(* The report's records and places, as the properties name them.           *)
LEMMA PiecePlaces ==
    /\ \A p \in Pieces : Place(report.lines, p[1], p[2]) /\ p = <<p[1], p[2]>>
    /\ \A n, i : Place(report.lines, n, i) => <<n, i>> \in Pieces
BY DEF Pieces, Place

LEMMA RecordPlaces ==
    ASSUME NEW r \in Records
    PROVE  \E n, i : RecordAt(report.lines, n, i) /\ r = report.lines[n][i]
BY PiecePlaces DEF Records, RecordAt

LEMMA KeyPlaces ==
    ASSUME NEW k
    PROVE  /\ \A p \in PlacesOf(k) : /\ RecordAt(report.lines, p[1], p[2]) /\ p = <<p[1], p[2]>>
                                     /\ report.lines[p[1]][p[2]].key = k
           /\ HasKey(report.lines, k) => PlacesOf(k) # {}
<1>1. \A p : p \in PlacesOf(k) <=> /\ p \in Pieces
                                   /\ report.lines[p[1]][p[2]].kind = "record"
                                   /\ report.lines[p[1]][p[2]].key = k
  BY DEF PlacesOf
<1>2. \A p \in PlacesOf(k) : /\ RecordAt(report.lines, p[1], p[2]) /\ p = <<p[1], p[2]>>
                             /\ report.lines[p[1]][p[2]].key = k
  BY <1>1, PiecePlaces DEF RecordAt
<1>3. ASSUME NEW n, NEW i, RecordAt(report.lines, n, i), report.lines[n][i].key = k
      PROVE  <<n, i>> \in PlacesOf(k)
  BY <1>1, <1>3, PiecePlaces DEF RecordAt
<1>. QED  BY <1>2, <1>3 DEF HasKey

(* Every field of the report, the sweep and the rep keeps its type.        *)
THEOREM TypeCorrect == Spec => []TypeOK
<1>1. EInv => TypeOK
  BY DEF EInv
<1>. QED  BY <1>1, ReportInvariant, PTL

(* No key is recorded twice, for every number of keys, through any number  *)
(* of kills at any write, resumes and selections of keys.                  *)
THEOREM RecordedOnceHolds == Spec => []RecordedOnce
<1>1. EInv => RecordedOnce
  <2>1. SUFFICES ASSUME EInv, NEW k \in Keys PROVE Cardinality(PlacesOf(k)) <= 1
    BY DEF RecordedOnce
  <2>2. ASSUME NEW p \in PlacesOf(k), NEW q \in PlacesOf(k) PROVE p = q
    <3>1. /\ RecordAt(report.lines, p[1], p[2]) /\ p = <<p[1], p[2]>>
          /\ report.lines[p[1]][p[2]].key = k
          /\ RecordAt(report.lines, q[1], q[2]) /\ q = <<q[1], q[2]>>
          /\ report.lines[q[1]][q[2]].key = k
      BY KeyPlaces
    <3>2. \A n, i, m, j :
             RecordAt(report.lines, n, i) /\ RecordAt(report.lines, m, j) /\ (n # m \/ i # j) =>
                report.lines[n][i].key # report.lines[m][j].key
      <4>1. Filed(report.lines, conversations)
        BY <2>1 DEF EInv
      <4>2. SUFFICES ASSUME NEW n, NEW i, NEW m, NEW j, RecordAt(report.lines, n, i),
                            RecordAt(report.lines, m, j), n # m \/ i # j,
                            report.lines[n][i].key = report.lines[m][j].key
                     PROVE  FALSE
        OBVIOUS
      <4>. QED  BY <4>1, <4>2 DEF Filed
    <3>3. p[1] = q[1] /\ p[2] = q[2]
      BY <3>1, <3>2, Zenon
    <3>. QED  BY <3>1, <3>3
  <2>3. CASE PlacesOf(k) = {}
    BY <2>3, FS_EmptySet
  <2>4. CASE PlacesOf(k) # {}
    <3>1. PICK p : PlacesOf(k) = {p}
      BY <2>2, <2>4
    <3>. QED  BY <3>1, FS_Singleton
  <2>. QED  BY <2>3, <2>4
<1>. QED  BY <1>1, ReportInvariant, PTL

(* A record's turns are those of one attempt, in a conversation no other   *)
(* record shares, and of the system the header names, whatever             *)
(* environments the report's processes ran in.                             *)
THEOREM OneAttemptPerRecordHolds == Spec => []OneAttemptPerRecord
<1>1. EInv => OneAttemptPerRecord
  <2>1. SUFFICES ASSUME EInv, NEW r \in Records
                 PROVE  /\ r.system = report.lines[1][1].system
                        /\ \A i \in DOMAIN r.turns : ~r.turns[i].error =>
                              /\ r.turns[i].engine_turn = i
                              /\ r.turns[i].conversation_id = r.turns[1].conversation_id
                              /\ \A s \in Records \ {r} : \A j \in DOMAIN s.turns :
                                    s.turns[j].conversation_id # r.turns[i].conversation_id
                        /\ \A i \in DOMAIN r.turns : r.turns[i].error => i = Len(r.turns)
                        /\ ~r.turns[Len(r.turns)].error => Len(r.turns) = NumTurns
    BY DEF OneAttemptPerRecord
  <2>2. PICK n, i : RecordAt(report.lines, n, i) /\ r = report.lines[n][i]
    BY RecordPlaces
  <2>3. OneConversation(r.turns, Conversation(r)) /\ Whole(r.turns)
    BY <2>1, <2>2 DEF EInv, Filed, GoodRecord
  <2>4. ASSUME NEW s \in Records \ {r}, NEW j \in DOMAIN s.turns, Conversation(r) # 0
        PROVE  s.turns[j].conversation_id # Conversation(r)
    <3>1. PICK m, l : RecordAt(report.lines, m, l) /\ s = report.lines[m][l]
      BY RecordPlaces
    <3>2. n # m \/ i # l
      BY <2>2, <3>1
    <3>3. OneConversation(s.turns, Conversation(s))
      BY <2>1, <3>1 DEF EInv, Filed, GoodRecord
    <3>4. Conversation(s) # Conversation(r)
      BY <2>1, <2>2, <2>4, <3>1, <3>2 DEF EInv, Filed
    <3>. QED  BY <3>3, <3>4 DEF OneConversation
  <2>5. r.system = report.lines[1][1].system
    BY <2>1, <2>2 DEF EInv, Filed
  <2>. QED  BY <2>3, <2>4, <2>5 DEF OneConversation, Whole, Conversation
<1>. QED  BY <1>1, ReportInvariant, PTL

(* A sweep that says it finished has recorded every key it was asked for,  *)
(* if no answer holds a separator.                                         *)
THEOREM FinishedMeansRecordedHolds == Spec => [](~Separators => FinishedMeansRecorded)
<1>1. EInv => (~Separators => FinishedMeansRecorded)
  BY KeyPlaces DEF EInv, Finished, FinishedMeansRecorded
<1>. QED  BY <1>1, ReportInvariant, PTL
-------------------------------------------------------------------------------
(* What is played is appended to a file that ends with a newline, unless a *)
(* kill once kept a whole line without: a resume found its last line whole,*)
(* or has rewritten it.                                                    *)
Ended == pc \in {"resume", "play", "append"} => report.terminated \/ newline_lost

LEMMA EndedHolds == Spec => []Ended
<1>1. Init => Ended
  BY DEF Init, Ended
<1>2. ASSUME EInv, Ended, [Next]_vars PROVE Ended'
  <2>1. CASE UNCHANGED vars
    BY <1>2, <2>1 DEF Ended, vars
  <2>2. ASSUME NEW s \in Systems, NEW keys \in SUBSET Keys, NEW again \in BOOLEAN,
               Start(s, keys, again)
        PROVE  Ended'
    BY <2>2 DEF Start, End, Ended
  <2>3. CASE WriteHeader
    BY <2>3 DEF WriteHeader, Written, Ended
  <2>4. CASE Load
    <3>1. SUFFICES ASSUME pc' = "resume", ~report.terminated
                   PROVE  newline_lost
      BY <2>4 DEF Load, End, Ended
    <3>2. Kept # <<>> /\ Kept = report.lines
      BY <2>4, <3>1 DEF Load, End
    <3>3. PICK m \in 0..Len(report.lines) :
             Kept = SubSeq(report.lines, 1, m) /\ (m > 0 => Parses(report.lines[m]))
      BY <1>2, KeptLines DEF EInv
    <3>4. report.lines \in Seq(Lines)
      BY <1>2 DEF EInv, TypeOK
    <3>5. Len(Kept) = m /\ m # 0
      BY <3>2, <3>3, <3>4, FirstLines
    <3>6. Parses(Last(report.lines))
      BY <3>2, <3>3, <3>5 DEF Last
    <3>. QED  BY <1>2, <3>1, <3>6 DEF EInv, File
  <2>5. CASE Rewrite
    <3>1. report \in [exists : BOOLEAN, lines : Seq(Lines), terminated : BOOLEAN]
      BY <1>2 DEF EInv, TypeOK
    <3>. QED  BY <2>5, <3>1 DEF Rewrite, Rewritten, Ended
  <2>6. CASE Resume
    BY <1>2, <2>6 DEF Resume, Sweep, End, Ended
  <2>7. CASE Answered \/ TimedOut \/ TurnFails
    BY <1>2, <2>7 DEF Answered, TimedOut, TurnFails, Ended
  <2>8. CASE AppendRecord
    BY <2>8 DEF AppendRecord, Written, Ended
  <2>9. CASE Killed
    BY <2>9 DEF Killed, End, Ended
  <2>. QED  BY <1>2, <2>1, <2>2, <2>3, <2>4, <2>5, <2>6, <2>7, <2>8, <2>9 DEF Next
<1>. QED  BY <1>1, <1>2, ReportInvariant, PTL DEF Spec

KeepsParsed(lines, M) ==
    \A n \in DOMAIN lines : Parses(lines[n]) => n \in DOMAIN M /\ M[n] = lines[n]

(* Written after a newline, text leaves the lines before it as they were.  *)
LEMMA WrittenAfter ==
    ASSUME NEW lines \in Seq(Lines), NEW text \in Seq(Lines)
    PROVE  KeepsParsed(lines, AtEnd(lines, TRUE, text))
<1>1. AtEnd(lines, TRUE, text) = lines \o text
  BY DEF AtEnd
<1>2. \A n \in DOMAIN lines : n \in DOMAIN (lines \o text) /\ (lines \o text)[n] = lines[n]
  OBVIOUS
<1>. QED  BY <1>1, <1>2 DEF KeepsParsed

(* A line that parses goes on being one: every write is at the end, after  *)
(* a newline, and what a rewrite drops is no line that parses.  The rewrite*)
(* itself empties the file first, so a kill of it is excepted.             *)
THEOREM ParsedLinesStayHolds == Spec => ParsedLinesStay
<1>1. ASSUME EInv, Ended, [Next]_vars, ~newline_lost, ~(pc = "rewrite" /\ pc' = "off")
      PROVE  ParsedLines \subseteq ParsedLines'
  <2>1. SUFFICES KeepsParsed(report.lines, report'.lines)
    BY DEF KeepsParsed, ParsedLines
  <2>2. CASE report' = report
    BY <2>2 DEF KeepsParsed
  <2>3. report.lines \in Seq(Lines) /\ report \in [exists : BOOLEAN, lines : Seq(Lines), terminated : BOOLEAN]
    BY <1>1 DEF EInv, TypeOK
  <2>4. CASE report.lines = <<>>
    BY <2>4 DEF KeepsParsed
  <2>5. ASSUME pc = "append", NEW text \in Texts(ThisRecord) \cup {<<<<Part>>>>}, NEW ended,
               report' = Written(text, ended)
        PROVE  KeepsParsed(report.lines, report'.lines)
    <3>1. text \in Seq(Lines)
      <4>1. Part \in AllPieces /\ ThisRecord \in AllPieces
        BY <1>1, <2>5, ThisRecordGood DEF AllPieces
      <4>2. <<Part>> \in Lines /\ <<ThisRecord>> \in Lines
        BY <4>1 DEF Lines, AllPieces
      <4>3. text = <<<<ThisRecord>>>> \/ text = <<<<Part>>, <<Part>>>> \/ text = <<<<Part>>>>
        BY <2>5 DEF Texts
      <4>4. \A x \in Lines, y \in Lines : <<x>> \in Seq(Lines) /\ <<x, y>> \in Seq(Lines)
        OBVIOUS
      <4>. QED  BY <4>2, <4>3, <4>4, Zenon
    <3>2. report.terminated = TRUE
      BY <1>1, <2>3, <2>5 DEF Ended
    <3>3. report'.lines = AtEnd(report.lines, TRUE, text)
      BY <2>5, <3>2 DEF Written
    <3>. QED  BY <2>3, <3>1, <3>3, WrittenAfter
  <2>6. CASE Rewrite
    <3>1. PICK m \in 0..Len(report.lines) :
             /\ Kept = SubSeq(report.lines, 1, m)
             /\ \A n \in DOMAIN report.lines : Parses(report.lines[n]) => n <= m
      BY <1>1, KeptLines DEF EInv
    <3>2. report'.lines = Kept
      BY <2>3, <2>6 DEF Rewrite, Rewritten
    <3>3. DOMAIN Kept = 1..m /\ \A n \in 1..m : Kept[n] = report.lines[n]
      BY <2>3, <3>1, FirstLines
    <3>4. \A n \in DOMAIN report.lines : Parses(report.lines[n]) => n \in 1..m
      BY <2>3, <3>1
    <3>. QED  BY <3>2, <3>3, <3>4 DEF KeepsParsed
  <2>7. CASE WriteHeader
    <3>1. report.lines = <<>>
      BY <1>1, <2>7 DEF WriteHeader, EInv, Process, NoReport
    <3>. QED  BY <2>4, <3>1
  <2>8. CASE AppendRecord
    BY <2>5, <2>8 DEF AppendRecord
  <2>9. CASE Killed
    <3>1. CutShort /\ pc' = "off"
      BY <2>9 DEF Killed, End
    <3>2. CASE pc = "header" /\ report' \in HeaderCut
      <4>1. report.lines = <<>>
        BY <1>1, <3>2 DEF EInv, Process, NoReport
      <4>. QED  BY <2>4, <4>1
    <3>3. CASE pc = "append" /\ report' \in RecordCut
      BY <2>5, <3>3 DEF RecordCut
    <3>. QED  BY <1>1, <2>2, <3>1, <3>2, <3>3 DEF CutShort
  <2>10. CASE ~(WriteHeader \/ Rewrite \/ AppendRecord \/ Killed)
    <3>1. report' = report
      BY <1>1, <2>10 DEF Next, vars, Start, Load, Resume, Answered, TimedOut, TurnFails
    <3>. QED  BY <2>2, <3>1
  <2>. QED  BY <2>6, <2>7, <2>8, <2>9, <2>10
<1>. QED  BY <1>1, ReportInvariant, EndedHolds, PTL DEF Spec, ParsedLinesStay
-------------------------------------------------------------------------------
(***************************************************************************)
(* What grading says of a report, for every sound bank and every report of *)
(* it.                                                                     *)
(***************************************************************************)
(* The wrong-but-verified turns of a record are those that are rung for.   *)
LEMMA WrongIsRung ==
    ASSUME NEW r, NEW record
    PROVE  Wronged(r, record) <=> RungBreaches(r, record, TRUE) # {}
<1> DEFINE Ringing == {p \in Rung(r, record) : r.turns[p[1]].assertions[p[2]].breach = TRUE}
<1>1. RungBreaches(r, record, TRUE) # {} <=> Ringing # {}
  BY DEF RungBreaches
<1>2. ASSUME NEW t \in Played(r, record), NEW a \in Failed(r, record, t),
             Content(r.turns[t].assertions[a]), record.turns[t].exit = 0,
             AlarmWorthy(r.turns[t].assertions[a], record.turns[t], GoldOf(r)),
             r.turns[t].assertions[a].breach = TRUE
      PROVE  Wronged(r, record)
  <2>1. /\ t \in (DOMAIN r.turns) \cap (DOMAIN record.turns)
        /\ a \in DOMAIN r.turns[t].assertions
        /\ Applies(r, r.turns[t].assertions[a], record.turns[t])
        /\ ~Evaluate(r.turns[t].assertions[a], record.turns[t], record.turns, GoldOf(r))
    BY <1>2 DEF Played, Failed
  <2>2. r.turns[t].assertions[a].at_exit = None \/ 0 \in r.turns[t].assertions[a].at_exit
    BY <1>2, <2>1 DEF Applies
  <2>3. /\ r.turns[t].assertions[a].kind # "contains"
        /\ r.turns[t].assertions[a].kind = "window_data_anchored"
             => /\ r.turns[t].assertions[a].forbid \cap Windowed(record.turns[t]) # {}
                /\ Gold(GoldOf(r), r.turns[t].assertions[a].field) # None
    BY <1>2 DEF AlarmWorthy, WindowFindings
  <2> QED
    BY <1>2, <2>1, <2>2, <2>3 DEF Wronged
<1>3. ASSUME NEW t \in (DOMAIN r.turns) \cap (DOMAIN record.turns),
             NEW a \in DOMAIN r.turns[t].assertions,
             record.turns[t].exit = 0, Content(r.turns[t].assertions[a]),
             r.turns[t].assertions[a].breach,
             r.turns[t].assertions[a].at_exit = None \/ 0 \in r.turns[t].assertions[a].at_exit,
             r.turns[t].assertions[a].kind # "contains",
             ~Evaluate(r.turns[t].assertions[a], record.turns[t], record.turns, GoldOf(r)),
             r.turns[t].assertions[a].kind = "window_data_anchored"
               => /\ r.turns[t].assertions[a].forbid \cap Windowed(record.turns[t]) # {}
                  /\ Gold(GoldOf(r), r.turns[t].assertions[a].field) # None
      PROVE  <<t, a>> \in Ringing
  <2>1. Applies(r, r.turns[t].assertions[a], record.turns[t])
    BY <1>3 DEF Applies
  <2>2. t \in Played(r, record) /\ a \in Failed(r, record, t)
    BY <1>3, <2>1 DEF Played, Failed
  <2>3. AlarmWorthy(r.turns[t].assertions[a], record.turns[t], GoldOf(r))
    BY <1>3 DEF AlarmWorthy, WindowFindings
  <2> QED
    BY <1>3, <2>2, <2>3 DEF Rung, Alarms
<1>4. Ringing # {} => Wronged(r, record)
  <2> SUFFICES ASSUME NEW p \in Ringing PROVE Wronged(r, record)
    OBVIOUS
  <2>1. PICK t \in Played(r, record) : \E a \in Failed(r, record, t) : p = <<t, a>>
    BY DEF Rung, Alarms
  <2>2. PICK a \in Failed(r, record, t) : p = <<t, a>>
    BY <2>1
  <2> QED
    BY <1>2, <2>2 DEF Rung, Alarms
<1>5. Wronged(r, record) => Ringing # {}
  BY <1>3 DEF Wronged
<1> QED
  BY <1>1, <1>4, <1>5
-------------------------------------------------------------------------------
(* Records counted, whatever else is in the report.                        *)
LEMMA MoreIsMet ==
    ASSUME NEW a \in Nat, NEW b \in Nat, NEW of \in Nat, a >= b
    PROVE  a * of >= b * of
<1>1. PICK d \in Nat : a = b + d
  <2>1. a - b \in Nat /\ a = b + (a - b)
    OBVIOUS
  <2> QED
    BY <2>1
<1>2. a * of = b * of + d * of /\ d * of \in Nat /\ b * of \in Nat /\ a * of \in Nat
  BY <1>1
<1> QED
  BY <1>2

(* The alarms of one record rung for; a row of the bank graded.            *)
AlarmHeard(r, i) == RungBreaches(r, played[i], TRUE) \subseteq breaches

RowSettled(r) ==
    RecordsOf(r) # {} =>
        \E grade \in row_grades :
            IF Rotten(r) THEN grade.status = "rot"
            ELSE grade.status = Status(r, RecordsOf(r)) /\ grade.xfail = r.xfail

GradingTyped ==
    /\ stage \in {"preflight", "row", "rep", "aggregate", "done"}
    /\ SoundBanks
    /\ bank \in Banks /\ played \in Reports /\ Plausible(bank, played)
    /\ row \in Nat \ {0}

(* A row under way: its gold holds, and every record of it is to grade or  *)
(* graded.                                                                 *)
RowOpen ==
    stage \in {"rep", "aggregate"} =>
        /\ row \in DOMAIN bank /\ RecordsOf(bank[row]) # {} /\ ~Rotten(bank[row])
        /\ graded \cup todo = RecordsOf(bank[row])
        /\ stage = "aggregate" => todo = {}
        /\ \A i \in graded : AlarmHeard(bank[row], i)

Rang ==
    /\ \A q \in DOMAIN bank : q < row /\ ~Rotten(bank[q]) =>
          \A i \in RecordsOf(bank[q]) : AlarmHeard(bank[q], i)
    /\ breaches # {} => Occurs(FALSE)

RowsBehind == \A q \in DOMAIN bank : q < row => RowSettled(bank[q])

GradingEnded == stage = "done" => exit = 1 \/ (row > Len(bank) /\ exit = ExitCode)

(* What grading has gone past is settled, and breaches are occurrences.    *)
GradingInv == GradingTyped /\ RowOpen /\ Rang /\ RowsBehind /\ GradingEnded
-------------------------------------------------------------------------------
LEMMA GradedLists ==
    ASSUME GradingTyped
    PROVE  /\ Len(bank) \in Nat /\ DOMAIN bank = 1..Len(bank)
           /\ Len(played) \in Nat /\ DOMAIN played = 1..Len(played)
BY DEF GradingTyped, IsList, SoundBanks, Range

(* What a step adds leaves what has been heard and settled so.             *)
LEMMA GradingKept ==
    ASSUME GradingInv, bank' = bank, played' = played, row' \in Nat \ {0},
           breaches \subseteq breaches', row_grades \subseteq row_grades',
           row' = row \/ row' = row + 1,
           \A q \in DOMAIN bank : q = row /\ row' = row + 1 =>
               /\ ~Rotten(bank[q]) => \A i \in RecordsOf(bank[q]) : AlarmHeard(bank[q], i)'
               /\ RowSettled(bank[q])',
           breaches' # breaches => Occurs(FALSE)
    PROVE  Rang' /\ RowsBehind'
<1>1. \A q \in DOMAIN bank : RecordsOf(bank[q])' = RecordsOf(bank[q])
  BY DEF RecordsOf
<1>2. \A q \in DOMAIN bank : Rotten(bank[q])' <=> Rotten(bank[q])
  BY DEF Rotten, Gold
<1>3. \A q \in DOMAIN bank : \A i \in DOMAIN played : AlarmHeard(bank[q], i) => AlarmHeard(bank[q], i)'
  BY DEF AlarmHeard
<1>4. \A q \in DOMAIN bank : RowSettled(bank[q]) => RowSettled(bank[q])'
  <2> TAKE q \in DOMAIN bank
  <2>1. Status(bank[q], RecordsOf(bank[q]))' = Status(bank[q], RecordsOf(bank[q]))
    BY <1>1 DEF Status, Met, Passes, ReachedReps
  <2> QED
    BY <1>1, <1>2, <2>1 DEF RowSettled
<1>5. Occurs(FALSE)' <=> Occurs(FALSE)
  BY DEF Occurs, Wronged
<1>6. \A q \in DOMAIN bank : q < row' => q < row \/ (row' = row + 1 /\ q = row)
  BY GradedLists DEF GradingInv, GradingTyped
<1>7. Rang'
  <2>1. \A q \in DOMAIN bank : q < row' /\ ~Rotten(bank[q]) =>
           \A i \in RecordsOf(bank[q]) : AlarmHeard(bank[q], i)'
    BY <1>3, <1>6 DEF GradingInv, Rang, RecordsOf
  <2>2. breaches' # {} => Occurs(FALSE)'
    BY <1>5 DEF GradingInv, Rang
  <2> QED
    BY <1>1, <1>2, <2>1, <2>2 DEF Rang
<1>8. RowsBehind'
  BY <1>4, <1>6 DEF GradingInv, RowsBehind
<1> QED
  BY <1>7, <1>8
-------------------------------------------------------------------------------
LEMMA GradingStarts == GradingInit => GradingInv
<1> SUFFICES ASSUME GradingInit PROVE GradingInv
  OBVIOUS
<1>1. GradingTyped
  BY BankAssumption DEF GradingInit, GradingTyped
<1>2. \A q \in DOMAIN bank : ~(q < row)
  BY <1>1, GradedLists DEF GradingInit
<1> QED
  BY <1>1, <1>2 DEF GradingInit, GradingInv, RowOpen, Rang, RowsBehind, GradingEnded

LEMMA GradingSteps == GradingInv /\ [GradingNext]_grading_vars => GradingInv'
<1> SUFFICES ASSUME GradingInv, [GradingNext]_grading_vars PROVE GradingInv'
  OBVIOUS
<1> USE DEF GradingInv
<1>1. bank' = bank /\ played' = played /\ (Plausible(bank, played) => Plausible(bank, played)')
  BY DEF GradingNext, grading_vars, Preflight, SkipRow, RotRow, OpenRow, GradeRep,
         Aggregate, Finish, Rest
<1>2. CASE Preflight
  <2>1. GradingTyped' /\ row' = row
    BY <1>1, <1>2 DEF GradingTyped, Preflight
  <2>2. Rang' /\ RowsBehind'
    BY <1>1, <1>2, <2>1, GradingKept DEF Preflight, GradingTyped
  <2> QED
    BY <1>2, <2>1, <2>2 DEF Preflight, RowOpen, GradingEnded
<1>3. CASE SkipRow
  <2>1. GradingTyped' /\ row' = row + 1
    BY <1>1, <1>3 DEF GradingTyped, SkipRow
  <2>2. \A q \in DOMAIN bank : q = row =>
           /\ \A i \in RecordsOf(bank[q]) : AlarmHeard(bank[q], i)'
           /\ RowSettled(bank[q])'
    BY <1>1, <1>3 DEF SkipRow, RowSettled, RecordsOf
  <2>3. Rang' /\ RowsBehind'
    BY <1>1, <1>3, <2>1, <2>2, GradingKept DEF SkipRow, GradingTyped
  <2> QED
    BY <1>3, <2>1, <2>3 DEF SkipRow, RowOpen, GradingEnded
<1>4. CASE RotRow
  <2>1. GradingTyped' /\ row' = row + 1
    BY <1>1, <1>4 DEF GradingTyped, RotRow
  <2>2. \A q \in DOMAIN bank : q = row => Rotten(bank[q]) /\ Rotten(bank[q])'
    BY <1>1, <1>4 DEF RotRow
  <2>3. \A q \in DOMAIN bank : q = row => RowSettled(bank[q])'
    <3> DEFINE mine == RowGrade(bank[row], Cardinality(RecordsOf(bank[row])), 0, "rot", None, {})
    <3>1. mine \in row_grades' /\ mine.status = "rot"
      BY <1>4 DEF RotRow, RowGrade
    <3> HIDE DEF mine
    <3> QED
      BY <1>1, <2>2, <3>1 DEF RowSettled
  <2>4. Rang' /\ RowsBehind'
    BY <1>1, <1>4, <2>1, <2>2, <2>3, GradingKept DEF RotRow, GradingTyped
  <2> QED
    BY <1>4, <2>1, <2>4 DEF RotRow, RowOpen, GradingEnded
<1>5. CASE OpenRow
  <2>1. GradingTyped' /\ row' = row /\ stage' = "rep"
    BY <1>1, <1>5 DEF GradingTyped, OpenRow
  <2>2. Rang' /\ RowsBehind'
    BY <1>1, <1>5, <2>1, GradingKept DEF OpenRow, GradingTyped
  <2>3. RowOpen'
    <3>1. row \in DOMAIN bank
      BY <1>5, GradedLists DEF OpenRow, GradingTyped
    <3> QED
      BY <1>1, <1>5, <3>1, <2>1 DEF OpenRow, RowOpen, RecordsOf
  <2> QED
    BY <2>1, <2>2, <2>3 DEF GradingEnded
<1>6. CASE GradeRep
  <2>1. GradingTyped' /\ row' = row /\ stage' \in {"rep", "aggregate"}
    BY <1>1, <1>6 DEF GradingTyped, GradeRep
  <2>2. PICK i \in todo :
           /\ breaches' = breaches \cup RungBreaches(bank[row], played[i], TRUE)
           /\ graded' = graded \cup {i} /\ todo' = todo \ {i}
           /\ stage' = IF todo = {i} THEN "aggregate" ELSE "rep"
    BY <1>6 DEF GradeRep
  <2>3. /\ row \in DOMAIN bank /\ ~Rotten(bank[row]) /\ RecordsOf(bank[row]) # {}
        /\ graded \cup todo = RecordsOf(bank[row]) /\ \A j \in graded : AlarmHeard(bank[row], j)
    BY <1>6 DEF GradeRep, RowOpen
  <2>4. RungBreaches(bank[row], played[i], TRUE) # {} => Occurs(FALSE)
    <3>1. bank[row] \in Range(bank) /\ played[i] \in Range(played)
          /\ played[i].row_id = bank[row].id
      BY <2>3 DEF RecordsOf, Range
    <3> QED
      BY <2>3, <3>1, WrongIsRung DEF Occurs
  <2>5. Rang' /\ RowsBehind'
    <3>1. breaches \subseteq breaches' /\ row_grades \subseteq row_grades'
          /\ (breaches' # breaches => Occurs(FALSE))
      BY <1>6, <2>2, <2>4 DEF GradeRep
    <3>2. row' \in Nat \ {0} /\ row' # row + 1
      BY <2>1 DEF GradingTyped
    <3> QED
      BY <1>1, <2>1, <3>1, <3>2, GradingKept
  <2>6. \A j \in graded' : AlarmHeard(bank[row], j)'
    BY <1>1, <2>1, <2>2, <2>3 DEF AlarmHeard
  <2>7. RowOpen'
    BY <1>1, <2>1, <2>2, <2>3, <2>6 DEF RowOpen, RecordsOf
  <2> QED
    BY <2>1, <2>5, <2>7 DEF GradingEnded
<1>7. CASE Aggregate
  <2>1. GradingTyped' /\ row' = row + 1 /\ stage' = "row"
    BY <1>1, <1>7 DEF GradingTyped, Aggregate
  <2>2. /\ row \in DOMAIN bank /\ ~Rotten(bank[row]) /\ graded = RecordsOf(bank[row])
        /\ \A j \in graded : AlarmHeard(bank[row], j)
    BY <1>7 DEF Aggregate, RowOpen
  <2>3. \A q \in DOMAIN bank : q = row => \A i \in RecordsOf(bank[q]) : AlarmHeard(bank[q], i)'
    BY <1>1, <1>7, <2>2 DEF Aggregate, AlarmHeard
  <2>4. \A q \in DOMAIN bank : q = row => RowSettled(bank[q])'
    <3> TAKE q \in DOMAIN bank
    <3> HAVE q = row
    <3>1. PICK grade \in row_grades' :
             grade.status = Status(bank[q], graded) /\ grade.xfail = bank[q].xfail
      <4> DEFINE reached == IF HasSetup(bank[q]) THEN Cardinality(ReachedReps(bank[q], graded)) ELSE None
                 mine == RowGrade(bank[q], Cardinality(graded), Passes(bank[q], graded),
                                  Status(bank[q], graded), reached, failure_classes)
      <4>1. mine \in row_grades'
        BY <1>7 DEF Aggregate
      <4>2. mine.status = Status(bank[q], graded) /\ mine.xfail = bank[q].xfail
        BY DEF RowGrade
      <4> QED
        BY <4>1, <4>2
    <3>2. Status(bank[q], RecordsOf(bank[q]))' = Status(bank[q], graded)
      BY <1>1, <2>2 DEF Status, Met, Passes, ReachedReps, RecordsOf
    <3>3. ~Rotten(bank[q])'
      BY <1>1, <2>2
    <3> QED
      BY <1>1, <3>1, <3>2, <3>3 DEF RowSettled
  <2>5. Rang' /\ RowsBehind'
    BY <1>1, <1>7, <2>1, <2>3, <2>4, GradingKept DEF Aggregate, GradingTyped
  <2> QED
    BY <2>1, <2>5 DEF RowOpen, GradingEnded
<1>8. CASE Finish
  <2>1. GradingTyped' /\ row' = row /\ stage' = "done"
    BY <1>1, <1>8 DEF GradingTyped, Finish
  <2>2. Rang' /\ RowsBehind'
    BY <1>1, <1>8, <2>1, GradingKept DEF Finish, GradingTyped
  <2>3. GradingEnded'
    BY <1>1, <1>8 DEF Finish, GradingEnded, ExitCode
  <2> QED
    BY <2>1, <2>2, <2>3 DEF RowOpen
<1>9. CASE UNCHANGED grading_vars
  <2>1. GradingTyped' /\ row' = row
    BY <1>1, <1>9 DEF grading_vars, GradingTyped
  <2>2. Rang' /\ RowsBehind'
    BY <1>1, <1>9, <2>1, GradingKept DEF grading_vars, GradingTyped
  <2>3. RowOpen'
    BY <1>9 DEF grading_vars, RowOpen, RecordsOf, AlarmHeard
  <2> QED
    BY <1>9, <2>1, <2>2, <2>3 DEF grading_vars, GradingEnded, ExitCode
<1>10. CASE Rest
  BY <1>9, <1>10 DEF Rest
<1> QED
  BY <1>2, <1>3, <1>4, <1>5, <1>6, <1>7, <1>8, <1>9, <1>10 DEF GradingNext

LEMMA GradingInvariant == GradingSpec => []GradingInv
BY GradingStarts, GradingSteps, PTL DEF GradingSpec
-------------------------------------------------------------------------------
(* grade: exit 4 for every wrong answer that was verified, and for nothing *)
(* else.                                                                   *)
THEOREM AlarmAlwaysRingsHolds == GradingSpec => []AlarmAlwaysRings
<1>1. GradingInv => AlarmAlwaysRings
  <2> SUFFICES ASSUME GradingInv, Graded PROVE AlarmAlwaysRings
    BY DEF AlarmAlwaysRings
  <2>1. row > Len(bank) /\ exit = ExitCode
    BY DEF Graded, GradingInv, GradingEnded
  <2>2. \A q \in DOMAIN bank : q < row
    BY <2>1, GradedLists DEF GradingInv, GradingTyped
  <2>3. ASSUME NEW r \in Range(bank), NEW record \in Range(played),
               record.row_id = r.id, Wronged(r, record)
        PROVE  IF Rotten(r) THEN exit \in {3, 4} ELSE breaches # {}
    <3>1. PICK q \in DOMAIN bank : r = bank[q]
      BY DEF Range
    <3>2. PICK i \in DOMAIN played : record = played[i]
      BY DEF Range
    <3>3. i \in RecordsOf(r)
      BY <2>3, <3>2 DEF RecordsOf
    <3>4. RowSettled(r)
      BY <2>2, <3>1 DEF GradingInv, RowsBehind
    <3>5. ~Rotten(r) => AlarmHeard(r, i)
      BY <2>2, <3>1, <3>3 DEF GradingInv, Rang
    <3>6. RungBreaches(r, played[i], TRUE) # {}
      BY <2>3, <3>2, WrongIsRung
    <3>7. Rotten(r) => exit \in {3, 4}
      BY <2>1, <3>3, <3>4 DEF RowSettled, ExitCode
    <3>8. ~Rotten(r) => breaches # {}
      BY <3>5, <3>6 DEF AlarmHeard
    <3> QED
      BY <3>7, <3>8
  <2>4. exit = 4 <=> breaches # {}
    BY <2>1 DEF ExitCode
  <2>5. Occurs(FALSE) => breaches # {}
    BY <2>3 DEF Occurs
  <2>6. Occurs(TRUE) => exit \in {3, 4}
    BY <2>3, <2>4 DEF Occurs
  <2>7. breaches # {} => Occurs(FALSE)
    BY DEF GradingInv, Rang
  <2>8. exit \in {0, 2} => ~Occurs(TRUE)
    <3>1. exit \in {3, 4} => ~(exit \in {0, 2})
      OBVIOUS
    <3> QED
      BY <2>6, <3>1
  <2> QED
    BY <2>4, <2>5, <2>7, <2>8 DEF AlarmAlwaysRings
<1> QED
  BY GradingInvariant, <1>1, PTL

(* grade, _grade_rep: no row is passed that its reps did not earn.         *)
THEOREM CleanIsEarnedHolds == GradingSpec => []CleanIsEarned
<1>1. GradingInv => CleanIsEarned
  <2> SUFFICES ASSUME GradingInv, Graded, exit = 0,
                      NEW r \in Range(bank), RecordsOf(r) # {}, ~r.xfail
               PROVE  LET ran == {i \in RecordsOf(r) : Reached(r, played[i])}
                          good == {i \in ran : /\ Len(played[i].turns) = Len(r.turns)
                                               /\ \A t \in DOMAIN r.turns :
                                                     played[i].turns[t].exit \in r.turns[t].exit}
                      IN  /\ ran # {}
                          /\ HasSetup(r) => Cardinality(ran) >= r.reached_floor
                          /\ Cardinality(good) * r.threshold.of
                               >= r.threshold.passes * Cardinality(ran)
    BY DEF CleanIsEarned, RecordsOf, Reached
  <2> DEFINE ran == {i \in RecordsOf(r) : Reached(r, played[i])}
             good == {i \in ran : /\ Len(played[i].turns) = Len(r.turns)
                                  /\ \A t \in DOMAIN r.turns :
                                        played[i].turns[t].exit \in r.turns[t].exit}
             passed == {i \in RecordsOf(r) : Outcome(r, played[i]) = "passed"}
  <2>1. row > Len(bank) /\ exit = ExitCode
    BY DEF Graded, GradingInv, GradingEnded
  <2>2. PICK q \in DOMAIN bank : r = bank[q]
    BY DEF Range
  <2>3. RowSettled(r)
    BY <2>1, <2>2, GradedLists DEF GradingInv, GradingTyped, RowsBehind
  <2>4. Status(r, RecordsOf(r)) \notin {"fail", "inconclusive"}
    BY <2>1, <2>3 DEF RowSettled, ExitCode, Gates
  <2>5. ran = ReachedReps(r, RecordsOf(r))
    BY DEF ReachedReps, Outcome
  <2>6. Met(r, RecordsOf(r)) /\ (HasSetup(r) => ~(Cardinality(ran) < r.reached_floor))
    BY <2>4, <2>5 DEF Status
  <2>7. IsFiniteSet(RecordsOf(r))
    <3>1. IsFiniteSet(DOMAIN played)
      BY GradedLists, FS_Interval DEF GradingInv
    <3> QED
      BY <3>1, FS_Subset DEF RecordsOf
  <2>8. passed \subseteq good
    <3> SUFFICES ASSUME NEW i \in passed PROVE i \in good
      OBVIOUS
    <3>1. i \in ran /\ FailureClasses(r, played[i]) = {}
      BY DEF Outcome
    <3>2. Played(r, played[i]) = DOMAIN r.turns
      BY <3>1 DEF FailureClasses
    <3>3. \A t \in DOMAIN r.turns : played[i].turns[t].exit \in r.turns[t].exit
      BY <3>1, <3>2 DEF FailureClasses
    <3>4. Len(played[i].turns) = Len(r.turns)
      <4>1. played[i] \in Range(played) /\ played[i].row_id = r.id
        BY DEF Range, RecordsOf
      <4>2. /\ DOMAIN r.turns = 1..Len(r.turns) /\ Len(r.turns) \in Nat
            /\ DOMAIN played[i].turns = 1..Len(played[i].turns) /\ Len(played[i].turns) \in Nat
        BY <4>1 DEF GradingInv, GradingTyped, IsList, SoundBanks
      <4>3. Len(played[i].turns) \in 1..Len(r.turns)
        BY <4>1 DEF GradingInv, GradingTyped, Plausible
      <4>4. Len(r.turns) \in DOMAIN r.turns
        BY <4>2, <4>3
      <4> QED
        BY <3>2, <4>2, <4>3, <4>4 DEF Played
    <3> QED
      BY <3>1, <3>3, <3>4
  <2>9. /\ Cardinality(good) \in Nat /\ Cardinality(passed) \in Nat /\ Cardinality(ran) \in Nat
        /\ Cardinality(good) >= Cardinality(passed)
    <3>1. IsFiniteSet(ran) /\ IsFiniteSet(good)
      BY <2>7, FS_Subset
    <3> HIDE DEF ran, good, passed
    <3> QED
      BY <2>8, <3>1, FS_Subset, FS_CardinalityType
  <2>10. r.reached_floor \in Nat \ {0} /\ r.threshold.passes \in Int /\ r.threshold.of \in Nat \ {0}
    BY DEF GradingInv, GradingTyped, SoundBanks
  <2>11. Cardinality(good) * r.threshold.of >= Cardinality(passed) * r.threshold.of
    BY <2>9, <2>10, MoreIsMet
  <2>12. Cardinality(passed) * r.threshold.of >= r.threshold.passes * Cardinality(ran)
    BY <2>5, <2>6 DEF Met, Passes
  <2>13. ran # {}
    <3>1. CASE HasSetup(r)
      <4>1. Cardinality(ran) # 0
        BY <3>1, <2>6, <2>9, <2>10
      <4> QED
        BY <4>1, FS_EmptySet
    <3>2. CASE ~HasSetup(r)
      BY <3>2 DEF HasSetup, Reached
    <3> QED
      BY <3>1, <3>2
  <2>14. Cardinality(good) * r.threshold.of >= r.threshold.passes * Cardinality(ran)
    <3> HIDE DEF ran, good, passed
    <3>1. /\ Cardinality(good) * r.threshold.of \in Int /\ Cardinality(passed) * r.threshold.of \in Int
          /\ r.threshold.passes * Cardinality(ran) \in Int
      BY <2>9, <2>10
    <3> QED
      BY <2>11, <2>12, <3>1
  <2> QED
    BY <2>6, <2>9, <2>10, <2>13, <2>14
<1> QED
  BY GradingInvariant, <1>1, PTL
=================================================================================
