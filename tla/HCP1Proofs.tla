----------------------------- MODULE HCP1Proofs -----------------------------
(***************************************************************************)
(* Proofs about the HCP1 side, for every value of the constants: the       *)
(* garage test wizard, which tests the door, and UAPBus, the bridge the    *)
(* door is tested through.                                                 *)
(*                                                                         *)
(* The wizard: its script is a list in which every measurement follows its *)
(* command, and no choice leaves out a command whose measurement it keeps  *)
(* (WellMade), block by block and for any number of target positions (by   *)
(* the least prefix that would not be).  So a row names its place, whatever*)
(* the operator chooses, and no session ends recording but for a lost stop.*)
(*                                                                         *)
(* The bridge: for all broadcasts, options, times and numbers of calls.    *)
(***************************************************************************)
EXTENDS UAPBus, MCSessions, TLAPS, SequenceTheorems, WellFoundedInduction

(* The garage test wizard. *)

\* A set of numbers that is not empty has a least one.
LEMMA Least ==
    ASSUME NEW ns, ns \subseteq Nat, ns # {}
    PROVE  \E m \in ns : \A k \in ns : m <= k
<1>1. PICK R : R = OpToRel(<, Nat)
  OBVIOUS
<1>2. IsWellFoundedOn(R, Nat)
  BY <1>1, NatLessThanWellFounded
<1>3. PICK m \in ns : \A k \in ns : <<k, m>> \notin R
  BY <1>2, WFMin
<1>4. \A k \in ns : ~(k < m)
  BY <1>1, <1>3 DEF OpToRel
<1> QED BY <1>4

Operations == {"ask", "choose", "esp", "page", "door", "goto", "light", "measure", "save"}
StepArguments == {"none", "stats", "status", "clear", "format", "start", "stop", "log",
              "open", "close"} \cup {Targets[k] : k \in DOMAIN Targets}
Statement == [op : Operations, arg : StepArguments, skip : Nat]
Moves(line) == line.op \in {"door", "goto"}

\* The last command before line q of a list of statements is line p.
LastMove(s, p, q) ==
    Moves(s[p]) /\ p < q /\ \A m \in (p + 1)..(q - 1) : ~Moves(s[m])
\* Every measurement names the last command before it.
Commanded(s, q) == \E p \in 1..Len(s) : LastMove(s, p, q) /\ s[p].arg = s[q].arg
AllCommanded(s) == \A q \in 1..Len(s) : s[q].op = "measure" => Commanded(s, q)
\* A choice leaves out lines of the list only.
Inside(s) == \A p \in 1..Len(s) : s[p].op = "choose" => p + s[p].skip <= Len(s)
\* It leaves out no command whose measurement it keeps.
Spared(s, p, n, q) ==
    \/ \E m \in 1..Len(s) : m > p + n /\ m < q /\ Moves(s[m])
    \/ \A m \in p..(p + n) : ~Moves(s[m])
Apart(s) == \A p \in 1..Len(s) : \A q \in 1..Len(s) :
    (s[p].op = "choose" /\ s[q].op = "measure" /\ q > p + s[p].skip)
        => Spared(s, p, s[p].skip, q)
WellMade(s) == s \in Seq(Statement) /\ AllCommanded(s) /\ Inside(s) /\ Apart(s)

\* A list with neither commands nor measurements nor choices.
Plain(s) == s \in Seq(Statement)
            /\ \A k \in 1..Len(s) : s[k].op \notin {"door", "goto", "measure", "choose"}

\* A line of a list of statements is one.
LEMMA IsStatement ==
    ASSUME NEW s \in Seq(Statement), NEW k \in 1..Len(s)
    PROVE  s[k] \in Statement /\ s[k].skip \in Nat
<1>1. s[k] \in Statement
  BY ElementOfSeq
<1> QED BY <1>1 DEF Statement

\* The lines of a list joined to another: its own, then the other's, moved on.
LEMMA Shifted ==
    ASSUME NEW s \in Seq(Statement), NEW t \in Seq(Statement)
    PROVE  /\ s \o t \in Seq(Statement) /\ Len(s \o t) = Len(s) + Len(t)
           /\ \A k \in 1..Len(s) : (s \o t)[k] = s[k]
           /\ \A k \in 1..Len(t) : (s \o t)[Len(s) + k] = t[k]
<1>1. Len(s) \in Nat /\ Len(t) \in Nat
  OBVIOUS
<1>2. /\ s \o t \in Seq(Statement) /\ Len(s \o t) = Len(s) + Len(t)
      /\ \A k \in 1..(Len(s) + Len(t)) :
            (s \o t)[k] = IF k <= Len(s) THEN s[k] ELSE t[k - Len(s)]
  BY ConcatProperties
<1>3. \A k \in 1..Len(s) : (s \o t)[k] = s[k]
  BY <1>1, <1>2
<1>4. ASSUME NEW k \in 1..Len(t) PROVE (s \o t)[Len(s) + k] = t[k]
  <2>1. Len(s) + k \in 1..(Len(s) + Len(t)) /\ ~(Len(s) + k <= Len(s))
        /\ (Len(s) + k) - Len(s) = k
    BY <1>1
  <2> QED BY <1>2, <2>1
<1> QED BY <1>2, <1>3, <1>4

\* What a choice leaves out does not depend on where the list stands.
LEMMA SparedThere ==
    ASSUME NEW t, NEW u, NEW a \in Nat, NEW b \in Nat, Len(t) = b, Len(u) = a + b,
           \A k \in 1..b : u[a + k] = t[k],
           NEW x \in 1..b, NEW y \in 1..b, NEW n \in Nat, x + n <= b, Spared(t, x, n, y)
    PROVE  Spared(u, a + x, n, a + y)
<1>1. ASSUME NEW m \in 1..b, m > x + n, m < y, Moves(t[m])
      PROVE  \E k \in 1..(a + b) : k > (a + x) + n /\ k < a + y /\ Moves(u[k])
  <2>1. Moves(u[a + m])
    BY <1>1
  <2>2. a + m \in 1..(a + b)
    OBVIOUS
  <2>3. a + m > (a + x) + n
    BY <1>1
  <2>4. a + m < a + y
    BY <1>1
  <2> QED BY <2>1, <2>2, <2>3, <2>4
<1>2. ASSUME \A m \in x..(x + n) : ~Moves(t[m]), NEW k \in (a + x)..((a + x) + n)
      PROVE  ~Moves(u[k])
  <2>1. PICK m \in Int : k = a + m
    <3>1. k - a \in Int /\ k = a + (k - a)
      OBVIOUS
    <3> QED BY <3>1
  <2>2. m >= x
    BY <2>1
  <2>3. m <= x + n
    BY <2>1
  <2>4. m \in 1..b /\ m \in x..(x + n)
    BY <2>2, <2>3
  <2> QED BY <1>2, <2>1, <2>4
<1> QED BY <1>1, <1>2 DEF Spared

\* Two well-made lists make one: no measurement looks back beyond its own list, no
\* choice reaches beyond it.
LEMMA WellMadeTogether ==
    ASSUME NEW s, NEW t, WellMade(s), WellMade(t)
    PROVE  WellMade(s \o t)
<1>t. s \in Seq(Statement) /\ t \in Seq(Statement)
  BY DEF WellMade
<1> PICK u : u = s \o t
  OBVIOUS
<1> PICK a \in Nat : a = Len(s)
  BY <1>t
<1> PICK b \in Nat : b = Len(t)
  BY <1>t
<1>1. /\ u \in Seq(Statement) /\ Len(u) = a + b
      /\ \A k \in 1..a : u[k] = s[k]
      /\ \A k \in 1..b : u[a + k] = t[k]
  BY <1>t, Shifted
<1>2. \A k \in 1..(a + b) : k \in 1..a \/ (k - a \in 1..b /\ u[k] = t[k - a])
  <2> TAKE k \in 1..(a + b)
  <2>1. k \in 1..a \/ (k - a \in 1..b /\ a + (k - a) = k)
    OBVIOUS
  <2> QED BY <1>1, <2>1
<1>3. AllCommanded(u)
  <2> SUFFICES ASSUME NEW q \in 1..(a + b), u[q].op = "measure"
               PROVE  Commanded(u, q)
    BY <1>1 DEF AllCommanded
  <2>1. CASE q \in 1..a
    <3>1. PICK p \in 1..a : LastMove(s, p, q) /\ s[p].arg = s[q].arg
      BY <1>1, <2>1 DEF WellMade, AllCommanded, Commanded
    <3>2. \A m \in (p + 1)..(q - 1) : m \in 1..a
      BY <2>1, <3>1 DEF LastMove
    <3>3. LastMove(u, p, q)
      BY <1>1, <3>1, <3>2 DEF LastMove
    <3>4. p \in 1..(a + b)
      BY <3>1
    <3>5. p \in 1..Len(u) /\ u[p].arg = u[q].arg
      BY <1>1, <2>1, <3>1, <3>4
    <3> QED BY <3>3, <3>5 DEF Commanded
  <2>2. CASE q - a \in 1..b /\ u[q] = t[q - a]
    <3>1. PICK r \in 1..b : LastMove(t, r, q - a) /\ t[r].arg = t[q - a].arg
      BY <1>1, <2>2 DEF WellMade, AllCommanded, Commanded
    <3>2. PICK p \in 1..(a + b) : p = a + r
      OBVIOUS
    <3>3. \A m \in (p + 1)..(q - 1) : m - a \in (r + 1)..((q - a) - 1)
                                      /\ m - a \in 1..b /\ a + (m - a) = m
      BY <3>2, <2>2
    <3>5. \A m \in (p + 1)..(q - 1) : u[m] = t[m - a]
      BY <1>1, <3>3
    <3>6. u[p] = t[r] /\ p < q
      BY <1>1, <3>1, <3>2 DEF LastMove
    <3>4. LastMove(u, p, q)
      BY <3>1, <3>3, <3>5, <3>6 DEF LastMove
    <3>7. p \in 1..Len(u) /\ u[p].arg = u[q].arg
      BY <1>1, <2>2, <3>1, <3>6
    <3> QED BY <3>4, <3>7 DEF Commanded
  <2> QED BY <1>2, <2>1, <2>2
<1>4. Inside(u)
  <2> SUFFICES ASSUME NEW p \in 1..(a + b), u[p].op = "choose"
               PROVE  p + u[p].skip <= a + b
    BY <1>1 DEF Inside
  <2>1. CASE p \in 1..a
    <3>1. u[p] = s[p] /\ s[p].skip \in Nat
      BY <1>1, <1>t, <2>1, IsStatement
    <3>2. p + s[p].skip <= a
      BY <2>1, <3>1 DEF WellMade, Inside
    <3> PICK n \in Nat : n = s[p].skip
      BY <3>1
    <3> QED BY <3>1, <3>2
  <2>2. CASE p - a \in 1..b /\ u[p] = t[p - a]
    <3>1. t[p - a].skip \in Nat
      BY <1>t, <2>2, IsStatement
    <3>2. (p - a) + t[p - a].skip <= b
      BY <2>2 DEF WellMade, Inside
    <3> PICK n \in Nat : n = t[p - a].skip
      BY <3>1
    <3> QED BY <2>2, <3>2, SMTT(30)
  <2> QED BY <1>2, <2>1, <2>2
<1>5. Apart(u)
  <2> SUFFICES ASSUME NEW p \in 1..(a + b), NEW q \in 1..(a + b), u[p].op = "choose",
                      u[q].op = "measure", q > p + u[p].skip
               PROVE  Spared(u, p, u[p].skip, q)
    BY <1>1 DEF Apart
  <2> PICK n \in Nat : n = u[p].skip
    BY <1>1, IsStatement
  <2> SUFFICES \/ \E m \in 1..(a + b) : m > p + n /\ m < q /\ Moves(u[m])
               \/ \A m \in p..(p + n) : ~Moves(u[m])
    BY <1>1 DEF Spared
  <2>1. CASE p \in 1..a /\ q \in 1..a
    <3>1. n = s[p].skip /\ s[p].op = "choose" /\ s[q].op = "measure"
      BY <1>1, <2>1
    <3>2. \/ \E m \in 1..a : m > p + n /\ m < q /\ Moves(s[m])
          \/ \A m \in p..(p + n) : ~Moves(s[m])
      <4>1. Spared(s, p, n, q)
        BY <2>1, <3>1 DEF WellMade, Apart
      <4> QED BY <4>1 DEF Spared
    <3>3. ASSUME NEW m \in 1..a, m > p + n, m < q, Moves(s[m])
          PROVE  m \in 1..(a + b) /\ Moves(u[m])
      BY <1>1, <3>3 DEF Moves
    <3>4. \A m \in p..(p + n) : m \in 1..a
      BY <2>1
    <3>5. (\A m \in p..(p + n) : ~Moves(s[m])) => \A m \in p..(p + n) : ~Moves(u[m])
      BY <1>1, <3>4 DEF Moves
    <3> QED BY <3>2, <3>3, <3>5
  <2>0. \A k \in 1..(a + b) : k \in 1..a \/ \E j \in 1..b : k = a + j
    <3> TAKE k \in 1..(a + b)
    <3>1. k \in 1..a \/ (k - a \in 1..b /\ k = a + (k - a))
      OBVIOUS
    <3> QED BY <3>1
  <2>2. ASSUME p \in 1..a, NEW y \in 1..b, q = a + y
        PROVE  \E m \in 1..(a + b) : m > p + n /\ m < q /\ Moves(u[m])
    <3>1. PICK r \in 1..b : LastMove(t, r, y)
      BY <1>1, <2>2 DEF WellMade, AllCommanded, Commanded
    <3>2. p + n <= a
      <4>1. n = s[p].skip /\ s[p].op = "choose"
        BY <1>1, <2>2
      <4> QED BY <2>2, <4>1 DEF WellMade, Inside
    <3>3. a + r \in 1..(a + b) /\ a + r > p + n
      BY <3>2, SMTT(30)
    <3>4. r < y /\ Moves(t[r])
      BY <3>1 DEF LastMove
    <3>5. a + r < a + y
      BY <3>4
    <3>6. Moves(u[a + r])
      BY <1>1, <3>4
    <3> QED BY <2>2, <3>3, <3>5, <3>6
  <2>3. ASSUME NEW x \in 1..b, p = a + x, NEW y \in 1..b, q = a + y
        PROVE  Spared(u, p, n, q)
    <3>1. u[p] = t[x] /\ u[q] = t[y]
      BY <1>1, <2>3
    <3>2. n = t[x].skip /\ t[x].op = "choose" /\ t[y].op = "measure"
      BY <3>1
    <3>3. a + y > (a + x) + n
      BY <2>3
    <3>4. y > x + n
      BY <3>3, SMTT(30)
    <3>5. Spared(t, x, n, y) /\ x + n <= b
      BY <3>2, <3>4 DEF WellMade, Apart, Inside
    <3>6. Spared(u, a + x, n, a + y)
      BY <1>1, <3>5, SparedThere
    <3> QED BY <2>3, <3>6
  <2>4. ASSUME NEW x \in 1..b, p = a + x, q \in 1..a PROVE FALSE
    <3>1. q > p
      BY SMTT(30)
    <3> QED BY <2>4, <3>1
  <2>5. CASE p \in 1..a
    BY <2>0, <2>1, <2>2, <2>5
  <2>6. CASE p \notin 1..a
    <3>1. Spared(u, p, n, q)
      BY <2>0, <2>3, <2>4, <2>6
    <3> QED BY <1>1, <3>1 DEF Spared
  <2> QED BY <2>5, <2>6
<1> QED BY <1>1, <1>3, <1>4, <1>5 DEF WellMade

\* One statement that neither measures nor leaves others out.
LEMMA SingleStep ==
    ASSUME NEW op \in Operations, NEW arg \in StepArguments
    PROVE  /\ W!Step(op, arg) \in Seq(Statement) /\ Len(W!Step(op, arg)) = 1
           /\ W!Step(op, arg)[1] = [op |-> op, arg |-> arg, skip |-> 0]
           /\ op \notin {"measure", "choose"} => WellMade(W!Step(op, arg))
           /\ op \notin {"measure", "choose", "door", "goto"} => Plain(W!Step(op, arg))
<1> PICK e : e = [op |-> op, arg |-> arg, skip |-> 0]
  OBVIOUS
<1>1. e \in Statement /\ e.op = op
  BY DEF Statement
<1> PICK s : s = <<e>>
  OBVIOUS
<1>2. s \in Seq(Statement) /\ Len(s) = 1 /\ s[1] = e /\ s = W!Step(op, arg)
  BY <1>1 DEF W!Step
<1>3. \A k \in 1..1 : k = 1
  OBVIOUS
<1>4. ASSUME op \notin {"measure", "choose"} PROVE WellMade(s)
  BY <1>1, <1>2, <1>3, <1>4 DEF WellMade, AllCommanded, Inside, Apart
<1>5. ASSUME op \notin {"measure", "choose", "door", "goto"} PROVE Plain(s)
  BY <1>1, <1>2, <1>3, <1>5 DEF Plain
<1> QED BY <1>2, <1>4, <1>5

\* No statement at all (an offer that does nothing).
LEMMA EmptyWellMade == WellMade(<<>>)
BY DEF WellMade, AllCommanded, Inside, Apart

\* Lists without commands, measurements and choices.
LEMMA PlainTogether ==
    ASSUME NEW s, NEW t, Plain(s), Plain(t)
    PROVE  Plain(s \o t)
<1>t. s \in Seq(Statement) /\ t \in Seq(Statement)
  BY DEF Plain
<1> PICK u : u = s \o t
  OBVIOUS
<1> PICK a \in Nat : a = Len(s)
  BY <1>t
<1> PICK b \in Nat : b = Len(t)
  BY <1>t
<1>1. /\ u \in Seq(Statement) /\ Len(u) = a + b
      /\ \A k \in 1..a : u[k] = s[k]
      /\ \A k \in 1..b : u[a + k] = t[k]
  BY <1>t, Shifted
<1>2. \A k \in 1..(a + b) : k \in 1..a \/ (k - a \in 1..b /\ u[k] = t[k - a])
  <2> TAKE k \in 1..(a + b)
  <2>1. k \in 1..a \/ (k - a \in 1..b /\ a + (k - a) = k)
    OBVIOUS
  <2> QED BY <1>1, <2>1
<1> QED BY <1>1, <1>2 DEF Plain

\* They are well made.
LEMMA PlainWellMade ==
    ASSUME NEW s, Plain(s) PROVE WellMade(s)
BY DEF Plain, WellMade, AllCommanded, Inside, Apart

\* A choice whether to do a list of statements.
LEMMA WellMadeOptional ==
    ASSUME NEW s, WellMade(s) PROVE WellMade(W!Optional(s))
<1>t. s \in Seq(Statement)
  BY DEF WellMade
<1> PICK b \in Nat : b = Len(s)
  BY <1>t
<1> PICK e : e = [op |-> "choose", arg |-> "none", skip |-> b]
  OBVIOUS
<1> PICK u : u = W!Optional(s)
  OBVIOUS
<1>0. e \in Statement /\ e.op = "choose" /\ e.skip = b
  <2>1. e \in Statement
    BY DEF Statement, Operations, StepArguments
  <2>2. e.op = "choose" /\ e.skip = b
    OBVIOUS
  <2> QED BY <2>1, <2>2
<1>1. /\ u \in Seq(Statement) /\ Len(u) = 1 + b /\ u[1] = e
      /\ \A k \in 1..b : u[1 + k] = s[k]
  <2>1. u = <<e>> \o s
    BY DEF W!Optional
  <2> PICK d : d = <<e>>
    OBVIOUS
  <2>2. d \in Seq(Statement) /\ Len(d) = 1 /\ d[1] = e
    BY <1>0
  <2>3. d \o s \in Seq(Statement) /\ Len(d \o s) = Len(d) + Len(s)
        /\ (\A k \in 1..Len(d) : (d \o s)[k] = d[k])
        /\ (\A k \in 1..Len(s) : (d \o s)[Len(d) + k] = s[k])
    BY <1>t, <2>2, Shifted
  <2> QED BY <2>1, <2>2, <2>3
<1>2. \A k \in 1..(1 + b) : k = 1 \/ (k - 1 \in 1..b /\ u[k] = s[k - 1])
  <2> TAKE k \in 1..(1 + b)
  <2>1. k = 1 \/ (k - 1 \in 1..b /\ 1 + (k - 1) = k)
    OBVIOUS
  <2> QED BY <1>1, <2>1
<1>3. AllCommanded(u)
  <2> SUFFICES ASSUME NEW q \in 1..(1 + b), u[q].op = "measure"
               PROVE  Commanded(u, q)
    BY <1>1 DEF AllCommanded
  <2>2. q - 1 \in 1..b /\ u[q] = s[q - 1]
    BY <1>0, <1>1, <1>2
  <2>3. PICK r \in 1..b : LastMove(s, r, q - 1) /\ s[r].arg = s[q - 1].arg
    BY <2>2 DEF WellMade, AllCommanded, Commanded
  <2>4. PICK p \in 1..(1 + b) : p = 1 + r
    OBVIOUS
  <2>5. \A m \in (p + 1)..(q - 1) : m - 1 \in (r + 1)..((q - 1) - 1)
                                    /\ m - 1 \in 1..b /\ 1 + (m - 1) = m
    BY <2>4, <2>2
  <2>6. \A m \in (p + 1)..(q - 1) : u[m] = s[m - 1]
    BY <1>1, <2>5
  <2>7. u[p] = s[r] /\ p < q
    BY <1>1, <2>3, <2>4 DEF LastMove
  <2>8. LastMove(u, p, q)
    BY <2>3, <2>5, <2>6, <2>7 DEF LastMove
  <2>9. p \in 1..Len(u) /\ u[p].arg = u[q].arg
    BY <1>1, <2>2, <2>3, <2>7
  <2> QED BY <2>8, <2>9 DEF Commanded
<1>4. Inside(u)
  <2> SUFFICES ASSUME NEW p \in 1..(1 + b), u[p].op = "choose"
               PROVE  p + u[p].skip <= 1 + b
    BY <1>1 DEF Inside
  <2>1. CASE p = 1
    BY <1>0, <1>1, <2>1
  <2>2. CASE p - 1 \in 1..b /\ u[p] = s[p - 1]
    <3>1. s[p - 1].skip \in Nat
      BY <1>t, <2>2, IsStatement
    <3>2. (p - 1) + s[p - 1].skip <= b
      BY <2>2 DEF WellMade, Inside
    <3> PICK n \in Nat : n = s[p - 1].skip
      BY <3>1
    <3> QED BY <2>2, <3>2
  <2> QED BY <1>2, <2>1, <2>2
<1>5. Apart(u)
  <2> SUFFICES ASSUME NEW p \in 1..(1 + b), NEW q \in 1..(1 + b), u[p].op = "choose",
                      u[q].op = "measure", q > p + u[p].skip
               PROVE  Spared(u, p, u[p].skip, q)
    BY <1>1 DEF Apart
  <2> PICK n \in Nat : n = u[p].skip
    BY <1>1, IsStatement
  <2>1. p # 1 /\ q # 1
    BY <1>0, <1>1
  <2>2. PICK x \in 1..b : x = p - 1 /\ u[p] = s[x]
    BY <1>2, <2>1
  <2>3. PICK y \in 1..b : y = q - 1 /\ u[q] = s[y]
    BY <1>2, <2>1
  <2>4. n = s[x].skip /\ s[x].op = "choose" /\ s[y].op = "measure"
    BY <2>2, <2>3
  <2>5. y > x + n /\ p = 1 + x /\ q = 1 + y
    BY <2>2, <2>3
  <2>6. Spared(s, x, n, y) /\ x + n <= b
    BY <2>4, <2>5 DEF WellMade, Apart, Inside
  <2>7. Spared(u, 1 + x, n, 1 + y)
    BY <1>1, <2>6, SparedThere
  <2> QED BY <2>5, <2>7
<1> QED BY <1>1, <1>3, <1>4, <1>5 DEF WellMade

\* A command and, whatever is asked and written down between, its measurement.
LEMMA WellMadeUnit ==
    ASSUME NEW x, Plain(x), NEW op \in {"door", "goto"}, NEW c \in StepArguments
    PROVE  WellMade((W!Step(op, c) \o x) \o W!Step("measure", c))
<1>t. x \in Seq(Statement)
  BY DEF Plain
<1> PICK a \in Nat : a = Len(x)
  BY <1>t
<1> PICK h : h = W!Step(op, c)
  OBVIOUS
<1> PICK l : l = W!Step("measure", c)
  OBVIOUS
<1> PICK v : v = h \o x
  OBVIOUS
<1> PICK u : u = v \o l
  OBVIOUS
<1>1. h \in Seq(Statement) /\ Len(h) = 1 /\ Moves(h[1]) /\ h[1].arg = c
      /\ h[1].op \notin {"measure", "choose"}
  <2>1. h \in Seq(Statement) /\ Len(h) = 1 /\ h[1] = [op |-> op, arg |-> c, skip |-> 0]
    BY SingleStep, ZenonT(60) DEF Operations, StepArguments
  <2> QED BY <2>1 DEF Moves
<1>2. l \in Seq(Statement) /\ Len(l) = 1 /\ l[1].op = "measure" /\ l[1].arg = c
  <2>1. l \in Seq(Statement) /\ Len(l) = 1 /\ l[1] = [op |-> "measure", arg |-> c, skip |-> 0]
    BY SingleStep DEF Operations, StepArguments
  <2> QED BY <2>1
<1>3. /\ v \in Seq(Statement) /\ Len(v) = 1 + a
      /\ v[1] = h[1]
      /\ \A k \in 1..a : v[1 + k] = x[k]
  <2>1. h \o x \in Seq(Statement) /\ Len(h \o x) = Len(h) + Len(x)
        /\ (\A k \in 1..Len(h) : (h \o x)[k] = h[k])
        /\ (\A k \in 1..Len(x) : (h \o x)[Len(h) + k] = x[k])
    BY <1>1, <1>t, Shifted, ZenonT(60)
  <2> QED BY <1>1, <2>1
<1>4. /\ u \in Seq(Statement) /\ Len(u) = a + 2
      /\ \A k \in 1..(1 + a) : u[k] = v[k]
      /\ u[a + 2] = l[1]
  <2>1. v \o l \in Seq(Statement) /\ Len(v \o l) = Len(v) + Len(l)
        /\ (\A k \in 1..Len(v) : (v \o l)[k] = v[k])
        /\ (\A k \in 1..Len(l) : (v \o l)[Len(v) + k] = l[k])
    BY <1>2, <1>3, Shifted, ZenonT(60)
  <2>2. (1 + a) + 1 = a + 2 /\ 1 \in 1..1
    OBVIOUS
  <2>3. Len(u) = a + 2 /\ u \in Seq(Statement)
    BY <1>2, <1>3, <2>1, <2>2, ZenonT(60)
  <2>4. \A k \in 1..(1 + a) : u[k] = v[k]
    BY <1>3, <2>1
  <2>5. u[(1 + a) + 1] = l[1]
    BY <1>2, <1>3, <2>1, <2>2
  <2> QED BY <2>2, <2>3, <2>4, <2>5
<1>5. u[1] = h[1] /\ u[a + 2].op = "measure" /\ u[a + 2].arg = c
  BY <1>2, <1>3, <1>4
<1>6. ASSUME NEW k \in 2..(a + 1)
      PROVE  u[k].op \notin {"door", "goto", "measure", "choose"}
  <2>1. k \in 1..(1 + a) /\ k - 1 \in 1..a /\ 1 + (k - 1) = k
    OBVIOUS
  <2>2. u[k] = x[k - 1]
    BY <1>3, <1>4, <2>1
  <2> QED BY <2>1, <2>2 DEF Plain
<1>7. \A k \in 1..(a + 2) : k = 1 \/ k \in 2..(a + 1) \/ k = a + 2
  OBVIOUS
<1>8. \A q \in 1..(a + 2) : u[q].op # "choose"
  BY <1>1, <1>5, <1>6, <1>7, ZenonT(60)
<1>9. AllCommanded(u)
  <2>1. \A q \in 1..(a + 2) : u[q].op = "measure" => q = a + 2
    BY <1>1, <1>5, <1>6, <1>7
  <2>2. \A m \in 2..(a + 1) : ~Moves(u[m])
    BY <1>6 DEF Moves
  <2>3. (a + 2) - 1 = a + 1 /\ 1 + 1 = 2 /\ 1 < a + 2 /\ 1 \in 1..(a + 2)
    OBVIOUS
  <2>4. LastMove(u, 1, a + 2)
    BY <1>1, <1>5, <2>2, <2>3 DEF LastMove
  <2>5. u[1].arg = u[a + 2].arg
    BY <1>1, <1>5
  <2> SUFFICES ASSUME NEW q \in 1..Len(u), u[q].op = "measure"
               PROVE  Commanded(u, q)
    BY DEF AllCommanded
  <2>6. q = a + 2 /\ 1 \in 1..Len(u)
    <3>1. Len(u) = a + 2
      BY <1>4
    <3> QED BY <2>1, <2>3, <3>1
  <2> QED BY <2>4, <2>5, <2>6 DEF Commanded
<1> QED BY <1>4, <1>8, <1>9 DEF WellMade, Inside, Apart

\* A prompt.
LEMMA AskPlain == Plain(W!Ask) /\ WellMade(W!Ask)
BY SingleStep, PlainWellMade DEF W!Ask, Operations, StepArguments

\* A snapshot: two requests and an event.
LEMMA SnapshotPlain == Plain(W!Snapshot) /\ WellMade(W!Snapshot)
<1>1. Plain(W!Step("esp", "stats")) /\ Plain(W!Step("esp", "status"))
      /\ Plain(W!Step("save", "none"))
  BY SingleStep DEF Operations, StepArguments
<1>2. Plain(W!Snapshot)
  BY <1>1, PlainTogether DEF W!Snapshot
<1> QED BY <1>2, PlainWellMade

\* A command with what follows it, and that with its measurement.
LEMMA MovedWellMade ==
    ASSUME NEW c \in StepArguments
    PROVE  /\ WellMade(W!Moved(c))
           /\ WellMade(W!Moved(c) \o W!Step("measure", c))
<1>1. Plain(W!Ask \o W!Snapshot)
  BY AskPlain, SnapshotPlain, PlainTogether
<1>2. W!Step("door", c) \in Seq(Statement) /\ WellMade(W!Step("door", c))
  BY SingleStep DEF Operations, StepArguments
<1>3. W!Moved(c) = W!Step("door", c) \o (W!Ask \o W!Snapshot)
  BY <1>2, AskPlain, SnapshotPlain, ConcatAssociative, SMTT(60) DEF W!Moved, Plain
<1>4. WellMade(W!Ask \o W!Snapshot)
  BY <1>1, PlainWellMade
<1>5. WellMade(W!Moved(c))
  BY <1>2, <1>3, <1>4, WellMadeTogether
<1>6. WellMade(W!Moved(c) \o W!Step("measure", c))
  <2> PICK x : x = W!Ask \o W!Snapshot
    OBVIOUS
  <2>1. WellMade((W!Step("door", c) \o x) \o W!Step("measure", c))
    BY <1>1, WellMadeUnit
  <2> QED BY <1>3, <2>1
<1> QED BY <1>5, <1>6

\* The same after any well-made list.
LEMMA MeasuredWellMade ==
    ASSUME NEW s, WellMade(s), NEW c \in StepArguments
    PROVE  WellMade((s \o W!Moved(c)) \o W!Step("measure", c))
<1>1. WellMade(W!Moved(c)) /\ WellMade(W!Moved(c) \o W!Step("measure", c))
  BY MovedWellMade
<1>2. W!Step("measure", c) \in Seq(Statement)
  BY SingleStep DEF Operations, StepArguments
<1>3. (s \o W!Moved(c)) \o W!Step("measure", c) = s \o (W!Moved(c) \o W!Step("measure", c))
  BY <1>1, <1>2, ConcatAssociative, SMTT(60) DEF WellMade
<1> QED BY <1>1, <1>3, WellMadeTogether

\* The single statements of the script.
LEMMA SingleStatement ==
    /\ WellMade(W!Step("esp", "stats")) /\ WellMade(W!Step("esp", "clear"))
    /\ WellMade(W!Step("esp", "start")) /\ WellMade(W!Step("page", "format"))
    /\ WellMade(W!Step("door", "open")) /\ WellMade(W!Step("door", "close"))
    /\ WellMade(W!Step("light", "none")) /\ WellMade(W!Step("save", "none"))
BY SingleStep DEF Operations, StepArguments

\* The blocks of the script, one by one.
LEMMA PreflightWellMade == WellMade(W!Preflight)
BY SnapshotPlain, AskPlain, SingleStatement, WellMadeTogether DEF W!Preflight

\* The start of the recording (start_recording).
LEMMA StartRecordingWellMade == WellMade(W!StartRecording)
<1>1. WellMade(W!Optional(W!Step("page", "format")))
  BY SingleStatement, WellMadeOptional
<1> QED BY <1>1, SingleStatement, WellMadeTogether DEF W!StartRecording

\* The full travels (run_full_travel_calibration).
LEMMA FullTravelWellMade == WellMade(W!FullTravel)
<1> PICK x : x = (W!Ask \o W!Snapshot) \o W!Ask
  OBVIOUS
<1>1. WellMade(x)
  BY AskPlain, SnapshotPlain, WellMadeTogether
<1> PICK y : y = (x \o W!Moved("open")) \o W!Step("measure", "open")
  OBVIOUS
<1>2. WellMade(y)
  BY <1>1, MeasuredWellMade DEF StepArguments
<1> PICK z : z = y \o W!Ask
  OBVIOUS
<1>3. WellMade(z)
  BY <1>2, AskPlain, WellMadeTogether
<1>4. WellMade((z \o W!Moved("close")) \o W!Step("measure", "close"))
  BY <1>3, MeasuredWellMade DEF StepArguments
<1> QED BY <1>4 DEF W!FullTravel

\* The stop test, which may be left out and may leave out its last command
\* (run_stop_test).
LEMMA StopTestWellMade == WellMade(W!StopTest)
<1> PICK x : x = (W!Ask \o W!Step("door", "open")) \o W!Ask
  OBVIOUS
<1>1. WellMade(x)
  BY AskPlain, SingleStatement, WellMadeTogether
<1> PICK y : y = (x \o W!Moved("stop")) \o W!Step("measure", "stop")
  OBVIOUS
<1>2. WellMade(y)
  BY <1>1, MeasuredWellMade DEF StepArguments
<1>3. WellMade(W!Optional(W!Moved("open")))
  BY MovedWellMade, WellMadeOptional DEF StepArguments
<1>4. WellMade(y \o W!Optional(W!Moved("open")))
  BY <1>2, <1>3, WellMadeTogether
<1> QED BY <1>4, WellMadeOptional DEF W!StopTest

\* The light (run_light_test).
LEMMA LightTestWellMade == WellMade(W!LightTest)
<1>1. WellMade(W!Optional(<<>>))
  BY EmptyWellMade, WellMadeOptional
<1>2. WellMade(W!Step("light", "none") \o W!Ask \o W!Snapshot)
  BY SingleStatement, AskPlain, SnapshotPlain, WellMadeTogether
<1>3. WellMade(W!Optional(W!Step("light", "none") \o W!Ask \o W!Snapshot))
  BY <1>2, WellMadeOptional
<1> PICK x : x = W!Optional(<<>>)
  OBVIOUS
<1> PICK y : y = W!Optional(W!Step("light", "none") \o W!Ask \o W!Snapshot)
  OBVIOUS
<1>4. WellMade(W!Step("light", "none") \o x \o W!Step("save", "none") \o W!Snapshot \o y)
  BY <1>1, <1>3, SingleStatement, SnapshotPlain, WellMadeTogether
<1> QED BY <1>4, WellMadeOptional DEF W!LightTest

\* The obstruction (run_obstruction_test).
LEMMA ObstructionTestWellMade == WellMade(W!ObstructionTest)
<1> PICK y : y = W!Optional(W!Moved("open"))
  OBVIOUS
<1>1. WellMade(y)
  BY MovedWellMade, WellMadeOptional DEF StepArguments
<1>2. WellMade(W!Ask \o W!Step("door", "close") \o W!Ask \o W!Snapshot
               \o W!Step("save", "none") \o y)
  BY <1>1, SingleStatement, AskPlain, SnapshotPlain, WellMadeTogether
<1> QED BY <1>2, WellMadeOptional DEF W!ObstructionTest

\* The sequences of a sequence, one after the other (FlattenSeq): the running
\* concatenation exists and is well made, by the least place where it is not.
Joined(lists, n, f) ==
    f = [k \in 1..n |-> IF k = 1 THEN lists[k] ELSE f[k - 1] \o lists[k]]

\* It exists: a least list that has none would follow one that has.
LEMMA CanBeJoined ==
    ASSUME NEW lists, NEW n \in Nat
    PROVE  \E f : Joined(lists, n, f)
<1> DEFINE Bad == {k \in Nat : ~\E f : Joined(lists, k, f)}
<1> SUFFICES ASSUME Bad # {} PROVE FALSE
  OBVIOUS
<1>1. PICK m \in Bad : \A k \in Bad : m <= k
  BY Least
<1>2. CASE m = 0
  <2>1. Joined(lists, 0, [k \in 1..0 |-> k])
    BY DEF Joined
  <2> QED BY <1>2, <2>1
<1>3. CASE m # 0
  <2>1. m - 1 \in Nat /\ m - 1 \notin Bad
    BY <1>1, <1>3
  <2>2. PICK f : Joined(lists, m - 1, f)
    BY <2>1
  <2> PICK g : g = [k \in 1..m |-> IF k < m THEN f[k]
                                   ELSE IF k = 1 THEN lists[k] ELSE f[k - 1] \o lists[k]]
    OBVIOUS
  <2>3. ASSUME NEW k \in 1..m
        PROVE  g[k] = IF k = 1 THEN lists[k] ELSE g[k - 1] \o lists[k]
    <3>1. CASE k < m
      <4>1. k \in 1..(m - 1) /\ g[k] = f[k]
        BY <3>1, SMTT(60)
      <4>2. f[k] = IF k = 1 THEN lists[k] ELSE f[k - 1] \o lists[k]
        BY <2>2, <4>1 DEF Joined
      <4>3. k # 1 => g[k - 1] = f[k - 1]
        BY <3>1
      <4> QED BY <4>1, <4>2, <4>3
    <3>2. CASE k = m /\ k # 1
      <4>1. g[k - 1] = f[k - 1]
        <5>1. k - 1 \in 1..m /\ k - 1 < m
          BY <1>1, <3>2
        <5> QED BY <5>1
      <4>2. g[k] = f[k - 1] \o lists[k]
        <5>1. ~(k < m) /\ k # 1
          BY <3>2
        <5> QED BY <5>1
      <4> QED BY <3>2, <4>1, <4>2
    <3>3. CASE k = m /\ k = 1
      BY <3>3
    <3> QED BY <3>1, <3>2, <3>3
  <2>4. g = [k \in 1..m |-> IF k = 1 THEN lists[k] ELSE g[k - 1] \o lists[k]]
    BY <2>3, ZenonT(60)
  <2>5. Joined(lists, m, g)
    BY <2>4 DEF Joined
  <2> QED BY <2>5
<1> QED BY <1>2, <1>3

\* It is well made: so is the least prefix that would not be.
LEMMA JoinedWellMade ==
    ASSUME NEW lists, NEW n \in Nat, \A k \in 1..n : WellMade(lists[k]),
           NEW f, Joined(lists, n, f)
    PROVE  \A k \in 1..n : WellMade(f[k])
<1> DEFINE Bad == {k \in 1..n : ~WellMade(f[k])}
<1> SUFFICES ASSUME Bad # {} PROVE FALSE
  OBVIOUS
<1>1. PICK m \in Bad : \A k \in Bad : m <= k
  <2>1. Bad \subseteq Nat
    OBVIOUS
  <2> QED BY <2>1, Least
<1>2. f[m] = IF m = 1 THEN lists[m] ELSE f[m - 1] \o lists[m]
  BY DEF Joined
<1>3. m # 1
  BY <1>2
<1>4. m - 1 \in 1..n /\ m - 1 \notin Bad
  BY <1>1, <1>3
<1>5. WellMade(f[m])
  BY <1>2, <1>3, <1>4, WellMadeTogether
<1> QED BY <1>5

\* So a sequence of well-made lists is well made when it is flattened.
LEMMA FlatWellMade ==
    ASSUME NEW S, NEW lists \in Seq(S), \A k \in 1..Len(lists) : WellMade(lists[k])
    PROVE  WellMade(W!FlattenSeq(lists))
<1>1. CASE Len(lists) = 0
  BY <1>1, EmptyWellMade DEF W!FlattenSeq
<1>2. CASE Len(lists) # 0
  <2> DEFINE joined == CHOOSE f : f = [k \in 1..Len(lists) |->
                            IF k = 1 THEN lists[k] ELSE f[k - 1] \o lists[k]]
  <2>1. Joined(lists, Len(lists), joined)
    <3>1. Len(lists) \in Nat
      OBVIOUS
    <3>2. \E f : Joined(lists, Len(lists), f)
      BY <3>1, CanBeJoined
    <3>3. Joined(lists, Len(lists), CHOOSE f : Joined(lists, Len(lists), f))
      BY <3>2, Zenon
    <3> QED BY <3>3, Zenon DEF Joined
  <2>2. WellMade(joined[Len(lists)])
    BY <1>2, <2>1, JoinedWellMade
  <2> QED BY <1>2, <2>2 DEF W!FlattenSeq
<1> QED BY <1>1, <1>2

\* The order of joining does not matter.
LEMMA Grouped ==
    ASSUME NEW a \in Seq(Statement), NEW b \in Seq(Statement), NEW c \in Seq(Statement)
    PROVE  (a \o b) \o c = a \o (b \o c) /\ a \o b \in Seq(Statement)
BY ConcatAssociative, Shifted, SMTT(60)

\* The statements of one target position, as they stand.
LEMMA AskedTwice ==
    ASSUME NEW a, NEW g \in Seq(Statement), NEW b, NEW l \in Seq(Statement),
           Plain(a), Plain(b), WellMade((g \o (a \o b)) \o l)
    PROVE  WellMade((((a \o g) \o a) \o b) \o l)
<1>0. a \in Seq(Statement) /\ b \in Seq(Statement)
  BY DEF Plain
<1>1. PICK h \in Seq(Statement) : h = g \o a
  BY <1>0, Grouped
<1>2. PICK y \in Seq(Statement) : y = h \o b
  BY <1>0, Grouped
<1>3. (a \o g) \o a = a \o h
  BY <1>0, <1>1, Grouped, SMTT(30)
<1>4. (a \o h) \o b = a \o y
  BY <1>0, <1>2, Grouped, SMTT(30)
<1>5. y = g \o (a \o b)
  BY <1>0, <1>1, <1>2, Grouped, SMTT(30)
<1>6. (a \o y) \o l = a \o (y \o l)
  BY <1>0, Grouped, SMTT(30)
<1>7. WellMade(y \o l)
  BY <1>5
<1>8. WellMade(a \o (y \o l))
  BY <1>7, PlainWellMade, WellMadeTogether
<1>9. (((a \o g) \o a) \o b) \o l = a \o (y \o l)
  BY <1>3, <1>4, <1>6
<1> QED BY <1>8, <1>9

\* The target positions, as many as there are (run_position_tests).
LEMMA PositionTestsWellMade ==
    ASSUME W!WizardConstants PROVE WellMade(W!PositionTests)
<1> DEFINE lists == [i \in DOMAIN Targets |->
        W!Ask \o W!Step("goto", Targets[i]) \o W!Ask \o W!Snapshot
            \o W!Step("measure", Targets[i])]
<1>1. Len(Targets) \in Nat /\ DOMAIN Targets = 1..Len(Targets)
  BY DEF W!WizardConstants
<1>2. ASSUME NEW i \in DOMAIN Targets PROVE WellMade(lists[i])
  <2>1. Targets[i] \in StepArguments
    BY DEF StepArguments
  <2>2. Plain(W!Ask) /\ Plain(W!Snapshot) /\ Plain(W!Ask \o W!Snapshot)
    BY AskPlain, SnapshotPlain, PlainTogether
  <2>3. /\ W!Step("goto", Targets[i]) \in Seq(Statement)
        /\ W!Step("measure", Targets[i]) \in Seq(Statement)
    BY <2>1, SingleStep DEF Operations
  <2>4. WellMade((W!Step("goto", Targets[i]) \o (W!Ask \o W!Snapshot))
                     \o W!Step("measure", Targets[i]))
    BY <2>1, <2>2, WellMadeUnit
  <2> QED BY <2>2, <2>3, <2>4, AskedTwice
<1>3. lists \in Seq(Seq(Statement))
  <2>1. \A i \in DOMAIN Targets : lists[i] \in Seq(Statement)
    BY <1>2 DEF WellMade
  <2> QED BY <1>1, <2>1, IsASeq
<1>4. Len(lists) = Len(Targets)
  BY <1>1, <1>3
<1>5. WellMade(W!FlattenSeq(lists))
  <2> HIDE DEF lists
  <2> QED BY <1>1, <1>2, <1>3, <1>4, FlatWellMade
<1> QED BY <1>5 DEF W!PositionTests

\* The session without its end, which is the list an interrupt starts again.
Body == W!Preflight \o W!StartRecording \o W!FullTravel \o W!StopTest
            \o W!PositionTests \o W!LightTest \o W!ObstructionTest

\* All of them together.
LEMMA BodyWellMade == ASSUME W!WizardConstants PROVE WellMade(Body)
BY PreflightWellMade, StartRecordingWellMade, FullTravelWellMade, StopTestWellMade,
   PositionTestsWellMade, LightTestWellMade, ObstructionTestWellMade, WellMadeTogether
   DEF Body

\* The end of the session: the stop first, no start (finish).
LEMMA FinishLines ==
    /\ W!Finish \in Seq(Statement) /\ Len(W!Finish) = 4
    /\ W!Finish[1].op = "esp" /\ W!Finish[1].arg = "stop"
    /\ W!Finish[2].op = "page" /\ W!Finish[2].arg = "stats"
    /\ W!Finish[3].op = "page" /\ W!Finish[3].arg = "log"
    /\ W!Finish[4].op = "save"
    /\ Plain(W!Finish)
<1>1. /\ Plain(W!Step("esp", "stop")) /\ Plain(W!Step("page", "stats"))
      /\ Plain(W!Step("page", "log")) /\ Plain(W!Step("save", "none"))
  BY SingleStep DEF Operations, StepArguments
<1>2. Plain(W!Finish)
  BY <1>1, PlainTogether DEF W!Finish
<1> PICK a : a = W!Step("esp", "stop")
  OBVIOUS
<1> PICK b : b = W!Step("page", "stats")
  OBVIOUS
<1> PICK c : c = W!Step("page", "log")
  OBVIOUS
<1> PICK d : d = W!Step("save", "none")
  OBVIOUS
<1>3. /\ a \in Seq(Statement) /\ Len(a) = 1 /\ a[1].op = "esp" /\ a[1].arg = "stop"
      /\ b \in Seq(Statement) /\ Len(b) = 1 /\ b[1].op = "page" /\ b[1].arg = "stats"
      /\ c \in Seq(Statement) /\ Len(c) = 1 /\ c[1].op = "page" /\ c[1].arg = "log"
      /\ d \in Seq(Statement) /\ Len(d) = 1 /\ d[1].op = "save"
  <2>1. a \in Seq(Statement) /\ Len(a) = 1 /\ a[1] = [op |-> "esp", arg |-> "stop", skip |-> 0]
    BY SingleStep DEF Operations, StepArguments
  <2>2. b \in Seq(Statement) /\ Len(b) = 1 /\ b[1] = [op |-> "page", arg |-> "stats", skip |-> 0]
    BY SingleStep DEF Operations, StepArguments
  <2>3. c \in Seq(Statement) /\ Len(c) = 1 /\ c[1] = [op |-> "page", arg |-> "log", skip |-> 0]
    BY SingleStep DEF Operations, StepArguments
  <2>4. d \in Seq(Statement) /\ Len(d) = 1 /\ d[1] = [op |-> "save", arg |-> "none", skip |-> 0]
    BY SingleStep DEF Operations, StepArguments
  <2> QED BY <2>1, <2>2, <2>3, <2>4
<1> PICK p : p = a \o b
  OBVIOUS
<1>4. p \in Seq(Statement) /\ Len(p) = 2 /\ p[1] = a[1] /\ p[2] = b[1]
  BY <1>3, Shifted
<1> PICK q : q = p \o c
  OBVIOUS
<1>5. q \in Seq(Statement) /\ Len(q) = 3 /\ q[1] = a[1] /\ q[2] = b[1] /\ q[3] = c[1]
  BY <1>3, <1>4, Shifted
<1> PICK r : r = q \o d
  OBVIOUS
<1>6. /\ r \in Seq(Statement) /\ Len(r) = 4
      /\ r[1] = a[1] /\ r[2] = b[1] /\ r[3] = c[1] /\ r[4] = d[1]
  BY <1>3, <1>5, Shifted
<1>7. W!Finish = r
  BY DEF W!Finish
<1> QED BY <1>2, <1>3, <1>6, <1>7

\* The lines of the session.
LEMMA ScriptLines ==
    ASSUME W!WizardConstants
    PROVE  /\ WellMade(W!Script) /\ Len(W!Script) = Len(Body) + 4
           /\ Body \in Seq(Statement)
           /\ \A k \in 1..Len(Body) : W!Script[k] = Body[k]
           /\ \A k \in 1..4 : W!Script[Len(Body) + k] = W!Finish[k]
           /\ \A p \in 1..Len(Body) : W!Script[p].op = "choose" =>
                  p + W!Script[p].skip <= Len(Body)
<1>1. W!Script = Body \o W!Finish
  BY DEF W!Script, Body
<1>2. WellMade(Body) /\ WellMade(W!Finish)
  BY BodyWellMade, FinishLines, PlainWellMade
<1>3. /\ Len(W!Script) = Len(Body) + 4
      /\ \A k \in 1..Len(Body) : W!Script[k] = Body[k]
      /\ \A k \in 1..4 : W!Script[Len(Body) + k] = W!Finish[k]
  BY <1>1, <1>2, FinishLines, Shifted, SMTT(30) DEF WellMade
<1>4. \A p \in 1..Len(Body) : W!Script[p].op = "choose" => p + W!Script[p].skip <= Len(Body)
  BY <1>2, <1>3 DEF WellMade, Inside
<1> QED BY <1>1, <1>2, <1>3, <1>4, WellMadeTogether DEF WellMade

-----------------------------------------------------------------------------
\* Where the session is: before the request that stops the recording, at it, beyond.
Placed == wPart \in {"main", "again"} /\ wAt \in 1..Len(W!Lines)
StopLine == IF wPart = "main" THEN Len(Body) + 1 ELSE 1
AtStop == wAt = StopLine
Beyond == wAt > StopLine

\* No start after the last stop: a recording the ESP still makes lost its stop.
StopInv ==
    /\ Placed
    /\ wStops \in {"none", "lost", "done"}
    /\ wStops = "done" => wLog = "off"
    /\ Beyond => wStops # "none"
    /\ RecordingEnds

\* What the line is, by where it is.
LEMMA LineFacts ==
    ASSUME Placed
    PROVE  /\ Len(Body) \in Nat
           /\ wPart = "main" => W!Lines = W!Script /\ Len(W!Lines) = Len(Body) + 4
           /\ wPart = "again" => W!Lines = W!Finish /\ Len(W!Lines) = 4
           /\ Len(W!Lines) = StopLine + 3 /\ StopLine \in Nat
           /\ W!Line.skip \in Nat
           /\ AtStop => W!Line.op = "esp" /\ W!Line.arg = "stop"
           /\ Beyond => W!Line.op \in {"page", "save"}
           /\ Beyond /\ W!Line.op = "page" => W!Line.arg \in {"stats", "log"}
           /\ W!Line.op = "choose" => wPart = "main" /\ wAt + W!Line.skip < StopLine
<1>0. W!WizardConstants
  BY SessionConstants
<1> PICK b : b = Len(Body)
  OBVIOUS
<1>1. /\ b \in Nat /\ Len(W!Script) = b + 4 /\ W!Script \in Seq(Statement)
      /\ \A k \in 1..4 : W!Script[b + k] = W!Finish[k]
      /\ \A p \in 1..b : W!Script[p].op = "choose" => p + W!Script[p].skip <= b
  BY <1>0, ScriptLines DEF WellMade
<1>2. /\ W!Finish \in Seq(Statement) /\ Len(W!Finish) = 4
      /\ W!Finish[1].op = "esp" /\ W!Finish[1].arg = "stop"
      /\ W!Finish[2].op = "page" /\ W!Finish[2].arg = "stats"
      /\ W!Finish[3].op = "page" /\ W!Finish[3].arg = "log"
      /\ W!Finish[4].op = "save"
  BY FinishLines
<1>3. CASE wPart = "main"
  <2>1. W!Lines = W!Script /\ Len(W!Lines) = b + 4 /\ StopLine = b + 1
    BY <1>1, <1>3 DEF W!Lines, StopLine
  <2>2. W!Line = W!Script[wAt] /\ wAt \in 1..(b + 4)
    BY <2>1 DEF W!Line, Placed
  <2>3. W!Line.skip \in Nat
    BY <1>1, <2>2, IsStatement
  <2>4. W!Script[b + 1] = W!Finish[1] /\ W!Script[b + 2] = W!Finish[2]
        /\ W!Script[b + 3] = W!Finish[3] /\ W!Script[b + 4] = W!Finish[4]
    BY <1>1
  <2>5. wAt \in 1..b \/ wAt = b + 1 \/ wAt = b + 2 \/ wAt = b + 3 \/ wAt = b + 4
    BY <1>1, <2>2
  <2>6. AtStop => W!Line.op = "esp" /\ W!Line.arg = "stop"
    BY <1>2, <2>1, <2>2, <2>4 DEF AtStop
  <2>7. Beyond => \/ W!Line.op = "page" /\ W!Line.arg \in {"stats", "log"}
                  \/ W!Line.op = "save"
    BY <1>1, <1>2, <2>1, <2>2, <2>4, <2>5, SMTT(60) DEF Beyond
  <2>8. W!Line.op = "choose" => wAt \in 1..b
    BY <1>2, <2>2, <2>4, <2>5
  <2>9. W!Line.op = "choose" => wAt + W!Line.skip < StopLine
    <3> PICK n \in Nat : n = W!Line.skip
      BY <2>3
    <3>1. W!Line.op = "choose" => wAt + n <= b
      BY <1>1, <2>2, <2>8
    <3> QED BY <1>1, <2>1, <2>2, <3>1, SMTT(60)
  <2>10. Len(W!Lines) = StopLine + 3 /\ StopLine \in Nat
    BY <1>1, <2>1
  <2> QED BY <1>1, <1>3, <2>1, <2>3, <2>6, <2>7, <2>9, <2>10
<1>4. CASE wPart = "again"
  <2>1. W!Lines = W!Finish /\ Len(W!Lines) = 4 /\ StopLine = 1
    BY <1>2, <1>4 DEF W!Lines, StopLine
  <2>2. W!Line = W!Finish[wAt] /\ wAt \in 1..4
    BY <2>1 DEF W!Line, Placed
  <2>3. W!Line.skip \in Nat
    BY <1>2, <2>2, IsStatement
  <2>5. wAt = 1 \/ wAt = 2 \/ wAt = 3 \/ wAt = 4
    BY <2>2
  <2>6. AtStop => W!Line.op = "esp" /\ W!Line.arg = "stop"
    BY <1>2, <2>1, <2>2 DEF AtStop
  <2>7. Beyond => \/ W!Line.op = "page" /\ W!Line.arg \in {"stats", "log"}
                  \/ W!Line.op = "save"
    BY <1>2, <2>1, <2>2, <2>5 DEF Beyond
  <2>8. W!Line.op # "choose"
    BY <1>2, <2>2, <2>5
  <2> QED BY <1>1, <1>4, <2>1, <2>3, <2>6, <2>7, <2>8
<1> QED BY <1>3, <1>4 DEF Placed

\* A statement that is done with goes on to the next, or a choice past those it
\* leaves out, never over the stop.
LEMMA GoesOn ==
    ASSUME Placed, NEW n, n = 1 \/ (W!Line.op = "choose" /\ n = 1 + W!Line.skip), W!GoOn(n)
    PROVE  /\ Placed' /\ wPart' = wPart
           /\ wAt' = wAt + n \/ (wAt' = wAt /\ Beyond)
           /\ Beyond' => Beyond \/ AtStop
           /\ wExit' # wExit => Beyond
<1> PICK z : z = StopLine
  OBVIOUS
<1> PICK s : s = W!Line.skip
  OBVIOUS
<1>1. /\ z \in Nat /\ s \in Nat /\ Len(W!Lines) = z + 3 /\ wAt \in 1..(z + 3)
      /\ W!Line.op = "choose" => wAt + s < z
  BY LineFacts DEF Placed
<1>2. wPart' = wPart
  BY DEF W!GoOn
<1>3. W!Lines' = W!Lines /\ StopLine' = z
  BY <1>2 DEF W!Lines, StopLine
<1>4. n \in Nat /\ n >= 1
  BY <1>1
<1>5. CASE wAt + n <= z + 3
  <2>1. wAt' = wAt + n /\ wExit' = wExit
    BY <1>1, <1>5 DEF W!GoOn
  <2>2. wAt' \in 1..(z + 3)
    BY <1>1, <1>4, <1>5, <2>1
  <2>3. wAt' > z => wAt > z \/ wAt = z
    BY <1>1, <2>1
  <2> QED BY <1>1, <1>2, <1>3, <2>1, <2>2, <2>3 DEF Placed, Beyond, AtStop
<1>6. CASE ~(wAt + n <= z + 3)
  <2>1. wAt' = wAt
    BY <1>1, <1>6 DEF W!GoOn
  <2>2. wAt > z
    BY <1>1, <1>6
  <2> QED BY <1>1, <1>2, <1>3, <2>1, <2>2 DEF Placed, Beyond
<1> QED BY <1>5, <1>6

\* A request is served or not: at the stop it is the stop, and no start comes after.
LEMMA StopIsSent ==
    ASSUME StopInv, W!Line.op \in {"esp", "page"},
           W!Served(W!Line.arg) \/ W!Unserved(W!Line.arg)
    PROVE  /\ wStops' \in {"none", "lost", "done"}
           /\ wStops' = "done" => wLog' = "off"
           /\ Beyond \/ AtStop => wStops' # "none"
<1> PICK a : a = W!Line.arg
  OBVIOUS
<1>1. (AtStop => a = "stop") /\ (Beyond => a \in {"stats", "log"})
  BY LineFacts DEF StopInv
<1>2. W!Served(a) \/ W!Unserved(a)
  OBVIOUS
<1>3. wStops' \in {"none", "lost", "done"} /\ (wStops' = "done" => wLog' = "off")
  BY <1>2 DEF StopInv, W!Served, W!Unserved
<1>4. Beyond \/ AtStop => wStops' # "none"
  BY <1>1, <1>2 DEF StopInv, W!Served, W!Unserved
<1> QED BY <1>3, <1>4

\* A statement that goes on keeps the invariant.
LEMMA StopKept ==
    ASSUME StopInv, wExit = "running", NEW n,
           n = 1 \/ (W!Line.op = "choose" /\ n = 1 + W!Line.skip), W!GoOn(n),
           wStops' \in {"none", "lost", "done"}, wStops' = "done" => wLog' = "off",
           Beyond \/ AtStop => wStops' # "none"
    PROVE  StopInv'
<1>1. /\ Placed' /\ (Beyond' => Beyond \/ AtStop) /\ (wExit' # wExit => Beyond)
  BY GoesOn DEF StopInv
<1>2. RecordingEnds'
  BY <1>1 DEF RecordingEnds, W!RecordingEnds
<1> QED BY <1>1, <1>2 DEF StopInv

\* A statement that is no request to the ESP is not the stop.
LEMMA NoRequest ==
    ASSUME StopInv, wExit = "running", W!Line.op # "esp", UNCHANGED <<wLog, wStops>>, NEW n,
           n = 1 \/ (W!Line.op = "choose" /\ n = 1 + W!Line.skip), W!GoOn(n)
    PROVE  StopInv'
<1>1. ~AtStop
  BY LineFacts DEF StopInv
<1>2. /\ wStops' \in {"none", "lost", "done"} /\ (wStops' = "done" => wLog' = "off")
      /\ (Beyond \/ AtStop => wStops' # "none")
  BY <1>1 DEF StopInv
<1> QED BY <1>2, StopKept

\* The session stays where it is.
LEMMA StopStands ==
    ASSUME StopInv, wExit = "running", UNCHANGED <<wPart, wAt>>,
           wStops' \in {"none", "lost", "done"}, wStops' = "done" => wLog' = "off",
           Beyond \/ AtStop => wStops' # "none",
           wExit' \in {"done", "interrupted"} => Beyond \/ AtStop
    PROVE  StopInv'
<1>1. Placed' /\ (Beyond' <=> Beyond)
  BY DEF StopInv, Placed, W!Lines, Beyond, StopLine
<1>2. RecordingEnds'
  BY DEF RecordingEnds, W!RecordingEnds
<1> QED BY <1>1, <1>2 DEF StopInv

\* Every step of the wizard keeps it.
LEMMA StopStep == StopInv /\ [W!Next]_wizardVars => StopInv'
<1> SUFFICES ASSUME StopInv, [W!Next]_wizardVars PROVE StopInv'
  OBVIOUS
<1>1. CASE W!Enter
  <2>1. wExit = "running" /\ W!Line.op # "esp" /\ W!GoOn(1) /\ UNCHANGED <<wLog, wStops>>
    BY <1>1 DEF W!Enter, W!Running, W!Outside
  <2> QED BY <2>1, NoRequest
<1>2. CASE W!Choose
  <2>1. wExit = "running" /\ W!Line.op = "choose" /\ UNCHANGED <<wLog, wStops>>
    BY <1>2 DEF W!Choose, W!Running, W!Outside
  <2>2. PICK n \in {1, 1 + W!Line.skip} : W!GoOn(n)
    BY <1>2 DEF W!Choose
  <2> QED BY <2>1, <2>2, NoRequest
<1>3. CASE W!Interrupt
  <2>1. wExit = "running" /\ UNCHANGED <<wLog, wStops>>
    BY <1>3 DEF W!Interrupt, W!Outside
  <2>2. CASE wPart = "main"
    <3>1. wPart' = "again" /\ wAt' = 1 /\ wExit' = "running"
      BY <1>3, <2>1, <2>2 DEF W!Interrupt, W!Caught
    <3>2. Len(W!Lines') = 4
      BY <3>1, FinishLines DEF W!Lines
    <3>3. Placed' /\ ~Beyond'
      BY <3>1, <3>2 DEF Placed, Beyond, StopLine
    <3>4. RecordingEnds'
      BY <3>1 DEF RecordingEnds, W!RecordingEnds
    <3> QED BY <2>1, <3>3, <3>4 DEF StopInv
  <2>3. CASE wPart # "main"
    <3>1. wExit' = "crashed" /\ UNCHANGED <<wPart, wAt>>
      BY <1>3, <2>3 DEF W!Interrupt
    <3>2. Placed' /\ (Beyond' <=> Beyond)
      BY <3>1 DEF StopInv, Placed, W!Lines, Beyond, StopLine
    <3>3. RecordingEnds'
      BY <3>1 DEF RecordingEnds, W!RecordingEnds
    <3> QED BY <2>1, <3>2, <3>3 DEF StopInv
  <2> QED BY <2>2, <2>3
<1>4. CASE W!Raised
  <2>1. /\ wExit = "running" /\ UNCHANGED <<wPart, wAt>>
        /\ (wPart = "again" /\ wExit' = "interrupted") \/ wExit' = "crashed"
    BY <1>4 DEF W!Raised
  <2>2. wPart = "again" => Beyond \/ AtStop
    BY LineFacts DEF StopInv, Placed, Beyond, AtStop, StopLine
  <2>3. CASE W!Line.op = "esp"
    <3>1. W!Served(W!Line.arg) \/ W!Unserved(W!Line.arg)
      BY <1>4, <2>3 DEF W!Raised
    <3>2. /\ wStops' \in {"none", "lost", "done"} /\ (wStops' = "done" => wLog' = "off")
          /\ (Beyond \/ AtStop => wStops' # "none")
      BY <2>3, <3>1, StopIsSent
    <3> QED BY <2>1, <2>2, <3>2, StopStands
  <2>4. CASE W!Line.op # "esp"
    <3>1. UNCHANGED <<wLog, wStops>>
      BY <1>4, <2>4 DEF W!Raised, W!Outside
    <3>2. ~AtStop
      BY <2>4, LineFacts DEF StopInv
    <3>3. /\ wStops' \in {"none", "lost", "done"} /\ (wStops' = "done" => wLog' = "off")
          /\ (Beyond \/ AtStop => wStops' # "none")
      BY <3>1, <3>2 DEF StopInv
    <3> QED BY <2>1, <2>2, <3>3, StopStands
  <2> QED BY <2>3, <2>4
<1>5. CASE W!Get
  <2>1. wExit = "running" /\ W!Line.op = "esp" /\ (W!Served(W!Line.arg) \/ W!Unserved(W!Line.arg))
        /\ (W!GoOn(1) \/ W!Deeper)
    BY <1>5 DEF W!Get, W!Running
  <2>2. /\ wStops' \in {"none", "lost", "done"} /\ (wStops' = "done" => wLog' = "off")
        /\ (Beyond \/ AtStop => wStops' # "none")
    BY <2>1, StopIsSent
  <2>3. CASE W!GoOn(1)
    BY <2>1, <2>2, <2>3, StopKept
  <2>4. CASE W!Deeper
    <3>1. UNCHANGED <<wPart, wAt, wExit>>
      BY <2>4 DEF W!Deeper
    <3> QED BY <2>1, <2>2, <3>1, StopStands
  <2> QED BY <2>1, <2>3, <2>4
<1>6. CASE W!GetOnce
  <2>1. wExit = "running" /\ W!Line.op = "page" /\ (W!Served(W!Line.arg) \/ W!Unserved(W!Line.arg))
        /\ W!GoOn(1)
    BY <1>6 DEF W!GetOnce, W!Running
  <2>2. /\ wStops' \in {"none", "lost", "done"} /\ (wStops' = "done" => wLog' = "off")
        /\ (Beyond \/ AtStop => wStops' # "none")
    BY <2>1, StopIsSent
  <2> QED BY <2>1, <2>2, StopKept
<1>7. CASE W!Command
  <2>1. wExit = "running" /\ W!Line.op # "esp" /\ UNCHANGED <<wLog, wStops>>
    BY <1>7 DEF W!Command, W!Called, W!ByHand, W!Obeyed, W!Unmoved
  <2>2. W!GoOn(1) \/ W!Deeper
    BY <1>7 DEF W!Command, W!Called, W!ByHand
  <2>3. CASE W!GoOn(1)
    BY <2>1, <2>3, NoRequest
  <2>4. CASE W!Deeper
    <3>1. UNCHANGED <<wPart, wAt, wExit>>
      BY <2>4 DEF W!Deeper
    <3>2. ~AtStop
      BY <2>1, LineFacts DEF StopInv
    <3>3. /\ wStops' \in {"none", "lost", "done"} /\ (wStops' = "done" => wLog' = "off")
          /\ (Beyond \/ AtStop => wStops' # "none")
      BY <2>1, <3>2 DEF StopInv
    <3> QED BY <2>1, <3>1, <3>3, StopStands
  <2> QED BY <2>2, <2>3, <2>4
<1>8. CASE W!Light
  <2>1. wExit = "running" /\ W!Line.op # "esp" /\ W!GoOn(1) /\ UNCHANGED <<wLog, wStops>>
    BY <1>8 DEF W!Light, W!Running, W!Outside
  <2> QED BY <2>1, NoRequest
<1>9. CASE W!Measure
  <2>1. wExit = "running" /\ W!Line.op # "esp" /\ W!GoOn(1) /\ UNCHANGED <<wLog, wStops>>
    BY <1>9 DEF W!Measure, W!Running, W!Outside
  <2> QED BY <2>1, NoRequest
<1>10. CASE W!SaveEvent
  <2>1. wExit = "running" /\ W!Line.op # "esp" /\ W!GoOn(1) /\ UNCHANGED <<wLog, wStops>>
    BY <1>10 DEF W!SaveEvent, W!Running, W!Outside
  <2> QED BY <2>1, NoRequest
<1>11. CASE W!MeasureUnsaved
  <2>1. /\ wExit = "running" /\ W!Line.op # "esp" /\ wExit' = "crashed"
        /\ UNCHANGED <<wPart, wAt, wLog, wStops>>
    BY <1>11 DEF W!MeasureUnsaved, W!Running, W!Outside
  <2>2. ~AtStop
    BY <2>1, LineFacts DEF StopInv
  <2>3. /\ wStops' \in {"none", "lost", "done"} /\ (wStops' = "done" => wLog' = "off")
        /\ (Beyond \/ AtStop => wStops' # "none")
    BY <2>1, <2>2 DEF StopInv
  <2> QED BY <2>1, <2>3, StopStands
<1>12. CASE W!Late
  <2>1. UNCHANGED <<wPart, wAt, wExit, wLog, wStops>>
    BY <1>12 DEF W!Late
  <2> QED BY <2>1 DEF StopInv, Placed, W!Lines, Beyond, StopLine, RecordingEnds, W!RecordingEnds
<1>13. CASE UNCHANGED wizardVars
  BY <1>13 DEF wizardVars, StopInv, Placed, W!Lines, Beyond, StopLine, RecordingEnds,
     W!RecordingEnds
<1> QED BY <1>1, <1>2, <1>3, <1>4, <1>5, <1>6, <1>7, <1>8, <1>9, <1>10, <1>11, <1>12, <1>13
   DEF W!Next

\* A session begins before the stop.
LEMMA FirstStop == W!Init => StopInv
<1> SUFFICES ASSUME W!Init PROVE StopInv
  OBVIOUS
<1>1. wPart = "main" /\ wAt = 1 /\ wExit = "running" /\ wStops = "none"
  BY DEF W!Init
<1>2. Len(Body) \in Nat /\ Len(W!Script) = Len(Body) + 4
  BY ScriptLines, SessionConstants
<1>3. Placed /\ ~Beyond
  BY <1>1, <1>2 DEF Placed, W!Lines, Beyond, StopLine
<1>4. RecordingEnds
  BY <1>1 DEF RecordingEnds, W!RecordingEnds
<1> QED BY <1>1, <1>3, <1>4 DEF StopInv

\* No state of a session breaks it.
LEMMA StopAlways == SessionsSpec => []StopInv
<1>1. SessionsInit => StopInv
  BY FirstStop DEF SessionsInit
<1>2. StopInv /\ [SessionsNext]_sessionVars => StopInv'
  <2>1. [SessionsNext]_sessionVars => [W!Next]_wizardVars
    BY DEF SessionsNext, Phone, Wizard, Timing, sessionVars
  <2> QED BY <2>1, StopStep
<1> QED BY <1>1, <1>2, PTL DEF SessionsSpec

\* A session that ends leaves the ESP recording only when every request to stop it
\* was lost, for any target positions, choices, failures and interrupts (run_all,
\* finish, stop_and_download_recording).
THEOREM RecordingsEnd == SessionsSpec => []RecordingEnds
<1>1. StopInv => RecordingEnds
  BY DEF StopInv
<1> QED BY <1>1, StopAlways, PTL

-----------------------------------------------------------------------------
\* From line k on, a measurement that no command comes before names the last command
\* the door got, unless that came late.
Ready(d, k) ==
    \A q \in k..Len(W!Script) :
        W!Script[q].op = "measure" /\ (\A m \in k..(q - 1) : ~Moves(W!Script[m]))
            => d.at = W!Script[q].arg \/ d.how = "late"

Doors == [at : StepArguments \cup {"unknown"}, how : W!Hows]
Measurements == [of : StepArguments, door : StepArguments \cup {"unknown"}, how : W!Hows]
DoorInv ==
    /\ Placed
    /\ wDoor \in Doors /\ wLate \subseteq StepArguments /\ wRows \in Seq(Measurements)
    /\ wPart = "main" => Ready(wDoor, wAt)
    /\ MeasuresWhatItNames

\* The script, as it is used below.
LEMMA ScriptFacts ==
    /\ Len(W!Script) \in Nat /\ AllCommanded(W!Script) /\ Apart(W!Script)
    /\ \A k \in 1..Len(W!Script) : W!Script[k].arg \in StepArguments /\ W!Script[k].skip \in Nat
<1>1. W!Script \in Seq(Statement) /\ AllCommanded(W!Script) /\ Apart(W!Script)
  BY ScriptLines, SessionConstants DEF WellMade
<1>2. ASSUME NEW k \in 1..Len(W!Script) PROVE W!Script[k] \in Statement
  BY <1>1, IsStatement
<1> QED BY <1>1, <1>2 DEF Statement

\* The first measurement has a command before it.
LEMMA ReadyFirst == ASSUME NEW d PROVE Ready(d, 1)
<1> PICK z \in Nat : z = Len(W!Script)
  BY ScriptFacts
<1> SUFFICES ASSUME NEW q \in 1..z, W!Script[q].op = "measure",
                    \A m \in 1..(q - 1) : ~Moves(W!Script[m])
             PROVE  FALSE
  BY DEF Ready
<1>1. PICK p \in 1..z : LastMove(W!Script, p, q)
  BY ScriptFacts DEF AllCommanded, Commanded
<1>2. p \in 1..(q - 1) /\ Moves(W!Script[p])
  BY <1>1 DEF LastMove
<1> QED BY <1>2

\* Nothing is asked of the door at a command.
LEMMA ReadyAt ==
    ASSUME NEW d, NEW k \in 1..Len(W!Script), Moves(W!Script[k]) PROVE Ready(d, k)
<1> PICK z \in Nat : z = Len(W!Script)
  BY ScriptFacts
<1> SUFFICES ASSUME NEW q \in k..z, W!Script[q].op = "measure",
                    \A m \in k..(q - 1) : ~Moves(W!Script[m])
             PROVE  FALSE
  BY DEF Ready
<1>1. q # k
  BY DEF Moves
<1>2. k \in k..(q - 1)
  BY <1>1
<1> QED BY <1>2

\* After a command the door is where the next measurement wants it.
LEMMA ReadyAfter ==
    ASSUME NEW d, NEW k \in 1..Len(W!Script), Moves(W!Script[k]), d.at = W!Script[k].arg
    PROVE  Ready(d, k + 1)
<1> PICK z \in Nat : z = Len(W!Script)
  BY ScriptFacts
<1> SUFFICES ASSUME NEW q \in (k + 1)..z, W!Script[q].op = "measure",
                    \A m \in (k + 1)..(q - 1) : ~Moves(W!Script[m])
             PROVE  d.at = W!Script[q].arg
  BY DEF Ready
<1>1. PICK p \in 1..z : LastMove(W!Script, p, q) /\ W!Script[p].arg = W!Script[q].arg
  BY ScriptFacts DEF AllCommanded, Commanded
<1>2. p = k
  <2>1. ~(p > k)
    <3> SUFFICES ASSUME p > k PROVE FALSE
      OBVIOUS
    <3>1. p \in (k + 1)..(q - 1) /\ Moves(W!Script[p])
      BY <1>1 DEF LastMove
    <3> QED BY <3>1
  <2>2. ~(p < k)
    <3> SUFFICES ASSUME p < k PROVE FALSE
      OBVIOUS
    <3>1. k \in (p + 1)..(q - 1)
      OBVIOUS
    <3> QED BY <1>1, <3>1 DEF LastMove
  <2> QED BY <2>1, <2>2
<1> QED BY <1>1, <1>2

\* Over a statement that is no command.
LEMMA ReadyNext ==
    ASSUME NEW d, NEW k \in 1..Len(W!Script), ~Moves(W!Script[k]), Ready(d, k)
    PROVE  Ready(d, k + 1)
<1> PICK z \in Nat : z = Len(W!Script)
  BY ScriptFacts
<1> SUFFICES ASSUME NEW q \in (k + 1)..z, W!Script[q].op = "measure",
                    \A m \in (k + 1)..(q - 1) : ~Moves(W!Script[m])
             PROVE  d.at = W!Script[q].arg \/ d.how = "late"
  BY DEF Ready
<1>1. \A m \in k..(q - 1) : m = k \/ m \in (k + 1)..(q - 1)
  OBVIOUS
<1>2. \A m \in k..(q - 1) : ~Moves(W!Script[m])
  BY <1>1
<1>3. q \in k..z
  OBVIOUS
<1> QED BY <1>2, <1>3 DEF Ready

\* Over a choice and what it leaves out.
LEMMA ReadyPast ==
    ASSUME NEW d, NEW k \in 1..Len(W!Script), W!Script[k].op = "choose", Ready(d, k)
    PROVE  Ready(d, k + (1 + W!Script[k].skip))
<1> PICK z \in Nat : z = Len(W!Script)
  BY ScriptFacts
<1> PICK n \in Nat : n = W!Script[k].skip
  BY ScriptFacts
<1> SUFFICES ASSUME NEW q \in (k + (1 + n))..z, W!Script[q].op = "measure",
                    \A m \in (k + (1 + n))..(q - 1) : ~Moves(W!Script[m])
             PROVE  d.at = W!Script[q].arg \/ d.how = "late"
  BY DEF Ready
<1>1. q \in 1..z /\ q > k + n /\ q \in k..z
  OBVIOUS
<1>2. Spared(W!Script, k, n, q)
  BY <1>1, ScriptFacts DEF Apart
<1>3. \A m \in 1..z : m > k + n /\ m < q => ~Moves(W!Script[m])
  BY SMTT(60)
<1>4. \A m \in k..(k + n) : ~Moves(W!Script[m])
  BY <1>2, <1>3 DEF Spared
<1>5. \A m \in k..(q - 1) : m \in k..(k + n) \/ m \in (k + (1 + n))..(q - 1)
  BY SMTT(60)
<1>6. \A m \in k..(q - 1) : ~Moves(W!Script[m])
  BY <1>4, <1>5
<1> QED BY <1>1, <1>6 DEF Ready

\* What is ready stays so over the statements that are no commands.
LEMMA ReadyOn ==
    ASSUME DoorInv, NEW n, n = 1 \/ (W!Line.op = "choose" /\ n = 1 + W!Line.skip),
           W!GoOn(n), ~Moves(W!Line), wDoor' = wDoor
    PROVE  wPart' = "main" => Ready(wDoor', wAt')
<1> SUFFICES ASSUME wPart' = "main" PROVE Ready(wDoor, wAt')
  OBVIOUS
<1>1. wPart = "main" /\ (wAt' = wAt + n \/ wAt' = wAt)
  BY GoesOn DEF DoorInv
<1>2. Ready(wDoor, wAt) /\ W!Line = W!Script[wAt] /\ wAt \in 1..Len(W!Script)
  BY <1>1 DEF DoorInv, W!Line, W!Lines, Placed
<1>3. n = 1 => Ready(wDoor, wAt + n)
  BY <1>2, ReadyNext
<1>4. W!Line.op = "choose" /\ n = 1 + W!Line.skip => Ready(wDoor, wAt + n)
  BY <1>2, ReadyPast
<1> QED BY <1>1, <1>2, <1>3, <1>4

\* A row is measured where it says.
LEMMA RowNamed ==
    ASSUME DoorInv, W!Line.op = "measure",
           wRows' = Append(wRows, [of |-> W!Line.arg, door |-> wDoor.at, how |-> wDoor.how])
    PROVE  wRows' \in Seq(Measurements) /\ MeasuresWhatItNames'
<1> PICK e : e = [of |-> W!Line.arg, door |-> wDoor.at, how |-> wDoor.how]
  OBVIOUS
<1>1. wPart = "main"
  <2>1. wPart = "again" => Beyond \/ AtStop
    BY LineFacts DEF DoorInv, Placed, Beyond, AtStop, StopLine
  <2> QED BY <2>1, LineFacts DEF DoorInv, Placed
<1>2. Ready(wDoor, wAt) /\ W!Line = W!Script[wAt] /\ wAt \in 1..Len(W!Script)
  BY <1>1 DEF DoorInv, W!Line, W!Lines, Placed
<1>3. wDoor.at = W!Line.arg \/ wDoor.how = "late"
  <2>1. \A m \in wAt..(wAt - 1) : FALSE
    BY <1>2
  <2>2. wAt \in wAt..Len(W!Script)
    BY <1>2, ScriptFacts
  <2> QED BY <1>2, <2>1, <2>2 DEF Ready
<1>4. W!Line.arg \in StepArguments
  BY <1>2, ScriptFacts
<1>5. e \in Measurements /\ (e.door = e.of \/ e.how = "late")
  BY <1>3, <1>4 DEF DoorInv, Doors, Measurements
<1>6. wRows' = Append(wRows, e)
  OBVIOUS
<1>7. /\ wRows' \in Seq(Measurements) /\ Len(wRows') = Len(wRows) + 1
      /\ \A k \in 1..Len(wRows) : wRows'[k] = wRows[k]
      /\ wRows'[Len(wRows) + 1] = e
  BY <1>5, <1>6, AppendProperties DEF DoorInv
<1>8. \A k \in 1..(Len(wRows) + 1) : k \in 1..Len(wRows) \/ k = Len(wRows) + 1
  BY DEF DoorInv
<1>9. \A k \in DOMAIN wRows' : wRows'[k].door = wRows'[k].of \/ wRows'[k].how = "late"
  BY <1>5, <1>7, <1>8 DEF DoorInv, MeasuresWhatItNames, W!MeasuresWhatItNames
<1> QED BY <1>7, <1>9 DEF MeasuresWhatItNames, W!MeasuresWhatItNames

\* What is no command leaves the door as it is.
LEMMA DoorKept ==
    ASSUME DoorInv, ~Moves(W!Line), UNCHANGED <<wDoor, wLate>>, NEW n,
           n = 1 \/ (W!Line.op = "choose" /\ n = 1 + W!Line.skip), W!GoOn(n),
           wRows' \in Seq(Measurements), MeasuresWhatItNames'
    PROVE  DoorInv'
<1>1. Placed'
  BY GoesOn DEF DoorInv
<1>2. wPart' = "main" => Ready(wDoor', wAt')
  BY ReadyOn
<1> QED BY <1>1, <1>2 DEF DoorInv

\* The session stays where it is.
LEMMA DoorStands ==
    ASSUME DoorInv, wDoor' \in Doors, wLate' \subseteq StepArguments, UNCHANGED <<wPart, wAt>>,
           wRows' \in Seq(Measurements), MeasuresWhatItNames',
           wPart = "main" => Ready(wDoor', wAt)
    PROVE  DoorInv'
<1>1. Placed'
  BY DEF DoorInv, Placed, W!Lines
<1> QED BY <1>1 DEF DoorInv

\* No row is added.
LEMMA RowsKept ==
    ASSUME DoorInv, wRows' = wRows
    PROVE  wRows' \in Seq(Measurements) /\ MeasuresWhatItNames'
BY DEF DoorInv, MeasuresWhatItNames, W!MeasuresWhatItNames

\* A command is obeyed at once, by the hub or by the operator, or it falls back.
LEMMA CommandKeeps == ASSUME DoorInv, W!Command PROVE DoorInv'
<1>1. Moves(W!Line) /\ wRows' = wRows
  BY DEF W!Command, W!ByHand, Moves
<1>2. wRows' \in Seq(Measurements) /\ MeasuresWhatItNames'
  BY <1>1, RowsKept
<1>3. /\ Len(Body) \in Nat /\ ~Beyond /\ ~AtStop
  <2>1. W!Line.op \notin {"page", "save", "esp"}
    BY <1>1 DEF Moves
  <2> QED BY <2>1, LineFacts DEF DoorInv
<1>4. wPart = "main" /\ W!Line = W!Script[wAt] /\ wAt \in 1..Len(W!Script)
  <2>1. wPart = "again" => Beyond \/ AtStop
    BY LineFacts DEF DoorInv, Placed, Beyond, AtStop, StopLine
  <2> QED BY <1>3, <2>1 DEF DoorInv, W!Line, W!Lines, Placed
<1>5. W!Line.arg \in StepArguments
  BY <1>4, ScriptFacts
<1>6. ASSUME NEW how \in {"hub", "operator"}, W!Obeyed(W!Line.arg, how)
      PROVE  wDoor' \in Doors /\ wDoor'.at = W!Script[wAt].arg
  BY <1>4, <1>5, <1>6 DEF W!Obeyed, Doors, W!Hows
<1>7. CASE /\ W!GoOn(1) /\ wLate' = wLate
           /\ (W!Obeyed(W!Line.arg, "hub") \/ W!Obeyed(W!Line.arg, "operator"))
  <2>1. wDoor' \in Doors /\ wDoor'.at = W!Script[wAt].arg
    BY <1>6, <1>7
  <2>2. Placed' /\ wAt' = wAt + 1
    BY <1>3, <1>7, GoesOn DEF DoorInv
  <2>3. Ready(wDoor', wAt + 1)
    BY <1>1, <1>4, <2>1, ReadyAfter
  <2> QED BY <1>2, <1>7, <2>1, <2>2, <2>3 DEF DoorInv
<1>8. CASE /\ W!Deeper /\ wLate' \subseteq wLate \cup {W!Line.arg}
           /\ (W!Obeyed(W!Line.arg, "hub") \/ wDoor' = wDoor)
  <2>1. UNCHANGED <<wPart, wAt>>
    BY <1>8 DEF W!Deeper
  <2>2. wDoor' \in Doors /\ wLate' \subseteq StepArguments
    BY <1>5, <1>6, <1>8 DEF DoorInv
  <2>3. Ready(wDoor', wAt)
    BY <1>1, <1>4, ReadyAt
  <2> QED BY <1>2, <2>1, <2>2, <2>3, DoorStands
<1>9. W!Called(W!Line.arg) \/ W!ByHand(W!Line.arg)
  BY DEF W!Command
<1> QED BY <1>7, <1>8, <1>9 DEF W!Called, W!ByHand, W!Unmoved

\* Every step of the wizard keeps it.
LEMMA DoorStep == DoorInv /\ [W!Next]_wizardVars => DoorInv'
<1> SUFFICES ASSUME DoorInv, [W!Next]_wizardVars PROVE DoorInv'
  OBVIOUS
<1>1. ASSUME W!Enter \/ W!GetOnce \/ W!Light \/ W!SaveEvent \/ (W!Get /\ W!GoOn(1))
      PROVE  DoorInv'
  <2>1. W!Line.op \in {"ask", "page", "light", "save", "esp"} /\ W!GoOn(1)
        /\ UNCHANGED <<wDoor, wLate, wRows>>
    BY <1>1 DEF W!Enter, W!GetOnce, W!Light, W!SaveEvent, W!Get, W!Running, W!Outside,
       W!Served, W!Unserved
  <2>2. ~Moves(W!Line)
    BY <2>1 DEF Moves
  <2> QED BY <2>1, <2>2, RowsKept, DoorKept
<1>2. CASE W!Choose
  <2>1. W!Line.op = "choose" /\ UNCHANGED <<wDoor, wLate, wRows>>
    BY <1>2 DEF W!Choose, W!Running, W!Outside
  <2>2. PICK n \in {1, 1 + W!Line.skip} : W!GoOn(n)
    BY <1>2 DEF W!Choose
  <2>3. ~Moves(W!Line)
    BY <2>1 DEF Moves
  <2> QED BY <2>1, <2>2, <2>3, RowsKept, DoorKept
<1>3. CASE W!Measure
  <2>1. W!Line.op = "measure" /\ W!GoOn(1) /\ UNCHANGED <<wDoor, wLate>>
        /\ wRows' = Append(wRows, [of |-> W!Line.arg, door |-> wDoor.at, how |-> wDoor.how])
    BY <1>3 DEF W!Measure, W!Running, W!Outside
  <2>2. ~Moves(W!Line)
    BY <2>1 DEF Moves
  <2>3. wRows' \in Seq(Measurements) /\ MeasuresWhatItNames'
    BY <2>1, RowNamed
  <2> QED BY <2>1, <2>2, <2>3, DoorKept
<1>4. CASE W!MeasureUnsaved
  <2>1. W!Line.op = "measure" /\ UNCHANGED <<wPart, wAt, wDoor, wLate>>
        /\ wRows' = Append(wRows, [of |-> W!Line.arg, door |-> wDoor.at, how |-> wDoor.how])
    BY <1>4 DEF W!MeasureUnsaved, W!Running, W!Outside
  <2>2. wRows' \in Seq(Measurements) /\ MeasuresWhatItNames'
    BY <2>1, RowNamed
  <2> QED BY <2>1, <2>2, DoorStands DEF DoorInv
<1>5. CASE W!Interrupt
  <2>1. UNCHANGED <<wDoor, wLate, wRows>>
    BY <1>5 DEF W!Interrupt, W!Outside
  <2>2. CASE wPart = "main"
    <3>1. wPart' = "again" /\ wAt' = 1
      BY <1>5, <2>2 DEF W!Interrupt, W!Caught
    <3>2. Placed'
      BY <3>1, FinishLines DEF Placed, W!Lines
    <3> QED BY <2>1, <3>1, <3>2, RowsKept DEF DoorInv
  <2>3. CASE wPart # "main"
    <3>1. UNCHANGED <<wPart, wAt>>
      BY <1>5, <2>3 DEF W!Interrupt
    <3> QED BY <2>1, <3>1, RowsKept, DoorStands DEF DoorInv
  <2> QED BY <2>2, <2>3
<1>6. ASSUME W!Raised \/ (W!Get /\ W!Deeper) \/ UNCHANGED wizardVars
      PROVE  DoorInv'
  <2>1. UNCHANGED <<wPart, wAt, wDoor, wLate, wRows>>
    BY <1>6 DEF W!Raised, W!Get, W!Deeper, W!Outside, W!Served, W!Unserved, wizardVars
  <2> QED BY <2>1, RowsKept, DoorStands DEF DoorInv
<1>7. CASE W!Late
  <2>1. UNCHANGED <<wPart, wAt, wRows>>
    BY <1>7 DEF W!Late
  <2>2. PICK c \in wLate : wDoor' = [at |-> c, how |-> "late"] /\ wLate' = wLate \ {c}
    BY <1>7 DEF W!Late
  <2>3. wDoor' \in Doors /\ wDoor'.how = "late" /\ wLate' \subseteq StepArguments
    BY <2>2 DEF DoorInv, Doors, W!Hows
  <2>4. Ready(wDoor', wAt)
    BY <2>3 DEF Ready
  <2> QED BY <2>1, <2>3, <2>4, RowsKept, DoorStands
<1>8. W!Get => W!GoOn(1) \/ W!Deeper
  BY DEF W!Get
<1> QED BY <1>1, <1>2, <1>3, <1>4, <1>5, <1>6, <1>7, <1>8, CommandKeeps DEF W!Next

\* A measurement is of the place it names, unless Home Assistant executed a command
\* late that it had reported failed, for any target positions, choices, fallbacks,
\* failures and interrupts (the run_ functions, command_cover, command_position,
\* measure_height).
THEOREM RowsAreNamed == SessionsSpec => []MeasuresWhatItNames
<1>1. SessionsInit => DoorInv
  <2> SUFFICES ASSUME W!Init PROVE DoorInv
    BY DEF SessionsInit
  <2>1. wPart = "main" /\ wAt = 1 /\ wDoor = [at |-> "unknown", how |-> "nobody"]
        /\ wLate = {} /\ wRows = <<>>
    BY DEF W!Init
  <2>2. Len(Body) \in Nat /\ Len(W!Script) = Len(Body) + 4
    BY ScriptLines, SessionConstants
  <2>3. Placed
    BY <2>1, <2>2 DEF Placed, W!Lines
  <2>4. wDoor \in Doors /\ wRows \in Seq(Measurements)
    BY <2>1 DEF Doors, W!Hows
  <2>5. MeasuresWhatItNames
    BY <2>1 DEF MeasuresWhatItNames, W!MeasuresWhatItNames
  <2>6. Ready(wDoor, wAt)
    BY <2>1, ReadyFirst
  <2> QED BY <2>1, <2>3, <2>4, <2>5, <2>6 DEF DoorInv
<1>2. DoorInv /\ [SessionsNext]_sessionVars => DoorInv'
  <2>1. [SessionsNext]_sessionVars => [W!Next]_wizardVars
    BY DEF SessionsNext, Phone, Wizard, Timing, sessionVars
  <2> QED BY <2>1, DoorStep
<1>3. DoorInv => MeasuresWhatItNames
  BY DEF DoorInv
<1> QED BY <1>1, <1>2, <1>3, PTL DEF SessionsSpec

-----------------------------------------------------------------------------
(* The bridge. *)

USE BusAssumption

LEMMA TypeInit == Init => TypeOK
BY DEF Init, TypeOK, States, Commands, Past, Outcomes

LEMMA TypeStep == TypeOK /\ [Next]_vars => TypeOK'
<1> SUFFICES ASSUME TypeOK, [Next]_vars PROVE TypeOK'
    OBVIOUS
<1> USE DEF TypeOK, slotVars, seenVars, doorVars, askVars, mainVars, busVars, moveVars,
            States, Commands, Outcomes, Calls, Past
<1>1. CASE Entities
    <2> USE DEF MainStep
    <2>1. CASE ActionCommand
        BY <2>1 DEF ActionCommand, Call
    <2>2. CASE ActionStopCancel
        <3>1. outcome' \in [Calls -> Outcomes]
            BY <2>2 DEF ActionStopCancel, Ends
        <3> QED
            BY <2>2, <3>1 DEF ActionStopCancel, SlotFree
    <2>3. CASE ActionStop
        BY <2>3 DEF ActionStop, Call
    <2>4. CASE StopFallback
        BY <2>4 DEF StopFallback, Check, AskEnds
    <2>5. CASE CheckFresh
        BY <2>5 DEF CheckFresh, Check, AskEnds
    <2>6. CASE CheckGates
        BY <2>6 DEF CheckGates, Check, AskEnds
    <2>7. CASE Skip
        BY <2>7 DEF Skip, AskEnds
    <2>8. CASE Queue
        BY <2>8 DEF Queue, Check, AskEnds
    <2>9. CASE Queued
        BY <2>9 DEF Queued, AskEnds
    <2>10. CASE Latch
        BY <2>10 DEF Latch
    <2> QED
        BY <1>1, <2>1, <2>2, <2>3, <2>4, <2>5, <2>6, <2>7, <2>8, <2>9, <2>10 DEF Entities
<1>2. CASE Loop
    <2> USE DEF LoopStep
    <2>1. CASE TellMoves
        BY <2>1 DEF TellMoves
    <2>2. CASE SlowRead
        BY <2>2, SMTT(30) DEF SlowRead
    <2>3. CASE SlowDoor
        BY <2>3 DEF SlowDoor, ApplyDoor
    <2>4. CASE SlowState
        BY <2>4 DEF SlowState
    <2>5. CASE TakeChanged
        BY <2>5 DEF TakeChanged
    <2>6. CASE StateCallback
        BY <2>6 DEF StateCallback
    <2> QED
        BY <1>2, <2>1, <2>2, <2>3, <2>4, <2>5, <2>6 DEF Loop
<1>3. CASE Bus
    <2> USE DEF BusStep
    <2>1. CASE RxNothing
        BY <2>1 DEF RxNothing
    <2>2. CASE RxBroadcast
        BY <2>2 DEF RxBroadcast
    <2>3. CASE RxDoor
        BY <2>3 DEF RxDoor, ApplyDoor
    <2>4. CASE RxState
        BY <2>4 DEF RxState
    <2>5. CASE RxFresh
        BY <2>5 DEF RxFresh
    <2>6. CASE RxRequest
        BY <2>6 DEF RxRequest, SlotFree
    <2>7. CASE Answer
        <3>1. outcome' \in [Calls -> Outcomes]
            BY <2>7 DEF Answer
        <3>2. moves' \in Nat /\ owed' \in Int
            BY <2>7 DEF Answer
        <3> QED
            BY <2>7, <3>1, <3>2 DEF Answer
    <2>8. CASE Expire
        BY <2>8 DEF Expire, Ends, SlotFree
    <2>9. CASE Stale
        BY <2>9 DEF Stale, Past
    <2>10. CASE Drop
        BY <2>10 DEF Drop, Ends, SlotFree
    <2>11. CASE LostState
        BY <2>11 DEF LostState
    <2> QED
        BY <1>3, <2>1, <2>2, <2>3, <2>4, <2>5, <2>6, <2>7, <2>8, <2>9, <2>10, <2>11 DEF Bus
<1>4. CASE Tick
    BY <1>4 DEF Tick, Older
<1>5. CASE UNCHANGED vars
    BY <1>5 DEF vars
<1> QED
    BY <1>1, <1>2, <1>3, <1>4, <1>5 DEF Next

\* The variables of the bridge stay in their types (uapbridge_esp.h).
THEOREM TypeCorrect == Spec => []TypeOK
BY TypeInit, TypeStep, PTL DEF Spec

LEMMA InvInit == Init => BusInv
BY DEF Init, BusInv, OneInFlight, Asking, Calls

\* Queue, RxRequest, Answer and what ends a command move it between the slot, the
\* bus task and its end; the rest leaves the three alone.
LEMMA InvStep == TypeOK /\ BusInv /\ [Next]_vars => BusInv'
<1> SUFFICES ASSUME TypeOK, BusInv, [Next]_vars PROVE BusInv'
    OBVIOUS
<1> USE DEF TypeOK, BusInv, OneInFlight, Asking, slotVars, seenVars, doorVars, askVars,
            mainVars, busVars, moveVars, Calls
<1>1. CASE Entities
    <2> USE DEF MainStep
    <2>1. CASE ActionCommand
        BY <2>1 DEF ActionCommand, Call, Commands
    <2>2. CASE ActionStopCancel
        BY <2>2 DEF ActionStopCancel, Ends, SlotFree
    <2>3. CASE ActionStop
        BY <2>3 DEF ActionStop, Call
    <2>4. CASE StopFallback
        BY <2>4 DEF StopFallback, Check, AskEnds
    <2>5. CASE CheckFresh
        BY <2>5 DEF CheckFresh, Check, AskEnds
    <2>6. CASE CheckGates
        BY <2>6 DEF CheckGates, Check, AskEnds, Blocked
    <2>7. CASE Skip
        BY <2>7 DEF Skip, AskEnds
    <2>8. CASE Queue
        <3>1. CASE slot = "none"
            <4>1. calls \in Calls /\ outcome[calls] = "none"
                BY <2>8 DEF Queue, Check
            <4>2. /\ slot' = mAction /\ slotId' = calls
                  /\ outcome' = [outcome EXCEPT ![calls] = "queued"]
                  /\ mPc' = "queued" /\ UNCHANGED <<calls, bPc, bId>>
                BY <2>8, <3>1 DEF Queue, Check
            <4>3. mAction # "none"
                BY <2>8 DEF Queue, Check, MainStep
            <4>4. bPc = "answer" => bId # calls
                BY <4>1
            <4>5. OneInFlight'
                BY <3>1, <4>1, <4>2, <4>3, <4>4
            <4> QED
                BY <4>1, <4>2, <4>5
        <3>2. CASE slot # "none"
            BY <2>8, <3>2 DEF Queue, Check, AskEnds
        <3> QED
            BY <3>1, <3>2
    <2>9. CASE Queued
        BY <2>9 DEF Queued, AskEnds
    <2>10. CASE Latch
        BY <2>10 DEF Latch
    <2> QED
        BY <1>1, <2>1, <2>2, <2>3, <2>4, <2>5, <2>6, <2>7, <2>8, <2>9, <2>10 DEF Entities
<1>2. CASE Loop
    <2> USE DEF LoopStep
    <2>1. CASE TellMoves
        BY <2>1 DEF TellMoves
    <2>2. CASE SlowRead
        BY <2>2, SMTT(30) DEF SlowRead
    <2>3. CASE SlowDoor
        BY <2>3 DEF SlowDoor, ApplyDoor
    <2>4. CASE SlowState
        BY <2>4 DEF SlowState
    <2>5. CASE TakeChanged
        BY <2>5 DEF TakeChanged
    <2>6. CASE StateCallback
        BY <2>6 DEF StateCallback
    <2> QED
        BY <1>2, <2>1, <2>2, <2>3, <2>4, <2>5, <2>6 DEF Loop
<1>3. CASE Bus
    <2> USE DEF BusStep
    <2>1. CASE RxNothing
        BY <2>1 DEF RxNothing
    <2>2. CASE RxBroadcast
        BY <2>2 DEF RxBroadcast
    <2>3. CASE RxDoor
        BY <2>3 DEF RxDoor, ApplyDoor
    <2>4. CASE RxState
        BY <2>4 DEF RxState
    <2>5. CASE RxFresh
        BY <2>5 DEF RxFresh
    <2>6. CASE RxRequest
        BY <2>6 DEF RxRequest, SlotFree
    <2>7. CASE Answer
        BY <2>7 DEF Answer
    <2>8. CASE Expire
        BY <2>8, SMTT(60) DEF Expire, Ends, SlotFree
    <2>9. CASE Stale
        BY <2>9 DEF Stale, Past
    <2>10. CASE Drop
        BY <2>10, SMTT(30) DEF Drop, Ends, SlotFree
    <2>11. CASE LostState
        BY <2>11 DEF LostState
    <2> QED
        BY <1>3, <2>1, <2>2, <2>3, <2>4, <2>5, <2>6, <2>7, <2>8, <2>9, <2>10, <2>11 DEF Bus
<1>4. CASE Tick
    BY <1>4 DEF Tick, Older
<1>5. CASE UNCHANGED vars
    BY <1>5 DEF vars
<1> QED
    BY <1>1, <1>2, <1>3, <1>4, <1>5 DEF Next

\* The inductive invariant of the bridge: each call that is on its way is in one
\* place, and what passed the gates meets no obstruction.
THEOREM InvCorrect == Spec => []BusInv
<1>1. TypeOK /\ BusInv /\ [Next]_vars => BusInv'
    BY InvStep
<1> QED
    BY <1>1, InvInit, TypeCorrect, PTL DEF Spec

\* What writes the outcome writes that of a call that is on its way or undecided.
THEOREM FatesAreFinal == Spec => OneFate
<1>1. ASSUME TypeOK, BusInv, [Next]_vars
      PROVE  \A c \in Calls : outcome[c] \in Final => outcome'[c] = outcome[c]
    <2> USE <1>1 DEF TypeOK, BusInv, OneInFlight, Asking, Final, Outcomes, Calls,
                     slotVars, askVars, mainVars, busVars
    <2>1. CASE Entities
        <3>1. CASE ActionStopCancel
            BY <3>1 DEF ActionStopCancel, Ends
        <3>2. CASE Queue
            BY <3>2 DEF Queue, Check, MainStep
        <3> QED
            BY <2>1, <3>1, <3>2 DEF Entities, ActionCommand, ActionStop, StopFallback, CheckFresh,
                                    CheckGates, Skip, Queued, Latch
    <2>2. CASE Loop
        BY <2>2 DEF Loop, TellMoves, SlowRead, SlowDoor, SlowState, TakeChanged, StateCallback,
                    LoopStep
    <2>3. CASE Bus
        <3>1. CASE Answer
            BY <3>1 DEF Answer, BusStep
        <3>2. CASE Expire
            BY <3>2 DEF Expire, Ends
        <3>3. CASE Drop
            BY <3>3 DEF Drop, Ends
        <3> QED
            BY <2>3, <3>1, <3>2, <3>3 DEF Bus, RxNothing, RxBroadcast, RxDoor, RxState, RxFresh,
                                          RxRequest, Stale, LostState
    <2>4. CASE Tick \/ UNCHANGED vars
        BY <2>4 DEF Tick, vars
    <2> QED
        BY <2>1, <2>2, <2>3, <2>4 DEF Next
<1> QED
    BY <1>1, TypeCorrect, InvCorrect, PTL DEF Spec, OneFate

\* Only Queue puts a command into the slot, and it does so behind the gates.
THEOREM NoClosingQueued == Spec => ObstructionHolds
<1>1. ASSUME TypeOK, BusInv, [Next]_vars
      PROVE  slot' # slot /\ slot' \in {"close", "venting"} => obstruction = "no"
    <2> USE <1>1 DEF slotVars, askVars, mainVars, busVars
    <2>1. CASE Entities
        <3>1. CASE ActionStopCancel
            BY <3>1 DEF ActionStopCancel, SlotFree
        <3>2. CASE Queue
            BY <3>2 DEF Queue, Check, MainStep, BusInv
        <3> QED
            BY <2>1, <3>1, <3>2 DEF Entities, ActionCommand, ActionStop, StopFallback, CheckFresh,
                                    CheckGates, Skip, Queued, Latch
    <2>2. CASE Loop
        BY <2>2 DEF Loop, TellMoves, SlowRead, SlowDoor, SlowState, TakeChanged, StateCallback,
                    LoopStep
    <2>3. CASE Bus
        BY <2>3 DEF Bus, RxNothing, RxBroadcast, RxDoor, RxState, RxFresh, RxRequest, Answer,
                    Expire, Stale, Drop, LostState, SlotFree
    <2>4. CASE Tick \/ UNCHANGED vars
        BY <2>4 DEF Tick, vars
    <2> QED
        BY <2>1, <2>2, <2>3, <2>4 DEF Next
<1> QED
    BY <1>1, TypeCorrect, InvCorrect, PTL DEF Spec, ObstructionHolds

=============================================================================
