--------------------------- MODULE OpdTcl_proofs ----------------------------
(***************************************************************************)
(* Debugging specifications: whatever a specification says, the procedures *)
(* opd.tcl makes of it are such as the theorems about sessions ask for, so *)
(* these hold in every session under opd -d.                               *)
(*                                                                         *)
(* What opd_readscript has done after n lines is a recursive function of   *)
(* n.  The induction is on the least number of lines for which the claim   *)
(* fails.                                                                  *)
(***************************************************************************)
EXTENDS Session_proofs, Agents, MessageLog, WellFoundedInduction

(* A set of numbers has a least element: the induction below rests on it.  *)
LEMMA LeastNatural ==
  ASSUME NEW T, T \subseteq Nat, T # {}
  PROVE  \E n \in T : \A m \in T : n <= m
<1> DEFINE R == OpToRel(<, Nat)
<1>1. IsWellFoundedOn(R, Nat)
  BY NatLessThanWellFounded
<1>2. \A m, n \in Nat : m < n => <<m, n>> \in R
  BY DEF OpToRel
<1> HIDE DEF R
<1>3. PICK n \in T : \A m \in T : <<m, n>> \notin R
  BY <1>1, WFMin
<1>4. \A m \in T : ~(m < n)
  BY <1>2, <1>3, Zenon
<1>5. \A m \in T : n <= m
  BY <1>4
<1> QED
  BY <1>5

(* Two sequences of any elements, one behind the other.                    *)
LEMMA Concat ==
  ASSUME NEW p, NEW q, NEW S, NEW T, p \in Seq(S), q \in Seq(T)
  PROVE  /\ p \o q \in Seq(S \cup T) /\ Len(p \o q) = Len(p) + Len(q)
         /\ Len(p) \in Nat /\ Len(q) \in Nat
         /\ DOMAIN p = 1 .. Len(p) /\ DOMAIN q = 1 .. Len(q)
         /\ DOMAIN (p \o q) = 1 .. Len(p) + Len(q)
         /\ \A i \in 1 .. Len(p) : (p \o q)[i] = p[i]
         /\ \A i \in 1 .. Len(q) : (p \o q)[Len(p) + i] = q[i]
<1>1. p \in Seq(S \cup T) /\ q \in Seq(S \cup T)
  OBVIOUS
<1> DEFINE w == p \o q
<1>2. /\ w \in Seq(S \cup T) /\ Len(w) = Len(p) + Len(q)
      /\ \A i \in 1 .. Len(p) + Len(q) : w[i] = IF i <= Len(p) THEN p[i] ELSE q[i - Len(p)]
  BY <1>1, ConcatProperties
<1> HIDE DEF w
<1>3. /\ Len(p) \in Nat /\ Len(q) \in Nat
      /\ DOMAIN p = 1 .. Len(p) /\ DOMAIN q = 1 .. Len(q) /\ DOMAIN w = 1 .. Len(w)
  BY <1>1, <1>2, LenProperties
<1>4. \A i \in 1 .. Len(p) : w[i] = p[i]
  BY <1>2, <1>3
<1>5. ASSUME NEW i \in 1 .. Len(q) PROVE w[Len(p) + i] = q[i]
  <2>1. /\ Len(p) + i \in 1 .. Len(p) + Len(q) /\ ~(Len(p) + i <= Len(p))
        /\ Len(p) + i - Len(p) = i
    BY <1>3
  <2> QED
    BY <1>2, <2>1
<1> QED
  BY <1>2, <1>3, <1>4, <1>5 DEF w

----------------------------------------------------------------------------
(* The commands of which a specification's procedures are made.            *)
LEMMA CommandForms ==
  /\ \A key, x, of : /\ Log(key, x, of).do = "log"
                     /\ Log(key, x, of).arg[1] = key /\ Log(key, x, of).arg[3] = of
                     /\ Log(key, x, of).arg[2] = x
  /\ \A f, x : Break(f, x).do = "gdb_setBreakpoint" /\ Break(f, x).arg = <<f, x>>
  /\ \A f, x : Watch(f, x).do = "gdb_setWatchpoint" /\ Watch(f, x).arg = <<f, x>>
  /\ \A what, x : Query(what, x).do = "query"
  /\ \A command : Do(command).do = command
BY DEF Log, Break, Watch, Query, Do, Cmd

(* p is made of commands that leave the application where it is, and binds *)
(* functions of F only.                                                    *)
Keeps(c, F) ==
  /\ c.do \in {"log", "query", "gdb_setBreakpoint", "gdb_setWatchpoint"}
  /\ ~IsFaultRow(c)
  /\ c.do \in BindOps => c.arg \in F

Quiet(p, F) ==
  /\ \E S : p \in Seq(S)
  /\ \A i \in DOMAIN p : Keeps(p[i], F)
  /\ AnswersFollow(p)

(* p is what the theorems about sessions ask of a procedure of a script    *)
(* whose functions are F, and uses the commands opd.tcl uses.              *)
SpecCommands == {"log", "query", "gdb_setBreakpoint", "gdb_setWatchpoint", "gdb_continue"}

Fits(p, F) ==
  /\ \E S : p \in Seq(S)
  /\ \A i \in DOMAIN p : p[i].do \in SpecCommands /\ (p[i].do \in BindOps => p[i].arg \in F)
  /\ AnswersFollow(p) /\ StepsAwaited(p) /\ NeverExits(p) /\ ResumesOnce(p) /\ NoFaultRows(p)

(* Quiet sequences stay quiet one behind the other: an answer that follows *)
(* its question in one of them follows it in the whole.                    *)
LEMMA QuietTogether ==
  ASSUME NEW p, NEW q, NEW F, Quiet(p, F), Quiet(q, F)
  PROVE  Quiet(p \o q, F)
<1>1. PICK S : p \in Seq(S)
  BY DEF Quiet
<1>2. PICK T : q \in Seq(T)
  BY DEF Quiet
<1> DEFINE w == p \o q
<1>3. /\ w \in Seq(S \cup T) /\ DOMAIN w = 1 .. Len(p) + Len(q)
      /\ Len(p) \in Nat /\ Len(q) \in Nat
      /\ DOMAIN p = 1 .. Len(p) /\ DOMAIN q = 1 .. Len(q)
      /\ \A i \in 1 .. Len(p) : w[i] = p[i]
      /\ \A i \in 1 .. Len(q) : w[Len(p) + i] = q[i]
  BY <1>1, <1>2, Concat
<1> HIDE DEF w
<1>4. ASSUME NEW i \in DOMAIN w
      PROVE  /\ Keeps(w[i], F)
             /\ IsAnswer(w[i]) => i > 1 /\ (w[i - 1].do \in Asks \/ IsAnswer(w[i - 1]))
  <2>1. CASE i \in 1 .. Len(p)
    <3>1. i \in DOMAIN p /\ w[i] = p[i] /\ (i > 1 => w[i - 1] = p[i - 1])
      BY <1>3, <2>1
    <3> QED
      BY <3>1 DEF Quiet, AnswersFollow
  <2>2. CASE i \notin 1 .. Len(p)
    <3>1. PICK k \in 1 .. Len(q) : i = Len(p) + k
      <4>1. i - Len(p) \in 1 .. Len(q) /\ i = Len(p) + (i - Len(p))
        BY <1>3, <2>2
      <4> QED
        BY <4>1
    <3>2. k \in DOMAIN q /\ w[i] = q[k] /\ (k > 1 => w[i - 1] = q[k - 1]) /\ (k > 1 => i > 1)
      <4>1. k > 1 => k - 1 \in 1 .. Len(q) /\ i - 1 = Len(p) + (k - 1) /\ i > 1
        BY <1>3, <3>1
      <4> QED
        BY <1>3, <3>1, <4>1
    <3>3. /\ Keeps(q[k], F)
          /\ IsAnswer(q[k]) => k > 1 /\ (q[k - 1].do \in Asks \/ IsAnswer(q[k - 1]))
      BY <3>2 DEF Quiet, AnswersFollow
    <3> QED
      BY <3>2, <3>3
  <2> QED
    BY <2>1, <2>2
<1>5. Quiet(w, F)
  BY <1>3, <1>4 DEF Quiet, AnswersFollow
<1> QED
  BY <1>5 DEF w

(* Rows of the author's own text are quiet, as many as there are.          *)
LEMMA TextsAreQuiet ==
  ASSUME NEW p, NEW F, \E S : p \in Seq(S),
         \A i \in DOMAIN p : /\ p[i].do = "log" /\ p[i].arg[1] # "opd.SEGFAULT"
                             /\ p[i].arg[3] # "answer"
  PROVE  Quiet(p, F)
<1>1. \A i \in DOMAIN p : Keeps(p[i], F) /\ ~IsAnswer(p[i])
  BY DEF Keeps, IsFaultRow, IsAnswer, BindOps
<1> QED
  BY <1>1 DEF Quiet, AnswersFollow

(* The same of a single row.                                               *)
LEMMA TextIsQuiet ==
  ASSUME NEW key, NEW x, NEW of, NEW F, key # "opd.SEGFAULT", of # "answer"
  PROVE  Quiet(<<Log(key, x, of)>>, F)
<1> DEFINE c == Log(key, x, of)
           p == <<c>>
<1>1. c.do = "log" /\ c.arg[1] = key /\ c.arg[3] = of
  BY CommandForms
<1> HIDE DEF c
<1>2. p \in Seq({c}) /\ \A i \in DOMAIN p : p[i] = c
  OBVIOUS
<1>3. \E S : p \in Seq(S)
  BY <1>2
<1> HIDE DEF p
<1>4. Quiet(p, F)
  BY <1>1, <1>2, <1>3, TextsAreQuiet
<1> QED
  BY <1>4 DEF p, c

(* A command that asks, and the row of its answer.                         *)
LEMMA AskingIsQuiet ==
  ASSUME NEW c, NEW a, NEW F, Keeps(c, F), c.do \in Asks,
         Keeps(a, F)
  PROVE  Quiet(<<c>>, F) /\ Quiet(<<c, a>>, F)
<1>1. ~IsAnswer(c)
  BY DEF Asks, IsAnswer
<1> DEFINE p == <<c>>
           q == <<c, a>>
<1>2. /\ p \in Seq({c}) /\ DOMAIN p = {1} /\ p[1] = c
      /\ q \in Seq({c, a}) /\ DOMAIN q = {1, 2} /\ q[1] = c /\ q[2] = a
  OBVIOUS
<1> HIDE DEF p, q
<1>3. Quiet(p, F)
  BY <1>1, <1>2 DEF Quiet, AnswersFollow
<1>4. \A i \in DOMAIN q : Keeps(q[i], F)
  BY <1>2
<1>5. ASSUME NEW i \in DOMAIN q, IsAnswer(q[i])
      PROVE  i > 1 /\ q[i - 1].do \in Asks
  <2>1. i = 2 /\ 2 - 1 = 1
    BY <1>1, <1>2, <1>5
  <2> QED
    BY <1>2, <2>1
<1>6. Quiet(q, F)
  BY <1>2, <1>4, <1>5 DEF Quiet, AnswersFollow
<1> QED
  BY <1>3, <1>6 DEF p, q

(* A quiet sequence that ends in a gdb_continue is a procedure as the      *)
(* theorems ask for; it records when there is a row in it.                 *)
LEMMA QuietThenContinue ==
  ASSUME NEW p, NEW F, Quiet(p, F)
  PROVE  /\ Fits(p \o <<Do("gdb_continue")>>, F)
         /\ (\E i \in DOMAIN p : p[i].do = "log") => Records(p \o <<Do("gdb_continue")>>)
<1> DEFINE c == Do("gdb_continue")
           q == <<c>>
           w == p \o q
<1>1. PICK S : p \in Seq(S)
  BY DEF Quiet
<1>2. c.do = "gdb_continue"
  BY CommandForms
<1> HIDE DEF c
<1> DEFINE T == {c}
<1>3. q \in Seq(T) /\ Len(q) = 1 /\ q[1] = c
  OBVIOUS
<1> HIDE DEF q, T
<1>4. /\ w \in Seq(S \cup T) /\ DOMAIN w = 1 .. Len(p) + Len(q)
      /\ Len(w) = Len(p) + Len(q)
      /\ Len(p) \in Nat /\ DOMAIN p = 1 .. Len(p)
      /\ \A i \in 1 .. Len(p) : w[i] = p[i]
      /\ \A i \in 1 .. Len(q) : w[Len(p) + i] = q[i]
  <2>1. q \in Seq(T)
    BY <1>3
  <2>2. /\ w \in Seq(S \cup T) /\ Len(w) = Len(p) + Len(q)
    BY <1>1, <2>1, Concat
  <2>3. DOMAIN w = 1 .. Len(p) + Len(q)
    BY <1>1, <2>1, Concat
  <2>4. Len(p) \in Nat /\ DOMAIN p = 1 .. Len(p)
    BY <1>1, <2>1, Concat
  <2>5. \A i \in 1 .. Len(p) : w[i] = p[i]
    BY <1>1, <2>1, Concat
  <2>6. \A i \in 1 .. Len(q) : w[Len(p) + i] = q[i]
    BY <1>1, <2>1, Concat
  <2> QED
    BY <2>2, <2>3, <2>4, <2>5, <2>6
<1> HIDE DEF w
<1>5. /\ DOMAIN w = 1 .. Len(p) + 1 /\ w[Len(p) + 1] = c
      /\ \A i \in DOMAIN p : i \in DOMAIN w /\ w[i] = p[i]
      /\ \A i \in DOMAIN w : i \in DOMAIN p \/ i = Len(p) + 1
  BY <1>3, <1>4
<1>6. \A i \in DOMAIN p : Keeps(p[i], F)
  BY DEF Quiet
<1>7. /\ \A i \in DOMAIN w : w[i].do \in SpecCommands /\ (w[i].do \in BindOps => w[i].arg \in F)
      /\ NoFaultRows(w)
      /\ \A i \in DOMAIN w : w[i].do \notin {"opd_setExit", "gdb_stepFinish", "gdb_stepNext"}
  <2>1. ASSUME NEW i \in DOMAIN w
        PROVE  /\ w[i].do \in SpecCommands /\ (w[i].do \in BindOps => w[i].arg \in F)
               /\ ~IsFaultRow(w[i])
               /\ w[i].do \notin {"opd_setExit", "gdb_stepFinish", "gdb_stepNext"}
    <3>1. CASE i \in DOMAIN p
      BY <1>5, <1>6, <3>1 DEF Keeps, SpecCommands
    <3>2. CASE i = Len(p) + 1
      BY <1>2, <1>5, <3>2 DEF SpecCommands, BindOps, IsFaultRow
    <3> QED
      BY <1>5, <2>1, <3>1, <3>2
  <2> QED
    BY <2>1 DEF NoFaultRows
<1>8. AnswersFollow(w)
  <2> SUFFICES ASSUME NEW i \in DOMAIN w, IsAnswer(w[i])
               PROVE  i > 1 /\ (w[i - 1].do \in Asks \/ IsAnswer(w[i - 1]))
    BY DEF AnswersFollow
  <2>1. i \in DOMAIN p
    BY <1>2, <1>5 DEF IsAnswer
  <2>2. i > 1 /\ (p[i - 1].do \in Asks \/ IsAnswer(p[i - 1]))
    BY <1>5, <2>1 DEF Quiet, AnswersFollow
  <2>3. w[i - 1] = p[i - 1]
    BY <1>4, <2>1, <2>2
  <2> QED
    BY <2>2, <2>3
<1>9. \A i \in DOMAIN p : w[i].do \notin Resumes
  BY <1>5, <1>6 DEF Keeps, Resumes
<1>10. ResumesOnce(w)
  <2> SUFFICES ASSUME NEW i \in DOMAIN w, NEW k \in DOMAIN w, w[i].do \in Resumes, i < k
               PROVE  w[k].do = "log"
    BY DEF ResumesOnce
  <2>1. i = Len(p) + 1
    BY <1>5, <1>9
  <2> QED
    BY <1>4, <1>5, <2>1
<1>11. StepsAwaited(w) /\ NeverExits(w)
  BY <1>7 DEF StepsAwaited, NeverExits
<1>12. Fits(w, F)
  BY <1>4, <1>7, <1>8, <1>10, <1>11 DEF Fits
<1>13. ASSUME NEW i \in DOMAIN p, p[i].do = "log" PROVE Records(w)
  <2>1. \A k \in 1 .. i : k \in DOMAIN p
    BY <1>4, <1>13
  <2>2. i \in DOMAIN w /\ w[i].do = "log"
    BY <1>5, <1>13
  <2> QED
    BY <1>9, <2>1, <2>2 DEF Records
<1> QED
  BY <1>12, <1>13 DEF c, q, w

(* A sequence that stops short of its gdb_continue fits as well: this is   *)
(* what opd_breakscript is after a Tcl error.                              *)
LEMMA QuietFits ==
  ASSUME NEW p, NEW F, Quiet(p, F)
  PROVE  Fits(p, F)
<1>1. \A i \in DOMAIN p : Keeps(p[i], F)
  BY DEF Quiet
<1>2. \A i \in DOMAIN p : p[i].do \in SpecCommands /\ (p[i].do \in BindOps => p[i].arg \in F)
  BY <1>1 DEF Keeps, SpecCommands
<1>3. \A i \in DOMAIN p : p[i].do \notin {"opd_setExit", "gdb_stepFinish", "gdb_stepNext"}
  BY <1>1 DEF Keeps
<1>4. \A i \in DOMAIN p : p[i].do \notin Resumes
  BY <1>1 DEF Keeps, Resumes
<1>5. StepsAwaited(p) /\ NeverExits(p)
  BY <1>3 DEF StepsAwaited, NeverExits
<1>6. ResumesOnce(p) /\ NoFaultRows(p)
  BY <1>1, <1>4 DEF ResumesOnce, NoFaultRows, Keeps
<1> QED
  BY <1>2, <1>5, <1>6 DEF Quiet, Fits

(* Two commands, one after the other.                                      *)
LEMMA Two ==
  ASSUME NEW a, NEW b
  PROVE  <<a, b>> = <<a>> \o <<b>> /\ \A S : \A p \in Seq(S) : p \o <<a, b>> = (p \o <<a>>) \o <<b>>
<1> DEFINE s == <<a>>
           t == <<b>>
           w == s \o t
           v == <<a, b>>
<1>1. /\ s \in Seq({a}) /\ Len(s) = 1 /\ s[1] = a
      /\ t \in Seq({b}) /\ Len(t) = 1 /\ t[1] = b
      /\ v \in Seq({a} \cup {b}) /\ Len(v) = 2 /\ v[1] = a /\ v[2] = b
  OBVIOUS
<1> DEFINE A == {a}
           B == {b}
<1>2. s \in Seq(A) /\ t \in Seq(B) /\ v \in Seq(A \cup B)
  BY <1>1
<1> HIDE DEF s, t, v, A, B
<1>3. /\ w \in Seq(A \cup B) /\ Len(w) = Len(s) + Len(t)
      /\ \A i \in 1 .. Len(s) : w[i] = s[i]
      /\ \A i \in 1 .. Len(t) : w[Len(s) + i] = t[i]
  BY <1>2, Concat
<1> HIDE DEF w
<1>4. Len(w) = 2 /\ w[1] = a /\ w[1 + 1] = b
  BY <1>1, <1>3
<1>5. \A i \in 1 .. Len(v) : v[i] = w[i]
  BY <1>1, <1>4
<1>6. v = w
  BY <1>1, <1>2, <1>3, <1>4, <1>5, SeqEqual
<1>7. ASSUME NEW S, NEW p \in Seq(S) PROVE p \o v = (p \o s) \o t
  <2> DEFINE T == S \cup {a, b}
  <2>1. p \in Seq(T) /\ s \in Seq(T) /\ t \in Seq(T)
    BY <1>1
  <2> HIDE DEF T
  <2>2. (p \o s) \o t = p \o (s \o t)
    BY <2>1, ConcatAssociative
  <2> QED
    BY <1>6, <2>2 DEF w
<1> QED
  BY <1>6, <1>7 DEF s, t, w, v

(* Three commands, split behind the first or behind the second.            *)
LEMMA Three ==
  ASSUME NEW a, NEW b, NEW c
  PROVE  <<a, b, c>> = <<a>> \o <<b, c>> /\ <<a, b, c>> = <<a, b>> \o <<c>>
<1> DEFINE All == {a, b, c}
           s == <<a>>
           t == <<b, c>>
           u == <<a, b>>
           r == <<c>>
           v == <<a, b, c>>
<1>1. /\ s \in Seq(All) /\ Len(s) = 1 /\ s[1] = a
      /\ t \in Seq(All) /\ Len(t) = 2 /\ t[1] = b /\ t[2] = c
      /\ u \in Seq(All) /\ Len(u) = 2 /\ u[1] = a /\ u[2] = b
      /\ r \in Seq(All) /\ Len(r) = 1 /\ r[1] = c
      /\ v \in Seq(All) /\ Len(v) = 3 /\ v[1] = a /\ v[2] = b /\ v[3] = c
  OBVIOUS
<1> HIDE DEF All, s, t, u, r, v
<1>2. \A p, q \in Seq(All) :
        /\ p \o q \in Seq(All) /\ Len(p \o q) = Len(p) + Len(q)
        /\ \A i \in 1 .. Len(p) + Len(q) :
             (p \o q)[i] = IF i <= Len(p) THEN p[i] ELSE q[i - Len(p)]
  BY ConcatProperties
<1>3. v = s \o t
  <2> DEFINE w == s \o t
  <2>0. /\ w \in Seq(All) /\ Len(w) = Len(s) + Len(t)
        /\ \A i \in 1 .. Len(s) + Len(t) :
             w[i] = IF i <= Len(s) THEN s[i] ELSE t[i - Len(s)]
    BY <1>1, <1>2
  <2> HIDE DEF w
  <2>1. /\ w \in Seq(All) /\ Len(w) = 1 + 2
        /\ \A i \in 1 .. 1 + 2 : w[i] = IF i <= 1 THEN s[i] ELSE t[i - 1]
    BY <1>1, <2>0
  <2>2. Len(w) = 3 /\ w[1] = a /\ w[2] = b /\ w[3] = c
    BY <1>1, <2>1
  <2>3. \A i \in 1 .. Len(v) : v[i] = w[i]
    BY <1>1, <2>2
  <2>4. v = w
    BY <1>1, <2>1, <2>2, <2>3, SeqEqual
  <2> QED
    BY <2>4 DEF w
<1>4. v = u \o r
  <2> DEFINE w == u \o r
  <2>0. /\ w \in Seq(All) /\ Len(w) = Len(u) + Len(r)
        /\ \A i \in 1 .. Len(u) + Len(r) :
             w[i] = IF i <= Len(u) THEN u[i] ELSE r[i - Len(u)]
    BY <1>1, <1>2
  <2> HIDE DEF w
  <2>1. /\ w \in Seq(All) /\ Len(w) = 2 + 1
        /\ \A i \in 1 .. 2 + 1 : w[i] = IF i <= 2 THEN u[i] ELSE r[i - 2]
    BY <1>1, <2>0
  <2>2. Len(w) = 3 /\ w[1] = a /\ w[2] = b /\ w[3] = c
    BY <1>1, <2>1
  <2>3. \A i \in 1 .. Len(v) : v[i] = w[i]
    BY <1>1, <2>2
  <2>4. v = w
    BY <1>1, <2>1, <2>2, <2>3, SeqEqual
  <2> QED
    BY <2>4 DEF w
<1> QED
  BY <1>3, <1>4 DEF s, t, u, r, v

----------------------------------------------------------------------------
(* What a breakpoint or a watchpoint is bound to, whatever expressions     *)
(* belong to it.                                                           *)

(* The expressions of a breakpoint: every answer follows its question.     *)
LEMMA QuestionsAreQuiet ==
  ASSUME NEW x, NEW E, NEW items \in Seq(E), NEW F
  PROVE  Quiet([i \in 1 .. 2 * Len(items) |->
                  IF i % 2 = 1 THEN Query("eval", items[(i + 1) \div 2])
                  ELSE Log("opd.spec.breakpoint.item", <<x, items[i \div 2]>>, "answer")], F)
<1> DEFINE question(i) == Query("eval", items[(i + 1) \div 2])
           answer(i)   == Log("opd.spec.breakpoint.item", <<x, items[i \div 2]>>, "answer")
           n == 2 * Len(items)
           p == [i \in 1 .. n |-> IF i % 2 = 1 THEN question(i) ELSE answer(i)]
<1>1. \A i : /\ question(i).do = "query"
             /\ answer(i).do = "log" /\ answer(i).arg[1] = "opd.spec.breakpoint.item"
             /\ answer(i).arg[3] = "answer"
  BY CommandForms
<1> HIDE DEF question, answer
<1>2. n \in Nat
  BY LenProperties
<1> HIDE DEF n
<1>3. /\ DOMAIN p = 1 .. n
      /\ \A i \in 1 .. n : p[i] = IF i % 2 = 1 THEN question(i) ELSE answer(i)
  OBVIOUS
<1> DEFINE T == {p[i] : i \in 1 .. n}
<1>4. p \in [1 .. n -> T]
  OBVIOUS
<1> HIDE DEF p, T
<1>5. \A i : Keeps(question(i), F) /\ ~IsAnswer(question(i)) /\ Keeps(answer(i), F)
  BY <1>1 DEF Keeps, IsFaultRow, IsAnswer, BindOps
<1>6. \A i \in DOMAIN p : Keeps(p[i], F)
  BY <1>3, <1>5
<1>7. ASSUME NEW i \in DOMAIN p, IsAnswer(p[i]) PROVE i > 1 /\ p[i - 1].do \in Asks
  <2>1. i \in 1 .. n /\ i % 2 # 1
    BY <1>3, <1>5, <1>7
  <2>2. i > 1 /\ i - 1 \in 1 .. n /\ (i - 1) % 2 = 1
    BY <1>2, <2>1
  <2>3. p[i - 1] = question(i - 1)
    BY <1>3, <2>2
  <2> QED
    BY <1>1, <2>2, <2>3 DEF Asks
<1>8. Quiet(p, F)
  <2>1. p \in Seq(T)
    BY <1>2, <1>4
  <2> QED
    BY <2>1, <1>6, <1>7 DEF Quiet, AnswersFollow
<1> QED
  BY <1>8 DEF p, n, question, answer

(* The stop, its stack and its expressions, and on.                        *)
LEMMA BreakpointFits ==
  ASSUME NEW x, NEW E, NEW items \in Seq(E), NEW F
  PROVE  Fits(script_bp(x, items), F) /\ Records(script_bp(x, items))
<1> DEFINE a == Log("opd.spec.breakpoint", x, "event")
           b == Query("stack", "")
           c == Log("opd.spec.breakpoint", x, "answer")
           s == <<a>>
           t == <<b, c>>
           q == [i \in 1 .. 2 * Len(items) |->
                   IF i % 2 = 1 THEN Query("eval", items[(i + 1) \div 2])
                   ELSE Log("opd.spec.breakpoint.item", <<x, items[i \div 2]>>, "answer")]
<1>1. Quiet(s, F)
  BY TextIsQuiet
<1>2. Quiet(t, F)
  <2>1. b.do = "query"
    <3>1. \A what, y : Query(what, y).do = "query"
      BY CommandForms
    <3> QED
      BY <3>1, Zenon
  <2>2. c.do = "log" /\ c.arg[1] = "opd.spec.breakpoint"
    BY CommandForms
  <2> HIDE DEF b, c
  <2>3. Keeps(b, F) /\ Keeps(c, F) /\ b.do \in Asks
    BY <2>1, <2>2 DEF Keeps, IsFaultRow, Asks, BindOps
  <2> QED
    BY <2>3, AskingIsQuiet
<1>3. Quiet(q, F)
  BY QuestionsAreQuiet
<1>4. a.do = "log"
  BY CommandForms
<1> HIDE DEF a, b, c, q
<1>5. <<a, b, c>> = s \o t
  BY Three
<1> DEFINE w == (s \o t) \o q
<1>6. Quiet(w, F)
  BY <1>1, <1>2, <1>3, QuietTogether
<1>7. \E i \in DOMAIN w : w[i].do = "log"
  <2>1. s \in Seq({a}) /\ Len(s) = 1 /\ s[1] = a
    OBVIOUS
  <2>2. PICK T : t \in Seq(T)
    BY <1>2 DEF Quiet
  <2>3. PICK U : q \in Seq(U)
    BY <1>3 DEF Quiet
  <2> HIDE DEF s, t
  <2> DEFINE v == s \o t
  <2>4. /\ v \in Seq({a} \cup T) /\ Len(v) = Len(s) + Len(t) /\ Len(t) \in Nat
        /\ \A i \in 1 .. Len(s) : v[i] = s[i]
    BY <2>1, <2>2, Concat
  <2> HIDE DEF v
  <2>5. /\ DOMAIN (v \o q) = 1 .. Len(v) + Len(q) /\ Len(v) \in Nat /\ Len(q) \in Nat
        /\ \A i \in 1 .. Len(v) : (v \o q)[i] = v[i]
    BY <2>3, <2>4, Concat
  <2>6. 1 \in 1 .. Len(s) /\ 1 \in 1 .. Len(v) /\ 1 \in 1 .. Len(v) + Len(q)
    BY <2>1, <2>4, <2>5
  <2>7. 1 \in DOMAIN (v \o q) /\ (v \o q)[1] = a
    BY <2>1, <2>4, <2>5, <2>6
  <2> QED
    BY <1>4, <2>7 DEF v
<1> HIDE DEF w
<1>8. Fits(w \o <<Do("gdb_continue")>>, F) /\ Records(w \o <<Do("gdb_continue")>>)
  BY <1>6, <1>7, QuietThenContinue
<1>9. script_bp(x, items) = w \o <<Do("gdb_continue")>>
  BY <1>5 DEF script_bp, w, a, b, c, q
<1> QED
  BY <1>8, <1>9

(* The start of a watchpoint at its location.                              *)
LEMMA WatchpointStartFits ==
  ASSUME NEW x, NEW F, <<"script_wa_up", x>> \in F
  PROVE  Fits(script_bp_wa(x), F) /\ Records(script_bp_wa(x))
<1> DEFINE a == Watch("script_wa_up", x)
           b == Log("opd.spec.watchpoint.start", x, "text")
           c == Do("gdb_continue")
           s == <<a>>
           t == <<b>>
           w == s \o t
<1>1. /\ a.do = "gdb_setWatchpoint" /\ a.arg = <<"script_wa_up", x>>
      /\ b.do = "log" /\ b.arg[1] = "opd.spec.watchpoint.start"
  BY CommandForms
<1>2. Quiet(t, F)
  BY TextIsQuiet
<1> HIDE DEF a, b, c
<1>3. Keeps(a, F) /\ Keeps(b, F) /\ a.do \in Asks
  BY <1>1 DEF Keeps, IsFaultRow, Asks, BindOps
<1>4. Quiet(s, F)
  BY <1>3, AskingIsQuiet
<1>5. Quiet(w, F)
  BY <1>2, <1>4, QuietTogether
<1>6. <<a, b>> = w
  BY Two
<1>7. \E i \in DOMAIN w : w[i].do = "log"
  <2>1. DOMAIN <<a, b>> = {1, 2} /\ <<a, b>>[2] = b
    OBVIOUS
  <2>2. 2 \in DOMAIN <<a, b>> /\ <<a, b>>[2].do = "log"
    BY <1>1, <2>1
  <2> QED
    BY <1>6, <2>2
<1>8. script_bp_wa(x) = w \o <<c>>
  <2>1. <<a, b, c>> = <<a, b>> \o <<c>>
    BY Three
  <2> QED
    BY <1>6, <2>1 DEF script_bp_wa, a, b, c
<1> HIDE DEF w
<1>9. Fits(w \o <<c>>, F) /\ Records(w \o <<c>>)
  BY <1>5, <1>7, QuietThenContinue DEF c
<1> QED
  BY <1>8, <1>9

(* A change of the watched variable.                                       *)
LEMMA WatchpointFits ==
  ASSUME NEW x, NEW item, NEW F
  PROVE  Fits(script_wa_up(x, item), F) /\ Records(script_wa_up(x, item))
<1> DEFINE a == Log("opd.spec.watchpoint", <<x, item>>, "event")
           c == Do("gdb_continue")
           w == <<a>>
<1>1. Quiet(w, F)
  BY TextIsQuiet
<1>2. a.do = "log"
  BY CommandForms
<1> HIDE DEF a, c
<1>3. 1 \in DOMAIN w /\ w[1].do = "log"
  BY <1>2
<1>4. script_wa_up(x, item) = w \o <<c>>
  BY Two DEF script_wa_up, a, c
<1> HIDE DEF w
<1>5. Fits(w \o <<c>>, F) /\ Records(w \o <<c>>)
  BY <1>1, <1>3, QuietThenContinue DEF c
<1> QED
  BY <1>4, <1>5

----------------------------------------------------------------------------
(* opd_readscript, line by line.                                           *)

(* The lines there are: a @watch names one variable, and an item is one    *)
(* expression.                                                             *)
SpecLine(L, E) ==
  {l \in [kind : {"bp", "watch", "item"}, at : L, items : Seq(E)] :
     l.kind \in {"watch", "item"} => Len(l.items) = 1}

(***************************************************************************)
(* The rows a procedure writes about the specification: the locations and  *)
(* expressions in them are among N, and the locations of watchpoints among *)
(* W.                                                                      *)
(***************************************************************************)
Named(key, x, N, W) ==
  /\ key = "opd.spec.breakpoint.set"      => x \in N
  /\ key = "opd.spec.breakpoint.set.item" => x[1] \in N /\ x[2] \in N
  /\ key = "opd.spec.breakpoint"          => x \in N
  /\ key = "opd.spec.breakpoint.item"     => x[1] \in N /\ x[2] \in N
  /\ key = "opd.spec.watchpoint"          => x[1] \in W /\ x[2] \in N

(* p writes such rows only, none of which is the event of a stop.          *)
Tidy(p, N) ==
  /\ \E S : p \in Seq(S)
  /\ \A i \in DOMAIN p : p[i].do = "log" =>
       p[i].arg[3] # "event" /\ Named(p[i].arg[1], p[i].arg[2], N, {})

(* Tidy sequences are tidy one behind the other.                           *)
LEMMA TidyTogether ==
  ASSUME NEW p, NEW q, NEW N, Tidy(p, N), Tidy(q, N)
  PROVE  Tidy(p \o q, N)
<1>1. PICK S : p \in Seq(S)
  BY DEF Tidy
<1>2. PICK T : q \in Seq(T)
  BY DEF Tidy
<1> DEFINE w == p \o q
<1>3. /\ w \in Seq(S \cup T) /\ DOMAIN w = 1 .. Len(p) + Len(q)
      /\ Len(p) \in Nat /\ Len(q) \in Nat
      /\ DOMAIN p = 1 .. Len(p) /\ DOMAIN q = 1 .. Len(q)
      /\ \A i \in 1 .. Len(p) : w[i] = p[i]
      /\ \A i \in 1 .. Len(q) : w[Len(p) + i] = q[i]
  BY <1>1, <1>2, Concat
<1> HIDE DEF w
<1>4. ASSUME NEW i \in DOMAIN w
      PROVE  w[i].do = "log" =>
               w[i].arg[3] # "event" /\ Named(w[i].arg[1], w[i].arg[2], N, {})
  <2>1. CASE i \in 1 .. Len(p)
    <3>1. i \in DOMAIN p /\ w[i] = p[i]
      BY <1>3, <2>1
    <3> QED
      BY <3>1 DEF Tidy
  <2>2. CASE i \notin 1 .. Len(p)
    <3>1. i - Len(p) \in 1 .. Len(q) /\ i = Len(p) + (i - Len(p))
      BY <1>3, <2>2
    <3>2. i - Len(p) \in DOMAIN q /\ w[i] = q[i - Len(p)]
      BY <1>3, <3>1
    <3> QED
      BY <3>2 DEF Tidy
  <2> QED
    BY <2>1, <2>2
<1>5. Tidy(w, N)
  BY <1>3, <1>4 DEF Tidy
<1> QED
  BY <1>5 DEF w

(* As many rows as there are.                                              *)
LEMMA RowsAreTidy ==
  ASSUME NEW p, NEW N, \E S : p \in Seq(S),
         \A i \in DOMAIN p : p[i].arg[3] # "event" /\ Named(p[i].arg[1], p[i].arg[2], N, {})
  PROVE  Tidy(p, N)
BY DEF Tidy

(* A single row.                                                           *)
LEMMA RowIsTidy ==
  ASSUME NEW key, NEW x, NEW of, NEW N, of # "event", Named(key, x, N, {})
  PROVE  Tidy(<<Log(key, x, of)>>, N)
<1> DEFINE c == Log(key, x, of)
           p == <<c>>
<1>1. c.arg[1] = key /\ c.arg[2] = x /\ c.arg[3] = of
  BY CommandForms
<1> HIDE DEF c
<1>2. p \in Seq({c}) /\ \A i \in DOMAIN p : p[i] = c
  OBVIOUS
<1> HIDE DEF p
<1>3. Tidy(p, N)
  BY <1>1, <1>2 DEF Tidy
<1> QED
  BY <1>3 DEF p, c

(* A command that writes none.                                             *)
LEMMA OtherIsTidy ==
  ASSUME NEW c, NEW N, c.do # "log"
  PROVE  Tidy(<<c>>, N)
<1> DEFINE p == <<c>>
<1>1. p \in Seq({c}) /\ \A i \in DOMAIN p : p[i] = c
  OBVIOUS
<1> HIDE DEF p
<1>2. Tidy(p, N)
  BY <1>1 DEF Tidy
<1> QED
  BY <1>2 DEF p

(* Nothing, and what only rank 0 does.                                     *)
LEMMA NothingIsTidy ==
  ASSUME NEW N
  PROVE  Tidy(<<>>, N) /\ \A rank, p : Tidy(p, N) => Tidy(OnRank0(rank, p), N)
<1>1. <<>> \in Seq({}) /\ DOMAIN <<>> = {}
  OBVIOUS
<1>2. Tidy(<<>>, N)
  BY <1>1 DEF Tidy
<1> QED
  BY <1>2 DEF OnRank0

(* What was read so far: what was done is quiet and tidy, and what belongs *)
(* to a location are expressions.                                          *)
IsReading(r, L, E, F) ==
  /\ DOMAIN r = {"items", "watched", "last", "done", "failed"}
  /\ r.items \in [L -> Seq(E)]
  /\ r.watched \in [L -> E \cup {NoLocation}]
  /\ r.last # NoLocation => r.last \in L
  /\ Quiet(r.done, F) /\ Tidy(r.done, L \cup E)

(* Doing nothing is quiet.                                                 *)
LEMMA NothingIsQuiet == ASSUME NEW F PROVE Quiet(<<>>, F)
<1>1. <<>> \in Seq({}) /\ DOMAIN <<>> = {}
  OBVIOUS
<1> QED
  BY <1>1 DEF Quiet, AnswersFollow

(* So is what only rank 0 does.                                            *)
LEMMA OnRank0IsQuiet ==
  ASSUME NEW rank, NEW p, NEW F, Quiet(p, F)
  PROVE  Quiet(OnRank0(rank, p), F)
BY NothingIsQuiet DEF OnRank0

(* Before the first line nothing was done.                                 *)
LEMMA ReadStartKeeps ==
  ASSUME NEW L, NEW E, NEW F
  PROVE  IsReading(ReadStart(L), L, E, F)
<1> DEFINE r == ReadStart(L)
<1>1. /\ DOMAIN r = {"items", "watched", "last", "done", "failed"}
      /\ r.items = [x \in L |-> <<>>] /\ r.last = NoLocation /\ r.done = <<>>
  BY Zenon DEF ReadStart
<1> HIDE DEF r
<1>2. r.items \in [L -> Seq(E)]
  BY <1>1
<1>3. Quiet(r.done, F) /\ Tidy(r.done, L \cup E)
  BY <1>1, NothingIsQuiet, NothingIsTidy
<1>4. r.watched \in [L -> E \cup {NoLocation}]
  <2>1. r.watched = [x \in L |-> NoLocation]
    BY Zenon DEF r, ReadStart, NoLocation
  <2> QED
    BY <2>1
<1>5. IsReading(r, L, E, F)
  BY <1>1, <1>2, <1>3, <1>4 DEF IsReading
<1> QED
  BY <1>5 DEF r

(* A breakpoint: the rows of rank 0, the insertion and its answer.         *)
LEMMA ReadBpKeeps ==
  ASSUME NEW L, NEW E, NEW F, NEW l \in SpecLine(L, E), NEW rank, NEW r,
         IsReading(r, L, E, F), <<"script_bp", l.at>> \in F
  PROVE  IsReading(ReadBp(r, l, rank), L, E, F)
<1> DEFINE a == Log("opd.spec.breakpoint.set", l.at, "text")
           rows == [i \in DOMAIN l.items |->
                      Log("opd.spec.breakpoint.set.item", <<l.at, l.items[i]>>, "text")]
           b == Break("script_bp", l.at)
           c == Log("opd.breakpoint.set", l.at, "answer")
           s == OnRank0(rank, <<a>>)
           t == OnRank0(rank, rows)
           u == <<b, c>>
           more == ((r.done \o s) \o t) \o u
<1>1. l.at \in L /\ l.items \in Seq(E)
  BY DEF SpecLine
<1>2. Quiet(s, F)
  BY TextIsQuiet, OnRank0IsQuiet
<1>11. \E S : rows \in Seq(S)
  <2> DEFINE n == Len(l.items)
             S == {rows[i] : i \in 1 .. n}
  <2>1. n \in Nat /\ DOMAIN l.items = 1 .. n
    BY <1>1, LenProperties
  <2>2. rows \in [1 .. n -> S]
    BY <2>1
  <2> HIDE DEF rows, n, S
  <2>3. rows \in Seq(S)
    BY <2>1, <2>2
  <2> QED
    BY <2>3
<1>3. Quiet(t, F)
  <2>1. \A i \in DOMAIN rows : /\ rows[i].do = "log" /\ rows[i].arg[3] = "text"
                               /\ rows[i].arg[1] = "opd.spec.breakpoint.set.item"
    BY CommandForms
  <2> HIDE DEF rows
  <2>3. Quiet(rows, F)
    BY <1>11, <2>1, TextsAreQuiet
  <2> QED
    BY <2>3, OnRank0IsQuiet
<1>4. Quiet(u, F)
  <2>1. /\ b.do = "gdb_setBreakpoint" /\ b.arg = <<"script_bp", l.at>>
        /\ c.do = "log" /\ c.arg[1] = "opd.breakpoint.set"
    BY CommandForms
  <2> HIDE DEF b, c
  <2>2. Keeps(b, F) /\ Keeps(c, F) /\ b.do \in Asks
    BY <2>1 DEF Keeps, IsFaultRow, Asks, BindOps
  <2> QED
    BY <2>2, AskingIsQuiet
<1>10. Tidy(s, L \cup E) /\ Tidy(t, L \cup E) /\ Tidy(u, L \cup E)
  <2>1. Tidy(<<a>>, L \cup E)
    BY <1>1, RowIsTidy DEF Named
  <2>2. Tidy(rows, L \cup E)
    <3>1. \A y, z : <<y, z>>[1] = y /\ <<y, z>>[2] = z
      OBVIOUS
    <3>2. \A i \in DOMAIN rows : /\ rows[i].arg[1] = "opd.spec.breakpoint.set.item"
                                 /\ rows[i].arg[2] = <<l.at, l.items[i]>>
                                 /\ rows[i].arg[3] = "text"
      BY CommandForms
    <3>3. \A i \in DOMAIN l.items : l.items[i] \in E
      BY <1>1
    <3>4. (\E S : rows \in Seq(S)) /\ DOMAIN rows = DOMAIN l.items
      BY <1>11
    <3> HIDE DEF rows
    <3> QED
      BY <1>1, <3>1, <3>2, <3>3, <3>4, RowsAreTidy DEF Named
  <2>3. Tidy(<<b>>, L \cup E) /\ Tidy(<<c>>, L \cup E)
    <3>1. b.do = "gdb_setBreakpoint"
      BY CommandForms
    <3>2. Tidy(<<c>>, L \cup E)
      BY RowIsTidy DEF Named
    <3> HIDE DEF b, c
    <3> QED
      BY <3>1, <3>2, OtherIsTidy
  <2>4. Tidy(s, L \cup E) /\ Tidy(t, L \cup E)
    BY <2>1, <2>2, NothingIsTidy
  <2>5. u = <<b>> \o <<c>>
    BY Two
  <2>6. Tidy(<<b>> \o <<c>>, L \cup E)
    BY <2>3, TidyTogether
  <2> QED
    BY <2>4, <2>5, <2>6
<1> HIDE DEF s, t, u
<1>5. Quiet(more, F) /\ Tidy(more, L \cup E)
  BY <1>2, <1>3, <1>4, <1>10, QuietTogether, TidyTogether DEF IsReading
<1> DEFINE q == ReadBp(r, l, rank)
<1>6. q = [r EXCEPT !.items[l.at] = l.items, !.last = l.at, !.done = more]
  BY DEF ReadBp, s, t, u
<1> HIDE DEF q, more
<1>7. /\ DOMAIN q = DOMAIN r /\ q.items = [r.items EXCEPT ![l.at] = l.items]
      /\ q.last = l.at /\ q.done = more /\ q.watched = r.watched
  BY <1>6 DEF IsReading
<1>8. q.items \in [L -> Seq(E)]
  BY <1>1, <1>7 DEF IsReading
<1>9. IsReading(q, L, E, F)
  BY <1>1, <1>5, <1>7, <1>8 DEF IsReading
<1> QED
  BY <1>9 DEF q

(* A watchpoint: a breakpoint at its location, and the row of rank 0.      *)
LEMMA ReadWatchKeeps ==
  ASSUME NEW L, NEW E, NEW F, NEW l \in SpecLine(L, E), NEW rank, NEW r,
         IsReading(r, L, E, F), <<"script_bp_wa", l.at>> \in F, l.kind = "watch"
  PROVE  IsReading(ReadWatch(r, l, rank), L, E, F)
<1> DEFINE b == Break("script_bp_wa", l.at)
           a == Log("opd.spec.watchpoint.set", l.at, "text")
           s == <<b>>
           t == OnRank0(rank, <<a>>)
           more == (r.done \o s) \o t
<1>1. Quiet(s, F)
  <2>1. b.do = "gdb_setBreakpoint" /\ b.arg = <<"script_bp_wa", l.at>>
    BY CommandForms
  <2> HIDE DEF b
  <2>2. Keeps(b, F) /\ b.do \in Asks
    BY <2>1 DEF Keeps, IsFaultRow, Asks, BindOps
  <2> QED
    BY <2>2, AskingIsQuiet
<1>2. Quiet(t, F)
  BY TextIsQuiet, OnRank0IsQuiet
<1>7. Tidy(s, L \cup E) /\ Tidy(t, L \cup E)
  <2>1. b.do = "gdb_setBreakpoint"
    BY CommandForms
  <2>2. Tidy(<<a>>, L \cup E)
    BY RowIsTidy DEF Named
  <2> HIDE DEF a, b
  <2> QED
    BY <2>1, <2>2, OtherIsTidy, NothingIsTidy
<1> HIDE DEF s, t
<1>3. Quiet(more, F) /\ Tidy(more, L \cup E)
  BY <1>1, <1>2, <1>7, QuietTogether, TidyTogether DEF IsReading
<1> DEFINE q == ReadWatch(r, l, rank)
<1>4. q = [r EXCEPT !.watched[l.at] = l.items[1], !.done = more]
  BY DEF ReadWatch, s, t
<1> HIDE DEF q, more
<1>5. /\ DOMAIN q = DOMAIN r /\ q.items = r.items /\ q.last = r.last /\ q.done = more
      /\ q.watched = [r.watched EXCEPT ![l.at] = l.items[1]]
  BY <1>4 DEF IsReading
<1>8. q.watched \in [L -> E \cup {NoLocation}]
  <2>1. l.at \in L /\ l.items \in Seq(E) /\ Len(l.items) = 1
    BY DEF SpecLine
  <2>2. l.items[1] \in E
    BY <2>1
  <2> QED
    BY <1>5, <2>1, <2>2 DEF IsReading
<1>6. IsReading(q, L, E, F)
  BY <1>3, <1>5, <1>8 DEF IsReading
<1> QED
  BY <1>6 DEF q

(* An expression joins those of the last location, and rank 0 writes a row *)
(* unless it is blank; without a location nothing is done any more.        *)
LEMMA ReadItemKeeps ==
  ASSUME NEW L, NEW E, NEW F, NEW l \in SpecLine(L, E), NEW rank, NEW r,
         IsReading(r, L, E, F), l.kind = "item"
  PROVE  IsReading(ReadItem(r, l, rank), L, E, F)
<1> DEFINE q == ReadItem(r, l, rank)
<1>1. l.items \in Seq(E)
  BY DEF SpecLine
<1>2. CASE r.last = NoLocation
  <2>1. q = [r EXCEPT !.failed = TRUE]
    BY <1>2 DEF ReadItem
  <2> HIDE DEF q
  <2>2. /\ DOMAIN q = DOMAIN r /\ q.items = r.items /\ q.last = r.last /\ q.done = r.done
        /\ q.watched = r.watched
    BY <2>1 DEF IsReading
  <2>3. IsReading(q, L, E, F)
    BY <2>2 DEF IsReading
  <2> QED
    BY <2>3 DEF q
<1>3. CASE r.last # NoLocation
  <2> DEFINE a == Log("opd.spec.breakpoint.set.item", <<r.last, l.items[1]>>, "text")
             s == IF l.items = <<"">> THEN <<>> ELSE OnRank0(rank, <<a>>)
             more == r.done \o s
  <2>1. Quiet(s, F)
    <3>1. Quiet(OnRank0(rank, <<a>>), F) /\ Quiet(<<>>, F)
      BY TextIsQuiet, OnRank0IsQuiet, NothingIsQuiet
    <3> QED
      BY <3>1, Zenon
  <2>7. Tidy(s, L \cup E)
    <3>1. l.items[1] \in E /\ r.last \in L
      <4>1. Len(l.items) = 1
        BY DEF SpecLine
      <4> QED
        BY <1>1, <1>3, <4>1 DEF IsReading
    <3>2. \A y, z : <<y, z>>[1] = y /\ <<y, z>>[2] = z
      OBVIOUS
    <3>3. Named("opd.spec.breakpoint.set.item", <<r.last, l.items[1]>>, L \cup E, {})
      BY <3>1, <3>2 DEF Named
    <3>4. Tidy(<<a>>, L \cup E)
      BY <3>3, RowIsTidy
    <3>5. Tidy(OnRank0(rank, <<a>>), L \cup E) /\ Tidy(<<>>, L \cup E)
      BY <3>4, NothingIsTidy
    <3> QED
      BY <3>5, Zenon
  <2>2. q = [r EXCEPT !.items[r.last] = @ \o l.items, !.done = more]
    BY <1>3, Zenon DEF ReadItem
  <2> HIDE DEF s
  <2>3. Quiet(more, F) /\ Tidy(more, L \cup E)
    BY <2>1, <2>7, QuietTogether, TidyTogether DEF IsReading
  <2> HIDE DEF q, more
  <2>4. /\ DOMAIN q = DOMAIN r /\ q.items = [r.items EXCEPT ![r.last] = @ \o l.items]
        /\ q.last = r.last /\ q.done = more /\ q.watched = r.watched
    BY <2>2 DEF IsReading
  <2>5. q.items \in [L -> Seq(E)]
    <3>1. r.last \in L /\ r.items \in [L -> Seq(E)]
      BY <1>3 DEF IsReading
    <3>2. r.items[r.last] \o l.items \in Seq(E)
      BY <1>1, <3>1, ConcatProperties
    <3> QED
      BY <2>4, <3>1, <3>2
  <2>6. IsReading(q, L, E, F)
    BY <2>3, <2>4, <2>5 DEF IsReading
  <2> QED
    BY <2>6 DEF q
<1> QED
  BY <1>2, <1>3

(* The functions of a specification, one kind after the other.             *)
LEMMA FunctionsOf ==
  ASSUME NEW L, NEW E, NEW spec \in Seq(SpecLine(L, E))
  PROVE  /\ <<"opd_breakscript", NoLocation>> \in SpecFunctions(spec)
         /\ \A i \in DOMAIN spec : spec[i].kind = "bp" =>
              <<"script_bp", spec[i].at>> \in SpecFunctions(spec)
         /\ \A i \in DOMAIN spec : spec[i].kind = "watch" =>
              /\ <<"script_bp_wa", spec[i].at>> \in SpecFunctions(spec)
              /\ <<"script_wa_up", spec[i].at>> \in SpecFunctions(spec)
         /\ \A f \in SpecFunctions(spec) :
              \/ f = <<"opd_breakscript", NoLocation>>
              \/ \E i \in DOMAIN spec : spec[i].kind = "bp" /\ f = <<"script_bp", spec[i].at>>
              \/ \E i \in DOMAIN spec :
                   /\ spec[i].kind = "watch"
                   /\ f = <<"script_bp_wa", spec[i].at>> \/ f = <<"script_wa_up", spec[i].at>>
BY DEF SpecFunctions

(* One line keeps it, whatever the line is.                                *)
LEMMA ReadLineKeeps ==
  ASSUME NEW L, NEW E, NEW F, NEW l \in SpecLine(L, E), NEW rank, NEW r,
         IsReading(r, L, E, F),
         l.kind = "bp" => <<"script_bp", l.at>> \in F,
         l.kind = "watch" => <<"script_bp_wa", l.at>> \in F
  PROVE  IsReading(ReadLine(r, l, rank), L, E, F)
<1>1. l.kind \in {"bp", "watch", "item"}
  BY DEF SpecLine
<1>2. CASE r.failed
  BY <1>2 DEF ReadLine
<1>3. CASE ~r.failed /\ l.kind = "bp"
  BY <1>3, ReadBpKeeps DEF ReadLine
<1>4. CASE ~r.failed /\ l.kind = "watch"
  BY <1>4, ReadWatchKeeps DEF ReadLine
<1>5. CASE ~r.failed /\ l.kind = "item"
  BY <1>5, ReadItemKeeps DEF ReadLine
<1> QED
  BY <1>1, <1>2, <1>3, <1>4, <1>5

(* read is what opd_readscript has read after each of the first n lines.   *)
ReadTo(read, n, spec, rank) ==
  read = [i \in 0 .. n |->
            IF i = 0 THEN ReadStart({spec[k].at : k \in DOMAIN spec})
                     ELSE ReadLine(read[i - 1], spec[i], rank)]

(* Lines can be read one after the other, however many there are: there is *)
(* no least number of lines behind which there is nothing to read on from. *)
LEMMA ReadingGoesOn ==
  ASSUME NEW spec, NEW rank, NEW n \in Nat
  PROVE  \E read : ReadTo(read, n, spec, rank)
<1> DEFINE start == ReadStart({spec[k].at : k \in DOMAIN spec})
           Stuck == {m \in Nat : ~\E read : ReadTo(read, m, spec, rank)}
<1>1. SUFFICES ASSUME n \in Stuck PROVE FALSE
  OBVIOUS
<1>2. PICK m \in Stuck : \A k \in Stuck : m <= k
  BY <1>1, LeastNatural
<1>3. m \in Nat
  OBVIOUS
<1>4. CASE m = 0
  <2> DEFINE read == [i \in 0 .. 0 |-> start]
  <2>1. read = [i \in 0 .. m |-> IF i = 0 THEN start ELSE ReadLine(read[i - 1], spec[i], rank)]
    BY <1>4
  <2>2. ReadTo(read, m, spec, rank)
    BY <2>1 DEF ReadTo
  <2> QED
    BY <2>2
<1>5. CASE m # 0
  <2>1. m - 1 \in Nat /\ ~(m <= m - 1)
    BY <1>3, <1>5
  <2>2. m - 1 \notin Stuck
    BY <1>2, <2>1
  <2>3. PICK before : ReadTo(before, m - 1, spec, rank)
    BY <2>1, <2>2
  <2> DEFINE read == [i \in 0 .. m |-> IF i = m THEN ReadLine(before[m - 1], spec[m], rank)
                                                ELSE before[i]]
  <2>4. /\ DOMAIN before = 0 .. m - 1
        /\ \A i \in 0 .. m - 1 :
             before[i] = IF i = 0 THEN start ELSE ReadLine(before[i - 1], spec[i], rank)
    BY <2>3 DEF ReadTo
  <2> HIDE DEF start
  <2>5. ASSUME NEW i \in 0 .. m
        PROVE  read[i] = IF i = 0 THEN start ELSE ReadLine(read[i - 1], spec[i], rank)
    <3>1. CASE i = m
      <4>1. read[m - 1] = before[m - 1] /\ read[m] = ReadLine(before[m - 1], spec[m], rank)
        BY <1>3, <1>5
      <4> QED
        BY <1>5, <3>1, <4>1
    <3>2. CASE i # m
      <4>1. i \in 0 .. m - 1 /\ read[i] = before[i] /\ (i # 0 => read[i - 1] = before[i - 1])
        BY <1>3, <3>2
      <4> QED
        BY <2>4, <4>1
    <3> QED
      BY <3>1, <3>2
  <2>6. read = [i \in 0 .. m |-> IF i = 0 THEN start ELSE ReadLine(read[i - 1], spec[i], rank)]
    BY <2>5
  <2>7. ReadTo(read, m, spec, rank)
    BY <2>6 DEF ReadTo, start
  <2> QED
    BY <2>7
<1> QED
  BY <1>4, <1>5

(* What opd_readscript has done is quiet, for every specification.         *)
LEMMA ReadscriptIsQuiet ==
  ASSUME NEW L, NEW E, NEW spec \in Seq(SpecLine(L, E)), NEW rank
  PROVE  IsReading(opd_readscript(spec, rank), {spec[i].at : i \in DOMAIN spec}, E,
                   SpecFunctions(spec))
<1> DEFINE F == SpecFunctions(spec)
           locations == {spec[i].at : i \in DOMAIN spec}
           Holds(g, i) == IsReading(g[i], locations, E, F)
           n == Len(spec)
<1>1. n \in Nat /\ DOMAIN spec = 1 .. n
  BY LenProperties
<1>2. PICK read : ReadTo(read, n, spec, rank) /\ opd_readscript(spec, rank) = read[n]
  <2> DEFINE chosen == CHOOSE read : ReadTo(read, n, spec, rank)
  <2>1. ReadTo(chosen, n, spec, rank)
    BY <1>1, ReadingGoesOn
  <2>2. opd_readscript(spec, rank) = chosen[n]
    BY DEF opd_readscript, ReadTo
  <2> QED
    BY <2>1, <2>2
<1>3. /\ read[0] = ReadStart(locations)
      /\ \A i \in 1 .. n : read[i] = ReadLine(read[i - 1], spec[i], rank)
  BY <1>1, <1>2 DEF ReadTo
<1>4. ASSUME NEW i \in DOMAIN spec, Holds(read, i - 1) PROVE Holds(read, i)
  <2>1. spec[i] \in SpecLine(L, E) /\ spec[i].at \in locations
    OBVIOUS
  <2>2. spec[i] \in SpecLine(locations, E)
    <3> DEFINE l == spec[i]
    <3>1. /\ l \in [kind : {"bp", "watch", "item"}, at : L, items : Seq(E)] /\ l.at \in locations
          /\ l.kind \in {"watch", "item"} => Len(l.items) = 1
      BY <2>1 DEF SpecLine
    <3> HIDE DEF l, locations
    <3>2. l \in [kind : {"bp", "watch", "item"}, at : locations, items : Seq(E)]
      BY <3>1
    <3> QED
      BY <3>1, <3>2 DEF SpecLine, l
  <2>3. /\ spec[i].kind = "bp" => <<"script_bp", spec[i].at>> \in F
        /\ spec[i].kind = "watch" => <<"script_bp_wa", spec[i].at>> \in F
    BY FunctionsOf, Zenon
  <2>4. read[i] = ReadLine(read[i - 1], spec[i], rank)
    BY <1>1, <1>3
  <2> HIDE DEF F, locations
  <2>5. IsReading(ReadLine(read[i - 1], spec[i], rank), locations, E, F)
    BY <1>4, <2>2, <2>3, ReadLineKeeps
  <2> QED
    BY <2>4, <2>5
<1>5. Holds(read, 0)
  BY <1>3, ReadStartKeeps
<1> HIDE DEF Holds, F, locations
<1>6. Holds(read, n)
  <2> DEFINE Broken == {i \in 0 .. n : ~Holds(read, i)}
  <2>1. SUFFICES ASSUME Broken # {} PROVE FALSE
    BY <1>1
  <2>2. Broken \subseteq Nat
    BY <1>1
  <2> HIDE DEF Broken
  <2>3. PICK m \in Broken : \A k \in Broken : m <= k
    BY <2>1, <2>2, LeastNatural
  <2>4. m \in DOMAIN spec /\ m - 1 \in 0 .. n /\ ~(m <= m - 1) /\ ~Holds(read, m)
    BY <1>1, <1>5 DEF Broken
  <2>5. Holds(read, m - 1)
    BY <2>3, <2>4 DEF Broken
  <2> QED
    BY <1>4, <2>4, <2>5
<1> QED
  BY <1>2, <1>6 DEF Holds, F, locations

(* opd_breakscript resumes the application behind the last line, unless an *)
(* error stops it where it is.                                             *)
LEMMA BreakscriptFits ==
  ASSUME NEW L, NEW E, NEW spec \in Seq(SpecLine(L, E)), NEW rank
  PROVE  /\ Fits(opd_breakscript(spec, rank), SpecFunctions(spec))
         /\ ~opd_readscript(spec, rank).failed => Records(opd_breakscript(spec, rank))
<1> DEFINE F == SpecFunctions(spec)
           r == opd_readscript(spec, rank)
           a == Log("opd.spec.done", "", "text")
           c == Do("gdb_continue")
           s == <<a>>
           w == r.done \o s
<1>1. Quiet(r.done, F)
  BY ReadscriptIsQuiet DEF IsReading
<1>2. opd_breakscript(spec, rank) = IF r.failed THEN r.done ELSE r.done \o <<a, c>>
  BY DEF opd_breakscript
<1>3. a.do = "log" /\ Quiet(s, F)
  <2>1. a.do = "log"
    <3>1. \A key, x, of : Log(key, x, of).do = "log"
      BY CommandForms
    <3> QED
      BY <3>1, Zenon
  <2>2. "opd.spec.done" # "opd.SEGFAULT" /\ "text" # "answer"
    OBVIOUS
  <2>3. Quiet(s, F)
    BY <2>2, TextIsQuiet, Zenon
  <2> QED
    BY <2>1, <2>3, Zenon
<1> HIDE DEF F, r, a, c
<1>4. CASE r.failed
  <2>1. opd_breakscript(spec, rank) = r.done
    BY <1>2, <1>4
  <2> QED
    BY <1>1, <1>4, <2>1, QuietFits DEF r, F
<1>5. CASE ~r.failed
  <2>1. opd_breakscript(spec, rank) = r.done \o <<a, c>>
    BY <1>2, <1>5
  <2>2. PICK S : r.done \in Seq(S)
    BY <1>1 DEF Quiet
  <2>3. opd_breakscript(spec, rank) = w \o <<c>>
    BY <2>1, <2>2, Two
  <2>4. Quiet(w, F)
    BY <1>1, <1>3, QuietTogether
  <2>5. \E i \in DOMAIN w : w[i].do = "log"
    <3> DEFINE T == {a}
    <3>1. s \in Seq(T) /\ Len(s) = 1 /\ s[1] = a
      OBVIOUS
    <3> HIDE DEF s, T
    <3>2. /\ DOMAIN w = 1 .. Len(r.done) + Len(s) /\ Len(r.done) \in Nat
      BY <2>2, <3>1, Concat
    <3>3. \A i \in 1 .. Len(s) : w[Len(r.done) + i] = s[i]
      BY <2>2, <3>1, Concat
    <3> HIDE DEF w
    <3>4. Len(r.done) + 1 \in DOMAIN w /\ w[Len(r.done) + 1] = a
      BY <3>1, <3>2, <3>3
    <3> QED
      BY <1>3, <3>4
  <2> HIDE DEF w
  <2>6. Fits(w \o <<c>>, F) /\ Records(w \o <<c>>)
    BY <2>4, <2>5, QuietThenContinue DEF c
  <2> QED
    BY <2>3, <2>6 DEF F
<1> QED
  BY <1>4, <1>5

(* Every procedure that opd.tcl makes of a debugging specification, of any *)
(* length and over any locations and expressions, is one the theorems      *)
(* about sessions speak of, and binds functions of the specification only. *)
(* It writes a row before it resumes the application, unless the Tcl error *)
(* of an expression without a location cuts opd_breakscript short.         *)
THEOREM SpecificationsFit ==
  ASSUME NEW L, NEW E, NEW spec \in Seq(SpecLine(L, E)), NEW rank,
         NEW f \in SpecFunctions(spec)
  PROVE  /\ Fits(SpecProc(spec, rank)[f], SpecFunctions(spec))
         /\ ~opd_readscript(spec, rank).failed => Records(SpecProc(spec, rank)[f])
<1> DEFINE F == SpecFunctions(spec)
           r == opd_readscript(spec, rank)
           p == SpecProc(spec, rank)[f]
<1>1. \A x : /\ <<"opd_breakscript", x>>[1] = "opd_breakscript"
             /\ <<"script_bp", x>>[1] = "script_bp"       /\ <<"script_bp", x>>[2] = x
             /\ <<"script_bp_wa", x>>[1] = "script_bp_wa" /\ <<"script_bp_wa", x>>[2] = x
             /\ <<"script_wa_up", x>>[1] = "script_wa_up" /\ <<"script_wa_up", x>>[2] = x
  OBVIOUS
<1>2. /\ f[1] = "opd_breakscript" => p = opd_breakscript(spec, rank)
      /\ f[1] = "script_bp"       => p = script_bp(f[2], r.items[f[2]])
      /\ f[1] = "script_bp_wa"    => p = script_bp_wa(f[2])
      /\ f[1] = "script_wa_up"    => p = script_wa_up(f[2], r.watched[f[2]])
  BY DEF SpecProc
<1> HIDE DEF p, r
<1>3. CASE f = <<"opd_breakscript", NoLocation>>
  <2>1. p = opd_breakscript(spec, rank)
    BY <1>1, <1>2, <1>3
  <2> QED
    BY <2>1, BreakscriptFits DEF p
<1>4. ASSUME NEW i \in DOMAIN spec, spec[i].kind = "bp", f = <<"script_bp", spec[i].at>>
      PROVE  Fits(p, F) /\ Records(p)
  <2>1. p = script_bp(spec[i].at, r.items[spec[i].at])
    BY <1>1, <1>2, <1>4
  <2>2. r.items[spec[i].at] \in Seq(E)
    <3> DEFINE g == r.items
               D == {spec[k].at : k \in DOMAIN spec}
    <3>1. g \in [D -> Seq(E)]
      <4>1. IsReading(r, D, E, F)
        BY ReadscriptIsQuiet DEF r
      <4> QED
        BY <4>1 DEF IsReading
    <3>2. spec[i].at \in D
      OBVIOUS
    <3> HIDE DEF g, D
    <3>3. g[spec[i].at] \in Seq(E)
      BY <3>1, <3>2
    <3> QED
      BY <3>3 DEF g
  <2> QED
    BY <2>1, <2>2, BreakpointFits
<1>5. ASSUME NEW i \in DOMAIN spec, spec[i].kind = "watch",
             f = <<"script_bp_wa", spec[i].at>> \/ f = <<"script_wa_up", spec[i].at>>
      PROVE  Fits(p, F) /\ Records(p)
  <2>1. CASE f = <<"script_bp_wa", spec[i].at>>
    <3>1. p = script_bp_wa(spec[i].at)
      BY <1>1, <1>2, <2>1
    <3>2. <<"script_wa_up", spec[i].at>> \in F
      BY <1>5, FunctionsOf
    <3> QED
      BY <3>1, <3>2, WatchpointStartFits
  <2>2. CASE f = <<"script_wa_up", spec[i].at>>
    <3>1. p = script_wa_up(spec[i].at, r.watched[spec[i].at])
      BY <1>1, <1>2, <2>2
    <3> QED
      BY <3>1, WatchpointFits
  <2> QED
    BY <1>5, <2>1, <2>2
<1> QED
  BY <1>3, <1>4, <1>5, FunctionsOf DEF p

----------------------------------------------------------------------------
(* opd -d, for every debugging specification: the theorems about sessions  *)
(* hold without a condition on the script.                                 *)

(* The script is a debugging specification, and opd_processscript sets its *)
(* first breakpoint.                                                       *)
RunsSpecification(spec, rank) ==
  /\ Functions = SpecFunctions(spec)
  /\ Proc = SpecProc(spec, rank)
  /\ Setup = opd_processscript

(* The breakpoint at main binds a function of every specification.         *)
LEMMA SetupFits ==
  ASSUME NEW F, <<"opd_breakscript", NoLocation>> \in F
  PROVE  Quiet(opd_processscript, F)
<1> DEFINE b == Break("opd_breakscript", NoLocation)
<1>1. b.do = "gdb_setBreakpoint" /\ b.arg = <<"opd_breakscript", NoLocation>>
  BY CommandForms
<1> HIDE DEF b
<1>2. Keeps(b, F) /\ b.do \in Asks
  BY <1>1 DEF Keeps, IsFaultRow, Asks, BindOps
<1>3. Quiet(<<b>>, F)
  BY <1>2, AskingIsQuiet
<1> QED
  BY <1>3 DEF opd_processscript, b

(* It does nothing but bind it.                                            *)
LEMMA SetupOfSpecifications ==
  ASSUME Setup = opd_processscript
  PROVE  SetupBinds
<1> DEFINE b == Break("opd_breakscript", NoLocation)
<1>1. b.do = "gdb_setBreakpoint"
  BY CommandForms
<1> HIDE DEF b
<1>2. \A i \in DOMAIN <<b>> : <<b>>[i] = b
  OBVIOUS
<1>3. Setup = <<b>>
  BY DEF opd_processscript, b
<1>4. \A i \in DOMAIN Setup : Setup[i].do = "gdb_setBreakpoint"
  BY <1>1, <1>2, <1>3
<1> QED
  BY <1>4 DEF SetupBinds

(* What the theorems about sessions ask of a script.                       *)
LEMMA SpecificationProcedures ==
  ASSUME NEW L, NEW E, NEW spec \in Seq(SpecLine(L, E)), NEW rank,
         RunsSpecification(spec, rank)
  PROVE  /\ \A p \in Procedures : Fits(p, Functions)
         /\ ~opd_readscript(spec, rank).failed => ScriptsInOrder
<1>1. Quiet(Setup, Functions)
  BY SetupFits, FunctionsOf DEF RunsSpecification
<1>2. \A f \in Functions : Fits(Proc[f], Functions)
  BY SpecificationsFit DEF RunsSpecification
<1>3. \A p \in Procedures : Fits(p, Functions)
  BY <1>1, <1>2, QuietFits DEF Procedures
<1>4. ASSUME ~opd_readscript(spec, rank).failed PROVE ScriptsInOrder
  <2>1. \A f \in Functions : Records(Proc[f])
    BY <1>4, SpecificationsFit DEF RunsSpecification
  <2>2. \A i \in DOMAIN Setup : Setup[i].do \notin Resumes
    BY <1>1 DEF Quiet, Keeps, Resumes
  <2>3. \A p \in Procedures : NeverExits(p) /\ ResumesOnce(p)
    BY <1>3 DEF Fits
  <2> QED
    BY <2>1, <2>2, <2>3 DEF ScriptsInOrder
<1> QED
  BY <1>3, <1>4

(* A process that runs under a debugging specification aborts the MPI job  *)
(* only when its application has crashed; and while gdb refuses nothing,   *)
(* every row holds the answer it is meant to hold, and main always has a   *)
(* procedure for what it reads.                                            *)
THEOREM SpecificationSessions ==
  ASSUME NEW L, NEW E, NEW spec \in Seq(SpecLine(L, E)), NEW rank,
         RunsSpecification(spec, rank)
  PROVE  /\ OpdSpec => []AbortsOnCrash
         /\ OpdSpec => [](blame \subseteq {"exit"} => RowsAreAnswers)
         /\ OpdSpec => [](blame \subseteq {"exit"} => NeverCrashes)
<1>1. \A p \in Procedures : NeverExits(p)
  BY SpecificationProcedures DEF Fits
<1>2. \A p \in Procedures : AnswersFollow(p)
  BY SpecificationProcedures DEF Fits
<1>3. \A p \in Procedures : StepsAwaited(p)
  BY SpecificationProcedures DEF Fits
<1>4. OpdSpec => []AbortsOnCrash
  BY <1>1, AbortsOnlyOnCrash
<1>5. OpdSpec => [](blame \subseteq {"exit"} => RowsAreAnswers)
  BY <1>2, RowsHoldAnswers
<1>6. OpdSpec => [](blame \subseteq {"exit"} => NeverCrashes)
  BY <1>3, NeverDereferencesNull
<1> QED
  BY <1>4, <1>5, <1>6

(* When no expression stands before the first @bp, its sessions keep the   *)
(* promise of Session, and segreport finds rows taken at the fault.        *)
THEOREM SpecificationsKeepPromise ==
  ASSUME NEW L, NEW E, NEW spec \in Seq(SpecLine(L, E)), NEW rank,
         RunsSpecification(spec, rank), ~opd_readscript(spec, rank).failed
  PROVE  /\ OpdSpec => Promise!Init /\ [][Promise!Next]_(Promise!vars)
         /\ OpdSpec => RowsOfFault
<1>1. ScriptsInOrder
  BY SpecificationProcedures
<1>2. \A p \in Procedures : NoFaultRows(p)
  BY SpecificationProcedures DEF Fits
<1>3. OpdSpec => Promise!Init /\ [][Promise!Next]_(Promise!vars)
  BY <1>1, OpdKeepsPromise
<1>4. OpdSpec => RowsOfFault
  BY <1>1, <1>2, FaultRowsInTime
<1> QED
  BY <1>3, <1>4
(* When besides gdb knows every location, it never refuses: every stop is  *)
(* given to the procedure its line of the specification asks for, every    *)
(* row of an answer holds the answer to its own question, and main always  *)
(* has a procedure for what it reads - with opd -a as well.                *)
THEOREM SpecificationsInStep ==
  ASSUME NEW L, NEW E, NEW spec \in Seq(SpecLine(L, E)), NEW rank,
         RunsSpecification(spec, rank), ~opd_readscript(spec, rank).failed, Unknown = {}
  PROVE  /\ OpdSpec => []CalledAsBound
         /\ OpdSpec => []RowsAreAnswers
         /\ OpdSpec => []NeverCrashes
<1>1. ScriptsInOrder
  BY SpecificationProcedures
<1>2. \A p \in Procedures : AnswersFollow(p) /\ StepsAwaited(p)
  BY SpecificationProcedures DEF Fits
<1>3. SetupBinds
  BY SetupOfSpecifications DEF RunsSpecification
<1>4. OpdSpec => []CalledAsBound
  BY <1>1, <1>3, AlwaysCalledAsBound
<1>5. OpdSpec => []RowsAreAnswers
  BY <1>1, <1>2, <1>3, RowsAlwaysAnswers
<1>6. OpdSpec => []NeverCrashes
  BY <1>1, <1>2, <1>3, AlwaysDispatches
<1> QED
  BY <1>4, <1>5, <1>6

----------------------------------------------------------------------------
(* opd -s: the agents of src/share and the example of docs/USAGE.          *)

(* Every answer p logs is to its own question, p reads over the stop of a  *)
(* gdb_stepNext, and leaves the end of the session to opd.c.               *)
Behaves(p) ==
  /\ \E S : p \in Seq(S)
  /\ AnswersFollow(p) /\ StepsAwaited(p) /\ NeverExits(p)

(* Two such sequences are one.                                             *)
LEMMA BehaveTogether ==
  ASSUME NEW p, NEW q, Behaves(p), Behaves(q)
  PROVE  Behaves(p \o q)
<1>1. PICK S : p \in Seq(S)
  BY DEF Behaves
<1>2. PICK T : q \in Seq(T)
  BY DEF Behaves
<1> DEFINE w == p \o q
<1>3. /\ w \in Seq(S \cup T) /\ Len(w) = Len(p) + Len(q)
      /\ DOMAIN w = 1 .. Len(p) + Len(q)
      /\ Len(p) \in Nat /\ Len(q) \in Nat
      /\ DOMAIN p = 1 .. Len(p) /\ DOMAIN q = 1 .. Len(q)
      /\ \A i \in 1 .. Len(p) : w[i] = p[i]
      /\ \A i \in 1 .. Len(q) : w[Len(p) + i] = q[i]
  BY <1>1, <1>2, Concat
<1> HIDE DEF w
<1>4. ASSUME NEW i \in DOMAIN w
      PROVE  /\ IsAnswer(w[i]) => i > 1 /\ (w[i - 1].do \in Asks \/ IsAnswer(w[i - 1]))
             /\ w[i].do = "gdb_stepNext" =>
                  i < Len(w) /\ w[i + 1].do \in Asks \cup {"gdb_call", "gdb_setPID"}
             /\ w[i].do \notin {"opd_setExit", "gdb_stepFinish"}
  <2>1. CASE i \in 1 .. Len(p)
    <3>1. /\ i \in DOMAIN p /\ w[i] = p[i] /\ (i > 1 => w[i - 1] = p[i - 1])
          /\ i < Len(p) => i < Len(w) /\ w[i + 1] = p[i + 1]
      BY <1>3, <2>1
    <3> QED
      BY <3>1 DEF Behaves, AnswersFollow, StepsAwaited, NeverExits
  <2>2. CASE i \notin 1 .. Len(p)
    <3>1. PICK k \in 1 .. Len(q) : i = Len(p) + k
      <4>1. i - Len(p) \in 1 .. Len(q) /\ i = Len(p) + (i - Len(p))
        BY <1>3, <2>2
      <4> QED
        BY <4>1
    <3>2. /\ k \in DOMAIN q /\ w[i] = q[k]
          /\ k > 1 => i > 1 /\ w[i - 1] = q[k - 1]
          /\ k < Len(q) => i < Len(w) /\ w[i + 1] = q[k + 1]
      <4>1. k > 1 => k - 1 \in 1 .. Len(q) /\ i - 1 = Len(p) + (k - 1) /\ i > 1
        BY <1>3, <3>1
      <4>2. k < Len(q) => k + 1 \in 1 .. Len(q) /\ i + 1 = Len(p) + (k + 1) /\ i < Len(w)
        BY <1>3, <3>1
      <4> QED
        BY <1>3, <3>1, <4>1, <4>2
    <3> QED
      BY <3>2 DEF Behaves, AnswersFollow, StepsAwaited, NeverExits
  <2> QED
    BY <2>1, <2>2
<1>5. Behaves(w)
  BY <1>3, <1>4 DEF Behaves, AnswersFollow, StepsAwaited, NeverExits
<1> QED
  BY <1>5 DEF w

(* Commands of which none is an answer, a gdb_stepNext or an end.          *)
Harmless == {"gdb_setPID", "gdb_continue", "gdb_step", "gdb_setBreakpoint", "query"}

(* A single command of those.                                              *)
LEMMA OneBehaves ==
  ASSUME NEW c, c.do \in Harmless
  PROVE  Behaves(<<c>>)
<1> DEFINE p == <<c>>
<1>1. p \in Seq({c}) /\ \A i \in DOMAIN p : p[i] = c
  OBVIOUS
<1> HIDE DEF p
<1>2. Behaves(p)
  BY <1>1 DEF Behaves, AnswersFollow, StepsAwaited, NeverExits, IsAnswer, Harmless
<1> QED
  BY <1>2 DEF p

(* A question and the row of its answer.                                   *)
LEMMA PairBehaves ==
  ASSUME NEW c, NEW a, c.do \in Asks, a.do = "log"
  PROVE  Behaves(<<c, a>>)
<1> DEFINE p == <<c, a>>
<1>1. p \in Seq({c, a}) /\ DOMAIN p = {1, 2} /\ p[1] = c /\ p[2] = a
  OBVIOUS
<1> HIDE DEF p
<1>2. c.do # "log" /\ c.do \notin {"gdb_stepNext", "opd_setExit", "gdb_stepFinish"}
  BY DEF Asks
<1>3. AnswersFollow(p)
  <2> SUFFICES ASSUME NEW i \in DOMAIN p, IsAnswer(p[i])
               PROVE  i > 1 /\ p[i - 1].do \in Asks
    BY DEF AnswersFollow
  <2>1. i = 2 /\ 2 - 1 = 1
    BY <1>1, <1>2 DEF IsAnswer
  <2> QED
    BY <1>1, <2>1
<1>4. StepsAwaited(p) /\ NeverExits(p)
  BY <1>1, <1>2 DEF StepsAwaited, NeverExits
<1>5. Behaves(p)
  BY <1>1, <1>3, <1>4 DEF Behaves
<1> QED
  BY <1>5 DEF p

(* single_step.tcl.                                                        *)
LEMMA SingleStepBehaves ==
  Behaves(single_step_setup) /\ Behaves(step_setup) /\ Behaves(step_function_proc)
<1> DEFINE a == Query("stack", "")
           b == Log("opd.step.stack", "", "answer")
           c == Query("locals", "")
           d == Log("opd.step.locals", "", "answer")
           e == Step("step_function", "")
           f == Break("step_setup", "")
           g == Log("opd.breakOnMain", "", "answer")
           w == <<a, b, c, d, e>>
           All == {a, b, c, d, e}
<1>1. /\ a.do = "query" /\ c.do = "query" /\ e.do = "gdb_step" /\ f.do = "gdb_setBreakpoint"
      /\ b.do = "log" /\ d.do = "log" /\ g.do = "log"
  BY DEF Query, Log, Step, Break, Cmd
<1>2. /\ w \in Seq(All) /\ Len(w) = 5 /\ DOMAIN w = 1 .. 5
      /\ w[1] = a /\ w[2] = b /\ w[3] = c /\ w[4] = d /\ w[5] = e
  OBVIOUS
<1>3. /\ single_step_setup = <<f, g>> /\ step_setup = <<e>> /\ step_function_proc = w
  BY DEF single_step_setup, step_setup, step_function_proc
<1> HIDE DEF a, b, c, d, e, f, g, w, All
<1>4. AnswersFollow(w)
  <2> SUFFICES ASSUME NEW i \in DOMAIN w, IsAnswer(w[i])
               PROVE  i > 1 /\ w[i - 1].do \in Asks
    BY DEF AnswersFollow
  <2>1. i = 2 \/ i = 4
    BY <1>1, <1>2 DEF IsAnswer
  <2>2. CASE i = 2
    BY <1>1, <1>2, <2>2 DEF Asks
  <2>3. CASE i = 4
    BY <1>1, <1>2, <2>3 DEF Asks
  <2> QED
    BY <2>1, <2>2, <2>3
<1>5. \A i \in DOMAIN w : w[i].do \notin {"gdb_stepNext", "opd_setExit", "gdb_stepFinish"}
  BY <1>1, <1>2
<1>6. Behaves(w)
  BY <1>2, <1>4, <1>5 DEF Behaves, StepsAwaited, NeverExits
<1>7. Behaves(<<e>>)
  BY <1>1, OneBehaves DEF Harmless
<1>8. Behaves(<<f, g>>)
  BY <1>1, PairBehaves DEF Asks
<1> QED
  BY <1>3, <1>6, <1>7, <1>8

(* The example of docs/USAGE.  It resumes the application once, at its     *)
(* end, and behind a row.                                                  *)
LEMMA UsageBehaves ==
  /\ Behaves(usage_setup) /\ Behaves(get_info)
  /\ ResumesOnce(usage_setup) /\ \A i \in DOMAIN usage_setup : usage_setup[i].do \notin Resumes
  /\ ResumesOnce(get_info) /\ Records(get_info)
  /\ NoFaultRows(usage_setup) /\ NoFaultRows(get_info)
<1> DEFINE a == Query("stack", "")
           b == Query("locals", "")
           c == Eval("var_name")
           d == Log("myinfo", "", "answer")
           e == Do("gdb_continue")
           f == Break("get_info", "")
           g == Log("user.break", "", "answer")
           w == <<a, d, b, d, c, d, e>>
           v == <<f, g>>
           All == {a, b, c, d, e}
           Both == {f, g}
<1>1. /\ a.do = "query" /\ b.do = "query" /\ c.do = "query" /\ e.do = "gdb_continue"
      /\ d.do = "log" /\ d.arg[1] = "myinfo" /\ f.do = "gdb_setBreakpoint"
      /\ g.do = "log" /\ g.arg[1] = "user.break"
  <2>1. \A what, x : Query(what, x).do = "query"
    BY CommandForms
  <2>2. \A key, x, of : Log(key, x, of).do = "log"
    BY CommandForms
  <2>3. \A key, x, of : Log(key, x, of).arg[1] = key
    BY CommandForms
  <2>4. \A h, x : Break(h, x).do = "gdb_setBreakpoint"
    BY CommandForms
  <2>5. \A command : Do(command).do = command
    BY CommandForms
  <2>6. a.do = "query" /\ b.do = "query" /\ c.do = "query"
    BY <2>1, Zenon DEF Eval
  <2>7. d.do = "log" /\ g.do = "log"
    BY <2>2, Zenon
  <2>8. d.arg[1] = "myinfo" /\ g.arg[1] = "user.break"
    BY <2>3, Zenon
  <2>9. e.do = "gdb_continue" /\ f.do = "gdb_setBreakpoint"
    BY <2>4, <2>5, Zenon
  <2> QED
    BY <2>6, <2>7, <2>8, <2>9, Zenon
<1>2. /\ w \in Seq(All) /\ Len(w) = 7 /\ DOMAIN w = 1 .. 7
      /\ w[1] = a /\ w[2] = d /\ w[3] = b /\ w[4] = d /\ w[5] = c /\ w[6] = d /\ w[7] = e
      /\ v \in Seq(Both) /\ DOMAIN v = {1, 2} /\ v[1] = f /\ v[2] = g
  OBVIOUS
<1>3. usage_setup = v /\ get_info = w
  BY DEF usage_setup, get_info
<1> HIDE DEF a, b, c, d, e, f, g, w, v, All, Both
<1>4. AnswersFollow(w)
  <2> SUFFICES ASSUME NEW i \in DOMAIN w, IsAnswer(w[i])
               PROVE  i > 1 /\ w[i - 1].do \in Asks
    BY DEF AnswersFollow
  <2>1. i = 2 \/ i = 4 \/ i = 6
    BY <1>1, <1>2 DEF IsAnswer
  <2>2. CASE i = 2
    BY <1>1, <1>2, <2>2 DEF Asks
  <2>3. CASE i = 4
    BY <1>1, <1>2, <2>3 DEF Asks
  <2>4. CASE i = 6
    BY <1>1, <1>2, <2>4 DEF Asks
  <2> QED
    BY <2>1, <2>2, <2>3, <2>4
<1>5. \A i \in DOMAIN w : w[i].do \notin {"gdb_stepNext", "opd_setExit", "gdb_stepFinish"}
  BY <1>1, <1>2
<1>6. Behaves(w)
  BY <1>2, <1>4, <1>5 DEF Behaves, StepsAwaited, NeverExits
<1>7. \A i \in DOMAIN w : w[i].do \in Resumes => i = 7
  BY <1>1, <1>2 DEF Resumes
<1>8. ResumesOnce(w)
  BY <1>2, <1>7 DEF ResumesOnce
<1>9. Records(w)
  <2>1. 2 \in DOMAIN w /\ w[2].do = "log"
    BY <1>1, <1>2
  <2>2. \A k \in 1 .. 2 : k \in DOMAIN w /\ k # 7
    BY <1>2
  <2> QED
    BY <1>7, <2>1, <2>2 DEF Records
<1>10. Behaves(v)
  <2>1. Behaves(<<f, g>>)
    BY <1>1, PairBehaves DEF Asks
  <2> QED
    BY <2>1 DEF v
<1>11. NoFaultRows(w)
  BY <1>1, <1>2 DEF NoFaultRows, IsFaultRow
<1>12. NoFaultRows(v) /\ \A i \in DOMAIN v : v[i].do \notin Resumes
  BY <1>1, <1>2 DEF NoFaultRows, IsFaultRow, Resumes
<1>13. ResumesOnce(v)
  BY <1>12 DEF ResumesOnce
<1> QED
  BY <1>3, <1>6, <1>8, <1>9, <1>10, <1>11, <1>12, <1>13

(* deadlock.tcl, with a breakpoint for every call it is given: the answers *)
(* it logs are to its breakpoints, and deadlock_catch reads over the stop  *)
(* of its gdb_stepNext with its next question.                             *)
LEMMA BreakpointsBehave ==
  ASSUME NEW E, NEW types \in Seq(E)
  PROVE  Behaves([i \in 1 .. 2 * Len(types) |->
                    IF i % 2 = 1 THEN Break("deadlock_catch", types[(i + 1) \div 2])
                    ELSE Log("deadlock.setup", types[i \div 2], "answer")])
<1> DEFINE question(i) == Break("deadlock_catch", types[(i + 1) \div 2])
           answer(i)   == Log("deadlock.setup", types[i \div 2], "answer")
           n == 2 * Len(types)
           p == [i \in 1 .. n |-> IF i % 2 = 1 THEN question(i) ELSE answer(i)]
<1>1. \A i : question(i).do = "gdb_setBreakpoint" /\ answer(i).do = "log"
  BY CommandForms
<1> HIDE DEF question, answer
<1>2. n \in Nat
  BY LenProperties
<1> HIDE DEF n
<1>3. /\ DOMAIN p = 1 .. n
      /\ \A i \in 1 .. n : p[i] = IF i % 2 = 1 THEN question(i) ELSE answer(i)
  OBVIOUS
<1> DEFINE T == {p[i] : i \in 1 .. n}
<1>4. p \in [1 .. n -> T]
  OBVIOUS
<1> HIDE DEF p, T
<1>5. ASSUME NEW i \in DOMAIN p, IsAnswer(p[i]) PROVE i > 1 /\ p[i - 1].do \in Asks
  <2>1. i \in 1 .. n /\ i % 2 # 1
    BY <1>1, <1>3, <1>5 DEF IsAnswer
  <2>2. i > 1 /\ i - 1 \in 1 .. n /\ (i - 1) % 2 = 1
    BY <1>2, <2>1
  <2>3. p[i - 1] = question(i - 1)
    BY <1>3, <2>2
  <2> QED
    BY <1>1, <2>2, <2>3 DEF Asks
<1>6. \A i \in DOMAIN p : p[i].do \notin {"gdb_stepNext", "opd_setExit", "gdb_stepFinish"}
  BY <1>1, <1>3
<1>7. Behaves(p)
  <2>1. p \in Seq(T)
    BY <1>2, <1>4
  <2> QED
    BY <2>1, <1>5, <1>6 DEF Behaves, AnswersFollow, StepsAwaited, NeverExits
<1> QED
  BY <1>7 DEF p, n, question, answer

(* The procedures of deadlock.tcl.                                         *)
LEMMA DeadlockBehaves ==
  ASSUME NEW E, NEW types \in Seq(E), NEW type
  PROVE  /\ Behaves(deadlock_user_setup) /\ Behaves(deadlock_setup(types))
         /\ Behaves(deadlock_catch(type))
<1> DEFINE a == Do("gdb_stepNext")
           b == Eval("count")
           c == Eval("remote")
           d == Do("gdb_call")
           e == Query("set", "remote")
           f == Eval("tag")
           g == Log("deadlock.values", type, "text")
           h == Do("gdb_continue")
           k == Do("gdb_setPID")
           l == Break("deadlock_setup", "")
           w == <<a, b, c, d, c, e, f, g, h>>
           All == {a, b, c, d, e, f, g, h}
           q == [i \in 1 .. 2 * Len(types) |->
                   IF i % 2 = 1 THEN Break("deadlock_catch", types[(i + 1) \div 2])
                   ELSE Log("deadlock.setup", types[i \div 2], "answer")]
<1>1. /\ a.do = "gdb_stepNext" /\ b.do = "query" /\ c.do = "query" /\ d.do = "gdb_call"
      /\ e.do = "query" /\ f.do = "query" /\ g.do = "log" /\ g.arg[3] = "text"
      /\ h.do = "gdb_continue" /\ k.do = "gdb_setPID" /\ l.do = "gdb_setBreakpoint"
  <2>1. \A what, x : Query(what, x).do = "query"
    BY CommandForms
  <2>2. \A key, x, of : Log(key, x, of).do = "log"
    BY CommandForms
  <2>3. \A key, x, of : Log(key, x, of).arg[3] = of
    BY CommandForms
  <2>4. \A command : Do(command).do = command
    BY CommandForms
  <2>5. \A p, x : Break(p, x).do = "gdb_setBreakpoint"
    BY CommandForms
  <2>6. b.do = "query" /\ c.do = "query" /\ e.do = "query" /\ f.do = "query"
    BY <2>1, Zenon DEF Eval
  <2>7. a.do = "gdb_stepNext" /\ d.do = "gdb_call" /\ h.do = "gdb_continue" /\ k.do = "gdb_setPID"
    BY <2>4, Zenon
  <2>8. g.do = "log" /\ g.arg[3] = "text"
    BY <2>2, <2>3, Zenon
  <2>9. l.do = "gdb_setBreakpoint"
    BY <2>5, Zenon
  <2> QED
    BY <2>6, <2>7, <2>8, <2>9, Zenon
<1>2. /\ w \in Seq(All) /\ Len(w) = 9 /\ DOMAIN w = 1 .. 9
      /\ w[1] = a /\ w[2] = b /\ w[3] = c /\ w[4] = d /\ w[5] = c /\ w[6] = e
      /\ w[7] = f /\ w[8] = g /\ w[9] = h
  OBVIOUS
<1>3. /\ deadlock_catch(type) = w /\ deadlock_user_setup = <<l>>
      /\ deadlock_setup(types) = (<<k>> \o q) \o <<h>>
  BY DEF deadlock_catch, deadlock_user_setup, deadlock_setup
<1>4. Behaves(q)
  BY BreakpointsBehave
<1> HIDE DEF a, b, c, d, e, f, g, h, k, l, w, All, q
<1>5. AnswersFollow(w)
  BY <1>1, <1>2 DEF AnswersFollow, IsAnswer
<1>6. StepsAwaited(w)
  <2> SUFFICES ASSUME NEW i \in DOMAIN w, w[i].do = "gdb_stepNext"
               PROVE  i < Len(w) /\ w[i + 1].do \in Asks
    BY DEF StepsAwaited
  <2>1. i = 1 /\ i + 1 = 2
    BY <1>1, <1>2
  <2> QED
    BY <1>1, <1>2, <2>1 DEF Asks
<1>7. NeverExits(w)
  BY <1>1, <1>2 DEF NeverExits
<1>8. Behaves(w)
  BY <1>2, <1>5, <1>6, <1>7 DEF Behaves
<1>9. Behaves(<<h>>) /\ Behaves(<<k>>) /\ Behaves(<<l>>)
  BY <1>1, OneBehaves DEF Harmless
<1>10. Behaves((<<k>> \o q) \o <<h>>)
  <2> DEFINE s == <<k>>
             t == <<h>>
  <2>1. Behaves(s) /\ Behaves(t)
    BY <1>9
  <2> HIDE DEF s, t
  <2>2. Behaves(s \o q)
    BY <1>4, <2>1, BehaveTogether
  <2>3. Behaves((s \o q) \o t)
    BY <2>1, <2>2, BehaveTogether
  <2> QED
    BY <2>3 DEF s, t
<1> QED
  BY <1>3, <1>8, <1>9, <1>10

(* What the theorems about sessions ask of a script, of every procedure.   *)
LEMMA AgentsBehave ==
  ASSUME NEW E, NEW types \in Seq(E)
  PROVE  \A p \in AgentProcedures(types) : Behaves(p)
<1>1. \A i \in DOMAIN types : Behaves(deadlock_catch(types[i]))
  BY DeadlockBehaves
<1>2. Behaves(deadlock_user_setup) /\ Behaves(deadlock_setup(types))
  BY DeadlockBehaves
<1> QED
  BY <1>1, <1>2, SingleStepBehaves, UsageBehaves DEF AgentProcedures

(* A session under single_step.tcl, under deadlock.tcl with any calls to   *)
(* catch, or under the example of docs/USAGE aborts the MPI job only when  *)
(* its application has crashed; and while gdb refuses nothing, every row   *)
(* of an answer holds the answer to its question, and main always has a    *)
(* procedure for what it reads.                                            *)
THEOREM AgentSessions ==
  ASSUME NEW E, NEW types \in Seq(E), Procedures \subseteq AgentProcedures(types)
  PROVE  /\ OpdSpec => []AbortsOnCrash
         /\ OpdSpec => [](blame \subseteq {"exit"} => RowsAreAnswers)
         /\ OpdSpec => [](blame \subseteq {"exit"} => NeverCrashes)
<1>1. \A p \in Procedures : NeverExits(p)
  BY AgentsBehave DEF Behaves
<1>2. \A p \in Procedures : AnswersFollow(p)
  BY AgentsBehave DEF Behaves
<1>3. \A p \in Procedures : StepsAwaited(p)
  BY AgentsBehave DEF Behaves
<1>4. OpdSpec => []AbortsOnCrash
  BY <1>1, AbortsOnlyOnCrash
<1>5. OpdSpec => [](blame \subseteq {"exit"} => RowsAreAnswers)
  BY <1>2, RowsHoldAnswers
<1>6. OpdSpec => [](blame \subseteq {"exit"} => NeverCrashes)
  BY <1>3, NeverDereferencesNull
<1> QED
  BY <1>4, <1>5, <1>6

(* The script of docs/USAGE keeps the promise of Session as well.  The     *)
(* agents do not: step_setup lets the application go without a row of the  *)
(* stop, and deadlock_catch lets it go twice.                              *)
THEOREM UsageKeepsPromise ==
  ASSUME Setup = usage_setup, \A f \in Functions : Proc[f] = get_info
  PROVE  /\ OpdSpec => Promise!Init /\ [][Promise!Next]_(Promise!vars)
         /\ OpdSpec => RowsOfFault
<1>1. \A p \in Procedures : p = usage_setup \/ p = get_info
  BY DEF Procedures
<1>2. ScriptsInOrder
  BY <1>1, UsageBehaves DEF ScriptsInOrder, Behaves
<1>3. \A p \in Procedures : NoFaultRows(p)
  BY <1>1, UsageBehaves
<1>4. OpdSpec => Promise!Init /\ [][Promise!Next]_(Promise!vars)
  BY <1>2, OpdKeepsPromise
<1>5. OpdSpec => RowsOfFault
  BY <1>2, <1>3, FaultRowsInTime
<1> QED
  BY <1>4, <1>5

----------------------------------------------------------------------------
(* The rows of the stops at the breakpoints and watchpoints of a           *)
(* specification: what the analysis reads.                                 *)

(* The procedures that write the stop they are called for, as the first    *)
(* thing they do, and the key they write it under.                         *)
Witnesses == {"script_bp", "script_wa_up"}

EventKey(e) == IF e = "script_bp" THEN "opd.spec.breakpoint" ELSE "opd.spec.watchpoint"

IsEvent(c, e) == c.do = "log" /\ c.arg[3] = "event" /\ c.arg[1] = EventKey(e)

(* p is tidy but for its first command.                                    *)
TidyTail(p, N) ==
  /\ \E S : p \in Seq(S)
  /\ p # <<>>
  /\ \A i \in DOMAIN p : p[i].do = "log" /\ i # 1 =>
       p[i].arg[3] # "event" /\ Named(p[i].arg[1], p[i].arg[2], N, {})

(* A tidy sequence can follow it.                                          *)
LEMMA TidyBehind ==
  ASSUME NEW p, NEW q, NEW N, TidyTail(p, N), Tidy(q, N)
  PROVE  TidyTail(p \o q, N) /\ (p \o q)[1] = p[1]
<1>1. PICK S : p \in Seq(S)
  BY DEF TidyTail
<1>2. PICK T : q \in Seq(T)
  BY DEF Tidy
<1> DEFINE w == p \o q
<1>3. /\ w \in Seq(S \cup T) /\ DOMAIN w = 1 .. Len(p) + Len(q)
      /\ Len(p) \in Nat /\ Len(q) \in Nat
      /\ DOMAIN p = 1 .. Len(p) /\ DOMAIN q = 1 .. Len(q)
      /\ \A i \in 1 .. Len(p) : w[i] = p[i]
      /\ \A i \in 1 .. Len(q) : w[Len(p) + i] = q[i]
  BY <1>1, <1>2, Concat
<1> HIDE DEF w
<1>4. Len(p) >= 1 /\ 1 \in 1 .. Len(p)
  <2>1. Len(p) # 0
    BY <1>1 DEF TidyTail
  <2> QED
    BY <1>3, <2>1
<1>5. w # <<>> /\ w[1] = p[1]
  BY <1>3, <1>4
<1>6. ASSUME NEW i \in DOMAIN w, i # 1, w[i].do = "log"
      PROVE  w[i].arg[3] # "event" /\ Named(w[i].arg[1], w[i].arg[2], N, {})
  <2>1. CASE i \in 1 .. Len(p)
    <3>1. i \in DOMAIN p /\ w[i] = p[i]
      BY <1>3, <2>1
    <3> QED
      BY <1>6, <3>1 DEF TidyTail
  <2>2. CASE i \notin 1 .. Len(p)
    <3>1. i - Len(p) \in 1 .. Len(q) /\ i = Len(p) + (i - Len(p))
      BY <1>3, <2>2
    <3>2. i - Len(p) \in DOMAIN q /\ w[i] = q[i - Len(p)]
      BY <1>3, <3>1
    <3> QED
      BY <1>6, <3>2 DEF Tidy
  <2> QED
    BY <2>1, <2>2
<1>7. TidyTail(w, N) /\ w[1] = p[1]
  BY <1>3, <1>5, <1>6 DEF TidyTail
<1> QED
  BY <1>7 DEF w

(* A single command has no tail.                                           *)
LEMMA OneHasNoTail ==
  ASSUME NEW c, NEW N
  PROVE  TidyTail(<<c>>, N) /\ <<c>>[1] = c
<1> DEFINE p == <<c>>
<1>1. p \in Seq({c}) /\ DOMAIN p = {1} /\ p[1] = c /\ p # <<>>
  OBVIOUS
<1> HIDE DEF p
<1>2. TidyTail(p, N) /\ p[1] = c
  BY <1>1 DEF TidyTail
<1> QED
  BY <1>2 DEF p

(* The expressions of a breakpoint.                                        *)
LEMMA QuestionsAreTidy ==
  ASSUME NEW N, NEW x \in N, NEW E, E \subseteq N, NEW items \in Seq(E)
  PROVE  Tidy([i \in 1 .. 2 * Len(items) |->
                 IF i % 2 = 1 THEN Query("eval", items[(i + 1) \div 2])
                 ELSE Log("opd.spec.breakpoint.item", <<x, items[i \div 2]>>, "answer")], N)
<1> DEFINE question(i) == Query("eval", items[(i + 1) \div 2])
           answer(i)   == Log("opd.spec.breakpoint.item", <<x, items[i \div 2]>>, "answer")
           m == Len(items)
           p == [i \in 1 .. 2 * m |-> IF i % 2 = 1 THEN question(i) ELSE answer(i)]
<1>1. \A i : /\ question(i).do = "query"
             /\ answer(i).do = "log" /\ answer(i).arg[1] = "opd.spec.breakpoint.item"
             /\ answer(i).arg[2] = <<x, items[i \div 2]>> /\ answer(i).arg[3] = "answer"
  BY CommandForms
<1> HIDE DEF question, answer
<1>2. m \in Nat /\ \A i \in 1 .. m : items[i] \in N
  <2>1. \A i \in 1 .. Len(items) : items[i] \in E
    BY LenProperties
  <2> QED
    BY <2>1, LenProperties
<1> HIDE DEF m
<1>3. /\ DOMAIN p = 1 .. 2 * m
      /\ \A i \in 1 .. 2 * m : p[i] = IF i % 2 = 1 THEN question(i) ELSE answer(i)
  OBVIOUS
<1> DEFINE T == {p[i] : i \in 1 .. 2 * m}
<1>4. p \in [1 .. 2 * m -> T]
  OBVIOUS
<1> HIDE DEF p, T
<1>5. \A y, z : <<y, z>>[1] = y /\ <<y, z>>[2] = z
  OBVIOUS
<1>6. ASSUME NEW i \in DOMAIN p, p[i].do = "log"
      PROVE  p[i].arg[3] # "event" /\ Named(p[i].arg[1], p[i].arg[2], N, {})
  <2>1. i \in 1 .. 2 * m /\ i % 2 # 1
    BY <1>1, <1>3, <1>6
  <2>2. i \div 2 \in 1 .. m
    BY <1>2, <2>1
  <2>3. p[i] = answer(i) /\ items[i \div 2] \in N
    BY <1>2, <1>3, <2>1, <2>2
  <2> QED
    BY <1>1, <1>5, <2>3 DEF Named
<1>7. Tidy(p, N)
  <2>1. p \in Seq(T)
    <3>1. 2 * m \in Nat
      BY <1>2
    <3> QED
      BY <1>4, <3>1
  <2> QED
    BY <1>6, <2>1 DEF Tidy
<1> QED
  BY <1>7 DEF p, m, question, answer

(* What follows a stop, if none of it writes another.                      *)
LEMMA StopThenAnswers ==
  ASSUME NEW N, NEW a, NEW b, NEW c, NEW q, NEW d,
         b.do # "log", d.do # "log", Tidy(<<c>>, N), Tidy(q, N)
  PROVE  TidyTail((<<a, b, c>> \o q) \o <<d>>, N) /\ ((<<a, b, c>> \o q) \o <<d>>)[1] = a
<1> DEFINE s == <<a>>
           u == <<b>>
           v == <<c>>
           r == <<d>>
<1>1. <<a, b, c>> = s \o (u \o v)
  <2>1. <<b, c>> = u \o v
    BY Two
  <2>2. <<a, b, c>> = s \o <<b, c>>
    BY Three
  <2> QED
    BY <2>1, <2>2, Zenon
<1>2. Tidy(u, N) /\ Tidy(r, N) /\ Tidy(v, N)
  BY OtherIsTidy
<1>3. TidyTail(s, N) /\ s[1] = a
  BY OneHasNoTail
<1> HIDE DEF s, u, v, r
<1> DEFINE t == u \o v
<1>4. Tidy(t, N)
  BY <1>2, TidyTogether
<1> HIDE DEF t
<1> DEFINE g == s \o t
<1>5. TidyTail(g, N) /\ g[1] = a
  BY <1>3, <1>4, TidyBehind
<1> HIDE DEF g
<1> DEFINE h == g \o q
<1>6. TidyTail(h, N) /\ h[1] = a
  BY <1>5, TidyBehind
<1> HIDE DEF h
<1>7. TidyTail(h \o r, N) /\ (h \o r)[1] = a
  BY <1>2, <1>6, TidyBehind
<1>8. (<<a, b, c>> \o q) \o <<d>> = h \o r
  BY <1>1 DEF h, g, t, r
<1> QED
  BY <1>7, <1>8

(* script_bp and script_wa_up write their stop first, and none else.       *)
LEMMA BreakpointRows ==
  ASSUME NEW N, NEW x \in N, NEW E, E \subseteq N, NEW items \in Seq(E)
  PROVE  TidyTail(script_bp(x, items), N)
         /\ script_bp(x, items)[1] = Log("opd.spec.breakpoint", x, "event")
<1> DEFINE a == Log("opd.spec.breakpoint", x, "event")
           b == Query("stack", "")
           c == Log("opd.spec.breakpoint", x, "answer")
           d == Do("gdb_continue")
           q == [i \in 1 .. 2 * Len(items) |->
                   IF i % 2 = 1 THEN Query("eval", items[(i + 1) \div 2])
                   ELSE Log("opd.spec.breakpoint.item", <<x, items[i \div 2]>>, "answer")]
<1>1. Tidy(q, N)
  BY QuestionsAreTidy
<1>2. b.do = "query" /\ d.do = "gdb_continue"
  <2>1. \A what, y : Query(what, y).do = "query"
    BY CommandForms
  <2>2. \A command : Do(command).do = command
    BY CommandForms
  <2> QED
    BY <2>1, <2>2, Zenon
<1>3. Tidy(<<c>>, N)
  BY RowIsTidy DEF Named
<1>4. script_bp(x, items) = (<<a, b, c>> \o q) \o <<d>>
  BY Zenon DEF script_bp
<1> HIDE DEF a, b, c, d, q
<1>5. b.do # "log" /\ d.do # "log"
  BY <1>2
<1>6. /\ TidyTail((<<a, b, c>> \o q) \o <<d>>, N)
      /\ ((<<a, b, c>> \o q) \o <<d>>)[1] = a
  BY <1>1, <1>3, <1>5, StopThenAnswers
<1> QED
  BY <1>4, <1>6 DEF a

(* The same of a change.                                                   *)
LEMMA ChangeRows ==
  ASSUME NEW N, NEW x, NEW item
  PROVE  TidyTail(script_wa_up(x, item), N)
         /\ script_wa_up(x, item)[1] = Log("opd.spec.watchpoint", <<x, item>>, "event")
<1> DEFINE a == Log("opd.spec.watchpoint", <<x, item>>, "event")
           d == Do("gdb_continue")
           p == <<a, d>>
<1>1. d.do = "gdb_continue"
  <2>1. \A command : Do(command).do = command
    BY CommandForms
  <2> QED
    BY <2>1, Zenon
<1>2. script_wa_up(x, item) = p
  BY DEF script_wa_up
<1> HIDE DEF a, d
<1>3. p \in Seq({a, d}) /\ DOMAIN p = {1, 2} /\ p[1] = a /\ p[2] = d /\ p # <<>>
  OBVIOUS
<1> HIDE DEF p
<1>4. \A i \in DOMAIN p : i # 1 => p[i].do # "log"
  BY <1>1, <1>3
<1>5. TidyTail(p, N)
  BY <1>3, <1>4 DEF TidyTail
<1> QED
  BY <1>2, <1>3, <1>5 DEF a

(* The names in the rows of a specification, and the locations it watches. *)
NamesOf(spec, E) == {spec[i].at : i \in DOMAIN spec} \cup E \cup {NoLocation}

WatchedBy(spec) == {spec[i].at : i \in {j \in DOMAIN spec : spec[j].kind = "watch"}}

(* A row names what the specification does; only the event of a watchpoint *)
(* has the key of a watchpoint.                                            *)
InNames(key, x, of, N, W) == Named(key, x, N, IF of = "event" THEN W ELSE {})

IsNamed(c, N, W) == c.do = "log" => InNames(c.arg[1], c.arg[2], c.arg[3], N, W)

(* The rows of p are named, and p writes the event e first if it is a      *)
(* procedure that does, and no other event.                                *)
Witnessed(p, g, N, W) ==
  /\ \A i \in DOMAIN p : IsNamed(p[i], N, W)
  /\ \A e \in Witnesses : /\ \A i \in DOMAIN p : IsEvent(p[i], e) => i = 1 /\ g = e
                          /\ g = e => p # <<>> /\ IsEvent(p[1], e)

(* A tidy procedure is no witness.                                         *)
LEMMA TidyIsNoWitness ==
  ASSUME NEW p, NEW N, NEW W, NEW g, Tidy(p, N), g \notin Witnesses
  PROVE  Witnessed(p, g, N, W)
<1>1. \A i \in DOMAIN p : IsNamed(p[i], N, W)
  BY DEF Tidy, IsNamed, InNames
<1>2. \A e \in Witnesses : \A i \in DOMAIN p : ~IsEvent(p[i], e)
  BY DEF Tidy, IsEvent
<1> QED
  BY <1>1, <1>2 DEF Witnessed

(* A procedure that writes its event first is one.                         *)
LEMMA TidyTailIsWitness ==
  ASSUME NEW p, NEW N, NEW W, NEW g \in Witnesses, NEW x, TidyTail(p, N),
         p[1] = Log(EventKey(g), x, "event"), Named(EventKey(g), x, N, W)
  PROVE  Witnessed(p, g, N, W)
<1>1. /\ p[1].do = "log" /\ p[1].arg[1] = EventKey(g) /\ p[1].arg[2] = x
      /\ p[1].arg[3] = "event"
  BY CommandForms
<1>2. p # <<>> /\ \A i \in DOMAIN p : i # 1 => IsNamed(p[i], N, W)
  BY DEF TidyTail, IsNamed, InNames
<1>3. IsNamed(p[1], N, W)
  BY <1>1 DEF IsNamed, InNames
<1>4. \A e \in Witnesses : \A i \in DOMAIN p : IsEvent(p[i], e) => i = 1 /\ g = e
  <2> SUFFICES ASSUME NEW e \in Witnesses, NEW i \in DOMAIN p, IsEvent(p[i], e)
               PROVE  i = 1 /\ g = e
    OBVIOUS
  <2>1. i = 1
    BY DEF TidyTail, IsEvent
  <2>2. EventKey(e) = EventKey(g)
    BY <1>1, <2>1 DEF IsEvent
  <2> QED
    BY <2>1, <2>2 DEF EventKey, Witnesses
<1>5. IsEvent(p[1], g)
  BY <1>1 DEF IsEvent
<1> QED
  BY <1>2, <1>3, <1>4, <1>5 DEF Witnessed

(* opd_breakscript and script_bp_wa are tidy.                              *)
LEMMA BreakscriptIsTidy ==
  ASSUME NEW L, NEW E, NEW spec \in Seq(SpecLine(L, E)), NEW rank, NEW N,
         {spec[i].at : i \in DOMAIN spec} \cup E \subseteq N
  PROVE  Tidy(opd_breakscript(spec, rank), N)
<1> DEFINE r == opd_readscript(spec, rank)
           a == Log("opd.spec.done", "", "text")
           c == Do("gdb_continue")
           D == {spec[i].at : i \in DOMAIN spec}
           M == D \cup E
           s == <<a>>
           t == <<c>>
<1>1. Tidy(r.done, M)
  <2>1. IsReading(r, D, E, SpecFunctions(spec))
    BY ReadscriptIsQuiet
  <2> HIDE DEF r, D
  <2> QED
    BY <2>1 DEF IsReading
<1>2. opd_breakscript(spec, rank) = IF r.failed THEN r.done ELSE r.done \o <<a, c>>
  BY DEF opd_breakscript
<1>3. M \subseteq N
  OBVIOUS
<1> HIDE DEF M
<1>4. Tidy(r.done, N)
  BY <1>1, <1>3 DEF Tidy, Named
<1>5. c.do = "gdb_continue"
  <2>1. \A command : Do(command).do = command
    BY CommandForms
  <2> QED
    BY <2>1, Zenon
<1>6. Tidy(s, N)
  <2>1. \A x : Named("opd.spec.done", x, N, {})
    BY DEF Named
  <2>2. \A x, of : of # "event" => Tidy(<<Log("opd.spec.done", x, of)>>, N)
    BY <2>1, RowIsTidy
  <2>3. "text" # "event"
    OBVIOUS
  <2> QED
    BY <2>2, <2>3, Zenon
<1> HIDE DEF r, a, c
<1>7. Tidy(t, N)
  BY <1>5, OtherIsTidy
<1>8. <<a, c>> = s \o t
  BY Two
<1> HIDE DEF s, t
<1>9. Tidy(s \o t, N)
  BY <1>6, <1>7, TidyTogether
<1> DEFINE w == s \o t
<1> HIDE DEF w
<1>10. Tidy(w, N)
  BY <1>9 DEF w
<1>11. Tidy(r.done \o w, N)
  BY <1>4, <1>10, TidyTogether
<1>12. r.done \o <<a, c>> = r.done \o w
  BY <1>8 DEF w
<1> QED
  BY <1>2, <1>4, <1>11, <1>12

(* The start of a watchpoint.                                              *)
LEMMA WatchpointStartIsTidy ==
  ASSUME NEW x, NEW N
  PROVE  Tidy(script_bp_wa(x), N)
<1> DEFINE a == Watch("script_wa_up", x)
           b == Log("opd.spec.watchpoint.start", x, "text")
           c == Do("gdb_continue")
           p == <<a, b, c>>
<1>1. /\ a.do = "gdb_setWatchpoint"
      /\ b.arg[1] = "opd.spec.watchpoint.start" /\ b.arg[2] = x /\ b.arg[3] = "text"
  BY CommandForms
<1>2. c.do = "gdb_continue"
  <2>1. \A command : Do(command).do = command
    BY CommandForms
  <2> QED
    BY <2>1, Zenon
<1>3. script_bp_wa(x) = p
  BY DEF script_bp_wa
<1> HIDE DEF a, b, c
<1>4. p \in Seq({a, b, c}) /\ DOMAIN p = {1, 2, 3} /\ p[1] = a /\ p[2] = b /\ p[3] = c
  OBVIOUS
<1> HIDE DEF p
<1>5. \A i \in DOMAIN p : p[i].do = "log" => p[i] = b
  BY <1>1, <1>2, <1>4
<1>6. \A i \in DOMAIN p : p[i].do = "log" =>
        p[i].arg[3] # "event" /\ Named(p[i].arg[1], p[i].arg[2], N, {})
  BY <1>1, <1>5 DEF Named
<1>7. Tidy(p, N)
  BY <1>4, <1>6 DEF Tidy
<1> QED
  BY <1>3, <1>7

(* The procedures of a specification: script_bp and script_wa_up write the *)
(* stop they are called for first, and nobody else writes one.             *)
LEMMA ProcedureRows ==
  ASSUME NEW L, NEW E, NEW spec \in Seq(SpecLine(L, E)), NEW rank,
         NEW f \in SpecFunctions(spec)
  PROVE  Witnessed(SpecProc(spec, rank)[f], f[1], NamesOf(spec, E), WatchedBy(spec))
<1> DEFINE F == SpecFunctions(spec)
           D == {spec[k].at : k \in DOMAIN spec}
           N == NamesOf(spec, E)
           W == WatchedBy(spec)
           r == opd_readscript(spec, rank)
           p == SpecProc(spec, rank)[f]
<1>1. \A x : /\ <<"opd_breakscript", x>>[1] = "opd_breakscript"
             /\ <<"script_bp", x>>[1] = "script_bp"       /\ <<"script_bp", x>>[2] = x
             /\ <<"script_bp_wa", x>>[1] = "script_bp_wa" /\ <<"script_bp_wa", x>>[2] = x
             /\ <<"script_wa_up", x>>[1] = "script_wa_up" /\ <<"script_wa_up", x>>[2] = x
  OBVIOUS
<1>2. /\ f[1] = "opd_breakscript" => p = opd_breakscript(spec, rank)
      /\ f[1] = "script_bp"       => p = script_bp(f[2], r.items[f[2]])
      /\ f[1] = "script_bp_wa"    => p = script_bp_wa(f[2])
      /\ f[1] = "script_wa_up"    => p = script_wa_up(f[2], r.watched[f[2]])
  BY DEF SpecProc
<1>3. D \cup E \subseteq N /\ NoLocation \in N
  BY DEF NamesOf
<1>4. /\ r.items \in [D -> Seq(E)] /\ r.watched \in [D -> E \cup {NoLocation}]
  <2>1. IsReading(r, D, E, F)
    BY ReadscriptIsQuiet
  <2> HIDE DEF r, D, F
  <2> QED
    BY <2>1 DEF IsReading
<1> HIDE DEF p, r, F, D, N, W
<1>5. CASE f = <<"opd_breakscript", NoLocation>>
  <2>1. p = opd_breakscript(spec, rank) /\ f[1] = "opd_breakscript"
    BY <1>1, <1>2, <1>5
  <2>2. Tidy(p, N)
    BY <1>3, <2>1, BreakscriptIsTidy DEF D
  <2>3. f[1] \notin Witnesses
    BY <2>1 DEF Witnesses
  <2> QED
    BY <2>2, <2>3, TidyIsNoWitness DEF p, N, W
<1>6. ASSUME NEW x \in D, f = <<"script_bp", x>>
      PROVE  Witnessed(p, f[1], N, W)
  <2> DEFINE items == r.items[x]
  <2>1. p = script_bp(x, items) /\ f[1] = "script_bp"
    BY <1>1, <1>2, <1>6
  <2>2. items \in Seq(E)
    BY <1>4
  <2> HIDE DEF items
  <2>3. E \subseteq N /\ x \in N
    BY <1>3
  <2>4. TidyTail(p, N) /\ p[1] = Log("opd.spec.breakpoint", x, "event")
    BY <2>1, <2>2, <2>3, BreakpointRows
  <2>5. EventKey(f[1]) = "opd.spec.breakpoint" /\ f[1] \in Witnesses
    BY <2>1 DEF EventKey, Witnesses
  <2>6. Named(EventKey(f[1]), x, N, W)
    BY <2>3, <2>5 DEF Named
  <2>7. p[1] = Log(EventKey(f[1]), x, "event")
    BY <2>4, <2>5
  <2> QED
    BY <2>4, <2>5, <2>6, <2>7, TidyTailIsWitness
<1>7. ASSUME NEW x, f = <<"script_bp_wa", x>>
      PROVE  Witnessed(p, f[1], N, W)
  <2>1. p = script_bp_wa(x) /\ f[1] = "script_bp_wa"
    BY <1>1, <1>2, <1>7
  <2>2. f[1] \notin Witnesses
    BY <2>1 DEF Witnesses
  <2>3. Tidy(p, N)
    BY <2>1, WatchpointStartIsTidy
  <2> QED
    BY <2>2, <2>3, TidyIsNoWitness
<1>8. ASSUME NEW x \in W, x \in D, f = <<"script_wa_up", x>>
      PROVE  Witnessed(p, f[1], N, W)
  <2> DEFINE item == r.watched[x]
  <2>1. p = script_wa_up(x, item) /\ f[1] = "script_wa_up"
    BY <1>1, <1>2, <1>8
  <2>2. item \in N
    BY <1>3, <1>4, <1>8
  <2> HIDE DEF item
  <2> DEFINE y == <<x, item>>
  <2>3. y[1] = x /\ y[2] = item
    OBVIOUS
  <2>4. TidyTail(p, N) /\ p[1] = Log("opd.spec.watchpoint", y, "event")
    BY <2>1, ChangeRows
  <2> HIDE DEF y
  <2>5. EventKey(f[1]) = "opd.spec.watchpoint" /\ f[1] \in Witnesses
    BY <2>1 DEF EventKey, Witnesses
  <2>6. Named(EventKey(f[1]), y, N, W)
    BY <1>8, <2>2, <2>3, <2>5 DEF Named
  <2>7. p[1] = Log(EventKey(f[1]), y, "event")
    BY <2>4, <2>5
  <2> QED
    BY <2>4, <2>5, <2>6, <2>7, TidyTailIsWitness
<1>9. \A i \in DOMAIN spec : spec[i].at \in D /\ (spec[i].kind = "watch" => spec[i].at \in W)
  BY DEF D, W, WatchedBy
<1>10. Witnessed(p, f[1], N, W)
  BY <1>5, <1>6, <1>7, <1>8, <1>9, FunctionsOf DEF p, N, W
<1> QED
  BY <1>10 DEF p, N, W

----------------------------------------------------------------------------
(* Picked, element by element.                                             *)

(* f is what was picked of s after each of its first n elements.           *)
PickTo(f, s, I, n) ==
  f = [k \in 0 .. n |-> IF k = 0 THEN <<>>
                        ELSE IF k \in I THEN Append(f[k - 1], s[k]) ELSE f[k - 1]]

(* Elements can be picked one after the other, however many there are.     *)
LEMMA PickingGoesOn ==
  ASSUME NEW s, NEW I, NEW n \in Nat
  PROVE  \E f : PickTo(f, s, I, n)
<1> DEFINE Stuck == {m \in Nat : ~\E f : PickTo(f, s, I, m)}
           OnePick(g, k) == IF k \in I THEN Append(g, s[k]) ELSE g
<1>1. SUFFICES ASSUME n \in Stuck PROVE FALSE
  OBVIOUS
<1>2. PICK m \in Stuck : \A k \in Stuck : m <= k
  BY <1>1, LeastNatural
<1>3. m \in Nat
  OBVIOUS
<1> HIDE DEF OnePick
<1>4. \A f, k : PickTo(f, s, I, k) <=> f = [j \in 0 .. k |-> IF j = 0 THEN <<>> ELSE OnePick(f[j - 1], j)]
  BY DEF PickTo, OnePick
<1>5. CASE m = 0
  <2> DEFINE f == [k \in 0 .. 0 |-> <<>>]
  <2>1. f = [j \in 0 .. m |-> IF j = 0 THEN <<>> ELSE OnePick(f[j - 1], j)]
    BY <1>5
  <2> QED
    BY <1>4, <2>1
<1>6. CASE m # 0
  <2>1. m - 1 \in Nat /\ ~(m <= m - 1)
    BY <1>3, <1>6
  <2>2. m - 1 \notin Stuck
    BY <1>2, <2>1
  <2>3. PICK g : PickTo(g, s, I, m - 1)
    BY <2>1, <2>2
  <2> DEFINE f == [k \in 0 .. m |-> IF k = m THEN OnePick(g[m - 1], m) ELSE g[k]]
  <2>4. /\ DOMAIN g = 0 .. m - 1
        /\ \A i \in 0 .. m - 1 : g[i] = IF i = 0 THEN <<>> ELSE OnePick(g[i - 1], i)
    BY <1>4, <2>3
  <2>5. ASSUME NEW i \in 0 .. m
        PROVE  f[i] = IF i = 0 THEN <<>> ELSE OnePick(f[i - 1], i)
    <3>1. CASE i = m
      <4>1. f[m - 1] = g[m - 1] /\ f[m] = OnePick(g[m - 1], m)
        BY <1>3, <1>6
      <4> QED
        BY <1>6, <3>1, <4>1
    <3>2. CASE i # m
      <4>1. i \in 0 .. m - 1 /\ f[i] = g[i] /\ (i # 0 => f[i - 1] = g[i - 1])
        BY <1>3, <3>2
      <4> QED
        BY <2>4, <4>1
    <3> QED
      BY <3>1, <3>2
  <2>6. f = [j \in 0 .. m |-> IF j = 0 THEN <<>> ELSE OnePick(f[j - 1], j)]
    BY <2>5
  <2> QED
    BY <1>4, <2>6
<1> QED
  BY <1>5, <1>6

(* Picked is the last of them.                                             *)
LEMMA PickedIs ==
  ASSUME NEW s, NEW I, Len(s) \in Nat
  PROVE  \E f : PickTo(f, s, I, Len(s)) /\ Picked(s, I) = f[Len(s)]
<1> DEFINE n == Len(s)
           chosen == CHOOSE f : PickTo(f, s, I, n)
<1>1. PickTo(chosen, s, I, n)
  BY PickingGoesOn
<1>2. Picked(s, I) = chosen[n]
  BY DEF Picked, PickTo
<1> QED
  BY <1>1, <1>2

(* Element by element.                                                     *)
LEMMA PickingStep ==
  ASSUME NEW s, NEW I, NEW n \in Nat, NEW f, PickTo(f, s, I, n)
  PROVE  /\ f[0] = <<>>
         /\ \A k \in 1 .. n : f[k] = IF k \in I THEN Append(f[k - 1], s[k]) ELSE f[k - 1]
<1> DEFINE F(i) == IF i = 0 THEN <<>> ELSE IF i \in I THEN Append(f[i - 1], s[i]) ELSE f[i - 1]
<1>1. f = [k \in 0 .. n |-> F(k)]
  BY DEF PickTo
<1>2. \A k : k # 0 => F(k) = IF k \in I THEN Append(f[k - 1], s[k]) ELSE f[k - 1]
  OBVIOUS
<1>3. F(0) = <<>>
  OBVIOUS
<1> HIDE DEF F
<1>4. \A k \in 0 .. n : f[k] = F(k)
  BY <1>1
<1>5. 0 \in 0 .. n /\ \A k \in 1 .. n : k \in 0 .. n /\ k # 0
  OBVIOUS
<1> QED
  BY <1>2, <1>3, <1>4, <1>5

(* What is picked of the first n elements depends on no other.             *)
LEMMA PickingAgrees ==
  ASSUME NEW s, NEW t, NEW I, NEW J, NEW m \in Nat, NEW n \in Nat, m <= n,
         NEW f, PickTo(f, s, I, m), NEW g, PickTo(g, t, J, n),
         \A k \in 1 .. m : s[k] = t[k] /\ (k \in I <=> k \in J)
  PROVE  \A k \in 0 .. m : f[k] = g[k]
<1> DEFINE Apart == {k \in 0 .. m : f[k] # g[k]}
<1>1. SUFFICES ASSUME Apart # {} PROVE FALSE
  OBVIOUS
<1>2. Apart \subseteq Nat
  OBVIOUS
<1>3. PICK k \in Apart : \A j \in Apart : k <= j
  <2> HIDE DEF Apart
  <2> QED
    BY <1>1, <1>2, LeastNatural
<1>4. f[0] = <<>> /\ g[0] = <<>>
  BY PickingStep
<1>5. k \in 1 .. m /\ k \in 1 .. n /\ k - 1 \in 0 .. m /\ ~(k <= k - 1)
  BY <1>4
<1>6. f[k - 1] = g[k - 1]
  BY <1>3, <1>5
<1>7. /\ f[k] = IF k \in I THEN Append(f[k - 1], s[k]) ELSE f[k - 1]
      /\ g[k] = IF k \in J THEN Append(g[k - 1], t[k]) ELSE g[k - 1]
  BY <1>5, PickingStep
<1>8. f[k] = g[k]
  BY <1>5, <1>6, <1>7
<1> QED
  BY <1>8

(* They are sequences of what may be picked.                               *)
LEMMA PickingIsSeq ==
  ASSUME NEW S, NEW s, NEW I, NEW n \in Nat, NEW f, PickTo(f, s, I, n),
         \A k \in 1 .. n : k \in I => s[k] \in S
  PROVE  \A k \in 0 .. n : f[k] \in Seq(S)
<1>0. f[0] = <<>> /\ <<>> \in Seq(S)
  <2>1. f[0] = <<>>
    BY DEF PickTo
  <2> QED
    BY <2>1
<1> DEFINE Odd == {k \in 0 .. n : f[k] \notin Seq(S)}
<1>1. SUFFICES ASSUME Odd # {} PROVE FALSE
  OBVIOUS
<1>2. Odd \subseteq Nat
  OBVIOUS
<1>3. PICK k \in Odd : \A j \in Odd : k <= j
  <2> HIDE DEF Odd
  <2> QED
    BY <1>1, <1>2, LeastNatural
<1>4. k \in 1 .. n /\ k - 1 \in 0 .. n /\ ~(k <= k - 1)
  <2>1. k \in 0 .. n /\ k # 0
    BY <1>0
  <2> QED
    BY <2>1
<1>5. f[k - 1] \in Seq(S)
  BY <1>3, <1>4
<1>6. f[k] = IF k \in I THEN Append(f[k - 1], s[k]) ELSE f[k - 1]
  BY <1>4, PickingStep
<1>7. f[k] \in Seq(S)
  BY <1>4, <1>5, <1>6
<1> QED
  BY <1>7

(* Of one element more that element is picked, if it is asked for.         *)
LEMMA PickedAppend ==
  ASSUME NEW S, NEW s \in Seq(S), NEW e \in S, NEW I, NEW J,
         \A k \in DOMAIN s : k \in I <=> k \in J
  PROVE  /\ Picked(s, I) \in Seq(S)
         /\ Picked(Append(s, e), J) =
              IF Len(s) + 1 \in J THEN Append(Picked(s, I), e) ELSE Picked(s, I)
<1> DEFINE n == Len(s)
           t == Append(s, e)
<1>1. /\ n \in Nat /\ Len(t) = n + 1 /\ DOMAIN s = 1 .. n
      /\ \A k \in 1 .. n : t[k] = s[k] /\ s[k] \in S
      /\ t[n + 1] = e
  BY AppendFacts
<1> HIDE DEF t
<1>2. PICK f : PickTo(f, s, I, n) /\ Picked(s, I) = f[n]
  BY <1>1, PickedIs
<1>3. PICK g : PickTo(g, t, J, n + 1) /\ Picked(t, J) = g[n + 1]
  <2>1. Len(t) \in Nat
    BY <1>1
  <2> QED
    BY <1>1, <2>1, PickedIs
<1> HIDE DEF n
<1>4. n + 1 \in Nat /\ n <= n + 1 /\ \A k \in 1 .. n : s[k] = t[k] /\ (k \in I <=> k \in J)
  BY <1>1
<1>5. f[n] = g[n]
  BY <1>1, <1>2, <1>3, <1>4, PickingAgrees
<1>6. g[n + 1] = IF n + 1 \in J THEN Append(g[n], t[n + 1]) ELSE g[n]
  <2>1. n + 1 \in 1 .. n + 1 /\ (n + 1) - 1 = n
    BY <1>1
  <2>2. \A k \in 1 .. n + 1 : g[k] = IF k \in J THEN Append(g[k - 1], t[k]) ELSE g[k - 1]
    BY <1>3, <1>4, PickingStep
  <2> QED
    BY <2>1, <2>2
<1>7. f[n] \in Seq(S)
  <2>1. n \in 0 .. n /\ \A k \in 1 .. n : s[k] \in S
    BY <1>1
  <2>2. \A k \in 0 .. n : f[k] \in Seq(S)
    BY <1>1, <1>2, <2>1, PickingIsSeq
  <2> QED
    BY <2>1, <2>2
<1> QED
  BY <1>1, <1>2, <1>3, <1>5, <1>6, <1>7 DEF n, t

(* What is picked is what may be.                                          *)
LEMMA PickedIn ==
  ASSUME NEW A, NEW s \in Seq(A), NEW I, NEW S, \A k \in DOMAIN s : k \in I => s[k] \in S
  PROVE  Picked(s, I) \in Seq(S)
<1> DEFINE n == Len(s)
<1>1. n \in Nat /\ n \in 0 .. n /\ \A k \in 1 .. n : k \in I => s[k] \in S
  BY SeqFacts
<1>2. PICK f : PickTo(f, s, I, n) /\ Picked(s, I) = f[n]
  BY <1>1, PickedIs
<1> HIDE DEF n
<1>3. \A k \in 0 .. n : f[k] \in Seq(S)
  BY <1>1, <1>2, PickingIsSeq
<1> QED
  BY <1>1, <1>2, <1>3

(* What is picked of a sequence is one.                                    *)
LEMMA PickedIsSeq == ASSUME NEW S, NEW s \in Seq(S), NEW I PROVE Picked(s, I) \in Seq(S)
<1>1. \A k \in DOMAIN s : k \in I => s[k] \in S
  BY SeqFacts
<1> QED
  BY <1>1, PickedIn

(* Nothing is picked of nothing.                                           *)
LEMMA PickedEmpty == ASSUME NEW I PROVE Picked(<<>>, I) = <<>>
<1>1. Len(<<>>) = 0
  OBVIOUS
<1>2. PICK f : PickTo(f, <<>>, I, 0) /\ Picked(<<>>, I) = f[0]
  BY <1>1, PickedIs
<1> QED
  BY <1>2 DEF PickTo

(* Sets that agree about the elements pick the same.                       *)
LEMMA PickedSame ==
  ASSUME NEW S, NEW s \in Seq(S), NEW I, NEW J, \A k \in DOMAIN s : k \in I <=> k \in J
  PROVE  Picked(s, I) = Picked(s, J)
<1> DEFINE n == Len(s)
<1>1. n \in Nat /\ DOMAIN s = 1 .. n
  BY SeqFacts
<1>2. PICK f : PickTo(f, s, I, n) /\ Picked(s, I) = f[n]
  BY <1>1, PickedIs
<1>3. PICK g : PickTo(g, s, J, n) /\ Picked(s, J) = g[n]
  BY <1>1, PickedIs
<1> HIDE DEF n
<1>4. \A k \in 0 .. n : f[k] = g[k]
  <2>1. n <= n /\ \A k \in 1 .. n : s[k] = s[k] /\ (k \in I <=> k \in J)
    BY <1>1
  <2> QED
    BY <1>1, <1>2, <1>3, <2>1, PickingAgrees
<1> QED
  BY <1>1, <1>2, <1>3, <1>4

----------------------------------------------------------------------------
(* The rows of the log that record the stops at the breakpoints and        *)
(* watchpoints of a specification.                                         *)

(* l stopped at what was bound to a function of the procedure e.           *)
IsStopOf(l, e) == l.no # 0 /\ bps[l.no].fn[1] = e

StopsOf(e) == Picked(journal, {i \in DOMAIN journal : IsStopOf(journal[i], e)})

EventRows(e) == Picked(log, {i \in DOMAIN log : log[i].of = "event" /\ log[i].key = EventKey(e)})

(* The event of a stop is written for the stop being handled, by the       *)
(* procedure of that stop, with its line; and while such a stop is being   *)
(* handled its event is what is evaluated next.                            *)
Marked(e) ==
  /\ \A i \in DOMAIN code : IsEvent(code[i], e) =>
       i = 1 /\ current # <<>> /\ IsStopOf(current[1], e)
  /\ current # <<>> /\ IsStopOf(current[1], e) =>
       wait = "none" /\ code # <<>> /\ IsEvent(code[1], e) /\ line = current[1]

Matched(e) ==
  Len(EventRows(e)) = Len(StopsOf(e)) /\ \A i \in DOMAIN EventRows(e) : EventRows(e)[i].line = StopsOf(e)[i]

Known(l) == l.no # 0 => l.no \in DOMAIN bps

KnownStops == /\ \A i \in DOMAIN journal : Known(journal[i])
              /\ \A i \in DOMAIN current : Known(current[i])

MarkInv(N, W) ==
  /\ step_function = NoFunction
  /\ \A i \in DOMAIN code : code[i].do # "gdb_step" /\ IsNamed(code[i], N, W)
  /\ \A i \in DOMAIN log : InNames(log[i].key, log[i].x, log[i].of, N, W)
  /\ KnownStops
  /\ \A e \in Witnesses : Marked(e) /\ Matched(e)

(* What a breakpoint is bound to does not change.                          *)
LEMMA BoundStays ==
  ASSUME TypeOK, GdbExecute \/ AppRuns
  PROVE  \A n \in DOMAIN bps : n \in DOMAIN bps' /\ bps'[n].fn = bps[n].fn
<1> DEFINE B == [kind : {"break", "watch"}, fn : Functions, live : BOOLEAN]
<1>1. bps \in Seq(B)
  BY TypesOfTables
<1>2. CASE bps' = bps
  BY <1>2
<1>3. ASSUME NEW b \in B, bps' = Append(bps, b)
      PROVE  \A n \in DOMAIN bps : n \in DOMAIN bps' /\ bps'[n].fn = bps[n].fn
  <2>1. /\ Len(bps) \in Nat /\ DOMAIN bps = 1 .. Len(bps) /\ DOMAIN bps' = 1 .. (Len(bps) + 1)
        /\ \A n \in 1 .. Len(bps) : bps'[n] = bps[n]
    BY <1>1, <1>3, AppendFacts
  <2> QED
    BY <2>1
<1>4. ASSUME NEW n \in DOMAIN bps, bps' = [bps EXCEPT ![n].live = FALSE]
      PROVE  \A m \in DOMAIN bps : m \in DOMAIN bps' /\ bps'[m].fn = bps[m].fn
  <2>1. \A m \in DOMAIN bps : bps[m] \in B
    <3>1. DOMAIN bps = 1 .. Len(bps)
      BY TypesOfTables
    <3> HIDE DEF B
    <3> QED
      BY <1>1, <3>1, SeqFacts
  <2>2. DOMAIN bps' = DOMAIN bps /\ \A m \in DOMAIN bps : m # n => bps'[m] = bps[m]
    BY <1>4
  <2>3. bps'[n] = [bps[n] EXCEPT !.live = FALSE]
    BY <1>4
  <2>4. bps'[n].fn = bps[n].fn
    BY <2>1, <2>3
  <2> QED
    BY <2>2, <2>4
<1>5. CASE GdbExecute
  <2>1. bps' = bps \/ \E k \in {"break", "watch"} : gdb_stdin # <<>> /\ Added(k)
    BY <1>5 DEF GdbExecute, GdbQuery, GdbInsert, GdbWatch, GdbCall, Resume, ResumeFaulted,
                RefuseResume, GdbExit, Execute
  <2>2. ASSUME NEW k \in {"break", "watch"}, gdb_stdin # <<>>, Added(k)
        PROVE  \A n \in DOMAIN bps : n \in DOMAIN bps' /\ bps'[n].fn = bps[n].fn
    <3> DEFINE b == [kind |-> k, fn |-> Head(gdb_stdin).fn, live |-> TRUE]
    <3>1. \A n \in DOMAIN bps : n \in 1 .. Len(bps)
      BY TypesOfTables
    <3>2. bps' = Append(bps, b)
      BY <2>2 DEF Added
    <3> HIDE DEF b
    <3> DEFINE T == B \cup {b}
    <3> HIDE DEF B
    <3>3. bps \in Seq(T) /\ b \in T
      BY <1>1
    <3> HIDE DEF T
    <3>4. /\ Len(bps) \in Nat /\ DOMAIN bps = 1 .. Len(bps) /\ DOMAIN bps' = 1 .. (Len(bps) + 1)
          /\ \A n \in 1 .. Len(bps) : bps'[n] = bps[n]
      BY <3>2, <3>3, AppendFacts
    <3> QED
      BY <3>4
  <2> QED
    BY <1>2, <2>1, <2>2
<1>6. CASE AppRuns
  <2>1. bps' = bps \/ \E n \in DOMAIN bps : bps' = [bps EXCEPT ![n].live = FALSE]
    <3>1. CASE AppLeavesScope
      BY <3>1 DEF AppLeavesScope, Armed
    <3>2. CASE AppHits \/ AppSteps \/ AppSignalled \/ AppExits \/ AppWrites
      BY <3>2 DEF AppHits, AppSteps, AppSignalled, AppExits, AppWrites, gdb
    <3> QED
      BY <1>6, <3>1, <3>2 DEF AppRuns
  <2> QED
    BY <1>2, <1>4, <2>1
<1> QED
  BY <1>5, <1>6

(* The keys of the rows a specification writes of its stops.               *)
SpecKeys == {"opd.spec.breakpoint.set", "opd.spec.breakpoint.set.item", "opd.spec.breakpoint",
             "opd.spec.breakpoint.item", "opd.spec.watchpoint"}

(* The handlers of opd.tcl that are not the specification's write rows of  *)
(* other keys.                                                             *)
LEMMA OtherRows ==
  ASSUME NEW p \in Quiets \cup {opd_dispatchSigSeg, opd_dispatchOther}, NEW i \in DOMAIN p
  PROVE  p[i].do # "gdb_step" /\ (p[i].do = "log" => p[i].arg[1] \notin SpecKeys)
<1> DEFINE Others == {"opd.stdErr", "opd.gdb", "opd.stdOut", "opd.PrgExt", "opd.Unknwn",
                      "opd.SEGFAULT"}
           Plainly(c) == c.do = "log" => c.arg[1] \in Others
<1>1. p[i].do # "gdb_step"
  BY OpdTclScripts
<1>2. \A key \in Others : \A x, of : Plainly(Log(key, x, of))
  BY CommandForms
<1>3. \A what, x : Plainly(Query(what, x))
  BY CommandForms
<1>4. Plainly(Do("opd_setExit"))
  <2>1. \A command : Do(command).do = command
    BY CommandForms
  <2>2. Do("opd_setExit").do = "opd_setExit"
    BY <2>1, Zenon
  <2> QED
    BY <2>2
<1>5. /\ "opd.stdErr" \in Others /\ "opd.gdb" \in Others /\ "opd.stdOut" \in Others
      /\ "opd.PrgExt" \in Others /\ "opd.Unknwn" \in Others /\ "opd.SEGFAULT" \in Others
  OBVIOUS
<1>6. Others \cap SpecKeys = {}
  BY DEF SpecKeys
<1>7. \A c : Plainly(c) => (c.do = "log" => c.arg[1] \notin SpecKeys)
  BY <1>6
<1> HIDE DEF Others, Plainly
<1>8. \A a, b, c, d, e, f :
        /\ \A j \in DOMAIN <<a>> : <<a>>[j] = a
        /\ \A j \in DOMAIN <<a, b>> : <<a, b>>[j] \in {a, b}
        /\ \A j \in DOMAIN <<a, b, c, d, e, f>> : <<a, b, c, d, e, f>>[j] \in {a, b, c, d, e, f}
  OBVIOUS
<1>one. \A a : \A j \in DOMAIN <<a>> : <<a>>[j] = a
  OBVIOUS
<1>9. ASSUME NEW x, NEW of
      PROVE  /\ Plainly(Log("opd.stdErr", x, of)) /\ Plainly(Log("opd.gdb", x, of))
             /\ Plainly(Log("opd.stdOut", x, of)) /\ Plainly(Log("opd.PrgExt", x, of))
             /\ Plainly(Log("opd.Unknwn", x, of)) /\ Plainly(Log("opd.SEGFAULT", x, of))
  BY <1>2, <1>5, Zenon
<1>10. Plainly(p[i])
  <2>1. CASE p \in Quiets
    <3>1. CASE p = opd_dispatchStdErr
      <4>1. p = <<Log("opd.stdErr", "", "event")>>
        BY <3>1, Zenon DEF opd_dispatchStdErr
      <4>2. p[i] = Log("opd.stdErr", "", "event")
        BY <4>1, <1>one, Zenon
      <4>3. Plainly(Log("opd.stdErr", "", "event"))
        BY <1>9, Zenon
      <4> QED
        BY <4>2, <4>3, Zenon
    <3>2. CASE p = opd_dispatchGDB
      <4>1. p = <<Log("opd.gdb", "", "event")>>
        BY <3>2, Zenon DEF opd_dispatchGDB
      <4>2. p[i] = Log("opd.gdb", "", "event")
        BY <4>1, <1>one, Zenon
      <4>3. Plainly(Log("opd.gdb", "", "event"))
        BY <1>9, Zenon
      <4> QED
        BY <4>2, <4>3, Zenon
    <3>3. CASE p = opd_dispatchStdOut
      <4>1. p = <<Log("opd.stdOut", "", "event")>>
        BY <3>3, Zenon DEF opd_dispatchStdOut
      <4>2. p[i] = Log("opd.stdOut", "", "event")
        BY <4>1, <1>one, Zenon
      <4>3. Plainly(Log("opd.stdOut", "", "event"))
        BY <1>9, Zenon
      <4> QED
        BY <4>2, <4>3, Zenon
    <3>4. CASE p = opd_dispatchPrgExt
      <4>1. p = <<Log("opd.PrgExt", "", "event")>>
        BY <3>4, Zenon DEF opd_dispatchPrgExt
      <4>2. p[i] = Log("opd.PrgExt", "", "event")
        BY <4>1, <1>one, Zenon
      <4>3. Plainly(Log("opd.PrgExt", "", "event"))
        BY <1>9, Zenon
      <4> QED
        BY <4>2, <4>3, Zenon
    <3>5. CASE p = <<>>
      BY <3>5
    <3> QED
      BY <2>1, <3>1, <3>2, <3>3, <3>4, <3>5 DEF Quiets
  <2>2. CASE p = opd_dispatchOther
    <3>1. \/ \E x, of : p[i] = Log("opd.Unknwn", x, of)
          \/ p[i] = Do("opd_setExit")
      <4> DEFINE a == Log("opd.Unknwn", "", "event")
                 b == Do("opd_setExit")
      <4>1. p = <<a, b>>
        BY <2>2, Zenon DEF opd_dispatchOther
      <4> HIDE DEF a, b
      <4>2. p[i] = a \/ p[i] = b
        <5>1. p[i] \in {a, b}
          BY <1>8, <4>1, Zenon
        <5> QED
          BY <5>1
      <4> QED
        BY <4>2, Zenon DEF a, b
    <3> QED
      BY <1>4, <1>9, <3>1
  <2>3. CASE p = opd_dispatchSigSeg
    <3> DEFINE a == Log("opd.SEGFAULT", "", "event")
               b == Query("stack", "")
               c == Log("opd.SEGFAULT", "stack", "answer")
               d == Query("locals", "")
               e == Log("opd.SEGFAULT", "locals", "answer")
               f == Do("opd_setExit")
    <3>1. p = <<a, b, c, d, e, f>>
      BY <2>3, Zenon DEF opd_dispatchSigSeg
    <3>2. Plainly(a) /\ Plainly(b) /\ Plainly(c) /\ Plainly(d) /\ Plainly(e) /\ Plainly(f)
      BY <1>3, <1>4, <1>9, Zenon
    <3> HIDE DEF a, b, c, d, e, f
    <3>3. p[i] \in {a, b, c, d, e, f}
      BY <1>8, <3>1, Zenon
    <3> QED
      BY <3>2, <3>3
  <2> QED
    BY <2>1, <2>2, <2>3
<1> QED
  BY <1>1, <1>7, <1>10

(* A command that writes no row of the specification is named, and no      *)
(* event.                                                                  *)
LEMMA OtherRowIsNamed ==
  ASSUME NEW c, NEW N, NEW W, c.do = "log" => c.arg[1] \notin SpecKeys
  PROVE  IsNamed(c, N, W) /\ \A e : ~IsEvent(c, e)
BY DEF IsNamed, InNames, Named, IsEvent, EventKey, SpecKeys

(* main calls the procedure that its table has for the number in a stop,   *)
(* and a handler of opd.tcl otherwise.                                     *)
LEMMA DispatchCalls ==
  ASSUME TypeOK, Dispatch, app # "gone", step_function = NoFunction
  PROVE  /\ line'.kind \in Numbered =>
              code' = IF line'.no \in DOMAIN breakpoints THEN Proc[breakpoints[line'.no]] ELSE <<>>
         /\ line'.kind \notin Numbered =>
              code' \in Quiets \cup {opd_dispatchSigSeg, opd_dispatchOther}
<1> DEFINE k == line'.kind
<1>1. /\ UNCHANGED <<breakpoints, step_function>> /\ line' \in Line
      /\ \/ line' = Plain("stderr") /\ code' \in Quiets
         \/ /\ line' = Head(gdb_stdout)
            /\ \/ /\ code' = <<>>
                  /\ \/ k \in Numbered /\ line'.no \notin DOMAIN breakpoints
                     \/ k = "end-stepping-range" /\ step_function = NoFunction
               \/ /\ phase' = "loop"
                  /\ k \notin Numbered \cup {"end-stepping-range"} =>
                       code' \in Quiets \cup {opd_dispatchSigSeg, opd_dispatchOther}
  <2>1. opd_dispatchPrgExt \in Quiets
    BY DEF Quiets
  <2> QED
    BY <2>1, DispatchIs
<1>2. <<>> \in Quiets
  BY DEF Quiets
<1>3. CASE line' = Plain("stderr")
  BY <1>1, <1>3, DispatchIs DEF Plain, Numbered
<1>4. CASE line' # Plain("stderr")
  <2>1. ReadEvent /\ wait = "none"
    BY DispatchIs DEF Dispatch
  <2>2. event' = EventOfKind[k] /\ k \in Kinds
    BY <1>1, <1>4, <2>1, ReadIs DEF Line
  <2>3. /\ event' \in {"GDB_BRKPNT", "GDB_WPT", "GDB_WPS"} <=> k \in Numbered
        /\ event' = "GDB_STEP" <=> k = "end-stepping-range"
    BY <2>2, EventFacts
  <2>4. NoHandler(event)' <=> \/ k \in Numbered /\ line'.no \notin DOMAIN breakpoints
                              \/ k = "end-stepping-range"
    BY <1>1, <2>3, HandlerIsOfRead DEF HandlerFacts
  <2>5. IF NoHandler(event)' THEN code' = <<>> ELSE code' = Handler(event)'
    BY DEF Dispatch
  <2>6. CASE k \in Numbered
    <3>1. NoHandler(event)' <=> line'.no \notin DOMAIN breakpoints
      BY <2>4, <2>6 DEF Numbered
    <3>2. Handler(event)' = Proc[breakpoints'[line'.no]]
      BY <2>3, <2>6, HandlerIsOfRead DEF HandlerFacts
    <3> QED
      BY <1>1, <2>5, <2>6, <3>1, <3>2
  <2>7. CASE k \notin Numbered
    <3>1. CASE k = "end-stepping-range"
      BY <1>2, <2>4, <2>5, <2>7, <3>1
    <3>2. CASE k # "end-stepping-range"
      BY <1>1, <1>2, <2>7, <3>2
    <3> QED
      BY <3>1, <3>2
  <2> QED
    BY <2>6, <2>7
<1> QED
  BY <1>3, <1>4

(* What the procedures of the script are.                                  *)
MarkedScript(N, W) ==
  /\ Setup = opd_processscript
  /\ \A f \in Functions : /\ Witnessed(Proc[f], f[1], N, W)
                          /\ \A i \in DOMAIN Proc[f] : Proc[f][i].do # "gdb_step"

(* No row has been written and no stop is at hand before the first command. *)
LEMMA MarkInitially ==
  ASSUME NEW N, NEW W, MarkedScript(N, W), OpdInit
  PROVE  MarkInv(N, W)
<1> DEFINE h == IF HasArguments THEN 1 ELSE 0
           n == Len(Setup)
<1>1. /\ n \in Nat /\ DOMAIN Setup = 1 .. n
      /\ DOMAIN code = 1 .. h + n + 2
      /\ HasArguments => code[1].do = "gdb_set_arguments"
      /\ \A i \in 1 .. n : code[h + i] = Setup[i]
      /\ code[h + n + 1].do = "log" /\ code[h + n + 1].arg[1] = "opd.message"
      /\ code[h + n + 2].do = "gdb_start_run"
  BY SetupFacts
<1>2. h \in {0, 1} /\ (h = 1 => HasArguments)
  OBVIOUS
<1>3. \A i \in DOMAIN Setup : Setup[i].do = "gdb_setBreakpoint"
  <2> DEFINE b == Break("opd_breakscript", NoLocation)
  <2>1. b.do = "gdb_setBreakpoint"
    BY CommandForms
  <2>2. Setup = <<b>>
    BY DEF MarkedScript, opd_processscript
  <2> HIDE DEF b
  <2>3. \A i \in DOMAIN <<b>> : <<b>>[i] = b
    OBVIOUS
  <2> QED
    BY <2>1, <2>2, <2>3
<1> HIDE DEF h, n
<1>4. ASSUME NEW i \in DOMAIN code
      PROVE  code[i].do # "gdb_step" /\ (code[i].do = "log" => code[i].arg[1] \notin SpecKeys)
  <2>1. \/ i = 1 /\ h = 1
        \/ i = h + n + 1 \/ i = h + n + 2
        \/ i - h \in 1 .. n /\ h + (i - h) = i
    BY <1>1, <1>2
  <2>2. CASE (i = 1 /\ h = 1) \/ i = h + n + 1 \/ i = h + n + 2
    BY <1>1, <1>2, <2>2 DEF SpecKeys
  <2>3. CASE i - h \in 1 .. n /\ h + (i - h) = i
    <3>1. code[i] = Setup[i - h] /\ i - h \in DOMAIN Setup
      BY <1>1, <2>3
    <3> QED
      BY <1>3, <3>1
  <2> QED
    BY <2>1, <2>2, <2>3
<1>5. step_function = NoFunction
  <2>1. Init
    BY OpdStarts
  <2> QED
    BY <2>1 DEF Init
<1>6. log = <<>> /\ journal = <<>> /\ current = <<>>
  BY Zenon DEF OpdInit
<1>7. \A i \in DOMAIN code : IsNamed(code[i], N, W) /\ \A e : ~IsEvent(code[i], e)
  BY <1>4, OtherRowIsNamed
<1>8. \A e : EventRows(e) = <<>> /\ StopsOf(e) = <<>>
  BY <1>6, PickedEmpty DEF EventRows, StopsOf
<1>9. \A e : Matched(e)
  BY <1>8 DEF Matched
<1>10. \A e : Marked(e)
  BY <1>6, <1>7 DEF Marked
<1>11. /\ \A i \in DOMAIN log : FALSE
       /\ \A i \in DOMAIN journal : FALSE
       /\ \A i \in DOMAIN current : FALSE
  BY <1>6
<1> QED
  BY <1>4, <1>5, <1>7, <1>9, <1>10, <1>11 DEF MarkInv, KnownStops

(* A command that writes no row: the stop being handled is not one whose   *)
(* event is still to be written.                                           *)
LEMMA MarkEvaluated ==
  ASSUME NEW N, NEW W, OpdTypes, MarkInv(N, W), EvalGdb \/ opd_setExit
  PROVE  MarkInv(N, W)'
<1>1. TypeOK /\ CodeInv
  BY DEF OpdTypes
<1>2. /\ code # <<>> /\ code' = Tail(code) /\ Head(code).do # "log"
      /\ UNCHANGED <<line, bps, log, current, journal>>
      /\ Head(code).do # "gdb_step" => step_function' = step_function
  <2>1. CASE EvalGdb
    <3>1. Head(code).do # "log"
      <4>1. Head(code).do \in Asks \cup Calls \cup Resumes \cup {"gdb_set_arguments",
                                                                "gdb_start_run"}
        BY <1>1, <2>1, EvalFacts
      <4> QED
        BY <4>1 DEF Asks, Calls, Resumes
    <3> QED
      BY <1>1, <2>1, <3>1, EvalFacts DEF gdb, history
  <2>2. CASE opd_setExit
    BY <2>2 DEF opd_setExit, Evaluating, vars, opd, gdb, history
  <2> QED
    BY <2>1, <2>2
<1>3. /\ Head(code) = code[1] /\ 1 \in DOMAIN code
      /\ \A i \in DOMAIN code' : i + 1 \in DOMAIN code /\ code'[i] = code[i + 1] /\ i + 1 # 1
  BY <1>1, <1>2, TailFacts DEF CodeInv
<1>4. step_function' = NoFunction
  BY <1>2, <1>3 DEF MarkInv
<1>5. ASSUME NEW e \in Witnesses
      PROVE  Marked(e)' /\ Matched(e)'
  <2>1. Marked(e) /\ Matched(e)
    BY <1>5 DEF MarkInv
  <2>2. ~(current # <<>> /\ IsStopOf(current[1], e))
    BY <1>2, <1>3, <2>1 DEF Marked, IsEvent
  <2>3. \A i \in DOMAIN code' : ~IsEvent(code'[i], e)
    BY <1>3, <2>1 DEF Marked
  <2>4. Marked(e)'
    BY <1>2, <2>2, <2>3 DEF Marked, IsStopOf
  <2>5. Matched(e)'
    BY <1>2, <2>1 DEF Matched, EventRows, StopsOf, IsStopOf
  <2> QED
    BY <2>4, <2>5
<1>6. \A i \in DOMAIN code' : code'[i].do # "gdb_step" /\ IsNamed(code'[i], N, W)
  BY <1>3 DEF MarkInv
<1>7. /\ \A i \in DOMAIN log' : InNames(log'[i].key, log'[i].x, log'[i].of, N, W)
      /\ KnownStops'
  BY <1>2 DEF MarkInv, KnownStops, Known
<1> QED
  BY <1>4, <1>5, <1>6, <1>7 DEF MarkInv

(* A row: it is the event of a stop if and only if the stop being handled  *)
(* is one of that kind, and then the two are written together.             *)
LEMMA MarkLogged ==
  ASSUME NEW N, NEW W, OpdTypes, SessionInv, MarkInv(N, W), db_logMessage
  PROVE  MarkInv(N, W)'
<1>1. TypeOK /\ CodeInv
  BY DEF OpdTypes
<1>2. PICK row \in Rows :
        /\ log' = Append(log, row)
        /\ row.key = Head(code).arg[1] /\ row.x = Head(code).arg[2]
        /\ row.of = Head(code).arg[3] /\ row.line = line
  BY <1>1, LogsRow DEF OpdTypes
<1>3. /\ code # <<>> /\ code' = Tail(code) /\ Head(code).do = "log"
      /\ journal' = journal \o current /\ current' = <<>>
      /\ UNCHANGED <<line, bps, step_function>>
  BY DEF db_logMessage, Evaluating, vars, opd, gdb
<1>4. /\ Head(code) = code[1] /\ 1 \in DOMAIN code
      /\ \A i \in DOMAIN code' : i + 1 \in DOMAIN code /\ code'[i] = code[i + 1] /\ i + 1 # 1
  BY <1>1, <1>3, TailFacts DEF CodeInv
<1>5. /\ log \in Seq(Rows) /\ Len(log) \in Nat /\ DOMAIN log = 1 .. Len(log)
      /\ DOMAIN log' = 1 .. Len(log) + 1 /\ Len(log') = Len(log) + 1
      /\ \A i \in 1 .. Len(log) : log'[i] = log[i]
      /\ log'[Len(log) + 1] = row
  BY <1>2, AppendFacts DEF OpdTypes
<1>6. /\ journal \in Seq(StopRecords) /\ Len(journal) \in Nat /\ DOMAIN journal = 1 .. Len(journal)
  BY SeqFacts DEF OpdTypes
<1>7. \/ current = <<>> /\ journal' = journal
      \/ /\ current # <<>> /\ current[1] \in StopRecords /\ journal' = Append(journal, current[1])
         /\ DOMAIN current = {1}
  <2>1. CASE current = <<>>
    BY <1>3, <1>6, <2>1
  <2>2. CASE current # <<>>
    <3>1. Len(current) = 1 /\ current \in Seq(StopRecords)
      BY <2>2 DEF SessionInv, OnRecord, OpdTypes
    <3>2. current[1] \in StopRecords /\ DOMAIN current = {1}
      BY <3>1
    <3>3. journal \o current = Append(journal, current[1])
      <4>1. current = <<current[1]>>
        BY <3>1
      <4>2. \A s \in Seq(StopRecords), x \in StopRecords : s \o <<x>> = Append(s, x)
        OBVIOUS
      <4> QED
        BY <1>6, <3>2, <4>1, <4>2, Zenon
    <3> QED
      BY <1>3, <2>2, <3>2, <3>3
  <2> QED
    BY <2>1, <2>2
<1>8. \A i \in DOMAIN code' : code'[i].do # "gdb_step" /\ IsNamed(code'[i], N, W)
  BY <1>4 DEF MarkInv
<1>9. \A i \in DOMAIN log' : InNames(log'[i].key, log'[i].x, log'[i].of, N, W)
  <2>1. InNames(row.key, row.x, row.of, N, W)
    BY <1>2, <1>3, <1>4 DEF MarkInv, IsNamed
  <2>2. \A i \in DOMAIN log' : \/ i \in DOMAIN log /\ log'[i] = log[i]
                               \/ log'[i] = row
    BY <1>5
  <2> QED
    BY <2>1, <2>2 DEF MarkInv
<1>10. KnownStops'
  <2>1. \A i \in DOMAIN journal' : \/ i \in DOMAIN journal /\ journal'[i] = journal[i]
                                   \/ \E k \in DOMAIN current : journal'[i] = current[k]
    <3>1. CASE journal' = journal
      BY <3>1
    <3>2. CASE /\ current[1] \in StopRecords /\ journal' = Append(journal, current[1])
               /\ DOMAIN current = {1}
      <4>1. \A i \in DOMAIN journal' : \/ i \in DOMAIN journal /\ journal'[i] = journal[i]
                                       \/ journal'[i] = current[1]
        BY <1>6, <3>2, AppendFacts
      <4> QED
        BY <3>2, <4>1
    <3> QED
      BY <1>7, <3>1, <3>2
  <2>2. DOMAIN current' = {}
    BY <1>3
  <2> QED
    BY <1>3, <2>1, <2>2 DEF MarkInv, KnownStops, Known
<1>11. ASSUME NEW e \in Witnesses
       PROVE  Marked(e)' /\ Matched(e)'
  <2> DEFINE IsRow(r) == r.of = "event" /\ r.key = EventKey(e)
             I == {i \in DOMAIN log : IsRow(log[i])}
             J == {i \in DOMAIN log' : IsRow(log'[i])}
             C == {i \in DOMAIN journal : IsStopOf(journal[i], e)}
             D == {i \in DOMAIN journal' : IsStopOf(journal'[i], e)}
  <2>1. Marked(e) /\ Matched(e)
    BY <1>11 DEF MarkInv
  <2>2. Marked(e)'
    <3>1. \A i \in DOMAIN code' : ~IsEvent(code'[i], e)
      BY <1>4, <2>1 DEF Marked
    <3> QED
      BY <1>3, <3>1 DEF Marked
  <2>3. IsRow(row) <=> current # <<>> /\ IsStopOf(current[1], e)
    <3>1. IsRow(row) <=> IsEvent(code[1], e)
      BY <1>2, <1>3, <1>4 DEF IsEvent
    <3> QED
      BY <1>4, <2>1, <3>1 DEF Marked
  <2>4. current # <<>> /\ IsStopOf(current[1], e) => row.line = current[1]
    BY <1>2, <2>1 DEF Marked
  <2>5. EventRows(e) = Picked(log, I) /\ StopsOf(e) = Picked(journal, C)
    BY DEF EventRows, StopsOf
  <2>6. EventRows(e)' = Picked(log', J) /\ StopsOf(e)' = Picked(journal', D)
    BY <1>3 DEF EventRows, StopsOf, IsStopOf
  <2> DEFINE rows == EventRows(e)
             stops == StopsOf(e)
  <2>7. /\ rows \in Seq(Rows)
        /\ EventRows(e)' = IF IsRow(row) THEN Append(rows, row) ELSE rows
    <3>1. \A k \in DOMAIN log : k \in I <=> k \in J
      BY <1>5
    <3>2. Len(log) + 1 \in J <=> IsRow(row)
      BY <1>5
    <3> HIDE DEF I, J, IsRow
    <3>3. /\ Picked(log, I) \in Seq(Rows)
          /\ Picked(Append(log, row), J) =
               IF Len(log) + 1 \in J THEN Append(Picked(log, I), row) ELSE Picked(log, I)
      BY <1>5, <3>1, PickedAppend
    <3> QED
      BY <1>2, <2>5, <2>6, <3>2, <3>3
  <2>8. /\ stops \in Seq(StopRecords)
        /\ StopsOf(e)' = IF current # <<>> /\ IsStopOf(current[1], e)
                          THEN Append(stops, current[1]) ELSE stops
    <3>1. CASE current = <<>> /\ journal' = journal
      <4>1. C = D
        BY <3>1
      <4>2. Picked(journal, C) \in Seq(StopRecords)
        BY <1>6, PickedIsSeq
      <4> QED
        BY <2>5, <2>6, <3>1, <4>1, <4>2
    <3>2. CASE /\ current # <<>> /\ current[1] \in StopRecords
               /\ journal' = Append(journal, current[1])
      <4>1. /\ DOMAIN journal' = 1 .. Len(journal) + 1
            /\ \A i \in 1 .. Len(journal) : journal'[i] = journal[i]
            /\ journal'[Len(journal) + 1] = current[1]
        BY <1>6, <3>2, AppendFacts
      <4>2. \A k \in DOMAIN journal : k \in C <=> k \in D
        BY <1>6, <4>1
      <4>3. Len(journal) + 1 \in D <=> IsStopOf(current[1], e)
        BY <1>6, <4>1
      <4> HIDE DEF C, D
      <4> DEFINE l == current[1]
      <4>4. l \in StopRecords
        BY <3>2
      <4> HIDE DEF l
      <4>5. /\ Picked(journal, C) \in Seq(StopRecords)
            /\ Picked(Append(journal, l), D) =
                 IF Len(journal) + 1 \in D THEN Append(Picked(journal, C), l)
                                           ELSE Picked(journal, C)
        BY <1>6, <4>2, <4>4, PickedAppend
      <4>6. /\ Picked(journal, C) \in Seq(StopRecords)
            /\ Picked(Append(journal, current[1]), D) =
                 IF Len(journal) + 1 \in D THEN Append(Picked(journal, C), current[1])
                                           ELSE Picked(journal, C)
        BY <4>5 DEF l
      <4> QED
        BY <2>5, <2>6, <3>2, <4>3, <4>6
    <3> QED
      BY <1>7, <3>1, <3>2
  <2> HIDE DEF rows, stops, IsRow
  <2>9. Len(rows) = Len(stops) /\ \A i \in DOMAIN rows : rows[i].line = stops[i]
    BY <2>1 DEF Matched, rows, stops
  <2>10. Matched(e)'
    <3>1. CASE ~IsRow(row)
      BY <2>3, <2>7, <2>8, <2>9, <3>1 DEF Matched
    <3>2. CASE IsRow(row)
      <4>1. /\ EventRows(e)' = Append(rows, row) /\ StopsOf(e)' = Append(stops, current[1])
            /\ current[1] \in StopRecords /\ row.line = current[1]
        BY <1>7, <2>3, <2>4, <2>7, <2>8, <3>2
      <4>2. /\ Len(rows) \in Nat /\ DOMAIN rows = 1 .. Len(rows)
            /\ DOMAIN EventRows(e)' = 1 .. Len(rows) + 1 /\ Len(EventRows(e)') = Len(rows) + 1
            /\ \A i \in 1 .. Len(rows) : EventRows(e)'[i] = rows[i]
            /\ EventRows(e)'[Len(rows) + 1] = row
        BY <2>7, <4>1, AppendFacts
      <4>3. /\ Len(StopsOf(e)') = Len(stops) + 1
            /\ \A i \in 1 .. Len(stops) : StopsOf(e)'[i] = stops[i]
            /\ StopsOf(e)'[Len(stops) + 1] = current[1]
        BY <2>8, <4>1, AppendFacts
      <4>4. \A i \in 1 .. Len(rows) + 1 : i \in 1 .. Len(rows) \/ i = Len(rows) + 1
        BY <4>2
      <4> QED
        BY <2>9, <4>1, <4>2, <4>3, <4>4 DEF Matched
    <3> QED
      BY <3>1, <3>2
  <2> QED
    BY <2>2, <2>10
<1> QED
  BY <1>3, <1>8, <1>9, <1>10, <1>11 DEF MarkInv

(* Where opd evaluates nothing, no stop waits for its event, and what it   *)
(* reads is not the stop being handled.                                    *)
LEMMA MarkUndisturbed ==
  ASSUME NEW N, NEW W, OpdTypes, MarkInv(N, W),
         Await \/ StartLoop \/ opd_exit \/ UNCHANGED opdVars
  PROVE  MarkInv(N, W)'
<1>1. TypeOK
  BY DEF OpdTypes
<1>2. /\ UNCHANGED <<code, log, journal, current, bps, step_function>>
      /\ wait # "none" \/ code = <<>> \/ UNCHANGED <<wait, line>>
  <2>1. CASE Await
    BY <1>1, <2>1, ReadFrame DEF Await, session, history, gdb
  <2>2. CASE StartLoop
    BY <2>2 DEF StartLoop, vars, opd, gdb, history
  <2>3. CASE opd_exit
    BY <2>3 DEF opd_exit, gdb_exit, Fire, Write, opd, gdb, history
  <2>4. CASE UNCHANGED opdVars
    BY <2>4 DEF opdVars, vars, opd, gdb, session, history
  <2> QED
    BY <2>1, <2>2, <2>3, <2>4
<1>3. ASSUME NEW e \in Witnesses
      PROVE  Marked(e)' /\ Matched(e)'
  <2>1. Marked(e) /\ Matched(e)
    BY <1>3 DEF MarkInv
  <2>2. Marked(e)'
    BY <1>2, <2>1 DEF Marked, IsStopOf
  <2>3. Matched(e)'
    BY <1>2, <2>1 DEF Matched, EventRows, StopsOf, IsStopOf
  <2> QED
    BY <2>2, <2>3
<1>4. /\ \A i \in DOMAIN code' : code'[i].do # "gdb_step" /\ IsNamed(code'[i], N, W)
      /\ \A i \in DOMAIN log' : InNames(log'[i].key, log'[i].x, log'[i].of, N, W)
      /\ KnownStops'
  BY <1>2 DEF MarkInv, KnownStops, Known
<1> QED
  BY <1>2, <1>3, <1>4 DEF MarkInv

(* What gdb and the application do leaves opd where it is, and the         *)
(* breakpoints bound to what they were bound to.                           *)
LEMMA MarkObserved ==
  ASSUME NEW N, NEW W, OpdTypes, MarkInv(N, W), GdbStep \/ AppStep
  PROVE  MarkInv(N, W)'
<1>1. TypeOK
  BY DEF OpdTypes
<1>2. /\ UNCHANGED <<code, log, journal, current, line, wait, step_function>>
      /\ \A n \in DOMAIN bps : n \in DOMAIN bps' /\ bps'[n].fn = bps[n].fn
  <2>1. CASE GdbStep
    <3>1. GdbExecute /\ UNCHANGED <<code, log, current, journal>>
      BY <2>1 DEF GdbStep, session
    <3>2. UNCHANGED <<line, wait, step_function>>
      BY <1>1, <3>1, GdbLines DEF opd
    <3> QED
      BY <1>1, <3>1, <3>2, BoundStays
  <2>2. CASE AppStep
    <3>1. AppRuns /\ UNCHANGED <<code, log, current, journal>>
      BY <2>2 DEF AppStep, session
    <3>2. UNCHANGED <<line, wait, step_function>>
      BY <1>1, <3>1, AppLines DEF opd
    <3> QED
      BY <1>1, <3>1, <3>2, BoundStays
  <2> QED
    BY <2>1, <2>2
<1>3. /\ \A i \in DOMAIN journal : \A e : IsStopOf(journal[i], e)' <=> IsStopOf(journal[i], e)
      /\ \A i \in DOMAIN current : \A e : IsStopOf(current[i], e)' <=> IsStopOf(current[i], e)
  BY <1>2 DEF MarkInv, KnownStops, Known, IsStopOf
<1>4. ASSUME NEW e \in Witnesses
      PROVE  Marked(e)' /\ Matched(e)'
  <2>1. Marked(e) /\ Matched(e)
    BY <1>4 DEF MarkInv
  <2>2. current # <<>> => 1 \in DOMAIN current
    <3>1. current \in Seq(StopRecords)
      BY DEF OpdTypes
    <3> QED
      BY <3>1
  <2>3. Marked(e)'
    BY <1>2, <1>3, <2>1, <2>2 DEF Marked
  <2>4. EventRows(e)' = EventRows(e)
    BY <1>2 DEF EventRows
  <2>5. StopsOf(e)' = StopsOf(e)
    <3>1. {i \in DOMAIN journal : IsStopOf(journal[i], e)'}
            = {i \in DOMAIN journal : IsStopOf(journal[i], e)}
      BY <1>3
    <3> QED
      BY <1>2, <3>1 DEF StopsOf
  <2> QED
    BY <2>1, <2>3, <2>4, <2>5 DEF Matched
<1>5. /\ \A i \in DOMAIN code' : code'[i].do # "gdb_step" /\ IsNamed(code'[i], N, W)
      /\ \A i \in DOMAIN log' : InNames(log'[i].key, log'[i].x, log'[i].of, N, W)
      /\ KnownStops'
  BY <1>2 DEF MarkInv, KnownStops, Known
<1> QED
  BY <1>2, <1>4, <1>5 DEF MarkInv

(* main hands a stop to the procedure bound to its breakpoint, and has no  *)
(* procedure of the script for anything else.                              *)
LEMMA StopIsBound ==
  ASSUME OpdTypes, SessionInv, FoundInv, step_function = NoFunction, Dispatch
  PROVE  LET n == line'.no
         IN  /\ wait' = "none" /\ step_function' = step_function /\ line' \in Line
             /\ UNCHANGED <<bps, log, journal>>
             /\ current' = (IF IsStop(line') THEN <<line'>> ELSE <<>>)
             /\ n # 0 => n \in DOMAIN bps /\ IsStop(line')
             /\ \/ n = 0 /\ code' = <<>>
                \/ n = 0 /\ code' \in Quiets \cup {opd_dispatchSigSeg, opd_dispatchOther}
                \/ n # 0 /\ bps[n].fn \in Functions /\ code' = Proc[bps[n].fn]
<1>1. TypeOK
  BY DEF OpdTypes
<1>2. app # "gone"
  <2>1. phase = "loop"
    BY <1>1, DispatchIs
  <2> QED
    BY <2>1 DEF SessionInv, Bounded
<1>3. /\ wait' = "none" /\ step_function' = step_function /\ line' \in Line
      /\ UNCHANGED <<breakpoints, bps, log, journal>>
      /\ current' = (IF IsStop(line') THEN <<line'>> ELSE <<>>)
      /\ line' = Plain("stderr") \/ (gdb_stdout # <<>> /\ line' = Head(gdb_stdout))
  <2>1. line' = Plain("stderr") \/ (gdb_stdout # <<>> /\ line' = Head(gdb_stdout))
    BY <1>1, <1>2, DispatchIs
  <2> QED
    BY <1>1, <2>1, DispatchIs DEF gdb
<1> DEFINE l == line'
           n == line'.no
<1>4. n # 0 => /\ n \in DOMAIN bps /\ n \in DOMAIN breakpoints /\ breakpoints[n] = bps[n].fn
               /\ l.kind \in Numbered /\ IsStop(l)
  <2>1. CASE l = Plain("stderr")
    BY <2>1 DEF Plain
  <2>2. CASE gdb_stdout # <<>> /\ l = Head(gdb_stdout)
    <3>1. 1 \in DOMAIN gdb_stdout /\ Head(gdb_stdout) = gdb_stdout[1]
      BY <1>1, <2>2, TypesOfPipes, TailFacts
    <3>2. n = gdb_stdout[1].no /\ l.kind = gdb_stdout[1].kind
      BY <2>2, <3>1
    <3> HIDE DEF n
    <3>3. n # 0 => n \in DOMAIN bps /\ n \in DOMAIN breakpoints /\ breakpoints[n] = bps[n].fn
      BY <3>1, <3>2, FoundAsBound DEF CalledAsBound
    <3>4. n # 0 => l.kind \in Numbered
      BY <3>1, <3>2 DEF FoundInv, NumbersInv
    <3> QED
      BY <3>3, <3>4 DEF Numbered, IsStop, StopKinds
  <2> QED
    BY <1>3, <2>1, <2>2
<1>5. /\ l.kind \in Numbered =>
           code' = IF n \in DOMAIN breakpoints THEN Proc[breakpoints[n]] ELSE <<>>
      /\ l.kind \notin Numbered => code' \in Quiets \cup {opd_dispatchSigSeg, opd_dispatchOther}
  BY <1>1, <1>2, DispatchCalls
<1>6. breakpoints \in Seq(Functions) /\ DOMAIN breakpoints = 1 .. Len(breakpoints)
  BY <1>1, TypesOfTables
<1>7. n \notin DOMAIN breakpoints => n = 0
  BY <1>4
<1>8. 0 \notin DOMAIN breakpoints
  BY <1>6
<1>9. \/ n = 0 /\ code' = <<>>
      \/ n = 0 /\ code' \in Quiets \cup {opd_dispatchSigSeg, opd_dispatchOther}
      \/ n # 0 /\ bps[n].fn \in Functions /\ code' = Proc[bps[n].fn]
  <2>1. CASE n = 0
    BY <1>5, <1>8, <2>1
  <2>2. CASE n # 0
    <3>1. breakpoints[n] \in Functions
      BY <1>4, <1>6, <2>2, SeqFacts
    <3> QED
      BY <1>4, <1>5, <2>2, <3>1
  <2> QED
    BY <2>1, <2>2
<1> QED
  BY <1>3, <1>4, <1>9

(* The procedure of a stop writes its event first if it is one of the      *)
(* specification; what else main calls writes no event.                    *)
LEMMA MarkDispatched ==
  ASSUME NEW N, NEW W, OpdTypes, SessionInv, FoundInv, MarkInv(N, W), MarkedScript(N, W), Dispatch
  PROVE  MarkInv(N, W)'
<1> DEFINE l == line'
           n == line'.no
<1>1. /\ wait' = "none" /\ step_function' = step_function /\ l \in Line
      /\ UNCHANGED <<bps, log, journal>>
      /\ current' = (IF IsStop(l) THEN <<l>> ELSE <<>>)
      /\ n # 0 => n \in DOMAIN bps /\ IsStop(l)
      /\ \/ n = 0 /\ code' = <<>>
         \/ n = 0 /\ code' \in Quiets \cup {opd_dispatchSigSeg, opd_dispatchOther}
         \/ n # 0 /\ bps[n].fn \in Functions /\ code' = Proc[bps[n].fn]
  BY StopIsBound DEF MarkInv
<1>2. \/ n = 0 /\ code' = <<>>
      \/ n = 0 /\ code' \in Quiets \cup {opd_dispatchSigSeg, opd_dispatchOther}
      \/ n # 0 /\ bps[n].fn \in Functions /\ code' = Proc[bps[n].fn]
  BY <1>1
<1> HIDE DEF l, n
<1>10. /\ \A i \in DOMAIN code' : code'[i].do # "gdb_step" /\ IsNamed(code'[i], N, W)
       /\ \A e \in Witnesses :
            /\ \A i \in DOMAIN code' : IsEvent(code'[i], e) => i = 1 /\ n # 0 /\ bps[n].fn[1] = e
            /\ n # 0 /\ bps[n].fn[1] = e => code' # <<>> /\ IsEvent(code'[1], e)
  <2>1. CASE n = 0 /\ code' = <<>>
    <3>1. \A i \in DOMAIN code' : FALSE
      BY <2>1
    <3> QED
      BY <2>1, <3>1
  <2>2. CASE n = 0 /\ code' \in Quiets \cup {opd_dispatchSigSeg, opd_dispatchOther}
    <3>1. \A i \in DOMAIN code' :
            code'[i].do # "gdb_step" /\ (code'[i].do = "log" => code'[i].arg[1] \notin SpecKeys)
      BY <2>2, OtherRows
    <3>2. \A i \in DOMAIN code' : IsNamed(code'[i], N, W) /\ \A e : ~IsEvent(code'[i], e)
      BY <3>1, OtherRowIsNamed
    <3> QED
      BY <2>2, <3>1, <3>2
  <2>3. CASE n # 0 /\ bps[n].fn \in Functions /\ code' = Proc[bps[n].fn]
    <3> DEFINE f == bps[n].fn
               p == Proc[f]
    <3>1. /\ \A i \in DOMAIN p : p[i].do # "gdb_step"
          /\ Witnessed(p, f[1], N, W)
      BY <2>3 DEF MarkedScript
    <3>2. n # 0 /\ code' = p
      BY <2>3
    <3> HIDE DEF p
    <3>3. /\ \A i \in DOMAIN p : IsNamed(p[i], N, W)
          /\ \A e \in Witnesses : /\ \A i \in DOMAIN p : IsEvent(p[i], e) => i = 1 /\ f[1] = e
                                  /\ f[1] = e => p # <<>> /\ IsEvent(p[1], e)
      BY <3>1 DEF Witnessed
    <3> HIDE DEF f
    <3>4. \A i \in DOMAIN p : p[i].do # "gdb_step" /\ IsNamed(p[i], N, W)
      BY <3>1, <3>3
    <3>5. ASSUME NEW e \in Witnesses
          PROVE  /\ \A i \in DOMAIN p : IsEvent(p[i], e) => i = 1 /\ n # 0 /\ f[1] = e
                 /\ n # 0 /\ f[1] = e => p # <<>> /\ IsEvent(p[1], e)
      BY <3>2, <3>3
    <3>6. f = bps[n].fn
      BY DEF f
    <3> QED
      BY <3>2, <3>4, <3>5, <3>6, Zenon
  <2> QED
    BY <1>2, <2>1, <2>2, <2>3
<1>11. IsStop(l) => current' = <<l>> /\ current' # <<>> /\ current'[1] = l /\ DOMAIN current' = {1}
  BY <1>1 DEF l
<1>12. ~IsStop(l) => current' = <<>> /\ n = 0
  BY <1>1 DEF l
<1>13. KnownStops'
  <2>1. \A i \in DOMAIN current' : current'[i] = l
    BY <1>11, <1>12
  <2>2. n # 0 => n \in DOMAIN bps
    BY <1>1
  <2>3. n = l.no /\ bps' = bps /\ journal' = journal
    BY <1>1 DEF n, l
  <2>4. \A i \in DOMAIN current' : current'[i].no # 0 => current'[i].no \in DOMAIN bps'
    BY <2>1, <2>2, <2>3
  <2>5. \A i \in DOMAIN journal' : journal'[i].no # 0 => journal'[i].no \in DOMAIN bps'
    BY <2>3 DEF MarkInv, KnownStops, Known
  <2> QED
    BY <2>4, <2>5 DEF KnownStops, Known
<1>14. ASSUME NEW e \in Witnesses
       PROVE  Marked(e)' /\ Matched(e)'
  <2>1. Matched(e)'
    <3>1. EventRows(e)' = EventRows(e) /\ StopsOf(e)' = StopsOf(e)
      BY <1>1 DEF EventRows, StopsOf, IsStopOf
    <3> QED
      BY <3>1 DEF MarkInv, Matched
  <2>2. n = l.no /\ line' = l
    BY DEF n, l
  <2>3. (current # <<>> /\ IsStopOf(current[1], e))' <=> n # 0 /\ bps[n].fn[1] = e
    <3>1. CASE IsStop(l)
      BY <1>1, <1>11, <2>2, <3>1 DEF IsStopOf
    <3>2. CASE ~IsStop(l)
      BY <1>12, <3>2
    <3> QED
      BY <3>1, <3>2
  <2>4. n # 0 => current'[1] = l
    BY <1>11, <1>12
  <2>5. Marked(e)'
    <3>1. \A i \in DOMAIN code' :
            IsEvent(code'[i], e) => i = 1 /\ (current # <<>> /\ IsStopOf(current[1], e))'
      BY <1>10, <2>3
    <3>2. (current # <<>> /\ IsStopOf(current[1], e))' =>
            wait' = "none" /\ code' # <<>> /\ IsEvent(code'[1], e) /\ line' = current'[1]
      BY <1>1, <1>10, <2>2, <2>3, <2>4
    <3> QED
      BY <3>1, <3>2 DEF Marked
  <2> QED
    BY <2>1, <2>5
<1>15. \A i \in DOMAIN log' : InNames(log'[i].key, log'[i].x, log'[i].of, N, W)
  BY <1>1 DEF MarkInv
<1>16. step_function' = NoFunction
  BY <1>1 DEF MarkInv
<1> QED
  BY <1>10, <1>13, <1>14, <1>15, <1>16 DEF MarkInv

(* Every step keeps it.                                                    *)
LEMMA MarkKept ==
  ASSUME NEW N, NEW W, OpdTypes, SessionInv, FoundInv, MarkInv(N, W), MarkedScript(N, W),
         [OpdNext]_opdVars
  PROVE  MarkInv(N, W)'
BY MarkEvaluated, MarkLogged, MarkUndisturbed, MarkObserved, MarkDispatched DEF OpdNext, OpdStep

(* It holds in every session.                                              *)
LEMMA MarkInvariant ==
  ASSUME ScriptsInOrder, SetupBinds, Unknown = {}, NEW N, NEW W, MarkedScript(N, W)
  PROVE  OpdSpec => []MarkInv(N, W)
<1>1. OpdInit => MarkInv(N, W)
  BY MarkInitially
<1>2. OpdTypes /\ SessionInv /\ FoundInv /\ MarkInv(N, W) /\ [OpdNext]_opdVars => MarkInv(N, W)'
  BY MarkKept
<1> QED
  BY <1>1, <1>2, SessionInvariant, FoundInvariant, PTL DEF OpdSpec

(* The procedures of a specification are such a script.                    *)
LEMMA SpecificationMarks ==
  ASSUME NEW L, NEW E, NEW spec \in Seq(SpecLine(L, E)), NEW rank,
         RunsSpecification(spec, rank)
  PROVE  MarkedScript(NamesOf(spec, E), WatchedBy(spec))
<1> DEFINE N == NamesOf(spec, E)
           W == WatchedBy(spec)
<1>1. Setup = opd_processscript
  BY DEF RunsSpecification
<1>2. ASSUME NEW f \in Functions PROVE Witnessed(Proc[f], f[1], N, W)
  BY ProcedureRows DEF RunsSpecification
<1>3. ASSUME NEW f \in Functions, NEW i \in DOMAIN Proc[f] PROVE Proc[f][i].do # "gdb_step"
  <2>1. Proc[f] \in Procedures
    BY DEF Procedures
  <2>2. Fits(Proc[f], Functions)
    BY <2>1, SpecificationProcedures
  <2> QED
    BY <2>2 DEF Fits, SpecCommands
<1> HIDE DEF N, W
<1>4. MarkedScript(N, W)
  BY <1>1, <1>2, <1>3 DEF MarkedScript
<1> QED
  BY <1>4 DEF N, W

----------------------------------------------------------------------------
(* The event of a change names what the procedure of its stop names.       *)

NamesAt(b, n) == Proc[b[n].fn][1].arg[2]

Change == "script_wa_up"

Placed(row) ==
  row.of = "event" /\ row.key = EventKey(Change) =>
    row.line.no \in DOMAIN bps /\ row.x = NamesAt(bps, row.line.no)

PlaceInv ==
  /\ \A i \in DOMAIN log : Placed(log[i])
  /\ \A i \in DOMAIN code : IsEvent(code[i], Change) => code[i].arg[2] = NamesAt(bps, current[1].no)

(* No row of a change is left to write behind the first.                   *)
LEMMA RestHasNoChange ==
  ASSUME NEW N, NEW W, OpdTypes, MarkInv(N, W), code # <<>>, code' = Tail(code)
  PROVE  \A i \in DOMAIN code' : ~IsEvent(code'[i], Change)
<1>1. \A i \in DOMAIN code' : i + 1 \in DOMAIN code /\ code'[i] = code[i + 1] /\ i + 1 # 1
  BY TailFacts DEF OpdTypes, CodeInv
<1>2. Marked(Change)
  BY DEF MarkInv, Witnesses, Change
<1> QED
  BY <1>1, <1>2 DEF Marked

(* The row of a change is written for the stop being handled.              *)
LEMMA PlaceLogged ==
  ASSUME NEW N, NEW W, OpdTypes, MarkInv(N, W), PlaceInv, db_logMessage
  PROVE  PlaceInv'
<1>1. TypeOK /\ CodeInv
  BY DEF OpdTypes
<1>2. PICK row \in Rows :
        /\ log' = Append(log, row)
        /\ row.key = Head(code).arg[1] /\ row.x = Head(code).arg[2]
        /\ row.of = Head(code).arg[3] /\ row.line = line
  BY <1>1, LogsRow DEF OpdTypes
<1>3. /\ code # <<>> /\ code' = Tail(code) /\ Head(code).do = "log" /\ bps' = bps
  BY DEF db_logMessage, Evaluating, vars, gdb
<1>4. Head(code) = code[1] /\ 1 \in DOMAIN code
  BY <1>1, <1>3, TailFacts DEF CodeInv
<1>5. \A i \in DOMAIN log' : \/ i \in DOMAIN log /\ log'[i] = log[i]
                             \/ log'[i] = row
  BY <1>2, AppendFacts DEF OpdTypes
<1>6. Placed(row)
  <2> SUFFICES ASSUME IsEvent(code[1], Change)
               PROVE  row.line.no \in DOMAIN bps /\ row.x = NamesAt(bps, row.line.no)
    BY <1>2, <1>3, <1>4 DEF Placed, IsEvent
  <2>1. current # <<>> /\ IsStopOf(current[1], Change) /\ line = current[1]
    BY <1>4 DEF MarkInv, Marked, Witnesses, Change
  <2>2. 1 \in DOMAIN current
    BY <2>1, SeqFacts DEF OpdTypes
  <2>3. current[1].no \in DOMAIN bps
    BY <2>1, <2>2 DEF MarkInv, KnownStops, Known, IsStopOf
  <2>4. code[1].arg[2] = NamesAt(bps, current[1].no)
    BY <1>4 DEF PlaceInv
  <2> QED
    BY <1>2, <1>4, <2>1, <2>3, <2>4
<1>7. \A i \in DOMAIN log' : Placed(log'[i])
  BY <1>5, <1>6 DEF PlaceInv
<1>8. \A i \in DOMAIN log' :
        LET row2 == log'[i]
        IN  row2.of = "event" /\ row2.key = EventKey(Change) =>
              row2.line.no \in DOMAIN bps' /\ row2.x = NamesAt(bps', row2.line.no)
  BY <1>3, <1>7 DEF Placed, NamesAt
<1>9. \A i \in DOMAIN code' : ~IsEvent(code'[i], Change)
  BY <1>3, RestHasNoChange
<1> QED
  BY <1>8, <1>9 DEF PlaceInv, Placed

(* Other steps of opd write no row, and leave none to write.               *)
LEMMA PlaceUndisturbed ==
  ASSUME NEW N, NEW W, OpdTypes, MarkInv(N, W), PlaceInv,
         EvalGdb \/ opd_setExit \/ Await \/ StartLoop \/ opd_exit \/ UNCHANGED opdVars
  PROVE  PlaceInv'
<1>1. TypeOK
  BY DEF OpdTypes
<1>2. /\ UNCHANGED <<log, current, bps>>
      /\ (code # <<>> /\ code' = Tail(code)) \/ code' = code
  <2>1. CASE EvalGdb
    <3>1. code # <<>> /\ code' = Tail(code) /\ UNCHANGED <<bps, log, current>>
      BY <1>1, <2>1, EvalFacts DEF OpdTypes, gdb, history
    <3> QED
      BY <3>1
  <2>2. CASE opd_setExit
    BY <2>2 DEF opd_setExit, Evaluating, vars, gdb, history
  <2>3. CASE Await
    BY <1>1, <2>3, ReadFrame DEF Await, session, history, gdb
  <2>4. CASE StartLoop
    BY <2>4 DEF StartLoop, vars, gdb, history
  <2>5. CASE opd_exit
    BY <2>5 DEF opd_exit, gdb_exit, Fire, Write, gdb, history
  <2>6. CASE UNCHANGED opdVars
    BY <2>6 DEF opdVars, vars, gdb, session, history
  <2> QED
    BY <2>1, <2>2, <2>3, <2>4, <2>5, <2>6
<1>3. \A i \in DOMAIN code' :
        IsEvent(code'[i], Change) => code'[i].arg[2] = NamesAt(bps, current[1].no)
  BY <1>2, RestHasNoChange DEF PlaceInv
<1> QED
  BY <1>2, <1>3 DEF PlaceInv, Placed, NamesAt

(* What gdb and the application do leaves breakpoints bound as they were.  *)
LEMMA PlaceObserved ==
  ASSUME NEW N, NEW W, OpdTypes, MarkInv(N, W), PlaceInv, GdbStep \/ AppStep
  PROVE  PlaceInv'
<1>1. TypeOK
  BY DEF OpdTypes
<1>2. /\ UNCHANGED <<code, log, current>>
      /\ \A n \in DOMAIN bps : n \in DOMAIN bps' /\ bps'[n].fn = bps[n].fn
  BY <1>1, BoundStays DEF GdbStep, AppStep, session
<1>3. \A n \in DOMAIN bps : n \in DOMAIN bps' /\ NamesAt(bps', n) = NamesAt(bps, n)
  BY <1>2 DEF NamesAt
<1>4. \A i \in DOMAIN code : IsEvent(code[i], Change) => current[1].no \in DOMAIN bps
  <2> SUFFICES ASSUME NEW i \in DOMAIN code, IsEvent(code[i], Change)
               PROVE  current[1].no \in DOMAIN bps
    OBVIOUS
  <2>1. current # <<>> /\ IsStopOf(current[1], Change)
    BY DEF MarkInv, Marked, Witnesses, Change
  <2>2. 1 \in DOMAIN current
    BY <2>1, SeqFacts DEF OpdTypes
  <2> QED
    BY <2>1, <2>2 DEF MarkInv, KnownStops, Known, IsStopOf
<1>5. \A i \in DOMAIN code' :
        IsEvent(code'[i], Change) => code'[i].arg[2] = NamesAt(bps', current'[1].no)
  <2> SUFFICES ASSUME NEW i \in DOMAIN code, IsEvent(code[i], Change)
               PROVE  code[i].arg[2] = NamesAt(bps', current[1].no)
    BY <1>2
  <2> QED
    BY <1>2, <1>3, <1>4 DEF PlaceInv, NamesAt
<1>6. \A i \in DOMAIN log : Placed(log[i])'
  BY <1>2 DEF PlaceInv, Placed, NamesAt
<1> QED
  BY <1>2, <1>5, <1>6 DEF PlaceInv, NamesAt, Placed

(* What main evaluates for a stop is the procedure of its breakpoint.      *)
LEMMA PlaceDispatched ==
  ASSUME NEW N, NEW W, OpdTypes, SessionInv, FoundInv, MarkInv(N, W), MarkInv(N, W)', PlaceInv,
         Dispatch
  PROVE  PlaceInv'
<1> DEFINE n == line'.no
<1>1. /\ UNCHANGED <<bps, log>>
      /\ current' = (IF IsStop(line') THEN <<line'>> ELSE <<>>)
      /\ n # 0 => n \in DOMAIN bps /\ IsStop(line')
      /\ n # 0 => code' = Proc[bps[n].fn]
  BY StopIsBound DEF MarkInv
<1> HIDE DEF n
<1>2. ASSUME NEW i \in DOMAIN code', IsEvent(code'[i], Change)
      PROVE  code'[i].arg[2] = Proc[bps'[current'[1].no].fn][1].arg[2]
  <2>1. i = 1 /\ (current # <<>> /\ IsStopOf(current[1], Change))'
    BY <1>2 DEF MarkInv, Marked, Witnesses, Change
  <2>2. current'[1] = line' /\ current'[1].no # 0
    BY <1>1, <2>1 DEF IsStopOf
  <2>3. code' = Proc[bps[n].fn] /\ current'[1].no = n
    BY <1>1, <2>2 DEF n
  <2> QED
    BY <1>1, <2>1, <2>3
<1>3. \A i \in DOMAIN log' : Placed(log'[i])
  BY <1>1 DEF PlaceInv
<1> QED
  BY <1>1, <1>2, <1>3 DEF PlaceInv, Placed, NamesAt

(* It holds in every session.                                              *)
LEMMA PlaceInvariant ==
  ASSUME ScriptsInOrder, SetupBinds, Unknown = {}, NEW N, NEW W, MarkedScript(N, W)
  PROVE  OpdSpec => []PlaceInv
<1>1. OpdInit => PlaceInv
  <2> SUFFICES ASSUME OpdInit PROVE PlaceInv
    OBVIOUS
  <2>1. MarkInv(N, W)
    BY MarkInitially
  <2>2. \A i \in DOMAIN code : ~IsEvent(code[i], Change)
    BY <2>1 DEF OpdInit, MarkInv, Marked, Witnesses, Change
  <2>3. log = <<>>
    BY Zenon DEF OpdInit
  <2> QED
    BY <2>2, <2>3 DEF PlaceInv
<1>2. /\ OpdTypes /\ SessionInv /\ FoundInv /\ MarkInv(N, W) /\ MarkInv(N, W)' /\ PlaceInv
      /\ [OpdNext]_opdVars
      => PlaceInv'
  BY PlaceLogged, PlaceUndisturbed, PlaceObserved, PlaceDispatched DEF OpdNext, OpdStep
<1> QED
  BY <1>1, <1>2, SessionInvariant, FoundInvariant, MarkInvariant, PTL DEF OpdSpec

(* The procedure of a change names the place it is bound to.               *)
LEMMA ChangeNamesPlace ==
  ASSUME NEW spec, NEW rank, RunsSpecification(spec, rank), NEW f \in Functions,
         f[1] = Change
  PROVE  Proc[f][1].arg[2][1] = f[2]
<1> DEFINE item == opd_readscript(spec, rank).watched[f[2]]
           p == Proc[f]
<1>1. p = script_wa_up(f[2], item)
  BY DEF RunsSpecification, SpecProc, Change
<1> HIDE DEF item, p
<1>2. p[1] = Log("opd.spec.watchpoint", <<f[2], item>>, "event")
  BY <1>1, ChangeRows
<1> DEFINE key == "opd.spec.watchpoint"
           y == <<f[2], item>>
           of == "event"
<1>3. p[1] = Log(key, y, of)
  BY <1>2
<1> HIDE DEF key, y, of
<1>4. p[1].arg[2] = y
  BY <1>3, CommandForms
<1>5. y[1] = f[2]
  BY DEF y
<1>6. p[1].arg[2][1] = f[2]
  BY <1>4, <1>5
<1> QED
  BY <1>6 DEF p

----------------------------------------------------------------------------
(* What the analysis of watchpoints takes for a change.                    *)

(* A key behind its first three parts.                                     *)
LEMMA ThreeParts ==
  ASSUME NEW A, NEW S, NEW p \in Seq(A), NEW q \in Seq(S)
  PROVE  LET k == p \o q
         IN  Len(p) = 3 =>
             /\ k \in Seq(A \cup S) /\ Len(k) = 3 + Len(q) /\ Len(q) \in Nat
             /\ k[1] = p[1] /\ k[2] = p[2] /\ k[3] = p[3]
             /\ q # <<>> => 4 <= Len(k) /\ k[4] = q[1]
<1> DEFINE k == p \o q
<1>1. /\ k \in Seq(A \cup S) /\ Len(k) = Len(p) + Len(q) /\ Len(q) \in Nat
      /\ \A i \in 1 .. Len(p) : k[i] = p[i]
      /\ \A i \in 1 .. Len(q) : k[Len(p) + i] = q[i]
  BY Concat
<1> HIDE DEF k
<1> SUFFICES ASSUME Len(p) = 3
             PROVE  /\ k \in Seq(A \cup S) /\ Len(k) = 3 + Len(q) /\ Len(q) \in Nat
                    /\ k[1] = p[1] /\ k[2] = p[2] /\ k[3] = p[3]
                    /\ q # <<>> => 4 <= Len(k) /\ k[4] = q[1]
  BY DEF k
<1>2. k[1] = p[1] /\ k[2] = p[2] /\ k[3] = p[3]
  BY <1>1
<1>3. q # <<>> => 4 <= Len(k) /\ k[4] = q[1]
  <2>1. q # <<>> => Len(q) # 0
    BY SeqFacts
  <2> QED
    BY <1>1, <2>1
<1> QED
  BY <1>1, <1>2, <1>3

(* The third part of the key of a row tells what the row is about.         *)
Tells(k, word) == Len(k) \in Nat /\ 3 <= Len(k) /\ k[1] = "opd" /\ k[2] = "spec" /\ k[3] = word

(* A key of one more part or more.                                         *)
LEMMA PartsBehind ==
  ASSUME NEW S, NEW q \in Seq(S), NEW word
  PROVE  LET k == <<"opd", "spec", word>> \o q
         IN  q # <<>> => /\ Tells(k, word) /\ 4 <= Len(k) /\ k[4] = q[1]
                         /\ Len(k) = 3 + Len(q) /\ \E T : k \in Seq(T)
<1> DEFINE p == <<"opd", "spec", word>>
           A == {"opd", "spec", word}
           k == p \o q
<1>1. p \in Seq(A) /\ Len(p) = 3
  OBVIOUS
<1>2. p[1] = "opd" /\ p[2] = "spec" /\ p[3] = word
  OBVIOUS
<1> HIDE DEF p, A
<1>3. /\ k \in Seq(A \cup S) /\ Len(k) = 3 + Len(q) /\ Len(q) \in Nat
      /\ k[1] = p[1] /\ k[2] = p[2] /\ k[3] = p[3]
      /\ q # <<>> => 4 <= Len(k) /\ k[4] = q[1]
  BY <1>1, ThreeParts
<1> HIDE DEF k
<1>4. q # <<>> => /\ Tells(k, word) /\ 4 <= Len(k) /\ k[4] = q[1]
                  /\ Len(k) = 3 + Len(q) /\ \E T : k \in Seq(T)
  BY <1>2, <1>3 DEF Tells
<1> QED
  BY <1>4 DEF k, p

(* And of yet another one.                                                 *)
LEMMA PartsFollow ==
  ASSUME NEW S, NEW T, NEW p \in Seq(S), NEW q \in Seq(T), NEW word
  PROVE  LET k == p \o q
         IN  Tells(p, word) /\ 4 <= Len(p) => Tells(k, word) /\ 4 <= Len(k) /\ k[4] = p[4]
<1> DEFINE k == p \o q
<1>1. /\ Len(k) = Len(p) + Len(q) /\ Len(p) \in Nat /\ Len(q) \in Nat
      /\ \A i \in 1 .. Len(p) : k[i] = p[i]
  BY Concat
<1> HIDE DEF k
<1>2. ASSUME Tells(p, word), 4 <= Len(p)
      PROVE  Tells(k, word) /\ 4 <= Len(k) /\ k[4] = p[4]
  <2>1. 1 \in 1 .. Len(p) /\ 2 \in 1 .. Len(p) /\ 3 \in 1 .. Len(p) /\ 4 \in 1 .. Len(p)
    BY <1>1, <1>2
  <2>2. 4 <= Len(k) /\ 3 <= Len(k) /\ Len(k) \in Nat
    BY <1>1, <1>2
  <2> QED
    BY <1>1, <1>2, <2>1, <2>2 DEF Tells
<1> QED
  BY <1>2 DEF k

(* Names are sequences of parts.                                           *)
LEMMA NamesAreParts ==
  ASSUME NEW x \in DOMAIN Parts, NEW word
  PROVE  LET key == <<"opd", "spec", word>> \o Parts[x]
         IN  Tells(key, word) /\ 4 <= Len(key) /\ key[4] = Parts[x][1] /\ \E T : key \in Seq(T)
<1> DEFINE q == Parts[x]
<1>1. (\E S : q \in Seq(S)) /\ q # <<>>
  BY KeysAssumption
<1> HIDE DEF q
<1>2. PICK S : q \in Seq(S)
  BY <1>1
<1> DEFINE k == <<"opd", "spec", word>> \o q
<1>3. q # <<>> => /\ Tells(k, word) /\ 4 <= Len(k) /\ k[4] = q[1]
                  /\ Len(k) = 3 + Len(q) /\ \E T : k \in Seq(T)
  BY <1>2, PartsBehind
<1> HIDE DEF k
<1>4. Tells(k, word) /\ 4 <= Len(k) /\ k[4] = q[1] /\ \E T : k \in Seq(T)
  BY <1>1, <1>3
<1> QED
  BY <1>4 DEF k, q

(* A name behind such a key.                                               *)
LEMMA NameFollows ==
  ASSUME NEW p, NEW y \in DOMAIN Parts, NEW word, Tells(p, word), 4 <= Len(p),
         \E T : p \in Seq(T)
  PROVE  LET key == p \o Parts[y]
         IN  Tells(key, word) /\ 4 <= Len(key) /\ key[4] = p[4]
<1> DEFINE q == Parts[y]
           k == p \o q
<1>1. \E T : q \in Seq(T)
  BY KeysAssumption
<1> HIDE DEF q
<1>2. PICK S : p \in Seq(S)
  OBVIOUS
<1>3. PICK T : q \in Seq(T)
  BY <1>1
<1>4. Tells(p, word) /\ 4 <= Len(p) => Tells(k, word) /\ 4 <= Len(k) /\ k[4] = p[4]
  BY <1>2, <1>3, PartsFollow
<1> HIDE DEF k
<1>5. Tells(k, word) /\ 4 <= Len(k) /\ k[4] = p[4]
  BY <1>4
<1> QED
  BY <1>5 DEF k, q

(* Two names, one behind the other.                                        *)
LEMMA NamesTogether ==
  ASSUME NEW x \in DOMAIN Parts, NEW y \in DOMAIN Parts, NEW word
  PROVE  LET key == (<<"opd", "spec", word>> \o Parts[x]) \o Parts[y]
         IN  Tells(key, word) /\ 4 <= Len(key) /\ key[4] = Parts[x][1]
<1> DEFINE p == <<"opd", "spec", word>> \o Parts[x]
<1>1. Tells(p, word) /\ 4 <= Len(p) /\ p[4] = Parts[x][1] /\ (\E T : p \in Seq(T))
  BY NamesAreParts
<1> HIDE DEF p
<1>2. LET key == p \o Parts[y]
      IN  Tells(key, word) /\ 4 <= Len(key) /\ key[4] = p[4]
  BY <1>1, NameFollows
<1> DEFINE k == p \o Parts[y]
<1>3. Tells(k, word) /\ 4 <= Len(k) /\ k[4] = p[4]
  BY <1>2
<1> HIDE DEF k
<1>4. Tells(k, word) /\ 4 <= Len(k) /\ k[4] = Parts[x][1]
  BY <1>1, <1>3
<1> QED
  BY <1>4 DEF k, p

(* A word of the setup behind the key.                                     *)
LEMMA WordsBehind ==
  ASSUME NEW x, NEW word
  PROVE  LET k == <<"opd", "spec", word>> \o <<x>>
         IN  /\ Tells(k, word) /\ 4 <= Len(k) /\ k[4] = x
             /\ Len(k) = 4 /\ \E T : k \in Seq(T)
<1> DEFINE q == <<x>>
           A == {x}
           k == <<"opd", "spec", word>> \o q
<1>1. q \in Seq(A) /\ q # <<>> /\ q[1] = x /\ Len(q) = 1
  OBVIOUS
<1> HIDE DEF q, A
<1>2. q \in Seq(A)
  BY <1>1
<1>3. q # <<>> => /\ Tells(k, word) /\ 4 <= Len(k) /\ k[4] = q[1]
                  /\ Len(k) = 3 + Len(q) /\ \E T : k \in Seq(T)
  BY <1>2, PartsBehind
<1> HIDE DEF k
<1>4. /\ Tells(k, word) /\ 4 <= Len(k) /\ k[4] = x
      /\ Len(k) = 4 /\ \E T : k \in Seq(T)
  BY <1>1, <1>3
<1> QED
  BY <1>4 DEF k, q

(* A row of a session is taken for a change if and only if it is the event *)
(* of a watchpoint.                                                        *)
LEMMA ChangesOnly ==
  ASSUME NEW N, NEW W, N \subseteq DOMAIN Parts, W \subseteq N, ToldApart(W),
         NEW row, InNames(row.key, row.x, row.of, N, W)
  PROVE  IsChange(row) <=> row.of = "event" /\ row.key = "opd.spec.watchpoint"
<1> DEFINE k == Key(row)
<1>1. /\ WaKey = <<"opd", "spec", "watchpoint">> /\ Len(WaKey) = 3
      /\ WaKey[1] = "opd" /\ WaKey[2] = "spec" /\ WaKey[3] = "watchpoint"
  BY DEF WaKey
<1>2. \A word : LET prefix == WaKey \o <<word>>
                IN  /\ Len(prefix) = 4 /\ prefix[1] = "opd" /\ prefix[2] = "spec"
                    /\ prefix[3] = "watchpoint" /\ prefix[4] = word
  <2> TAKE word
  <2> DEFINE prefix == WaKey \o <<word>>
  <2>1. Tells(prefix, "watchpoint") /\ prefix[4] = word /\ Len(prefix) = 4
    BY WordsBehind DEF WaKey
  <2> HIDE DEF prefix
  <2>2. /\ Len(prefix) = 4 /\ prefix[1] = "opd" /\ prefix[2] = "spec"
        /\ prefix[3] = "watchpoint" /\ prefix[4] = word
    BY <2>1 DEF Tells
  <2> QED
    BY <2>2 DEF prefix
<1>3. StartsWith(row, WaKey) <=>
        /\ 3 <= Len(k) /\ k[1] = "opd" /\ k[2] = "spec"
        /\ k[3] = "watchpoint" \/ <<"watchpoint", k[3]>> \in Begins
  <2>1. \A i \in 1 .. 3 - 1 : i = 1 \/ i = 2
    OBVIOUS
  <2> HIDE DEF k
  <2>2. StartsWith(row, WaKey) <=>
          /\ 3 <= Len(k) /\ \A i \in 1 .. 3 - 1 : k[i] = WaKey[i]
          /\ k[3] = WaKey[3] \/ <<WaKey[3], k[3]>> \in Begins
    BY <1>1 DEF StartsWith, k
  <2> QED
    BY <1>1, <2>1, <2>2
<1>4. \A word \in {"set", "start"} :
        StartsWith(row, WaKey \o <<word>>) <=>
          /\ 4 <= Len(k) /\ k[1] = "opd" /\ k[2] = "spec" /\ k[3] = "watchpoint"
          /\ k[4] = word \/ <<word, k[4]>> \in Begins
  <2> TAKE word \in {"set", "start"}
  <2> DEFINE prefix == WaKey \o <<word>>
  <2>1. /\ Len(prefix) = 4 /\ prefix[1] = "opd" /\ prefix[2] = "spec"
        /\ prefix[3] = "watchpoint" /\ prefix[4] = word
    BY <1>2
  <2>2. \A i \in 1 .. 4 - 1 : i = 1 \/ i = 2 \/ i = 3
    OBVIOUS
  <2> HIDE DEF k, prefix
  <2>3. StartsWith(row, prefix) <=>
          /\ 4 <= Len(k) /\ \A i \in 1 .. 4 - 1 : k[i] = prefix[i]
          /\ k[4] = prefix[4] \/ <<prefix[4], k[4]>> \in Begins
    BY <2>1 DEF StartsWith, k
  <2>4. StartsWith(row, prefix) <=>
          /\ 4 <= Len(k) /\ k[1] = "opd" /\ k[2] = "spec" /\ k[3] = "watchpoint"
          /\ k[4] = word \/ <<word, k[4]>> \in Begins
    BY <2>1, <2>2, <2>3
  <2> QED
    BY <2>4 DEF prefix
<1>5. IsChange(row) <=>
        /\ StartsWith(row, WaKey) /\ ~StartsWith(row, WaKey \o <<"set">>)
        /\ ~StartsWith(row, WaKey \o <<"start">>)
  BY DEF IsChange, Set, Start
<1>6. CASE row.key = "opd.spec.watchpoint"
  <2>1. row.of = "event" /\ row.x[1] \in W /\ row.x[2] \in N
    BY <1>6 DEF InNames, Named
  <2> DEFINE a == row.x[1]
             b == row.x[2]
  <2> DEFINE key == (<<"opd", "spec", "watchpoint">> \o Parts[a]) \o Parts[b]
  <2>2. k = key
    BY <1>6 DEF Key, WaKey
  <2>3. a \in DOMAIN Parts /\ b \in DOMAIN Parts
    BY <2>1
  <2> HIDE DEF k, a, b
  <2>6. Tells(key, "watchpoint") /\ 4 <= Len(key) /\ key[4] = Parts[a][1]
    BY <2>3, NamesTogether
  <2> HIDE DEF key
  <2>4. Tells(k, "watchpoint") /\ 4 <= Len(k) /\ k[4] = Parts[a][1]
    BY <2>2, <2>6
  <2>5. \A word \in {"set", "start"} : k[4] # word /\ <<word, k[4]>> \notin Begins
    BY <2>1, <2>4 DEF ToldApart, a
  <2> QED
    BY <1>3, <1>4, <1>5, <1>6, <2>1, <2>4, <2>5 DEF Tells
<1>7. CASE row.key \in {"opd.spec.watchpoint.set", "opd.spec.watchpoint.start"}
  <2>1. PICK word \in {"set", "start"} : k = WaKey \o <<word>>
    BY <1>7 DEF Key, Set, Start
  <2>2. /\ Len(k) = 4 /\ k[1] = "opd" /\ k[2] = "spec" /\ k[3] = "watchpoint" /\ k[4] = word
    BY <1>2, <2>1
  <2> HIDE DEF k
  <2>3. StartsWith(row, WaKey \o <<word>>)
    BY <1>4, <2>2
  <2>4. ~IsChange(row)
    BY <1>5, <2>1, <2>3
  <2> QED
    BY <1>7, <2>4
<1>8. CASE row.key \in SpecKeys \ {"opd.spec.watchpoint"}
  <2>1. Tells(k, "breakpoint")
    <3> DEFINE B == <<"opd", "spec", "breakpoint">>
               a == row.x[1]
    <3>1. CASE row.key = "opd.spec.breakpoint"
      <4>1. k = B \o Parts[row.x]
        BY <3>1 DEF Key, BpKey
      <4>2. row.x \in DOMAIN Parts
        BY <3>1 DEF InNames, Named
      <4>3. Tells(B \o Parts[row.x], "breakpoint")
        BY <4>2, NamesAreParts
      <4> QED
        BY <4>1, <4>3, Zenon
    <3>2. CASE row.key = "opd.spec.breakpoint.item"
      <4>1. k = (B \o Parts[a]) \o Parts[row.x[2]]
        BY <3>2 DEF Key, BpKey
      <4>2. a \in DOMAIN Parts /\ row.x[2] \in DOMAIN Parts
        BY <3>2 DEF InNames, Named
      <4>3. Tells((B \o Parts[a]) \o Parts[row.x[2]], "breakpoint")
        BY <4>2, NamesTogether
      <4> QED
        BY <4>1, <4>3, Zenon
    <3>3. CASE row.key = "opd.spec.breakpoint.set"
      <4>1. k = B \o <<"set">>
        BY <3>3 DEF Key, BpKey, Set
      <4>2. Tells(B \o <<"set">>, "breakpoint")
        BY WordsBehind
      <4> QED
        BY <4>1, <4>2, Zenon
    <3>4. CASE row.key = "opd.spec.breakpoint.set.item"
      <4> DEFINE p == B \o <<"set">>
      <4>1. k = p \o Parts[a]
        BY <3>4 DEF Key, BpKey, Set
      <4>2. a \in DOMAIN Parts
        BY <3>4 DEF InNames, Named
      <4>3. Tells(p, "breakpoint") /\ 4 <= Len(p) /\ \E T : p \in Seq(T)
        BY WordsBehind
      <4> HIDE DEF p
      <4>4. Tells(p \o Parts[a], "breakpoint")
        BY <4>2, <4>3, NameFollows
      <4> QED
        BY <4>1, <4>4, Zenon
    <3> QED
      BY <1>8, <3>1, <3>2, <3>3, <3>4 DEF SpecKeys
  <2> HIDE DEF k
  <2>2. ~StartsWith(row, WaKey)
    BY <1>3, <2>1, KeysAssumption DEF Tells
  <2> QED
    BY <1>5, <1>8, <2>2
<1>9. CASE row.key \notin SpecKeys \cup {"opd.spec.watchpoint.set", "opd.spec.watchpoint.start"}
  <2>1. k = <<row.key>>
    BY <1>9 DEF Key, SpecKeys
  <2>2. Len(k) = 1
    BY <2>1
  <2> HIDE DEF k
  <2>3. ~StartsWith(row, WaKey)
    BY <1>3, <2>2
  <2> QED
    BY <1>5, <1>9, <2>3 DEF SpecKeys
<1> QED
  BY <1>6, <1>7, <1>8, <1>9

(* A key ends as its last name does.                                       *)
LEMMA EndFollows ==
  ASSUME NEW S, NEW T, NEW p \in Seq(S), NEW q \in Seq(T)
  PROVE  LET k == p \o q
         IN  /\ q # <<>> => Last(k) = Last(q)
             /\ p # <<>> /\ Len(q) = 1 => k[Len(k) - 1] = Last(p)
<1> DEFINE k == p \o q
<1>1. /\ Len(k) = Len(p) + Len(q) /\ Len(p) \in Nat /\ Len(q) \in Nat
      /\ \A i \in 1 .. Len(p) : k[i] = p[i]
      /\ \A i \in 1 .. Len(q) : k[Len(p) + i] = q[i]
  BY Concat
<1>2. q # <<>> => Len(q) \in 1 .. Len(q)
  BY SeqFacts
<1>3. p # <<>> => Len(p) \in 1 .. Len(p)
  BY SeqFacts
<1> HIDE DEF k
<1>4. q # <<>> => k[Len(k)] = q[Len(q)]
  BY <1>1, <1>2
<1>5. ASSUME p # <<>>, Len(q) = 1
      PROVE  k[Len(k) - 1] = p[Len(p)]
  <2>1. Len(k) - 1 = Len(p)
    BY <1>1, <1>5
  <2> QED
    BY <1>1, <1>3, <1>5, <2>1
<1> QED
  BY <1>4, <1>5 DEF k, Last

(* The same of a key of two names.                                         *)
LEMMA EndOfNames ==
  ASSUME NEW x \in DOMAIN Parts, NEW y \in DOMAIN Parts, NEW word
  PROVE  LET key == (<<"opd", "spec", word>> \o Parts[x]) \o Parts[y]
         IN  /\ Last(key) = Last(Parts[y])
             /\ Len(Parts[y]) = 1 => key[Len(key) - 1] = Last(Parts[x])
<1> DEFINE h == <<"opd", "spec", word>>
           a == Parts[x]
           b == Parts[y]
           A == {"opd", "spec", word}
<1>1. h \in Seq(A)
  OBVIOUS
<1>2. (\E T : a \in Seq(T)) /\ a # <<>> /\ (\E T : b \in Seq(T)) /\ b # <<>>
  BY KeysAssumption
<1> HIDE DEF h, a, b, A
<1>3. PICK S : a \in Seq(S)
  BY <1>2
<1>4. PICK T : b \in Seq(T)
  BY <1>2
<1> DEFINE p == h \o a
           k == p \o b
<1>5. p \in Seq(A \cup S) /\ Len(p) = Len(h) + Len(a) /\ Len(h) \in Nat /\ Len(a) \in Nat
  BY <1>1, <1>3, Concat
<1>6. a # <<>> => Last(p) = Last(a)
  BY <1>1, <1>3, EndFollows
<1>7. Len(a) # 0
  BY <1>2, <1>3, SeqFacts
<1> HIDE DEF p
<1>8. p # <<>>
  BY <1>5, <1>7
<1>9. /\ b # <<>> => Last(k) = Last(b)
      /\ p # <<>> /\ Len(b) = 1 => k[Len(k) - 1] = Last(p)
  BY <1>4, <1>5, EndFollows
<1> HIDE DEF k
<1>10. Last(k) = Last(b) /\ (Len(b) = 1 => k[Len(k) - 1] = Last(a))
  BY <1>2, <1>6, <1>8, <1>9
<1> QED
  BY <1>10 DEF k, p, h, a, b

(* What the analysis makes of the row of a change.                         *)
LEMMA SeenIs ==
  ASSUME NEW row, row.key = "opd.spec.watchpoint",
         row.x[1] \in DOMAIN Parts, row.x[2] \in DOMAIN Parts
  PROVE  /\ Seen(row).gdb = row.line /\ Seen(row).val = Last(Parts[row.x[2]])
         /\ Len(Parts[row.x[2]]) = 1 => Seen(row).loc = Last(Parts[row.x[1]])
<1> DEFINE a == row.x[1]
           b == row.x[2]
           k == (<<"opd", "spec", "watchpoint">> \o Parts[a]) \o Parts[b]
<1>1. Key(row) = k
  BY DEF Key, WaKey
<1> HIDE DEF a, b
<1>2. a \in DOMAIN Parts /\ b \in DOMAIN Parts
  BY DEF a, b
<1>3. /\ Last(k) = Last(Parts[b])
      /\ Len(Parts[b]) = 1 => k[Len(k) - 1] = Last(Parts[a])
  BY <1>2, EndOfNames
<1> HIDE DEF k
<1>4. /\ Seen(row).gdb = row.line /\ Seen(row).val = Last(k)
      /\ Seen(row).loc = k[Len(k) - 1]
  BY <1>1 DEF Seen
<1> QED
  BY <1>3, <1>4 DEF a, b

(***************************************************************************)
(* An analysis of a session that is over finds every change of a watched   *)
(* variable, with the line of its stop, the variable and the last part of  *)
(* the place that is watched, once and in order - whatever the             *)
(* specification, if gdb knows its locations, no expression stands before  *)
(* the first @bp, and no watched place has a name that begins with "set"   *)
(* or "start".                                                             *)
(***************************************************************************)
THEOREM SpecificationsWatchpointsAreRead ==
  ASSUME NEW L, NEW E, NEW spec \in Seq(SpecLine(L, E)), NEW rank,
         RunsSpecification(spec, rank), ~opd_readscript(spec, rank).failed, Unknown = {},
         NamesOf(spec, E) \subseteq DOMAIN Parts, ToldApart(WatchedBy(spec))
  PROVE  OpdSpec => []WatchpointsAreRead
<1> DEFINE N == NamesOf(spec, E)
           W == WatchedBy(spec)
<1>1. ScriptsInOrder /\ SetupBinds
  BY SpecificationProcedures, SetupOfSpecifications DEF RunsSpecification
<1>2. MarkedScript(N, W)
  BY SpecificationMarks
<1>3. N \subseteq DOMAIN Parts /\ ToldApart(W)
  OBVIOUS
<1>4. W \subseteq N
  BY DEF WatchedBy, NamesOf
<1>5. \A f \in Functions : f[1] = Change => Proc[f][1].arg[2][1] = f[2]
  BY ChangeNamesPlace
<1> HIDE DEF N, W
<1>6. OpdTypes /\ SessionInv /\ MarkInv(N, W) /\ PlaceInv => WatchpointsAreRead
  <2> SUFFICES ASSUME OpdTypes, SessionInv, MarkInv(N, W), PlaceInv, phase = "ended"
               PROVE  LET read  == Watchpoints(log)
                          stops == StopsAt("script_wa_up")
                      IN  /\ Len(read) = Len(stops)
                          /\ \A i \in DOMAIN read :
                               LET fn == bps[stops[i].no].fn
                               IN  /\ read[i].gdb = stops[i] /\ read[i].val = Last(Variable(fn))
                                   /\ Len(Variable(fn)) = 1 => read[i].loc = Last(Parts[fn[2]])
    BY DEF WatchpointsAreRead
  <2> DEFINE e == Change
             IsRow(r) == r.of = "event" /\ r.key = EventKey(e)
             I == {i \in DOMAIN log : IsChange(log[i])}
             J == {i \in DOMAIN log : IsRow(log[i])}
             rows == EventRows(e)
             stops == StopsOf(e)
             read == Watchpoints(log)
  <2>1. e \in Witnesses /\ EventKey(e) = "opd.spec.watchpoint" /\ e = "script_wa_up"
    BY DEF Witnesses, EventKey, Change
  <2>2. stops = StopsAt("script_wa_up")
    <3>1. trace = journal
      BY DEF SessionInv, OnRecord, Held
    <3> QED
      BY <2>1, <3>1 DEF StopsAt, StopsOf, IsStopOf
  <2>3. log \in Seq(Rows) /\ journal \in Seq(StopRecords)
    BY DEF OpdTypes
  <2>4. rows = Picked(log, J)
    BY DEF EventRows
  <2>5. read = [i \in DOMAIN rows |-> Seen(rows[i])]
    <3>1. ASSUME NEW i \in DOMAIN log
          PROVE  IsChange(log[i]) <=> IsRow(log[i])
      <4> DEFINE row == log[i]
      <4>1. InNames(row.key, row.x, row.of, N, W)
        BY DEF MarkInv
      <4> HIDE DEF row
      <4>2. IsChange(row) <=> row.of = "event" /\ row.key = "opd.spec.watchpoint"
        BY <1>3, <1>4, <4>1, ChangesOnly
      <4> QED
        BY <2>1, <4>2 DEF row
    <3>2. \A i \in DOMAIN log : i \in I <=> i \in J
      BY <3>1
    <3>3. read = [i \in DOMAIN Picked(log, I) |-> Seen(Picked(log, I)[i])]
      BY DEF Watchpoints
    <3> HIDE DEF I, J
    <3>4. Picked(log, I) = Picked(log, J)
      BY <2>3, <3>2, PickedSame
    <3> QED
      BY <2>4, <3>3, <3>4
  <2>6. /\ Len(rows) = Len(stops) /\ \A i \in DOMAIN rows : rows[i].line = stops[i]
    BY <2>1 DEF MarkInv, Matched
  <2> DEFINE Good(r) == /\ r.key = "opd.spec.watchpoint" /\ r.x[1] \in W /\ r.x[2] \in N
                        /\ r.line.no \in DOMAIN bps /\ r.x = NamesAt(bps, r.line.no)
             RR == {r \in Rows : Good(r)}
             SR == {l \in StopRecords : IsStopOf(l, e)}
  <2>7. rows \in Seq(RR)
    <3>1. ASSUME NEW k \in DOMAIN log, IsRow(log[k])
          PROVE  Good(log[k]) /\ log[k] \in Rows
      <4>1. InNames(log[k].key, log[k].x, log[k].of, N, W) /\ Placed(log[k])
        BY DEF MarkInv, PlaceInv
      <4>2. log[k] \in Rows
        BY <2>3, SeqFacts
      <4> QED
        BY <2>1, <3>1, <4>1, <4>2 DEF InNames, Named, Placed
    <3>2. \A k \in DOMAIN log : k \in J => log[k] \in RR
      BY <3>1
    <3> HIDE DEF J, RR
    <3> QED
      BY <2>3, <2>4, <3>2, PickedIn
  <2>8. stops \in Seq(SR)
    <3> DEFINE C == {i \in DOMAIN journal : IsStopOf(journal[i], e)}
    <3>1. \A k \in DOMAIN journal : k \in C => journal[k] \in SR
      BY <2>3, SeqFacts
    <3>2. stops = Picked(journal, C)
      BY DEF StopsOf
    <3> HIDE DEF C, SR
    <3> QED
      BY <2>3, <3>1, <3>2, PickedIn
  <2> HIDE DEF rows, stops, read, IsRow, I, J
  <2>9. /\ Len(rows) \in Nat /\ DOMAIN rows = 1 .. Len(rows) /\ \A i \in DOMAIN rows : Good(rows[i])
        /\ \A i \in DOMAIN rows : IsStopOf(stops[i], e)
    <3>1. /\ Len(rows) \in Nat /\ DOMAIN rows = 1 .. Len(rows)
          /\ \A i \in 1 .. Len(rows) : rows[i] \in RR
      BY <2>7, SeqFacts
    <3>2. \A i \in 1 .. Len(stops) : stops[i] \in SR
      BY <2>8, SeqFacts
    <3> QED
      BY <2>6, <3>1, <3>2
  <2>10. Len(read) = Len(stops) /\ DOMAIN read = DOMAIN rows
    BY <2>5, <2>6, <2>9
  <2>11. ASSUME NEW i \in DOMAIN read
         PROVE  LET fn == bps[stops[i].no].fn
                IN  /\ read[i].gdb = stops[i] /\ read[i].val = Last(Variable(fn))
                    /\ Len(Variable(fn)) = 1 => read[i].loc = Last(Parts[fn[2]])
    <3> DEFINE row == rows[i]
               fn == bps[stops[i].no].fn
    <3>1. Good(row) /\ row.line = stops[i] /\ IsStopOf(stops[i], e) /\ read[i] = Seen(row)
      BY <2>5, <2>6, <2>9, <2>10
    <3> HIDE DEF row
    <3>2. stops[i].no \in DOMAIN bps /\ row.x = Proc[fn][1].arg[2] /\ fn[1] = Change
      BY <3>1 DEF NamesAt, IsStopOf
    <3>3. fn \in Functions
      <4>1. bps[stops[i].no] \in [kind : {"break", "watch"}, fn : Functions, live : BOOLEAN]
        BY <3>2, TypesOfTables, SeqFacts DEF OpdTypes
      <4> QED
        BY <4>1
    <3> HIDE DEF fn
    <3>4. row.x[1] = fn[2] /\ Variable(fn) = Parts[row.x[2]]
      BY <1>5, <3>2, <3>3 DEF Variable
    <3>5. /\ Seen(row).gdb = row.line /\ Seen(row).val = Last(Parts[row.x[2]])
          /\ Len(Parts[row.x[2]]) = 1 => Seen(row).loc = Last(Parts[row.x[1]])
      BY <1>3, <1>4, <3>1, SeenIs
    <3>6. /\ read[i].gdb = stops[i] /\ read[i].val = Last(Variable(fn))
          /\ Len(Variable(fn)) = 1 => read[i].loc = Last(Parts[fn[2]])
      BY <3>1, <3>4, <3>5
    <3> QED
      BY <3>6 DEF fn
  <2> QED
    BY <2>2, <2>10, <2>11 DEF read
<1> QED
  BY <1>1, <1>2, <1>6, SessionInvariant, MarkInvariant, PlaceInvariant, PTL

=============================================================================
