----------------------------- MODULE MessageLog -----------------------------
(***************************************************************************)
(* src/share/gdbase.py: how an analysis reads back what opd logged for a   *)
(* debugging specification.  Breakpoints and Watchpoints iterate over the  *)
(* rows of a rank, which in the database are the rows of its log in their  *)
(* order; what a row means they know from its key alone.                   *)
(*                                                                         *)
(* A key is the sequence of its parts, which dots separate: a location or  *)
(* an expression with a dot in it is several parts.  A LIKE of the         *)
(* database, and a startswith of Python, take any text with that           *)
(* beginning.                                                              *)
(***************************************************************************)
EXTENDS Opd, SequencesExt

CONSTANTS
  Parts,    \* the parts of every location and every expression
  Begins    \* pairs of parts, where the second begins with the first

(* A key ends in a part of its last name, an empty one if the name is.     *)
ASSUME KeysAssumption ==
  /\ \A x \in DOMAIN Parts : Parts[x] \in Seq(STRING) /\ Parts[x] # <<>>
  /\ <<"watchpoint", "breakpoint">> \notin Begins

BpKey == <<"opd", "spec", "breakpoint">>
WaKey == <<"opd", "spec", "watchpoint">>
Set   == <<"set">>
Start == <<"start">>

Key(row) ==
  CASE row.key = "opd.spec.breakpoint.set"      -> BpKey \o Set
    [] row.key = "opd.spec.breakpoint.set.item" -> BpKey \o Set \o Parts[row.x[1]]
    [] row.key = "opd.spec.breakpoint"          -> BpKey \o Parts[row.x]
    [] row.key = "opd.spec.breakpoint.item"     -> BpKey \o Parts[row.x[1]] \o Parts[row.x[2]]
    [] row.key = "opd.spec.watchpoint.set"      -> WaKey \o Set
    [] row.key = "opd.spec.watchpoint.start"    -> WaKey \o Start
    [] row.key = "opd.spec.watchpoint"          -> WaKey \o Parts[row.x[1]] \o Parts[row.x[2]]
    [] OTHER                                    -> <<row.key>>

StartsWith(row, prefix) ==
  LET key == Key(row)
      n   == Len(prefix)
  IN  /\ n <= Len(key)
      /\ \A i \in 1 .. n - 1 : key[i] = prefix[i]
      /\ key[n] = prefix[n] \/ <<prefix[n], key[n]>> \in Begins

(* The elements of s at the places I: SelectSeq with a set for its test.   *)
Picked(s, I) ==
  LET picked[n \in 0 .. Len(s)] == IF n = 0 THEN <<>>
                                   ELSE IF n \in I THEN Append(picked[n - 1], s[n])
                                   ELSE picked[n - 1]
  IN  picked[Len(s)]

(* Messages.getNext, after setID and setKey: the first row behind pos with *)
(* a key of that beginning; 0 if there is none.                            *)
getNext(rows, pos, prefix) ==
  LET found == {i \in pos + 1 .. Len(rows) : StartsWith(rows[i], prefix)}
  IN  IF found = {} THEN 0 ELSE Min(found)

----------------------------------------------------------------------------
(* Breakpoints._setup: the expressions of every location.  A row of an     *)
(* expression is filed under the last part of its key.                     *)

Described(d, row) ==
  LET loc == <<Last(Key(row))>>
  IN  IF d.raised \/ ~StartsWith(row, BpKey \o Set) THEN d
      ELSE IF Key(row) = BpKey \o Set THEN [d EXCEPT !.bpoints = (Parts[row.x] :> <<>>) @@ @]
      ELSE IF loc \notin DOMAIN d.bpoints THEN [d EXCEPT !.raised = TRUE]
      ELSE [d EXCEPT !.bpoints[loc] = Append(@, Parts[row.x[2]])]

Description(rows) == FoldLeft(Described, [bpoints |-> <<>>, raised |-> FALSE], rows)

(* Breakpoints.next: the row of a stop, and behind it one row for every    *)
(* expression, in a dictionary under the last part of its key.  A location *)
(* that is not described is a KeyError, an expression without a row a      *)
(* TypeError; either ends the analysis.                                    *)

Raised == [msg |-> 0, last |-> 0, values |-> <<>>]

NextStop(rows, pos) ==
  LET found == {i \in pos + 1 .. Len(rows) : /\ StartsWith(rows[i], BpKey)
                                             /\ ~StartsWith(rows[i], BpKey \o Set)}
  IN  IF found = {} THEN 0 ELSE Min(found)

(* Mutant: the iterator goes on behind the row of the stop.                *)
MovedToStop(msg, items) == msg

MovedTo(msg, items) == IF items = <<>> THEN msg ELSE Last(items)

StopRead(rows, bpoints, msg) ==
  LET loc   == <<Last(Key(rows[msg]))>>
      items == [k \in DOMAIN bpoints[loc] |-> getNext(rows, msg, BpKey \o loc \o bpoints[loc][k])]
      val(i) == Last(Key(rows[i]))
  IN  IF loc \notin DOMAIN bpoints \/ 0 \in ToSet(items) THEN Raised
      ELSE [msg    |-> msg,
            last   |-> MovedTo(msg, items),
            values |-> [v \in {val(i) : i \in ToSet(items)} |->
                          items[Max({k \in DOMAIN items : val(items[k]) = v})]]]

Breakpoints(rows) ==
  LET d == Description(rows)
      read[pos \in 0 .. Len(rows)] ==
        LET msg  == NextStop(rows, pos)
            stop == StopRead(rows, d.bpoints, msg)
        IN  IF msg = 0 THEN <<>>
            ELSE IF stop = Raised THEN <<Raised>>
            ELSE <<stop>> \o read[stop.last]
  IN  IF d.raised THEN <<Raised>> ELSE read[0]

(* Watchpoints.next: the two last parts of the key of a change are taken   *)
(* for the location and the variable.                                      *)

(* Mutant: the row that the start of a watchpoint logs is not skipped.     *)
IsChangeOrStart(row) == StartsWith(row, WaKey) /\ ~StartsWith(row, WaKey \o Set)

IsChange(row) == /\ StartsWith(row, WaKey)
                 /\ ~StartsWith(row, WaKey \o Set) /\ ~StartsWith(row, WaKey \o Start)

Seen(row) ==
  LET key == Key(row)
  IN  [loc |-> key[Len(key) - 1], val |-> Last(key), gdb |-> row.line]

Watchpoints(rows) ==
  LET changes == Picked(rows, {i \in DOMAIN rows : IsChange(rows[i])})
  IN  [i \in DOMAIN changes |-> Seen(changes[i])]

(* Places whose changes are not taken for the rows of the setup: no name   *)
(* begins with the word that stands there in the keys of those.            *)
ToldApart(places) ==
  \A at \in places, word \in {"set", "start"} :
    Parts[at][1] # word /\ <<word, Parts[at][1]>> \notin Begins

----------------------------------------------------------------------------
StopsAt(proc) == Picked(trace, {i \in DOMAIN trace :
                                  trace[i].no # 0 /\ bps[trace[i].no].fn[1] = proc})

(* What the Tcl side writes the Python side reads, though they share       *)
(* nothing but the keys: an analysis of a session that is over sees every  *)
(* stop at a breakpoint of the specification once, in its order, and with  *)
(* it the values that were logged at that stop and no others.  (The log is *)
(* read once: a quantifier over one element is evaluated, a LET again.)    *)
BreakpointsAreRead ==
  phase = "ended" =>
    \E read \in {Breakpoints(log)}, stops \in {StopsAt("script_bp")} :
      LET upTo(i) == IF i = Len(read) THEN Len(log) ELSE read[i + 1].msg
      IN  /\ Len(read) = Len(stops)
          /\ \A i \in DOMAIN read :
               /\ read[i] # Raised
               /\ log[read[i].msg].line = stops[i]
               /\ {read[i].values[v] : v \in DOMAIN read[i].values}
                    = {k \in read[i].msg .. upTo(i) : log[k].key = "opd.spec.breakpoint.item"}

(* The parts of the variable that the procedure of a watchpoint logs.      *)
Variable(fn) == Parts[Proc[fn][1].arg[2][2]]

(* ... and every change of a watched variable, and the end of its scope,   *)
(* with the variable that is watched there and the place it was set at.    *)
(* Of a name with a dot the analysis has only what follows the last dot:   *)
(* c:10 of g.c:10, and no place at all if the variable's name has one.     *)
WatchpointsAreRead ==
  phase = "ended" =>
    LET read  == Watchpoints(log)
        stops == StopsAt("script_wa_up")
    IN  /\ Len(read) = Len(stops)
        /\ \A i \in DOMAIN read :
             LET fn == bps[stops[i].no].fn
             IN  /\ read[i].gdb = stops[i] /\ read[i].val = Last(Variable(fn))
                 /\ Len(Variable(fn)) = 1 => read[i].loc = Last(Parts[fn[2]])
=============================================================================
