------------------------------- MODULE Vector -------------------------------
(***************************************************************************)
(* src/vector.c: the growable array of pointers in which gdbmi.c keeps its *)
(* breakpoints.  A vector is what the code allocates: cap words of memory, *)
(* of which size are in use, indexed from 0.                               *)
(***************************************************************************)
EXTENDS Integers

CONSTANTS
  NULL,
  Garbage   \* what is read from memory nobody has written

vector_new == [cap |-> 0, size |-> 0, data |-> [i \in 0 .. -1 |-> Garbage]]

(* Mutant: the memory is not copied.                                       *)
vector_resizeFresh(v) ==
  LET cap == v.cap * 2 + 1
  IN  [cap |-> cap, size |-> v.size, data |-> [i \in 0 .. cap - 1 |-> Garbage]]

vector_resize(v) ==
  LET cap == v.cap * 2 + 1
  IN  [cap  |-> cap, size |-> v.size,
       data |-> [i \in 0 .. cap - 1 |-> IF i < v.cap THEN v.data[i] ELSE Garbage]]

(* An item written outside the allocated memory is lost.                   *)
vector_addItem(v, item) ==
  LET w == IF v.size >= v.cap THEN vector_resize(v) ELSE v
  IN  [cap  |-> w.cap, size |-> w.size + 1,
       data |-> [i \in 0 .. w.cap - 1 |-> IF i = w.size THEN item ELSE w.data[i]]]

(* The index may equal the size, and then be outside the memory.           *)
vector_getItem(v, index) ==
  IF index > v.size \/ index < 0 THEN NULL
  ELSE IF index < v.cap THEN v.data[index] ELSE Garbage
=============================================================================
