--------------------------- MODULE MCCycleCollector ---------------------------
(***************************************************************************)
(* The programs of the runs of CycleCollector.                             *)
(***************************************************************************)
EXTENDS CycleCollector

Program(kinds, objects, escapes, spawns, boot, depth) ==
  [kinds |-> kinds, objects |-> objects, escapes |-> escapes, spawns |-> spawns,
   boot |-> boot, depth |-> depth]

\* Destructors that keep their references to themselves, beside arrays.
Tame == Program({"class", "array"}, 2, FALSE, FALSE, "main", 20)
\* A destructor that may store `this` anywhere, on a call stack that fills up,
\* from the static initialisers on.
Resurrecting == Program({"class"}, 1, TRUE, FALSE, "clinit", 3)
\* Destructors, and whole passes, that find the call stack full.
Crowded == Program({"class"}, 2, FALSE, FALSE, "main", 2)
\* No destructors; native containers, and threads that shut the gate.
Threaded == Program({"plain", "list"}, 2, FALSE, TRUE, "main", 20)
\* Two objects whose destructors store references.
Severing == Program({"class"}, 2, TRUE, FALSE, "main", 20)
\* Objects with destructors in a native container.
InList == Program({"class", "list"}, 2, FALSE, FALSE, "main", 20)

AllPrograms == {Tame, Resurrecting, Crowded, Threaded}
SeveringPrograms == {Severing}
ListPrograms == {InList}
===============================================================================
