---------------------------- MODULE MCClientLink ----------------------------
(* Two cameras and two Deadeye objects.                                    *)
EXTENDS ClientLink

Box == [x |-> 1, y |-> 2, w |-> 4, h |-> 3]
Rotated ==
  [angle |-> 7, center |-> <<1, 2>>, width |-> 4, height |-> 3,
   corners |-> << <<11, 12>>, <<13, 14>>, <<15, 16>>, <<17, 18>> >>]
List(n) ==
  [rects |-> [i \in 1..n |-> [x |-> i, y |-> 2, w |-> 4, h |-> 3, area |-> 9]]]

Finds(kind, sizes) ==
  CASE kind \in {"upright", "latency"} -> {Box}
    [] kind = "minarea"                -> {Rotated}
    [] kind = "list"                   -> {List(n) : n \in sizes}

Nth(id) == IF id \in {"A0", "i1"} THEN 1 ELSE 2

Setup(kinds, sizes, cameras, classes, lower, edits) ==
  [kind    |-> [c \in Cameras |-> kinds[Nth(c)]],
   targets |-> [c \in Cameras |-> Finds(kinds[Nth(c)], sizes)],
   camera  |-> [i \in Instances |-> cameras[Nth(i)]],
   class   |-> [i \in Instances |-> classes[Nth(i)]],
   lower   |-> lower,
   edits   |-> edits]

Invalid  == [address |-> "invalid", enabled |-> FALSE]
Garbled  == [address |-> "garbled", enabled |-> FALSE]
Other    == [address |-> "other",   enabled |-> TRUE]
Disabled == [address |-> "other",   enabled |-> FALSE]

MCSetups ==
  { \* each object has a camera of its own, and the class for it
    Setup(<<"upright", "minarea">>, {}, <<"A0", "A1">>,
          <<"upright", "minarea">>, {}, {}),
    \* a list of any length
    Setup(<<"latency", "list">>, {0, 2, 4}, <<"A0", "A1">>,
          <<"upright", "list">>, {}, {}),
    \* two cameras of a kind, one of them under a lower-case id
    Setup(<<"upright", "upright">>, {}, <<"A0", "A1">>,
          <<"upright", "upright">>, {"i2"}, {}),
    \* two objects for one camera, one with the wrong class
    Setup(<<"minarea", "list">>, {1}, <<"A0", "A0">>,
          <<"minarea", "list">>, {}, {}),
    \* a link entry that others write, too
    Setup(<<"upright", "list">>, {}, <<"A0", "A0">>,
          <<"upright", "upright">>, {}, {Invalid, Garbled, Other, Disabled}) }
==============================================================================
