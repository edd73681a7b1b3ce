--------------------------- MODULE TableContents ---------------------------
(***************************************************************************)
(* What a table promises a program: a function from keys to values whose   *)
(* keys 1..Border are a list.  Setting an element of the list to nil, or   *)
(* removing it, closes the gap.  Nothing else shows: not which part of the *)
(* table holds a key, nor what was stored before.                          *)
(***************************************************************************)
EXTENDS Integers, FiniteSets, SequencesExt

CONSTANTS Keys, Values, Nil

VARIABLE contents

At(i) == <<1, i>>

Border(c) == CHOOSE n \in 0..Cardinality(DOMAIN c) :
               /\ \A i \in 1..n : At(i) \in DOMAIN c
               /\ At(n + 1) \notin DOMAIN c

With(c, k, v) == [j \in DOMAIN c \cup {k} |-> IF j = k THEN v ELSE c[j]]

Inner(c, k) == k[1] = 1 /\ k[2] \in 1..Border(c)

Unset(c, k) ==
  [j \in DOMAIN c \ {IF Inner(c, k) THEN At(Border(c)) ELSE k} |->
     IF Inner(c, k) /\ Inner(c, j) /\ j[2] >= k[2] THEN c[At(j[2] + 1)] ELSE c[j]]

Set(c, k, v) == IF v = Nil THEN Unset(c, k) ELSE With(c, k, v)

(* The elements from pos move up, over whatever follows the list. *)
Opened(c, pos) ==
  IF pos > Border(c) THEN c
  ELSE [j \in DOMAIN c \cup {At(Border(c) + 1)} |->
          IF j[1] = 1 /\ j[2] \in pos + 1..Border(c) + 1 THEN c[At(j[2] - 1)] ELSE c[j]]

(* The elements first..last, as they are, set at pos and after it: all of  *)
(* them, or those before the one that is too many.                         *)
Moved(c, first, last, pos) ==
  LET At0(k) == IF At(k) \in DOMAIN c THEN c[At(k)] ELSE Nil
      after[i \in 0..last - first + 1] ==
        IF i = 0 THEN c ELSE Set(after[i - 1], At(pos + i - 1), At0(first + i - 1))
  IN  IF first > last THEN c ELSE after[last - first + 1]

Sorted(c, d) ==
  /\ DOMAIN d = DOMAIN c /\ \A k \in DOMAIN c : ~Inner(c, k) => d[k] = c[k]
  /\ \A i \in 1..Border(c) - 1 : d[At(i)][2] <= d[At(i + 1)][2]
  /\ \A v \in {c[k] : k \in DOMAIN c} :
       Cardinality({k \in DOMAIN c : c[k] = v}) = Cardinality({k \in DOMAIN c : d[k] = v})

Init == contents = << >>

Next ==
  \/ \E k \in Keys, v \in Values \cup {Nil} : contents' = Set(contents, k, v)
  \/ \E pos \in 1..Border(contents) + 1, v \in Values \cup {Nil} :
       contents' = Set(Opened(contents, pos), At(pos), v)
  \/ \E pos \in 1..Border(contents) : contents' = Unset(contents, At(pos))
  \/ \E first, last, pos \in 1..Cardinality(DOMAIN contents) + 1 :
       contents' = Moved(contents, first, last, pos)
  \/ Sorted(contents, contents')

Spec == Init /\ [][Next]_contents
=============================================================================
