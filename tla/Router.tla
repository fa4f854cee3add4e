------------------------------- MODULE Router -------------------------------
(***************************************************************************)
(* The tree of request paths (path_set in router.h): insert and find.  A   *)
(* path is a sequence of characters, a node of the tree is the path that   *)
(* leads to it.  next holds the nodes that have an array of children, func *)
(* the functions of the nodes with term set.                               *)
(***************************************************************************)
EXTENDS Naturals, Sequences, FiniteSets, SequencesExt

EmptyPathSet == [func |-> <<>>, next |-> {}]

\* The nodes above the last one of a path.
Above(path) == {p \in Prefixes(path) : p # <<>> /\ p # path}

\* func, but f for path.
Assigned(func, path, f) == [p \in DOMAIN func \cup {path} |-> IF p = path THEN f ELSE func[p]]

\* Slip: a route that ends at a node cuts off the routes below it.
BadInsert(set, path, f) ==
  [func |-> Assigned(set.func, path, f), next |-> (set.next \ {path}) \cup Above(path)]

\* insert: child arrays for all nodes before the last one, which gets func.
Insert(set, path, f) ==
  [func |-> Assigned(set.func, path, f), next |-> set.next \cup Above(path)]

\* The longest of some prefixes of a path; <<>> when there is none.
Longest(paths) ==
  IF paths = {} THEN <<>> ELSE CHOOSE p \in paths : \A q \in paths : Len(q) <= Len(p)

\* The nodes that find passes on its way down: it goes on while there are children.
Visited(set, path) == {p \in Prefixes(path) : p # <<>> /\ Above(p) \subseteq set.next}

\* find keeps the last node with a function; <<>> when there is none.
FindNode(set, path) == Longest(Visited(set, path) \cap DOMAIN set.func)

\* What router.h says of find_route: all requests that start with the path of a
\* route are handled by it; of several the longest (test_router.cpp).
LongestPrefix(routes, path) == Longest({p \in routes : IsPrefix(p, path)})

=============================================================================
