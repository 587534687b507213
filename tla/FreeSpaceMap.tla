---------------------------- MODULE FreeSpaceMap ----------------------------
(***************************************************************************)
(* The free-space map (fsm/tree.rs): a binary tree in an array, with one   *)
(* leaf a page and in every inner node the greatest bucket below it.  A    *)
(* map for c pages has the nodes 0 .. 2c - 2, the last c of which are the  *)
(* leaves.  NoBucket, for a node without pages below, is less than every   *)
(* bucket, as None is in Rust's order of options.                          *)
(***************************************************************************)
EXTENDS Integers

CONSTANTS BucketSize,   \* 512
          BucketCount   \* BUCKET_COUNT

ASSUME BucketConstants == BucketSize \in Nat \ {0} /\ BucketCount \in Nat \ {0}

NoBucket == -1
NoPage   == -1
Buckets  == 0 .. (BucketCount - 1)

\* get_bucket_id; an amount of BucketSize * BucketCount or more is InvalidFreeSpace.  Mutant: a
\* ceiling in place of the floor.
BucketCeiling(space) == (space + BucketSize - 1) \div BucketSize
BucketOf(space)      == space \div BucketSize

Nodes(c)     == 0 .. (2 * c - 2)
Leaf(c, p)   == c - 1 + p
IsLeaf(c, n) == n >= c - 1
Left(n)      == 2 * n + 1
Right(n)     == 2 * n + 2
Parent(n)    == (n - 1) \div 2

Node   == [max : Buckets \cup {NoBucket}, page : Nat \cup {NoPage}]
Map(c) == [Nodes(c) -> Node]

EmptyMap(c) == [n \in Nodes(c) |-> [max |-> NoBucket, page |-> NoPage]]

\* Mutant: an inner node never goes down.
NeverLower(tr, n) ==
  LET m == IF tr[Left(n)].max > tr[Right(n)].max
           THEN tr[Left(n)].max ELSE tr[Right(n)].max
  IN  IF m > tr[n].max THEN m ELSE tr[n].max

GreaterChild(tr, n) == IF tr[Left(n)].max > tr[Right(n)].max
                       THEN tr[Left(n)].max ELSE tr[Right(n)].max

\* The nodes above n, the k-th one k levels up; a negative number is above the root.
Above(n) == LET above[k \in 0 .. n] == IF k = 0 THEN n ELSE Parent(above[k - 1])
            IN  above

RecomputeNode(tr, m) == [tr EXCEPT ![m].max = GreaterChild(tr, m)]

\* recompute_ancestors, called for the parent of node n: after[k] is the map after k
\* calls.  Mutant: the parent alone is recomputed.
RecomputeParent(tr, n) == IF n = 0 THEN tr ELSE RecomputeNode(tr, Parent(n))
Recomputed(tr, n) ==
  LET after[k \in 0 .. n] ==
        IF k = 0 THEN tr
        ELSE IF Above(n)[k] < 0 THEN after[k - 1] ELSE RecomputeNode(after[k - 1], Above(n)[k])
  IN  after
RecomputeAncestors(tr, n) == Recomputed(tr, n)[n]

\* register_page, for a page id below the capacity c.
RegisterPage(c, tr, p, space) ==
  LET n == Leaf(c, p)
  IN  RecomputeAncestors([tr EXCEPT ![n] = [max |-> BucketOf(space), page |-> p]], n)

IsRegistered(c, tr, p) == p < c /\ tr[Leaf(c, p)].page = p

\* update_page, for a page that is registered.
UpdatePage(c, tr, p, space) ==
  LET n == Leaf(c, p)
  IN  RecomputeAncestors([tr EXCEPT ![n].max = BucketOf(space)], n)

\* find_page_excluding and find_page_recursive: the first leaf, from left to
\* right, that has the bucket and is not excluded.  Mutant: a subtree without
\* a page to offer ends the search.
FindInLeft(c, tr, bucket, excluded) ==
  LET find[n \in Nodes(c)] ==
        IF tr[n].max < bucket THEN NoPage
        ELSE IF IsLeaf(c, n)
             THEN IF tr[n].page \in excluded THEN NoPage ELSE tr[n].page
             ELSE find[IF tr[Left(n)].max >= bucket THEN Left(n) ELSE Right(n)]
  IN  find[0]
Finds(c, tr, bucket, excluded) ==
  LET find[n \in Nodes(c)] ==
        IF tr[n].max < bucket THEN NoPage
        ELSE IF IsLeaf(c, n)
             THEN IF tr[n].page \in excluded THEN NoPage ELSE tr[n].page
             ELSE LET left == find[Left(n)]
                  IN  IF left # NoPage THEN left ELSE find[Right(n)]
  IN  find
FindPage(c, tr, bucket, excluded) == Finds(c, tr, bucket, excluded)[0]

FindPageExcluding(c, tr, required, excluded) ==
  FindPage(c, tr, BucketOf(required), excluded)

-----------------------------------------------------------------------------
\* What the map promises.

\* Every inner node holds the greatest bucket among the leaves below it.
IsMaxTree(c, tr) ==
  \A n \in Nodes(c) : ~IsLeaf(c, n) => tr[n].max = GreaterChild(tr, n)

\* The nodes from each node up to the root.  Node m is node a or below it when a is
\* on m's path, and left of n when the last node on both paths has m on its left.
Paths(c) == LET path[n \in Nodes(c)] == IF n = 0 THEN {0} ELSE {n} \cup path[Parent(n)]
            IN  path
Below(c, m, a)  == a \in Paths(c)[m]
LeftOf(c, m, n) == \E a \in Nodes(c) : Below(c, m, Left(a)) /\ Below(c, n, Right(a))

\* The search against its reference.
FindsFirst(c, tr, bucket, excluded) ==
  LET good == {p \in 0 .. (c - 1) : /\ IsRegistered(c, tr, p)
                                    /\ tr[Leaf(c, p)].max >= bucket
                                    /\ p \notin excluded}
      found == FindPage(c, tr, bucket, excluded)
  IN  IF good = {} THEN found = NoPage
      ELSE /\ found \in good
           /\ \A p \in good \ {found} : LeftOf(c, Leaf(c, found), Leaf(c, p))
=============================================================================
