------------------------------- MODULE RBTree -------------------------------
(***************************************************************************)
(* The red-black tree that holds the timers (event_rbtree.cpp).  A call    *)
(* runs step by step: the search for the place of a new node and the two   *)
(* loops that put the colours right are one iteration a step, and the      *)
(* code's two mirrored halves of each are one text with the side as a      *)
(* parameter.                                                              *)
(***************************************************************************)
EXTENDS Naturals, FiniteSets

CONSTANTS
  TreeNode,  \* the nodes: ev->key_timer of the events
  Nil,       \* the sentinel, and nullptr
  TreeKey    \* keys each node may be inserted with

ASSUME TreeAssumption == Nil \notin TreeNode /\ TreeKey \in [TreeNode -> SUBSET (Nat \ {0})]

VARIABLES
  tree,   \* root, and of each node and the sentinel: left, right, parent, red, key
  treeOp, \* what the call in progress does, and the node it is at
  timers  \* what the tree is to hold: the key of each node, 0 if it is not in it

treeVars == <<tree, treeOp, timers>>

Links == TreeNode \cup {Nil}
Idle  == [op |-> "idle", at |-> Nil, node |-> Nil]

TreeInit ==
  /\ tree = [root   |-> Nil,
             left   |-> [n \in Links |-> Nil], right |-> [n \in Links |-> Nil],
             parent |-> [n \in Links |-> Nil], red   |-> [n \in Links |-> FALSE],
             key    |-> [n \in Links |-> 0]]
  /\ treeOp = Idle
  /\ timers = [n \in TreeNode |-> 0]

Other(side)    == IF side = "left" THEN "right" ELSE "left"
SideOf(t, n)   == IF t.left[t.parent[n]] = n THEN "left" ELSE "right"
Grand(t, n)    == t.parent[t.parent[n]]
IsRed(t, n)    == t.red[n]
Paint(t, n, c) == [t EXCEPT !.red[n] = c]

\* rbtree_min
Leftmost(t, n) == LET low[m \in TreeNode] == IF t.left[m] = Nil THEN m ELSE low[t.left[m]] IN low[n]

\* rbtree_left_rotate and, with the other side, rbtree_right_rotate.
Rotate(t, n, side) ==
  LET up    == t[Other(side)][n]
      inner == t[side][up]
      moved == [t EXCEPT ![Other(side)][n] = inner, ![side][up] = n,
                         !.parent = [m \in Links |-> IF m = n THEN up
                                                     ELSE IF m = up THEN t.parent[n]
                                                     ELSE IF m = inner /\ inner # Nil THEN n
                                                     ELSE @[m]]]
  IN  IF n = t.root THEN [moved EXCEPT !.root = up]
      ELSE [moved EXCEPT ![SideOf(t, n)][t.parent[n]] = up]

-----------------------------------------------------------------------------
(* rbtree_insert.                                                          *)

Leaf(t, n, parent, colour) ==
  [t EXCEPT !.left[n] = Nil, !.right[n] = Nil, !.parent[n] = parent, !.red[n] = colour]

Insert(n, key) ==
  LET t == [tree EXCEPT !.key[n] = key] IN
  /\ treeOp = Idle /\ timers[n] = 0
  /\ timers' = [timers EXCEPT ![n] = key]
  /\ IF t.root = Nil
     THEN tree' = [Leaf(t, n, Nil, FALSE) EXCEPT !.root = n] /\ UNCHANGED treeOp
     ELSE tree' = t /\ treeOp' = [op |-> "seek", at |-> t.root, node |-> n]

\* rbtree_insert_timer_value
SeekSide(n, at)  == IF tree.key[n] < tree.key[at] THEN "left" ELSE "right"
Seek ==
  LET n == treeOp.node  side == SeekSide(n, treeOp.at)  next == tree[side][treeOp.at] IN
  /\ treeOp.op = "seek"
  /\ IF next # Nil THEN treeOp' = [treeOp EXCEPT !.at = next] /\ UNCHANGED tree
     ELSE /\ tree' = [Leaf(tree, n, treeOp.at, TRUE) EXCEPT ![side][treeOp.at] = n]
          /\ treeOp' = [op |-> "mend", at |-> n, node |-> n]
  /\ UNCHANGED timers

\* One round of "re-balance tree".
MendRecolour(t, n) ==
  LET g == Grand(t, n) IN
  [t EXCEPT !.red = [m \in Links |-> IF m = g THEN TRUE
                                     ELSE IF m \in {t.left[g], t.right[g]} THEN FALSE ELSE @[m]]]
MendRotateOnce(t, n) ==
  LET side == SideOf(t, t.parent[n]) IN
  Rotate(Paint(Paint(t, t.parent[n], FALSE), Grand(t, n), TRUE), Grand(t, n), Other(side))
MendRotate(t, n) ==
  LET side  == SideOf(t, t.parent[n])
      inner == n = t[Other(side)][t.parent[n]]
      one   == IF inner THEN Rotate(t, t.parent[n], side) ELSE t
      m     == IF inner THEN t.parent[n] ELSE n
  IN  Rotate(Paint(Paint(one, one.parent[m], FALSE), Grand(one, m), TRUE), Grand(one, m), Other(side))

Mend ==
  LET n == treeOp.at IN
  /\ treeOp.op = "mend"
  /\ IF n = tree.root \/ ~IsRed(tree, tree.parent[n])
     THEN tree' = Paint(tree, tree.root, FALSE) /\ treeOp' = Idle
     ELSE LET g == Grand(tree, n)  uncle == tree[Other(SideOf(tree, tree.parent[n]))][g] IN
          IF IsRed(tree, uncle)
          THEN tree' = MendRecolour(tree, n) /\ treeOp' = [treeOp EXCEPT !.at = g]
          ELSE tree' = MendRotate(tree, n)
               /\ treeOp' = [treeOp EXCEPT !.at = IF n = tree[Other(SideOf(tree, tree.parent[n]))][tree.parent[n]]
                                                  THEN tree.parent[n] ELSE n]
  /\ UNCHANGED timers

-----------------------------------------------------------------------------
(* rbtree_delete.                                                          *)

Subst(t, n)   == IF t.left[n] = Nil \/ t.right[n] = Nil THEN n ELSE Leftmost(t, t.right[n])
Instead(t, n) == IF t.left[n] = Nil THEN t.right[n]
                 ELSE IF t.right[n] = Nil THEN t.left[n] ELSE t.right[Subst(t, n)]

Cleared(t, n) == [t EXCEPT !.left[n] = Nil, !.right[n] = Nil, !.parent[n] = Nil, !.key[n] = 0]

\* The node's successor takes its place and colour.
TakesPlace(t, s, n) ==
  LET a == [t EXCEPT !.left[s] = t.left[n], !.right[s] = t.right[n],
                     !.parent[s] = t.parent[n], !.red[s] = t.red[n]]
      b == IF n = t.root THEN [a EXCEPT !.root = s]
           ELSE [a EXCEPT ![SideOf(t, n)][t.parent[n]] = s]
  IN  [b EXCEPT !.parent = [m \in Links |-> IF m # Nil /\ m \in {b.left[s], b.right[s]} THEN s ELSE @[m]]]

\* The sentinel gets a parent too, which the repair goes by.
Unlinked(t, n) ==
  LET s    == Subst(t, n)
      temp == Instead(t, n)
      a    == [t EXCEPT ![SideOf(t, s)][t.parent[s]] = temp,
                        !.parent[temp] = IF s # n /\ t.parent[s] = n THEN s ELSE t.parent[s]]
  IN  Cleared(IF s = n THEN a ELSE TakesPlace(a, s, n), n)

Delete(n) ==
  LET s == Subst(tree, n)  temp == Instead(tree, n) IN
  /\ treeOp = Idle /\ timers[n] # 0
  /\ timers' = [timers EXCEPT ![n] = 0]
  /\ IF s = tree.root
     THEN /\ tree' = Cleared([Paint(tree, temp, FALSE) EXCEPT !.root = temp], n)
          /\ UNCHANGED treeOp
     ELSE /\ tree' = Unlinked(tree, n)
          /\ treeOp' = IF IsRed(tree, s) THEN Idle ELSE [op |-> "heal", at |-> temp, node |-> Nil]

\* One round of "a delete fixup", at a node on this side of its parent.
HealRedSibling(t, n, side) ==
  LET w == t[Other(side)][t.parent[n]] IN
  IF IsRed(t, w) THEN Rotate(Paint(Paint(t, w, FALSE), t.parent[n], TRUE), t.parent[n], side) ELSE t

HealRotateBlunt(t, n, side) ==
  LET far == Other(side)  p == t.parent[n]  w == t[far][p] IN
  Rotate(Paint(Paint(t, w, t.red[p]), p, FALSE), p, side)
HealRotate(t, n, side) ==
  LET far  == Other(side)
      w0   == t[far][t.parent[n]]
      one  == IF IsRed(t, t[far][w0]) THEN t
              ELSE Rotate(Paint(Paint(t, t[side][w0], FALSE), w0, TRUE), w0, far)
      w    == one[far][one.parent[n]]
      p    == one.parent[n]
  IN  Rotate(Paint(Paint(Paint(one, w, one.red[p]), p, FALSE), one[far][w], FALSE), p, side)
Heal ==
  LET n == treeOp.at IN
  /\ treeOp.op = "heal"
  /\ IF n = tree.root \/ IsRed(tree, n)
     THEN tree' = Paint(tree, n, FALSE) /\ treeOp' = Idle
     ELSE LET side == SideOf(tree, n)
              t    == HealRedSibling(tree, n, side)
              w    == t[Other(side)][t.parent[n]]
          IN  IF ~IsRed(t, t.left[w]) /\ ~IsRed(t, t.right[w])
              THEN tree' = Paint(t, w, TRUE) /\ treeOp' = [treeOp EXCEPT !.at = t.parent[n]]
              ELSE tree' = HealRotate(t, n, side)
                   /\ treeOp' = [treeOp EXCEPT !.at = HealRotate(t, n, side).root]
  /\ UNCHANGED timers

TreeNext ==
  \/ \E n \in TreeNode : \E key \in TreeKey[n] : Insert(n, key)
  \/ \E n \in TreeNode : Delete(n)
  \/ Seek \/ Mend \/ Heal

-----------------------------------------------------------------------------
Kids(n) == {tree.left[n], tree.right[n]} \ {Nil}

\* The nodes under a node, with it.
Under == [n \in TreeNode |->
  LET below[d \in 0 .. Cardinality(TreeNode)] ==
        IF d = 0 THEN {n} ELSE below[d - 1] \cup UNION {Kids(m) : m \in below[d - 1]}
  IN  below[Cardinality(TreeNode)]]

Held == IF tree.root = Nil THEN {} ELSE Under[tree.root]

\* Between two calls the tree holds exactly the timers that were added and not
\* removed, each under its key, to the left no greater one and to the right
\* no smaller one, whoever was deleted from where (rbtree_insert,
\* rbtree_delete): the first timer to expire is the leftmost.
HoldsTimers == treeOp = Idle =>
  /\ Held = {n \in TreeNode : timers[n] # 0}
  /\ \A n \in Held :
       /\ tree.key[n] = timers[n]
       /\ \A m \in Kids(n) : tree.parent[m] = n
       /\ tree.left[n] # Nil => \A m \in Under[tree.left[n]] : tree.key[m] <= tree.key[n]
       /\ tree.right[n] # Nil => \A m \in Under[tree.right[n]] : tree.key[m] >= tree.key[n]

\* The black nodes on the way from a node up to the root.
Blacks(n) == Cardinality({m \in Held : n \in Under[m] /\ ~IsRed(tree, m)})

\* Between two calls no red node has a red parent, the root is black, and all
\* nodes that lack a child have as many black ones above them: no search is
\* longer than twice the shortest (the two fixups).
Balanced == treeOp = Idle =>
  /\ ~IsRed(tree, tree.root) /\ ~IsRed(tree, Nil)
  /\ \A n \in Held : IsRed(tree, n) => \A m \in Kids(n) : ~IsRed(tree, m)
  /\ \A m, n \in {k \in Held : Nil \in {tree.left[k], tree.right[k]}} : Blacks(m) = Blacks(n)

\* Both: no sequence of inserts and deletes, in their single steps, loses a
\* timer, finds it later than it is due, or lets the tree grow one-sided.
TreeSound == HoldsTimers /\ Balanced
=============================================================================
