---------------------------- MODULE BoundedWalk ----------------------------
(***************************************************************************)
(* What both chain followers of the library promise their callers: the    *)
(* walk collects items one after the other, never the same item twice,    *)
(* never more than the caller's limit, and it stops.                      *)
(*                                                                         *)
(* RowSegmentChain (walk_row_segment_chain) and PageLinks                  *)
(* (walk_page_links) implement this specification.                         *)
(***************************************************************************)
EXTENDS Naturals, Sequences

CONSTANT Item

VARIABLES
  path,     \* the items collected so far, in order
  limit,    \* the caller's bound on their number, fixed for the walk
  walking   \* FALSE once the walk has returned

walkVars == <<path, limit, walking>>

WalkTypeOK ==
  /\ path \in Seq(Item)
  /\ limit \in Nat
  /\ walking \in BOOLEAN

WalkInit ==
  /\ path = <<>>
  /\ limit \in Nat
  /\ walking = TRUE

On(item) == \E i \in 1..Len(path) : path[i] = item

(* Collect one more item.  The step that collects the last item may be the *)
(* step that returns.                                                      *)
Extend(item) ==
  /\ walking
  /\ Len(path) < limit
  /\ ~On(item)
  /\ path' = Append(path, item)
  /\ walking' \in BOOLEAN
  /\ UNCHANGED limit

Stop ==
  /\ walking
  /\ walking' = FALSE
  /\ UNCHANGED <<path, limit>>

WalkNext == (\E item \in Item : Extend(item)) \/ Stop

WalkSafety == WalkInit /\ [][WalkNext]_walkVars
WalkSpec == WalkSafety /\ <>(~walking)
=============================================================================
