------------------------- MODULE MCFrameworkDelivery -------------------------
(***************************************************************************)
(* Instances of FrameworkDelivery: a project on Release r1 and two         *)
(* processes that install r2 and switch between the two.                   *)
(***************************************************************************)
EXTENDS FrameworkDelivery, TLC

CONSTANTS r1, r2, old, new, k1, f1, f2, p1, p2

tree(r, rules, key, sound) == [release |-> r, rules |-> rules, signer |-> key, sound |-> sound]
lock(r, rules, key) == [release |-> r, rules |-> rules, signer |-> key]
text(l, form) == [lock |-> l, form |-> form]

Symmetry == Permutations(Process)
\* Two layouts of one lock, so that a backup can collide, and two bundles and
\* two locks that claim the release id r2, one of which does not validate.
Bundles == {tree(r1, old, k1, TRUE), tree(r2, new, k1, TRUE), tree(r2, old, Unsigned, TRUE)}
Candidates == {text(lock(r1, old, k1), f1), text(lock(r1, old, k1), f2),
               text(lock(r2, new, k1), f1), text(lock(r2, old, Unsigned), f1)}
Locks == {lock(r1, old, k1), lock(r2, new, k1)}
==============================================================================
