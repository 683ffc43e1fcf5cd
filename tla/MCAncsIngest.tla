---------------------------- MODULE MCAncsIngest ----------------------------
(* A small instance of AncsIngest: two messages, and three deliveries, so  *)
(* that one notification comes twice; one tick of the clock, which is past *)
(* every window; collections that are full at their first or second entry. *)
EXTENDS AncsIngest

CONSTANTS m1, m2, a, b, g1, g2

In(s, g) == [sender |-> s, subtitle |-> g]

\* One sender writes to two groups; or two senders, to a group and directly.
TwoInboxes ==
  { (m1 :> In(a, g1)) @@ (m2 :> In(a, g2)),
    (m1 :> In(a, g1)) @@ (m2 :> In(b, Direct)) }

\* m2 may be listed with an earlier datetime than m1, or with none.
FewDatetimes == (m1 :> {1}) @@ (m2 :> {0, Undated})

=============================================================================
