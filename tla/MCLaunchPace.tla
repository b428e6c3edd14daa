---------------------------- MODULE MCLaunchPace ----------------------------
(* Small instances of LaunchPace. *)
EXTENDS LaunchPace, TLC

CONSTANTS s1, s2, s3, c1, c2, c3

Ask(way, s) == [how |-> way, id |-> s]
Plan(a1, a2, a3) == (c1 :> a1) @@ (c2 :> a2) @@ (c3 :> a3)
\* A waiter beside two that go ahead; the board's own launch beside a waiter and
\* a sweep that finds the same session; a sweep and one that goes ahead for one session.
Mixed ==
  {Plan(Ask("wait", s1), Ask("ahead", s2), Ask("ahead", s3)),
   Plan(Ask("operator", s1), Ask("wait", s2), Ask("once", s1)),
   Plan(Ask("once", s1), Ask("ahead", s1), Ask("wait", s2))}
\* All three are gone, and their first launches are revivals.
AllGone == {[s \in Sessions |-> "dead"]}
=============================================================================
