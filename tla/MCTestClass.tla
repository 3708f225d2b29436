---------------------------- MODULE MCTestClass ----------------------------
(* Instances of TestClass for TLC. *)
EXTENDS TestClass

MCTestNames == {"test_a", "test_b", "test_c", "re:test_a", "test_z"}

single(t) ==
  [name |-> t, sel |-> t, repeat |-> None, consec |-> None, retry |-> None]
retried(t, count) == [single(t) EXCEPT !.retry = count]
repeated(t, count, consec) ==
  [single(t) EXCEPT !.repeat = count, !.consec = consec]

ask(ms) ==
  [requested |-> [i \in DOMAIN ms |-> ms[i].sel], methods |-> ms,
   resolves |-> TRUE]

(* Two tests; a retried one; a repeated one, picked by a regex; a retry  *)
(* parameter that is not valid, after a test; a selector that matches        *)
(* nothing.                                                                  *)
MCPlans ==
  {ask(<<single("test_a"), single("test_b")>>),
   ask(<<retried("test_a", 2)>>),
   ask(<<[repeated("test_a", 2, None) EXCEPT !.sel = "re:test_a"]>>),
   ask(<<single("test_a"), retried("test_b", 1)>>),
   [requested |-> <<"test_z">>, methods |-> <<>>, resolves |-> FALSE]}

(* Iterations until the counts run out, a threshold reached at every place,  *)
(* a threshold of 0 and one that is never reached, a test after the iterated  *)
(* one, and a test asked for twice.                                          *)
IterationPlans ==
  {ask(<<retried("test_a", 3)>>),
   ask(<<repeated("test_b", 4, 2)>>),
   ask(<<repeated("test_b", 2, 0), retried("test_c", 2)>>),
   ask(<<repeated("test_b", 3, -2)>>),
   ask(<<retried("test_a", 2), retried("test_a", 2)>>)}

RepeatPlans == {ask(<<repeated("test_a", 2, None)>>)}
=============================================================================
