------------------------------ MODULE MCDevnode ------------------------------
(* The devnode harness for TLC: one devnode, one key pair or two per test.   *)
EXTENDS DevnodeHarness

KeyPairs == TestNames \X {1, 2}

HarnessCalls ==
    {s.call : s \in UNION {{u \in ToSet(Script(t)) : u.do = "execute"} : t \in TestNames}}

Nothing == {}
=============================================================================
