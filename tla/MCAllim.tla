------------------------------- MODULE MCAllim -------------------------------
(***************************************************************************)
(* Two servers, one with two threads, and a tool.                          *)
(***************************************************************************)
EXTENDS Allim, TLC

CONSTANTS A, B, T, a1, a2, b1, t1

MCProcOf == (a1 :> A) @@ (a2 :> A) @@ (b1 :> B) @@ (t1 :> T)
MCPid    == (A :> 1) @@ (B :> 2) @@ (T :> 3)

Pass(f, i) == [op |-> "pass", point |-> <<f, i>>]
P          == Pass("f", "i")
Done       == [op |-> "done"]
Hooked     == [op |-> "hooked"]
Close      == [op |-> "close"]
Ctl(o)     == [op |-> o]
PointAt(f, i, c) == [op |-> "point", clear |-> FALSE, file |-> f, id |-> i, count |-> c]
Clear      == [op |-> "point", clear |-> TRUE]
ToWaste(m, k, d) == [op |-> "real", memory |-> m, disk |-> k, desc |-> d]
LogAll(on)   == [op |-> "log", all |-> TRUE, on |-> on, kinds |-> {}]
LogOf(k, on) == [op |-> "log", all |-> FALSE, on |-> on, kinds |-> {k}]

Phase(x1, x2, y, z) == (a1 :> x1) @@ (a2 :> x2) @@ (b1 :> y) @@ (t1 :> z)
Tools(z)   == Phase(<<>>, <<>>, <<>>, z)

MCPlans ==
    { \* all find no test; then a destroyed one is still in the servers' gKey
      <<Phase(<<P>>, <<P>>, <<P>>, <<>>)>>,
      <<Phase(<<P>>, <<>>, <<>>, <<Ctl("create")>>), Phase(<<P>>, <<>>, <<P>>, <<Ctl("destroy"), Ctl("create")>>)>>,
      \* three threads and two slots; a slot that is given back
      <<Tools(<<Ctl("create"), PointAt("f", "i", 2)>>), Phase(<<P, P>>, <<P>>, <<P, P>>, <<>>)>>,
      <<Tools(<<Ctl("create"), PointAt("f", "i", 2)>>), Phase(<<P, Done>>, <<P, P>>, <<>>, <<>>), Phase(<<P>>, <<>>, <<P>>, <<>>)>>,
      \* the settings change while points are passed
      <<Tools(<<Ctl("create"), PointAt("f", "i", 2)>>),
        Phase(<<P, P, P>>, <<>>, <<P>>, <<PointAt("", "i", 1), Clear>>)>>,
      <<Tools(<<Ctl("create"), PointAt("f", Every, 1), LogOf("pass", TRUE)>>),
        Phase(<<P>>, <<>>, <<Pass("g", "i")>>, <<PointAt(Every, "", 1), LogAll(FALSE), Ctl("line")>>)>>,
      \* memory and descriptors, wasted by one thread, two threads, two servers
      <<Tools(<<Ctl("create"), ToWaste(2, 3, 1)>>), Phase(<<P, Hooked>>, <<Hooked>>, <<>>, <<>>),
        Tools(<<Ctl("free")>>), Phase(<<Hooked>>, <<Close>>, <<>>, <<>>)>>,
      <<Tools(<<Ctl("create"), ToWaste(3, None, 4)>>), Phase(<<P, Hooked>>, <<>>, <<>>, <<>>),
        Phase(<<Hooked>>, <<Close>>, <<>>, <<ToWaste(1, 0, 1)>>), Phase(<<Hooked>>, <<Hooked>>, <<>>, <<>>)>>,
      <<Tools(<<Ctl("create"), ToWaste(1, None, 1)>>), Phase(<<P, Hooked>>, <<>>, <<>>, <<>>),
        Tools(<<ToWaste(2, None, 2)>>), Phase(<<>>, <<>>, <<P, Hooked>>, <<>>), Tools(<<Ctl("free")>>),
        Phase(<<Hooked>>, <<>>, <<Hooked>>, <<>>)>>,
      \* a point that is reached with a stack to be logged after the hooks are on
      <<Tools(<<Ctl("create")>>), Phase(<<P>>, <<>>, <<>>, <<PointAt("f", "i", 1)>>), Phase(<<P>>, <<P>>, <<P>>, <<Ctl("line")>>)>> }
=============================================================================
