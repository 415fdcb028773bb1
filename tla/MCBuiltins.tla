----------------------------- MODULE MCBuiltins -----------------------------
EXTENDS Builtins

MCRestFuncs == Arithmetic \cup {"=", "<"}
MCFuncs == MCRestFuncs \cup {"host"}
MCArity == [f \in MCFuncs |-> IF f = "host" THEN 2 ELSE 1]
MCValues == {Num(0, 1), Num(-2, 1), Num(1, 2), Num(1, 3)}
=============================================================================
