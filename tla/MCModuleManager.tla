----------------------------- MODULE MCModuleManager -----------------------------
(* A small instance of ModuleManager for TLC. *)
EXTENDS ModuleManager, TLC

CONSTANT exit

\* The exit module, which may be installed under another type as well.
SmallInstallable == {<<"executor", exit>>, <<"hook", exit>>}

\* As an executor it is told its rollup, as a hook nothing: it keeps what it knows.
SmallInitData(install) == IF install[1] = "executor" THEN {"op"} ELSE {""}

\* Addresses are interchangeable, and so are keys and withdrawals.
Symmetry == Permutations(Address) \cup Permutations(P256Key)
==================================================================================
