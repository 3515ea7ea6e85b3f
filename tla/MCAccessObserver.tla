----------------------------- MODULE MCAccessObserver -----------------------------
EXTENDS AccessObserver

\* At most three grants in all; everybody has the name of their number.
Quiet(locator, public, direct, members, holds) ==
  [login |-> [u \in Users |-> u], locator |-> locator, public |-> public,
   direct |-> direct, teams |-> Teams, members |-> members, holds |-> holds,
   service |-> "bound", organization |-> "bound"]
Size(f) == FoldFunction(LAMBDA S, n : Cardinality(S) + n, 0, f)
MCSettled ==
  {Quiet(l, p, d, m, h) : l \in {[r \in Repositories |-> r], [r \in Repositories |-> IF r = 1 THEN 1 ELSE 0]},
                          p \in {{}, {1}}, d \in [Repositories -> SUBSET Users],
                          m \in [Teams -> SUBSET Users], h \in [Teams -> SUBSET Repositories]}
MCStart == {f \in MCSettled : Size(f.direct) + Size(f.members) + Size(f.holds) <= 3}

Scope(i, r, l) == [identities |-> i, bindings |-> r, atLink |-> l]
MCInputs == {Scope({1}, {1}, [u \in Users |-> u]), Scope({1}, {1, 2}, [u \in Users |-> 2]),
             Scope({1, 2}, {1}, [u \in Users |-> IF u = 1 THEN 1 ELSE 0]),
             Scope({1, 2}, {1, 2}, [u \in Users |-> u])}
=============================================================================
