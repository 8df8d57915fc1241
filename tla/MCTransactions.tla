--------------------------- MODULE MCTransactions ---------------------------
EXTENDS Transactions
CONSTANTS radio, child, sym, start, y, n
MCSymbols == {radio, child, sym}
MCParent == [s \in MCSymbols |-> IF s = child THEN radio ELSE start]
\* A smaller instance, for longer histories with two values.
MCTwo == {radio, child}
MCTwoParent == [s \in MCTwo |-> IF s = child THEN radio ELSE start]
=============================================================================
