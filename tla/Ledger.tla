------------------------------ MODULE Ledger --------------------------------
(***************************************************************************)
(* The double-entry ledger every service books on: the table account, the  *)
(* table transaction and the SQL function book_transaction.                *)
(*                                                                         *)
(* Amounts are integers (cents): the code's floating point amounts and the *)
(* rounding of balances below rounding_epsilon to zero have no counterpart.*)
(***************************************************************************)
EXTENDS Integers, FiniteSets, Functions

\* A row of the table transaction. Its amount is never negative: a negative
\* amount is booked the other way round.
Transaction(source, target, amount) ==
    IF amount < 0
    THEN [source |-> target, target |-> source, amount |-> -amount]
    ELSE [source |-> source, target |-> target, amount |-> amount]

\* The balances after a row has been posted. A transaction between an account
\* and itself is refused by a table constraint, so source # target.
Post(balance, tx) ==
    [a \in DOMAIN balance |->
        IF a = tx.source THEN balance[a] - tx.amount
        ELSE IF a = tx.target THEN balance[a] + tx.amount
        ELSE balance[a]]

\* book_transaction as a whole.
BookTransaction(balance, source, target, amount) ==
    Post(balance, Transaction(source, target, amount))

\* The sum of f over the elements of S.
SumOver(f, S) == FoldFunctionOnSet(LAMBDA x, y: x + y, 0, f, S)

\* Money is only moved, never made: all balances together come to zero.
Balanced(balance) == SumOver(balance, DOMAIN balance) = 0

\* is_balance_negative, on exact amounts.
IsBalanceNegative(amount) == amount < 0
=============================================================================
