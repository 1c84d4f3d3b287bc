------------------------------ MODULE MCLedger ------------------------------
(* Three kinds of books that share no record: the handlers of one never    *)
(* touch the documents of another.                                         *)
EXTENDS Ledger
CONSTANTS e1, e2, e3, p1, y1, y2, q1, q2
MCEntries == {e1, e2, e3}
MCYears == {y1, y2}
MCPeriods == {q1, q2}
MCBooks == {{e1}, {p1}, {y1, y2, q1, q2}}
=============================================================================
