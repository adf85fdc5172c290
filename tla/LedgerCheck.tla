----------------------------- MODULE LedgerCheck -----------------------------
(***************************************************************************)
(* The records of one paper account in one instrument: what place_order    *)
(* writes for each order in one transaction, and the reconciliation of     *)
(* those records (ledger_reconciliation), which reads them one table after *)
(* the other while orders go on, for the check that halts an account       *)
(* (ledger_check) and for the release of that halt.                        *)
(*                                                                         *)
(* An order has one fill, of its whole quantity and with its number. A     *)
(* position's quantity is signed and its cost is that times the average    *)
(* entry price. A share of a cost is exact in the runs and otherwise       *)
(* rounded, where the code rounds what it stores and compares amounts with *)
(* a tolerance.                                                            *)
(***************************************************************************)
EXTENDS Integers, FiniteSets, Sequences, Functions

CONSTANTS
    FillPrices,
    Quantities,  \* what is bought (or, negative, sold) in an order
    MaxOrders    \* bound: orders of the account

ASSUME LedgerAssumption ==
    FillPrices \subseteq Nat \ {0} /\ Quantities \subseteq Int \ {0} /\ MaxOrders \in Nat

VARIABLES
    exchange,
    books,     \* the tables
    stopped,   \* the account's ledger_mismatch halt is active
    reading,   \* a reconciliation under way: what for, and the tables read
    broken,    \* history: the kind of row that was lost
    torn       \* history: an order was committed after its SELECT of fills

ledgerVars == <<exchange, books, stopped, reading, broken, torn>>

SizeOf(n) == IF n < 0 THEN -n ELSE n

Amount(entries, fill, type) ==
    SumFunction([e \in {b \in entries : b.fill = fill /\ b.type = type} |-> e.amount])

-----------------------------------------------------------------------------
(* place_order                                                             *)

Opened(b) == {p \in b.positions : p.open}
NetPosition(b) == SumFunction([p \in Opened(b) |-> p.quantity])

FeeOf(quantity) == IF exchange = "oanda" THEN 0 ELSE SizeOf(quantity)

(* What of the position the fill closes is realized against its cost.      *)
RealizedOf(p, quantity, price) ==
    IF p.quantity * quantity >= 0 THEN 0
    ELSE IF SizeOf(quantity) >= SizeOf(p.quantity) THEN price * p.quantity - p.cost
    ELSE (SizeOf(quantity) * (price * p.quantity - p.cost)) \div SizeOf(p.quantity)

(* _apply_fill_to_position, of an open row p.                              *)
Rebooked(p, quantity, price) ==
    LET after == p.quantity + quantity
        kept == IF p.quantity * quantity > 0 THEN p.cost + price * quantity
                ELSE IF p.quantity * after > 0 THEN (p.cost * SizeOf(after)) \div SizeOf(p.quantity)
                ELSE price * after
    IN [p EXCEPT !.quantity = after, !.cost = kept, !.open = after # 0,
                 !.realized = @ + RealizedOf(p, quantity, price)]

PositionsAfter(b, n, quantity, price) ==
    IF Opened(b) = {}
    THEN b.positions \cup {[id |-> n, quantity |-> quantity, cost |-> price * quantity,
                            realized |-> 0, open |-> TRUE]}
    ELSE {IF p.open THEN Rebooked(p, quantity, price) ELSE p : p \in b.positions}

(* _record_ledger: an amount of zero has no entry, the cash always has.    *)
EntriesFor(b, n, quantity, price) ==
    LET realized == SumFunction([p \in Opened(b) |-> RealizedOf(p, quantity, price)])
        Booking(type, amount) == [fill |-> n, type |-> type, amount |-> amount]
    IN {Booking("cash", -price * quantity)}
       \cup {e \in {Booking("fee", -FeeOf(quantity)), Booking("realized_pnl", realized)} : e.amount # 0}

Written(b, n, quantity, price) ==
    [orders |-> b.orders \cup {[id |-> n, quantity |-> quantity, filled |-> SizeOf(quantity),
                                status |-> "filled"]},
     fills |-> b.fills \cup {[id |-> n, order |-> n, price |-> price, fee |-> FeeOf(quantity),
                              quantity |-> SizeOf(quantity)]},
     entries |-> b.entries \cup EntriesFor(b, n, quantity, price),
     refs |-> b.refs \cup {n},
     history |-> b.history \cup {<<n, "submitted">>, <<n, "filled">>},
     positions |-> PositionsAfter(b, n, quantity, price)]

(* An entry is refused under the halt, and a short where there is none.    *)
PlaceOrder(n, quantity, price) ==
    /\ stopped => NetPosition(books) * quantity < 0
    /\ NetPosition(books) + quantity < 0 => exchange = "oanda"
    /\ books' = Written(books, n, quantity, price)
    /\ torn' = (torn \/ {"orders", "fills"} \subseteq DOMAIN reading.rows)
    /\ UNCHANGED <<exchange, stopped, reading, broken>>

(* A row is lost, by a partial restore or by hand: a fill, an entry, a     *)
(* ledger transaction, or the open position.                               *)
RowLost(table) ==
    /\ broken = "none" /\ reading.rows = <<>>
    /\ \E row \in IF table = "positions" THEN Opened(books) ELSE books[table] :
          books' = [books EXCEPT ![table] = @ \ {row}]
    /\ broken' = table
    /\ UNCHANGED <<exchange, stopped, reading, torn>>

-----------------------------------------------------------------------------
(* reconcile                                                               *)

SignOf(r, order) == (CHOOSE o \in r.orders : o.id = order).quantity
Signed(r, f) == IF SignOf(r, f.order) > 0 THEN f.quantity ELSE -f.quantity

FillFindings(r) ==
    {"fill_without_ledger" : f \in {g \in r.fills : g.id \notin r.refs}}
    \cup {"ledger_cash_mismatch" :
            f \in {g \in r.fills : /\ g.id \in r.refs
                                   /\ Amount(r.entries, g.id, "cash") # -g.price * Signed(r, g)}}
    \cup {"ledger_fee_mismatch" :
            f \in {g \in r.fills : /\ g.id \in r.refs
                                   /\ Amount(r.entries, g.id, "fee") # -g.fee}}
    \cup {"ledger_transaction_without_fill" :
            ref \in r.refs \ {f.id : f \in r.fills}}

OrderFindings(r) ==
    LET FilledOf(o) == SumFunction([f \in {g \in r.fills : g.order = o.id} |-> f.quantity])
        Statuses(o) == {h[2] : h \in {g \in r.history : g[1] = o.id}}
    IN {"order_filled_quantity_mismatch" : o \in {p \in r.orders : p.filled # FilledOf(p)}}
       \cup {"order_filled_incompletely" :
               o \in {p \in r.orders : p.filled = FilledOf(p) /\ p.filled # SizeOf(p.quantity)}}
       \cup {"order_status_not_in_history" :
               o \in {p \in r.orders : Statuses(p) # {} /\ p.status \notin Statuses(p)}}

(* _reconcile_positions                                                    *)
PositionFindings(r) ==
    LET known == {f \in r.fills : \E o \in r.orders : o.id = f.order}
        net == SumFunction([f \in known |-> Signed(r, f)])
        cash == SumFunction([f \in known |-> -f.price * Signed(r, f)])
        realized == SumFunction([f \in known |-> Amount(r.entries, f.id, "realized_pnl")])
        cost == SumFunction([p \in Opened(r) |-> p.cost])
        booked == SumFunction([p \in r.positions |-> p.realized])
    IN IF Cardinality(Opened(r)) > 1 THEN {"multiple_open_positions"}
       ELSE {"closed_position_with_quantity" : p \in {q \in r.positions \ Opened(r) : q.quantity # 0}}
            \cup (IF NetPosition(r) # net THEN {"position_quantity_mismatch"} ELSE {})
            \cup (IF booked # realized THEN {"realized_pnl_mismatch"} ELSE {})
            \cup (IF NetPosition(r) = net /\ cash + cost # realized
                  THEN {"position_cost_basis_mismatch"} ELSE {})

(* Faulty form for LossIsFound: the ledger's side is taken for granted.    *)
ReconcileOrders(r) == OrderFindings(r) \cup PositionFindings(r)

Reconcile(r) == FillFindings(r) \cup OrderFindings(r) \cup PositionFindings(r)

-----------------------------------------------------------------------------
(* Faulty form for VerdictsNeedCause: the fills are read before the orders. *)
TablesFillsFirst == <<"fills", "orders", "entries", "refs", "history", "positions">>

(* load_account_rows: one SELECT after the other.                          *)
Tables == <<"orders", "fills", "entries", "refs", "history", "positions">>

NoReading == [for |-> "nothing", rows |-> <<>>]

(* A check of an account that has an order and no such halt, or the        *)
(* request of an Owner to release it.                                      *)
ReadingBegins ==
    /\ reading = NoReading /\ books.orders # {}
    /\ reading' = [for |-> IF stopped THEN "release" ELSE "check", rows |-> <<>>]
    /\ torn' = FALSE
    /\ UNCHANGED <<exchange, books, stopped, broken>>

ReadsTable(k) ==
    /\ reading # NoReading
    /\ DOMAIN reading.rows = {Tables[i] : i \in 1 .. k - 1}
    /\ reading' = [reading EXCEPT !.rows =
                      [t \in DOMAIN @ \cup {Tables[k]} |-> IF t = Tables[k] THEN books[t] ELSE @[t]]]
    /\ UNCHANGED <<exchange, books, stopped, broken, torn>>

AllRead == DOMAIN reading.rows = {Tables[i] : i \in DOMAIN Tables}

(* orders[fill.order_id]: the reconciliation raises.                       *)
UnknownOrder == \E f \in reading.rows["fills"] : ~\E o \in reading.rows["orders"] : o.id = f.order

(* check_ledger_reconciliation halts, emergency_release_trading_halt lifts *)
(* the halt, unless there are findings.                                    *)
Verdict ==
    /\ AllRead
    /\ stopped' = IF UnknownOrder THEN stopped ELSE Reconcile(reading.rows) # {}
    /\ reading' = NoReading /\ torn' = FALSE
    /\ UNCHANGED <<exchange, books, broken>>

ReadingFails ==
    /\ reading # NoReading
    /\ reading' = NoReading /\ torn' = FALSE
    /\ UNCHANGED <<exchange, books, stopped, broken>>

LedgerInit ==
    /\ exchange \in {"binance", "oanda"}
    /\ books = [t \in {Tables[i] : i \in DOMAIN Tables} |-> {}]
    /\ stopped = FALSE /\ reading = NoReading
    /\ broken = "none" /\ torn = FALSE

LedgerNext ==
    \/ /\ Cardinality(books.orders) < MaxOrders
       /\ \E quantity \in Quantities, price \in FillPrices :
             PlaceOrder(Cardinality(books.orders) + 1, quantity, price)
    \/ \E table \in {"fills", "entries", "refs", "positions"} : RowLost(table)
    \/ ReadingBegins \/ (\E k \in DOMAIN Tables : ReadsTable(k)) \/ Verdict \/ ReadingFails

LedgerSpec == LedgerInit /\ [][LedgerNext]_ledgerVars

-----------------------------------------------------------------------------
(* Whatever orders open, increase, reduce, close and turn a position, the  *)
(* reconciliation has nothing to say of what they wrote; and a lost fill,  *)
(* entry, transaction or open position is found by a check at any later    *)
(* time: no order that follows covers it up.                               *)
LossIsFound == (broken = "none") = (Reconcile(books) = {})

(* A check halts an account only if a row was lost or an order was         *)
(* committed between its SELECT of the fills and its last one (an order    *)
(* committed before that makes it raise), and only such an order lets a    *)
(* release through while a row is missing.                                 *)
VerdictsNeedCause ==
    [][Verdict => /\ ~stopped /\ stopped' => broken # "none" \/ torn
                  /\ stopped /\ ~stopped' => broken = "none" \/ torn]_ledgerVars
=============================================================================
