--------------------------- MODULE OrderDocuments ---------------------------
(***************************************************************************)
(* The documents OrderLifecycle and Cart share: orders and their details   *)
(* (order/model, order/enum).                                              *)
(***************************************************************************)
EXTENDS Integers

CONSTANTS
    Orders,     \* order ids, a bound on the orders created
    Products,   \* product ids
    Details,    \* order detail ids, a bound on the details at one time
    None        \* an absent value: no document, a cache miss, a field not supplied

OrderStatuses == {"CART", "PENDING", "PREPARES_PACKAGE", "IN_TRANSPORT",
                  "SUCCESS", "CANCEL"}
PaymentStatuses == {"PENDING", "SUCCESS", "FAIL"}

\* What is kept of an order document: total is totalAmountAfterDiscount, with
\* which the other two totals move.
Doc == [status : OrderStatuses, pay : PaymentStatuses, total : Int]

\* The defaults of the schema.
NewOrder == [status |-> "CART", pay |-> "PENDING", total |-> 0]

\* Of a detail: its amount is the product's price times the quantity, for no
\* route changes a price.
OrderDetail == [order : Orders, product : Products, quantity : Int]
=============================================================================
