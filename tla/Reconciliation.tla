---------------------------- MODULE Reconciliation ----------------------------
(***************************************************************************)
(* src/observability/reconciliation.py: two books of positions, dicts from *)
(* symbol to net quantity, compared symbol by symbol.  A book is a         *)
(* function whose domain is the symbols it mentions.                       *)
(***************************************************************************)
EXTENDS Quantities

(* A symbol a book does not mention is held with quantity zero.            *)
Quantity(book, s) == IF s \in DOMAIN book THEN book[s] ELSE 0

Difference(internal, broker, s) == Quantity(broker, s) - Quantity(internal, s)

IsMatch(internal, broker, s, tolerance) ==
    Abs(Difference(internal, broker, s)) <= tolerance

Symbols(internal, broker) == DOMAIN internal \cup DOMAIN broker

(* get_mismatched_symbols of the result of reconcile_positions.            *)
Mismatched(internal, broker, tolerance) ==
    {s \in Symbols(internal, broker) : ~ IsMatch(internal, broker, s, tolerance)}

Matched(internal, broker, tolerance) == Mismatched(internal, broker, tolerance) = {}
=============================================================================
