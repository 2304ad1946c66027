--------------------------- MODULE MCSymbolCache ---------------------------
(* Member sets for the runs of SymbolCache.                                *)
EXTENDS SymbolCache

\* The two sides of a quote, stored alone or together, and the counter that
\* every update stores.
QuoteMembers == {"best_bid", "best_ask", "update_count"}

\* And a member that only trades store.
QuoteAndTradeMembers == QuoteMembers \cup {"last_traded_price"}

=============================================================================
