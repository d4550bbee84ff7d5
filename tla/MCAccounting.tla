----------------------------- MODULE MCAccounting -----------------------------
EXTENDS AccountingLedger

Posting(kind, src, date, cur) ==
  [kind |-> kind, src |-> src, date |-> date, last |-> date, cur |-> cur, op |-> "none"]
Period(kind, from, to, op) ==
  [kind |-> kind, src |-> "a", date |-> from, last |-> to, cur |-> "ILS", op |-> op]

\* Two periods around a posting and its reversal, an opening balance before,
\* and period operations under their own and under a reused identity.
BookCommands ==
  {Posting("post", "a", 2, "ILS"), Posting("post", "a", 3, "ILS"), Posting("reverse", "a", 3, "ILS"),
   Posting("opening", "o", 1, "ILS"), Posting("document", "d", 3, "ILS"), Posting("document", "e", 3, "ILS"),
   Period("create", 2, 2, "k1"), Period("create", 3, 4, "k2"), Period("create", 1, 1, "k2"),
   Period("close", 2, 2, "k3"), Period("close", 3, 3, "k4"), Period("reopen", 2, 2, "k5")}

\* The first documents of a business, and a change of its currency.
FirstCommands ==
  {Posting("post", "a", 1, "ILS"), Posting("post", "b", 1, "JOD"),
   Posting("document", "d", 1, "ILS"), Posting("document", "e", 1, "ILS"),
   Posting("currency", "a", 1, "JOD"), Posting("currency", "a", 1, "ILS"),
   Posting("opening", "o", 1, "ILS"), Posting("opening", "p", 1, "ILS"), Posting("reverse", "o", 1, "ILS")}
=============================================================================
