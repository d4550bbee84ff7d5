---------------------------- MODULE AtomicStock ----------------------------
(***************************************************************************)
(* What the stock ledger promises: each document is applied at once to the *)
(* levels as they are, and the inventory account is posted with exactly    *)
(* the value that moved.  No sessions, no locks, no quotes.                *)
(***************************************************************************)
EXTENDS StockCommands

CONSTANT Commands

VARIABLES level, ledger, docs, gl, archived

stockVars == <<level, ledger, docs, gl, archived>>

\* The movement a request makes when it is applied to lvl.
MovementOf(req, lvl, pair) ==
  LET v == Valued(lvl, req, pair)
  IN [doc |-> req.doc, line |-> req.line, kind |-> req.kind, key |-> req.key,
      qty |-> req.qty, value |-> v.value, snap |-> v.snap, seq |-> lvl.seq + 1]

\* The levels and movements after request i of c, from those before it, and
\* whether each was admissible where it was applied.
Apply(c, i, r) ==
  LET req  == Requests(c)[i]
      lvl  == r.level[req.key]
      pair == Pair(c, req, ledger \cup {r.moves[j] : j \in DOMAIN r.moves})
      m    == MovementOf(req, lvl, pair)
  IN IF ~r.ok \/ ~Admissible(lvl, req, pair)
     THEN [r EXCEPT !.ok = FALSE]
     ELSE [ok    |-> TRUE,
           level |-> [r.level EXCEPT ![req.key] = ApplyMovement(lvl, req.qty, m.value)],
           moves |-> Append(r.moves, m)]

\* The run of c on the levels as they are: after each of its requests.
RunOf(c) ==
  LET run[i \in 0..Len(Requests(c))] ==
        IF i = 0 THEN [ok |-> TRUE, level |-> level, moves |-> <<>>]
                 ELSE Apply(c, i, run[i - 1])
  IN run

Run(c) == RunOf(c)[Len(Requests(c))]

Init ==
  /\ level = [k \in Keys |-> EmptyLevel]
  /\ ledger = {}
  /\ docs = <<>>
  /\ gl = <<>>
  /\ archived = {}

Post(c) ==
  /\ c.doc \notin DOMAIN docs
  /\ c.op = "reverse" => c.of \in DOMAIN docs
  /\ TargetsOf(c) \cap archived = {}
  /\ c.op # "reverse" => ProductsOf(c) \cap archived = {}
  /\ Run(c).ok
  /\ level' = Run(c).level
  /\ LET moves == Run(c).moves
     IN /\ ledger' = ledger \cup {moves[j] : j \in DOMAIN moves}
        /\ gl' = With(gl, c.doc, SumOf([j \in DOMAIN moves |-> moves[j].value]))
  /\ docs' = With(docs, c.doc, c)
  /\ UNCHANGED archived

\* A target is archived only while nothing is held there.
Archive(t) ==
  /\ t \notin archived
  /\ \A k \in Keys :
       t \in {<<"warehouse", k[1]>>, <<"variant", k[2]>>, <<"product", k[2]>>} => level[k].onHand = 0
  /\ archived' = archived \cup {t}
  /\ UNCHANGED <<level, ledger, docs, gl>>

Next ==
  \/ \E c \in Commands : Post(c)
  \/ \E t \in {"warehouse"} \X Warehouses \cup {"variant", "product"} \X Variants : Archive(t)

Spec == Init /\ [][Next]_stockVars
=============================================================================
