---------------------------- MODULE StrategyConfig ----------------------------
(***************************************************************************)
(* StrategyService: what a candle may read while a strategy is being       *)
(* written.  A request that writes one is a series of statements, each     *)
(* awaited and none in a transaction, so candles, other requests, failures *)
(* and crashes come in between.                                            *)
(*                                                                         *)
(* One strategy with one override for the symbol, and of their columns     *)
(* those the take-profit plan is made of: the template rows of both and    *)
(* tp1Ratio, tp1RMultiple and tp2RMultiple, which a request may set to any *)
(* number (no pipe validates the body).  onModuleInit and create write the *)
(* strategy before anyone else knows it: they are in Init, which lets them *)
(* be cut short.                                                           *)
(***************************************************************************)
EXTENDS Integers, Sequences, SequencesExt

CONSTANTS
    Lists,       \* the template lists a request may carry
    Columns,     \* the values of the columns tp1Ratio, tp1RMultiple, tp2RMultiple
    MaxEdits,    \* bound: update requests
    MaxFaults    \* bound: failed awaits and crashes

\* strategy_tp_templates and symbol_override_tp_templates.
Tables == {"base", "override"}

ASSUME ConfigAssumption ==
    /\ <<>> \in Lists /\ Lists \subseteq Seq([r: Int, ratio: Int])
    /\ Columns \subseteq [ratio: Int, r1: Int, r2: Int]
    /\ {MaxEdits, MaxFaults} \subseteq Nat

VARIABLES
    templates,  \* the rows of each table: the request that wrote it, sortOrder, entry
    tp,         \* strategy.tp1Ratio, tp1RMultiple and tp2RMultiple
    todo,       \* the statements each update request has still to run
    edits,      \* update requests so far
    faults      \* faults still to come

config == <<templates, tp, todo, edits>>
Edits == 1..MaxEdits

Insert(t, list, i) == [op |-> "insert", table |-> t, sort |-> i, entry |-> list[i]]
Delete(t) == [op |-> "delete", table |-> t]
Fields(columns) == [op |-> "fields", columns |-> columns]

RowsOf(by, list, n) == {[by |-> by, sort |-> i, entry |-> list[i]] : i \in 1..n}

\* Seeded or created: the base's templates, then the override's, all
\* of them or those written before a failure.
InitConfig ==
    /\ tp \in Columns
    /\ \E list \in Lists, over \in Lists : \E n \in 0..Len(list), m \in 0..Len(over) :
          /\ n < Len(list) => m = 0
          /\ templates = [t \in Tables |-> IF t = "base" THEN RowsOf(0, list, n)
                                           ELSE RowsOf(0, over, m)]
    /\ todo = [n \in Edits |-> <<>>]
    /\ edits = 0
    /\ faults = MaxFaults

Fault == faults > 0 /\ faults' = faults - 1

\* What an update runs after the strategy's own fields: for each list it was
\* given, delete all rows and insert the new ones, one by one.
Statements(given) ==
    LET Replace(t) == IF t \notin DOMAIN given THEN <<>>
                      ELSE <<Delete(t)>> \o [i \in DOMAIN given[t] |-> Insert(t, given[t], i)]
    IN  Replace("base") \o Replace("override")

\* update is called with a dto that gives none, one or both of the lists.
Update(given, columns) ==
    /\ edits < MaxEdits
    /\ edits' = edits + 1
    /\ todo' = [todo EXCEPT ![edits + 1] = <<Fields(columns)>> \o Statements(given)]
    /\ UNCHANGED <<templates, tp, faults>>

\* Request n runs its next statement.
Execute(n) ==
    LET s == Head(todo[n]) IN
    /\ todo[n] # <<>>
    /\ todo' = [todo EXCEPT ![n] = Tail(@)]
    /\ templates' =
          CASE s.op = "insert" -> [templates EXCEPT ![s.table] =
                  @ \cup {[by |-> n, sort |-> s.sort, entry |-> s.entry]}]
            [] s.op = "delete" -> [templates EXCEPT ![s.table] = {}]
            [] OTHER -> templates
    /\ tp' = IF s.op = "fields" THEN s.columns ELSE tp
    /\ UNCHANGED <<edits, faults>>

\* A statement is rejected, and the request with it.
Reject(n) ==
    /\ todo[n] # <<>>
    /\ Fault
    /\ todo' = [todo EXCEPT ![n] = <<>>]
    /\ UNCHANGED <<templates, tp, edits>>

\* The process dies: so do the requests.
Forget ==
    /\ todo' = [n \in Edits |-> <<>>]
    /\ UNCHANGED <<templates, tp, edits>>

\* toEngineConfig and applyTo: the rows in the order of sortOrder, equal ones in
\* any; an override without rows leaves the base's.
InOrder(rows) ==
    {[i \in DOMAIN s |-> s[i].entry] :
        s \in {q \in SetToSeqs(rows) : \A i, j \in DOMAIN q : i < j => q[i].sort <= q[j].sort}}

\* resolveConfigForSymbol reads everything at once: the templates it may find.
Resolved == InOrder(templates[IF templates["override"] # {} THEN "override" ELSE "base"])

ConfigNext ==
    \/ \E given \in UNION {[ts -> Lists] : ts \in SUBSET Tables}, columns \in Columns :
          Update(given, columns)
    \/ \E n \in Edits : Execute(n) \/ Reject(n)

==============================================================================
