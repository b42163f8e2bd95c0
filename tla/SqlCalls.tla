------------------------------ MODULE SqlCalls ------------------------------
(***************************************************************************)
(* pkg/sqlconn and connectors/builtin/mysql, postgres: the tools of one    *)
(* instance over its pool of connections, while the database can hang or   *)
(* break off in the middle of a result and the instance can be shut down.  *)
(* Statements are their kind and the tables after FROM and JOIN; rows are  *)
(* numbered.  External: the database and database/sql.                     *)
(***************************************************************************)
EXTENDS Integers, FiniteSets

CONSTANTS SqlCaller,
          SqlTable, Catalog,  \* tables, and those of information_schema
          RowCaps,            \* max_rows in configurations
          MaxResult,          \* bound: rows of a result
          Off                 \* no instance

ASSUME SqlAssumption == /\ RowCaps \subseteq Int /\ MaxResult \in Nat
                        /\ SqlTable \cap Catalog = {}

VARIABLES
    db,     \* the instance: its policies; Off before Init and when it failed
    closed, \* Shutdown has closed the pool
    conns,  \* the calls that hold a connection
    qcall   \* the call of each client

qvars == <<db, closed, conns, qcall>>

NoSqlCall == [pc |-> "idle", tool |-> "query", rows |-> 0, got |-> 0, failed |-> "no",
              timed |-> FALSE, cut |-> FALSE, ok |-> FALSE]

SqlInit == /\ db = Off /\ closed = FALSE /\ conns = {}
           /\ qcall = [c \in SqlCaller |-> NoSqlCall]

SqlAt(c, pc) == qcall[c].pc = pc
SqlGoes(c, r) == qcall' = [qcall EXCEPT ![c] = r]

-----------------------------------------------------------------------------
(* Wrong variants of some definitions below, each a bug the code could have. *)

SucceedsAny(call) == TRUE \* rows.Err is not asked for
QueryDeadlineNot(c) == SqlAt(c, "deadline") /\ UNCHANGED qvars

-----------------------------------------------------------------------------
(* Init: sqlconn.Open, which pings *)

RowCap(n) == IF n < 0 THEN 0 ELSE n

InitSql == /\ db = Off
           /\ \E n \in RowCaps, readOnly, timeout \in BOOLEAN, allow \in SUBSET SqlTable :
                 db' = [max |-> RowCap(n), readOnly |-> readOnly, timeout |-> timeout,
                        allow |-> allow]
           /\ closed' = FALSE
           /\ UNCHANGED <<conns, qcall>>

\* Shutdown: running statements go on, new ones are refused.
CloseSql == /\ db # Off /\ ~closed
            /\ closed' = TRUE
            /\ UNCHANGED <<db, conns, qcall>>

-----------------------------------------------------------------------------
(* Query *)

\* What Query lets pass: of readOnly, and of the tables it finds in the text.
Permitted(kind, tables) ==
    /\ db.readOnly => kind \in {"select", "show", "explain"}
    /\ db.allow # {} => tables \subseteq db.allow

Starts(c, tool, timed) ==
    /\ db # Off /\ ~closed /\ SqlAt(c, "idle")
    /\ conns' = conns \cup {c}
    /\ \E n \in 0 .. MaxResult :
          SqlGoes(c, [NoSqlCall EXCEPT !.pc = "rows", !.tool = tool, !.rows = n,
                                       !.timed = timed])
    /\ UNCHANGED <<db, closed>>

SqlQuery(c) == \E kind \in {"select", "show", "explain", "other"},
                  tables \in SUBSET SqlTable :
                  /\ db # Off /\ Permitted(kind, tables)
                  /\ Starts(c, "query", db.timeout)

\* describe_table goes through Query too, and so the allow-list must have the
\* catalog's own table.
Describe(c) == /\ db # Off /\ Permitted("select", Catalog)
               /\ Starts(c, "query", db.timeout)

\* list_tables, list_databases and list_schemas go past Query: no policy, no
\* timeout and no cap.
ListNames(c) == Starts(c, "list", FALSE)

-----------------------------------------------------------------------------
(* The result, row by row *)

\* Before a row is read: the cap is reached.
CapReached(call) == db.max > 0 /\ call.got >= db.max

NextRow(c) ==
    LET call == qcall[c]
    IN  /\ SqlAt(c, "rows") /\ call.got < call.rows
        /\ SqlGoes(c, IF call.tool = "query" /\ CapReached(call)
                      THEN [call EXCEPT !.pc = "end", !.cut = TRUE]
                      ELSE [call EXCEPT !.got = @ + 1])
        /\ UNCHANGED <<db, closed, conns>>

NoMoreRows(c) == /\ SqlAt(c, "rows") /\ qcall[c].got = qcall[c].rows
                 /\ SqlGoes(c, [qcall[c] EXCEPT !.pc = "end"])
                 /\ UNCHANGED <<db, closed, conns>>

\* The connection breaks off, or the client is gone: the statement or the scan
\* of a row is told, or there just are no more rows and only rows.Err knows.
SqlFails(c) == /\ SqlAt(c, "rows")
               /\ \E to \in {"call", "rows"} :
                     SqlGoes(c, [qcall[c] EXCEPT !.pc = "end", !.failed = to])
               /\ UNCHANGED <<db, closed, conns>>

QueryDeadline(c) == /\ SqlAt(c, "rows") /\ qcall[c].timed
                    /\ SqlGoes(c, [qcall[c] EXCEPT !.pc = "end", !.failed = "rows"])
                    /\ UNCHANGED <<db, closed, conns>>

\* The list tools do not ask rows.Err.
Succeeds(call) == call.failed = "no" \/ (call.failed = "rows" /\ call.tool = "list")

\* The deferred rows.Close.
Released(c) == conns \ {c}

SqlAnswer(c) == /\ SqlAt(c, "end")
                /\ conns' = Released(c)
                /\ SqlGoes(c, [qcall[c] EXCEPT !.pc = "answered", !.ok = Succeeds(qcall[c])])
                /\ UNCHANGED <<db, closed>>

SqlLeave(c) == /\ SqlAt(c, "answered")
               /\ SqlGoes(c, NoSqlCall)
               /\ UNCHANGED <<db, closed, conns>>

SqlCallStep(c) == QueryDeadline(c) \/ SqlAnswer(c) \/ SqlLeave(c)

SqlNext == \/ InitSql \/ CloseSql
           \/ \E c \in SqlCaller : \/ SqlQuery(c) \/ Describe(c) \/ ListNames(c)
                                   \/ NextRow(c) \/ NoMoreRows(c) \/ SqlFails(c)
                                   \/ SqlCallStep(c)

\* A deadline comes; the database may hang.
SqlFairSpec == /\ SqlInit /\ [][SqlNext]_qvars
               /\ \A c \in SqlCaller : WF_qvars(SqlCallStep(c))

-----------------------------------------------------------------------------
SqlTypeOK == /\ db # Off => db.max \in Nat /\ db.allow \subseteq SqlTable
             /\ closed \in BOOLEAN
             /\ conns = {c \in SqlCaller : qcall[c].pc \in {"rows", "end"}}
             /\ \A c \in SqlCaller : qcall[c].got \in 0 .. qcall[c].rows

\* A result of Query without an error is whole, or marked as truncated, at the
\* cap, and then there was more: a timeout or a broken connection in the middle
\* never makes a short result look like a whole one.  Except for the lists of
\* tables, databases and schemas: what the connection breaks off is answered as
\* the whole list, since they do not ask rows.Err.
ResultIsWhole ==
    \A c \in SqlCaller :
       LET call == qcall[c]
       IN  SqlAt(c, "answered") /\ call.ok /\ call.tool = "query" =>
              IF call.cut THEN call.got = db.max /\ call.got < call.rows
                          ELSE call.got = call.rows

\* "StatementTimeout bounds the time a single statement may run": also when the
\* database hangs.  The lists run without it.
QueryEnds == \A c \in SqlCaller : SqlAt(c, "rows") /\ qcall[c].timed ~> SqlAt(c, "idle")
=============================================================================
