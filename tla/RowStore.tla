------------------------------ MODULE RowStore ------------------------------
(***************************************************************************)
(* The transactional store behind the request handlers: the tables of one   *)
(* PostgreSQL database at READ COMMITTED, used through one AsyncSession per *)
(* request (src/core/database.py).  A transaction is named by the request   *)
(* that runs it.                                                            *)
(*                                                                          *)
(* Every row has a committed version (db) and a newest version (work).  The *)
(* two differ only while a transaction that wrote the row is open, and that *)
(* transaction then holds the row's lock, which it keeps until it ends.  A  *)
(* row that does not exist has the value None; an inserted row is invisible *)
(* to the other transactions until its transaction commits.                 *)
(***************************************************************************)
CONSTANTS Rows,     \* primary keys of all the tables the handlers use
          Reqs,     \* requests, each with a session and so a transaction
          None      \* no row, no lock holder

VARIABLES db,       \* committed version of every row
          work,     \* newest version of every row, committed or not
          lock      \* the transaction that holds the row lock, or None

\* A statement of r that writes or locks row o does not have to wait.
Free(r, o) == lock[o] \in {None, r}

\* What a plain SELECT of r returns for row o: r's own write, else the
\* version last committed.
Visible(r, o) == IF lock[o] = r THEN work[o] ELSE db[o]

\* INSERT, UPDATE or SELECT ... FOR UPDATE of one row by r: takes the row lock
\* and leaves v as the newest version.
Write(r, o, v) ==
    /\ Free(r, o)
    /\ lock' = [lock EXCEPT ![o] = r]
    /\ work' = [work EXCEPT ![o] = v]
    /\ db' = db

\* SELECT ... FOR UPDATE: the lock, and no new version.
LockRow(r, o) ==
    /\ Free(r, o)
    /\ lock' = [lock EXCEPT ![o] = r]
    /\ UNCHANGED <<db, work>>

Released(r) == [o \in Rows |-> IF lock[o] = r THEN None ELSE lock[o]]

\* session.commit(): the writes of r become the committed versions.
Commit(r) ==
    /\ db' = [o \in Rows |-> IF lock[o] = r THEN work[o] ELSE db[o]]
    /\ lock' = Released(r)
    /\ work' = work

\* session.rollback(), or the end of a connection with an open transaction.
Rollback(r) ==
    /\ work' = [o \in Rows |-> IF lock[o] = r THEN db[o] ELSE work[o]]
    /\ lock' = Released(r)
    /\ db' = db

=============================================================================
