---------------------------- MODULE EntityContext ----------------------------
(***************************************************************************)
(* The user table and the one DbContext (HStarContext) all requests of the *)
(* API server share: Program.cs registers it as a singleton.               *)
(*                                                                         *)
(* A context allows one operation at a time; a second one throws.  It      *)
(* tracks the entities it loaded or was given, hands the same instance to  *)
(* every request that loads a row, and SaveChangesAsync writes whatever is *)
(* pending, no matter which request changed it.  What could not be saved   *)
(* stays pending.                                                          *)
(*                                                                         *)
(* Entity Framework and MySQL are not part of the repository; they are     *)
(* modelled as the repository's code uses them.  The schema is not part of *)
(* it either: whether user_id is unique and password may be NULL are       *)
(* parameters.                                                             *)
(***************************************************************************)
EXTENDS Naturals, Sequences, FiniteSets

CONSTANTS
    Request,            \* the HTTP requests
    User,               \* values of user_id
    Password,           \* passwords; of a hash only its password matters
    Null,               \* no value
    Existing,           \* the tables the server may find when it starts
    UniqueUserId,       \* the table refuses a second row of a user
    PasswordRequired    \* the table refuses a NULL password

Row == [user : User, password : Password \cup {Null}, alive : BOOLEAN]

ASSUME EntityContextAssumption ==
    /\ Existing \subseteq Seq(Row)
    /\ UniqueUserId \in BOOLEAN /\ PasswordRequired \in BOOLEAN
    /\ Null \notin Password \cup Request

VARIABLES
    table,      \* the rows; the place of a row is its id
    tracked,    \* the entities of the context: values and state, by id, or by
                \* the request that added them as long as they have no id
    busy,       \* the request whose operation is under way
    saving      \* the values SaveChangesAsync is writing

contextVars == <<table, tracked, busy, saving>>

Entity == [row : Row, state : {"Unchanged", "Modified", "Added"}]

ContextTypeOK ==
    /\ table \in Seq(Row)
    /\ DOMAIN tracked \subseteq DOMAIN table \cup Request
    /\ \A k \in DOMAIN tracked : tracked[k] \in Entity
    /\ busy \in Request \cup {Null}
    /\ DOMAIN saving \subseteq DOMAIN tracked
    /\ \A k \in DOMAIN saving : saving[k] \in Row

Nothing == [k \in {} |-> k]

ContextInit ==
    /\ table \in Existing
    /\ tracked = Nothing
    /\ busy = Null
    /\ saving = Nothing

Extend(f, g) == [k \in DOMAIN f \cup DOMAIN g |-> IF k \in DOMAIN f THEN f[k] ELSE g[k]]

RowsOf(u) == {id \in DOMAIN table : table[id].user = u}

-----------------------------------------------------------------------------
(* Operations of the context; each is begun and ended by request r *)

Begin(r) == busy = Null /\ busy' = r

End(r) == busy = r /\ busy' = Null

\* A query that tracks adds the rows it materialises and the context lacks.
Loaded(ids) ==
    Extend(tracked, [id \in ids |-> [row |-> table[id], state |-> "Unchanged"]])

\* DbSet.Add
Added(r, row) == Extend(tracked, [k \in {r} |-> [row |-> row, state |-> "Added"]])

\* The setters of an entity and DbSet.Update
Updated(id, row) == [tracked EXCEPT ![id] = [row |-> row, state |-> "Modified"]]

Pending == {k \in DOMAIN tracked : tracked[k].state # "Unchanged"}

Captured == [k \in Pending |-> tracked[k].row]

BeginSave(r) ==
    /\ Begin(r)
    /\ saving' = Captured
    /\ UNCHANGED <<table, tracked>>

New == DOMAIN saving \cap Request

\* What the table would be, had the new entities the ids of newId.
Written(newId) ==
    [id \in 1..Len(table) + Cardinality(New) |->
        IF id \in DOMAIN saving THEN saving[id]
        ELSE IF id \in DOMAIN table THEN table[id]
        ELSE saving[CHOOSE r \in New : newId[r] = id]]

Permitted(rows) ==
    /\ UniqueUserId =>
        \A i, j \in DOMAIN rows : rows[i].user = rows[j].user => i = j
    /\ PasswordRequired => \A i \in DOMAIN rows : rows[i].password # Null

\* The context then: what was written, with the values it has by now, counts as
\* unchanged, and the new entities have their ids.
AfterSave(newId) ==
    LET key(k) == IF k \in New THEN newId[k] ELSE k
        entity(k) == IF k \in DOMAIN saving
                       THEN [tracked[k] EXCEPT !.state = "Unchanged"]
                       ELSE tracked[k]
    IN  [id \in {key(k) : k \in DOMAIN tracked} |->
            entity(CHOOSE k \in DOMAIN tracked : key(k) = id)]

\* The statements succeed in one transaction.
SaveSucceeds(r) ==
    \E newId \in [New -> Len(table) + 1 .. Len(table) + Cardinality(New)] :
        /\ \A s, t \in New : newId[s] = newId[t] => s = t
        /\ Permitted(Written(newId))
        /\ End(r)
        /\ table' = Written(newId)
        /\ tracked' = AfterSave(newId)
        /\ saving' = Nothing

\* The database refuses, or is not reached: the operation throws.
Fails(r) ==
    /\ End(r)
    /\ saving' = Nothing
    /\ UNCHANGED <<table, tracked>>
=============================================================================
