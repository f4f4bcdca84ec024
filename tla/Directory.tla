------------------------------ MODULE Directory ------------------------------
(***************************************************************************)
(* The master data of the shops: catalog (app/catalog), customers          *)
(* (app/customer), businesses (app/business) and users (app/auth).  The    *)
(* four services follow one pattern: load, check references and unique     *)
(* keys with plain SELECTs, flush and commit the session's object; the     *)
(* unique indexes decide what the checks could not see.                    *)
(*                                                                         *)
(* One step is one SELECT, or the single INSERT or UPDATE with its COMMIT: *)
(* no transaction writes twice, except registration, which takes one       *)
(* unique key only, so that no transaction is ever seen half way and none  *)
(* waits for a lock it could not get.                                      *)
(***************************************************************************)

CONSTANTS
    OldRows,       \* ids of the rows that are there at the start
    DirRequests,   \* requests; the row a request inserts has its name as id
    Names,         \* values of unique keys
    Labels,        \* values of other columns
    Null

ASSUME DirectoryAssumption ==
    /\ OldRows \cap DirRequests = {}
    /\ Null \notin OldRows \cup DirRequests \cup Names \cup Labels

Ids == OldRows \cup DirRequests

Table == {"category", "product", "image", "customer", "address", "user", "business"}

(* The table a row's reference leads to.                                   *)
Parent == [product |-> "category", image |-> "product", address |-> "customer"]

(* key: category name, SKU, phone, email or WhatsApp number; ref: see      *)
(* Parent; label: any other column a client may change.                    *)
Column == {"state", "biz", "key", "ref", "label"}

Row == [state : {"absent", "live", "deleted"},
        biz   : Ids \cup {Null},
        key   : Names \cup {Null},
        ref   : Ids \cup {Null},
        label : Labels \cup {Null}]

NoRow == [state |-> "absent", biz |-> Null, key |-> Null, ref |-> Null, label |-> Null]

VARIABLES
    db,        \* committed rows: db[table][id]
    objects,   \* image objects in the object storage, named like their rows
    dir        \* state of every request

dirVars == <<db, objects, dir>>

DirEnded == {"done", "failed", "crashed"}

DirState ==
    [pc    : {"new", "parent", "key", "put", "write", "register"} \cup DirEnded,
     table : Table,
     id    : Ids,
     asked : SUBSET {"key", "ref", "label"},   \* columns the client named
     copy  : Row,        \* the session's object as it was loaded
     row   : Row]        \* the session's object as it will be flushed

DirTypeOK ==
    /\ db \in [Table -> [Ids -> Row]]
    /\ objects \subseteq Ids
    /\ dir \in [DirRequests -> DirState]

-----------------------------------------------------------------------------
Stored(t, i) == i \in Ids /\ db[t][i].state # "absent"

Live(t, i) == i \in Ids /\ db[t][i].state = "live"

(* Fault: the row is found whatever business it belongs to.                *)
VisibleToAll(t, b, i) == Live(t, i)

(* Every get is scoped by the principal's business and skips what is       *)
(* soft-deleted.                                                           *)
Visible(t, b, i) == Live(t, i) /\ db[t][i].biz = b

(* Emails and WhatsApp numbers are unique over all businesses, the other   *)
(* keys within one.                                                        *)
SameScope(t, b, c) == t \in {"user", "business"} \/ b = c

KeyTaken(t, b, k, i) ==
    /\ k # Null
    /\ \E j \in Ids \ {i} : Live(t, j) /\ SameScope(t, b, db[t][j].biz) /\ db[t][j].key = k

(* Whoever calls is a user of the business he acts for.                    *)
Principal(b) == \E u \in Ids : Visible("user", b, u)

Shops == {b \in Ids : Principal(b)}

-----------------------------------------------------------------------------
(* The invariants of the data; the first state has them.                   *)

(* No two live rows of one scope have the same key, however many creations *)
(* and updates passed the check for it at the same time.                   *)
OneLiveRowPerKey ==
    \A t \in Table :
        LET keyed == {i \in Ids : Live(t, i) /\ db[t][i].key # Null} IN
        \A i, j \in keyed :
            db[t][i].key = db[t][j].key /\ SameScope(t, db[t][i].biz, db[t][j].biz)
            => i = j

(* No reference dangles or leads into another business, although it was    *)
(* checked some steps before the row was written; every row belongs to a   *)
(* business that is there, and an image row has its object.                *)
ReferencesResolve ==
    /\ \A t \in Table : \A i \in Ids : Stored(t, i) => Stored("business", db[t][i].biz)
    /\ \A t \in DOMAIN Parent : \A i \in Ids :
        Stored(t, i) /\ db[t][i].ref # Null =>
            /\ Stored(Parent[t], db[t][i].ref)
            /\ db[Parent[t]][db[t][i].ref].biz = db[t][i].biz
    /\ \A i \in Ids : Stored("image", i) => i \in objects

(* Registration is atomic: no business is left without a user, whichever   *)
(* of two registrations with one email comes second or dies.               *)
EveryBusinessHasOwner ==
    \A b \in Ids : Stored("business", b) => Principal(b)

DirInit ==
    /\ db \in [Table -> [Ids -> Row]]
    /\ \A t \in Table, r \in DirRequests : db[t][r] = NoRow
    /\ objects \subseteq OldRows
    /\ OneLiveRowPerKey /\ ReferencesResolve /\ EveryBusinessHasOwner
    /\ \E i \in Ids :
        dir = [r \in DirRequests |->
                 [pc |-> "new", table |-> "business", id |-> i, asked |-> {},
                  copy |-> NoRow, row |-> NoRow]]

-----------------------------------------------------------------------------
(* The session is closed when the request ends.                            *)
DirGoto(r, label) ==
    dir' = [dir EXCEPT ![r] =
      IF label \in DirEnded
      THEN [@ EXCEPT !.pc = label, !.asked = {}, !.copy = NoRow, !.row = NoRow]
      ELSE [@ EXCEPT !.pc = label]]

(* The checks of a service, in its order; a check that a call does not     *)
(* need is no step.                                                        *)
AfterKey(t) == IF t = "image" THEN "put" ELSE "write"

AfterParent(t, asked) == IF "key" \in asked THEN "key" ELSE AfterKey(t)

FirstCheck(t, asked, ref) ==
    IF "ref" \in asked /\ ref # Null THEN "parent" ELSE AfterParent(t, asked)

(* A creation: of the row with the request's own name, for business b.     *)
BeginInsert(r, t, b, columns, k, f, l) ==
    /\ dir[r].pc = "new"
    /\ dir' = [dir EXCEPT ![r] =
         [pc |-> FirstCheck(t, columns, f), table |-> t, id |-> r, asked |-> columns,
          copy |-> NoRow,
          row |-> [state |-> "live", biz |-> b, key |-> k, ref |-> f, label |-> l]]]
    /\ UNCHANGED <<db, objects>>

CreateCategory(r, b) ==
    \E k \in Names : BeginInsert(r, "category", b, {"key"}, k, Null, Null)

CreateProduct(r, b) ==
    \E k \in Names, f \in Ids \cup {Null}, l \in Labels :
        BeginInsert(r, "product", b, {"key", "ref", "label"}, k, f, l)

AddProductImage(r, b) ==
    \E f \in Ids, l \in Labels : BeginInsert(r, "image", b, {"ref", "label"}, Null, f, l)

CreateCustomer(r, b) ==
    \E k \in Names, l \in Labels :
        BeginInsert(r, "customer", b, {"key", "label"}, k, Null, l)

AddAddress(r, b) ==
    \E f \in Ids, l \in Labels : BeginInsert(r, "address", b, {"ref", "label"}, Null, f, l)

CreateUser(r, b) ==
    \E k \in Names, l \in Labels : BeginInsert(r, "user", b, {"key", "label"}, k, Null, l)

(* A change of the columns the client names.  What it names gets a value,  *)
(* only the category may be null.                                          *)
BeginUpdate(r, t, i, columns) ==
    /\ dir[r].pc = "new"
    /\ \E k \in Names, f \in Ids \cup {Null}, l \in Labels :
        dir' = [dir EXCEPT ![r] =
          [pc |-> FirstCheck(t, columns, f), table |-> t, id |-> i, asked |-> columns,
           copy |-> db[t][i],
           row |-> [db[t][i] EXCEPT !.key = IF "key" \in columns THEN k ELSE @,
                                    !.ref = IF "ref" \in columns THEN f ELSE @,
                                    !.label = IF "label" \in columns THEN l ELSE @]]]
    /\ UNCHANGED <<db, objects>>

UpdateProduct(r, b) ==
    \E i \in Ids, columns \in SUBSET {"key", "ref", "label"} :
        Visible("product", b, i) /\ BeginUpdate(r, "product", i, columns)

UpdateCustomer(r, b) ==
    \E i \in Ids, columns \in SUBSET {"key", "label"} :
        Visible("customer", b, i) /\ BeginUpdate(r, "customer", i, columns)

(* update_profile, update_payment_preference and set_pin.                  *)
UpdateBusiness(r, b) == BeginUpdate(r, "business", b, {"label"})

LinkWhatsapp(r, b) == BeginUpdate(r, "business", b, {"key"})

BeginDelete(r, t, i) ==
    /\ dir[r].pc = "new"
    /\ dir' = [dir EXCEPT ![r] =
         [pc |-> "write", table |-> t, id |-> i, asked |-> {}, copy |-> db[t][i],
          row |-> [db[t][i] EXCEPT !.state = "deleted"]]]
    /\ UNCHANGED <<db, objects>>

SoftDeleteProduct(r, b) ==
    \E i \in Ids : Visible("product", b, i) /\ BeginDelete(r, "product", i)

SoftDeleteCustomer(r, b) ==
    \E i \in Ids : Visible("customer", b, i) /\ BeginDelete(r, "customer", i)

(* What is not there for the principal's business is not found; a wrong    *)
(* role, PIN or payload is refused as early.                               *)
RefuseDir(r) ==
    /\ dir[r].pc = "new"
    /\ DirGoto(r, "failed")
    /\ UNCHANGED <<db, objects>>

(* _validate_category_ownership, or the get of the product or customer.    *)
CheckParent(r) ==
    LET q == dir[r] IN
    /\ q.pc = "parent"
    /\ DirGoto(r, IF Visible(Parent[q.table], q.row.biz, q.row.ref)
                  THEN AfterParent(q.table, q.asked) ELSE "failed")
    /\ UNCHANGED <<db, objects>>

(* exists_by_name, active_sku_exists, active_phone_exists, email_exists;   *)
(* link_whatsapp looks at all businesses, unless the number it loaded is   *)
(* the one it is to set.                                                   *)
KeyRefused(q) ==
    IF q.table = "business"
    THEN q.copy.key # q.row.key /\ KeyTaken("business", q.id, q.row.key, Null)
    ELSE KeyTaken(q.table, q.row.biz, q.row.key, q.id)

CheckKey(r) ==
    /\ dir[r].pc = "key"
    /\ DirGoto(r, IF KeyRefused(dir[r]) THEN "failed" ELSE AfterKey(dir[r].table))
    /\ UNCHANGED <<db, objects>>

(* The object is stored before the row that names it; an error ends the    *)
(* request.                                                                *)
PutObject(r) ==
    /\ dir[r].pc = "put"
    /\ objects' = objects \cup {r}
    /\ DirGoto(r, "write")
    /\ UNCHANGED db

PutFails(r) ==
    /\ dir[r].pc = "put"
    /\ DirGoto(r, "failed")
    /\ UNCHANGED <<db, objects>>

(* Fault: the whole object is written.                                     *)
FlushedWhole(q, now) == q.row

(* An UPDATE sets the columns that differ from the loaded ones.            *)
Flushed(q, now) ==
    [c \in Column |-> IF q.row[c] = q.copy[c] THEN now[c] ELSE q.row[c]]

(* Fault: there is no unique index.                                        *)
NoIndex(t, new, i) == FALSE

(* The unique index refuses the row.                                       *)
IndexRefuses(t, new, i) == new.state = "live" /\ KeyTaken(t, new.biz, new.key, i)

(* Flush and COMMIT; an IntegrityError rolls back.                         *)
WriteRow(r) ==
    LET q   == dir[r]
        new == Flushed(q, db[q.table][q.id])
    IN
    /\ q.pc = "write"
    /\ IF IndexRefuses(q.table, new, q.id)
       THEN DirGoto(r, "failed") /\ UNCHANGED db
       ELSE DirGoto(r, "done") /\ db' = [db EXCEPT ![q.table][q.id] = new]
    /\ UNCHANGED objects

-----------------------------------------------------------------------------
(* register: the email is looked for ...                                   *)
BeginRegister(r, k, l) ==
    /\ dir[r].pc = "new"
    /\ dir' = [dir EXCEPT ![r] =
         [pc |-> IF KeyTaken("user", Null, k, Null) THEN "failed" ELSE "register",
          table |-> "user", id |-> r, asked |-> {}, copy |-> NoRow,
          row |-> [state |-> "live", biz |-> r, key |-> k, ref |-> Null, label |-> l]]]
    /\ UNCHANGED <<db, objects>>

(* Fault: the business is committed before its owner.                      *)
RegisterBusinessFirst(r) ==
    LET q == dir[r] IN
    /\ q.pc = "register"
    /\ db' = [db EXCEPT
         !["business"][r] = [q.row EXCEPT !.key = Null],
         !["user"][r] = IF KeyTaken("user", r, q.row.key, r) THEN @ ELSE q.row]
    /\ DirGoto(r, "done")
    /\ UNCHANGED objects

(* ... and business and owner are inserted by one COMMIT, or neither.      *)
Register(r) ==
    LET q == dir[r] IN
    /\ q.pc = "register"
    /\ IF KeyTaken("user", r, q.row.key, r)
       THEN DirGoto(r, "failed") /\ UNCHANGED db
       ELSE /\ DirGoto(r, "done")
            /\ db' = [db EXCEPT !["business"][r] = [q.row EXCEPT !.key = Null],
                                !["user"][r] = q.row]
    /\ UNCHANGED objects

(* The process dies; what is not committed is rolled back, a stored object *)
(* stays.                                                                  *)
CrashDir(r) ==
    /\ dir[r].pc \notin DirEnded \cup {"new"}
    /\ DirGoto(r, "crashed")
    /\ UNCHANGED <<db, objects>>

-----------------------------------------------------------------------------
CatalogCall(r, b) ==
    \/ CreateCategory(r, b) \/ CreateProduct(r, b) \/ AddProductImage(r, b)
    \/ UpdateProduct(r, b) \/ SoftDeleteProduct(r, b)

CustomerCall(r, b) ==
    CreateCustomer(r, b) \/ UpdateCustomer(r, b) \/ SoftDeleteCustomer(r, b) \/ AddAddress(r, b)

OwnerCall(r, b) == UpdateBusiness(r, b) \/ LinkWhatsapp(r, b) \/ CreateUser(r, b)

BeginDir(r) ==
    \/ \E b \in Shops : CatalogCall(r, b) \/ CustomerCall(r, b) \/ OwnerCall(r, b)
    \/ \E k \in Names, l \in Labels : BeginRegister(r, k, l)
    \/ RefuseDir(r)

ContinueDir(r) ==
    \/ CheckParent(r) \/ CheckKey(r) \/ PutObject(r) \/ PutFails(r)
    \/ WriteRow(r) \/ Register(r)

DirNext == \E r \in DirRequests : BeginDir(r) \/ ContinueDir(r) \/ CrashDir(r)

DirSpec == DirInit /\ [][DirNext]_dirVars

-----------------------------------------------------------------------------
(* What is soft-deleted stays so, keeps its place in history and is never  *)
(* brought back by an update that loaded it before; no row is ever removed *)
(* or moves to another business.                                           *)
DeletedStaysDeleted ==
    [][\A t \in Table, i \in Ids :
         Stored(t, i) =>
            /\ Stored(t, i)'
            /\ ~Live(t, i) => ~Live(t, i)'
            /\ db[t][i].biz = db'[t][i].biz]_dirVars
=============================================================================
