-------------------------- MODULE Directory_proofs --------------------------
(***************************************************************************)
(* Proofs about the master data, for any number of rows and requests.      *)
(* Nothing is locked: what a check saw may have changed when the row is    *)
(* written.  The invariants hold because the changes between the two go    *)
(* one way: no row is removed or changes its business, only the request    *)
(* that inserts a row writes under that row's id, and a key is decided by  *)
(* the index in the step that writes.                                      *)
(***************************************************************************)
EXTENDS Directory, TLAPS

(* What a request looks like when it has ended.                            *)
LEMMA EndedState ==
    ASSUME NEW q \in DirState, NEW l \in DirEnded, NEW n \in Row
    PROVE  /\ [q EXCEPT !.pc = l, !.asked = {}, !.copy = n, !.row = n] \in DirState
           /\ [q EXCEPT !.pc = l, !.asked = {}, !.copy = n, !.row = n].pc = l
BY DEF DirState

USE DirectoryAssumption DEF Ids

Unended == {"new", "parent", "key", "put", "write", "register"}

Running == {"parent", "key", "put", "write", "register"}

(* The session's object of a creation ...                                  *)
Inserts(q, r) ==
    /\ q.id = r /\ q.copy = NoRow /\ q.row.state = "live"
    /\ IF q.pc = "register"
       THEN q.table = "user" /\ q.row.biz = r
       ELSE q.table # "business" /\ Stored("business", q.row.biz)

(* ... and of a change.                                                    *)
Changes(q) ==
    /\ q.pc # "register"
    /\ q.table \in {"product", "customer", "business"}
    /\ Stored(q.table, q.id)
    /\ q.copy.biz = db[q.table][q.id].biz /\ q.row.biz = db[q.table][q.id].biz
    /\ q.copy.state # "absent"
    /\ q.row.state \in {q.copy.state, "deleted"}

(* A reference that the request sets was found for its business.           *)
RefFound(q) ==
    /\ q.row.ref \notin {Null, q.copy.ref} =>
         /\ q.table \in DOMAIN Parent /\ q.row.ref \in Ids
         /\ q.pc # "parent" => /\ Stored(Parent[q.table], q.row.ref)
                               /\ db[Parent[q.table]][q.row.ref].biz = q.row.biz
    /\ q.pc = "parent" => q.table \in DOMAIN Parent /\ q.row.ref \in Ids
    /\ q.row.ref = Null => q.pc # "parent"

CallOK(r) ==
    /\ dir[r].pc \in Unended => \A t \in Table : db[t][r] = NoRow
    /\ dir[r].pc \in Running =>
         /\ Inserts(dir[r], r) \/ Changes(dir[r])
         /\ RefFound(dir[r])
         /\ dir[r].pc = "write" /\ dir[r].table = "image" => r \in objects

Sound ==
    OneLiveRowPerKey /\ ReferencesResolve /\ EveryBusinessHasOwner

DirInv ==
    /\ DirTypeOK
    /\ Sound
    /\ \A r \in DirRequests : CallOK(r)

(* What rows may do.                                                       *)
RowsKept ==
    \A t \in Table, i \in Ids :
        Stored(t, i) =>
            /\ db'[t][i].state # "absent"
            /\ db[t][i].biz = db'[t][i].biz
            /\ db[t][i].state # "live" => db'[t][i].state # "live"
            /\ t = "user" => db'[t][i].state = db[t][i].state

LEMMA RowTypes ==
    /\ NoRow \in Row
    /\ DOMAIN Parent = {"product", "image", "address"}
    /\ Parent["product"] = "category" /\ Parent["image"] = "product"
    /\ Parent["address"] = "customer"
    /\ \A t \in DOMAIN Parent : t \in Table /\ Parent[t] \in Table
BY DEF Row, NoRow, Parent, Table

LEMMA InitDirectory == DirInit => DirInv
<1> SUFFICES ASSUME DirInit
             PROVE  DirInv
  OBVIOUS
<1>0. PICK i \in Ids :
        dir = [r \in DirRequests |->
                 [pc |-> "new", table |-> "business", id |-> i, asked |-> {},
                  copy |-> NoRow, row |-> NoRow]]
  BY DEF DirInit
<1>1. dir \in [DirRequests -> DirState]
  BY <1>0, RowTypes DEF DirState, Table
<1>2. \A r \in DirRequests : CallOK(r)
  BY <1>0 DEF DirInit, CallOK, Running
<1> QED
  BY <1>1, <1>2 DEF DirInit, DirInv, DirTypeOK, Sound

-----------------------------------------------------------------------------
(* A step of request r that writes its own state only, or an object.       *)
OwnDirStep(r) ==
    /\ db' = db
    /\ objects' \in SUBSET Ids /\ objects \subseteq objects'
    /\ dir' \in [DirRequests -> DirState]
    /\ \A q \in DirRequests \ {r} : dir'[q] = dir[q]
    /\ CallOK(r)'

LEMMA OwnDirStepKeeps ==
    ASSUME DirInv, NEW r \in DirRequests, OwnDirStep(r)
    PROVE  DirInv' /\ RowsKept
<1>1. DirTypeOK'
  BY DEF DirInv, DirTypeOK, OwnDirStep
<1>2. OneLiveRowPerKey'
  BY DEF DirInv, Sound, OwnDirStep, OneLiveRowPerKey, Live
<1>3. ReferencesResolve'
  BY DEF DirInv, Sound, OwnDirStep, ReferencesResolve, Stored
<1>4. EveryBusinessHasOwner'
  BY DEF DirInv, Sound, OwnDirStep, EveryBusinessHasOwner, Principal, Visible, Live, Stored
<1>5. ASSUME NEW q \in DirRequests, q # r
      PROVE  CallOK(q)'
  BY <1>5 DEF DirInv, OwnDirStep, CallOK, Inserts, Changes, RefFound, Stored
<1>6. RowsKept
  BY DEF OwnDirStep, RowsKept, Stored
<1>7. \A q \in DirRequests : CallOK(q)'
  BY <1>5 DEF OwnDirStep
<1> QED
  BY <1>1, <1>2, <1>3, <1>4, <1>6, <1>7 DEF DirInv, Sound


(* The first check of a call leaves nothing unchecked behind.              *)
LEMMA FirstChecks ==
    ASSUME NEW t \in Table, NEW asked, NEW ref
    PROVE  /\ AfterKey(t) \in {"put", "write"}
           /\ AfterKey(t) = "write" => t # "image"
           /\ AfterParent(t, asked) \in {"key", "put", "write"}
           /\ AfterParent(t, asked) = "write" => t # "image"
           /\ FirstCheck(t, asked, ref) \in {"parent", "key", "put", "write"}
           /\ FirstCheck(t, asked, ref) = "write" => t # "image"
           /\ FirstCheck(t, asked, ref) = "parent" <=> ("ref" \in asked /\ ref # Null)
  BY DEF AfterKey, AfterParent, FirstCheck

LEMMA ShopsAreStored ==
    ASSUME DirInv, NEW b \in Shops
    PROVE  b \in Ids /\ Stored("business", b)
<1>1. PICK u \in Ids : Visible("user", b, u)
  BY DEF Shops, Principal
<1>2. Stored("user", u) /\ db["user"][u].biz = b
  BY <1>1 DEF Visible, Live, Stored
<1> QED
  BY <1>2 DEF DirInv, Sound, ReferencesResolve, Table, Stored, Shops

LEMMA BeginInsertKeeps ==
    ASSUME DirInv, NEW r \in DirRequests, NEW t \in Table, t # "business",
           NEW b \in Shops, NEW columns \in SUBSET {"key", "ref", "label"},
           NEW k \in Names \cup {Null}, NEW f \in Ids \cup {Null},
           NEW l \in Labels \cup {Null},
           f # Null => "ref" \in columns /\ t \in DOMAIN Parent,
           BeginInsert(r, t, b, columns, k, f, l)
    PROVE  DirInv' /\ RowsKept
<1>0. b \in Ids /\ Stored("business", b)
  BY ShopsAreStored
<1> DEFINE row == [state |-> "live", biz |-> b, key |-> k, ref |-> f, label |-> l]
           first == FirstCheck(t, columns, f)
<1>1. row \in Row
  BY <1>0 DEF Row
<1>2. /\ first \in {"parent", "key", "put", "write"}
      /\ first = "write" => t # "image"
      /\ first = "parent" <=> ("ref" \in columns /\ f # Null)
  BY FirstChecks
<1>3. /\ dir' = [dir EXCEPT ![r] = [pc |-> first, table |-> t, id |-> r, asked |-> columns,
                                   copy |-> NoRow, row |-> row]]
      /\ UNCHANGED <<db, objects>>
      /\ \A u \in Table : db[u][r] = NoRow
  BY DEF BeginInsert, DirInv, CallOK, Unended
<1>4. dir' \in [DirRequests -> DirState]
  BY <1>1, <1>2, <1>3, RowTypes DEF DirInv, DirTypeOK, DirState
<1>5. dir'[r] = [pc |-> first, table |-> t, id |-> r, asked |-> columns,
                copy |-> NoRow, row |-> row]
  BY <1>3 DEF DirInv, DirTypeOK
<1> HIDE DEF first
<1>6. Inserts(dir[r], r)'
  BY <1>0, <1>2, <1>3, <1>5 DEF Inserts, Stored
<1>7. RefFound(dir[r])'
  BY <1>0, <1>2, <1>3, <1>5 DEF RefFound, NoRow
<1>8. CallOK(r)'
  BY <1>2, <1>3, <1>5, <1>6, <1>7 DEF CallOK
<1>9. objects' \in SUBSET Ids
  BY <1>3 DEF DirInv, DirTypeOK
<1> QED
  BY <1>3, <1>4, <1>8, <1>9, OwnDirStepKeeps DEF OwnDirStep

LEMMA BeginUpdateKeeps ==
    ASSUME DirInv, NEW r \in DirRequests, NEW t \in {"product", "customer", "business"},
           NEW i \in Ids, Stored(t, i), NEW columns \in SUBSET {"key", "ref", "label"},
           "ref" \in columns => t = "product",
           BeginUpdate(r, t, i, columns)
    PROVE  DirInv' /\ RowsKept
<1>0. PICK k \in Names, f \in Ids \cup {Null}, l \in Labels :
        dir' = [dir EXCEPT ![r] =
          [pc |-> FirstCheck(t, columns, f), table |-> t, id |-> i, asked |-> columns,
           copy |-> db[t][i],
           row |-> [db[t][i] EXCEPT !.key = IF "key" \in columns THEN k ELSE @,
                                    !.ref = IF "ref" \in columns THEN f ELSE @,
                                    !.label = IF "label" \in columns THEN l ELSE @]]]
  BY DEF BeginUpdate
<1> DEFINE row == [db[t][i] EXCEPT !.key = IF "key" \in columns THEN k ELSE @,
                                   !.ref = IF "ref" \in columns THEN f ELSE @,
                                   !.label = IF "label" \in columns THEN l ELSE @]
           first == FirstCheck(t, columns, f)
<1>1. t \in Table /\ db[t][i] \in Row
  BY DEF DirInv, DirTypeOK, Table
<1>2. /\ row \in Row
      /\ row.biz = db[t][i].biz /\ row.state = db[t][i].state
      /\ row.ref = IF "ref" \in columns THEN f ELSE db[t][i].ref
  BY <1>1 DEF Row
<1>3. /\ first \in {"parent", "key", "put", "write"}
      /\ first = "parent" <=> ("ref" \in columns /\ f # Null)
  BY <1>1, FirstChecks
<1>4. /\ UNCHANGED <<db, objects>>
      /\ \A u \in Table : db[u][r] = NoRow
  BY DEF BeginUpdate, DirInv, CallOK, Unended
<1> HIDE DEF first, row
<1>5. dir' = [dir EXCEPT ![r] = [pc |-> first, table |-> t, id |-> i, asked |-> columns,
                                 copy |-> db[t][i], row |-> row]]
  BY <1>0 DEF first, row
<1>6. dir' \in [DirRequests -> DirState]
  BY <1>1, <1>2, <1>3, <1>5 DEF DirInv, DirTypeOK, DirState
<1>7. dir'[r] = [pc |-> first, table |-> t, id |-> i, asked |-> columns,
                 copy |-> db[t][i], row |-> row]
  BY <1>5 DEF DirInv, DirTypeOK
<1>8. Changes(dir[r])'
  BY <1>2, <1>3, <1>4, <1>7 DEF Changes, Stored
<1>9. RefFound(dir[r])'
  <2>1. t \in DOMAIN Parent \/ "ref" \notin columns
    BY RowTypes
  <2> QED
    BY <1>2, <1>3, <1>4, <1>7, <2>1 DEF RefFound
<1>10. CallOK(r)'
  BY <1>3, <1>4, <1>7, <1>8, <1>9 DEF CallOK
<1>11. objects' \in SUBSET Ids
  BY <1>4 DEF DirInv, DirTypeOK
<1>12. \A q \in DirRequests \ {r} : dir'[q] = dir[q]
  BY <1>5 DEF DirInv, DirTypeOK
<1> QED
  BY <1>4, <1>6, <1>10, <1>11, <1>12, OwnDirStepKeeps DEF OwnDirStep

LEMMA BeginDeleteKeeps ==
    ASSUME DirInv, NEW r \in DirRequests, NEW t \in {"product", "customer"},
           NEW i \in Ids, Stored(t, i), BeginDelete(r, t, i)
    PROVE  DirInv' /\ RowsKept
<1> DEFINE row == [db[t][i] EXCEPT !.state = "deleted"]
<1>1. t \in Table /\ db[t][i] \in Row
  BY DEF DirInv, DirTypeOK, Table
<1>2. /\ row \in Row
      /\ row.biz = db[t][i].biz /\ row.state = "deleted" /\ row.ref = db[t][i].ref
  BY <1>1 DEF Row
<1> HIDE DEF row
<1>3. /\ dir' = [dir EXCEPT ![r] = [pc |-> "write", table |-> t, id |-> i, asked |-> {},
                                   copy |-> db[t][i], row |-> row]]
      /\ UNCHANGED <<db, objects>>
      /\ \A u \in Table : db[u][r] = NoRow
  BY DEF BeginDelete, DirInv, CallOK, Unended, row
<1>4. dir' \in [DirRequests -> DirState]
  BY <1>1, <1>2, <1>3 DEF DirInv, DirTypeOK, DirState
<1>5. dir'[r] = [pc |-> "write", table |-> t, id |-> i, asked |-> {},
                 copy |-> db[t][i], row |-> row]
  BY <1>3 DEF DirInv, DirTypeOK
<1>6. Changes(dir[r])' /\ RefFound(dir[r])'
  BY <1>2, <1>3, <1>5 DEF Changes, Stored, RefFound
<1>7. CallOK(r)'
  BY <1>3, <1>5, <1>6 DEF CallOK
<1>8. objects' \in SUBSET Ids
  BY <1>3 DEF DirInv, DirTypeOK
<1> QED
  BY <1>3, <1>4, <1>7, <1>8, OwnDirStepKeeps DEF OwnDirStep


(* The state of a request that has ended.                                  *)
LEMMA EndingState ==
    ASSUME DirInv, NEW r \in DirRequests, NEW l \in DirEnded, DirGoto(r, l)
    PROVE  /\ dir' \in [DirRequests -> DirState]
           /\ dir'[r].pc = l
           /\ \A q \in DirRequests \ {r} : dir'[q] = dir[q]
<1>1. dir[r] \in DirState /\ dir \in [DirRequests -> DirState]
  BY DEF DirInv, DirTypeOK
<1> DEFINE ended == [dir[r] EXCEPT !.pc = l, !.asked = {}, !.copy = NoRow, !.row = NoRow]
<1>2. NoRow \in Row
  BY RowTypes
<1>3. ended \in DirState /\ ended.pc = l
  BY ONLY <1>1, <1>2, l \in DirEnded, EndedState
<1>4. dir' = [dir EXCEPT ![r] = ended]
  BY DEF DirGoto
<1> HIDE DEF ended
<1>5. dir' \in [DirRequests -> DirState] /\ dir'[r] = ended
  BY <1>1, <1>3, <1>4
<1>6. \A q \in DirRequests \ {r} : dir'[q] = dir[q]
  BY <1>1, <1>4
<1> QED
  BY <1>3, <1>5, <1>6

(* A step that ends the request of r.                                      *)
LEMMA EndingKeeps ==
    ASSUME DirInv, NEW r \in DirRequests, NEW l \in DirEnded, DirGoto(r, l),
           UNCHANGED <<db, objects>>
    PROVE  DirInv' /\ RowsKept
<1>1. /\ dir' \in [DirRequests -> DirState] /\ dir'[r].pc = l
      /\ \A q \in DirRequests \ {r} : dir'[q] = dir[q]
  BY EndingState
<1>2. CallOK(r)'
  BY <1>1 DEF CallOK, DirEnded, Unended, Running
<1>3. objects' \in SUBSET Ids
  BY DEF DirInv, DirTypeOK
<1> QED
  BY <1>1, <1>2, <1>3, OwnDirStepKeeps DEF OwnDirStep

(* A check that passes: the call goes on with what it has.                 *)
LEMMA GoingOnKeeps ==
    ASSUME DirInv, NEW r \in DirRequests, NEW l \in {"key", "put", "write"},
           dir[r].pc \in {"parent", "key", "put"}, DirGoto(r, l),
           dir[r].pc = "parent" =>
             Visible(Parent[dir[r].table], dir[r].row.biz, dir[r].row.ref),
           db' = db, objects \subseteq objects', objects' \in SUBSET Ids,
           l = "write" /\ dir[r].table = "image" /\ dir[r].id = r => r \in objects'
    PROVE  DirInv' /\ RowsKept
<1>1. dir' = [dir EXCEPT ![r] = [@ EXCEPT !.pc = l]]
  BY DEF DirGoto, DirEnded
<1>2. dir' \in [DirRequests -> DirState] /\ dir'[r] = [dir[r] EXCEPT !.pc = l]
  BY <1>1 DEF DirInv, DirTypeOK, DirState
<1>3. /\ dir'[r].pc = l /\ dir'[r].table = dir[r].table /\ dir'[r].id = dir[r].id
      /\ dir'[r].copy = dir[r].copy /\ dir'[r].row = dir[r].row
  BY <1>2 DEF DirInv, DirTypeOK, DirState
<1>4. /\ \A t \in Table : db[t][r] = NoRow
      /\ Inserts(dir[r], r) \/ Changes(dir[r])
      /\ RefFound(dir[r])
  BY DEF DirInv, CallOK, Unended, Running
<1>5. Inserts(dir[r], r)' \/ Changes(dir[r])'
  BY <1>3, <1>4 DEF Inserts, Changes, Stored
<1>6. RefFound(dir[r])'
  BY <1>3, <1>4 DEF RefFound, Stored, Visible, Live
<1>7. l = "write" /\ dir[r].table = "image" => r \in objects'
  BY <1>4 DEF Inserts, Changes
<1>8. CallOK(r)'
  BY <1>3, <1>4, <1>5, <1>6, <1>7 DEF CallOK
<1>9. \A q \in DirRequests \ {r} : dir'[q] = dir[q]
  BY <1>1 DEF DirInv, DirTypeOK
<1> QED
  BY <1>2, <1>8, <1>9, OwnDirStepKeeps DEF OwnDirStep

LEMMA BeginRegisterKeeps ==
    ASSUME DirInv, NEW r \in DirRequests, NEW k \in Names, NEW l \in Labels,
           BeginRegister(r, k, l)
    PROVE  DirInv' /\ RowsKept
<1> DEFINE row == [state |-> "live", biz |-> r, key |-> k, ref |-> Null, label |-> l]
           next == IF KeyTaken("user", Null, k, Null) THEN "failed" ELSE "register"
<1>1. row \in Row
  BY DEF Row
<1>2. next \in {"failed", "register"}
  OBVIOUS
<1>3. /\ dir' = [dir EXCEPT ![r] = [pc |-> next, table |-> "user", id |-> r, asked |-> {},
                                   copy |-> NoRow, row |-> row]]
      /\ UNCHANGED <<db, objects>>
      /\ \A u \in Table : db[u][r] = NoRow
  BY DEF BeginRegister, DirInv, CallOK, Unended
<1> HIDE DEF next
<1>4. dir' \in [DirRequests -> DirState]
  BY <1>1, <1>2, <1>3, RowTypes DEF DirInv, DirTypeOK, DirState, DirEnded, Table
<1>5. dir'[r] = [pc |-> next, table |-> "user", id |-> r, asked |-> {},
                 copy |-> NoRow, row |-> row]
  BY <1>3 DEF DirInv, DirTypeOK
<1>6. CallOK(r)'
  BY <1>2, <1>3, <1>5 DEF CallOK, Inserts, RefFound, NoRow, Running
<1>7. objects' \in SUBSET Ids
  BY <1>3 DEF DirInv, DirTypeOK
<1>8. \A q \in DirRequests \ {r} : dir'[q] = dir[q]
  BY <1>3 DEF DirInv, DirTypeOK
<1> QED
  BY <1>3, <1>4, <1>6, <1>7, <1>8, OwnDirStepKeeps DEF OwnDirStep

-----------------------------------------------------------------------------
(* The steps that write rows.  A row of another request is not touched by  *)
(* them, and what the other requests have found stays true.                *)
LEMMA OthersStayOK ==
    ASSUME DirInv, NEW r \in DirRequests, NEW q \in DirRequests, q # r,
           RowsKept, dir'[q] = dir[q], objects \subseteq objects',
           \A t \in Table : db'[t][q] = db[t][q] \/ Stored(t, q)
    PROVE  CallOK(q)'
<1>1. ASSUME dir[q].pc \in Unended
      PROVE  \A t \in Table : db'[t][q] = NoRow
  BY <1>1 DEF DirInv, CallOK, Stored, NoRow
<1>2. ASSUME dir[q].pc \in Running
      PROVE  /\ Inserts(dir[q], q)' \/ Changes(dir[q])'
             /\ RefFound(dir[q])'
             /\ (dir[q].pc = "write" /\ dir[q].table = "image" => q \in objects)'
  <2>1. /\ Inserts(dir[q], q) \/ Changes(dir[q])
        /\ RefFound(dir[q])
        /\ dir[q].pc = "write" /\ dir[q].table = "image" => q \in objects
        /\ dir[q] \in DirState
    BY <1>2 DEF DirInv, DirTypeOK, CallOK
  <2>2. \A t \in Table, i \in Ids :
          Stored(t, i) => Stored(t, i)' /\ db[t][i].biz = db'[t][i].biz
    BY DEF RowsKept, Stored
  <2>3. Inserts(dir[q], q) => Inserts(dir[q], q)'
    BY <2>1, <2>2 DEF Inserts, Table, Stored
  <2>4. Changes(dir[q]) => Changes(dir[q])'
    BY <2>1, <2>2 DEF Changes, DirState
  <2>5. RefFound(dir[q])'
    BY <2>1, <2>2, RowTypes DEF RefFound, DirState
  <2> QED
    BY <2>1, <2>3, <2>4, <2>5
<1> QED
  BY <1>1, <1>2 DEF CallOK


LEMMA WriteRowKeeps ==
    ASSUME DirInv, NEW r \in DirRequests, WriteRow(r)
    PROVE  DirInv' /\ RowsKept
<1> DEFINE t == dir[r].table
           i == dir[r].id
           new == Flushed(dir[r], db[t][i])
<1>0. CASE IndexRefuses(t, new, i)
  BY <1>0, EndingKeeps DEF WriteRow, DirEnded
<1>1. ASSUME ~IndexRefuses(t, new, i)
      PROVE  DirInv' /\ RowsKept
  <2>1. /\ t \in Table /\ i \in Ids /\ dir[r].row \in Row /\ dir[r].copy \in Row
        /\ db[t][i] \in Row
    BY DEF DirInv, DirTypeOK, DirState
  <2>2. /\ \A u \in Table : db[u][r] = NoRow
        /\ Inserts(dir[r], r) \/ Changes(dir[r])
        /\ RefFound(dir[r])
        /\ dir[r].table = "image" => r \in objects
        /\ dir[r].pc = "write"
    BY DEF WriteRow, DirInv, CallOK, Unended, Running
  <2>3. /\ db' = [db EXCEPT ![t][i] = new]
        /\ objects' = objects
        /\ DirGoto(r, "done")
    BY <1>1 DEF WriteRow
  <2>4. new = [state |-> IF dir[r].row.state = dir[r].copy.state THEN db[t][i].state
                         ELSE dir[r].row.state,
               biz   |-> IF dir[r].row.biz = dir[r].copy.biz THEN db[t][i].biz
                         ELSE dir[r].row.biz,
               key   |-> IF dir[r].row.key = dir[r].copy.key THEN db[t][i].key
                         ELSE dir[r].row.key,
               ref   |-> IF dir[r].row.ref = dir[r].copy.ref THEN db[t][i].ref
                         ELSE dir[r].row.ref,
               label |-> IF dir[r].row.label = dir[r].copy.label THEN db[t][i].label
                         ELSE dir[r].row.label]
    BY DEF Flushed, Column
  <2>5. new \in Row
    BY <2>1, <2>4 DEF Row
  <2> HIDE DEF new
  <2>6. /\ db'[t][i] = new
        /\ \A u \in Table, j \in Ids : u # t \/ j # i => db'[u][j] = db[u][j]
        /\ db' \in [Table -> [Ids -> Row]]
    BY <2>1, <2>3, <2>5 DEF DirInv, DirTypeOK
  <2>7. /\ new.biz = dir[r].row.biz /\ new.state # "absent"
        /\ Stored("business", new.biz)
        /\ Stored(t, i) => /\ new.biz = db[t][i].biz
                            /\ new.state \in {db[t][i].state, "deleted"}
                            /\ t \in {"product", "customer", "business"}
        /\ ~Stored(t, i) => i = r /\ t # "business"
    <3>1. CASE Inserts(dir[r], r)
      BY <2>1, <2>2, <2>4, <3>1, RowTypes DEF Inserts, NoRow, Stored
    <3>2. CASE Changes(dir[r])
      <4>1. Stored("business", db[t][i].biz)
        BY <2>1, <3>2 DEF Changes, DirInv, Sound, ReferencesResolve
      <4> QED
        BY <2>1, <2>4, <3>2, <4>1 DEF Changes, Stored
    <3> QED
      BY <2>2, <3>1, <3>2
  <2>8. RowsKept
    BY <2>6, <2>7 DEF RowsKept, Stored
  <2>9. dir' \in [DirRequests -> DirState] /\ dir'[r].pc = "done"
    BY <2>3, EndingState DEF DirEnded
  <2>10. \A q \in DirRequests \ {r} : dir'[q] = dir[q]
    BY <2>3, EndingState DEF DirEnded
  <2>11. \A q \in DirRequests : CallOK(q)'
    <3>1. CallOK(r)'
      BY <2>9 DEF CallOK, Unended, Running
    <3>2. ASSUME NEW q \in DirRequests, q # r
          PROVE  CallOK(q)'
      <4>1. \A u \in Table : db'[u][q] = db[u][q] \/ Stored(u, q)
        BY <2>6, <2>7, <3>2
      <4> QED
        BY <2>3, <2>8, <2>10, <3>2, <4>1, OthersStayOK
    <3> QED
      BY <3>1, <3>2
  <2>12. OneLiveRowPerKey'
    <3> SUFFICES ASSUME NEW u \in Table, NEW j \in Ids, NEW m \in Ids, j # m,
                        db'[u][j].state = "live", db'[u][m].state = "live",
                        db'[u][j].key # Null, db'[u][j].key = db'[u][m].key,
                        SameScope(u, db'[u][j].biz, db'[u][m].biz)
                 PROVE  FALSE
      BY DEF OneLiveRowPerKey, Live
    <3>1. u = t /\ (j = i \/ m = i)
      BY <2>6 DEF DirInv, Sound, OneLiveRowPerKey, Live
    <3>2. \A n \in Ids \ {i} :
            ~(/\ new.state = "live" /\ new.key # Null
              /\ db[t][n].state = "live" /\ SameScope(t, new.biz, db[t][n].biz)
              /\ db[t][n].key = new.key)
      BY <1>1 DEF IndexRefuses, KeyTaken, Live
    <3> QED
      BY <2>6, <3>1, <3>2 DEF SameScope
  <2>13. ReferencesResolve'
    <3>1. ASSUME NEW u \in Table, NEW j \in Ids, db'[u][j].state # "absent"
          PROVE  Stored("business", db[u][j].biz)'
      <4>1. Stored("business", db'[u][j].biz)
        BY <2>6, <2>7, <3>1 DEF DirInv, Sound, ReferencesResolve, Stored
      <4> QED
        BY <2>8, <4>1 DEF RowsKept, Stored, Table
    <3>2. ASSUME NEW u \in DOMAIN Parent, NEW j \in Ids, db'[u][j].state # "absent",
                 db'[u][j].ref # Null
          PROVE  /\ Stored(Parent[u], db[u][j].ref)'
                 /\ db'[Parent[u]][db'[u][j].ref].biz = db'[u][j].biz
      <4>0. u \in Table /\ Parent[u] \in Table
        BY RowTypes
      <4>1. /\ Stored(Parent[u], db'[u][j].ref)
            /\ db[Parent[u]][db'[u][j].ref].biz = db'[u][j].biz
        <5>1. CASE u # t \/ j # i
          BY <2>6, <3>2, <4>0, <5>1 DEF DirInv, Sound, ReferencesResolve, Stored
        <5>2. CASE u = t /\ j = i /\ dir[r].row.ref = dir[r].copy.ref
          <6>1. new.ref = db[t][i].ref
            BY <2>4, <5>2
          <6>2. Stored(t, i)
            BY <2>1, <2>2, <2>6, <2>7, <3>2, <5>2, <6>1 DEF NoRow
          <6> QED
            <7>1. db'[u][j] = new /\ t \in DOMAIN Parent /\ db[t][i].ref # Null
              BY <2>1, <2>6, <3>2, <5>2, <6>1
            <7>2. /\ Stored(Parent[t], db[t][i].ref)
                  /\ db[Parent[t]][db[t][i].ref].biz = db[t][i].biz
              BY <2>1, <6>2, <7>1 DEF DirInv, Sound, ReferencesResolve
            <7> QED
              BY <2>7, <5>2, <6>1, <6>2, <7>1, <7>2
        <5>3. CASE u = t /\ j = i /\ dir[r].row.ref # dir[r].copy.ref
          <6>1. new.ref = dir[r].row.ref
            BY <2>4, <5>3
          <6> QED
            BY <2>2, <2>6, <2>7, <3>2, <5>3, <6>1 DEF RefFound
        <5> QED
          BY <5>1, <5>2, <5>3
      <4> QED
        BY <2>8, <4>0, <4>1 DEF RowsKept, Stored
    <3>3. ASSUME NEW j \in Ids, db'["image"][j].state # "absent"
          PROVE  j \in objects'
      <4>1. CASE t = "image" /\ j = i
        BY <2>2, <2>3, <2>7, <4>1 DEF DirInv, Sound, ReferencesResolve
      <4>2. CASE ~(t = "image" /\ j = i)
        BY <2>3, <2>6, <3>3, <4>2 DEF DirInv, Sound, ReferencesResolve, Stored, Table
      <4> QED
        BY <4>1, <4>2
    <3> QED
      BY <3>1, <3>2, <3>3 DEF ReferencesResolve, Stored
  <2>14. EveryBusinessHasOwner'
    <3> SUFFICES ASSUME NEW b \in Ids, db'["business"][b].state # "absent"
                 PROVE  \E u \in Ids : db'["user"][u].state = "live" /\ db'["user"][u].biz = b
      BY DEF EveryBusinessHasOwner, Principal, Visible, Live, Stored
    <3>1. Stored("business", b)
      BY <2>6, <2>7 DEF Stored, Table
    <3>2. PICK u \in Ids : db["user"][u].state = "live" /\ db["user"][u].biz = b
      BY <3>1 DEF DirInv, Sound, EveryBusinessHasOwner, Principal, Visible, Live
    <3> QED
      BY <2>8, <3>2 DEF RowsKept, Stored, Table
  <2>15. DirTypeOK'
    BY <2>3, <2>6, <2>9 DEF DirInv, DirTypeOK
  <2> QED
    BY <2>8, <2>11, <2>12, <2>13, <2>14, <2>15 DEF DirInv, Sound
<1> QED
  BY <1>0, <1>1


LEMMA RegisterKeeps ==
    ASSUME DirInv, NEW r \in DirRequests, Register(r)
    PROVE  DirInv' /\ RowsKept
<1> DEFINE row == dir[r].row
           shop == [row EXCEPT !.key = Null]
<1>0. CASE KeyTaken("user", r, row.key, r)
  BY <1>0, EndingKeeps DEF Register, DirEnded
<1>1. ASSUME ~KeyTaken("user", r, row.key, r)
      PROVE  DirInv' /\ RowsKept
  <2>0. /\ dir[r].pc = "register" /\ dir[r] \in DirState
        /\ \A u \in Table : db[u][r] = NoRow
        /\ Inserts(dir[r], r) /\ RefFound(dir[r])
    BY DEF Register, DirInv, DirTypeOK, CallOK, Unended, Running, Changes
  <2>1. /\ r \in Ids /\ row \in Row
        /\ \A u \in Table : db[u][r] = NoRow
        /\ row.state = "live" /\ row.biz = r /\ row.ref \in {Null, NoRow.ref}
    BY <2>0, RowTypes DEF DirState, Inserts, RefFound, NoRow
  <2>2. /\ db' = [db EXCEPT !["business"][r] = shop, !["user"][r] = row]
        /\ objects' = objects
        /\ DirGoto(r, "done")
    BY <1>1 DEF Register
  <2>3. /\ shop \in Row /\ shop.state = "live" /\ shop.biz = r /\ shop.key = Null
        /\ row.ref = Null
    BY <2>1 DEF Row, NoRow
  <2> HIDE DEF row, shop
  <2>4. /\ db'["business"][r] = shop /\ db'["user"][r] = row
        /\ \A u \in Table, j \in Ids :
             u \notin {"business", "user"} \/ j # r => db'[u][j] = db[u][j]
        /\ db' \in [Table -> [Ids -> Row]]
    BY <2>1, <2>2, <2>3 DEF DirInv, DirTypeOK, Table
  <2>5. RowsKept
    BY <2>1, <2>3, <2>4 DEF RowsKept, Stored, NoRow
  <2>6. /\ dir' \in [DirRequests -> DirState] /\ dir'[r].pc = "done"
        /\ \A q \in DirRequests \ {r} : dir'[q] = dir[q]
    BY <2>2, EndingState DEF DirEnded
  <2>7. \A q \in DirRequests : CallOK(q)'
    <3>1. CallOK(r)'
      BY <2>6 DEF CallOK, Unended, Running
    <3>2. ASSUME NEW q \in DirRequests, q # r
          PROVE  CallOK(q)'
      <4>1. \A u \in Table : db'[u][q] = db[u][q] \/ Stored(u, q)
        BY <2>4, <3>2
      <4> QED
        BY <2>2, <2>5, <2>6, <3>2, <4>1, OthersStayOK
    <3> QED
      BY <3>1, <3>2
  <2>8. OneLiveRowPerKey'
    <3> SUFFICES ASSUME NEW u \in Table, NEW j \in Ids, NEW m \in Ids, j # m,
                        db'[u][j].state = "live", db'[u][m].state = "live",
                        db'[u][j].key # Null, db'[u][j].key = db'[u][m].key,
                        SameScope(u, db'[u][j].biz, db'[u][m].biz)
                 PROVE  FALSE
      BY DEF OneLiveRowPerKey, Live
    <3>1. u = "user" /\ (j = r \/ m = r)
      BY <2>3, <2>4 DEF DirInv, Sound, OneLiveRowPerKey, Live
    <3>2. \A n \in Ids \ {r} :
            ~(row.key # Null /\ db["user"][n].state = "live" /\ db["user"][n].key = row.key)
      BY <1>1 DEF KeyTaken, Live, SameScope, row
    <3> QED
      BY <2>4, <3>1, <3>2 DEF Table
  <2>9. ReferencesResolve'
    <3>1. ASSUME NEW u \in Table, NEW j \in Ids, db'[u][j].state # "absent"
          PROVE  Stored("business", db[u][j].biz)'
      <4>1. CASE db'[u][j] = db[u][j]
        <5>1. Stored("business", db[u][j].biz)
          BY <3>1, <4>1 DEF DirInv, Sound, ReferencesResolve, Stored
        <5> QED
          BY <2>5, <4>1, <5>1 DEF RowsKept, Stored, Table
      <4>2. CASE db'[u][j] # db[u][j]
        BY <2>1, <2>3, <2>4, <4>2 DEF Stored
      <4> QED
        BY <4>1, <4>2
    <3>2. ASSUME NEW u \in DOMAIN Parent, NEW j \in Ids, db'[u][j].state # "absent",
                 db'[u][j].ref # Null
          PROVE  /\ Stored(Parent[u], db[u][j].ref)'
                 /\ db'[Parent[u]][db'[u][j].ref].biz = db'[u][j].biz
      <4>1. /\ u \in Table /\ Parent[u] \in Table /\ u \notin {"business", "user"}
            /\ Parent[u] \notin {"business", "user"}
        BY RowTypes
      <4>2. Stored(Parent[u], db[u][j].ref) /\ db[Parent[u]][db[u][j].ref].biz = db[u][j].biz
        BY <2>4, <3>2, <4>1 DEF DirInv, Sound, ReferencesResolve, Stored
      <4> QED
        BY <2>4, <4>1, <4>2 DEF Stored
    <3>3. ASSUME NEW j \in Ids, db'["image"][j].state # "absent"
          PROVE  j \in objects'
      BY <2>2, <2>4, <3>3 DEF DirInv, Sound, ReferencesResolve, Stored, Table
    <3> QED
      BY <3>1, <3>2, <3>3 DEF ReferencesResolve, Stored
  <2>10. EveryBusinessHasOwner'
    <3> SUFFICES ASSUME NEW b \in Ids, db'["business"][b].state # "absent"
                 PROVE  \E u \in Ids : db'["user"][u].state = "live" /\ db'["user"][u].biz = b
      BY DEF EveryBusinessHasOwner, Principal, Visible, Live, Stored
    <3>1. CASE b = r
      BY <2>1, <2>4, <3>1
    <3>2. CASE b # r
      <4>1. Stored("business", b)
        BY <2>4, <3>2 DEF Stored, Table
      <4>2. PICK u \in Ids : db["user"][u].state = "live" /\ db["user"][u].biz = b
        BY <4>1 DEF DirInv, Sound, EveryBusinessHasOwner, Principal, Visible, Live
      <4> QED
        BY <2>5, <4>2 DEF RowsKept, Stored, Table
    <3> QED
      BY <3>1, <3>2
  <2>11. DirTypeOK'
    BY <2>2, <2>4, <2>6 DEF DirInv, DirTypeOK
  <2> QED
    BY <2>5, <2>7, <2>8, <2>9, <2>10, <2>11 DEF DirInv, Sound
<1> QED
  BY <1>0, <1>1


-----------------------------------------------------------------------------
LEMMA CallsKeep ==
    ASSUME DirInv, NEW r \in DirRequests, NEW b \in Shops,
           CatalogCall(r, b) \/ CustomerCall(r, b) \/ OwnerCall(r, b)
    PROVE  DirInv' /\ RowsKept
<1>0. b \in Ids /\ Stored("business", b)
  BY ShopsAreStored
<1>1. \A t \in Table, i \in Ids : Visible(t, b, i) => Stored(t, i)
  BY DEF Visible, Live, Stored
<1>2. CASE CreateCategory(r, b)
  BY <1>2, BeginInsertKeeps DEF CreateCategory, Table
<1>3. CASE CreateProduct(r, b)
  BY <1>3, RowTypes, BeginInsertKeeps DEF CreateProduct, Table
<1>4. CASE AddProductImage(r, b)
  BY <1>4, RowTypes, BeginInsertKeeps DEF AddProductImage, Table
<1>5. CASE CreateCustomer(r, b)
  BY <1>5, BeginInsertKeeps DEF CreateCustomer, Table
<1>6. CASE AddAddress(r, b)
  BY <1>6, RowTypes, BeginInsertKeeps DEF AddAddress, Table
<1>7. CASE CreateUser(r, b)
  BY <1>7, BeginInsertKeeps DEF CreateUser, Table
<1>8. CASE UpdateProduct(r, b)
  BY <1>1, <1>8, BeginUpdateKeeps DEF UpdateProduct, Table
<1>9. CASE UpdateCustomer(r, b)
  BY <1>1, <1>9, BeginUpdateKeeps DEF UpdateCustomer, Table
<1>10. CASE UpdateBusiness(r, b) \/ LinkWhatsapp(r, b)
  BY <1>0, <1>10, BeginUpdateKeeps DEF UpdateBusiness, LinkWhatsapp
<1>11. CASE SoftDeleteProduct(r, b)
  BY <1>1, <1>11, BeginDeleteKeeps DEF SoftDeleteProduct, Table
<1>12. CASE SoftDeleteCustomer(r, b)
  BY <1>1, <1>12, BeginDeleteKeeps DEF SoftDeleteCustomer, Table
<1> QED
  BY <1>2, <1>3, <1>4, <1>5, <1>6, <1>7, <1>8, <1>9, <1>10, <1>11, <1>12
     DEF CatalogCall, CustomerCall, OwnerCall

LEMMA ChecksKeep ==
    ASSUME DirInv, NEW r \in DirRequests,
           CheckParent(r) \/ CheckKey(r) \/ PutObject(r) \/ PutFails(r)
    PROVE  DirInv' /\ RowsKept
<1>0. /\ dir[r].table \in Table /\ dir[r] \in DirState
      /\ objects \in SUBSET Ids
  BY DEF DirInv, DirTypeOK, DirState
<1>1. /\ AfterKey(dir[r].table) \in {"put", "write"}
      /\ AfterKey(dir[r].table) = "write" => dir[r].table # "image"
      /\ AfterParent(dir[r].table, dir[r].asked) \in {"key", "put", "write"}
      /\ AfterParent(dir[r].table, dir[r].asked) = "write" => dir[r].table # "image"
  BY <1>0, FirstChecks
<1>2. CASE CheckParent(r)
  <2>1. CASE Visible(Parent[dir[r].table], dir[r].row.biz, dir[r].row.ref)
    BY <1>0, <1>1, <1>2, <2>1, GoingOnKeeps DEF CheckParent
  <2>2. CASE ~Visible(Parent[dir[r].table], dir[r].row.biz, dir[r].row.ref)
    BY <1>2, <2>2, EndingKeeps DEF CheckParent, DirEnded
  <2> QED
    BY <2>1, <2>2
<1>3. CASE CheckKey(r)
  <2>1. CASE KeyRefused(dir[r])
    BY <1>3, <2>1, EndingKeeps DEF CheckKey, DirEnded
  <2>2. CASE ~KeyRefused(dir[r])
    BY <1>0, <1>1, <1>3, <2>2, GoingOnKeeps DEF CheckKey
  <2> QED
    BY <2>1, <2>2
<1>4. CASE PutObject(r)
  <2>1. objects' = objects \cup {r} /\ db' = db /\ dir[r].pc = "put" /\ DirGoto(r, "write")
    BY <1>4 DEF PutObject
  <2> QED
    BY <1>0, <2>1, GoingOnKeeps
<1>5. CASE PutFails(r)
  BY <1>5, EndingKeeps DEF PutFails, DirEnded
<1> QED
  BY <1>2, <1>3, <1>4, <1>5

(* Every step keeps the invariant and the order in which rows change.      *)
LEMMA NextDirectory == DirInv /\ [DirNext]_dirVars => DirInv' /\ (RowsKept \/ UNCHANGED dirVars)
<1> SUFFICES ASSUME DirInv, [DirNext]_dirVars
             PROVE  DirInv' /\ (RowsKept \/ UNCHANGED dirVars)
  OBVIOUS
<1>1. CASE UNCHANGED dirVars
  <2>0. db' = db /\ objects' = objects /\ dir' = dir
    BY <1>1 DEF dirVars
  <2>1. DirTypeOK' /\ OneLiveRowPerKey'
    <3>1. DirTypeOK'
      BY <2>0 DEF DirInv, DirTypeOK
    <3>2. OneLiveRowPerKey'
      BY <2>0 DEF DirInv, Sound, OneLiveRowPerKey, Live
    <3> QED
      BY <3>1, <3>2
  <2>2. ReferencesResolve'
    BY <1>1 DEF dirVars, DirInv, Sound, ReferencesResolve, Stored
  <2>3. EveryBusinessHasOwner'
    BY <1>1 DEF dirVars, DirInv, Sound, EveryBusinessHasOwner, Principal, Visible, Live, Stored
  <2>4. ASSUME NEW r \in DirRequests
        PROVE  CallOK(r)'
    BY <1>1 DEF dirVars, DirInv, CallOK, Inserts, Changes, RefFound, Stored
  <2> QED
    BY <1>1, <2>1, <2>2, <2>3, <2>4 DEF DirInv, Sound
<1>2. ASSUME NEW r \in DirRequests, BeginDir(r)
      PROVE  DirInv' /\ RowsKept
  BY <1>2, CallsKeep, BeginRegisterKeeps, EndingKeeps DEF BeginDir, RefuseDir, DirEnded
<1>3. ASSUME NEW r \in DirRequests, ContinueDir(r)
      PROVE  DirInv' /\ RowsKept
  BY <1>3, ChecksKeep, WriteRowKeeps, RegisterKeeps DEF ContinueDir
<1>4. ASSUME NEW r \in DirRequests, CrashDir(r)
      PROVE  DirInv' /\ RowsKept
  BY <1>4, EndingKeeps DEF CrashDir, DirEnded
<1> QED
  BY <1>1, <1>2, <1>3, <1>4 DEF DirNext

THEOREM DirectoryCorrect == DirSpec => []DirInv
<1>1. DirInv /\ [DirNext]_dirVars => DirInv'
  BY NextDirectory
<1> QED
  BY <1>1, InitDirectory, PTL DEF DirSpec

(* Every variable of the master data keeps its type.                       *)
THEOREM DirectoryTypeCorrect == DirSpec => []DirTypeOK
<1>1. DirInv => DirTypeOK
  BY DEF DirInv
<1> QED
  BY <1>1, DirectoryCorrect, PTL

(* No two live rows of one scope share a key: category names, SKUs, phone  *)
(* numbers, emails and WhatsApp numbers.                                   *)
THEOREM KeysAreUnique == DirSpec => []OneLiveRowPerKey
<1>1. DirInv => OneLiveRowPerKey
  BY DEF DirInv, Sound
<1> QED
  BY <1>1, DirectoryCorrect, PTL

(* No category, product, customer or object a row refers to is missing or  *)
(* another business's.                                                     *)
THEOREM NoDanglingReference == DirSpec => []ReferencesResolve
<1>1. DirInv => ReferencesResolve
  BY DEF DirInv, Sound
<1> QED
  BY <1>1, DirectoryCorrect, PTL

(* Every business has a user, however registrations race and die.          *)
THEOREM RegistrationIsAtomic == DirSpec => []EveryBusinessHasOwner
<1>1. DirInv => EveryBusinessHasOwner
  BY DEF DirInv, Sound
<1> QED
  BY <1>1, DirectoryCorrect, PTL

(* A soft-deleted row is never brought back, and no row is removed or      *)
(* moves to another business.                                              *)
THEOREM DeletionIsFinal == DirSpec => DeletedStaysDeleted
<1> DEFINE Step ==
      \A t \in Table, i \in Ids :
         Stored(t, i) =>
            /\ Stored(t, i)'
            /\ ~Live(t, i) => ~Live(t, i)'
            /\ db[t][i].biz = db'[t][i].biz
<1>1. DirInv /\ [DirNext]_dirVars => [Step]_dirVars
  <2>1. RowsKept => Step
    BY DEF RowsKept, Stored, Live
  <2> QED
    BY <2>1, NextDirectory
<1>2. DirInv /\ [DirNext]_dirVars => DirInv'
  BY NextDirectory
<1> QED
  BY <1>1, <1>2, InitDirectory, PTL DEF DirSpec, DeletedStaysDeleted
=============================================================================
