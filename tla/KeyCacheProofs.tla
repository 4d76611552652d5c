--------------------------- MODULE KeyCacheProofs ---------------------------
(***************************************************************************)
(* What KeyCache shows on two keys and two threads, for any number of both.*)
(* The inductive invariant IInv says what a call in progress may rely on:  *)
(* whoever serves a PATCH or a DELETE holds the gate until it answers, so  *)
(* the row it has checked stays the row it will change and no key is       *)
(* revoked behind the back of its reload; a POST in progress is the only   *)
(* one that has ever heard of its key.                                     *)
(***************************************************************************)
EXTENDS KeyCache, TLAPS

Gated == {"patch", "delete"}

CallsMatch ==
  \A w \in Workers :
    /\ pc[w] = "idle" <=> call[w] = NoCall
    /\ pc[w] = "insert" => call[w].op = "create"
    /\ pc[w] = "check" => call[w].op \in Gated
    /\ pc[w] = "put" => call[w].op = "patch"
    /\ pc[w] = "erase" => call[w].op = "delete"

GateHeld == \A w \in Workers : call[w].op \in Gated => gate = w

RowsAreDrawn ==
  \A k \in Keys : /\ (table[k] # NoRow => k \in drawn)
                  /\ (table[k] # NoRow => k \notin erased)
                  /\ (k \in creds => table[k] # NoRow)

IssuesAreFresh ==
  \A w \in Workers : call[w].op = "create" =>
    /\ call[w].key \in drawn
    /\ \A v \in Workers \ {w} :
         call[v].op = "create" => call[v].key # call[w].key
    /\ pc[w] = "insert" => table[call[w].key] = NoRow /\ call[w].key \notin erased

CheckedStands ==
  \A w \in Workers :
    /\ pc[w] = "put" => /\ table[call[w].key] # NoRow
                        /\ row[w] = Patched(table[call[w].key], call[w].change)
    /\ pc[w] = "erase" => table[call[w].key] # NoRow

Reloading(w) == pc[w] \in {"list", "join", "install"}

Listed(w) == pc[w] \in {"join", "install"}

ReloadIsFresh ==
  \A w \in Workers :
    /\ Reloading(w) /\ call[w].op = "patch" => table[call[w].key] # NoRow
    /\ Listed(w) /\ call[w].op = "patch" =>
         listed[w][call[w].key] = table[call[w].key]
    /\ Reloading(w) /\ call[w].op = "delete" => call[w].key \in erased
    /\ Reloading(w) /\ call[w].op = "create" =>
         table[call[w].key] # NoRow \/ call[w].key \in erased
    /\ Listed(w) /\ call[w].op = "create" =>
         listed[w][call[w].key] # NoRow \/ call[w].key \in erased
    /\ Listed(w) /\ call[w].op \in Gated =>
         \A k \in erased : listed[w][k] = NoRow

JoinIsFresh ==
  \A w \in Workers : pc[w] = "install" =>
    /\ \A k \in Keys : joined[w][k] = NoRow \/ joined[w][k] = listed[w][k]
    /\ call[w].op = "patch" =>
         joined[w][call[w].key] = IF call[w].key \in creds
                                  THEN table[call[w].key] ELSE NoRow
    /\ call[w].op = "create" =>
         \/ call[w].key \in erased
         \/ joined[w][call[w].key] = IF call[w].key \in creds
                                     THEN listed[w][call[w].key] ELSE NoRow

IInv == /\ TypeOK /\ CallsMatch /\ GateHeld /\ RowsAreDrawn
        /\ IssuesAreFresh /\ CheckedStands /\ ReloadIsFresh /\ JoinIsFresh

-----------------------------------------------------------------------------
Shaped == \A w \in Workers :
  /\ call[w].op \in {"none", "create", "patch", "delete"}
  /\ call[w].op = "none" <=> call[w] = NoCall
  /\ call[w].op # "none" => call[w].key \in Keys
  /\ call[w].op = "create" => call[w].aws \in BOOLEAN
  /\ call[w].op = "patch" => call[w].change \in Changes

(* A call is one of four, and all but none of them name a key.             *)
LEMMA CallShape ==
  ASSUME TypeOK
  PROVE  Shaped
<1> SUFFICES ASSUME NEW w \in Workers
    PROVE  /\ call[w].op \in {"none", "create", "patch", "delete"}
           /\ call[w].op = "none" <=> call[w] = NoCall
           /\ call[w].op # "none" => call[w].key \in Keys
           /\ call[w].op = "create" => call[w].aws \in BOOLEAN
           /\ call[w].op = "patch" => call[w].change \in Changes
  BY DEF Shaped
<1>1. call[w] \in Calls
  BY DEF TypeOK
<1>2. CASE call[w] \in [op : {"none"}]
  BY <1>2 DEF NoCall
<1>3. CASE call[w] \in [op : {"create"}, key : Keys, aws : BOOLEAN]
  BY <1>3 DEF NoCall
<1>4. CASE call[w] \in [op : {"patch"}, key : Keys, change : Changes]
  BY <1>4 DEF NoCall
<1>5. CASE call[w] \in [op : {"delete"}, key : Keys]
  BY <1>5 DEF NoCall
<1>6. QED
  BY <1>1, <1>2, <1>3, <1>4, <1>5 DEF Calls

(* A PATCH of a row is a row.                                              *)
LEMMA PatchedType ==
  ASSUME NEW r \in Rows, NEW c \in Changes
  PROVE  Patched(r, c) \in Rows
BY DEF Rows, Changes, Patched

(* An answer leaves the types of the worker's state as they were.          *)
LEMMA AnswerType ==
  ASSUME TypeOK, NEW w \in Workers, Answer(w)
  PROVE  /\ gate' \in Workers \cup {Free}
         /\ pc' \in [Workers -> {"idle", "insert", "check", "put", "erase",
                                 "list", "join", "install"}]
         /\ call' \in [Workers -> Calls]
         /\ row' \in [Workers -> Rows \cup {NoRow}]
         /\ listed' \in [Workers -> Index]
         /\ joined' \in [Workers -> Index]
<1>1. NoCall \in Calls
  BY DEF NoCall, Calls
<1>2. NoIndex \in Index
  BY DEF NoIndex, Index
<1>3. QED
  BY <1>1, <1>2 DEF TypeOK, Answer

(* A row just issued is a row.                                             *)
LEMMA NewRowType == NewRow \in Rows /\ NewRow # NoRow
<1>1. NewRow \in Rows
  BY DEF NewRow, Rows
<1>2. QED
  BY <1>1, NoRowIsNoRow

(* The join of an index is an index.                                       *)
LEMMA JoinType ==
  ASSUME NEW rows \in Index
  PROVE  Join(rows) \in Index
BY DEF Index, Join

(* The row a PATCH is about to write is a row.                             *)
LEMMA PutIsRow ==
  ASSUME IInv, NEW w \in Workers, pc[w] = "put"
  PROVE  row[w] \in Rows /\ row[w] # NoRow
<1>1. /\ call[w].op = "patch"
      /\ call[w].key \in Keys
      /\ call[w].change \in Changes
  BY CallShape DEF IInv, CallsMatch, Shaped
<1>2. table[call[w].key] \in Rows
  BY <1>1 DEF IInv, CheckedStands, TypeOK, Index
<1>3. QED
  BY <1>1, <1>2, PatchedType, NoRowIsNoRow DEF IInv, CheckedStands

(* A POST that begins keeps the invariant.                                 *)
LEMMA CreateStep ==
  ASSUME IInv, NEW w \in Workers, NEW k \in Keys, NEW aws \in BOOLEAN, Create(w, k, aws)
  PROVE  IInv'
<1> USE DEF IInv, Create, db, cache, Goto, Gated, Shaped
<1> Shaped
  BY CallShape
<1>1. TypeOK'
  BY DEF TypeOK, Calls
<1>2. CallsMatch'
  BY DEF TypeOK, CallsMatch
<1>3. GateHeld'
  BY DEF GateHeld
<1>4. RowsAreDrawn'
  BY DEF RowsAreDrawn
<1>5. IssuesAreFresh'
  BY DEF TypeOK, IssuesAreFresh
<1>6. CheckedStands'
  BY DEF CheckedStands
<1>7. ReloadIsFresh'
  BY DEF ReloadIsFresh, Reloading, Listed
<1>8. JoinIsFresh'
  BY DEF JoinIsFresh
<1>9. QED
  BY <1>1, <1>2, <1>3, <1>4, <1>5, <1>6, <1>7, <1>8

(* The rows of a POST keeps the invariant.                                 *)
LEMMA InsertStep ==
  ASSUME IInv, NEW w \in Workers, Insert(w)
  PROVE  IInv'
<1> USE DEF IInv, Insert, db, cache, Goto, Gated, Shaped
<1> Shaped
  BY CallShape
<1>1. TypeOK'
  BY NewRowType DEF TypeOK, Index, CallsMatch
<1>2. CallsMatch'
  BY DEF CallsMatch
<1>3. GateHeld'
  BY DEF GateHeld
<1>4. RowsAreDrawn'
  BY NewRowType DEF TypeOK, Index, CallsMatch, RowsAreDrawn, IssuesAreFresh
<1>5. IssuesAreFresh'
  BY DEF TypeOK, CallsMatch, IssuesAreFresh
<1>6. CheckedStands'
  BY DEF TypeOK, CallsMatch, CheckedStands, IssuesAreFresh
<1>7. ReloadIsFresh'
  BY NewRowType DEF TypeOK, Index, CallsMatch, ReloadIsFresh, IssuesAreFresh, Reloading, Listed
<1>8. JoinIsFresh'
  BY DEF TypeOK, CallsMatch, JoinIsFresh, ReloadIsFresh, IssuesAreFresh, Reloading
<1>9. QED
  BY <1>1, <1>2, <1>3, <1>4, <1>5, <1>6, <1>7, <1>8

(* A PATCH or a DELETE that takes the gate keeps the invariant.            *)
LEMMA EnterStep ==
  ASSUME IInv, NEW w \in Workers, NEW c \in Calls, c.op \in Gated, Enter(w, c)
  PROVE  IInv'
<1> USE DEF IInv, Enter, db, cache, Goto, Gated, Shaped
<1> Shaped
  BY CallShape
<1>1. TypeOK'
  BY DEF TypeOK
<1>2. CallsMatch'
  BY DEF TypeOK, CallsMatch, NoCall
<1>3. GateHeld'
  BY NobodyIsFree DEF TypeOK, GateHeld
<1>4. RowsAreDrawn'
  BY DEF RowsAreDrawn
<1>5. IssuesAreFresh'
  BY DEF TypeOK, IssuesAreFresh
<1>6. CheckedStands'
  BY DEF TypeOK, CheckedStands
<1>7. ReloadIsFresh'
  BY DEF TypeOK, ReloadIsFresh, Reloading, Listed
<1>8. JoinIsFresh'
  BY DEF TypeOK, JoinIsFresh
<1>9. QED
  BY <1>1, <1>2, <1>3, <1>4, <1>5, <1>6, <1>7, <1>8

(* The read of a PATCH keeps the invariant.                                *)
LEMMA ReadForPatchStep ==
  ASSUME IInv, NEW w \in Workers, ReadForPatch(w)
  PROVE  IInv'
<1> USE DEF IInv, ReadForPatch, db, cache, Goto, Gated, Shaped
<1> Shaped
  BY CallShape
<1>1. TypeOK'
  BY PatchedType DEF TypeOK, Index
<1>2. CallsMatch'
  BY DEF TypeOK, CallsMatch
<1>3. GateHeld'
  BY DEF GateHeld
<1>4. RowsAreDrawn'
  BY DEF RowsAreDrawn
<1>5. IssuesAreFresh'
  BY DEF TypeOK, IssuesAreFresh
<1>6. CheckedStands'
  BY DEF TypeOK, CheckedStands
<1>7. ReloadIsFresh'
  BY DEF TypeOK, ReloadIsFresh, Reloading, Listed
<1>8. JoinIsFresh'
  BY DEF TypeOK, JoinIsFresh
<1>9. QED
  BY <1>1, <1>2, <1>3, <1>4, <1>5, <1>6, <1>7, <1>8

(* The write of a PATCH keeps the invariant.                               *)
LEMMA PutRowStep ==
  ASSUME IInv, NEW w \in Workers, PutRow(w)
  PROVE  IInv'
<1> USE DEF IInv, PutRow, db, cache, Goto, Gated, Shaped
<1> Shaped
  BY CallShape
<1>1. TypeOK'
  BY PutIsRow DEF TypeOK, Index
<1>2. CallsMatch'
  BY DEF TypeOK, CallsMatch
<1>3. GateHeld'
  BY DEF GateHeld
<1>4. RowsAreDrawn'
  BY PutIsRow DEF TypeOK, Index, CallsMatch, RowsAreDrawn, CheckedStands
<1>5. IssuesAreFresh'
  BY PutIsRow DEF TypeOK, CallsMatch, IssuesAreFresh, CheckedStands
<1>6. CheckedStands'
  BY DEF TypeOK, CallsMatch, GateHeld, CheckedStands
<1>7. ReloadIsFresh'
  BY PutIsRow DEF TypeOK, Index, CallsMatch, GateHeld, ReloadIsFresh, Reloading, Listed
<1>8. JoinIsFresh'
  BY DEF TypeOK, CallsMatch, GateHeld, JoinIsFresh
<1>9. QED
  BY <1>1, <1>2, <1>3, <1>4, <1>5, <1>6, <1>7, <1>8

(* The check of a DELETE keeps the invariant.                              *)
LEMMA FoundForDeleteStep ==
  ASSUME IInv, NEW w \in Workers, FoundForDelete(w)
  PROVE  IInv'
<1> USE DEF IInv, FoundForDelete, db, cache, Goto, Gated, Shaped
<1> Shaped
  BY CallShape
<1>1. TypeOK'
  BY DEF TypeOK
<1>2. CallsMatch'
  BY DEF TypeOK, CallsMatch
<1>3. GateHeld'
  BY DEF GateHeld
<1>4. RowsAreDrawn'
  BY DEF RowsAreDrawn
<1>5. IssuesAreFresh'
  BY DEF TypeOK, IssuesAreFresh
<1>6. CheckedStands'
  BY DEF TypeOK, CheckedStands
<1>7. ReloadIsFresh'
  BY DEF TypeOK, ReloadIsFresh, Reloading, Listed
<1>8. JoinIsFresh'
  BY DEF TypeOK, JoinIsFresh
<1>9. QED
  BY <1>1, <1>2, <1>3, <1>4, <1>5, <1>6, <1>7, <1>8

(* The transaction of a DELETE keeps the invariant.                        *)
LEMMA EraseStep ==
  ASSUME IInv, NEW w \in Workers, Erase(w)
  PROVE  IInv'
<1> USE DEF IInv, Erase, db, cache, Goto, Gated, Shaped
<1> Shaped
  BY CallShape
<1>1. TypeOK'
  BY DEF TypeOK, Index, CallsMatch, RowsAreDrawn, CheckedStands
<1>2. CallsMatch'
  BY DEF TypeOK, CallsMatch
<1>3. GateHeld'
  BY DEF GateHeld
<1>4. RowsAreDrawn'
  BY DEF TypeOK, Index, CallsMatch, RowsAreDrawn
<1>5. IssuesAreFresh'
  BY DEF TypeOK, CallsMatch, IssuesAreFresh, CheckedStands
<1>6. CheckedStands'
  BY DEF TypeOK, CallsMatch, GateHeld, CheckedStands
<1>7. ReloadIsFresh'
  BY DEF TypeOK, CallsMatch, GateHeld, ReloadIsFresh, Reloading, Listed
<1>8. JoinIsFresh'
  BY DEF TypeOK, CallsMatch, GateHeld, JoinIsFresh
<1>9. QED
  BY <1>1, <1>2, <1>3, <1>4, <1>5, <1>6, <1>7, <1>8

(* A 404 keeps the invariant.                                              *)
LEMMA NotFoundStep ==
  ASSUME IInv, NEW w \in Workers, NotFound(w)
  PROVE  IInv'
<1> USE DEF IInv, NotFound, db, cache, Goto, Gated, Shaped
<1> Shaped
  BY CallShape
<1>1. TypeOK'
  BY AnswerType DEF TypeOK
<1>2. CallsMatch'
  BY DEF TypeOK, CallsMatch, Answer, NoCall
<1>3. GateHeld'
  BY DEF TypeOK, GateHeld, Answer, NoCall
<1>4. RowsAreDrawn'
  BY DEF RowsAreDrawn
<1>5. IssuesAreFresh'
  BY DEF TypeOK, IssuesAreFresh, Answer, NoCall
<1>6. CheckedStands'
  BY DEF TypeOK, CheckedStands, Answer, NoCall
<1>7. ReloadIsFresh'
  BY DEF TypeOK, ReloadIsFresh, Reloading, Listed, Answer, NoCall
<1>8. JoinIsFresh'
  BY DEF TypeOK, JoinIsFresh, Answer, NoCall
<1>9. QED
  BY <1>1, <1>2, <1>3, <1>4, <1>5, <1>6, <1>7, <1>8

(* The listing of the keys keeps the invariant.                            *)
LEMMA ListStep ==
  ASSUME IInv, NEW w \in Workers, List(w)
  PROVE  IInv'
<1> USE DEF IInv, List, db, cache, Goto, Gated, Shaped
<1> Shaped
  BY CallShape
<1>1. TypeOK'
  BY DEF TypeOK
<1>2. CallsMatch'
  BY DEF TypeOK, CallsMatch
<1>3. GateHeld'
  BY DEF GateHeld
<1>4. RowsAreDrawn'
  BY DEF RowsAreDrawn
<1>5. IssuesAreFresh'
  BY DEF TypeOK, IssuesAreFresh
<1>6. CheckedStands'
  BY DEF TypeOK, CheckedStands
<1>7. ReloadIsFresh'
  BY DEF TypeOK, RowsAreDrawn, ReloadIsFresh, Reloading, Listed
<1>8. JoinIsFresh'
  BY DEF TypeOK, JoinIsFresh
<1>9. QED
  BY <1>1, <1>2, <1>3, <1>4, <1>5, <1>6, <1>7, <1>8

(* The listing of the credentials keeps the invariant.                     *)
LEMMA ListCredentialsStep ==
  ASSUME IInv, NEW w \in Workers, ListCredentials(w)
  PROVE  IInv'
<1> USE DEF IInv, ListCredentials, db, cache, Goto, Gated, Shaped
<1> Shaped
  BY CallShape
<1>1. TypeOK'
  BY JoinType DEF TypeOK
<1>2. CallsMatch'
  BY DEF TypeOK, CallsMatch
<1>3. GateHeld'
  BY DEF GateHeld
<1>4. RowsAreDrawn'
  BY DEF RowsAreDrawn
<1>5. IssuesAreFresh'
  BY DEF TypeOK, IssuesAreFresh
<1>6. CheckedStands'
  BY DEF TypeOK, CheckedStands
<1>7. ReloadIsFresh'
  BY DEF TypeOK, ReloadIsFresh, Reloading, Listed
<1>8. JoinIsFresh'
  BY DEF TypeOK, JoinIsFresh, ReloadIsFresh, Listed, Join
<1>9. QED
  BY <1>1, <1>2, <1>3, <1>4, <1>5, <1>6, <1>7, <1>8

(* The swap of the indices keeps the invariant.                            *)
LEMMA InstallStep ==
  ASSUME IInv, NEW w \in Workers, Install(w)
  PROVE  IInv'
<1> USE DEF IInv, Install, db, cache, Goto, Gated, Shaped
<1> Shaped
  BY CallShape
<1>1. TypeOK'
  BY AnswerType DEF TypeOK
<1>2. CallsMatch'
  BY DEF TypeOK, CallsMatch, Answer, NoCall
<1>3. GateHeld'
  BY DEF TypeOK, GateHeld, Answer, NoCall
<1>4. RowsAreDrawn'
  BY DEF RowsAreDrawn
<1>5. IssuesAreFresh'
  BY DEF TypeOK, IssuesAreFresh, Answer, NoCall
<1>6. CheckedStands'
  BY DEF TypeOK, CheckedStands, Answer, NoCall
<1>7. ReloadIsFresh'
  BY DEF TypeOK, ReloadIsFresh, Reloading, Listed, Answer, NoCall
<1>8. JoinIsFresh'
  BY DEF TypeOK, JoinIsFresh, Answer, NoCall
<1>9. QED
  BY <1>1, <1>2, <1>3, <1>4, <1>5, <1>6, <1>7, <1>8

(* A failed database call keeps the invariant.                             *)
LEMMA StoreFailsStep ==
  ASSUME IInv, NEW w \in Workers, StoreFails(w)
  PROVE  IInv'
<1> USE DEF IInv, StoreFails, db, cache, Goto, Gated, Shaped
<1> Shaped
  BY CallShape
<1>1. TypeOK'
  BY AnswerType DEF TypeOK
<1>2. CallsMatch'
  BY DEF TypeOK, CallsMatch, Answer, NoCall
<1>3. GateHeld'
  BY DEF TypeOK, GateHeld, Answer, NoCall
<1>4. RowsAreDrawn'
  BY DEF RowsAreDrawn
<1>5. IssuesAreFresh'
  BY DEF TypeOK, IssuesAreFresh, Answer, NoCall
<1>6. CheckedStands'
  BY DEF TypeOK, CheckedStands, Answer, NoCall
<1>7. ReloadIsFresh'
  BY DEF TypeOK, ReloadIsFresh, Reloading, Listed, Answer, NoCall
<1>8. JoinIsFresh'
  BY DEF TypeOK, JoinIsFresh, Answer, NoCall
<1>9. QED
  BY <1>1, <1>2, <1>3, <1>4, <1>5, <1>6, <1>7, <1>8

(* A restart keeps the invariant.                                          *)
LEMMA RestartStep ==
  ASSUME IInv, Restart
  PROVE  IInv'
<1> USE DEF IInv, Restart, db, cache, Goto, Gated, Shaped
<1> Shaped
  BY CallShape
<1>1. TypeOK'
  BY JoinType DEF TypeOK, Calls, NoCall, NoIndex, Index
<1>2. CallsMatch'
  BY DEF CallsMatch, NoCall
<1>3. GateHeld'
  BY DEF GateHeld, NoCall
<1>4. RowsAreDrawn'
  BY DEF RowsAreDrawn
<1>5. IssuesAreFresh'
  BY DEF IssuesAreFresh, NoCall
<1>6. CheckedStands'
  BY DEF CheckedStands, NoCall
<1>7. ReloadIsFresh'
  BY DEF ReloadIsFresh, Reloading, Listed, NoCall
<1>8. JoinIsFresh'
  BY DEF JoinIsFresh, NoCall
<1>9. QED
  BY <1>1, <1>2, <1>3, <1>4, <1>5, <1>6, <1>7, <1>8

-----------------------------------------------------------------------------
(* The initial state satisfies the invariant.                              *)
LEMMA InitInv == Init => IInv
BY DEF Init, IInv, TypeOK, Index, NoIndex, Calls, NoCall, CallsMatch, GateHeld,
       RowsAreDrawn, IssuesAreFresh, CheckedStands, ReloadIsFresh, Reloading,
       Listed, JoinIsFresh, Gated

(* A step that changes nothing keeps the invariant.                        *)
LEMMA StutterStep == IInv /\ UNCHANGED vars => IInv'
BY DEF vars, IInv, TypeOK, CallsMatch, GateHeld, RowsAreDrawn, IssuesAreFresh,
       CheckedStands, ReloadIsFresh, Reloading, Listed, JoinIsFresh

(* Every step keeps the invariant.                                         *)
LEMMA NextInv == IInv /\ [Next]_vars => IInv'
<1> SUFFICES ASSUME IInv, [Next]_vars PROVE IInv'
  OBVIOUS
<1>1. CASE UNCHANGED vars
  BY <1>1, StutterStep
<1>2. CASE Restart
  BY <1>2, RestartStep
<1>3. ASSUME NEW w \in Workers, Step(w) PROVE IInv'
  <2>1. ASSUME NEW k \in Keys, NEW aws \in BOOLEAN, Create(w, k, aws) PROVE IInv'
    BY <2>1, CreateStep
  <2>2. ASSUME NEW k \in Keys, Patch(w, k) PROVE IInv'
    <3>1. PICK change \in Changes :
            Enter(w, [op |-> "patch", key |-> k, change |-> change])
      BY <2>2 DEF Patch
    <3> DEFINE c == [op |-> "patch", key |-> k, change |-> change]
    <3>2. c \in Calls /\ c.op \in Gated
      BY DEF Calls, Gated
    <3>3. Enter(w, c)
      BY <3>1
    <3> HIDE DEF c
    <3>4. QED
      BY <3>2, <3>3, EnterStep
  <2>3. ASSUME NEW k \in Keys, Delete(w, k) PROVE IInv'
    <3> DEFINE c == [op |-> "delete", key |-> k]
    <3>1. c \in Calls /\ c.op \in Gated
      BY DEF Calls, Gated
    <3>2. Enter(w, c)
      BY <2>3 DEF Delete
    <3> HIDE DEF c
    <3>3. QED
      BY <3>1, <3>2, EnterStep
  <2>4. QED
    BY <1>3, <2>1, <2>2, <2>3, InsertStep, ReadForPatchStep, PutRowStep,
       FoundForDeleteStep, EraseStep, NotFoundStep, ListStep,
       ListCredentialsStep, InstallStep, StoreFailsStep DEF Step
<1>4. QED
  BY <1>1, <1>2, <1>3 DEF Next

(* The invariant holds in every reachable state.                           *)
THEOREM InvCorrect == Spec => []IInv
BY InitInv, NextInv, PTL DEF Spec

(* Every reachable state of the tables, indices and calls is well typed.   *)
THEOREM TypeCorrect == Spec => []TypeOK
<1>1. IInv => TypeOK
  BY DEF IInv
<1>2. QED
  BY <1>1, InvCorrect, PTL

-----------------------------------------------------------------------------
(* Where a step leaves the rows and credentials alone, every life goes on. *)
LEMMA LifeGoesOn ==
  ASSUME UNCHANGED db
  PROVE  UNCHANGED Life
BY DEF db, Life

(* When no other life changes, the lives change at one key.                *)
LEMMA OneLifeChanges ==
  ASSUME NEW k \in Keys, \A x \in Keys \ {k} : Life'[x] = Life[x]
  PROVE  Life' = [Life EXCEPT ![k] = Life'[k]]
<1> DEFINE f == Life
           g == Life'
<1>1. f = [x \in Keys |-> f[x]] /\ g = [x \in Keys |-> g[x]]
  BY DEF Life
<1>2. \A x \in Keys \ {k} : g[x] = f[x]
  OBVIOUS
<1> HIDE DEF f, g
<1>3. g = [f EXCEPT ![k] = g[k]]
  BY <1>1, <1>2
<1>4. QED
  BY <1>3 DEF f, g

(* A POST issues its key, whole.                                           *)
LEMMA InsertIssues ==
  ASSUME IInv, NEW w \in Workers, Insert(w)
  PROVE  Promise!Issue(call[w].key)
<1> DEFINE k == call[w].key
           l == [enabled |-> TRUE, capped |-> FALSE, aws |-> call[w].aws]
<1>1. /\ k \in Keys
      /\ call[w].aws \in BOOLEAN
      /\ table[k] = NoRow /\ k \notin erased /\ k \notin creds
  BY CallShape DEF IInv, Insert, CallsMatch, Shaped, IssuesAreFresh, RowsAreDrawn
<1>2. Life[k] = Unborn
  BY <1>1 DEF Life
<1>3. /\ table' = [table EXCEPT ![k] = NewRow]
      /\ creds' = IF call[w].aws THEN creds \cup {k} ELSE creds
      /\ erased' = erased
      /\ table \in Index
  BY DEF Insert, IInv, TypeOK
<1>4. table'[k] = NewRow /\ \A x \in Keys \ {k} : table'[x] = table[x]
  BY <1>1, <1>3 DEF Index
<1>5. k \in creds' <=> call[w].aws
  BY <1>1, <1>3
<1>6. Life'[k] = l
  <2>1. Life'[k] = [enabled |-> NewRow.enabled, capped |-> NewRow.capped, aws |-> k \in creds']
    BY <1>1, <1>4, NewRowType DEF Life
  <2>2. (k \in creds') = call[w].aws
    BY <1>1, <1>5
  <2>3. QED
    BY <2>1, <2>2 DEF NewRow
<1>7. \A x \in Keys \ {k} : Life'[x] = Life[x]
  BY <1>3, <1>4 DEF Life
<1>8. Life' = [Life EXCEPT ![k] = l]
  BY <1>1, <1>6, <1>7, OneLifeChanges
<1>9. l \in Promise!Lives /\ l.enabled
  BY <1>1 DEF Promise!Lives
<1>10. QED
  BY <1>2, <1>8, <1>9 DEF Promise!Issue

(* A PATCH alters the field it names of the row as it stands.              *)
LEMMA PutRowChanges ==
  ASSUME IInv, NEW w \in Workers, PutRow(w)
  PROVE  Promise!Enable(call[w].key) \/ Promise!Limit(call[w].key)
<1> DEFINE k == call[w].key
           c == call[w].change
<1>1. k \in Keys /\ c \in Changes
  BY CallShape DEF IInv, PutRow, CallsMatch, Shaped
<1>2. table[k] # NoRow /\ row[w] = Patched(table[k], c) /\ row[w] # NoRow
  BY PutIsRow DEF IInv, PutRow, CheckedStands
<1>3. table[k] \in Rows
  BY <1>1, <1>2 DEF IInv, TypeOK, Index
<1>4. table' = [table EXCEPT ![k] = row[w]] /\ creds' = creds /\ erased' = erased
  BY DEF PutRow
<1>5. table'[k] = Patched(table[k], c) /\ \A x \in Keys \ {k} : table'[x] = table[x]
  BY <1>1, <1>2, <1>4 DEF IInv, TypeOK, Index
<1>6. /\ Life[k] = [enabled |-> table[k].enabled, capped |-> table[k].capped,
                    aws |-> k \in creds]
      /\ Life'[k] = [enabled |-> table'[k].enabled, capped |-> table'[k].capped,
                     aws |-> k \in creds]
  BY <1>1, <1>2, <1>4, <1>5 DEF Life
<1>7. \A x \in Keys \ {k} : Life'[x] = Life[x]
  BY <1>4, <1>5 DEF Life
<1>8. Life[k] \in Promise!Lives
  BY <1>3, <1>6 DEF Promise!Lives, Rows
<1>9. CASE c.field = "enabled"
  <2>1. table'[k].enabled = c.to /\ table'[k].capped = table[k].capped
    BY <1>3, <1>5, <1>9 DEF Patched, Rows
  <2>2. Life'[k] = [Life[k] EXCEPT !.enabled = c.to]
    BY <1>6, <2>1
  <2>3. Life' = [Life EXCEPT ![k] = [Life[k] EXCEPT !.enabled = c.to]]
    <3>1. Life' = [Life EXCEPT ![k] = Life'[k]]
      BY <1>1, <1>7, OneLifeChanges
    <3>2. QED
      BY <2>2, <3>1
  <2>4. QED
    BY <1>1, <1>8, <2>3 DEF Promise!Enable, Changes
<1>10. CASE c.field = "capped"
  <2>1. table'[k].capped = c.to /\ table'[k].enabled = table[k].enabled
    BY <1>3, <1>5, <1>10 DEF Patched, Rows
  <2>2. Life'[k] = [Life[k] EXCEPT !.capped = c.to]
    BY <1>6, <2>1
  <2>3. Life' = [Life EXCEPT ![k] = [Life[k] EXCEPT !.capped = c.to]]
    <3>1. Life' = [Life EXCEPT ![k] = Life'[k]]
      BY <1>1, <1>7, OneLifeChanges
    <3>2. QED
      BY <2>2, <3>1
  <2>4. QED
    BY <1>1, <1>8, <2>3 DEF Promise!Limit, Changes
<1>11. QED
  BY <1>1, <1>9, <1>10 DEF Changes

(* A DELETE ends a life.                                                   *)
LEMMA EraseRevokes ==
  ASSUME IInv, NEW w \in Workers, Erase(w)
  PROVE  Promise!Revoke(call[w].key)
<1> DEFINE k == call[w].key
<1>1. k \in Keys /\ table[k] # NoRow
  BY CallShape DEF IInv, Erase, CallsMatch, Shaped, CheckedStands
<1>2. table[k] \in Rows
  BY <1>1 DEF IInv, TypeOK, Index
<1>3. Life[k] \in Promise!Lives
  BY <1>1, <1>2 DEF Life, Promise!Lives, Rows
<1>4. /\ table' = [table EXCEPT ![k] = NoRow]
      /\ creds' = creds \ {k}
      /\ erased' = erased \cup {k}
      /\ table \in Index
  BY DEF Erase, IInv, TypeOK
<1>5. table'[k] = NoRow /\ \A x \in Keys \ {k} : table'[x] = table[x]
  BY <1>1, <1>4 DEF Index
<1>6. Life'[k] = Revoked
  BY <1>1, <1>4, <1>5 DEF Life
<1>7. \A x \in Keys \ {k} : Life'[x] = Life[x]
  BY <1>4, <1>5 DEF Life
<1>8. Life' = [Life EXCEPT ![k] = Revoked]
  BY <1>1, <1>6, <1>7 DEF Life
<1>9. QED
  BY <1>3, <1>8 DEF Promise!Revoke

(* Every step is a step of a key's life, or leaves every life as it was.   *)
LEMMA StepIsLife == IInv /\ [Next]_vars => [Promise!Next]_Life
<1> SUFFICES ASSUME IInv, [Next]_vars PROVE [Promise!Next]_Life
  OBVIOUS
<1>1. CASE UNCHANGED db
  BY <1>1, LifeGoesOn
<1>2. ASSUME NEW w \in Workers, Insert(w) \/ PutRow(w) \/ Erase(w)
      PROVE  Promise!Next
  <2>1. call[w].key \in Keys
    BY <1>2, CallShape DEF IInv, CallsMatch, Shaped, Insert, PutRow, Erase
  <2>2. QED
    BY <1>2, <2>1, InsertIssues, PutRowChanges, EraseRevokes DEF Promise!Next
<1>3. ASSUME NEW w \in Workers, Step(w), ~(Insert(w) \/ PutRow(w) \/ Erase(w))
      PROVE  UNCHANGED db
  BY <1>3 DEF Step, Create, Patch, Delete, Enter, ReadForPatch, FoundForDelete,
              NotFound, List, ListCredentials, Install, StoreFails
<1>4. CASE UNCHANGED vars
  BY <1>1, <1>4 DEF vars, db
<1>5. CASE Restart
  BY <1>1, <1>5 DEF Restart
<1>6. QED
  BY <1>1, <1>2, <1>3, <1>4, <1>5 DEF Next

(* The rows and credentials implement KeyLife: no overlap of calls brings  *)
(* a key back, loses a PATCH or splits a key from its credential.          *)
THEOREM LifeCorrect == Spec => LifeOfAKey
<1>1. Init => Promise!Init
  BY DEF Init, Promise!Init, Life, NoIndex
<1>2. QED
  BY <1>1, StepIsLife, InvCorrect, PTL DEF Spec, LifeOfAKey, Promise!Spec

-----------------------------------------------------------------------------
(* What is installed on behalf of a call shows what the call has done.     *)
LEMMA InstallShows ==
  ASSUME IInv, NEW w \in Workers, NEW k \in Keys, call[w].key = k,
         pc[w] = "install", byHash' = listed[w], byAkid' = joined[w],
         UNCHANGED db
  PROVE  /\ call[w].op = "patch"  => table[k] # NoRow /\ Shows(k, table[k])'
         /\ call[w].op = "delete" => Shows(k, NoRow)'
         /\ call[w].op = "create" => k \in erased \/ ShowsIssue(k)
<1> USE DEF IInv, ReloadIsFresh, JoinIsFresh, Reloading, Listed, db
<1>1. CASE call[w].op = "patch"
  BY <1>1 DEF Shows
<1>2. CASE call[w].op = "delete"
  BY <1>2 DEF Shows, Gated
<1>3. CASE call[w].op = "create"
  BY <1>3 DEF ShowsIssue, Shows
<1>4. QED
  BY <1>1, <1>2, <1>3

(* So do the indices a restart loads.                                      *)
LEMMA RestartShows ==
  ASSUME IInv, NEW w \in Workers, NEW k \in Keys, call[w].key = k,
         pc[w] = "install", Restart
  PROVE  /\ call[w].op = "patch"  => table[k] # NoRow /\ Shows(k, table[k])'
         /\ call[w].op = "delete" => Shows(k, NoRow)'
         /\ call[w].op = "create" => k \in erased \/ ShowsIssue(k)
<1>1. /\ byHash'[k] = table[k] /\ table' = table /\ creds' = creds
      /\ byAkid'[k] = IF k \in creds THEN table[k] ELSE NoRow
  BY DEF Restart, Join, db
<1> USE DEF IInv, ReloadIsFresh, RowsAreDrawn, Reloading
<1>2. QED
  BY <1>1 DEF ShowsIssue, Shows

(* The moment a change is answered with success, both indices show it.     *)
THEOREM AnswersShow == Spec => AnswerIsVisible
<1> DEFINE Visible ==
      \A w \in Workers, k \in Keys : Installs(w) /\ call[w].key = k =>
       CASE call[w].op = "patch"  -> table[k] # NoRow /\ Shows(k, table[k])'
         [] call[w].op = "delete" -> Shows(k, NoRow)'
         [] call[w].op = "create" -> k \in erased \/ ShowsIssue(k)
<1>1. IInv /\ [Next]_vars => [Visible]_vars
  <2> SUFFICES ASSUME IInv, Next, NEW w \in Workers, NEW k \in Keys,
                      Installs(w), call[w].key = k
      PROVE  CASE call[w].op = "patch"  -> table[k] # NoRow /\ Shows(k, table[k])'
               [] call[w].op = "delete" -> Shows(k, NoRow)'
               [] call[w].op = "create" -> k \in erased \/ ShowsIssue(k)
    OBVIOUS
  <2>1. pc[w] = "install" /\ call[w] # NoCall /\ call'[w] = NoCall
    BY DEF Installs, IInv, CallsMatch
  <2>2. call[w].op \in {"create", "patch", "delete"}
    BY <2>1, CallShape DEF IInv, Shaped
  <2>3. CASE Restart
    BY <2>1, <2>2, <2>3, RestartShows
  <2>4. ASSUME NEW v \in Workers, Step(v) PROVE v = w /\ Install(w)
    BY <2>1, <2>4 DEF IInv, TypeOK, CallsMatch, Step, Create, Insert, Patch,
       Delete, Enter, ReadForPatch, PutRow, FoundForDelete, Erase, NotFound,
       List, ListCredentials, Install, StoreFails, Answer
  <2>5. CASE Install(w)
    BY <2>1, <2>2, <2>5, InstallShows DEF Install
  <2>6. QED
    BY <2>3, <2>4, <2>5 DEF Next
<1>2. QED
  BY <1>1, InvCorrect, PTL DEF Spec, AnswerIsVisible

-----------------------------------------------------------------------------
(* The indices change by a swap or by a restart.                           *)
LEMMA CacheChanges ==
  ASSUME IInv, [Next]_vars
  PROVE  \/ UNCHANGED cache
         \/ Restart
         \/ \E w \in Workers : Install(w)
BY DEF Next, vars, cache, Step, Create, Insert, Patch, Delete, Enter,
       ReadForPatch, PutRow, FoundForDelete, Erase, NotFound, List,
       ListCredentials, StoreFails

(* A revoked key stays out of both indices until a POST installs.          *)
THEOREM RevokedStays == Spec => RevokedStaysOut
<1> DEFINE Out ==
      \A k \in erased :
       /\ (Admits(byHash, k)' => Admits(byHash, k))
       /\ (Admits(byAkid, k)' => Admits(byAkid, k))
       \/ \E w \in Workers : Installs(w) /\ call[w].op = "create"
<1>1. IInv /\ [Next]_vars => [Out]_vars
  <2> SUFFICES ASSUME IInv, [Next]_vars, NEW k \in erased,
                      ~ \E w \in Workers : Installs(w) /\ call[w].op = "create"
      PROVE  /\ (Admits(byHash, k)' => Admits(byHash, k))
             /\ (Admits(byAkid, k)' => Admits(byAkid, k))
    OBVIOUS
  <2>1. k \in Keys /\ table[k] = NoRow
    BY DEF IInv, TypeOK, RowsAreDrawn
  <2>2. CASE UNCHANGED cache
    BY <2>2 DEF cache, Admits
  <2>3. CASE Restart
    <3>1. byHash'[k] = NoRow /\ byAkid'[k] = NoRow
      BY <2>1, <2>3 DEF Restart, Join
    <3>2. QED
      BY <3>1 DEF Admits
  <2>4. ASSUME NEW w \in Workers, Install(w)
        PROVE  byHash'[k] = NoRow /\ byAkid'[k] = NoRow
    <3>1. Installs(w)
      BY <2>4 DEF Installs, Install, Answer, IInv, TypeOK
    <3>2. call[w].op \in Gated
      BY <2>4, <3>1, CallShape DEF Install, IInv, CallsMatch, Shaped, Gated
    <3>3. listed[w][k] = NoRow
      BY <2>4, <3>2 DEF Install, IInv, ReloadIsFresh, Listed
    <3>4. QED
      BY <2>1, <2>4, <3>3 DEF Install, IInv, JoinIsFresh
  <2>5. QED
    BY <2>2, <2>3, <2>4, CacheChanges DEF Admits
<1>2. QED
  BY <1>1, InvCorrect, PTL DEF Spec, RevokedStaysOut
=============================================================================
