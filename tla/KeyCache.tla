------------------------------ MODULE KeyCache ------------------------------
(***************************************************************************)
(* The virtual keys: the rows of the governance database, the two indices  *)
(* every request is authenticated against, and the admin calls that change *)
(* the first and then reload the second.  Each database call is a critical *)
(* section of its own (the connection mutex), so a reload is three steps:  *)
(* list the keys, list the credentials, swap both indices under the cache  *)
(* lock.  PATCH and DELETE run under EXISTENCE_GATE, POST does not.  A     *)
(* database call may fail, which answers 500, and the process may restart  *)
(* between any two steps.                                                  *)
(*                                                                         *)
(* A key stands for its random secret, its hash and its id, so no key is   *)
(* drawn twice.  Of a row the model keeps `enabled` and one cap.           *)
(***************************************************************************)
CONSTANTS Keys, Workers,
          NoRow,       \* no row, no entry
          Free,        \* nobody holds the gate
          Unborn, Revoked

Rows == [enabled : BOOLEAN, capped : BOOLEAN]

ASSUME NoRowIsNoRow == NoRow \notin Rows
ASSUME NobodyIsFree == Free \notin Workers

\* The bodies of a PATCH that name one field: another PATCH can lose those.
Changes == [field : {"enabled", "capped"}, to : BOOLEAN]

Patched(row, change) ==
  IF change.field = "enabled" THEN [row EXCEPT !.enabled = change.to]
                              ELSE [row EXCEPT !.capped = change.to]

Calls == [op : {"none"}]
           \cup [op : {"create"}, key : Keys, aws : BOOLEAN]
           \cup [op : {"patch"}, key : Keys, change : Changes]
           \cup [op : {"delete"}, key : Keys]

NoCall  == [op |-> "none"]
NoIndex == [k \in Keys |-> NoRow]

VARIABLES
  table,      \* virtual_keys: the row of each key
  creds,      \* aws_credentials: the keys that have one
  byHash,     \* the index a bearer secret is looked up in
  byAkid,     \* the index an AWS access key id is looked up in
  gate,       \* the holder of EXISTENCE_GATE
  pc,         \* the next step of each worker's call
  call,       \* the call it serves
  row,        \* the row its PATCH has read and changed
  listed,     \* the by_hash index its reload has built
  joined,     \* the by_access_key_id index its reload has built
  drawn,      \* the keys whose secret has been drawn
  erased      \* history: the keys a DELETE has removed

db    == <<table, creds, erased>>
cache == <<byHash, byAkid>>
work  == <<pc, call, row, listed, joined>>
vars  == <<table, creds, erased, byHash, byAkid, gate, pc, call, row, listed,
           joined, drawn>>

-----------------------------------------------------------------------------
\* The secret's key may be used when its index has it and it is enabled.
Admits(index, k) == IF index[k] = NoRow THEN FALSE ELSE index[k].enabled

\* An access key id resolves when its key was listed too.
Join(rows) == [k \in Keys |-> IF k \in creds THEN rows[k] ELSE NoRow]

\* Worker w answers: the closure returns and the gate's guard is dropped.
Answer(w) == /\ pc' = [pc EXCEPT ![w] = "idle"]
             /\ call' = [call EXCEPT ![w] = NoCall]
             /\ row' = [row EXCEPT ![w] = NoRow]
             /\ listed' = [listed EXCEPT ![w] = NoIndex]
             /\ joined' = [joined EXCEPT ![w] = NoIndex]
             /\ gate' = IF gate = w THEN Free ELSE gate

Goto(w, step) == pc' = [pc EXCEPT ![w] = step]

Init == /\ table = NoIndex
        /\ creds = {}
        /\ byHash = NoIndex
        /\ byAkid = NoIndex
        /\ gate = Free
        /\ pc = [w \in Workers |-> "idle"]
        /\ call = [w \in Workers |-> NoCall]
        /\ row = [w \in Workers |-> NoRow]
        /\ listed = [w \in Workers |-> NoIndex]
        /\ joined = [w \in Workers |-> NoIndex]
        /\ drawn = {}
        /\ erased = {}

-----------------------------------------------------------------------------
\* The row a POST asks for: enabled, and uncapped until a PATCH says otherwise.
NewRow == [enabled |-> TRUE, capped |-> FALSE]

\* A fresh secret; the id derived from it is found free.
Create(w, k, aws) ==
  /\ pc[w] = "idle"
  /\ k \notin drawn
  /\ table[k] = NoRow
  /\ drawn' = drawn \cup {k}
  /\ Goto(w, "insert")
  /\ call' = [call EXCEPT ![w] = [op |-> "create", key |-> k, aws |-> aws]]
  /\ UNCHANGED <<db, cache, gate, row, listed, joined>>

\* Key and credential in one transaction.
Insert(w) ==
  LET c == call[w] IN
  /\ pc[w] = "insert"
  /\ table' = [table EXCEPT ![c.key] = NewRow]
  /\ creds' = IF c.aws THEN creds \cup {c.key} ELSE creds
  /\ Goto(w, "list")
  /\ UNCHANGED <<erased, cache, gate, call, row, listed, joined, drawn>>

\* Mutant: the call is served without the gate
EnterUngated(w, c) ==
  /\ pc[w] = "idle"
  /\ Goto(w, "check")
  /\ call' = [call EXCEPT ![w] = c]
  /\ UNCHANGED <<db, cache, gate, row, listed, joined, drawn>>

\* PATCH and DELETE take the gate on the blocking thread.
Enter(w, c) ==
  /\ pc[w] = "idle"
  /\ gate = Free
  /\ gate' = w
  /\ Goto(w, "check")
  /\ call' = [call EXCEPT ![w] = c]
  /\ UNCHANGED <<db, cache, row, listed, joined, drawn>>

Patch(w, k) == \E change \in Changes :
                 Enter(w, [op |-> "patch", key |-> k, change |-> change])

Delete(w, k) == Enter(w, [op |-> "delete", key |-> k])

\* The row as it stands, with the field of the request replaced.
ReadForPatch(w) ==
  LET c == call[w] IN
  /\ pc[w] = "check"
  /\ c.op = "patch"
  /\ table[c.key] # NoRow
  /\ row' = [row EXCEPT ![w] = Patched(table[c.key], c.change)]
  /\ Goto(w, "put")
  /\ UNCHANGED <<db, cache, gate, call, listed, joined, drawn>>

\* Mutant: the gate covers the read and the write, not the reload
PutRowThenLetGo(w) ==
  /\ pc[w] = "put"
  /\ table' = [table EXCEPT ![call[w].key] = row[w]]
  /\ row' = [row EXCEPT ![w] = NoRow]
  /\ gate' = Free
  /\ Goto(w, "list")
  /\ UNCHANGED <<creds, erased, cache, call, listed, joined, drawn>>

\* An UPSERT on the id: it would insert a row that is gone.
PutRow(w) ==
  /\ pc[w] = "put"
  /\ table' = [table EXCEPT ![call[w].key] = row[w]]
  /\ row' = [row EXCEPT ![w] = NoRow]
  /\ Goto(w, "list")
  /\ UNCHANGED <<creds, erased, cache, gate, call, listed, joined, drawn>>

FoundForDelete(w) ==
  /\ pc[w] = "check"
  /\ call[w].op = "delete"
  /\ table[call[w].key] # NoRow
  /\ Goto(w, "erase")
  /\ UNCHANGED <<db, cache, gate, call, row, listed, joined, drawn>>

\* The row and its credential in one transaction.
Erase(w) ==
  LET k == call[w].key IN
  /\ pc[w] = "erase"
  /\ table' = [table EXCEPT ![k] = NoRow]
  /\ creds' = creds \ {k}
  /\ erased' = erased \cup {k}
  /\ Goto(w, "list")
  /\ UNCHANGED <<cache, gate, call, row, listed, joined, drawn>>

NotFound(w) ==
  /\ pc[w] = "check"
  /\ table[call[w].key] = NoRow
  /\ Answer(w)
  /\ UNCHANGED <<db, cache, drawn>>

-----------------------------------------------------------------------------
\* The reload every change ends with.
List(w) ==
  /\ pc[w] = "list"
  /\ listed' = [listed EXCEPT ![w] = table]
  /\ Goto(w, "join")
  /\ UNCHANGED <<db, cache, gate, call, row, joined, drawn>>

ListCredentials(w) ==
  /\ pc[w] = "join"
  /\ joined' = [joined EXCEPT ![w] = Join(listed[w])]
  /\ Goto(w, "install")
  /\ UNCHANGED <<db, cache, gate, call, row, listed, drawn>>

\* Mutant: the second index is left for later
InstallHashes(w) ==
  /\ pc[w] = "install"
  /\ byHash' = listed[w]
  /\ Answer(w)
  /\ UNCHANGED <<db, byAkid, drawn>>

Install(w) ==
  /\ pc[w] = "install"
  /\ byHash' = listed[w]
  /\ byAkid' = joined[w]
  /\ Answer(w)
  /\ UNCHANGED <<db, drawn>>

\* Any database call may fail: the change so far stays, the answer is a 500.
StoreFails(w) ==
  /\ pc[w] \in {"insert", "check", "put", "erase", "list", "join"}
  /\ Answer(w)
  /\ UNCHANGED <<db, cache, drawn>>

\* The process dies and comes back: the database is what it was, the indices
\* are loaded from it, no call survives.
Restart ==
  /\ byHash' = table
  /\ byAkid' = Join(table)
  /\ gate' = Free
  /\ pc' = [w \in Workers |-> "idle"]
  /\ call' = [w \in Workers |-> NoCall]
  /\ row' = [w \in Workers |-> NoRow]
  /\ listed' = [w \in Workers |-> NoIndex]
  /\ joined' = [w \in Workers |-> NoIndex]
  /\ UNCHANGED <<db, drawn>>

Step(w) == \/ \E k \in Keys : \/ \E aws \in BOOLEAN : Create(w, k, aws)
                              \/ Patch(w, k)
                              \/ Delete(w, k)
           \/ Insert(w)
           \/ ReadForPatch(w) \/ PutRow(w)
           \/ FoundForDelete(w) \/ Erase(w) \/ NotFound(w)
           \/ List(w) \/ ListCredentials(w) \/ Install(w)
           \/ StoreFails(w)

Next == Restart \/ \E w \in Workers : Step(w)

Spec == Init /\ [][Next]_vars

-----------------------------------------------------------------------------
(* Type correctness of the tables, the indices and the calls.              *)
Index == [Keys -> Rows \cup {NoRow}]

TypeOK == /\ table \in Index
          /\ creds \subseteq Keys
          /\ byHash \in Index
          /\ byAkid \in Index
          /\ gate \in Workers \cup {Free}
          /\ pc \in [Workers -> {"idle", "insert", "check", "put", "erase",
                                 "list", "join", "install"}]
          /\ call \in [Workers -> Calls]
          /\ row \in [Workers -> Rows \cup {NoRow}]
          /\ listed \in [Workers -> Index]
          /\ joined \in [Workers -> Index]
          /\ drawn \subseteq Keys
          /\ erased \subseteq drawn

(* A key's row and credential live the life the API promises: a PATCH that *)
(* overlaps a DELETE does not bring the key back (admin.rs:47), one PATCH  *)
(* does not undo another's field, and neither a failure nor a restart      *)
(* leaves a credential without its key or half of an issue                 *)
(* (governance.rs:437, 1707).                                              *)
Life == [k \in Keys |->
           IF table[k] # NoRow
           THEN [enabled |-> table[k].enabled, capped |-> table[k].capped,
                 aws |-> k \in creds]
           ELSE IF k \in erased /\ k \notin creds THEN Revoked ELSE Unborn]

Promise == INSTANCE KeyLife WITH life <- Life

LifeOfAKey == Promise!Spec

\* Worker w installs what it reloaded, on behalf of call c.
Installs(w) == pc[w] = "install" /\ byHash' = listed[w] /\ call'[w] = NoCall

Shows(k, r) == /\ byHash[k] = r
               /\ byAkid[k] = IF k \in creds THEN r ELSE NoRow

ShowsIssue(k) == byHash'[k] # NoRow /\ Shows(k, byHash[k])'

(* The moment a change is answered with success, both indices show it, on  *)
(* every path a request can be authenticated by: a PATCH and a DELETE      *)
(* exactly as they left the row; a POST, unless another call has revoked   *)
(* the key meanwhile, with the secret in one index and, when it issued an  *)
(* AWS credential, the same row under its access key id in the other       *)
(* (governance.rs:913).                                                    *)
AnswerIsVisible ==
  [][\A w \in Workers, k \in Keys : Installs(w) /\ call[w].key = k =>
       CASE call[w].op = "patch"  -> table[k] # NoRow /\ Shows(k, table[k])'
         [] call[w].op = "delete" -> Shows(k, NoRow)'
         [] call[w].op = "create" -> k \in erased \/ ShowsIssue(k)]_vars

(* A revoked key no index admits stays refused on both paths, whatever     *)
(* PATCHes, DELETEs, failures and restarts follow: only the reload of a    *)
(* POST, which no gate orders with the DELETE, can put it back             *)
(* (admin.rs:47).                                                          *)
RevokedStaysOut ==
  [][\A k \in erased :
       /\ (Admits(byHash, k)' => Admits(byHash, k))
       /\ (Admits(byAkid, k)' => Admits(byAkid, k))
       \/ \E w \in Workers : Installs(w) /\ call[w].op = "create"]_vars
=============================================================================
