-------------------------- MODULE BlobServerProofs --------------------------
(***************************************************************************)
(* The properties of blobs hold for any blobs, requests and bounds.        *)
(***************************************************************************)
EXTENDS BlobServer, TLAPS

Inside == {"pay", "read", "write", "writing", "add", "commit", "rollback"}

\* A request knows its blob, and who is inside a transaction has the connection.
Exclusive ==
    \A r \in Requests :
        /\ ~At(r, "idle") => req[r].blob \in Blobs
        /\ req[r].pc \in Inside => conn = r

\* How far a request that is inside a transaction is.  A download changes no
\* row; an upload has added its own when it commits, and from the end of the
\* write on the file is whole.
Progress(r) ==
    /\ req[r].pc \in Inside \ {"commit"} => tx = blobs
    /\ At(r, "read") => req[r].method = "get"
    /\ req[r].pc \in {"write", "writing", "add"} => req[r].method # "get"
    /\ At(r, "add") => files[req[r].blob] = "whole"
    /\ At(r, "commit") /\ req[r].method = "get" => tx = blobs
    /\ At(r, "commit") /\ req[r].method # "get" =>
         /\ tx = [blobs EXCEPT ![req[r].blob] = @ + 1]
         /\ files[req[r].blob] = "whole"

StorageInv ==
    /\ Exclusive
    /\ RowHasFile
    /\ \A r \in Requests : Progress(r)

-----------------------------------------------------------------------------
(* Types *)

LEMMA IdleType == Idle \in RequestStates
BY DEF Idle, RequestStates

\* A price is at least one sat wherever there is one.
LEMMA PriceType ==
    ASSUME NEW length \in Nat, NEW c \in Nat, ~Panics(length, c)
    PROVE  QuoteAmountToPay(length, c) \in Nat \ {0}
<1>1. CASE length < 1024
  BY <1>1 DEF QuoteAmountToPay
<1>2. CASE ~(length < 1024)
  <2>1. c > 0
    BY <1>2 DEF Panics
  <2>2. length \div BPer4MB \in Nat
    BY DEF BPer4MB
  <2>3. (length \div BPer4MB) \div c \in Nat
    BY <2>1, <2>2
  <2> QED
    BY <2>3 DEF QuoteAmountToPay
<1> QED
  BY <1>1, <1>2

LEMMA CostType == TypeOK => \A method : Cost(method) \in Nat
BY BlobAssumption DEF TypeOK, Cost, BlobAssumption

\* Moving a request on changes nothing else of it.
LEMMA GoToType ==
    ASSUME TypeOK, NEW r \in Requests
    PROVE  /\ \A pc \in Inside \cup {"begin"} : GoTo(r, pc) => req' \in [Requests -> RequestStates]
           /\ \A pc : GoTo(r, pc) =>
                \A s \in Requests : req'[s] = IF s = r THEN [req[r] EXCEPT !.pc = pc] ELSE req[s]
<1>1. req[r] \in RequestStates
  BY DEF TypeOK
<1>2. \A pc \in Inside \cup {"begin"} : [req[r] EXCEPT !.pc = pc] \in RequestStates
  BY <1>1 DEF RequestStates, Inside
<1> QED
  BY <1>2 DEF TypeOK, GoTo

\* A step keeps every variable within its type.
LEMMA TypeNext == TypeOK /\ [Next]_vars => TypeOK'
<1> SUFFICES ASSUME TypeOK, [Next]_vars PROVE TypeOK'
  OBVIOUS
<1> USE BlobAssumption DEF BlobAssumption
<1>1. \A r \in Requests : req[r] \in RequestStates
  BY DEF TypeOK
<1>2. ASSUME NEW r \in Requests, NEW b \in Blobs, NEW e \in BOOLEAN, Get(r, b, e)
      PROVE  TypeOK'
  <2>1. [Idle EXCEPT !.pc = "lookup", !.method = "get", !.blob = b,
                     !.sats = quote[b].get, !.exact = e] \in RequestStates
    BY DEF Idle, RequestStates, TypeOK
  <2> QED
    BY <1>1, <1>2, <2>1 DEF Get, TypeOK
<1>3. ASSUME NEW r \in Requests, NEW b \in Blobs, Put(r, b)
      PROVE  TypeOK'
  <2>1. [Idle EXCEPT !.pc = "lookup", !.method = "put", !.blob = b,
                     !.sats = quote[b].put] \in RequestStates
    BY DEF Idle, RequestStates, TypeOK
  <2> QED
    BY <1>1, <1>3, <2>1 DEF Put, TypeOK
<1>4. ASSUME NEW r \in Requests, GetBlob(r)
      PROVE  TypeOK'
  <2>1. req' \in [Requests -> RequestStates]
    BY <1>4, GoToType, IdleType DEF GetBlob, TypeOK
  <2> QED
    BY <1>4, <2>1 DEF GetBlob, TypeOK
<1>5. ASSUME NEW r \in Requests, GetBlobLength(r)
      PROVE  TypeOK'
  <2>1. req' \in [Requests -> RequestStates]
    BY <1>5, GoToType DEF GetBlobLength
  <2> QED
    BY <1>5, <2>1 DEF GetBlobLength, TypeOK
<1>6. ASSUME NEW r \in Requests, BeginRequest(r)
      PROVE  TypeOK'
  <2>1. req' \in [Requests -> RequestStates]
    BY <1>6, GoToType DEF BeginRequest, Inside
  <2> QED
    BY <1>6, <2>1 DEF BeginRequest, BeginTransaction, TypeOK
<1>7. ASSUME NEW r \in Requests, Pay(r)
      PROVE  TypeOK'
  <2> DEFINE price == Price(req[r].blob, req[r].method)
  <2>1. \A pc \in Inside : [req[r] EXCEPT !.paid = TRUE, !.pc = pc] \in RequestStates
    BY <1>1 DEF RequestStates, Inside
  <2>2. req' \in [Requests -> RequestStates]
    <3>1. CASE GoTo(r, "rollback") \/ GoTo(r, "commit")
      BY <3>1, GoToType DEF Inside
    <3>2. ASSUME NEW pc \in {"read", "write"},
                 req' = [req EXCEPT ![r].paid = TRUE, ![r].pc = pc]
          PROVE  req' \in [Requests -> RequestStates]
      <4>1. [req[r] EXCEPT !.paid = TRUE, !.pc = pc] \in RequestStates
        BY <2>1 DEF Inside
      <4> QED
        BY <3>2, <4>1 DEF TypeOK
    <3> QED
      BY <1>7, <3>1, <3>2 DEF Pay
  <2>3. quote' \in [Blobs -> [get : Nat, put : Nat]]
    <3>1. ASSUME NEW q, quote' = [quote EXCEPT ![req[r].blob] = q],
                 req[r].blob \in Blobs => q \in [get : Nat, put : Nat]
          PROVE  quote' \in [Blobs -> [get : Nat, put : Nat]]
      BY <3>1 DEF TypeOK
    <3>2. ASSUME req[r].blob \in Blobs PROVE price \in Nat
      <4>1. Length[req[r].blob] \in Nat
        BY <3>2
      <4> QED
        BY <1>7, <4>1, CostType, PriceType DEF Pay, Price
    <3>3. ASSUME req[r].blob \in Blobs
          PROVE  /\ [quote[req[r].blob] EXCEPT !.get = price] \in [get : Nat, put : Nat]
                 /\ [quote[req[r].blob] EXCEPT !.put = price] \in [get : Nat, put : Nat]
      BY <3>2, <3>3 DEF TypeOK
    <3> QED
      BY <1>7, <3>1, <3>3 DEF Pay, TypeOK
  <2> QED
    BY <1>7, <2>2, <2>3 DEF Pay, TypeOK
<1>8. ASSUME NEW r \in Requests, ReadBlob(r)
      PROVE  TypeOK'
  <2>1. [req[r] EXCEPT !.sent = TRUE, !.pc = "commit"] \in RequestStates
    BY <1>1 DEF RequestStates
  <2>2. req' \in [Requests -> RequestStates]
    <3>1. CASE GoTo(r, "rollback") \/ GoTo(r, "commit")
      BY <3>1, GoToType DEF Inside
    <3>2. CASE req' = [req EXCEPT ![r].sent = TRUE, ![r].pc = "commit"]
      BY <3>2, <2>1 DEF TypeOK
    <3> QED
      BY <1>8, <3>1, <3>2 DEF ReadBlob
  <2> QED
    BY <1>8, <2>2 DEF ReadBlob, Fault, TypeOK
<1>9. ASSUME NEW r \in Requests, OpenFile(r) \/ WriteBlob(r) \/ AddBlob(r)
      PROVE  TypeOK'
  <2>1. req' \in [Requests -> RequestStates]
    BY <1>9, GoToType DEF OpenFile, WriteBlob, AddBlob, Inside
  <2>2. faults' \in Nat /\ tx' \in [Blobs -> Nat]
    BY <1>9 DEF OpenFile, WriteBlob, AddBlob, Fault, TypeOK
  <2>3. files' \in [Blobs -> {"absent", "torn", "whole"}]
    BY <1>9 DEF OpenFile, WriteBlob, AddBlob, TypeOK
  <2> QED
    BY <1>9, <2>1, <2>2, <2>3 DEF OpenFile, WriteBlob, AddBlob, TypeOK
<1>10. ASSUME NEW r \in Requests, Commit(r) \/ Rollback(r)
      PROVE  TypeOK'
  BY <1>10, IdleType DEF Commit, Rollback, TypeOK
<1>11. CASE BeginRotation \/ EndRotation
  BY <1>11 DEF BeginRotation, BeginTransaction, EndRotation, TypeOK
<1>15. CASE Restart
  <2>1. cost' \in Costs
    BY <1>15 DEF Restart
  <2>2. up' \in BOOLEAN
    BY <1>15, Zenon DEF Restart
  <2> QED
    BY <1>15, <2>1, <2>2 DEF Restart, TypeOK
<1>12. ASSUME Crash \/ \E r \in Requests : Panic(r)
       PROVE  TypeOK'
  <2>0. Die
    BY <1>12 DEF Crash, Panic
  <2>1. req' \in [Requests -> RequestStates]
    BY <2>0, IdleType DEF Die
  <2>2. up' \in BOOLEAN
    BY <2>0, Zenon DEF Die
  <2>3. faults' \in Nat
    BY <1>12 DEF Crash, Panic, Fault, TypeOK
  <2> QED
    BY <2>0, <2>1, <2>2, <2>3 DEF Die, TypeOK
<1>14. ASSUME NEW b \in Blobs, NEW length \in Claims, QuoteUpload(b, length)
       PROVE  TypeOK'
  <2>1. QuoteAmountToPay(length, Cost("put")) \in Nat
    BY <1>14, CostType, PriceType DEF QuoteUpload
  <2>2. quote' \in [Blobs -> [get : Nat, put : Nat]]
    BY <1>14, <2>1 DEF QuoteUpload, TypeOK
  <2> QED
    BY <1>14, <2>2 DEF QuoteUpload, TypeOK
<1>16. ASSUME NEW b \in Blobs, QuoteDownload(b)
       PROVE  TypeOK'
  <2>1. QuoteAmountToPay(0, Cost("get")) \in Nat
    BY CostType, PriceType DEF Panics
  <2>2. quote' \in [Blobs -> [get : Nat, put : Nat]]
    BY <1>16, <2>1 DEF QuoteDownload, TypeOK
  <2> QED
    BY <1>16, <2>2 DEF QuoteDownload, TypeOK
<1>13. CASE UNCHANGED vars
  BY <1>13 DEF vars, TypeOK
<1> QED
  BY <1>2, <1>3, <1>4, <1>5, <1>6, <1>7, <1>8, <1>9, <1>10, <1>11, <1>12,
     <1>13, <1>14, <1>15, <1>16 DEF Next, Wait, Work

\* Every variable stays within its type; in particular the transactions of
\* requests never leave a negative number of rows (sqlite.go:35).
THEOREM TypeCorrect == Spec => []TypeOK
<1>1. Init => TypeOK
  BY IdleType DEF Init, TypeOK
<1> QED
  BY <1>1, TypeNext, PTL DEF Spec

-----------------------------------------------------------------------------
(* The storage *)

LEMMA OnlyOwnerInside ==
    ASSUME Exclusive, NEW r \in Requests, req[r].pc \in Inside
    PROVE  /\ conn = r
           /\ \A s \in Requests : s # r => req[s].pc \notin Inside
BY DEF Exclusive

LEMMA NobodyInside ==
    ASSUME Exclusive, conn \notin Requests
    PROVE  \A s \in Requests : req[s].pc \notin Inside
BY DEF Exclusive

LEMMA FreeIsNobody == Free \notin Requests /\ Rotator \notin Requests /\ Leaked \notin Requests
BY HolderAssumption

\* A step of a request touches no other request, unless it ends the process.
LEMMA OtherRequests ==
    ASSUME TypeOK, NEW r \in Requests, Wait(r) \/ Work(r), ~Panic(r)
    PROVE  \A s \in Requests : s # r => req'[s] = req[s]
<1>1. CASE \E pc : GoTo(r, pc)
  BY <1>1, GoToType
<1>2. CASE GetBlob(r) \/ Pay(r) \/ ReadBlob(r) \/ Commit(r) \/ Rollback(r)
  BY <1>1, <1>2 DEF GetBlob, Pay, ReadBlob, Commit, Rollback, TypeOK
<1>3. CASE GetBlobLength(r) \/ BeginRequest(r) \/ OpenFile(r) \/ WriteBlob(r) \/ AddBlob(r)
  BY <1>1, <1>3 DEF GetBlobLength, BeginRequest, OpenFile, WriteBlob, AddBlob
<1> QED
  BY <1>2, <1>3 DEF Wait, Work

\* Who is outside of a transaction has nothing to keep.
LEMMA OutsideProgress ==
    ASSUME NEW r \in Requests, req[r].pc \notin Inside
    PROVE  Progress(r)
BY DEF Progress, At, Inside

\* A step that is taken while everybody else is outside has to be looked at for
\* its own request only.
LEMMA OneProgress ==
    ASSUME StorageInv, NEW r \in Requests,
           \A s \in Requests : s # r => req[s].pc \notin Inside,
           \A s \in Requests : s # r => req'[s] = req[s],
           req'[r].pc # "idle" => req'[r].blob \in Blobs,
           req'[r].pc \in Inside => conn' = r,
           RowHasFile', Progress(r)'
    PROVE  StorageInv'
<1>1. \A s \in Requests : s # r => req'[s].pc \notin Inside
  OBVIOUS
<1>2. \A s \in Requests : s # r => Progress(s)'
  BY <1>1 DEF Progress, At, Inside
<1>3. Exclusive'
  BY <1>1 DEF StorageInv, Exclusive, At
<1> QED
  BY <1>2, <1>3 DEF StorageInv

\* The states an upload or a download goes through.
LEMMA StorageNext == TypeOK /\ StorageInv /\ [Next]_vars => StorageInv'
<1> SUFFICES ASSUME TypeOK, StorageInv, [Next]_vars PROVE StorageInv'
  OBVIOUS
<1> USE FreeIsNobody DEF At
<1>1. Exclusive /\ RowHasFile
  BY DEF StorageInv
<1>0. \A r \in Requests : req[r] \in RequestStates
  BY DEF TypeOK
<1>2. ASSUME NEW r \in Requests, NEW b \in Blobs, NEW e \in BOOLEAN,
             Get(r, b, e) \/ Put(r, b)
      PROVE  StorageInv'
  <2>1. req'[r].pc = "lookup" /\ req'[r].blob = b
    <3>1. CASE Get(r, b, e)
      BY <3>1 DEF Get, TypeOK, Idle
    <3>2. CASE Put(r, b)
      BY <3>2 DEF Put, TypeOK, Idle
    <3> QED
      BY <1>2, <3>1, <3>2
  <2>2. \A s \in Requests : s # r => req'[s] = req[s]
    BY <1>2 DEF Get, Put, TypeOK
  <2>3. UNCHANGED <<conn, blobs, tx, files>>
    BY <1>2 DEF Get, Put
  <2> QED
    BY <2>1, <2>2, <2>3 DEF StorageInv, Exclusive, Progress, RowHasFile, Inside
<1>3. ASSUME NEW r \in Requests, GetBlob(r) \/ GetBlobLength(r)
      PROVE  StorageInv'
  <2>1. \A s \in Requests : req[s].pc \notin Inside
    BY <1>1, <1>3, NobodyInside DEF GetBlob, GetBlobLength
  <2>2. req'[r].pc \in {"begin", "idle"} /\ (req'[r].pc = "begin" => req'[r].blob \in Blobs)
    <3>1. CASE GoTo(r, "begin")
      <4>1. req'[r] = [req[r] EXCEPT !.pc = "begin"] /\ req[r].blob \in Blobs
        BY <1>1, <1>3, <3>1, GoToType DEF Exclusive, GetBlob, GetBlobLength
      <4> QED
        BY <1>0, <4>1 DEF RequestStates
    <3>2. CASE req' = [req EXCEPT ![r] = Idle]
      BY <3>2 DEF TypeOK, Idle
    <3> QED
      BY <1>3, <3>1, <3>2 DEF GetBlob, GetBlobLength
  <2>3. \A s \in Requests : s # r => req'[s] = req[s]
    BY <1>3, OtherRequests DEF Wait, Panic, GetBlob, GetBlobLength
  <2>4. UNCHANGED <<blobs, tx, files>>
    BY <1>3 DEF GetBlob, GetBlobLength
  <2>5. RowHasFile' /\ Progress(r)'
    BY <1>1, <2>2, <2>4 DEF RowHasFile, Progress, Inside
  <2> QED
    BY <2>1, <2>2, <2>3, <2>5, OneProgress DEF Inside
<1>4. ASSUME NEW r \in Requests, BeginRequest(r)
      PROVE  StorageInv'
  <2>1. \A s \in Requests : req[s].pc \notin Inside
    BY <1>1, <1>4, NobodyInside DEF BeginRequest, BeginTransaction
  <2>2. req'[r] = [req[r] EXCEPT !.pc = "pay"] /\ req[r].blob \in Blobs
    BY <1>1, <1>4, GoToType DEF BeginRequest, Exclusive
  <2>3. req'[r].pc = "pay" /\ req'[r].blob \in Blobs
    BY <1>0, <2>2 DEF RequestStates
  <2>4. \A s \in Requests : s # r => req'[s] = req[s]
    BY <1>4, OtherRequests DEF Wait, Panic, BeginRequest
  <2>5. conn' = r /\ tx' = blobs /\ UNCHANGED <<blobs, files>>
    BY <1>4 DEF BeginRequest, BeginTransaction
  <2>6. RowHasFile' /\ Progress(r)'
    BY <1>1, <2>3, <2>5 DEF RowHasFile, Progress, Inside
  <2> QED
    BY <2>1, <2>3, <2>4, <2>5, <2>6, OneProgress
<1>5. ASSUME NEW r \in Requests, Work(r), ~Panic(r)
      PROVE  StorageInv'
  <2>1. req[r].pc \in Inside
    BY <1>5 DEF Work, Pay, ReadBlob, OpenFile, WriteBlob, AddBlob, Commit, Rollback, Inside
  <2>2. conn = r /\ \A s \in Requests : s # r => req[s].pc \notin Inside
    BY <1>1, <2>1, OnlyOwnerInside
  <2>3. \A s \in Requests : s # r => req'[s] = req[s]
    BY <1>5, OtherRequests
  <2>4. req[r].blob \in Blobs /\ Progress(r)
    BY <2>1 DEF StorageInv, Exclusive, Inside
  <2>5. ASSUME NEW pc \in Inside, GoTo(r, pc)
        PROVE  /\ req'[r].pc = pc
               /\ req'[r].blob = req[r].blob
               /\ req'[r].method = req[r].method
    <3>1. req'[r] = [req[r] EXCEPT !.pc = pc]
      BY <2>5, GoToType
    <3> QED
      BY <1>0, <3>1 DEF RequestStates
  <2>6. CASE Pay(r)
    <3>1. /\ req'[r].pc \in {"read", "write", "rollback", "commit"}
          /\ req'[r].blob = req[r].blob
          /\ req'[r].method = req[r].method
          /\ req'[r].pc \in {"read", "commit"} => req[r].method = "get"
          /\ req'[r].pc = "write" => req[r].method # "get"
      <4>1. CASE GoTo(r, "rollback") \/ (req[r].method = "get" /\ GoTo(r, "commit"))
        BY <2>5, <4>1 DEF Inside
      <4>2. ASSUME NEW pc \in {"read", "write"},
                   pc = IF req[r].method = "get" THEN "read" ELSE "write",
                   req' = [req EXCEPT ![r].paid = TRUE, ![r].pc = pc]
            PROVE  /\ req'[r].pc = pc
                   /\ req'[r].blob = req[r].blob
                   /\ req'[r].method = req[r].method
        <5>1. req'[r] = [req[r] EXCEPT !.paid = TRUE, !.pc = pc]
          BY <4>2 DEF TypeOK
        <5> QED
          BY <1>0, <5>1 DEF RequestStates
      <4> QED
        BY <2>6, <4>1, <4>2 DEF Pay
    <3>2. tx = blobs /\ UNCHANGED <<conn, blobs, tx, files>>
      BY <2>4, <2>6 DEF Pay, Progress, Inside
    <3>3. RowHasFile' /\ Progress(r)'
      BY <1>1, <3>1, <3>2 DEF RowHasFile, Progress, Inside
    <3> QED
      BY <2>2, <2>3, <2>4, <3>1, <3>2, <3>3, OneProgress
  <2>7. CASE ReadBlob(r)
    <3>1. /\ req'[r].pc \in {"rollback", "commit"}
          /\ req'[r].blob = req[r].blob
          /\ req'[r].method = "get"
      <4>1. req[r].method = "get"
        BY <2>4, <2>7 DEF ReadBlob, Progress
      <4>2. CASE GoTo(r, "rollback") \/ GoTo(r, "commit")
        BY <2>5, <4>1, <4>2 DEF Inside
      <4>3. CASE req' = [req EXCEPT ![r].sent = TRUE, ![r].pc = "commit"]
        <5>1. req'[r] = [req[r] EXCEPT !.sent = TRUE, !.pc = "commit"]
          BY <4>3 DEF TypeOK
        <5> QED
          BY <1>0, <4>1, <5>1 DEF RequestStates
      <4> QED
        BY <2>7, <4>2, <4>3 DEF ReadBlob
    <3>2. tx = blobs /\ UNCHANGED <<conn, blobs, tx, files>>
      BY <2>4, <2>7 DEF ReadBlob, Progress, Inside
    <3>3. RowHasFile' /\ Progress(r)'
      BY <1>1, <3>1, <3>2 DEF RowHasFile, Progress, Inside
    <3> QED
      BY <2>2, <2>3, <2>4, <3>1, <3>2, <3>3, OneProgress
  <2>8. CASE OpenFile(r) \/ WriteBlob(r)
    <3>1. /\ req'[r].pc \in {"rollback", "writing", "add"}
          /\ req'[r].blob = req[r].blob
          /\ req'[r].method # "get"
          /\ req'[r].pc = "add" => files' = [files EXCEPT ![req[r].blob] = "whole"]
      BY <2>4, <2>5, <2>8 DEF OpenFile, WriteBlob, Progress, Inside
    <3>2. tx = blobs /\ UNCHANGED <<conn, blobs, tx>>
      BY <2>4, <2>8 DEF OpenFile, WriteBlob, Progress, Inside
    <3>3. RowHasFile'
      BY <1>1, <2>8, <3>2 DEF OpenFile, WriteBlob, RowHasFile, TypeOK
    <3>4. Progress(r)'
      BY <2>4, <3>1, <3>2 DEF Progress, Inside, TypeOK
    <3> QED
      BY <2>2, <2>3, <2>4, <3>1, <3>2, <3>3, <3>4, OneProgress
  <2>9. CASE AddBlob(r)
    <3>1. /\ req'[r].pc = "commit"
          /\ req'[r].blob = req[r].blob
          /\ req'[r].method = req[r].method
      BY <2>5, <2>9 DEF AddBlob, Inside
    <3>2. UNCHANGED <<conn, blobs, files>> /\ tx' = [blobs EXCEPT ![req[r].blob] = @ + 1]
      BY <2>4, <2>9 DEF AddBlob, Progress, Inside
    <3>3. files[req[r].blob] = "whole" /\ req[r].method # "get"
      BY <2>4, <2>9 DEF AddBlob, Progress
    <3>4. RowHasFile' /\ Progress(r)'
      BY <1>1, <3>1, <3>2, <3>3 DEF RowHasFile, Progress, Inside
    <3> QED
      BY <2>2, <2>3, <2>4, <3>1, <3>2, <3>4, OneProgress
  <2>10. CASE Commit(r) \/ Rollback(r)
    <3>1. req'[r].pc = "idle"
      BY <2>10 DEF Commit, Rollback, TypeOK, Idle
    <3>2. UNCHANGED files
      BY <2>10 DEF Commit, Rollback
    <3>3. RowHasFile'
      <4>1. CASE blobs' = blobs
        BY <1>1, <3>2, <4>1 DEF RowHasFile
      <4>2. CASE /\ blobs' = [blobs EXCEPT ![req[r].blob] = @ + 1]
                 /\ files[req[r].blob] = "whole"
        BY <1>1, <3>2, <4>2 DEF RowHasFile, TypeOK
      <4> QED
        BY <2>4, <2>10, <4>1, <4>2 DEF Commit, Rollback, Progress
    <3>4. Progress(r)'
      BY <3>1 DEF Progress, Inside
    <3> QED
      BY <2>2, <2>3, <3>1, <3>3, <3>4, OneProgress DEF Inside
  <2> QED
    BY <1>5, <2>6, <2>7, <2>8, <2>9, <2>10 DEF Work
<1>6. CASE BeginRotation \/ EndRotation
  <2>1. \A s \in Requests : req[s].pc \notin Inside
    BY <1>1, <1>6, NobodyInside DEF BeginRotation, BeginTransaction, EndRotation
  <2>2. UNCHANGED <<req, blobs, files>>
    BY <1>6 DEF BeginRotation, EndRotation
  <2> QED
    BY <2>1, <2>2 DEF StorageInv, Exclusive, Progress, RowHasFile, Inside
<1>7. ASSUME Die
      PROVE  StorageInv'
  BY <1>7 DEF Die, StorageInv, Exclusive, Progress, RowHasFile, Idle, Inside
<1>8. CASE Restart \/ UNCHANGED vars
  BY <1>8 DEF Restart, vars, StorageInv, Exclusive, Progress, RowHasFile
<1>9. ASSUME NEW b \in Blobs, QuoteDownload(b) \/ \E length \in Claims : QuoteUpload(b, length)
      PROVE  StorageInv'
  BY <1>9 DEF QuoteUpload, QuoteDownload, StorageInv, Exclusive, Progress, RowHasFile
<1> QED
  BY <1>2, <1>3, <1>4, <1>5, <1>6, <1>7, <1>8, <1>9 DEF Next, Wait, Crash, Panic

LEMMA StorageInit == Init => StorageInv
BY DEF Init, StorageInv, Exclusive, RowHasFile, Progress, Idle, At, Inside

LEMMA StorageAlways == Spec => [](TypeOK /\ StorageInv)
<1>1. Init => TypeOK
  BY IdleType DEF Init, TypeOK
<1> QED
  BY <1>1, TypeNext, StorageInit, StorageNext, PTL DEF Spec

\* The property RowHasFile: whatever uploads fail or are cut short by a crash, a
\* row always has a file.
THEOREM RowsHaveFiles == Spec => []RowHasFile
<1>1. StorageInv => RowHasFile
  BY DEF StorageInv
<1> QED
  BY <1>1, StorageAlways, PTL

\* The property UploadIsDurable: a committed upload has its row, beside all rows
\* that were committed while it was under way, and a whole file.
THEOREM UploadsAreDurable == Spec => UploadIsDurable
<1> DEFINE Durable == \A r \in Requests :
         (Commit(r) /\ req[r].method = "put") =>
            /\ blobs' = [blobs EXCEPT ![req[r].blob] = @ + 1]
            /\ files[req[r].blob] = "whole"
<1>1. StorageInv => Durable
  BY DEF StorageInv, Progress, Commit, At
<1>2. StorageInv /\ [Next]_vars => [Durable]_vars
  BY <1>1
<1> QED
  BY <1>2, StorageAlways, PTL DEF UploadIsDurable, Spec

-----------------------------------------------------------------------------
(* Who pays is served, as long as nothing fails *)

\* Only a file that is being written is torn.
TornIsWritten ==
    \A b \in Blobs : files[b] = "torn" =>
        \E r \in Requests : At(r, "writing") /\ req[r].blob = b

Served(r) ==
    /\ req[r].pc \in {"lookup", "begin", "pay"} => ~req[r].paid
    /\ (At(r, "commit") /\ req[r].method = "get" /\ req[r].paid /\ req[r].exact)
          => req[r].sent

ServedInv == faults = 0 => TornIsWritten /\ \A r \in Requests : Served(r)

\* A fault is counted.
LEMMA NoFaultYet ==
    ASSUME TypeOK, [Next]_vars, faults' = 0
    PROVE  faults = 0 /\ \A kind : ~Fault(kind)
<1>1. faults \in Nat /\ \A kind : ~Fault(kind)
  BY DEF Fault, TypeOK
<1>2. UNCHANGED faults
  BY <1>1 DEF Next, Wait, Work, Get, Put, QuoteUpload, QuoteDownload, GetBlob, GetBlobLength,
     BeginRequest, Pay, Panic, ReadBlob, OpenFile, WriteBlob, AddBlob, Commit, Rollback,
     BeginRotation, EndRotation, Crash, Restart, vars
<1> QED
  BY <1>1, <1>2

\* Moving a request to any place but the commit, or one that did not pay.
LEMMA GoToServed ==
    ASSUME TypeOK, NEW r \in Requests, Served(r), NEW pc, GoTo(r, pc),
           pc \in {"lookup", "begin", "pay"} => ~req[r].paid,
           pc # "commit" \/ req[r].method # "get" \/ ~req[r].paid \/ ~req[r].exact
    PROVE  Served(r)'
<1>1. req'[r] = [req[r] EXCEPT !.pc = pc] /\ req[r] \in RequestStates
  BY GoToType DEF TypeOK
<1>2. /\ req'[r].pc = pc
      /\ req'[r].method = req[r].method
      /\ req'[r].paid = req[r].paid
      /\ req'[r].exact = req[r].exact
      /\ req'[r].sent = req[r].sent
  BY <1>1 DEF RequestStates
<1> QED
  BY <1>2 DEF Served, At

\* A step of a request that is not writing leaves the torn files to their writer.
LEMMA TornUnchanged ==
    ASSUME TornIsWritten, UNCHANGED files, NEW r \in Requests, ~At(r, "writing"),
           \A s \in Requests : s # r => req'[s] = req[s]
    PROVE  TornIsWritten'
BY DEF TornIsWritten, At

LEMMA ServedNext ==
    ASSUME TypeOK, StorageInv, ServedInv, [Next]_vars
    PROVE  ServedInv'
<1> SUFFICES ASSUME faults' = 0 PROVE ServedInv'
  BY DEF ServedInv
<1> USE DEF At
<1>1. \A r \in Requests : req[r] \in RequestStates
  BY DEF TypeOK
<1>2. \A kind : ~Fault(kind)
  BY NoFaultYet
<1>3. TornIsWritten /\ \A r \in Requests : Served(r)
  BY NoFaultYet DEF ServedInv
<1>4. ASSUME NEW r \in Requests, NEW b \in Blobs, NEW e \in BOOLEAN,
             Get(r, b, e) \/ Put(r, b)
      PROVE  ServedInv'
  <2>1. \A s \in Requests : s # r => req'[s] = req[s]
    BY <1>4 DEF Get, Put, TypeOK
  <2>2. req'[r].pc = "lookup" /\ ~req'[r].paid
    <3>1. CASE Get(r, b, e)
      BY <3>1 DEF Get, TypeOK, Idle
    <3>2. CASE Put(r, b)
      BY <3>2 DEF Put, TypeOK, Idle
    <3> QED
      BY <1>4, <3>1, <3>2
  <2>3. TornIsWritten'
    BY <1>3, <1>4, <2>1, TornUnchanged DEF Get, Put
  <2> QED
    BY <1>3, <2>1, <2>2, <2>3 DEF ServedInv, Served
<1>5. ASSUME NEW r \in Requests, Wait(r) \/ Work(r),
             ~Panic(r), ~OpenFile(r), ~WriteBlob(r)
      PROVE  ServedInv'
  <2>1. \A s \in Requests : s # r => req'[s] = req[s]
    BY <1>5, OtherRequests
  <2>2. UNCHANGED files /\ req[r].pc # "writing"
    BY <1>5 DEF Wait, Work, GetBlob, GetBlobLength, BeginRequest, Pay, ReadBlob, AddBlob,
       Commit, Rollback
  <2>3. TornIsWritten'
    BY <1>3, <2>1, <2>2, TornUnchanged
  <2>4. Served(r)'
    <3>1. CASE req' = [req EXCEPT ![r] = Idle]
      BY <3>1 DEF Served, TypeOK, Idle
    <3>2. CASE GetBlob(r) \/ GetBlobLength(r) \/ BeginRequest(r)
      <4>1. ~req[r].paid
        BY <1>3, <3>2 DEF GetBlob, GetBlobLength, BeginRequest, Served
      <4> QED
        BY <1>3, <3>1, <3>2, <4>1, GoToServed DEF GetBlob, GetBlobLength, BeginRequest
    <3>3. CASE Pay(r)
      <4>1. ~req[r].paid
        BY <1>3, <3>3 DEF Pay, Served
      <4>2. ASSUME NEW pc \in {"read", "write"},
                   req' = [req EXCEPT ![r].paid = TRUE, ![r].pc = pc]
            PROVE  Served(r)'
        <5>1. req'[r] = [req[r] EXCEPT !.paid = TRUE, !.pc = pc]
          BY <4>2 DEF TypeOK
        <5>2. req'[r].pc = pc
          BY <1>1, <5>1 DEF RequestStates
        <5> QED
          BY <5>2 DEF Served
      <4> QED
        BY <1>3, <3>3, <4>1, <4>2, GoToServed DEF Pay
    <3>4. CASE ReadBlob(r)
      <4>1. files[req[r].blob] # "torn"
        <5>1. req[r].blob \in Blobs /\ req[r].pc = "read"
          BY <3>4 DEF ReadBlob, StorageInv, Exclusive
        <5>2. \A s \in Requests : req[s].pc # "writing"
          BY <5>1 DEF StorageInv, Exclusive, Inside
        <5> QED
          BY <1>3, <5>1, <5>2 DEF TornIsWritten
      <4>2. CASE req' = [req EXCEPT ![r].sent = TRUE, ![r].pc = "commit"]
        <5>1. req'[r] = [req[r] EXCEPT !.sent = TRUE, !.pc = "commit"]
          BY <4>2 DEF TypeOK
        <5>2. req'[r].sent /\ req'[r].pc = "commit"
          BY <1>1, <5>1 DEF RequestStates
        <5> QED
          BY <5>2 DEF Served
      <4>3. CASE GoTo(r, "rollback") \/ (GoTo(r, "commit") /\ ~req[r].exact)
        BY <1>3, <4>3, GoToServed
      <4> QED
        BY <3>4, <4>1, <4>2, <4>3 DEF ReadBlob
    <3>5. CASE AddBlob(r)
      <4>1. req[r].method # "get"
        BY <3>5 DEF AddBlob, StorageInv, Progress
      <4> QED
        BY <1>3, <3>5, <4>1, GoToServed DEF AddBlob
    <3> QED
      BY <1>5, <3>1, <3>2, <3>3, <3>4, <3>5 DEF Wait, Work, Commit, Rollback
  <2> QED
    BY <1>3, <2>1, <2>3, <2>4 DEF ServedInv, Served
<1>6. ASSUME NEW r \in Requests, OpenFile(r) \/ WriteBlob(r)
      PROVE  ServedInv'
  <2>1. \A s \in Requests : s # r => req'[s] = req[s]
    BY <1>6, OtherRequests DEF Work, Panic, OpenFile, WriteBlob
  <2>2. PICK pc \in {"writing", "add"} : GoTo(r, pc)
    BY <1>2, <1>6 DEF OpenFile, WriteBlob
  <2>3. Served(r)'
    BY <1>3, <2>2, GoToServed
  <2>4. req'[r] = [req[r] EXCEPT !.pc = pc]
    BY <2>2, GoToType
  <2>5. req'[r].pc = pc /\ req'[r].blob = req[r].blob
    BY <1>1, <2>4 DEF RequestStates
  <2>6. \A s \in Requests : s # r => req[s].pc # "writing"
    BY <1>6 DEF StorageInv, Exclusive, Inside, OpenFile, WriteBlob
  <2>7. TornIsWritten'
    <3>1. CASE OpenFile(r)
      <4>1. /\ files' = [files EXCEPT ![req[r].blob] = "torn"]
            /\ GoTo(r, "writing")
            /\ req[r].pc = "write"
        BY <1>2, <3>1 DEF OpenFile
      <4>2. req'[r].pc = "writing"
        <5>1. req'[r] = [req[r] EXCEPT !.pc = "writing"]
          BY <4>1, GoToType
        <5> QED
          BY <1>1, <5>1 DEF RequestStates
      <4>3. \A b \in Blobs : files'[b] = "torn" => b = req[r].blob
        BY <1>3, <2>6, <4>1 DEF TornIsWritten, TypeOK
      <4> QED
        BY <2>5, <4>2, <4>3 DEF TornIsWritten
    <3>2. CASE WriteBlob(r)
      <4>1. files' = [files EXCEPT ![req[r].blob] = "whole"]
        BY <1>2, <3>2 DEF WriteBlob
      <4>2. \A b \in Blobs : files'[b] # "torn"
        BY <1>3, <2>6, <4>1 DEF TornIsWritten, TypeOK
      <4> QED
        BY <4>2 DEF TornIsWritten
    <3> QED
      BY <1>6, <3>1, <3>2
  <2> QED
    BY <1>3, <2>1, <2>3, <2>7 DEF ServedInv, Served
<1>7. CASE BeginRotation \/ EndRotation \/ Restart \/ UNCHANGED vars
  BY <1>3, <1>7 DEF BeginRotation, EndRotation, Restart, vars, ServedInv, TornIsWritten, Served
<1>8. ~Crash
  BY <1>2 DEF Crash
<1>9. ASSUME NEW r \in Requests, Panic(r)
      PROVE  ServedInv'
  <2>1. \A s \in Requests : req[s].pc # "writing"
    BY <1>9 DEF Panic, StorageInv, Exclusive, Inside
  <2>2. UNCHANGED files /\ req' = [s \in Requests |-> Idle]
    BY <1>9 DEF Panic, Die
  <2> QED
    BY <1>3, <2>1, <2>2 DEF ServedInv, TornIsWritten, Served, Idle
<1>10. ASSUME NEW b \in Blobs, QuoteDownload(b) \/ \E length \in Claims : QuoteUpload(b, length)
       PROVE  ServedInv'
  BY <1>3, <1>10 DEF QuoteUpload, QuoteDownload, ServedInv, TornIsWritten, Served
<1> QED
  BY <1>4, <1>5, <1>6, <1>7, <1>8, <1>9, <1>10 DEF Next, Wait, Work

\* The property PaidIsServed: while nothing fails, whoever pays for a correctly
\* spelled download is sent the blob, whatever else is uploaded and downloaded.
THEOREM PaidAreServed == Spec => []PaidIsServed
<1>1. Init => ServedInv
  BY DEF Init, ServedInv, TornIsWritten, Served, Idle, At
<1>2. TypeOK /\ StorageInv /\ ServedInv /\ [Next]_vars => ServedInv'
  BY ServedNext
<1>3. ServedInv => PaidIsServed
  BY DEF ServedInv, Served, PaidIsServed
<1> QED
  BY <1>1, <1>2, <1>3, StorageAlways, PTL DEF Spec

-----------------------------------------------------------------------------
(* Who is served has paid *)

ChargedInv ==
    \A r \in Requests :
        /\ At(r, "read") => req[r].paid
        /\ req[r].sent => At(r, "commit") /\ req[r].paid

\* A request that has not been sent anything is moved on.
LEMMA GoToCharged ==
    ASSUME TypeOK, ChargedInv, NEW r \in Requests, ~At(r, "commit"),
           NEW pc \in (Inside \cup {"begin"}) \ {"read"}, GoTo(r, pc)
    PROVE  req'[r].pc # "read" /\ ~req'[r].sent
<1>1. req'[r] = [req[r] EXCEPT !.pc = pc] /\ req[r] \in RequestStates
  BY GoToType DEF TypeOK
<1>2. ~req[r].sent
  BY DEF ChargedInv
<1> QED
  BY <1>1, <1>2 DEF RequestStates

LEMMA ChargedNext == TypeOK /\ ChargedInv /\ [Next]_vars => ChargedInv'
<1> SUFFICES ASSUME TypeOK, ChargedInv, [Next]_vars PROVE ChargedInv'
  OBVIOUS
<1> USE DEF At
<1>1. \A r \in Requests : req[r] \in RequestStates
  BY DEF TypeOK
<1>2. ASSUME NEW r \in Requests, NEW b \in Blobs, NEW e \in BOOLEAN,
             Get(r, b, e) \/ Put(r, b)
      PROVE  ChargedInv'
  <2>1. \A s \in Requests : s # r => req'[s] = req[s]
    BY <1>2 DEF Get, Put, TypeOK
  <2>2. req'[r].pc = "lookup" /\ ~req'[r].sent
    <3>1. CASE Get(r, b, e)
      BY <3>1 DEF Get, TypeOK, Idle
    <3>2. CASE Put(r, b)
      BY <3>2 DEF Put, TypeOK, Idle
    <3> QED
      BY <1>2, <3>1, <3>2
  <2> QED
    BY <2>1, <2>2 DEF ChargedInv
<1>3. ASSUME NEW r \in Requests, Wait(r) \/ Work(r), ~Panic(r)
      PROVE  ChargedInv'
  <2>1. \A s \in Requests : s # r => req'[s] = req[s]
    BY <1>3, OtherRequests
  <2>2. \/ req'[r].pc # "read" /\ ~req'[r].sent
        \/ req'[r].pc = "read" /\ req'[r].paid /\ ~req'[r].sent
        \/ req'[r].pc = "commit" /\ req'[r].paid
    <3>1. CASE req' = [req EXCEPT ![r] = Idle]
      BY <3>1 DEF TypeOK, Idle
    <3>2. CASE \/ GetBlob(r) \/ GetBlobLength(r) \/ BeginRequest(r)
               \/ OpenFile(r) \/ WriteBlob(r) \/ AddBlob(r)
      BY <3>1, <3>2, GoToCharged DEF GetBlob, GetBlobLength, BeginRequest, OpenFile,
         WriteBlob, AddBlob, Inside
    <3>3. CASE Pay(r)
      <4>1. ASSUME NEW pc \in {"read", "write"},
                   req' = [req EXCEPT ![r].paid = TRUE, ![r].pc = pc]
            PROVE  req'[r].pc = pc /\ req'[r].paid /\ ~req'[r].sent
        <5>1. req'[r] = [req[r] EXCEPT !.paid = TRUE, !.pc = pc]
          BY <4>1 DEF TypeOK
        <5>2. ~req[r].sent
          BY <3>3 DEF Pay, ChargedInv
        <5> QED
          BY <1>1, <5>1, <5>2 DEF RequestStates
      <4>2. CASE GoTo(r, "rollback") \/ GoTo(r, "commit")
        BY <3>3, <4>2, GoToCharged DEF Pay, Inside
      <4> QED
        BY <3>3, <4>1, <4>2 DEF Pay
    <3>4. CASE ReadBlob(r)
      <4>1. CASE req' = [req EXCEPT ![r].sent = TRUE, ![r].pc = "commit"]
        <5>1. req'[r] = [req[r] EXCEPT !.sent = TRUE, !.pc = "commit"]
          BY <4>1 DEF TypeOK
        <5>2. req[r].paid
          BY <3>4 DEF ReadBlob, ChargedInv
        <5> QED
          BY <1>1, <5>1, <5>2 DEF RequestStates
      <4>2. CASE GoTo(r, "rollback") \/ GoTo(r, "commit")
        BY <3>4, <4>2, GoToCharged DEF ReadBlob, Inside
      <4> QED
        BY <3>4, <4>1, <4>2 DEF ReadBlob
    <3> QED
      BY <1>3, <3>1, <3>2, <3>3, <3>4 DEF Wait, Work, Commit, Rollback
  <2> QED
    BY <2>1, <2>2 DEF ChargedInv
<1>4. ASSUME Die PROVE ChargedInv'
  BY <1>4 DEF Die, ChargedInv, Idle
<1>5. ASSUME UNCHANGED req PROVE ChargedInv'
  BY <1>5 DEF ChargedInv
<1> QED
  BY <1>2, <1>3, <1>4, <1>5 DEF Next, Panic, Crash, QuoteUpload, QuoteDownload,
     BeginRotation, EndRotation, Restart, vars

\* The property SentIsCharged: a download whose content went out loses it to the
\* end of the process only, or to the commit of its payment.
THEOREM SentAreCharged == Spec => SentIsCharged
<1> DEFINE Charge == \A r \in Requests :
         (req[r].sent /\ ~req'[r].sent) => ~up' \/ (Commit(r) /\ req[r].paid)
<1>1. Init => ChargedInv
  BY DEF Init, ChargedInv, Idle, At
<1>2. TypeOK /\ ChargedInv /\ [Next]_vars => [Charge]_vars
  <2> SUFFICES ASSUME TypeOK, ChargedInv, Next, NEW r \in Requests,
                      req[r].sent, ~req'[r].sent
               PROVE  ~up' \/ (Commit(r) /\ req[r].paid)
    BY Zenon
  <2>1. req[r].pc = "commit" /\ req[r].paid
    BY DEF ChargedInv, At
  <2>2. ASSUME NEW s \in Requests, NEW b \in Blobs, NEW e \in BOOLEAN,
               Get(s, b, e) \/ Put(s, b)
        PROVE  FALSE
    <3>1. req[s].pc = "idle" /\ \A t \in Requests : t # s => req'[t] = req[t]
      BY <2>2 DEF Get, Put, At, TypeOK
    <3> QED
      BY <2>1, <3>1
  <2>3. ASSUME NEW s \in Requests, Wait(s) \/ Work(s), ~Panic(s)
        PROVE  Commit(r)
    <3>1. s = r
      BY <2>3, OtherRequests
    <3> QED
      BY <2>1, <2>3, <3>1 DEF Wait, Work, GetBlob, GetBlobLength, BeginRequest, Pay,
         ReadBlob, OpenFile, WriteBlob, AddBlob, Rollback, At
  <2>4. Die => ~up'
    BY DEF Die
  <2> QED
    BY <2>1, <2>2, <2>3, <2>4 DEF Next, Panic, Crash, QuoteUpload, QuoteDownload,
       BeginRotation, EndRotation, Restart
<1> QED
  BY <1>1, <1>2, TypeCorrect, ChargedNext, PTL DEF Spec, SentIsCharged

-----------------------------------------------------------------------------
(* Prices *)

\* The cost divides the price (types.go:37): a higher DOWNLOAD_COST_2MB or
\* UPLOAD_COST_2MB never makes a blob dearer.
THEOREM DearerIsCheaper ==
    ASSUME NEW length \in Nat, NEW c \in Nat \ {0}, NEW d \in Nat, c <= d
    PROVE  QuoteAmountToPay(length, d) <= QuoteAmountToPay(length, c)
<1> DEFINE n == length \div BPer4MB
<1>1. n \in Nat
  BY DEF BPer4MB
<1>2. n \div d \in Nat /\ n \div c \in Nat /\ n \div d <= n \div c
  <2> HIDE DEF n
  <2> QED
    BY <1>1
<1> QED
  BY <1>2 DEF QuoteAmountToPay

=============================================================================
