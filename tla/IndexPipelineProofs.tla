------------------------ MODULE IndexPipelineProofs ------------------------
(* Theorems about IndexPipeline, for every set of handlers and every bound. *)
EXTENDS IndexPipeline, SequenceTheorems, TLAPS

-----------------------------------------------------------------------------
(* What each write to the stage_runs table does, row by row. *)

Attempts == [Stage -> Seq(Attempt)]

(* The fields that each update of a row sets and those it leaves alone.     *)
LEMMA MarkStaleFields ==
  ASSUME NEW a \in Attempt
  PROVE  /\ MarkStale(a) \in Attempt
         /\ MarkStale(a).stale = TRUE
         /\ MarkStale(a).status = a.status
         /\ MarkStale(a).manifests = a.manifests
         /\ MarkStale(a).stored = a.stored
         /\ MarkStale(a).from = a.from
         /\ MarkStale(MarkStale(a)) = MarkStale(a)
  BY DEF Attempt, MarkStale

LEMMA RestartFields ==
  ASSUME NEW a \in Attempt, NEW wasStale \in BOOLEAN
  PROVE  /\ Restart(a, wasStale) \in Attempt
         /\ Restart(a, wasStale).status = "running"
         /\ Restart(a, wasStale).manifests = a.manifests
         /\ Restart(a, wasStale).stored = a.stored
         /\ Restart(a, wasStale).from = a.from
  BY DEF Attempt, Restart, Status

LEMMA StoreFields ==
  ASSUME NEW a \in Attempt, NEW from \in Basis
  PROVE  /\ Store(a, from) \in Attempt
         /\ Store(a, from).status = a.status
         /\ Store(a, from).stale = a.stale
         /\ Store(a, from).manifests = a.manifests
         /\ Store(a, from).stored = TRUE
         /\ Store(a, from).from = from
  BY DEF Attempt, Store

LEMMA FinishFields ==
  ASSUME NEW a \in Attempt, NEW status \in Status
  PROVE  /\ Finish(a, status) \in Attempt
         /\ Finish(a, status).status = status
         /\ Finish(a, status).stale = FALSE
         /\ Finish(a, status).manifests = a.manifests
         /\ Finish(a, status).stored = a.stored
         /\ Finish(a, status).from = a.from
  BY DEF Attempt, Finish

LEMMA PublishFields ==
  ASSUME NEW a \in Attempt
  PROVE  /\ Publish(a) \in Attempt
         /\ Publish(a).status = "succeeded"
         /\ Publish(a).stale = FALSE
         /\ Publish(a).manifests = a.manifests + 1
         /\ Publish(a).stored = a.stored
         /\ Publish(a).from = a.from
<1> DEFINE f == Finish(a, "succeeded")
<1>1. /\ f \in Attempt
      /\ f.status = "succeeded" /\ f.stale = FALSE
      /\ f.manifests = a.manifests /\ f.stored = a.stored /\ f.from = a.from
  BY FinishFields DEF Status
<1>2. Publish(a) = [f EXCEPT !.manifests = f.manifests + 1]
  BY DEF Publish
<1> HIDE DEF f
<1>3. QED
  BY <1>1, <1>2 DEF Attempt

LEMMA NewRow ==
  ASSUME NEW status \in Status
  PROVE  /\ NewAttempt(status) \in Attempt
         /\ NewAttempt(status).status = status
         /\ NewAttempt(status).stale = FALSE
         /\ NewAttempt(status).manifests = 0
         /\ NewAttempt(status).stored = FALSE
  BY DEF NewAttempt, Attempt, NoBasis, Basis, Stage

WithRow(a, s, n, x)  == [a EXCEPT ![s] = [a[s] EXCEPT ![n] = x]]
WithNewRow(a, s, x)  == [a EXCEPT ![s] = Append(a[s], x)]

(* Updating one row leaves every other row and every count alone.           *)
LEMMA UpdateRow ==
  ASSUME NEW a \in Attempts, NEW s \in Stage, NEW n \in 1 .. Len(a[s]),
         NEW x \in Attempt
  PROVE  /\ WithRow(a, s, n, x) \in Attempts
         /\ \A t \in Stage : Len(WithRow(a, s, n, x)[t]) = Len(a[t])
         /\ \A t \in Stage : \A m \in 1 .. Len(a[t]) :
              WithRow(a, s, n, x)[t][m] = IF t = s /\ m = n THEN x ELSE a[t][m]
<1> DEFINE q == [a[s] EXCEPT ![n] = x]
           b == WithRow(a, s, n, x)
<1>1. a[s] \in Seq(Attempt)
  BY DEF Attempts
<1>2. /\ q \in Seq(Attempt)
      /\ Len(q) = Len(a[s])
      /\ \A j \in 1 .. Len(a[s]) : q[j] = IF j = n THEN x ELSE a[s][j]
  BY <1>1, ExceptSeq
<1>3. b = [a EXCEPT ![s] = q]
  BY DEF WithRow
<1> HIDE DEF q, b
<1>4. \A t \in Stage : b[t] = IF t = s THEN q ELSE a[t]
  BY <1>3 DEF Attempts
<1>5. b \in Attempts
  BY <1>2, <1>3 DEF Attempts
<1>6. QED
  BY <1>2, <1>4, <1>5 DEF b

(* Inserting a row after the latest one at its stage.                       *)
LEMMA InsertRow ==
  ASSUME NEW a \in Attempts, NEW s \in Stage, NEW x \in Attempt
  PROVE  /\ WithNewRow(a, s, x) \in Attempts
         /\ \A t \in Stage : Len(WithNewRow(a, s, x)[t])
                                = IF t = s THEN Len(a[t]) + 1 ELSE Len(a[t])
         /\ \A t \in Stage : \A m \in 1 .. Len(a[t]) :
              WithNewRow(a, s, x)[t][m] = a[t][m]
         /\ WithNewRow(a, s, x)[s][Len(a[s]) + 1] = x
<1> DEFINE q == Append(a[s], x)
           b == WithNewRow(a, s, x)
<1>1. a[s] \in Seq(Attempt)
  BY DEF Attempts
<1>2. /\ q \in Seq(Attempt)
      /\ Len(q) = Len(a[s]) + 1
      /\ \A j \in 1 .. Len(a[s]) : q[j] = a[s][j]
      /\ q[Len(a[s]) + 1] = x
  BY <1>1, AppendProperties
<1>3. b = [a EXCEPT ![s] = q]
  BY DEF WithNewRow
<1> HIDE DEF q, b
<1>4. \A t \in Stage : b[t] = IF t = s THEN q ELSE a[t]
  BY <1>3 DEF Attempts
<1>5. b \in Attempts
  BY <1>2, <1>3 DEF Attempts
<1>6. QED
  BY <1>2, <1>4, <1>5 DEF b

(* mark_stale_after keeps every row and changes only stale flags.           *)
LEMMA MarkStaleRows ==
  ASSUME NEW a \in Attempts, NEW s \in Stage
  PROVE  /\ MarkStaleAfter(s, a) \in Attempts
         /\ \A t \in Stage : Len(MarkStaleAfter(s, a)[t]) = Len(a[t])
         /\ \A t \in Stage : \A m \in 1 .. Len(a[t]) :
              MarkStaleAfter(s, a)[t][m]
                = IF t > s THEN MarkStale(a[t][m]) ELSE a[t][m]
<1> DEFINE b == MarkStaleAfter(s, a)
<1>1. ASSUME NEW t \in Stage
      PROVE  /\ b[t] \in Seq(Attempt)
             /\ Len(b[t]) = Len(a[t])
             /\ \A m \in 1 .. Len(a[t]) :
                  b[t][m] = IF t > s THEN MarkStale(a[t][m]) ELSE a[t][m]
  <2>1. a[t] \in Seq(Attempt)
    BY DEF Attempts
  <2>2. CASE t > s
    <3> DEFINE q == [n \in 1 .. Len(a[t]) |-> MarkStale(a[t][n])]
    <3>1. b[t] = q
      BY <2>2 DEF MarkStaleAfter
    <3>2. \A n \in 1 .. Len(a[t]) : MarkStale(a[t][n]) \in Attempt
      <4>1. TAKE n \in 1 .. Len(a[t])
      <4>2. a[t][n] \in Attempt
        BY <2>1, ElementOfSeq
      <4>3. QED
        BY <4>2, MarkStaleFields
    <3>3. Len(a[t]) \in Nat
      BY <2>1, LenProperties
    <3>4. q \in [1 .. Len(a[t]) -> Attempt]
      BY <3>2
    <3>5. q \in Seq(Attempt) /\ Len(q) = Len(a[t])
      BY <3>3, <3>4
    <3>6. QED
      BY <2>2, <3>1, <3>5
  <2>3. CASE ~(t > s)
    BY <2>1, <2>3 DEF MarkStaleAfter
  <2>4. QED
    BY <2>2, <2>3
<1>2. b \in Attempts
  BY <1>1 DEF Attempts, MarkStaleAfter
<1>3. QED
  BY <1>1, <1>2

-----------------------------------------------------------------------------
(* What each update of a request does. *)

Requests == [Handler -> Request]

LEMMA NewRequests ==
  /\ Idle \in Request /\ Idle.pc = "idle"
  /\ \A m \in Mode, s \in Stage :
       /\ EnterStage(m, s) \in Request
       /\ EnterStage(m, s).pc = "deps"
       /\ EnterStage(m, s).stage = s
       /\ EnterStage(m, s).mode = m
       /\ EnterStage(m, s).dep = SOURCE
  /\ \A r \in Request :
       /\ Raised(r) \in Request
       /\ Raised(r).pc \in {"idle", "mark_failed"}
       /\ NextStage(r) \in Request
       /\ NextStage(r).pc \in {"idle", "deps", "result"}
       /\ NextStage(r).pc = "deps" => NextStage(r).dep = SOURCE
<1>1. NoBasis \in Basis /\ SOURCE \in Stage
  BY DEF NoBasis, Basis, Stage, SOURCE, VECTORIZE
<1>2. \A m \in Mode, s \in Stage :
       /\ EnterStage(m, s) \in Request
       /\ EnterStage(m, s).pc = "deps"
       /\ EnterStage(m, s).stage = s
       /\ EnterStage(m, s).mode = m
       /\ EnterStage(m, s).dep = SOURCE
  BY <1>1 DEF EnterStage, Request, PC
<1>3. Idle \in Request /\ Idle.pc = "idle"
  BY <1>1 DEF Idle, EnterStage, Request, PC, Mode
<1>4. ASSUME NEW r \in Request
      PROVE  /\ Raised(r) \in Request
             /\ Raised(r).pc \in {"idle", "mark_failed"}
             /\ NextStage(r) \in Request
             /\ NextStage(r).pc \in {"idle", "deps", "result"}
             /\ NextStage(r).pc = "deps" => NextStage(r).dep = SOURCE
  <2>1. Raised(r) \in Request /\ Raised(r).pc \in {"idle", "mark_failed"}
    BY <1>3 DEF Raised, Request, PC
  <2>2. r.stage # VECTORIZE => r.stage + 1 \in Stage
    BY DEF Request, Stage, SOURCE, VECTORIZE
  <2>3. /\ [r EXCEPT !.pc = "result"] \in Request
        /\ [r EXCEPT !.pc = "result"].pc = "result"
    BY DEF Request, PC
  <2>4. QED
    BY <1>2, <1>3, <2>1, <2>2, <2>3 DEF NextStage, Request
<1>5. QED
  BY <1>2, <1>3, <1>4

-----------------------------------------------------------------------------
(* Type correctness, and the rows that handlers work on. *)

THEOREM InitRows == Init => TypeOK /\ RowInv
<1>1. SUFFICES ASSUME Init PROVE TypeOK /\ RowInv
  OBVIOUS
<1> DEFINE row == NewAttempt("pending")
<1>2. /\ row \in Attempt
      /\ row.status = "pending" /\ row.manifests = 0
  BY NewRow DEF Status
<1>3. /\ <<row>> \in Seq(Attempt)
      /\ Len(<<row>>) = 1
      /\ <<row>>[1] = row
  BY <1>2
<1>4. \A s \in Stage : attempts[s] = <<row>>
  BY <1>1 DEF Init
<1>5. \A h \in Handler : req[h].pc = "idle"
  BY <1>1, NewRequests DEF Init
<1>6. TypeOK
  <2>1. attempts \in [Stage -> Seq(Attempt)]
    BY <1>1, <1>3 DEF Init
  <2>2. NoBasis \in Basis
    BY DEF NoBasis, Basis
  <2>3. index \in Basis
    BY <1>1, <2>2 DEF Init
  <2>4. req \in [Handler -> Request]
    BY <1>1, NewRequests DEF Init
  <2>5. run \in Status /\ requests \in 0 .. MaxRequests /\ faults \in 0 .. MaxFaults
    BY <1>1, BoundsAssumption DEF Init, Status
  <2>6. \A s \in Stage : Len(attempts[s]) > 0
    BY <1>3, <1>4
  <2>7. QED
    BY <2>1, <2>3, <2>4, <2>5, <2>6 DEF TypeOK
<1> HIDE DEF row
<1>7. QED
  BY <1>2, <1>3, <1>4, <1>5, <1>6
  DEF RowInv, ClaimInv, Working, InPayload, RetryIsNotPending,
      ManifestsAreStored, OneHandlerPerRetry

(* The row a handler works on, as a lemma for the steps that write it.      *)
LEMMA WorkedRow ==
  ASSUME TypeOK, RowInv, NEW h \in Handler, Working(h)
  PROVE  /\ req[h] \in Request
         /\ req[h].stage \in Stage
         /\ req[h].seq \in 1 .. Len(attempts[req[h].stage])
         /\ attempts[req[h].stage][req[h].seq] \in Attempt
<1>1. req[h] \in Request /\ req[h].stage \in Stage
  BY DEF TypeOK, Request
<1>2. req[h].seq \in 1 .. Len(attempts[req[h].stage])
  BY DEF RowInv, ClaimInv
<1>3. attempts[req[h].stage] \in Seq(Attempt)
  BY <1>1 DEF TypeOK
<1>4. QED
  BY <1>1, <1>2, <1>3, ElementOfSeq

LEMMA LatestRow ==
  ASSUME TypeOK, NEW s \in Stage
  PROVE  Latest(s) \in Attempt /\ Len(attempts[s]) \in Nat
<1>1. attempts[s] \in Seq(Attempt) /\ Len(attempts[s]) > 0
  BY DEF TypeOK
<1>2. Len(attempts[s]) \in Nat
  BY <1>1, LenProperties
<1>3. QED
  BY <1>1, <1>2, ElementOfSeq DEF Latest

(* A step that writes no row: only the handler's own place changes, and it  *)
(* enters no stage and reaches no commit.                                   *)
LEMMA QuietStep ==
  ASSUME TypeOK, RowInv, NEW h \in Handler, NEW r \in Request,
         req' = [req EXCEPT ![h] = r],
         attempts' = attempts,
         run' \in Status,
         index' \in Basis,
         requests' \in 0 .. MaxRequests,
         faults' \in 0 .. MaxFaults,
         r.pc \in InPayload \cup {"fail"} =>
           Working(h) /\ r.stage = req[h].stage /\ r.seq = req[h].seq,
         r.pc = "start" => IF r.reuse THEN r.seq = 1 ELSE r.seq > 1,
         r.pc # "commit"
  PROVE  TypeOK' /\ RowInv'
<1>1. req' \in [Handler -> Request]
  BY DEF TypeOK
<1>2. req'[h] = r /\ \A g \in Handler : g # h => req'[g] = req[g]
  BY DEF TypeOK
<1>3. TypeOK'
  BY <1>1 DEF TypeOK
<1>4. \A g \in Handler : ClaimInv(g)'
  BY <1>2 DEF RowInv, ClaimInv, Working
<1>5. OneHandlerPerRetry'
  BY <1>2 DEF RowInv, OneHandlerPerRetry, Working
<1>6. RetryIsNotPending' /\ ManifestsAreStored'
  BY DEF RowInv, RetryIsNotPending, ManifestsAreStored
<1>7. QED
  BY <1>3, <1>4, <1>5, <1>6 DEF RowInv

(* A step that writes the row its handler works on: the files stay, the row *)
(* is not pending again, and if the handler goes on working, on a row that  *)
(* is still open.                                                           *)
LEMMA RowStep ==
  ASSUME TypeOK, RowInv, NEW h \in Handler, NEW r \in Request, NEW x \in Attempt,
         Working(h),
         req' = [req EXCEPT ![h] = r],
         attempts' = WithRow(attempts, req[h].stage, req[h].seq, x),
         run' \in Status,
         index' = index, requests' = requests, faults' = faults,
         x.status # "pending",
         x.manifests > 0 => x.stored,
         attempts[req[h].stage][req[h].seq].stored => x.stored,
         r.pc \in InPayload \cup {"fail"} =>
           /\ r.stage = req[h].stage /\ r.seq = req[h].seq
           /\ x.status = attempts[req[h].stage][req[h].seq].status
           /\ x.stored,
         r.pc # "start"
  PROVE  TypeOK' /\ RowInv'
<1> DEFINE s == req[h].stage
           n == req[h].seq
<1>1. /\ s \in Stage
      /\ n \in 1 .. Len(attempts[s])
  BY WorkedRow
<1>2. attempts \in Attempts
  BY DEF TypeOK, Attempts
<1>3. /\ attempts' \in Attempts
      /\ \A t \in Stage : Len(attempts'[t]) = Len(attempts[t])
      /\ \A t \in Stage : \A m \in 1 .. Len(attempts[t]) :
           attempts'[t][m] = IF t = s /\ m = n THEN x ELSE attempts[t][m]
  <2>1. attempts' = WithRow(attempts, s, n, x)
    OBVIOUS
  <2> HIDE DEF s, n
  <2>2. QED
    BY <1>1, <1>2, <2>1, UpdateRow
<1>4. req' \in [Handler -> Request]
  BY DEF TypeOK
<1>5. req'[h] = r /\ \A g \in Handler : g # h => req'[g] = req[g]
  BY DEF TypeOK
<1> HIDE DEF s, n
<1>6. TypeOK'
  BY <1>3, <1>4 DEF TypeOK, Attempts
<1>7. OneHandlerPerRetry'
  BY <1>5 DEF RowInv, OneHandlerPerRetry, Working, s, n
<1>8. \A t \in Stage : Len(attempts[t]) \in Nat
  BY LatestRow
<1>9. RetryIsNotPending' /\ ManifestsAreStored'
  BY <1>1, <1>3, <1>8 DEF RowInv, RetryIsNotPending, ManifestsAreStored
<1>10. ASSUME NEW g \in Handler PROVE ClaimInv(g)'
  <2>1. CASE g = h
    BY <1>1, <1>3, <1>5, <2>1 DEF RowInv, ClaimInv, Working, s, n
  <2>2. CASE g # h
    <3>1. req'[g] = req[g] /\ Working(g)' = Working(g)
      BY <1>5, <2>2 DEF Working
    <3>2. CASE ~Working(g)
      BY <3>1, <3>2 DEF RowInv, ClaimInv
    <3>3. CASE Working(g)
      <4>1. /\ req[g].stage \in Stage
            /\ req[g].seq \in 1 .. Len(attempts[req[g].stage])
        BY <3>3, WorkedRow
      <4>2. ~(req[g].stage = s /\ req[g].seq = n /\ n > 1)
        BY <1>1, <1>8, <2>2, <3>3 DEF RowInv, OneHandlerPerRetry, s, n
      <4>3. PICK t, m, row : t = req[g].stage /\ m = req[g].seq /\ row = attempts[t][m]
        OBVIOUS
      <4>4. /\ t \in Stage /\ m \in 1 .. Len(attempts[t])
            /\ row.status # "pending" /\ (m > 1 => row.status = "running")
            /\ (req[g].pc = "commit" => row.stored) /\ req[g].pc # "start"
        BY <3>3, <4>1, <4>3 DEF RowInv, ClaimInv, Working, InPayload
      <4>5. /\ Len(attempts'[t]) = Len(attempts[t])
            /\ attempts'[t][m] = IF t = s /\ m = n THEN x ELSE row
        BY <1>3, <4>3, <4>4
      <4>6. m \in Nat /\ ~(t = s /\ m = n /\ m > 1)
        BY <1>8, <4>2, <4>3, <4>4
      <4>7. t = s /\ m = n /\ attempts[t][m].stored => x.stored
        BY DEF s, n
      <4>8. /\ attempts'[t][m].status # "pending"
            /\ (m > 1 => attempts'[t][m].status = "running")
            /\ (req[g].pc = "commit" => attempts'[t][m].stored)
        BY <4>3, <4>4, <4>5, <4>6, <4>7
      <4>9. QED
        BY <3>1, <4>3, <4>4, <4>5, <4>8 DEF ClaimInv
    <3>4. QED
      BY <3>2, <3>3
  <2>3. QED
    BY <2>1, <2>2
<1>11. QED
  BY <1>6, <1>7, <1>9, <1>10 DEF RowInv

(* What _start_stage_run does to the table when it commits: one row of its  *)
(* stage is running, taken over or new; earlier stages keep their rows; the *)
(* rows of later stages are stale; nothing else of any row changes.         *)
LEMMA StartRows ==
  ASSUME TypeOK, RowInv, NEW h \in Handler,
         req[h].pc = "start", SequenceFree(req[h]),
         attempts' = MarkStaleAfter(req[h].stage, StartRow(req[h]))
  PROVE  LET s == req[h].stage
             n == req[h].seq
         IN  /\ s \in Stage
             /\ attempts' \in Attempts
             /\ \A t \in Stage : Len(attempts'[t]) =
                  IF t = s /\ ~req[h].reuse THEN Len(attempts[t]) + 1 ELSE Len(attempts[t])
             /\ n \in 1 .. Len(attempts'[s])
             /\ ~req[h].reuse => n = Len(attempts[s]) + 1
             /\ attempts'[s][n].status = "running"
             /\ attempts'[s][n].manifests > 0 => attempts'[s][n].stored
             /\ \A t \in Stage : \A m \in 1 .. Len(attempts[t]) :
                  ~(t = s /\ m = n) =>
                    attempts'[t][m] = IF t > s THEN MarkStale(attempts[t][m])
                                               ELSE attempts[t][m]
             /\ \A m \in 1 .. Len(attempts[s]) :
                  /\ attempts'[s][m].manifests = attempts[s][m].manifests
                  /\ attempts'[s][m].stored = attempts[s][m].stored
<1> DEFINE r == req[h]
           s == req[h].stage
           n == req[h].seq
           b == StartRow(req[h])
<1>1. r \in Request /\ s \in Stage /\ n \in Nat /\ r.wasStale \in BOOLEAN
  BY DEF TypeOK, Request
<1>2. attempts \in Attempts /\ Len(attempts[s]) \in Nat /\ Len(attempts[s]) > 0
  BY <1>1, LatestRow DEF TypeOK, Attempts
<1>3. IF r.reuse THEN n = 1 ELSE n = Len(attempts[s]) + 1
  BY DEF RowInv, ClaimInv, SequenceFree
<1>4. /\ b \in Attempts
      /\ \A t \in Stage : Len(b[t]) =
           IF t = s /\ ~r.reuse THEN Len(attempts[t]) + 1 ELSE Len(attempts[t])
      /\ n \in 1 .. Len(b[s])
      /\ b[s][n].status = "running"
      /\ b[s][n].manifests > 0 => b[s][n].stored
      /\ \A t \in Stage : \A m \in 1 .. Len(attempts[t]) :
           ~(t = s /\ m = n) => b[t][m] = attempts[t][m]
      /\ \A m \in 1 .. Len(attempts[s]) :
           /\ b[s][m].manifests = attempts[s][m].manifests
           /\ b[s][m].stored = attempts[s][m].stored
  <2>1. CASE r.reuse
    <3> DEFINE x == Restart(attempts[s][n], r.wasStale)
    <3>1. n \in 1 .. Len(attempts[s])
      BY <1>2, <1>3, <2>1
    <3>2. attempts[s][n] \in Attempt
      BY <1>1, <1>2, <3>1, ElementOfSeq DEF Attempts
    <3>3. /\ x \in Attempt
          /\ x.status = "running"
          /\ x.manifests = attempts[s][n].manifests
          /\ x.stored = attempts[s][n].stored
      BY <1>1, <3>2, RestartFields
    <3>4. attempts[s][n].manifests > 0 => attempts[s][n].stored
      BY <1>1, <3>1 DEF RowInv, ManifestsAreStored
    <3>5. b = WithRow(attempts, s, n, x)
      BY <2>1 DEF StartRow, WithRow
    <3> HIDE DEF x, b, r, s, n
    <3>6. QED
      BY <1>1, <1>2, <2>1, <3>1, <3>3, <3>4, <3>5, UpdateRow
  <2>2. CASE ~r.reuse
    <3> DEFINE x == NewAttempt("running")
    <3>1. x \in Attempt /\ x.status = "running" /\ x.manifests = 0
      BY NewRow DEF Status
    <3>2. b = WithNewRow(attempts, s, x)
      BY <2>2 DEF StartRow, WithNewRow
    <3> HIDE DEF x, b, r, s, n
    <3>3. QED
      BY <1>1, <1>2, <1>3, <2>2, <3>1, <3>2, InsertRow
  <2>3. QED
    BY <2>1, <2>2
<1>5. attempts' = MarkStaleAfter(s, b)
  OBVIOUS
<1> HIDE DEF b, r, s, n
<1>6. /\ attempts' \in Attempts
      /\ \A t \in Stage : Len(attempts'[t]) = Len(b[t])
      /\ \A t \in Stage : \A m \in 1 .. Len(b[t]) :
           attempts'[t][m] = IF t > s THEN MarkStale(b[t][m]) ELSE b[t][m]
  BY <1>1, <1>4, <1>5, MarkStaleRows
<1>7. attempts'[s][n] = b[s][n]
  <2>1. ~(s > s) /\ n \in 1 .. Len(b[s])
    BY <1>1, <1>4 DEF Stage, SOURCE, VECTORIZE
  <2>2. QED
    BY <1>1, <1>6, <2>1
<1>8. \A t \in Stage : \A m \in 1 .. Len(attempts[t]) : m \in 1 .. Len(b[t])
  BY <1>4, LatestRow
<1>9. \A t \in Stage : \A m \in 1 .. Len(attempts[t]) :
        ~(t = s /\ m = n) =>
          attempts'[t][m] = IF t > s THEN MarkStale(attempts[t][m]) ELSE attempts[t][m]
  BY <1>4, <1>6, <1>8
<1>10. \A m \in 1 .. Len(attempts[s]) :
         /\ attempts'[s][m].manifests = attempts[s][m].manifests
         /\ attempts'[s][m].stored = attempts[s][m].stored
  <2>1. TAKE m \in 1 .. Len(attempts[s])
  <2>2. m \in 1 .. Len(b[s]) /\ ~(s > s)
    BY <1>1, <1>8 DEF Stage, SOURCE, VECTORIZE
  <2>3. attempts'[s][m] = b[s][m]
    BY <1>1, <1>6, <2>2
  <2>4. QED
    BY <1>4, <2>3
<1>11. QED
  BY <1>1, <1>3, <1>4, <1>6, <1>7, <1>9, <1>10, ZenonT(30) DEF r, s, n

(* _start_stage_run keeps the invariant: the row it takes is nobody's, but  *)
(* for the first row of a stage.                                            *)
LEMMA StartStep ==
  ASSUME TypeOK, RowInv, NEW h \in Handler, StartAttempt(h)
  PROVE  TypeOK' /\ RowInv'
<1> DEFINE s == req[h].stage
           n == req[h].seq
<1>1. req[h] \in Request /\ req[h].pc = "start"
  BY DEF TypeOK, StartAttempt
<1>2. CASE ~SequenceFree(req[h])
  <2> DEFINE r == Raised(req[h])
  <2>1. r \in Request /\ r.pc \in {"idle", "mark_failed"}
    BY <1>1, NewRequests
  <2>2. /\ req' = [req EXCEPT ![h] = r]
        /\ attempts' = attempts /\ run' = run /\ index' = index
        /\ requests' = requests /\ faults' = faults
    BY <1>2 DEF StartAttempt
  <2> HIDE DEF r
  <2>3. QED
    BY <2>1, <2>2, QuietStep DEF TypeOK, InPayload
<1>3. CASE SequenceFree(req[h])
  <2> DEFINE r == [req[h] EXCEPT !.pc = IF Inputs(s) = {} THEN AfterReads(s) ELSE "read"]
  <2>1. /\ r \in Request
        /\ r.pc \in {"read", "persist", "write"}
        /\ r.stage = s /\ r.seq = n
    BY <1>1 DEF Request, PC, AfterReads
  <2>2. /\ req' = [req EXCEPT ![h] = r]
        /\ attempts' = MarkStaleAfter(s, StartRow(req[h]))
        /\ run' = "running"
        /\ UNCHANGED <<index, requests, faults>>
    BY <1>3 DEF StartAttempt
  <2> HIDE DEF r
  <2>3. /\ s \in Stage
        /\ attempts' \in Attempts
        /\ \A t \in Stage : Len(attempts'[t]) =
             IF t = s /\ ~req[h].reuse THEN Len(attempts[t]) + 1 ELSE Len(attempts[t])
        /\ n \in 1 .. Len(attempts'[s])
        /\ ~req[h].reuse => n = Len(attempts[s]) + 1
        /\ attempts'[s][n].status = "running"
        /\ attempts'[s][n].manifests > 0 => attempts'[s][n].stored
        /\ \A t \in Stage : \A m \in 1 .. Len(attempts[t]) :
             ~(t = s /\ m = n) =>
               attempts'[t][m] = IF t > s THEN MarkStale(attempts[t][m])
                                          ELSE attempts[t][m]
        /\ \A m \in 1 .. Len(attempts[s]) : attempts'[s][m].stored = attempts[s][m].stored
    BY <1>1, <1>3, <2>2, StartRows
  <2>4. \A t \in Stage : Len(attempts[t]) \in Nat /\ Len(attempts[t]) > 0
    BY LatestRow DEF TypeOK
  <2>5. \A t \in Stage : \A m \in 1 .. Len(attempts[t]) :
          ~(t = s /\ m = n) =>
            /\ attempts'[t][m].status = attempts[t][m].status
            /\ attempts'[t][m].manifests = attempts[t][m].manifests
            /\ attempts'[t][m].stored = attempts[t][m].stored
    <3>1. \A t \in Stage : \A m \in 1 .. Len(attempts[t]) : attempts[t][m] \in Attempt
      BY ElementOfSeq DEF TypeOK
    <3>2. QED
      BY <2>3, <3>1, MarkStaleFields, ZenonT(30)
  <2>6. \A t \in Stage : \A m \in 1 .. Len(attempts'[t]) :
          (t = s /\ m = n) \/ m \in 1 .. Len(attempts[t])
    BY <2>3, <2>4
  <2>7. req'[h] = r /\ \A g \in Handler : g # h => req'[g] = req[g]
    BY <2>2 DEF TypeOK
  <2> HIDE DEF s, n
  <2>8. TypeOK'
    <3>1. req' \in [Handler -> Request]
      BY <2>1, <2>2 DEF TypeOK
    <3>2. \A t \in Stage : Len(attempts'[t]) > 0
      BY <2>3, <2>4
    <3>3. QED
      BY <2>2, <2>3, <3>1, <3>2 DEF TypeOK, Attempts, Status
  <2>9. RetryIsNotPending'
    <3>1. SUFFICES ASSUME NEW t \in Stage, NEW m \in 2 .. Len(attempts'[t])
                   PROVE  attempts'[t][m].status # "pending"
      BY DEF RetryIsNotPending
    <3>2. CASE t = s /\ m = n
      BY <2>3, <3>2
    <3>3. CASE ~(t = s /\ m = n)
      <4>1. Len(attempts[t]) \in Nat /\ Len(attempts'[t]) \in Nat
        BY <2>3, <2>4
      <4>2. m \in 1 .. Len(attempts[t]) /\ m > 1
        BY <2>6, <3>3, <4>1
      <4>3. attempts'[t][m].status = attempts[t][m].status
        BY <2>5, <3>3, <4>2
      <4>4. m \in 2 .. Len(attempts[t])
        BY <4>1, <4>2
      <4>. QED
        BY <4>3, <4>4 DEF RowInv, RetryIsNotPending
    <3>. QED
      BY <3>2, <3>3
  <2>10. ManifestsAreStored'
    BY <2>3, <2>5, <2>6, SMTT(20) DEF RowInv, ManifestsAreStored
  <2>11. IF req[h].reuse THEN n = 1 ELSE n > 1
    BY <1>1 DEF RowInv, ClaimInv, n
  <2>12. \A g \in Handler : Working(g) =>
           /\ req[g].stage \in Stage
           /\ req[g].seq \in 1 .. Len(attempts[req[g].stage])
    BY WorkedRow
  <2>13. \A g \in Handler : g # h /\ Working(g) =>
           ~(req[g].stage = s /\ req[g].seq = n /\ n > 1)
    BY <2>3, <2>4, <2>11, <2>12
  <2>14. OneHandlerPerRetry'
    BY <2>1, <2>3, <2>7, <2>11, <2>13 DEF RowInv, OneHandlerPerRetry, Working
  <2>15. ASSUME NEW g \in Handler PROVE ClaimInv(g)'
    <3>1. CASE g = h
      BY <2>1, <2>3, <2>7, <3>1 DEF ClaimInv, Working
    <3>2. CASE g # h
      <4>1. req'[g] = req[g]
        BY <2>7, <3>2
      <4>2. CASE Working(g)
        <5> DEFINE t == req[g].stage
                   m == req[g].seq
        <5>1. /\ t \in Stage /\ m \in 1 .. Len(attempts[t])
              /\ attempts[t][m].status # "pending"
              /\ m > 1 => attempts[t][m].status = "running"
              /\ req[g].pc = "commit" => attempts[t][m].stored
          BY <2>12, <4>2 DEF RowInv, ClaimInv
        <5>2. m \in 1 .. Len(attempts'[t])
          BY <2>3, <2>4, <5>1
        <5>3. /\ attempts'[t][m].status # "pending"
              /\ m > 1 => attempts'[t][m].status = "running"
              /\ req[g].pc = "commit" => attempts'[t][m].stored
          BY <2>3, <2>5, <5>1
        <5>4. req[g].pc # "start"
          BY <4>2 DEF Working, InPayload
        <5> HIDE DEF t, m
        <5>5. QED
          BY <4>1, <5>2, <5>3, <5>4 DEF ClaimInv, t, m
      <4>3. CASE ~Working(g)
        BY <4>1, <4>3 DEF RowInv, ClaimInv, Working
      <4>4. QED
        BY <4>2, <4>3
    <3>3. QED
      BY <3>1, <3>2
  <2>16. QED
    BY <2>8, <2>9, <2>10, <2>14, <2>15 DEF RowInv
<1>4. QED
  BY <1>2, <1>3

-----------------------------------------------------------------------------
(* One step per action. *)

(* The steps before an attempt is started.                                  *)
LEMMA BeforeStartStep ==
  ASSUME TypeOK, RowInv, NEW h \in Handler,
         Begin(h) \/ CheckDependency(h) \/ ClaimAttempt(h)
  PROVE  TypeOK' /\ RowInv'
<1>1. req[h] \in Request /\ req[h].stage \in Stage /\ req[h].dep \in Stage
  BY DEF TypeOK, Request
<1>2. CASE Begin(h)
  <2>1. PICK asked \in Asked : req' = [req EXCEPT ![h] = EnterStage(asked[1], asked[2])]
    BY <1>2 DEF Begin
  <2>2. asked[1] \in Mode /\ asked[2] \in Stage
    BY AskedAssumption DEF AnyRequest, Mode, Stage, SOURCE, VECTORIZE
  <2> DEFINE r == EnterStage(asked[1], asked[2])
  <2>3. r \in Request /\ r.pc = "deps"
    BY <2>2, NewRequests
  <2>4. /\ req' = [req EXCEPT ![h] = r]
        /\ attempts' = attempts /\ run' = run /\ index' = index /\ faults' = faults
        /\ requests' \in 0 .. MaxRequests
    <3>1. /\ UNCHANGED <<run, attempts, index, faults>>
          /\ requests' = requests + 1 /\ requests < MaxRequests
      BY <1>2 DEF Begin
    <3>2. requests' \in 0 .. MaxRequests
      BY <3>1, BoundsAssumption DEF TypeOK
    <3>3. QED
      BY <2>1, <3>1, <3>2
  <2> HIDE DEF r
  <2>5. QED
    BY <2>3, <2>4, QuietStep DEF TypeOK, InPayload
<1>3. CASE CheckDependency(h)
  <2> DEFINE s == req[h]
             r == IF Fresh(s.dep) THEN [s EXCEPT !.dep = s.dep + 1] ELSE Raised(s)
  <2>1. s.dep + 1 \in Stage
    BY <1>1, <1>3 DEF CheckDependency, Stage, SOURCE, VECTORIZE
  <2>2. [s EXCEPT !.dep = s.dep + 1] \in Request
    BY <1>1, <2>1 DEF Request
  <2>3. [s EXCEPT !.dep = s.dep + 1].pc = "deps"
    BY <1>1, <1>3 DEF CheckDependency, Request
  <2>4. r \in Request /\ r.pc \in {"deps", "idle", "mark_failed"}
    BY <1>1, <2>2, <2>3, NewRequests
  <2>5. /\ req' = [req EXCEPT ![h] = r]
        /\ attempts' = attempts /\ run' = run /\ index' = index
        /\ faults' = faults /\ requests' = requests
    <3>1. req' = [req EXCEPT ![h] = r]
      <4>1. CASE Fresh(s.dep)
        BY <1>3, <4>1 DEF CheckDependency
      <4>2. CASE ~Fresh(s.dep)
        BY <1>3, <4>2 DEF CheckDependency
      <4>3. QED
        BY <4>1, <4>2
    <3>2. UNCHANGED <<run, attempts, index, requests, faults>>
      BY <1>3 DEF CheckDependency
    <3>3. QED
      BY <3>1, <3>2
  <2> HIDE DEF r
  <2>6. QED
    BY <2>4, <2>5, QuietStep DEF TypeOK, InPayload
<1>4. CASE ClaimAttempt(h)
  <2> DEFINE s == req[h].stage
             reuse == Reusable(Latest(s))
             seq == IF reuse THEN Len(attempts[s]) ELSE Len(attempts[s]) + 1
             r == [req[h] EXCEPT !.pc = "start", !.seq = seq, !.reuse = reuse,
                                 !.wasStale = Latest(s).stale]
  <2>1. Latest(s) \in Attempt /\ Len(attempts[s]) \in Nat /\ Len(attempts[s]) > 0
    BY <1>1, LatestRow DEF TypeOK
  <2>2. reuse \in BOOLEAN /\ Latest(s).stale \in BOOLEAN /\ seq \in Nat
    BY <2>1 DEF Reusable, Attempt
  <2>3. IF reuse THEN seq = 1 ELSE seq > 1
    <3> DEFINE k == Len(attempts[s])
    <3>1. ~(reuse /\ k \in 2 .. k)
      BY <1>1, <2>1 DEF Reusable, Latest, RowInv, RetryIsNotPending
    <3>2. k \in Nat /\ k > 0
      BY <2>1
    <3> HIDE DEF k
    <3>3. k = 1 \/ k \in 2 .. k
      BY <3>2
    <3>4. k + 1 > 1
      BY <3>2
    <3>5. seq = IF reuse THEN k ELSE k + 1
      BY DEF k
    <3> HIDE DEF seq, reuse
    <3>6. QED
      BY <3>1, <3>3, <3>4, <3>5
  <2> HIDE DEF seq, reuse, s
  <2>4. /\ r \in Request /\ r.pc = "start" /\ r.seq = seq /\ r.reuse = reuse
    BY <1>1, <2>2 DEF Request, PC
  <2>5. /\ req' = [req EXCEPT ![h] = r]
        /\ attempts' = attempts /\ run' = run /\ index' = index
        /\ faults' = faults /\ requests' = requests
    BY <1>4 DEF ClaimAttempt, s, reuse, seq
  <2> HIDE DEF r
  <2>6. QED
    BY <2>3, <2>4, <2>5, QuietStep DEF TypeOK, InPayload
<1>5. QED
  BY <1>2, <1>3, <1>4

(* Where the steps of a payload that write no row take a handler.           *)
LEMMA PayloadMoves ==
  ASSUME TypeOK, NEW h \in Handler,
         ReadArtifacts(h) \/ PersistIndex(h) \/ PayloadFails(h)
  PROVE  \E r \in Request :
           /\ req' = [req EXCEPT ![h] = r]
           /\ r.stage = req[h].stage /\ r.seq = req[h].seq
           /\ r.pc \in {"read", "persist", "write", "fail"}
<1>0. req[h] \in Request /\ req[h].stage \in Stage /\ req[h].from \in Basis
  BY DEF TypeOK, Request
<1>1. CASE ReadArtifacts(h)
  <2>1. PICK i \in Unread(req[h]) :
          \/ req' = [req EXCEPT
                ![h].from[i] = Len(attempts[i]),
                ![h].pc = IF Unread(req[h]) = {i} THEN AfterReads(req[h].stage) ELSE @]
          \/ req' = [req EXCEPT ![h].pc = "fail"]
    BY <1>1 DEF ReadArtifacts
  <2>2. i \in Stage
    BY <2>1 DEF Unread, Inputs, Stage, SOURCE, PARSE_BLOCKS, CHUNK_NODES,
                QUALITY_ENRICH, VECTORIZE
  <2>3. Len(attempts[i]) \in Nat
    BY <2>2, LatestRow
  <2> DEFINE from == [req[h].from EXCEPT ![i] = Len(attempts[i])]
             pc == IF Unread(req[h]) = {i} THEN AfterReads(req[h].stage) ELSE req[h].pc
             ok == [req[h] EXCEPT !.from = from, !.pc = pc]
             bad == [req[h] EXCEPT !.pc = "fail"]
  <2>4. from \in Basis
    BY <1>0, <2>3 DEF Basis
  <2>5. pc \in {"read", "persist", "write"}
    BY <1>1 DEF ReadArtifacts, AfterReads
  <2>6. \/ req' = [req EXCEPT ![h] = ok]
        \/ req' = [req EXCEPT ![h] = bad]
    BY <1>0, <2>1
  <2> HIDE DEF from, pc
  <2>7. /\ ok \in Request /\ bad \in Request
        /\ ok.stage = req[h].stage /\ ok.seq = req[h].seq /\ ok.pc = pc
        /\ bad.stage = req[h].stage /\ bad.seq = req[h].seq /\ bad.pc = "fail"
    BY <1>0, <2>4, <2>5 DEF Request, PC
  <2> HIDE DEF ok, bad
  <2>8. QED
    BY <2>5, <2>6, <2>7
<1>2. CASE PersistIndex(h)
  <2> DEFINE r == [req[h] EXCEPT !.pc = "write"]
  <2>1. r \in Request /\ r.stage = req[h].stage /\ r.seq = req[h].seq /\ r.pc = "write"
    BY <1>0 DEF Request, PC
  <2>2. req' = [req EXCEPT ![h] = r]
    BY <1>2 DEF PersistIndex
  <2> HIDE DEF r
  <2>3. QED
    BY <2>1, <2>2
<1>3. CASE PayloadFails(h)
  <2> DEFINE r == [req[h] EXCEPT !.pc = "fail"]
  <2>1. r \in Request /\ r.stage = req[h].stage /\ r.seq = req[h].seq /\ r.pc = "fail"
    BY <1>0 DEF Request, PC
  <2>2. req' = [req EXCEPT ![h] = r]
    BY <1>3 DEF PayloadFails
  <2> HIDE DEF r
  <2>3. QED
    BY <2>1, <2>2
<1>4. QED
  BY <1>1, <1>2, <1>3

LEMMA PayloadStep ==
  ASSUME TypeOK, RowInv, NEW h \in Handler,
         ReadArtifacts(h) \/ PersistIndex(h) \/ PayloadFails(h)
  PROVE  TypeOK' /\ RowInv'
<1>1. req[h].from \in Basis
  BY DEF TypeOK, Request
<1>2. Working(h)
  BY DEF Working, InPayload, ReadArtifacts, PersistIndex, PayloadFails
<1>3. \E r \in Request :
        /\ req' = [req EXCEPT ![h] = r]
        /\ r.stage = req[h].stage /\ r.seq = req[h].seq
        /\ r.pc \in {"read", "persist", "write", "fail"}
  BY PayloadMoves
<1>4. /\ attempts' = attempts /\ run' = run /\ requests' = requests /\ faults' = faults
      /\ index' \in Basis
  <2>1. UNCHANGED <<run, attempts, requests, faults>>
    BY DEF ReadArtifacts, PersistIndex, PayloadFails
  <2>2. index' = index \/ index' = req[h].from
    BY DEF ReadArtifacts, PersistIndex, PayloadFails
  <2>3. QED
    BY <1>1, <2>1, <2>2 DEF TypeOK
<1>5. QED
  BY <1>2, <1>3, <1>4, QuietStep DEF TypeOK

(* The three steps that write the row their handler works on.               *)
LEMMA WriteStep ==
  ASSUME TypeOK, RowInv, NEW h \in Handler, WriteArtifacts(h)
  PROVE  TypeOK' /\ RowInv'
<1> DEFINE a == attempts[req[h].stage][req[h].seq]
           x == Store(a, req[h].from)
           r == [req[h] EXCEPT !.pc = "commit"]
<1>1. Working(h)
  BY DEF Working, InPayload, WriteArtifacts
<1>2. req[h] \in Request /\ a \in Attempt /\ req[h].from \in Basis
  BY <1>1, WorkedRow DEF Request
<1>3. a.status # "pending"
  BY <1>1 DEF RowInv, ClaimInv
<1>4. /\ r \in Request /\ r.pc = "commit"
      /\ r.stage = req[h].stage /\ r.seq = req[h].seq
  BY <1>2 DEF Request, PC
<1>5. /\ x \in Attempt /\ x.status = a.status /\ x.stored
  BY <1>2, StoreFields
<1>6. /\ req' = [req EXCEPT ![h] = r]
      /\ attempts' = WithRow(attempts, req[h].stage, req[h].seq, x)
      /\ UNCHANGED <<run, index, requests, faults>>
  BY DEF WriteArtifacts, WithRow
<1>7. run' \in Status
  BY <1>6 DEF TypeOK
<1> HIDE DEF r, x
<1>8. QED
  BY <1>1, <1>3, <1>4, <1>5, <1>6, <1>7, RowStep

LEMMA SuccessStep ==
  ASSUME TypeOK, RowInv, NEW h \in Handler, CommitSuccess(h)
  PROVE  TypeOK' /\ RowInv'
<1> DEFINE a == attempts[req[h].stage][req[h].seq]
           x == Publish(a)
           r == NextStage(req[h])
<1>1. Working(h)
  BY DEF Working, InPayload, CommitSuccess
<1>2. req[h] \in Request /\ a \in Attempt
  BY <1>1, WorkedRow
<1>3. a.stored
  BY <1>1 DEF RowInv, ClaimInv, CommitSuccess
<1>4. r \in Request /\ r.pc \in {"idle", "deps", "result"}
  BY <1>2, NewRequests
<1>5. x \in Attempt /\ x.status = "succeeded" /\ x.stored
  BY <1>2, <1>3, PublishFields
<1>6. /\ req' = [req EXCEPT ![h] = r]
      /\ attempts' = WithRow(attempts, req[h].stage, req[h].seq, x)
      /\ UNCHANGED <<index, requests, faults>>
  BY DEF CommitSuccess, WithRow
<1>7. run' \in Status
  BY DEF CommitSuccess, RunAfterSuccess, Status
<1> HIDE DEF r, x, a
<1>8. QED
  BY <1>1, <1>4, <1>5, <1>6, <1>7, RowStep DEF InPayload

LEMMA FailureStep ==
  ASSUME TypeOK, RowInv, NEW h \in Handler, CommitFailure(h)
  PROVE  TypeOK' /\ RowInv'
<1> DEFINE a == attempts[req[h].stage][req[h].seq]
           x == Finish(a, "failed")
           r == Raised(req[h])
<1>1. Working(h)
  BY DEF Working, InPayload, CommitFailure
<1>2. /\ req[h] \in Request /\ a \in Attempt
      /\ req[h].stage \in Stage
      /\ req[h].seq \in 1 .. Len(attempts[req[h].stage])
  BY <1>1, WorkedRow
<1>3. a.manifests > 0 => a.stored
  BY <1>2 DEF RowInv, ManifestsAreStored
<1>4. r \in Request /\ r.pc \in {"idle", "mark_failed"}
  BY <1>2, NewRequests
<1>5. /\ x \in Attempt /\ x.status = "failed"
      /\ x.manifests = a.manifests /\ x.stored = a.stored
  BY <1>2, FinishFields DEF Status
<1>6. /\ req' = [req EXCEPT ![h] = r]
      /\ attempts' = WithRow(attempts, req[h].stage, req[h].seq, x)
      /\ UNCHANGED <<index, requests, faults>>
  BY DEF CommitFailure, WithRow
<1>7. run' \in Status
  BY DEF CommitFailure, Status
<1>8. a.stored => x.stored
  BY <1>5
<1>9. x.manifests > 0 => x.stored
  BY <1>3, <1>5
<1> HIDE DEF r, x
<1>10. QED
  BY <1>1, <1>4, <1>5, <1>6, <1>7, <1>8, <1>9, RowStep DEF InPayload

(* The steps that end a request without touching a row.                     *)
LEMMA EndMoves ==
  ASSUME TypeOK, NEW h \in Handler,
         \/ ReadResult(h) \/ MarkRunFailed(h) \/ FallBack(h)
         \/ TransactionRefused(h) \/ Crash(h)
  PROVE  \E r \in Request :
           /\ req' = [req EXCEPT ![h] = r]
           /\ r.pc \in {"idle", "mark_failed", "fallback"}
<1>1. req[h] \in Request
  BY DEF TypeOK
<1>2. CASE MarkRunFailed(h)
  <2> DEFINE r == [req[h] EXCEPT !.pc = "fallback"]
  <2>1. r \in Request /\ r.pc = "fallback"
    BY <1>1 DEF Request, PC
  <2>2. req' = [req EXCEPT ![h] = r]
    BY <1>2 DEF MarkRunFailed
  <2> HIDE DEF r
  <2>3. QED
    BY <2>1, <2>2
<1>3. CASE ~MarkRunFailed(h)
  BY <1>1, <1>3, NewRequests DEF ReadResult, FallBack, TransactionRefused, Crash
<1>4. QED
  BY <1>2, <1>3

LEMMA EndStep ==
  ASSUME TypeOK, RowInv, NEW h \in Handler,
         \/ ReadResult(h) \/ MarkRunFailed(h) \/ FallBack(h)
         \/ TransactionRefused(h) \/ Crash(h)
  PROVE  TypeOK' /\ RowInv'
<1>1. \E r \in Request :
        /\ req' = [req EXCEPT ![h] = r]
        /\ r.pc \in {"idle", "mark_failed", "fallback"}
  BY EndMoves
<1>2. /\ attempts' = attempts /\ requests' = requests
      /\ run' \in Status
  BY DEF ReadResult, MarkRunFailed, FallBack, TransactionRefused, Crash, TypeOK, Status
<1>3. index' \in Basis
  BY DEF ReadResult, MarkRunFailed, FallBack, TransactionRefused, Crash, TypeOK,
         Basis, NoBasis
<1>4. faults' \in 0 .. MaxFaults
  BY BoundsAssumption
  DEF ReadResult, MarkRunFailed, FallBack, TransactionRefused, Crash, TypeOK
<1>5. QED
  BY <1>1, <1>2, <1>3, <1>4, QuietStep DEF TypeOK, InPayload

LEMMA RowsInductive == TypeOK /\ RowInv /\ [Next]_vars => TypeOK' /\ RowInv'
<1>1. SUFFICES ASSUME TypeOK, RowInv, [Next]_vars PROVE TypeOK' /\ RowInv'
  OBVIOUS
<1>2. CASE Next
  <2>1. PICK h \in Handler :
          Begin(h) \/ Work(h) \/ TransactionRefused(h) \/ Crash(h)
    BY <1>2 DEF Next
  <2>2. CASE Begin(h) \/ CheckDependency(h) \/ ClaimAttempt(h)
    BY <1>1, <2>2, BeforeStartStep
  <2>3. CASE StartAttempt(h)
    BY <1>1, <2>3, StartStep
  <2>4. CASE ReadArtifacts(h) \/ PersistIndex(h) \/ PayloadFails(h)
    BY <1>1, <2>4, PayloadStep
  <2>5. CASE WriteArtifacts(h)
    BY <1>1, <2>5, WriteStep
  <2>6. CASE CommitSuccess(h)
    BY <1>1, <2>6, SuccessStep
  <2>7. CASE CommitFailure(h)
    BY <1>1, <2>7, FailureStep
  <2>8. CASE \/ ReadResult(h) \/ MarkRunFailed(h) \/ FallBack(h)
             \/ TransactionRefused(h) \/ Crash(h)
    BY <1>1, <2>8, EndStep
  <2>9. QED
    BY <2>1, <2>2, <2>3, <2>4, <2>5, <2>6, <2>7, <2>8 DEF Work
<1>3. CASE UNCHANGED vars
  BY <1>1, <1>3
  DEF vars, TypeOK, RowInv, ClaimInv, Working, RetryIsNotPending,
      ManifestsAreStored, OneHandlerPerRetry
<1>4. QED
  BY <1>1, <1>2, <1>3

LEMMA RowsInvariant == Spec => [](TypeOK /\ RowInv)
<1>1. Init => TypeOK /\ RowInv
  BY InitRows
<1>2. TypeOK /\ RowInv /\ [Next]_vars => (TypeOK /\ RowInv)'
  BY RowsInductive
<1>3. QED
  BY <1>1, <1>2, PTL DEF Spec

-----------------------------------------------------------------------------
(* The outcome of a repeated attempt. *)

(* A handler that writes the row it works on writes an open row, unless it  *)
(* is the first at its stage.                                               *)
LEMMA WriteKeepsOutcomes ==
  ASSUME TypeOK, RowInv, NEW h \in Handler, NEW x \in Attempt, Working(h),
         attempts' = WithRow(attempts, req[h].stage, req[h].seq, x)
  PROVE  OutcomesKept
<1> DEFINE s == req[h].stage
           n == req[h].seq
<1>1. s \in Stage /\ n \in 1 .. Len(attempts[s])
  BY WorkedRow
<1>2. n > 1 => attempts[s][n].status = "running"
  BY DEF RowInv, ClaimInv
<1>3. attempts \in Attempts
  BY DEF TypeOK, Attempts
<1>4. attempts' = WithRow(attempts, s, n, x)
  OBVIOUS
<1> HIDE DEF s, n
<1>5. \A t \in Stage : \A m \in 1 .. Len(attempts[t]) :
        ~(t = s /\ m = n) => attempts'[t][m] = attempts[t][m]
  BY <1>1, <1>3, <1>4, UpdateRow
<1>6. \A t \in Stage : Len(attempts[t]) \in Nat
  BY LatestRow
<1>7. ASSUME NEW t \in Stage, NEW m \in 2 .. Len(attempts[t]),
             attempts[t][m].status \in {"succeeded", "failed"}
      PROVE  attempts'[t][m] = attempts[t][m]
  <2>1. m \in 1 .. Len(attempts[t]) /\ m > 1
    BY <1>6
  <2>2. ~(t = s /\ m = n)
    BY <1>2, <1>7, <2>1
  <2>3. QED
    BY <1>5, <2>1, <2>2
<1>8. QED
  BY <1>7 DEF OutcomesKept

(* _start_stage_run takes over a first row or adds one, and only marks the  *)
(* rest stale.                                                              *)
LEMMA StartKeepsOutcomes ==
  ASSUME TypeOK, RowInv, NEW h \in Handler,
         req[h].pc = "start", SequenceFree(req[h]),
         attempts' = MarkStaleAfter(req[h].stage, StartRow(req[h]))
  PROVE  OutcomesKept
<1> DEFINE s == req[h].stage
           n == req[h].seq
<1>1. IF req[h].reuse THEN n = 1 ELSE n = Len(attempts[s]) + 1
  BY DEF RowInv, ClaimInv, SequenceFree
<1>2. \A t \in Stage : \A m \in 1 .. Len(attempts[t]) :
        ~(t = s /\ m = n) =>
           attempts'[t][m] = IF t > s THEN MarkStale(attempts[t][m]) ELSE attempts[t][m]
  BY StartRows
<1> HIDE DEF s, n
<1>3. \A t \in Stage : Len(attempts[t]) \in Nat
  BY LatestRow
<1>4. ASSUME NEW t \in Stage, NEW m \in 2 .. Len(attempts[t])
      PROVE  MarkStale(attempts'[t][m]) = MarkStale(attempts[t][m])
  <2>1. m \in 1 .. Len(attempts[t]) /\ m # 1 /\ m # Len(attempts[t]) + 1
    BY <1>3
  <2>2. ~(t = s /\ m = n)
    BY <1>1, <2>1
  <2>3. attempts[t][m] \in Attempt
    BY <2>1, ElementOfSeq DEF TypeOK
  <2>4. CASE t > s
    BY <1>2, <2>1, <2>2, <2>3, <2>4, MarkStaleFields
  <2>5. CASE ~(t > s)
    BY <1>2, <2>1, <2>2, <2>5
  <2>6. QED
    BY <2>4, <2>5
<1>5. QED
  BY <1>4 DEF OutcomesKept

LEMMA StepKeepsOutcomes == TypeOK /\ RowInv /\ [Next]_vars => [OutcomesKept]_vars
<1>1. SUFFICES ASSUME TypeOK, RowInv, Next PROVE OutcomesKept
  OBVIOUS
<1>2. PICK h \in Handler :
        Begin(h) \/ Work(h) \/ TransactionRefused(h) \/ Crash(h)
  BY <1>1 DEF Next
<1>3. CASE attempts' = attempts
  BY <1>3 DEF OutcomesKept
<1>4. CASE WriteArtifacts(h)
  <2> DEFINE x == Store(attempts[req[h].stage][req[h].seq], req[h].from)
  <2>1. Working(h)
    BY <1>4 DEF Working, InPayload, WriteArtifacts
  <2>2. x \in Attempt
    BY <1>1, <2>1, WorkedRow, StoreFields DEF Request
  <2>3. attempts' = WithRow(attempts, req[h].stage, req[h].seq, x)
    BY <1>4 DEF WriteArtifacts, WithRow
  <2> HIDE DEF x
  <2>4. QED
    BY <1>1, <2>1, <2>2, <2>3, WriteKeepsOutcomes
<1>5. CASE CommitSuccess(h)
  <2> DEFINE x == Publish(attempts[req[h].stage][req[h].seq])
  <2>1. Working(h)
    BY <1>5 DEF Working, InPayload, CommitSuccess
  <2>2. x \in Attempt
    BY <1>1, <2>1, WorkedRow, PublishFields
  <2>3. attempts' = WithRow(attempts, req[h].stage, req[h].seq, x)
    BY <1>5 DEF CommitSuccess, WithRow
  <2> HIDE DEF x
  <2>4. QED
    BY <1>1, <2>1, <2>2, <2>3, WriteKeepsOutcomes
<1>6. CASE CommitFailure(h)
  <2> DEFINE x == Finish(attempts[req[h].stage][req[h].seq], "failed")
  <2>1. Working(h)
    BY <1>6 DEF Working, InPayload, CommitFailure
  <2>2. x \in Attempt
    BY <1>1, <2>1, WorkedRow, FinishFields DEF Status
  <2>3. attempts' = WithRow(attempts, req[h].stage, req[h].seq, x)
    BY <1>6 DEF CommitFailure, WithRow
  <2> HIDE DEF x
  <2>4. QED
    BY <1>1, <2>1, <2>2, <2>3, WriteKeepsOutcomes
<1>7. CASE StartAttempt(h) /\ attempts' # attempts
  <2>1. /\ req[h].pc = "start" /\ SequenceFree(req[h])
        /\ attempts' = MarkStaleAfter(req[h].stage, StartRow(req[h]))
    BY <1>7 DEF StartAttempt
  <2>2. QED
    BY <1>1, <2>1, StartKeepsOutcomes
<1>8. QED
  BY <1>2, <1>3, <1>4, <1>5, <1>6, <1>7
  DEF Work, Begin, CheckDependency, ClaimAttempt, ReadArtifacts, PersistIndex,
      PayloadFails, ReadResult, MarkRunFailed, FallBack, TransactionRefused, Crash

-----------------------------------------------------------------------------
(* The theorems. *)

(* Every reachable state is well typed: in particular every stage keeps at  *)
(* least one attempt, so the latest one always exists.                      *)
THEOREM TypeCorrect == Spec => []TypeOK
BY RowsInvariant, PTL

(* Whatever handlers interleave, fail or are lost, a manifest never names   *)
(* an artifact that is missing from the store.                              *)
THEOREM ManifestsAlwaysStored == Spec => []ManifestsAreStored
<1>1. TypeOK /\ RowInv => ManifestsAreStored
  BY DEF RowInv
<1>2. QED
  BY <1>1, RowsInvariant, PTL

(* No two handlers ever work on the same repeated attempt.                  *)
THEOREM RetriesAreExclusive == Spec => []OneHandlerPerRetry
<1>1. TypeOK /\ RowInv => OneHandlerPerRetry
  BY DEF RowInv
<1>2. QED
  BY <1>1, RowsInvariant, PTL

(* A repeated attempt that has succeeded or failed keeps its status, its    *)
(* manifests and its files for good.                                        *)
THEOREM RetryOutcomesAreFinal == Spec => RetryOutcomeIsFinal
<1>1. TypeOK /\ RowInv /\ [Next]_vars => [OutcomesKept]_vars
  BY StepKeepsOutcomes
<1>2. QED
  BY <1>1, RowsInvariant, PTL DEF Spec, RetryOutcomeIsFinal

-----------------------------------------------------------------------------
(* That stages are executed in order: what a handler saw of the earlier     *)
(* stages when it checked them stays true until it starts its own, because  *)
(* artifacts stay published.                                                *)

THEOREM InitOrder == Init => OrderInv
<1>1. SUFFICES ASSUME Init PROVE OrderInv
  OBVIOUS
<1> DEFINE row == NewAttempt("pending")
<1>2. row \in Attempt /\ row.status = "pending"
  BY NewRow DEF Status
<1>3. Len(<<row>>) = 1 /\ <<row>>[1] = row
  BY <1>2
<1>4. \A s \in Stage : attempts[s] = <<row>>
  BY <1>1 DEF Init
<1>5. \A h \in Handler : req[h].pc = "idle"
  BY <1>1, NewRequests DEF Init
<1> HIDE DEF row
<1>6. \A s \in Stage : \A n \in 1 .. Len(attempts[s]) : attempts[s][n].status = "pending"
  BY <1>2, <1>3, <1>4
<1>7. QED
  BY <1>5, <1>6 DEF OrderInv, SeenInv, SuccessIsPublished, AttemptsInOrder

(* A stage that has published artifacts keeps them when rows are kept.      *)
LEMMA ProducedStays ==
  ASSUME NEW s \in Stage, Produced(s),
         Len(attempts[s]) \in Nat, Len(attempts'[s]) \in Nat,
         Len(attempts'[s]) >= Len(attempts[s]),
         \A n \in 1 .. Len(attempts[s]) :
           attempts[s][n].manifests > 0 => attempts'[s][n].manifests > 0
  PROVE  Produced(s)'
<1>1. PICK n \in 1 .. Len(attempts[s]) : attempts[s][n].manifests > 0
  BY DEF Produced
<1>2. n \in 1 .. Len(attempts'[s])
  OBVIOUS
<1>3. QED
  BY <1>1, <1>2 DEF Produced

(* The stages before a stage, and the stages a handler has checked.         *)
LEMMA EarlierStages ==
  ASSUME NEW s \in Stage
  PROVE  \A d \in 1 .. s - 1 : d \in Stage /\ d < s
BY DEF Stage, SOURCE, VECTORIZE

(* A step that writes no row keeps the order when the handler has itself    *)
(* seen the stages it goes on from.                                         *)
LEMMA QuietOrder ==
  ASSUME TypeOK, OrderInv, NEW h \in Handler, NEW r \in Request,
         req' = [req EXCEPT ![h] = r],
         attempts' = attempts,
         r.pc = "deps"  => r.dep <= r.stage /\ \A d \in 1 .. r.dep - 1 : Produced(d),
         r.pc = "start" => \A d \in 1 .. r.stage - 1 : Produced(d)
  PROVE  OrderInv'
<1>1. req'[h] = r /\ \A g \in Handler : g # h => req'[g] = req[g]
  BY DEF TypeOK
<1>2. \A d : Produced(d)' = Produced(d)
  BY DEF Produced
<1>3. ASSUME NEW g \in Handler PROVE SeenInv(g)'
  BY <1>1, <1>2 DEF OrderInv, SeenInv
<1>4. SuccessIsPublished'
  BY DEF OrderInv, SuccessIsPublished
<1>5. AttemptsInOrder'
  BY <1>2 DEF OrderInv, AttemptsInOrder
<1>6. QED
  BY <1>3, <1>4, <1>5 DEF OrderInv

(* A step that keeps all rows and their manifests, and leaves the handler   *)
(* at most at the first check of a stage.                                   *)
LEMMA RowsOrder ==
  ASSUME TypeOK, OrderInv, NEW h \in Handler, NEW r \in Request,
         req' = [req EXCEPT ![h] = r],
         r.pc # "start",
         r.pc = "deps" => r.dep = SOURCE,
         NEW s \in Stage, NEW n \in Nat,
         attempts' \in Attempts,
         \A t \in Stage : Len(attempts'[t]) >= Len(attempts[t]),
         \A t \in Stage : \A m \in 1 .. Len(attempts[t]) :
           attempts[t][m].manifests > 0 => attempts'[t][m].manifests > 0,
         \A t \in Stage : \A m \in 1 .. Len(attempts'[t]) :
           ~(t = s /\ m = n) =>
             /\ m \in 1 .. Len(attempts[t])
             /\ attempts'[t][m].status = attempts[t][m].status,
         \A d \in 1 .. s - 1 : Produced(d),
         n \in 1 .. Len(attempts'[s]),
         attempts'[s][n].status = "succeeded" => attempts'[s][n].manifests > 0
  PROVE  OrderInv'
<1>1. req'[h] = r /\ \A g \in Handler : g # h => req'[g] = req[g]
  BY DEF TypeOK
<1>2. ASSUME NEW d \in Stage, Produced(d) PROVE Produced(d)'
  <2>1. Len(attempts[d]) \in Nat
    BY LatestRow
  <2>2. Len(attempts'[d]) \in Nat
    BY LenProperties DEF Attempts
  <2>3. QED
    BY <1>2, <2>1, <2>2, ProducedStays
<1>3. ASSUME NEW g \in Handler PROVE SeenInv(g)'
  <2>1. CASE g = h
    <3>1. r.stage \in Stage
      BY DEF Request
    <3>2. SOURCE <= r.stage /\ 1 .. SOURCE - 1 = {}
      <4>1. SOURCE = 1 /\ r.stage \in 1 .. 5
        BY <3>1, SMTT(20) DEF Stage, SOURCE, VECTORIZE
      <4>. QED
        BY <4>1, SMTT(20)
    <3>3. QED
      BY <1>1, <2>1, <3>2 DEF SeenInv
  <2>2. CASE g # h
    <3>1. req'[g] = req[g] /\ req[g].stage \in Stage /\ req[g].dep \in Stage
      BY <1>1, <2>2 DEF TypeOK, Request
    <3>2. SeenInv(g)
      BY DEF OrderInv
    <3>3. req[g].pc = "deps" =>
            /\ req[g].dep <= req[g].stage
            /\ \A d \in 1 .. req[g].dep - 1 : Produced(d)'
      BY <1>2, <3>1, <3>2, EarlierStages DEF SeenInv
    <3>4. req[g].pc = "start" => \A d \in 1 .. req[g].stage - 1 : Produced(d)'
      BY <1>2, <3>1, <3>2, EarlierStages DEF SeenInv
    <3>5. QED
      BY <3>1, <3>3, <3>4 DEF SeenInv
  <2>3. QED
    BY <2>1, <2>2
<1>4. SuccessIsPublished'
  BY DEF OrderInv, SuccessIsPublished
<1>5. ASSUME NEW t \in Stage, NEW m \in 1 .. Len(attempts'[t]),
             attempts'[t][m].status # "pending",
             NEW d \in 1 .. t - 1
      PROVE  Produced(d)'
  <2>1. d \in Stage
    BY EarlierStages
  <2>2. CASE t = s /\ m = n
    BY <1>2, <2>1, <2>2
  <2>3. CASE ~(t = s /\ m = n)
    <3>1. Produced(d)
      BY <1>5, <2>3 DEF OrderInv, AttemptsInOrder
    <3>2. QED
      BY <1>2, <2>1, <3>1
  <2>4. QED
    BY <2>2, <2>3
<1>6. AttemptsInOrder'
  BY <1>5 DEF AttemptsInOrder
<1>7. QED
  BY <1>3, <1>4, <1>6 DEF OrderInv

(* A handler that writes the row it works on.                               *)
LEMMA WriteOrder ==
  ASSUME TypeOK, RowInv, OrderInv, NEW h \in Handler, NEW r \in Request,
         NEW x \in Attempt, Working(h),
         req' = [req EXCEPT ![h] = r],
         attempts' = WithRow(attempts, req[h].stage, req[h].seq, x),
         r.pc # "start",
         r.pc = "deps" => r.dep = SOURCE,
         attempts[req[h].stage][req[h].seq].manifests > 0 => x.manifests > 0,
         x.status = "succeeded" => x.manifests > 0
  PROVE  OrderInv'
<1> DEFINE s == req[h].stage
           n == req[h].seq
<1>1. s \in Stage /\ n \in 1 .. Len(attempts[s])
  BY WorkedRow
<1>2. attempts \in Attempts
  BY DEF TypeOK, Attempts
<1>3. \A d \in 1 .. s - 1 : Produced(d)
  BY <1>1 DEF RowInv, ClaimInv, OrderInv, AttemptsInOrder
<1>4. attempts' = WithRow(attempts, s, n, x)
  OBVIOUS
<1>5. attempts[s][n].manifests > 0 => x.manifests > 0
  OBVIOUS
<1> HIDE DEF s, n
<1>6. /\ attempts' \in Attempts
      /\ \A t \in Stage : Len(attempts'[t]) = Len(attempts[t])
      /\ \A t \in Stage : \A m \in 1 .. Len(attempts[t]) :
           attempts'[t][m] = IF t = s /\ m = n THEN x ELSE attempts[t][m]
  BY <1>1, <1>2, <1>4, UpdateRow
<1>7. \A t \in Stage : Len(attempts[t]) \in Nat
  BY LatestRow
<1>8. \A t \in Stage : Len(attempts'[t]) >= Len(attempts[t])
  BY <1>6, <1>7
<1>9. \A t \in Stage : \A m \in 1 .. Len(attempts[t]) :
        attempts[t][m].manifests > 0 => attempts'[t][m].manifests > 0
  BY <1>5, <1>6
<1>10. \A t \in Stage : \A m \in 1 .. Len(attempts'[t]) :
         ~(t = s /\ m = n) =>
           /\ m \in 1 .. Len(attempts[t])
           /\ attempts'[t][m].status = attempts[t][m].status
  BY <1>6
<1>11. /\ n \in Nat
       /\ n \in 1 .. Len(attempts'[s])
       /\ attempts'[s][n].status = "succeeded" => attempts'[s][n].manifests > 0
  BY <1>1, <1>6, <1>7
<1>12. QED
  BY <1>1, <1>3, <1>6, <1>8, <1>9, <1>10, <1>11, RowsOrder

(* _start_stage_run: the stage's row is started after the checks.           *)
LEMMA StartOrder ==
  ASSUME TypeOK, RowInv, OrderInv, NEW h \in Handler, StartAttempt(h)
  PROVE  OrderInv'
<1> DEFINE s == req[h].stage
           n == req[h].seq
<1>1. req[h] \in Request /\ req[h].pc = "start"
  BY DEF TypeOK, StartAttempt
<1>2. CASE ~SequenceFree(req[h])
  <2> DEFINE r == Raised(req[h])
  <2>1. r \in Request /\ r.pc \in {"idle", "mark_failed"}
    BY <1>1, NewRequests
  <2>2. req' = [req EXCEPT ![h] = r] /\ attempts' = attempts
    BY <1>2 DEF StartAttempt
  <2> HIDE DEF r
  <2>3. QED
    BY <2>1, <2>2, QuietOrder
<1>3. CASE SequenceFree(req[h])
  <2> DEFINE r == [req[h] EXCEPT !.pc = IF Inputs(s) = {} THEN AfterReads(s) ELSE "read"]
  <2>1. /\ r \in Request
        /\ r.pc \in {"read", "persist", "write"}
    BY <1>1 DEF Request, PC, AfterReads
  <2>2. /\ req' = [req EXCEPT ![h] = r]
        /\ attempts' = MarkStaleAfter(s, StartRow(req[h]))
    BY <1>3 DEF StartAttempt
  <2> HIDE DEF r
  <2>3. /\ s \in Stage
        /\ attempts' \in Attempts
        /\ \A t \in Stage : Len(attempts'[t]) =
             IF t = s /\ ~req[h].reuse THEN Len(attempts[t]) + 1 ELSE Len(attempts[t])
        /\ n \in 1 .. Len(attempts'[s])
        /\ ~req[h].reuse => n = Len(attempts[s]) + 1
        /\ attempts'[s][n].status = "running"
        /\ \A t \in Stage : \A m \in 1 .. Len(attempts[t]) :
             ~(t = s /\ m = n) =>
               attempts'[t][m] = IF t > s THEN MarkStale(attempts[t][m])
                                          ELSE attempts[t][m]
        /\ \A m \in 1 .. Len(attempts[s]) :
             attempts'[s][m].manifests = attempts[s][m].manifests
    BY <1>1, <1>3, <2>2, StartRows
  <2>4. \A d \in 1 .. s - 1 : Produced(d)
    BY <1>1 DEF OrderInv, SeenInv
  <2>5. \A t \in Stage : Len(attempts[t]) \in Nat
    BY LatestRow
  <2>6. \A t \in Stage : \A m \in 1 .. Len(attempts[t]) : attempts[t][m] \in Attempt
    BY ElementOfSeq DEF TypeOK
  <2>7. n \in Nat
    BY <1>1 DEF Request
  <2> HIDE DEF s, n
  <2>8. \A t \in Stage : \A m \in 1 .. Len(attempts[t]) :
          ~(t = s /\ m = n) =>
            /\ attempts'[t][m].status = attempts[t][m].status
            /\ attempts'[t][m].manifests = attempts[t][m].manifests
    BY <2>3, <2>6, MarkStaleFields, ZenonT(30)
  <2>9. \A t \in Stage : Len(attempts'[t]) >= Len(attempts[t])
    BY <2>3, <2>5
  <2>10. \A t \in Stage : \A m \in 1 .. Len(attempts'[t]) :
           ~(t = s /\ m = n) => m \in 1 .. Len(attempts[t])
    BY <2>3, <2>5
  <2>11. \A t \in Stage : \A m \in 1 .. Len(attempts'[t]) :
           ~(t = s /\ m = n) =>
             /\ m \in 1 .. Len(attempts[t])
             /\ attempts'[t][m].status = attempts[t][m].status
    BY <2>8, <2>10
  <2>12. \A t \in Stage : \A m \in 1 .. Len(attempts[t]) :
           attempts[t][m].manifests > 0 => attempts'[t][m].manifests > 0
    BY <2>3, <2>8
  <2>13. QED
    BY <2>1, <2>2, <2>3, <2>4, <2>7, <2>9, <2>11, <2>12, RowsOrder
<1>4. QED
  BY <1>2, <1>3

-----------------------------------------------------------------------------
(* One case per action. *)

(* Checking the stages before one's own, and deciding which row to use.     *)
LEMMA CheckOrder ==
  ASSUME TypeOK, OrderInv, NEW h \in Handler,
         CheckDependency(h) \/ ClaimAttempt(h)
  PROVE  OrderInv'
<1>1. /\ req[h] \in Request /\ req[h].stage \in Stage /\ req[h].dep \in Stage
      /\ req[h].pc = "deps"
      /\ req[h].dep <= req[h].stage
      /\ \A d \in 1 .. req[h].dep - 1 : Produced(d)
  BY DEF TypeOK, Request, CheckDependency, ClaimAttempt, OrderInv, SeenInv
<1>2. CASE CheckDependency(h)
  <2> DEFINE d == req[h].dep
             r == [req[h] EXCEPT !.dep = d + 1]
  <2>1. CASE Fresh(d)
    <3>1. Latest(d) \in Attempt /\ Latest(d).status = "succeeded"
      BY <1>1, <2>1, LatestRow DEF Fresh
    <3>2. Len(attempts[d]) \in 1 .. Len(attempts[d])
      BY <1>1, LatestRow DEF TypeOK
    <3>3. Produced(d)
      BY <1>1, <3>1, <3>2 DEF Latest, Produced, OrderInv, SuccessIsPublished
    <3>4. d + 1 \in Stage /\ d + 1 <= req[h].stage
      BY <1>1, <1>2 DEF CheckDependency, Stage, SOURCE, VECTORIZE
    <3>5. \A e \in 1 .. (d + 1) - 1 : Produced(e)
      <4>1. \A e \in 1 .. (d + 1) - 1 : e = d \/ e \in 1 .. d - 1
        BY <1>1 DEF Stage, SOURCE, VECTORIZE
      <4>2. QED
        BY <1>1, <3>3, <4>1
    <3>6. /\ r \in Request /\ r.pc = "deps"
          /\ r.dep = d + 1 /\ r.stage = req[h].stage
      BY <1>1, <3>4 DEF Request
    <3>7. req' = [req EXCEPT ![h] = r] /\ attempts' = attempts
      BY <1>2, <2>1 DEF CheckDependency
    <3> HIDE DEF r, d
    <3>8. QED
      BY <3>4, <3>5, <3>6, <3>7, QuietOrder
  <2>2. CASE ~Fresh(d)
    <3> DEFINE q == Raised(req[h])
    <3>1. q \in Request /\ q.pc \in {"idle", "mark_failed"}
      BY <1>1, NewRequests
    <3>2. req' = [req EXCEPT ![h] = q] /\ attempts' = attempts
      BY <1>2, <2>2 DEF CheckDependency
    <3> HIDE DEF q
    <3>3. QED
      BY <3>1, <3>2, QuietOrder
  <2>3. QED
    BY <2>1, <2>2
<1>3. CASE ClaimAttempt(h)
  <2> DEFINE s == req[h].stage
             reuse == Reusable(Latest(s))
             seq == IF reuse THEN Len(attempts[s]) ELSE Len(attempts[s]) + 1
             r == [req[h] EXCEPT !.pc = "start", !.seq = seq, !.reuse = reuse,
                                 !.wasStale = Latest(s).stale]
  <2>1. Latest(s) \in Attempt /\ Len(attempts[s]) \in Nat
    BY <1>1, LatestRow
  <2>2. reuse \in BOOLEAN /\ Latest(s).stale \in BOOLEAN /\ seq \in Nat
    BY <2>1 DEF Reusable, Attempt
  <2>3. \A d \in 1 .. s - 1 : Produced(d)
    BY <1>1, <1>3 DEF ClaimAttempt
  <2> HIDE DEF seq, reuse
  <2>4. r \in Request /\ r.pc = "start" /\ r.stage = s
    BY <1>1, <2>2 DEF Request, PC
  <2>5. req' = [req EXCEPT ![h] = r] /\ attempts' = attempts
    BY <1>3 DEF ClaimAttempt, reuse, seq
  <2> HIDE DEF r, s
  <2>6. QED
    BY <2>3, <2>4, <2>5, QuietOrder
<1>4. QED
  BY <1>2, <1>3

LEMMA OrderInductive ==
  TypeOK /\ RowInv /\ OrderInv /\ [Next]_vars => OrderInv'
<1>1. SUFFICES ASSUME TypeOK, RowInv, OrderInv, [Next]_vars PROVE OrderInv'
  OBVIOUS
<1>2. CASE UNCHANGED vars
  BY <1>1, <1>2
  DEF vars, OrderInv, SeenInv, Produced, SuccessIsPublished, AttemptsInOrder
<1>3. CASE Next
  <2>1. PICK h \in Handler :
          Begin(h) \/ Work(h) \/ TransactionRefused(h) \/ Crash(h)
    BY <1>3 DEF Next
  <2>2. req[h] \in Request
    BY <1>1 DEF TypeOK
  <2>3. CASE Begin(h)
    <3>1. PICK asked \in Asked : req' = [req EXCEPT ![h] = EnterStage(asked[1], asked[2])]
      BY <2>3 DEF Begin
    <3>2. asked[1] \in Mode /\ asked[2] \in Stage
      BY AskedAssumption DEF AnyRequest, Mode, Stage, SOURCE, VECTORIZE
    <3> DEFINE r == EnterStage(asked[1], asked[2])
    <3>3. /\ r \in Request /\ r.pc = "deps" /\ r.dep = SOURCE
          /\ r.stage \in Stage
      BY <3>2, NewRequests
    <3>4. req' = [req EXCEPT ![h] = r] /\ attempts' = attempts
      BY <2>3, <3>1 DEF Begin
    <3> HIDE DEF r
    <3>5. r.dep <= r.stage /\ 1 .. r.dep - 1 = {}
      BY <3>3 DEF Stage, SOURCE, VECTORIZE
    <3>6. QED
      BY <1>1, <3>3, <3>4, <3>5, QuietOrder
  <2>4. CASE CheckDependency(h) \/ ClaimAttempt(h)
    BY <1>1, <2>4, CheckOrder
  <2>5. CASE StartAttempt(h)
    BY <1>1, <2>5, StartOrder
  <2>6. CASE ReadArtifacts(h) \/ PersistIndex(h) \/ PayloadFails(h)
    <3>1. \E r \in Request :
            /\ req' = [req EXCEPT ![h] = r]
            /\ r.pc \in {"read", "persist", "write", "fail"}
      BY <1>1, <2>6, PayloadMoves
    <3>2. attempts' = attempts
      BY <2>6 DEF ReadArtifacts, PersistIndex, PayloadFails
    <3>3. QED
      BY <1>1, <3>1, <3>2, QuietOrder
  <2>7. CASE WriteArtifacts(h)
    <3> DEFINE a == attempts[req[h].stage][req[h].seq]
               x == Store(a, req[h].from)
               r == [req[h] EXCEPT !.pc = "commit"]
    <3>1. Working(h)
      BY <2>7 DEF Working, InPayload, WriteArtifacts
    <3>2. a \in Attempt /\ req[h].from \in Basis
          /\ req[h].stage \in Stage /\ req[h].seq \in 1 .. Len(attempts[req[h].stage])
      BY <1>1, <3>1, WorkedRow DEF Request
    <3>3. x \in Attempt /\ x.status = a.status /\ x.manifests = a.manifests
      BY <3>2, StoreFields
    <3>4. a.status = "succeeded" => a.manifests > 0
      BY <1>1, <3>2 DEF OrderInv, SuccessIsPublished
    <3>5. r \in Request /\ r.pc = "commit"
      BY <2>2 DEF Request, PC
    <3>6. /\ req' = [req EXCEPT ![h] = r]
          /\ attempts' = WithRow(attempts, req[h].stage, req[h].seq, x)
      BY <2>7 DEF WriteArtifacts, WithRow
    <3>7. /\ a.manifests > 0 => x.manifests > 0
          /\ x.status = "succeeded" => x.manifests > 0
      BY <3>3, <3>4
    <3> HIDE DEF r, x
    <3>8. QED
      BY <1>1, <3>1, <3>3, <3>5, <3>6, <3>7, WriteOrder
  <2>8. CASE CommitSuccess(h)
    <3> DEFINE a == attempts[req[h].stage][req[h].seq]
               x == Publish(a)
               r == NextStage(req[h])
    <3>1. Working(h)
      BY <2>8 DEF Working, InPayload, CommitSuccess
    <3>2. a \in Attempt
      BY <1>1, <3>1, WorkedRow
    <3>3. x \in Attempt /\ x.manifests = a.manifests + 1
      BY <3>2, PublishFields
    <3>4. x.manifests > 0
      BY <3>2, <3>3 DEF Attempt
    <3>5. r \in Request /\ r.pc # "start" /\ (r.pc = "deps" => r.dep = SOURCE)
      BY <2>2, NewRequests
    <3>6. /\ req' = [req EXCEPT ![h] = r]
          /\ attempts' = WithRow(attempts, req[h].stage, req[h].seq, x)
      BY <2>8 DEF CommitSuccess, WithRow
    <3> HIDE DEF r, x, a
    <3>7. QED
      BY <1>1, <3>1, <3>3, <3>4, <3>5, <3>6, WriteOrder
  <2>9. CASE CommitFailure(h)
    <3> DEFINE a == attempts[req[h].stage][req[h].seq]
               x == Finish(a, "failed")
               r == Raised(req[h])
    <3>1. Working(h)
      BY <2>9 DEF Working, InPayload, CommitFailure
    <3>2. a \in Attempt
      BY <1>1, <3>1, WorkedRow
    <3>3. x \in Attempt /\ x.manifests = a.manifests /\ x.status = "failed"
      BY <3>2, FinishFields DEF Status
    <3>4. r \in Request /\ r.pc \in {"idle", "mark_failed"}
      BY <2>2, NewRequests
    <3>5. /\ req' = [req EXCEPT ![h] = r]
          /\ attempts' = WithRow(attempts, req[h].stage, req[h].seq, x)
      BY <2>9 DEF CommitFailure, WithRow
    <3>6. a.manifests > 0 => x.manifests > 0
      BY <3>3
    <3> HIDE DEF r, x
    <3>7. QED
      BY <1>1, <3>1, <3>3, <3>4, <3>5, <3>6, WriteOrder
  <2>10. CASE \/ ReadResult(h) \/ MarkRunFailed(h) \/ FallBack(h)
              \/ TransactionRefused(h) \/ Crash(h)
    <3>1. \E r \in Request :
            /\ req' = [req EXCEPT ![h] = r]
            /\ r.pc \in {"idle", "mark_failed", "fallback"}
      BY <1>1, <2>10, EndMoves
    <3>2. attempts' = attempts
      BY <2>10 DEF ReadResult, MarkRunFailed, FallBack, TransactionRefused, Crash
    <3>3. QED
      BY <1>1, <3>1, <3>2, QuietOrder
  <2>11. QED
    BY <2>1, <2>3, <2>4, <2>5, <2>6, <2>7, <2>8, <2>9, <2>10 DEF Work
<1>4. QED
  BY <1>1, <1>2, <1>3

(* No attempt at a stage is under way or decided before every earlier stage *)
(* has published artifacts, however many requests interleave.               *)
THEOREM StagesAlwaysInOrder == Spec => []StagesInOrder
<1>1. Init => OrderInv
  BY InitOrder
<1>2. (TypeOK /\ RowInv) /\ OrderInv /\ [Next]_vars => OrderInv'
  BY OrderInductive
<1>3. TypeOK /\ OrderInv => StagesInOrder
  <2>1. SUFFICES ASSUME TypeOK, OrderInv, NEW s \in Stage PROVE
          Latest(s).status # "pending" => \A d \in 1 .. s - 1 : Produced(d)
    BY DEF StagesInOrder
  <2>2. Len(attempts[s]) \in 1 .. Len(attempts[s])
    BY <2>1, LatestRow DEF TypeOK
  <2>3. QED
    BY <2>1, <2>2 DEF Latest, OrderInv, AttemptsInOrder
<1>4. (TypeOK /\ RowInv) /\ OrderInv => StagesInOrder
  BY <1>3
<1>5. QED
  BY <1>1, <1>2, <1>4, RowsInvariant, PTL DEF Spec

-----------------------------------------------------------------------------
(* What holds when requests are served one at a time, for every choice of   *)
(* requests and every bound: stages that count as fresh are current, a run  *)
(* reported as succeeded is complete, the persisted index is coherent, and  *)
(* the run implements an incremental build.  Two handlers at a time break   *)
(* the first of these, which a run of TLC shows.                            *)

OneAtATime == \A g, h \in Handler : g = h

-----------------------------------------------------------------------------
(* What the steps make of the latest attempts. *)

(* The stage constants as numbers, and the inputs of a stage.               *)
LEMMA InputsEarlier ==
  ASSUME NEW s \in Stage
  PROVE  /\ Inputs(s) \subseteq Stage
         /\ \A i \in Inputs(s) : i < s
         /\ \A i \in Inputs(s) : i \in 1 .. s - 1
         /\ \A d \in 1 .. s - 1 : d \in Stage /\ d < s
BY DEF Inputs, Stage, SOURCE, PARSE_BLOCKS, CHUNK_NODES, QUALITY_ENRICH, VECTORIZE

(* Writing the latest row of a stage.                                       *)
LEMMA WriteLatest ==
  ASSUME TypeOK, NEW s \in Stage, NEW x \in Attempt,
         attempts' = WithRow(attempts, s, Len(attempts[s]), x)
  PROVE  /\ \A t \in Stage : Len(attempts'[t]) = Len(attempts[t])
         /\ \A t \in Stage : Latest(t)' = IF t = s THEN x ELSE Latest(t)
         /\ \A t \in Stage : \A m \in 1 .. Len(attempts[t]) :
              ~(t = s /\ m = Len(attempts[s])) => attempts'[t][m] = attempts[t][m]
<1> DEFINE n == Len(attempts[s])
<1>1. \A t \in Stage : Len(attempts[t]) \in Nat /\ Len(attempts[t]) > 0
  BY LatestRow DEF TypeOK
<1>2. n \in 1 .. Len(attempts[s])
  BY <1>1
<1>3. attempts \in Attempts /\ attempts' = WithRow(attempts, s, n, x)
  BY DEF TypeOK, Attempts
<1> HIDE DEF n
<1>4. /\ \A t \in Stage : Len(attempts'[t]) = Len(attempts[t])
      /\ \A t \in Stage : \A m \in 1 .. Len(attempts[t]) :
           attempts'[t][m] = IF t = s /\ m = n THEN x ELSE attempts[t][m]
  BY <1>2, <1>3, UpdateRow
<1>5. ASSUME NEW t \in Stage PROVE Latest(t)' = IF t = s THEN x ELSE Latest(t)
  <2>1. Len(attempts[t]) \in 1 .. Len(attempts[t])
    BY <1>1
  <2>2. Latest(t)' = attempts'[t][Len(attempts[t])]
    BY <1>4 DEF Latest
  <2>3. QED
    BY <1>4, <2>1, <2>2 DEF Latest, n
<1>6. QED
  BY <1>4, <1>5 DEF n

(* Starting an attempt: the latest row of its stage is running, the earlier *)
(* stages stay as they were and the later ones are stale.                   *)
LEMMA StartLatest ==
  ASSUME TypeOK, RowInv, NEW h \in Handler, Alone(req[h]),
         req[h].pc = "start", SequenceFree(req[h]),
         NEW s \in Stage, s = req[h].stage,
         attempts' = MarkStaleAfter(s, StartRow(req[h]))
  PROVE  /\ Len(attempts'[s]) = req[h].seq
         /\ Latest(s)'.status = "running"
         /\ \A t \in Stage : t < s => /\ Len(attempts'[t]) = Len(attempts[t])
                                      /\ Latest(t)' = Latest(t)
         /\ \A t \in Stage : t > s => Latest(t)'.stale
         /\ \A t \in Stage : \A m \in 1 .. Len(attempts[t]) :
              attempts[t][m].status = "succeeded" =>
                /\ m \in 1 .. Len(attempts'[t])
                /\ attempts'[t][m].status = "succeeded"
                /\ attempts'[t][m].from = attempts[t][m].from
<1> DEFINE n == req[h].seq
<1>1. /\ attempts' \in Attempts
      /\ \A t \in Stage : Len(attempts'[t]) =
           IF t = s /\ ~req[h].reuse THEN Len(attempts[t]) + 1 ELSE Len(attempts[t])
      /\ attempts'[s][n].status = "running"
      /\ \A t \in Stage : \A m \in 1 .. Len(attempts[t]) :
           ~(t = s /\ m = n) =>
             attempts'[t][m] = IF t > s THEN MarkStale(attempts[t][m])
                                        ELSE attempts[t][m]
  BY StartRows
<1>2. n = IF req[h].reuse THEN Len(attempts[s]) ELSE Len(attempts[s]) + 1
  BY DEF Alone
<1>3. \A t \in Stage : Len(attempts[t]) \in Nat /\ Len(attempts[t]) > 0
  BY LatestRow DEF TypeOK
<1>4. \A t \in Stage : \A m \in 1 .. Len(attempts[t]) : attempts[t][m] \in Attempt
  BY ElementOfSeq DEF TypeOK
<1>5. req[h].reuse => Latest(s).status # "succeeded"
  BY DEF Alone
<1> HIDE DEF n
<1>6. Len(attempts'[s]) = n /\ Latest(s)'.status = "running"
  <2>1. Len(attempts'[s]) = n
    BY <1>1, <1>2
  <2>2. QED
    BY <1>1, <2>1 DEF Latest
<1>7. ASSUME NEW t \in Stage, t # s
      PROVE  /\ Len(attempts'[t]) = Len(attempts[t])
             /\ Latest(t)' = IF t > s THEN MarkStale(Latest(t)) ELSE Latest(t)
  <2>1. Len(attempts'[t]) = Len(attempts[t]) /\ Len(attempts[t]) \in 1 .. Len(attempts[t])
    BY <1>1, <1>3, <1>7
  <2>2. QED
    BY <1>1, <1>7, <2>1 DEF Latest
<1>8. \A t \in Stage : t < s \/ t > s => t # s
  BY DEF Stage, SOURCE, VECTORIZE
<1>9. \A t \in Stage : t < s => ~(t > s)
  BY DEF Stage, SOURCE, VECTORIZE
<1>10. \A t \in Stage : t < s => /\ Len(attempts'[t]) = Len(attempts[t])
                                 /\ Latest(t)' = Latest(t)
  BY <1>7, <1>8, <1>9
<1>11. \A t \in Stage : t > s => Latest(t)'.stale
  BY <1>7, <1>8, LatestRow, MarkStaleFields
<1>12. ASSUME NEW t \in Stage, NEW m \in 1 .. Len(attempts[t]),
              attempts[t][m].status = "succeeded"
       PROVE  /\ m \in 1 .. Len(attempts'[t])
              /\ attempts'[t][m].status = "succeeded"
              /\ attempts'[t][m].from = attempts[t][m].from
  <2>1. m \in 1 .. Len(attempts'[t])
    BY <1>1, <1>3
  <2>2. ~(t = s /\ m = n)
    BY <1>2, <1>3, <1>5, <1>12 DEF Latest
  <2>3. attempts'[t][m] = IF t > s THEN MarkStale(attempts[t][m]) ELSE attempts[t][m]
    BY <1>1, <2>2
  <2>4. attempts[t][m] \in Attempt
    BY <1>4
  <2>5. QED
    BY <1>12, <2>1, <2>3, <2>4, MarkStaleFields
<1>13. QED
  BY <1>1, <1>6, <1>10, <1>11, <1>12 DEF n

-----------------------------------------------------------------------------
(* What a step has to show. *)

(* The index stays settled and coherent when the attempts that succeeded    *)
(* keep their outcome and what they were made from.                         *)
LEMMA IndexKept ==
  ASSUME CoherentIndex, SettledIndex, index' = index,
         \A t \in Stage : \A m \in 1 .. Len(attempts[t]) :
           attempts[t][m].status = "succeeded" =>
             /\ m \in 1 .. Len(attempts'[t])
             /\ attempts'[t][m].status = "succeeded"
             /\ attempts'[t][m].from = attempts[t][m].from
  PROVE  CoherentIndex' /\ SettledIndex'
<1>1. QUALITY_ENRICH \in Stage /\ CHUNK_NODES \in Stage
  BY DEF Stage, SOURCE, QUALITY_ENRICH, CHUNK_NODES, VECTORIZE
<1>2. CASE index = NoBasis
  BY <1>2 DEF CoherentIndex, SettledIndex
<1>3. CASE index # NoBasis
  <2> DEFINE e == index[QUALITY_ENRICH]
             c == attempts[QUALITY_ENRICH][e].from[CHUNK_NODES]
  <2>1. /\ e \in 1 .. Len(attempts[QUALITY_ENRICH])
        /\ attempts[QUALITY_ENRICH][e].status = "succeeded"
        /\ c \in 1 .. Len(attempts[CHUNK_NODES])
        /\ attempts[CHUNK_NODES][c].status = "succeeded"
    BY <1>3 DEF SettledIndex
  <2>2. /\ e \in 1 .. Len(attempts'[QUALITY_ENRICH])
        /\ attempts'[QUALITY_ENRICH][e].status = "succeeded"
        /\ attempts'[QUALITY_ENRICH][e].from = attempts[QUALITY_ENRICH][e].from
    BY <1>1, <2>1
  <2>3. /\ c \in 1 .. Len(attempts'[CHUNK_NODES])
        /\ attempts'[CHUNK_NODES][c].status = "succeeded"
        /\ attempts'[CHUNK_NODES][c].from = attempts[CHUNK_NODES][c].from
    BY <1>1, <2>1
  <2>4. SettledIndex'
    BY <2>2, <2>3 DEF SettledIndex
  <2>5. CoherentIndex'
    BY <1>3, <2>2, <2>3 DEF CoherentIndex
  <2>6. QED
    BY <2>4, <2>5
<1>4. QED
  BY <1>2, <1>3

(* A step that writes no row, no index and no run.                          *)
LEMMA QuietAlone ==
  ASSUME TypeOK, OneAtATime, AloneIndInv, NEW h \in Handler, NEW r \in Request,
         Alone(r), req' = [req EXCEPT ![h] = r],
         UNCHANGED <<run, attempts, index>>
  PROVE  AloneIndInv'
<1>1. \A g \in Handler : req'[g] = r
  BY DEF TypeOK, OneAtATime
<1>2. \A g \in Handler : Alone(req[g])'
  BY <1>1 DEF Alone, Fresh, Latest, Unread
<1>3. /\ FreshIsCurrent'
      /\ RunSucceededIsComplete'
  BY DEF AloneIndInv, FreshIsCurrent, FreshFromLatest, RunSucceededIsComplete, Fresh, Latest
<1>4. CoherentIndex' /\ SettledIndex'
  BY DEF AloneIndInv, CoherentIndex, SettledIndex
<1>5. QED
  BY <1>2, <1>3, <1>4 DEF AloneIndInv

(* A step after which the handler is not at work on a stage: the run may    *)
(* have failed and the index may be replaced by one of no attempt.          *)
LEMMA EndAlone ==
  ASSUME TypeOK, OneAtATime, AloneIndInv, NEW h \in Handler, NEW r \in Request,
         r.pc \in {"idle", "mark_failed", "fallback", "result"},
         req' = [req EXCEPT ![h] = r],
         attempts' = attempts,
         run' = run \/ run' = "failed",
         index' = index \/ (index' = NoBasis /\ run' # "succeeded"),
         r.pc = "fallback" => run' = "failed"
  PROVE  AloneIndInv'
<1>1. \A g \in Handler : req'[g] = r
  BY DEF TypeOK, OneAtATime
<1>2. \A g \in Handler : Alone(req[g])'
  BY <1>1 DEF Alone, InPayload
<1>3. /\ FreshIsCurrent'
      /\ RunSucceededIsComplete'
  BY DEF AloneIndInv, FreshIsCurrent, FreshFromLatest, RunSucceededIsComplete, Fresh, Latest
<1>4. CoherentIndex' /\ SettledIndex'
  BY DEF AloneIndInv, CoherentIndex, SettledIndex
<1>5. QED
  BY <1>2, <1>3, <1>4 DEF AloneIndInv

(* The row a handler works on is the latest of its stage and running.       *)
LEMMA AloneWorks ==
  ASSUME TypeOK, AloneIndInv, NEW h \in Handler, Working(h)
  PROVE  /\ Alone(req[h])
         /\ run = "running"
         /\ req[h].stage \in Stage
         /\ req[h].seq = Len(attempts[req[h].stage])
         /\ Latest(req[h].stage).status = "running"
         /\ \A d \in 1 .. req[h].stage - 1 : Fresh(d)
         /\ \A t \in Stage : t > req[h].stage => Latest(t).stale
         /\ req[h].pc \in InPayload \cup {"fail"}
BY DEF TypeOK, Request, AloneIndInv, Alone, Working, InPayload

(* When the earlier stages are fresh and stay as they are, the later ones   *)
(* are stale, and the stage itself, if fresh, was made from the latest      *)
(* attempts at its inputs, what counts as fresh is current.                 *)
LEMMA FreshAround ==
  ASSUME FreshIsCurrent, NEW s \in Stage,
         \A d \in 1 .. s - 1 : Fresh(d),
         \A t \in Stage : t < s => /\ Len(attempts'[t]) = Len(attempts[t])
                                   /\ Latest(t)' = Latest(t),
         \A t \in Stage : t > s => Latest(t)'.stale,
         Fresh(s)' => \A i \in Inputs(s) : Latest(s)'.from[i] = Len(attempts'[i])
  PROVE  FreshIsCurrent' /\ \A d \in 1 .. s - 1 : Fresh(d)'
<1>1. \A t \in Stage : t < s => Fresh(t)' = Fresh(t)
  BY DEF Fresh
<1>2. \A t \in Stage : t > s => ~Fresh(t)'
  BY DEF Fresh
<1>3. \A t \in Stage : t < s \/ t = s \/ t > s
  BY DEF Stage, SOURCE, VECTORIZE
<1>4. \A d \in 1 .. s - 1 : d \in Stage /\ d < s
  BY InputsEarlier
<1>5. \A d \in 1 .. s - 1 : Fresh(d)'
  BY <1>1, <1>4
<1>6. ASSUME NEW t \in Stage, Fresh(t)', t < s, NEW i \in Inputs(t)
      PROVE  Latest(t)'.from[i] = Len(attempts'[i])
  <2>1. i \in Stage /\ i < t
    BY InputsEarlier
  <2>2. i < s
    BY <1>6, <2>1 DEF Stage, SOURCE, VECTORIZE
  <2>3. Latest(t).from[i] = Len(attempts[i])
    BY <1>1, <1>6 DEF FreshIsCurrent, FreshFromLatest
  <2>4. QED
    BY <1>6, <2>1, <2>2, <2>3
<1>7. FreshFromLatest'
  BY <1>2, <1>3, <1>6 DEF FreshFromLatest
<1>8. \A t, d \in Stage : t <= s /\ d < t => d \in 1 .. s - 1
  BY DEF Stage, SOURCE, VECTORIZE
<1>9. \A t \in Stage : Fresh(t)' => t <= s
  BY <1>2, <1>3 DEF Stage, SOURCE, VECTORIZE
<1>10. \A t \in Stage : Fresh(t)' => \A d \in Stage : d < t => Fresh(d)'
  BY <1>5, <1>8, <1>9
<1>11. QED
  BY <1>5, <1>7, <1>10 DEF FreshIsCurrent

(* Writing the row that the handler works on.                               *)
LEMMA WorkedLatest ==
  ASSUME TypeOK, AloneIndInv, NEW h \in Handler, Working(h), NEW x \in Attempt,
         NEW s \in Stage, s = req[h].stage,
         attempts' = WithRow(attempts, s, req[h].seq, x),
         index' = index,
         x.status = "succeeded" => \A i \in Inputs(s) : x.from[i] = Len(attempts[i])
  PROVE  /\ \A t \in Stage : Len(attempts'[t]) = Len(attempts[t])
         /\ \A t \in Stage : Latest(t)' = IF t = s THEN x ELSE Latest(t)
         /\ CoherentIndex' /\ SettledIndex'
         /\ FreshIsCurrent'
         /\ \A d \in 1 .. s - 1 : Fresh(d)'
<1>1. /\ req[h].seq = Len(attempts[s])
      /\ Latest(s).status = "running"
      /\ \A d \in 1 .. s - 1 : Fresh(d)
      /\ \A t \in Stage : t > s => Latest(t).stale
  BY AloneWorks
<1>2. /\ \A t \in Stage : Len(attempts'[t]) = Len(attempts[t])
      /\ \A t \in Stage : Latest(t)' = IF t = s THEN x ELSE Latest(t)
      /\ \A t \in Stage : \A m \in 1 .. Len(attempts[t]) :
           ~(t = s /\ m = Len(attempts[s])) => attempts'[t][m] = attempts[t][m]
  BY <1>1, WriteLatest
<1>3. \A t \in Stage : \A m \in 1 .. Len(attempts[t]) :
        attempts[t][m].status = "succeeded" =>
          /\ m \in 1 .. Len(attempts'[t])
          /\ attempts'[t][m].status = "succeeded"
          /\ attempts'[t][m].from = attempts[t][m].from
  BY <1>1, <1>2 DEF Latest
<1>4. CoherentIndex' /\ SettledIndex'
  BY <1>3, IndexKept DEF AloneIndInv
<1>5. \A t \in Stage : t < s \/ t > s => t # s
  BY DEF Stage, SOURCE, VECTORIZE
<1>6. /\ \A t \in Stage : t < s => /\ Len(attempts'[t]) = Len(attempts[t])
                                   /\ Latest(t)' = Latest(t)
      /\ \A t \in Stage : t > s => Latest(t)'.stale
  BY <1>1, <1>2, <1>5
<1>7. Fresh(s)' => \A i \in Inputs(s) : Latest(s)'.from[i] = Len(attempts'[i])
  BY <1>2, InputsEarlier DEF Fresh
<1>8. FreshIsCurrent' /\ \A d \in 1 .. s - 1 : Fresh(d)'
  BY <1>1, <1>6, <1>7, FreshAround DEF AloneIndInv
<1>9. QED
  BY <1>2, <1>4, <1>8

-----------------------------------------------------------------------------
(* One step per action. *)

LEMMA InitAlone == Init => AloneIndInv
<1>1. SUFFICES ASSUME Init PROVE AloneIndInv
  OBVIOUS
<1>2. \A s \in Stage : Latest(s).status = "pending"
  BY <1>1 DEF Init, Latest, NewAttempt
<1>3. \A s \in Stage : ~Fresh(s)
  BY <1>2 DEF Fresh
<1>4. FreshIsCurrent
  BY <1>3 DEF FreshIsCurrent, FreshFromLatest
<1>5. \A h \in Handler : Alone(req[h])
  BY <1>1 DEF Init, Alone, Idle, EnterStage, InPayload
<1>6. RunSucceededIsComplete /\ CoherentIndex /\ SettledIndex
  BY <1>1 DEF Init, RunSucceededIsComplete, CoherentIndex, SettledIndex
<1>7. QED
  BY <1>4, <1>5, <1>6 DEF AloneIndInv

(* The steps before an attempt is started.                                  *)
LEMMA BeforeStartAlone ==
  ASSUME TypeOK, OneAtATime, AloneIndInv, NEW h \in Handler,
         Begin(h) \/ CheckDependency(h) \/ ClaimAttempt(h)
  PROVE  AloneIndInv'
<1>1. /\ req[h] \in Request /\ req[h].stage \in Stage /\ req[h].dep \in Stage
      /\ Alone(req[h])
  BY DEF TypeOK, Request, AloneIndInv
<1>2. /\ UNCHANGED <<run, attempts, index>>
      /\ run' = run /\ attempts' = attempts /\ index' = index
  BY DEF Begin, CheckDependency, ClaimAttempt
<1>3. CASE Begin(h)
  <2>1. PICK asked \in Asked : req' = [req EXCEPT ![h] = EnterStage(asked[1], asked[2])]
    BY <1>3 DEF Begin
  <2>2. asked[1] \in Mode /\ asked[2] \in Stage
    BY AskedAssumption DEF AnyRequest, Mode, Stage, SOURCE, VECTORIZE
  <2> DEFINE r == EnterStage(asked[1], asked[2])
  <2>3. r \in Request /\ r.pc = "deps" /\ r.dep = SOURCE /\ r.from = NoBasis
    BY <2>2, NewRequests DEF EnterStage
  <2>4. Alone(r)
    BY <2>3 DEF Alone, InPayload, SOURCE
  <2> HIDE DEF r
  <2>5. req' = [req EXCEPT ![h] = r]
    BY <2>1 DEF r
  <2>6. QED
    BY <1>2, <2>3, <2>4, <2>5, QuietAlone
<1>4. CASE CheckDependency(h) /\ Fresh(req[h].dep)
  <2> DEFINE r == [req[h] EXCEPT !.dep = req[h].dep + 1]
  <2>1. req[h].dep + 1 \in Stage
    BY <1>1, <1>4 DEF CheckDependency, Stage, SOURCE, VECTORIZE
  <2>2. /\ r \in Request /\ r.pc = "deps" /\ r.from = req[h].from
        /\ r.dep = req[h].dep + 1
    BY <1>1, <1>4, <2>1 DEF Request, CheckDependency
  <2>3. req' = [req EXCEPT ![h] = r]
    BY <1>4 DEF CheckDependency
  <2> HIDE DEF r
  <2>4. \A d \in 1 .. r.dep - 1 : d \in 1 .. req[h].dep - 1 \/ d = req[h].dep
    BY <1>1, <2>2 DEF Stage, SOURCE, VECTORIZE
  <2>5. \A d \in 1 .. req[h].dep - 1 : Fresh(d)
    BY <1>1, <1>4 DEF Alone, CheckDependency
  <2>6. r.from = NoBasis
    BY <1>1, <1>4, <2>2 DEF Alone, CheckDependency
  <2>7. Alone(r)
    BY <1>4, <2>2, <2>4, <2>5, <2>6 DEF Alone, InPayload
  <2>8. QED
    BY <1>2, <2>2, <2>3, <2>7, QuietAlone
<1>5. CASE CheckDependency(h) /\ ~Fresh(req[h].dep)
  <2> DEFINE r == Raised(req[h])
  <2>1. r \in Request /\ r.pc \in {"idle", "mark_failed"}
    BY <1>1, NewRequests
  <2>2. req' = [req EXCEPT ![h] = r]
    BY <1>5 DEF CheckDependency
  <2> HIDE DEF r
  <2>3. QED
    BY <1>2, <2>1, <2>2, EndAlone
<1>6. CASE ClaimAttempt(h)
  <2> DEFINE s == req[h].stage
             reuse == Reusable(Latest(s))
             seq == IF reuse THEN Len(attempts[s]) ELSE Len(attempts[s]) + 1
             r == [req[h] EXCEPT !.pc = "start", !.seq = seq, !.reuse = reuse,
                                 !.wasStale = Latest(s).stale]
  <2>1. Latest(s) \in Attempt /\ Len(attempts[s]) \in Nat
    BY <1>1, LatestRow
  <2>2. reuse \in BOOLEAN /\ Latest(s).stale \in BOOLEAN /\ seq \in Nat
    BY <2>1 DEF Reusable, Attempt
  <2>3. reuse => Latest(s).status = "pending"
    BY DEF Reusable
  <2>4. \A d \in 1 .. s - 1 : Fresh(d)
    BY <1>1, <1>6 DEF Alone, ClaimAttempt
  <2>5. req[h].from = NoBasis
    BY <1>1, <1>6 DEF Alone, ClaimAttempt
  <2>6. req' = [req EXCEPT ![h] = r]
    BY <1>6 DEF ClaimAttempt
  <2>7. seq = IF reuse THEN Len(attempts[s]) ELSE Len(attempts[s]) + 1
    OBVIOUS
  <2> HIDE DEF seq, reuse
  <2>8. /\ r \in Request /\ r.pc = "start" /\ r.seq = seq /\ r.reuse = reuse
        /\ r.stage = s /\ r.from = req[h].from
    BY <1>1, <2>2 DEF Request, PC
  <2> HIDE DEF r, s
  <2>9. Alone(r)
    BY <2>3, <2>4, <2>5, <2>7, <2>8 DEF Alone, InPayload
  <2>10. QED
    BY <1>2, <2>6, <2>8, <2>9, QuietAlone
<1>7. QED
  BY <1>3, <1>4, <1>5, <1>6

(* The steps that end a request or hand it on without touching a row.       *)
LEMMA EndsAlone ==
  ASSUME TypeOK, OneAtATime, AloneIndInv, NEW h \in Handler,
         \/ ReadResult(h) \/ MarkRunFailed(h) \/ FallBack(h)
         \/ TransactionRefused(h) \/ Crash(h)
  PROVE  AloneIndInv'
<1>1. req[h] \in Request /\ Alone(req[h])
  BY DEF TypeOK, AloneIndInv
<1>2. PICK r \in Request : /\ req' = [req EXCEPT ![h] = r]
                           /\ r.pc \in {"idle", "mark_failed", "fallback"}
  BY EndMoves
<1>3. req'[h] = r
  BY <1>2 DEF TypeOK
<1>4. attempts' = attempts /\ (run' = run \/ run' = "failed")
  BY DEF ReadResult, MarkRunFailed, FallBack, TransactionRefused, Crash
<1>5. index' = index \/ (index' = NoBasis /\ run' # "succeeded")
  BY <1>1 DEF ReadResult, MarkRunFailed, FallBack, TransactionRefused, Crash, Alone
<1>6. r.pc = "fallback" => run' = "failed"
  <2>1. CASE MarkRunFailed(h)
    BY <2>1 DEF MarkRunFailed
  <2>2. CASE ~MarkRunFailed(h)
    <3>1. req' = [req EXCEPT ![h] = Idle] \/ req' = [req EXCEPT ![h] = Raised(req[h])]
      BY <2>2 DEF ReadResult, FallBack, TransactionRefused, Crash
    <3>2. r = Idle \/ r = Raised(req[h])
      BY <1>3, <3>1 DEF TypeOK
    <3>3. QED
      BY <1>1, <3>2, NewRequests
  <2>3. QED
    BY <2>1, <2>2
<1>7. QED
  BY <1>2, <1>4, <1>5, <1>6, EndAlone

(* _start_stage_run: the row it took is the latest, the later stages are    *)
(* stale.                                                                   *)
LEMMA StartAlone ==
  ASSUME TypeOK, RowInv, OneAtATime, AloneIndInv, NEW h \in Handler, StartAttempt(h)
  PROVE  AloneIndInv'
<1>1. /\ req[h] \in Request /\ req[h].stage \in Stage
      /\ Alone(req[h]) /\ req[h].pc = "start"
  BY DEF TypeOK, Request, AloneIndInv, StartAttempt
<1>2. CASE ~SequenceFree(req[h])
  <2> DEFINE r == Raised(req[h])
  <2>1. r \in Request /\ r.pc \in {"idle", "mark_failed"}
    BY <1>1, NewRequests
  <2>2. /\ req' = [req EXCEPT ![h] = r]
        /\ attempts' = attempts /\ run' = run /\ index' = index
    BY <1>2 DEF StartAttempt
  <2> HIDE DEF r
  <2>3. QED
    BY <2>1, <2>2, EndAlone
<1>3. CASE SequenceFree(req[h])
  <2>1. PICK s \in Stage : s = req[h].stage
    BY <1>1
  <2> DEFINE r == [req[h] EXCEPT !.pc = IF Inputs(s) = {} THEN AfterReads(s) ELSE "read"]
  <2>2. /\ r.pc = IF Inputs(s) = {} THEN AfterReads(s) ELSE "read"
        /\ r.stage = s /\ r.seq = req[h].seq /\ r.from = req[h].from
    BY <1>1, <2>1 DEF Request
  <2>3. /\ req' = [req EXCEPT ![h] = r]
        /\ attempts' = MarkStaleAfter(s, StartRow(req[h]))
        /\ run' = "running" /\ index' = index
    BY <1>3, <2>1 DEF StartAttempt
  <2>4. req'[h] = r
    BY <2>3 DEF TypeOK
  <2> HIDE DEF r
  <2>5. /\ Len(attempts'[s]) = req[h].seq
        /\ Latest(s)'.status = "running"
        /\ \A t \in Stage : t < s => /\ Len(attempts'[t]) = Len(attempts[t])
                                     /\ Latest(t)' = Latest(t)
        /\ \A t \in Stage : t > s => Latest(t)'.stale
        /\ \A t \in Stage : \A m \in 1 .. Len(attempts[t]) :
             attempts[t][m].status = "succeeded" =>
               /\ m \in 1 .. Len(attempts'[t])
               /\ attempts'[t][m].status = "succeeded"
               /\ attempts'[t][m].from = attempts[t][m].from
    BY <1>1, <1>3, <2>1, <2>3, StartLatest
  <2>6. \A d \in 1 .. s - 1 : Fresh(d)
    BY <1>1, <2>1 DEF Alone
  <2>7. FreshIsCurrent' /\ \A d \in 1 .. s - 1 : Fresh(d)'
    BY <2>5, <2>6, FreshAround DEF AloneIndInv, Fresh
  <2>8. CoherentIndex' /\ SettledIndex'
    BY <2>3, <2>5, IndexKept DEF AloneIndInv
  <2>9. r.from = NoBasis
    BY <1>1, <2>2 DEF Alone
  <2>10. Alone(req[h])'
    <3>1. \A i \in Inputs(s) : i \in Stage /\ r.from[i] = 0
      BY <2>9, InputsEarlier DEF NoBasis
    <3>2. Inputs(s) = {} => s # VECTORIZE
      BY DEF Inputs, PARSE_BLOCKS, CHUNK_NODES, QUALITY_ENRICH, VECTORIZE
    <3>3. r.pc \in {"write", "read"} /\ (r.pc = "write" => Inputs(s) = {} /\ s # VECTORIZE)
      BY <2>2, <3>2 DEF AfterReads
    <3>4. r.pc = "write" => Unread(r) = {}
      BY <2>2, <3>3 DEF Unread
    <3>5. Unread(req[h])' = Unread(r)
      BY <2>4 DEF Unread
    <3>6. QED
      BY <2>2, <2>3, <2>4, <2>5, <2>7, <3>1, <3>3, <3>4, <3>5 DEF Alone, InPayload
  <2>11. \A g \in Handler : Alone(req[g])'
    <3>1. \A g \in Handler : g = h
      BY DEF OneAtATime
    <3>2. QED
      BY <2>10, <3>1
  <2>12. RunSucceededIsComplete'
    BY <2>3 DEF RunSucceededIsComplete
  <2>13. QED
    BY <2>7, <2>8, <2>11, <2>12 DEF AloneIndInv
<1>4. QED
  BY <1>2, <1>3

(* Reading the artifacts of the latest attempt at the next input.           *)
LEMMA ReadAlone ==
  ASSUME TypeOK, OneAtATime, AloneIndInv, NEW h \in Handler, ReadArtifacts(h)
  PROVE  AloneIndInv'
<1>1. Working(h) /\ req[h].pc = "read"
  BY DEF Working, InPayload, ReadArtifacts
<1>2. req[h] \in Request /\ req[h].stage \in Stage /\ req[h].from \in Basis
  BY DEF TypeOK, Request
<1>3. Alone(req[h]) /\ UNCHANGED <<run, attempts, index>>
  BY DEF AloneIndInv, ReadArtifacts
<1>4. CASE req' = [req EXCEPT ![h].pc = "fail"]
  <2> DEFINE r == [req[h] EXCEPT !.pc = "fail"]
  <2>1. /\ r \in Request /\ r.pc = "fail" /\ r.stage = req[h].stage
        /\ r.seq = req[h].seq /\ r.from = req[h].from
    BY <1>2 DEF Request, PC
  <2>2. req' = [req EXCEPT ![h] = r]
    BY <1>4
  <2> HIDE DEF r
  <2>3. Alone(r)
    BY <1>1, <1>3, <2>1 DEF Alone, InPayload
  <2>4. QED
    BY <1>3, <2>1, <2>2, <2>3, QuietAlone
<1>5. CASE req' # [req EXCEPT ![h].pc = "fail"]
  <2>1. PICK i \in Unread(req[h]) :
          req' = [req EXCEPT
            ![h].from[i] = Len(attempts[i]),
            ![h].pc = IF Unread(req[h]) = {i} THEN AfterReads(req[h].stage) ELSE @]
    BY <1>5 DEF ReadArtifacts
  <2>2. i \in Inputs(req[h].stage) /\ i \in Stage
    BY <1>2, InputsEarlier DEF Unread
  <2>3. Len(attempts[i]) \in Nat /\ Len(attempts[i]) > 0
    BY <2>2, LatestRow DEF TypeOK
  <2> DEFINE from == [req[h].from EXCEPT ![i] = Len(attempts[i])]
             pc == IF Unread(req[h]) = {i} THEN AfterReads(req[h].stage) ELSE req[h].pc
             r == [req[h] EXCEPT !.from = from, !.pc = pc]
  <2>4. /\ from \in Basis
        /\ from[i] = Len(attempts[i])
        /\ \A j \in Stage : j # i => from[j] = req[h].from[j]
    BY <1>2, <2>2, <2>3 DEF Basis
  <2>5. /\ pc \in {"read", "persist", "write"}
        /\ pc = "persist" => req[h].stage = VECTORIZE
        /\ pc = "write" => req[h].stage # VECTORIZE
        /\ pc # "read" => Unread(req[h]) = {i}
    BY <1>1 DEF AfterReads
  <2>6. req' = [req EXCEPT ![h] = r]
    BY <1>2, <2>1
  <2> HIDE DEF from, pc
  <2>7. /\ r \in Request /\ r.pc = pc /\ r.from = from
        /\ r.stage = req[h].stage /\ r.seq = req[h].seq
    BY <1>2, <2>4, <2>5 DEF Request, PC
  <2> HIDE DEF r
  <2>8. \A j \in Inputs(r.stage) : j \in Stage /\ r.from[j] \in {0, Len(attempts[j])}
    BY <1>1, <1>2, <1>3, <2>4, <2>7, InputsEarlier DEF Alone, InPayload
  <2>9. pc # "read" => Unread(r) = {}
    BY <1>2, <2>3, <2>4, <2>5, <2>7, <2>8, InputsEarlier DEF Unread
  <2>10. Alone(r)
    BY <1>1, <1>3, <2>5, <2>7, <2>8, <2>9 DEF Alone, InPayload
  <2>11. QED
    BY <1>3, <2>6, <2>7, <2>10, QuietAlone
<1>6. QED
  BY <1>4, <1>5

LEMMA FailAlone ==
  ASSUME TypeOK, OneAtATime, AloneIndInv, NEW h \in Handler, PayloadFails(h)
  PROVE  AloneIndInv'
<1> DEFINE r == [req[h] EXCEPT !.pc = "fail"]
<1>1. req[h] \in Request /\ Alone(req[h]) /\ req[h].pc \in InPayload
  BY DEF TypeOK, AloneIndInv, PayloadFails
<1>2. /\ r \in Request /\ r.pc = "fail" /\ r.stage = req[h].stage
      /\ r.seq = req[h].seq /\ r.from = req[h].from
  BY <1>1 DEF Request, PC
<1>3. req' = [req EXCEPT ![h] = r] /\ UNCHANGED <<run, attempts, index>>
  BY DEF PayloadFails
<1> HIDE DEF r
<1>4. Alone(r)
  BY <1>1, <1>2 DEF Alone, InPayload
<1>5. QED
  BY <1>2, <1>3, <1>4, QuietAlone

(* What vectorize persists is from the latest attempts at its inputs, all   *)
(* fresh, hence one parse.                                                  *)
LEMMA PersistAlone ==
  ASSUME TypeOK, OneAtATime, AloneIndInv, NEW h \in Handler, PersistIndex(h)
  PROVE  AloneIndInv'
<1> DEFINE r == [req[h] EXCEPT !.pc = "write"]
<1>1. /\ req[h] \in Request /\ Alone(req[h])
      /\ req[h].pc = "persist" /\ req[h].stage = VECTORIZE
  BY DEF TypeOK, AloneIndInv, PersistIndex, Alone
<1>2. /\ r \in Request /\ r.pc = "write" /\ r.stage = VECTORIZE
      /\ r.seq = req[h].seq /\ r.from = req[h].from
  BY <1>1 DEF Request, PC
<1>3. /\ req' = [req EXCEPT ![h] = r] /\ index' = req[h].from
      /\ attempts' = attempts /\ run' = run
  BY DEF PersistIndex
<1>4. req'[h] = r
  BY <1>3 DEF TypeOK
<1> HIDE DEF r
<1>5. /\ PARSE_BLOCKS \in Inputs(VECTORIZE) /\ QUALITY_ENRICH \in Inputs(VECTORIZE)
      /\ PARSE_BLOCKS \in Inputs(QUALITY_ENRICH) /\ CHUNK_NODES \in Inputs(QUALITY_ENRICH)
      /\ PARSE_BLOCKS \in Inputs(CHUNK_NODES)
      /\ {PARSE_BLOCKS, CHUNK_NODES, QUALITY_ENRICH} \subseteq 1 .. VECTORIZE - 1
      /\ {PARSE_BLOCKS, CHUNK_NODES, QUALITY_ENRICH} \subseteq Stage
  BY DEF Inputs, Stage, SOURCE, PARSE_BLOCKS, CHUNK_NODES, QUALITY_ENRICH, VECTORIZE
<1>6. Fresh(PARSE_BLOCKS) /\ Fresh(CHUNK_NODES) /\ Fresh(QUALITY_ENRICH)
  BY <1>1, <1>5 DEF Alone, InPayload
<1>7. \A s \in {PARSE_BLOCKS, CHUNK_NODES, QUALITY_ENRICH} :
        Len(attempts[s]) \in Nat /\ Len(attempts[s]) > 0
  BY <1>5, LatestRow DEF TypeOK
<1>8. \A i \in Inputs(VECTORIZE) : req[h].from[i] = Len(attempts[i])
  BY <1>1 DEF Alone, InPayload, Unread
<1>9. /\ index'[PARSE_BLOCKS] = Len(attempts[PARSE_BLOCKS])
      /\ index'[QUALITY_ENRICH] = Len(attempts[QUALITY_ENRICH])
  BY <1>3, <1>5, <1>8
<1>10. /\ Latest(QUALITY_ENRICH).from[PARSE_BLOCKS] = Len(attempts[PARSE_BLOCKS])
       /\ Latest(QUALITY_ENRICH).from[CHUNK_NODES] = Len(attempts[CHUNK_NODES])
       /\ Latest(CHUNK_NODES).from[PARSE_BLOCKS] = Len(attempts[PARSE_BLOCKS])
  BY <1>5, <1>6 DEF AloneIndInv, FreshIsCurrent, FreshFromLatest
<1>11. CoherentIndex'
  BY <1>3, <1>9, <1>10 DEF CoherentIndex, Latest
<1>12. SettledIndex'
  BY <1>3, <1>6, <1>7, <1>9, <1>10 DEF SettledIndex, Latest, Fresh
<1>13. Alone(req[h])'
  BY <1>1, <1>2, <1>3, <1>4 DEF Alone, InPayload, Unread, Fresh, Latest
<1>14. \A g \in Handler : Alone(req[g])'
  <2>1. \A g \in Handler : g = h
    BY DEF OneAtATime
  <2>2. QED
    BY <1>13, <2>1
<1>15. FreshIsCurrent'
  BY <1>3 DEF AloneIndInv, FreshIsCurrent, FreshFromLatest, Fresh, Latest
<1>16. RunSucceededIsComplete'
  BY <1>1, <1>3 DEF Alone, InPayload, RunSucceededIsComplete
<1>17. QED
  BY <1>11, <1>12, <1>14, <1>15, <1>16 DEF AloneIndInv

(* The three steps that write the row their handler works on.               *)
LEMMA WriteAlone ==
  ASSUME TypeOK, RowInv, OneAtATime, AloneIndInv, NEW h \in Handler, WriteArtifacts(h)
  PROVE  AloneIndInv'
<1> DEFINE r == [req[h] EXCEPT !.pc = "commit"]
<1>1. Working(h) /\ req[h].pc = "write"
  BY DEF Working, InPayload, WriteArtifacts
<1>2. req[h] \in Request /\ req[h].from \in Basis /\ Alone(req[h])
  BY <1>1 DEF TypeOK, Request, AloneIndInv
<1>3. PICK s \in Stage : s = req[h].stage
  BY <1>1, WorkedRow
<1> DEFINE x == Store(Latest(s), req[h].from)
<1>4. /\ req[h].seq = Len(attempts[s]) /\ Latest(s).status = "running"
      /\ run = "running"
  BY <1>1, <1>3, AloneWorks
<1>5. x \in Attempt /\ x.status = "running" /\ x.from = req[h].from
  BY <1>2, <1>4, LatestRow, StoreFields
<1>6. /\ r.pc = "commit" /\ r.stage = s /\ r.seq = req[h].seq /\ r.from = req[h].from
  BY <1>2, <1>3 DEF Request
<1>7. /\ req' = [req EXCEPT ![h] = r]
      /\ attempts' = WithRow(attempts, s, req[h].seq, x)
      /\ run' = run /\ index' = index
  BY <1>3, <1>4 DEF WriteArtifacts, WithRow, Latest
<1>8. req'[h] = r
  BY <1>7 DEF TypeOK
<1> HIDE DEF r, x
<1>9. /\ \A t \in Stage : Len(attempts'[t]) = Len(attempts[t])
      /\ \A t \in Stage : Latest(t)' = IF t = s THEN x ELSE Latest(t)
      /\ CoherentIndex' /\ SettledIndex'
      /\ FreshIsCurrent'
      /\ \A d \in 1 .. s - 1 : Fresh(d)'
  BY <1>1, <1>3, <1>5, <1>7, WorkedLatest
<1>10. \A t \in Stage : t > s => Latest(t)'.stale
  <2>1. \A t \in Stage : t > s => t # s /\ Latest(t).stale
    BY <1>1, <1>3, AloneWorks DEF Stage, SOURCE, VECTORIZE
  <2>2. QED
    BY <1>9, <2>1
<1>11. /\ \A i \in Inputs(s) : i \in Stage /\ req[h].from[i] \in {0, Len(attempts[i])}
       /\ Unread(req[h]) = {}
       /\ s = VECTORIZE => index = req[h].from
  BY <1>1, <1>2, <1>3, InputsEarlier DEF Alone, InPayload
<1>12. Unread(req[h])' = {}
  BY <1>3, <1>6, <1>8, <1>11 DEF Unread
<1>13. Alone(req[h])'
  BY <1>4, <1>5, <1>6, <1>7, <1>8, <1>9, <1>10, <1>11, <1>12 DEF Alone, InPayload
<1>14. \A g \in Handler : Alone(req[g])'
  <2>1. \A g \in Handler : g = h
    BY DEF OneAtATime
  <2>2. QED
    BY <1>13, <2>1
<1>15. RunSucceededIsComplete'
  BY <1>4, <1>7 DEF RunSucceededIsComplete
<1>16. QED
  BY <1>9, <1>14, <1>15 DEF AloneIndInv

LEMMA SuccessAlone ==
  ASSUME TypeOK, RowInv, OneAtATime, AloneIndInv, NEW h \in Handler, CommitSuccess(h)
  PROVE  AloneIndInv'
<1> DEFINE r == NextStage(req[h])
<1>1. Working(h) /\ req[h].pc = "commit"
  BY DEF Working, InPayload, CommitSuccess
<1>2. req[h] \in Request /\ Alone(req[h])
  BY <1>1 DEF TypeOK, AloneIndInv
<1>3. PICK s \in Stage : s = req[h].stage
  BY <1>1, WorkedRow
<1> DEFINE x == Publish(Latest(s))
<1>4. /\ req[h].seq = Len(attempts[s])
      /\ Latest(s).from = req[h].from
  BY <1>1, <1>2, <1>3, AloneWorks DEF Alone
<1>5. x \in Attempt /\ x.status = "succeeded" /\ x.stale = FALSE /\ x.from = req[h].from
  BY <1>4, LatestRow, PublishFields
<1>6. /\ req' = [req EXCEPT ![h] = r]
      /\ attempts' = WithRow(attempts, s, req[h].seq, x)
      /\ run' = RunAfterSuccess(s) /\ index' = index
  BY <1>3, <1>4 DEF CommitSuccess, WithRow, Latest
<1>7. /\ r.pc \in {"idle", "deps", "result"}
      /\ r.pc = "deps" => r.dep = SOURCE /\ r.from = NoBasis
  BY <1>2, NewRequests DEF NextStage, Idle, EnterStage
<1>8. req'[h] = r
  BY <1>6 DEF TypeOK
<1> HIDE DEF r, x
<1>9. \A i \in Inputs(s) : x.from[i] = Len(attempts[i])
  BY <1>1, <1>2, <1>3, <1>5 DEF Alone, InPayload, Unread
<1>10. /\ \A t \in Stage : Latest(t)' = IF t = s THEN x ELSE Latest(t)
       /\ CoherentIndex' /\ SettledIndex'
       /\ FreshIsCurrent'
       /\ \A d \in 1 .. s - 1 : Fresh(d)'
  BY <1>1, <1>3, <1>5, <1>6, <1>9, WorkedLatest
<1>11. Fresh(s)'
  BY <1>5, <1>10 DEF Fresh
<1>12. Alone(req[h])'
  BY <1>7, <1>8 DEF Alone, InPayload, SOURCE
<1>13. \A g \in Handler : Alone(req[g])'
  <2>1. \A g \in Handler : g = h
    BY DEF OneAtATime
  <2>2. QED
    BY <1>12, <2>1
<1>14. ASSUME run' = "succeeded"
       PROVE  (\A t \in Stage : Fresh(t)') /\ index' = Latest(VECTORIZE)'.from
  <2>1. s = VECTORIZE
    BY <1>6, <1>14 DEF RunAfterSuccess
  <2>2. index = req[h].from
    BY <1>1, <1>2, <1>3, <2>1 DEF Alone
  <2>3. \A t \in Stage : t = s \/ t \in 1 .. s - 1
    BY <2>1 DEF Stage, SOURCE, VECTORIZE
  <2>4. QED
    BY <1>5, <1>6, <1>10, <1>11, <2>1, <2>2, <2>3
<1>15. RunSucceededIsComplete'
  BY <1>14 DEF RunSucceededIsComplete
<1>16. QED
  BY <1>10, <1>13, <1>15 DEF AloneIndInv

LEMMA FailureAlone ==
  ASSUME TypeOK, RowInv, OneAtATime, AloneIndInv, NEW h \in Handler, CommitFailure(h)
  PROVE  AloneIndInv'
<1> DEFINE r == Raised(req[h])
<1>1. Working(h)
  BY DEF Working, InPayload, CommitFailure
<1>2. req[h] \in Request
  BY DEF TypeOK
<1>3. PICK s \in Stage : s = req[h].stage
  BY <1>1, WorkedRow
<1> DEFINE x == Finish(Latest(s), "failed")
<1>4. req[h].seq = Len(attempts[s])
  BY <1>1, <1>3, AloneWorks
<1>5. x \in Attempt /\ x.status = "failed"
  BY LatestRow, FinishFields DEF Status
<1>6. /\ req' = [req EXCEPT ![h] = r]
      /\ attempts' = WithRow(attempts, s, req[h].seq, x)
      /\ run' = "failed" /\ index' = index
  BY <1>3, <1>4 DEF CommitFailure, WithRow, Latest
<1>7. r \in Request /\ r.pc \in {"idle", "mark_failed"}
  BY <1>2, NewRequests
<1>8. req'[h] = r
  BY <1>6 DEF TypeOK
<1> HIDE DEF r, x
<1>9. CoherentIndex' /\ SettledIndex' /\ FreshIsCurrent'
  BY <1>1, <1>3, <1>5, <1>6, WorkedLatest
<1>10. Alone(req[h])'
  BY <1>7, <1>8 DEF Alone, InPayload
<1>11. \A g \in Handler : Alone(req[g])'
  <2>1. \A g \in Handler : g = h
    BY DEF OneAtATime
  <2>2. QED
    BY <1>10, <2>1
<1>12. RunSucceededIsComplete'
  BY <1>6 DEF RunSucceededIsComplete
<1>13. QED
  BY <1>9, <1>11, <1>12 DEF AloneIndInv

LEMMA AloneInductive ==
  ASSUME OneAtATime
  PROVE  TypeOK /\ RowInv /\ AloneIndInv /\ [Next]_vars => AloneIndInv'
<1>1. SUFFICES ASSUME TypeOK, RowInv, AloneIndInv, [Next]_vars PROVE AloneIndInv'
  OBVIOUS
<1>2. CASE Next
  <2>1. PICK h \in Handler :
          Begin(h) \/ Work(h) \/ TransactionRefused(h) \/ Crash(h)
    BY <1>2 DEF Next
  <2>2. CASE Begin(h) \/ CheckDependency(h) \/ ClaimAttempt(h)
    BY <1>1, <2>2, BeforeStartAlone
  <2>3. CASE StartAttempt(h)
    BY <1>1, <2>3, StartAlone
  <2>4. CASE ReadArtifacts(h)
    BY <1>1, <2>4, ReadAlone
  <2>5. CASE PersistIndex(h)
    BY <1>1, <2>5, PersistAlone
  <2>6. CASE PayloadFails(h)
    BY <1>1, <2>6, FailAlone
  <2>7. CASE WriteArtifacts(h)
    BY <1>1, <2>7, WriteAlone
  <2>8. CASE CommitSuccess(h)
    BY <1>1, <2>8, SuccessAlone
  <2>9. CASE CommitFailure(h)
    BY <1>1, <2>9, FailureAlone
  <2>10. CASE \/ ReadResult(h) \/ MarkRunFailed(h) \/ FallBack(h)
              \/ TransactionRefused(h) \/ Crash(h)
    BY <1>1, <2>10, EndsAlone
  <2>11. QED
    BY <2>1, <2>2, <2>3, <2>4, <2>5, <2>6, <2>7, <2>8, <2>9, <2>10 DEF Work
<1>3. CASE UNCHANGED vars
  BY <1>1, <1>3, ZenonT(30)
  DEF vars, AloneIndInv, Alone, FreshIsCurrent, FreshFromLatest, Fresh, Latest,
      Unread, RunSucceededIsComplete, CoherentIndex, SettledIndex
<1>4. QED
  BY <1>1, <1>2, <1>3

LEMMA AloneInvariant ==
  ASSUME OneAtATime
  PROVE  Spec => [](TypeOK /\ RowInv /\ AloneIndInv)
<1>1. Init => AloneIndInv
  BY InitAlone
<1>2. TypeOK /\ RowInv /\ AloneIndInv /\ [Next]_vars => AloneIndInv'
  BY AloneInductive
<1>3. QED
  BY <1>1, <1>2, RowsInvariant, PTL DEF Spec

-----------------------------------------------------------------------------
(* The run as an incremental build. *)

FreshStages == {s \in Stage : Fresh(s)}

(* With one handler, the stage under construction is the one it works on.   *)
LEMMA BuildingIs ==
  ASSUME OneAtATime, NEW h \in Handler
  PROVE  /\ Building = IF Working(h) THEN req[h].stage ELSE 0
         /\ Building' = IF Working(h)' THEN req'[h].stage ELSE 0
<1>1. \A g \in Handler : g = h
  BY DEF OneAtATime
<1>2. Building = IF Working(h) THEN req[h].stage ELSE 0
  <2>1. CASE Working(h)
    <3>1. (CHOOSE g \in Handler : Working(g)) \in Handler
      BY <2>1
    <3>2. (CHOOSE g \in Handler : Working(g)) = h
      BY <1>1, <3>1
    <3>3. QED
      BY <2>1, <3>2 DEF Building
  <2>2. CASE ~Working(h)
    BY <1>1, <2>2 DEF Building
  <2>3. QED
    BY <2>1, <2>2
<1>3. Building' = IF Working(h)' THEN req'[h].stage ELSE 0
  <2>1. CASE Working(h)'
    <3>1. (CHOOSE g \in Handler : Working(g)') \in Handler
      BY <2>1
    <3>2. (CHOOSE g \in Handler : Working(g)') = h
      BY <1>1, <3>1
    <3>3. QED
      BY <2>1, <3>2 DEF Building
  <2>2. CASE ~Working(h)'
    BY <1>1, <2>2 DEF Building
  <2>3. QED
    BY <2>1, <2>2
<1>4. QED
  BY <1>2, <1>3

(* The build's steps in terms of the run. *)
LEMMA BuildSteps ==
  /\ UNCHANGED <<FreshStages, Building, run>> => UNCHANGED Build!buildVars
  /\ \A s \in Stage :
       /\ Building = 0 /\ Building' = s
       /\ 1 .. s - 1 \subseteq FreshStages
       /\ FreshStages' = FreshStages \cap 1 .. s - 1
       /\ run' # "succeeded"
       => Build!BuildNext
  /\ /\ Building # 0 /\ Building' = 0
     /\ FreshStages' = FreshStages \cup {Building}
     /\ (run' = "succeeded") <=> (Building = VECTORIZE)
     => Build!BuildNext
  /\ /\ Building # 0 /\ Building' = 0
     /\ FreshStages' = FreshStages
     /\ (run' = "succeeded") <=> (run = "succeeded")
     => Build!BuildNext
  /\ /\ Building = 0 /\ Building' = 0
     /\ FreshStages' = FreshStages
     /\ run' # "succeeded"
     => Build!BuildNext
<1>1. UNCHANGED <<FreshStages, Building, run>> => UNCHANGED Build!buildVars
  BY DEF Build!buildVars, FreshStages
<1>2. ASSUME NEW s \in Stage, Building = 0, Building' = s,
             1 .. s - 1 \subseteq FreshStages,
             FreshStages' = FreshStages \cap 1 .. s - 1,
             run' # "succeeded"
      PROVE  Build!BuildNext
  <2>1. Build!Start(s)
    BY <1>2 DEF Build!Start, Build!Earlier, FreshStages
  <2>2. s \in 1 .. VECTORIZE
    BY DEF Stage, SOURCE
  <2>3. QED
    BY <2>1, <2>2 DEF Build!BuildNext
<1>3. ASSUME Building # 0, Building' = 0,
             FreshStages' = FreshStages \cup {Building},
             (run' = "succeeded") <=> (Building = VECTORIZE)
      PROVE  Build!BuildNext
  BY <1>3 DEF Build!BuildNext, Build!Succeed, FreshStages
<1>4. ASSUME Building # 0, Building' = 0, FreshStages' = FreshStages,
             (run' = "succeeded") <=> (run = "succeeded")
      PROVE  Build!BuildNext
  BY <1>4 DEF Build!BuildNext, Build!GiveUp, FreshStages
<1>5. ASSUME Building = 0, Building' = 0, FreshStages' = FreshStages,
             run' # "succeeded"
      PROVE  Build!BuildNext
  BY <1>5 DEF Build!BuildNext, Build!Declare, FreshStages
<1>6. QED
  BY <1>1, <1>2, <1>3, <1>4, <1>5

(* A step that writes no row leaves the fresh stages as they are.           *)
LEMMA FreshStagesKept ==
  ASSUME \A t \in Stage : (Fresh(t)' <=> Fresh(t))
  PROVE  FreshStages' = FreshStages
BY DEF FreshStages

(* Starting a stage, and writing its row, as steps of the build.            *)
LEMMA StartBuilds ==
  ASSUME TypeOK, RowInv, OneAtATime, AloneIndInv, NEW h \in Handler,
         StartAttempt(h), SequenceFree(req[h])
  PROVE  Build!BuildNext
<1>1. /\ req[h] \in Request /\ req[h].stage \in Stage
      /\ Alone(req[h]) /\ req[h].pc = "start"
  BY DEF TypeOK, Request, AloneIndInv, StartAttempt
<1>2. PICK s \in Stage : s = req[h].stage
  BY <1>1
<1>3. /\ attempts' = MarkStaleAfter(s, StartRow(req[h]))
      /\ run' = "running"
      /\ req' = [req EXCEPT ![h].pc = IF Inputs(s) = {} THEN AfterReads(s) ELSE "read"]
  BY <1>2 DEF StartAttempt
<1>4. req'[h].stage = s /\ req'[h].pc \in {"read", "persist", "write"}
  BY <1>1, <1>2, <1>3 DEF AfterReads, TypeOK, Request
<1>5. Building = 0 /\ Building' = s
  BY <1>1, <1>4, BuildingIs DEF Working, InPayload
<1>6. /\ Latest(s)'.status = "running"
      /\ \A t \in Stage : t < s => Latest(t)' = Latest(t)
      /\ \A t \in Stage : t > s => Latest(t)'.stale
  BY <1>1, <1>2, <1>3, StartLatest
<1>7. \A d \in 1 .. s - 1 : d \in Stage /\ Fresh(d)
  BY <1>1, <1>2, InputsEarlier DEF Alone
<1>8. 1 .. s - 1 \subseteq FreshStages
  BY <1>7 DEF FreshStages
<1>9. \A t \in Stage : t < s \/ t = s \/ t > s
  BY DEF Stage, SOURCE, VECTORIZE
<1>10. \A t \in Stage : (t \in 1 .. s - 1) <=> t < s
  BY DEF Stage, SOURCE, VECTORIZE
<1>11. \A t \in Stage : Fresh(t)' <=> (Fresh(t) /\ t \in 1 .. s - 1)
  <2>1. \A t \in Stage : t < s => (Fresh(t)' <=> Fresh(t))
    BY <1>6 DEF Fresh
  <2>2. ~Fresh(s)' /\ \A t \in Stage : t > s => ~Fresh(t)'
    BY <1>6 DEF Fresh
  <2>3. QED
    BY <1>9, <1>10, <2>1, <2>2
<1>12. FreshStages' = FreshStages \cap 1 .. s - 1
  BY <1>7, <1>11 DEF FreshStages
<1>13. QED
  BY <1>3, <1>5, <1>8, <1>12, BuildSteps

LEMMA RowBuilds ==
  ASSUME TypeOK, RowInv, OneAtATime, AloneIndInv, NEW h \in Handler,
         WriteArtifacts(h) \/ CommitSuccess(h) \/ CommitFailure(h)
  PROVE  [Build!BuildNext]_(Build!buildVars)
<1>1. Working(h) /\ req[h] \in Request
  BY DEF Working, InPayload, WriteArtifacts, CommitSuccess, CommitFailure, TypeOK
<1>2. PICK s \in Stage : s = req[h].stage
  BY <1>1, WorkedRow
<1>3. /\ req[h].seq = Len(attempts[s]) /\ Latest(s).status = "running"
      /\ run = "running" /\ Alone(req[h])
  BY <1>1, <1>2, AloneWorks
<1>4. Building = s /\ s # 0
  BY <1>1, <1>2, BuildingIs DEF Stage, SOURCE
<1>5. ~Fresh(s) /\ Latest(s) \in Attempt /\ req[h].from \in Basis
  BY <1>1, <1>3, LatestRow DEF Fresh, Request
<1>6. CASE WriteArtifacts(h)
  <2> DEFINE x == Store(Latest(s), req[h].from)
  <2>1. x \in Attempt /\ x.status = "running"
    BY <1>3, <1>5, StoreFields
  <2>2. /\ attempts' = WithRow(attempts, s, req[h].seq, x)
        /\ run' = run
        /\ req'[h].pc = "commit" /\ req'[h].stage = s
    BY <1>1, <1>2, <1>3, <1>6 DEF WriteArtifacts, WithRow, Latest, TypeOK, Request
  <2> HIDE DEF x
  <2>3. \A t \in Stage : Latest(t)' = IF t = s THEN x ELSE Latest(t)
    BY <1>3, <2>1, <2>2, WriteLatest
  <2>4. \A t \in Stage : Fresh(t)' <=> Fresh(t)
    BY <1>5, <2>1, <2>3 DEF Fresh
  <2>5. Building' = s
    BY <2>2, BuildingIs DEF Working, InPayload
  <2>6. QED
    BY <1>4, <2>2, <2>4, <2>5, FreshStagesKept, BuildSteps
<1>7. CASE CommitSuccess(h)
  <2> DEFINE x == Publish(Latest(s))
  <2>1. x \in Attempt /\ x.status = "succeeded" /\ x.stale = FALSE
    BY <1>5, PublishFields
  <2>2. /\ attempts' = WithRow(attempts, s, req[h].seq, x)
        /\ run' = RunAfterSuccess(s)
        /\ req'[h] = NextStage(req[h])
    BY <1>1, <1>2, <1>3, <1>7 DEF CommitSuccess, WithRow, Latest, TypeOK
  <2> HIDE DEF x
  <2>3. \A t \in Stage : Latest(t)' = IF t = s THEN x ELSE Latest(t)
    BY <1>3, <2>1, <2>2, WriteLatest
  <2>4. \A t \in Stage : Fresh(t)' <=> (Fresh(t) \/ t = s)
    BY <2>1, <2>3 DEF Fresh
  <2>5. Building' = 0
    BY <1>1, <2>2, BuildingIs, NewRequests DEF Working, InPayload
  <2>6. FreshStages' = FreshStages \cup {s}
    BY <2>4 DEF FreshStages
  <2>7. (run' = "succeeded") <=> (s = VECTORIZE)
    BY <2>2 DEF RunAfterSuccess
  <2>8. Build!BuildNext
    BY <1>4, <2>5, <2>6, <2>7, BuildSteps
  <2>9. QED
    BY <2>8
<1>8. CASE CommitFailure(h)
  <2> DEFINE x == Finish(Latest(s), "failed")
  <2>1. x \in Attempt /\ x.status = "failed"
    BY <1>5, FinishFields DEF Status
  <2>2. /\ attempts' = WithRow(attempts, s, req[h].seq, x)
        /\ run' = "failed"
        /\ req'[h] = Raised(req[h])
    BY <1>1, <1>2, <1>3, <1>8 DEF CommitFailure, WithRow, Latest, TypeOK
  <2> HIDE DEF x
  <2>3. \A t \in Stage : Latest(t)' = IF t = s THEN x ELSE Latest(t)
    BY <1>3, <2>1, <2>2, WriteLatest
  <2>4. \A t \in Stage : Fresh(t)' <=> Fresh(t)
    BY <1>5, <2>1, <2>3 DEF Fresh
  <2>5. Building' = 0
    BY <1>1, <2>2, BuildingIs, NewRequests DEF Working, InPayload
  <2>6. Build!BuildNext
    BY <1>3, <1>4, <2>2, <2>4, <2>5, FreshStagesKept, BuildSteps
  <2>7. QED
    BY <2>6
<1>9. QED
  BY <1>6, <1>7, <1>8

(* Every other step gives the stage up, declares the build failed, or is no *)
(* step of the build.                                                       *)
LEMMA OtherBuilds ==
  ASSUME TypeOK, OneAtATime, AloneIndInv, NEW h \in Handler, NEW r \in Request,
         req' = [req EXCEPT ![h] = r],
         attempts' = attempts,
         run' = run \/ (run' = "failed" /\ ~Working(h)),
         r.pc \in InPayload \cup {"fail"} => Working(h) /\ r.stage = req[h].stage
  PROVE  [Build!BuildNext]_(Build!buildVars)
<1>1. req'[h] = r
  BY DEF TypeOK
<1>2. Building' = IF r.pc \in InPayload \cup {"fail"} THEN r.stage ELSE 0
  BY <1>1, BuildingIs DEF Working
<1>3. Building = IF Working(h) THEN req[h].stage ELSE 0
  BY BuildingIs
<1>4. Working(h) => req[h].stage # 0
  BY DEF TypeOK, Request, Stage, SOURCE
<1>5. FreshStages' = FreshStages
  BY FreshStagesKept DEF Fresh, Latest
<1>6. CASE r.pc \in InPayload \cup {"fail"}
  <2>1. Building' = Building /\ run' = run
    BY <1>2, <1>3, <1>6
  <2>2. QED
    BY <1>5, <2>1, BuildSteps
<1>7. CASE r.pc \notin InPayload \cup {"fail"} /\ Working(h)
  BY <1>2, <1>3, <1>4, <1>5, <1>7, BuildSteps
<1>8. CASE r.pc \notin InPayload \cup {"fail"} /\ ~Working(h)
  <2>1. Building = 0 /\ Building' = 0
    BY <1>2, <1>3, <1>8
  <2>2. CASE run' = run
    BY <1>5, <2>1, <2>2, BuildSteps
  <2>3. CASE run' = "failed"
    BY <1>5, <2>1, <2>3, BuildSteps
  <2>4. QED
    BY <2>2, <2>3
<1>9. QED
  BY <1>6, <1>7, <1>8

(* Where the steps before an attempt is started take a handler.             *)
LEMMA BeforeStartMoves ==
  ASSUME TypeOK, NEW h \in Handler,
         Begin(h) \/ CheckDependency(h) \/ ClaimAttempt(h)
  PROVE  \E r \in Request : /\ req' = [req EXCEPT ![h] = r]
                            /\ r.pc \notin InPayload \cup {"fail"}
<1>1. req[h] \in Request /\ req[h].stage \in Stage /\ req[h].dep \in Stage
  BY DEF TypeOK, Request
<1>2. CASE Begin(h)
  <2>1. PICK asked \in Asked : req' = [req EXCEPT ![h] = EnterStage(asked[1], asked[2])]
    BY <1>2 DEF Begin
  <2>2. asked[1] \in Mode /\ asked[2] \in Stage
    BY AskedAssumption DEF AnyRequest, Mode, Stage, SOURCE, VECTORIZE
  <2>3. /\ EnterStage(asked[1], asked[2]) \in Request
        /\ EnterStage(asked[1], asked[2]).pc = "deps"
    BY <2>2, NewRequests
  <2>4. QED
    BY <2>1, <2>3 DEF InPayload
<1>3. CASE CheckDependency(h)
  <2> DEFINE next == [req[h] EXCEPT !.dep = req[h].dep + 1]
  <2>1. req[h].dep + 1 \in Stage
    BY <1>1, <1>3 DEF CheckDependency, Stage, SOURCE, VECTORIZE
  <2>2. next \in Request /\ next.pc = "deps"
    BY <1>1, <1>3, <2>1 DEF CheckDependency, Request
  <2>3. \/ req' = [req EXCEPT ![h] = next]
        \/ req' = [req EXCEPT ![h] = Raised(req[h])]
    BY <1>3 DEF CheckDependency
  <2> HIDE DEF next
  <2>4. QED
    BY <1>1, <2>2, <2>3, NewRequests DEF InPayload
<1>4. CASE ClaimAttempt(h)
  <2> DEFINE s == req[h].stage
             seq == IF Reusable(Latest(s)) THEN Len(attempts[s]) ELSE Len(attempts[s]) + 1
             r == [req[h] EXCEPT !.pc = "start", !.seq = seq,
                                 !.reuse = Reusable(Latest(s)),
                                 !.wasStale = Latest(s).stale]
  <2>1. Latest(s) \in Attempt /\ Len(attempts[s]) \in Nat
    BY <1>1, LatestRow
  <2>2. seq \in Nat /\ Reusable(Latest(s)) \in BOOLEAN /\ Latest(s).stale \in BOOLEAN
    BY <2>1 DEF Reusable, Attempt
  <2>3. req' = [req EXCEPT ![h] = r]
    BY <1>4 DEF ClaimAttempt
  <2> HIDE DEF seq
  <2>4. r \in Request /\ r.pc = "start"
    BY <1>1, <2>2 DEF Request, PC
  <2> HIDE DEF r
  <2>5. QED
    BY <2>3, <2>4 DEF InPayload
<1>5. QED
  BY <1>2, <1>3, <1>4

LEMMA StepBuilds ==
  ASSUME OneAtATime
  PROVE  TypeOK /\ RowInv /\ AloneIndInv /\ [Next]_vars => [Build!BuildNext]_(Build!buildVars)
<1>1. SUFFICES ASSUME TypeOK, RowInv, AloneIndInv, [Next]_vars
               PROVE  [Build!BuildNext]_(Build!buildVars)
  OBVIOUS
<1>2. CASE Next
  <2>1. PICK h \in Handler :
          Begin(h) \/ Work(h) \/ TransactionRefused(h) \/ Crash(h)
    BY <1>2 DEF Next
  <2>2. /\ req[h] \in Request /\ req[h].stage \in Stage /\ req[h].dep \in Stage
        /\ req[h].from \in Basis
    BY <1>1 DEF TypeOK, Request
  <2>3. CASE StartAttempt(h) /\ SequenceFree(req[h])
    BY <1>1, <2>3, StartBuilds
  <2>4. CASE StartAttempt(h) /\ ~SequenceFree(req[h])
    <3>1. /\ req' = [req EXCEPT ![h] = Raised(req[h])]
          /\ attempts' = attempts /\ run' = run
      BY <2>4 DEF StartAttempt
    <3>2. Raised(req[h]) \in Request /\ Raised(req[h]).pc \in {"idle", "mark_failed"}
      BY <2>2, NewRequests
    <3>3. QED
      BY <1>1, <3>1, <3>2, OtherBuilds DEF InPayload
  <2>5. CASE WriteArtifacts(h) \/ CommitSuccess(h) \/ CommitFailure(h)
    BY <1>1, <2>5, RowBuilds
  <2>6. CASE ReadArtifacts(h) \/ PersistIndex(h) \/ PayloadFails(h)
    <3>1. PICK r \in Request :
            /\ req' = [req EXCEPT ![h] = r]
            /\ r.stage = req[h].stage /\ r.seq = req[h].seq
            /\ r.pc \in {"read", "persist", "write", "fail"}
      BY <1>1, <2>6, PayloadMoves
    <3>2. Working(h) /\ attempts' = attempts /\ run' = run
      BY <2>6 DEF Working, InPayload, ReadArtifacts, PersistIndex, PayloadFails
    <3>3. QED
      BY <1>1, <3>1, <3>2, OtherBuilds
  <2>7. CASE \/ ReadResult(h) \/ MarkRunFailed(h) \/ FallBack(h)
             \/ TransactionRefused(h) \/ Crash(h)
    <3>1. PICK r \in Request : /\ req' = [req EXCEPT ![h] = r]
                               /\ r.pc \in {"idle", "mark_failed", "fallback"}
      BY <1>1, <2>7, EndMoves
    <3>2. attempts' = attempts /\ (run' = run \/ (run' = "failed" /\ ~Working(h)))
      BY <2>7 DEF ReadResult, MarkRunFailed, FallBack, TransactionRefused, Crash,
                  Working, InPayload
    <3>3. QED
      BY <1>1, <3>1, <3>2, OtherBuilds DEF InPayload
  <2>8. CASE Begin(h) \/ CheckDependency(h) \/ ClaimAttempt(h)
    <3>1. PICK r \in Request : req' = [req EXCEPT ![h] = r] /\ r.pc \notin InPayload \cup {"fail"}
      BY <1>1, <2>8, BeforeStartMoves
    <3>2. attempts' = attempts /\ run' = run
      BY <2>8 DEF Begin, CheckDependency, ClaimAttempt
    <3>3. QED
      BY <1>1, <3>1, <3>2, OtherBuilds
  <2>9. QED
    BY <2>1, <2>3, <2>4, <2>5, <2>6, <2>7, <2>8 DEF Work
<1>3. CASE UNCHANGED vars
  <2>1. UNCHANGED <<FreshStages, Building, run>>
    BY <1>3 DEF vars, FreshStages, Fresh, Latest, Building, Working
  <2>2. QED
    BY <2>1, BuildSteps
<1>4. QED
  BY <1>1, <1>2, <1>3

-----------------------------------------------------------------------------
(* The theorems. *)

(* One request at a time, a result that counts as fresh was made from the   *)
(* latest attempts and rests on fresh earlier stages.                       *)
THEOREM FreshIsAlwaysCurrent ==
  ASSUME OneAtATime
  PROVE  Spec => []FreshIsCurrent
<1>1. AloneIndInv => FreshIsCurrent
  BY DEF AloneIndInv
<1>2. QED
  BY <1>1, AloneInvariant, PTL

(* One request at a time, a run reported as succeeded is complete and its   *)
(* source holds what its vectorize stage read.                              *)
THEOREM SucceededRunsAreComplete ==
  ASSUME OneAtATime
  PROVE  Spec => []RunSucceededIsComplete
<1>1. AloneIndInv => RunSucceededIsComplete
  BY DEF AloneIndInv
<1>2. QED
  BY <1>1, AloneInvariant, PTL

(* One request at a time, the blocks and the nodes the run persists         *)
(* together come from one parse.                                            *)
THEOREM IndexIsAlwaysCoherent ==
  ASSUME OneAtATime
  PROVE  Spec => []CoherentIndex
<1>1. AloneIndInv => CoherentIndex
  BY DEF AloneIndInv
<1>2. QED
  BY <1>1, AloneInvariant, PTL

(* One request at a time, the run is an incremental build: every step of    *)
(* the pipeline is a step of StageBuild or leaves it alone.                 *)
THEOREM PipelineIsABuild ==
  ASSUME OneAtATime
  PROVE  Spec => ImplementsBuild
<1>1. Init => Build!BuildInit
  <2>1. SUFFICES ASSUME Init PROVE Build!BuildInit
    OBVIOUS
  <2>2. \A s \in Stage : ~Fresh(s)
    BY <2>1 DEF Init, Fresh, Latest, NewAttempt
  <2>3. \A h \in Handler : ~Working(h)
    BY <2>1 DEF Init, Working, InPayload, Idle, EnterStage
  <2>4. QED
    BY <2>1, <2>2, <2>3 DEF Init, Build!BuildInit, Building
<1>2. TypeOK /\ RowInv /\ AloneIndInv /\ [Next]_vars => [Build!BuildNext]_(Build!buildVars)
  BY StepBuilds
<1>3. QED
  BY <1>1, <1>2, AloneInvariant, PTL DEF Spec, ImplementsBuild, Build!BuildSpec
=============================================================================
