---------------------------- MODULE Outbox_proofs ----------------------------
(***************************************************************************)
(* What holds of the outbox for every set of events, daemons and flushers, *)
(* every batch size, retry limit and number of faults: nothing is lost,    *)
(* nothing is logged twice, leases are respected, and the outbox           *)
(* implements AuditTrail.                                                  *)
(***************************************************************************)
EXTENDS Outbox, TLAPS

(* The parts of TypeOK, by the variables that one kind of step writes. *)
StoreOK == accepted \in SUBSET Events /\ rows \in [Events -> Row]
FileOK == log \in Seq(Events) /\ torn \in BOOLEAN

WorkersOK ==
  /\ pc \in [Workers -> {"idle", "next", "append", "ack", "failure"}]
  /\ batch \in [Workers -> SUBSET Claims]
  /\ cur \in [Workers -> Claims \cup {NoClaim}]
  /\ leased \in [Workers -> BOOLEAN]
  /\ \A w \in Workers : IF pc[w] \in {"idle", "next"} THEN cur[w] = NoClaim
                                                     ELSE cur[w] \in batch[w]

LEMMA Parts == TypeOK <=> StoreOK /\ FileOK /\ WorkersOK /\ faults \in Nat
BY DEF TypeOK, StoreOK, FileOK, WorkersOK

(* What the workers rely on beyond the types: only accepted events are      *)
(* claimed, and a delivery is acknowledged once its event is in the log.    *)
Grounded ==
  /\ \A e \in Events : rows[e].status # "none" => e \in accepted
  /\ \A w \in Workers : \A c \in batch[w] : c.event \in accepted
  /\ \A w \in Workers : pc[w] = "ack" => cur[w].event \in Logged

Inv == TypeOK /\ NeverLost /\ LoggedOnce /\ Grounded
-----------------------------------------------------------------------------
(* Working off a claim. *)

LEMMA DropOK ==
  ASSUME WorkersOK, NEW w \in Workers, NEW c, Drop(w, c)
  PROVE  /\ WorkersOK'
         /\ \A v \in Workers : batch'[v] \subseteq batch[v]
         /\ \A v \in Workers : pc'[v] = "ack" => pc[v] = "ack" /\ cur'[v] = cur[v]
BY DEF WorkersOK, Drop

LEMMA DeliverOK ==
  ASSUME WorkersOK, NEW w \in Workers, NEW c \in Claims, Deliver(w, c),
         batch' \in [Workers -> SUBSET Claims], c \in batch'[w],
         \A v \in Workers \ {w} : batch'[v] = batch[v]
  PROVE  /\ WorkersOK'
         /\ \A v \in Workers : pc'[v] = "ack" => pc[v] = "ack" /\ cur'[v] = cur[v]
BY DEF WorkersOK, Deliver

(* After append_if_absent has returned, normally or not. *)
LEMMA ReturnedOK ==
  ASSUME WorkersOK, NEW w \in Workers, pc[w] = "append", Returned(w)
  PROVE  /\ WorkersOK'
         /\ \A v \in Workers : batch'[v] \subseteq batch[v]
         /\ \A v \in Workers : pc'[v] = "ack" => cur'[v] = cur[v] /\ (pc[v] = "ack" \/ v = w)
<1>1. CASE leased[w]
  BY <1>1 DEF WorkersOK, Returned
<1>2. CASE ~ leased[w]
  BY <1>2, DropOK, cur[w] \in batch[w] DEF WorkersOK, Returned
<1> QED BY <1>1, <1>2

LEMMA RaisedOK ==
  ASSUME WorkersOK, NEW w \in Workers, pc[w] = "append", Raised(w)
  PROVE  /\ WorkersOK'
         /\ \A v \in Workers : batch'[v] \subseteq batch[v]
         /\ \A v \in Workers : pc'[v] = "ack" => pc[v] = "ack" /\ cur'[v] = cur[v]
<1>1. CASE w \in Daemons \/ leased[w]
  BY <1>1 DEF WorkersOK, Raised
<1>2. CASE ~ (w \in Daemons \/ leased[w])
  BY <1>2, DropOK DEF Raised
<1> QED BY <1>1, <1>2
-----------------------------------------------------------------------------
(* The log. *)

Distinct(l) == \A i, j \in DOMAIN l : l[i] = l[j] => i = j

LEMMA Appended ==
  ASSUME NEW l \in Seq(Events), NEW e \in Events
  PROVE  /\ Append(l, e) \in Seq(Events)
         /\ ToSet(Append(l, e)) = ToSet(l) \cup {e}
         /\ Distinct(l) /\ e \notin ToSet(l) => Distinct(Append(l, e))
<1>1. Append(l, e) \in Seq(Events) /\ DOMAIN Append(l, e) = 1 .. Len(l) + 1
      /\ DOMAIN l = 1 .. Len(l) /\ Len(l) \in Nat
  OBVIOUS
<1>2. \A i \in 1 .. Len(l) : Append(l, e)[i] = l[i] /\ i \in DOMAIN Append(l, e)
  OBVIOUS
<1>3. Append(l, e)[Len(l) + 1] = e /\ Len(l) + 1 \in DOMAIN Append(l, e)
  OBVIOUS
<1>4. \A i \in DOMAIN Append(l, e) : i \in 1 .. Len(l) \/ i = Len(l) + 1
  BY <1>1
<1>5. ToSet(Append(l, e)) = ToSet(l) \cup {e}
  BY <1>1, <1>2, <1>3, <1>4 DEF ToSet
<1>6. ASSUME Distinct(l), e \notin ToSet(l),
             NEW i \in DOMAIN Append(l, e), NEW j \in DOMAIN Append(l, e),
             Append(l, e)[i] = Append(l, e)[j]
      PROVE  i = j
  BY <1>1, <1>2, <1>3, <1>4, <1>6 DEF Distinct, ToSet
<1> QED BY <1>1, <1>5, <1>6 DEF Distinct

(* A step that writes an accepted, unlogged event or nothing keeps the log. *)
LEMMA LogKept ==
  ASSUME Inv, NEW e \in accepted, FileOK', UNCHANGED accepted,
         log' = log \/ (e \notin Logged /\ log' = Append(log, e))
  PROVE  LoggedOnce' /\ Logged \subseteq Logged' /\ Logged' \subseteq Logged \cup {e}
<1>1. log \in Seq(Events) /\ e \in Events /\ Distinct(log) /\ Logged \subseteq accepted
  BY Parts DEF Inv, StoreOK, FileOK, LoggedOnce, Distinct
<1>2. CASE log' = log
  BY <1>1, <1>2 DEF LoggedOnce, Logged, Distinct
<1>3. CASE e \notin Logged /\ log' = Append(log, e)
  BY <1>1, <1>3, Appended DEF LoggedOnce, Logged, Distinct
<1> QED BY <1>2, <1>3
-----------------------------------------------------------------------------
(* The rows. *)

(* Neither the life nor the claim of a row changes. *)
RowsStill == \A e \in Events : rows'[e].status = rows[e].status /\ rows'[e].version = rows[e].version

(* One column of a row at a time. *)
LEMMA SetStatus ==
  ASSUME NEW r \in Row, NEW x \in {"none", "pending", "processing", "dead"}
  PROVE  [r EXCEPT !.status = x] \in Row /\ [r EXCEPT !.status = x].status = x
BY DEF Row

LEMMA SetOwner ==
  ASSUME NEW r \in Row, NEW x \in Workers \cup {NoWorker}
  PROVE  [r EXCEPT !.owner = x] \in Row /\ [r EXCEPT !.owner = x].status = r.status
BY DEF Row

LEMMA SetLive ==
  ASSUME NEW r \in Row, NEW x \in BOOLEAN
  PROVE  [r EXCEPT !.live = x] \in Row /\ [r EXCEPT !.live = x].status = r.status
BY DEF Row

LEMMA SetDue ==
  ASSUME NEW r \in Row, NEW x \in BOOLEAN
  PROVE  [r EXCEPT !.due = x] \in Row /\ [r EXCEPT !.due = x].status = r.status
BY DEF Row

LEMMA BumpVersion ==
  ASSUME NEW r \in Row
  PROVE  [r EXCEPT !.version = @ + 1] \in Row /\ [r EXCEPT !.version = @ + 1].status = r.status
BY DEF Row

LEMMA BumpAttempts ==
  ASSUME NEW r \in Row
  PROVE  [r EXCEPT !.attempts = @ + 1] \in Row /\ [r EXCEPT !.attempts = @ + 1].status = r.status
BY DEF Row

LEMMA FailedOK ==
  ASSUME StoreOK, NEW w \in Workers, NEW c \in Claims
  PROVE  Failed(w, c) \in Row /\ Failed(w, c).status \in {"pending", "dead"}
<1> DEFINE s == IF w \in Daemons THEN Exhausted(c) ELSE "pending"
           r1 == [rows[c.event] EXCEPT !.status = s]
           r2 == [r1 EXCEPT !.version = @ + 1]
           r3 == [r2 EXCEPT !.owner = NoWorker]
           r4 == [r3 EXCEPT !.live = FALSE]
           r5 == [r4 EXCEPT !.due = w \in Flushers]
<1>1. rows[c.event] \in Row /\ s \in {"pending", "dead"}
  BY DEF StoreOK, Claims, Exhausted
<1>2. Failed(w, c) = r5
  BY DEF Failed
<1>3. r1 \in Row /\ r1.status = s
  <2> HIDE DEF s
  <2> QED BY <1>1, SetStatus
<1> HIDE DEF r1, s
<1>4. r2 \in Row /\ r2.status = s
  BY <1>3, BumpVersion
<1> HIDE DEF r2
<1>5. r3 \in Row /\ r3.status = s
  BY <1>4, SetOwner
<1> HIDE DEF r3
<1>6. r4 \in Row /\ r4.status = s
  BY <1>5, SetLive
<1> HIDE DEF r4
<1>7. (w \in Flushers) \in BOOLEAN
  OBVIOUS
<1>8. r5 \in Row /\ r5.status = s
  BY <1>6, <1>7, SetDue
<1> QED BY <1>1, <1>2, <1>8

LEMMA ClaimedOK ==
  ASSUME StoreOK, NEW w \in Workers, NEW e \in Events
  PROVE  Claimed(e, w) \in Row /\ Claimed(e, w).status = "processing"
<1> DEFINE r1 == [rows[e] EXCEPT !.status = "processing"]
           r2 == [r1 EXCEPT !.attempts = @ + 1]
           r3 == [r2 EXCEPT !.version = @ + 1]
           r4 == [r3 EXCEPT !.owner = w]
           r5 == [r4 EXCEPT !.live = TRUE]
<1>1. Claimed(e, w) = r5
  BY DEF Claimed
<1>2. r1 \in Row /\ r1.status = "processing"
  BY SetStatus DEF StoreOK
<1> HIDE DEF r1
<1>3. r2 \in Row /\ r2.status = "processing"
  BY <1>2, BumpAttempts
<1> HIDE DEF r2
<1>4. r3 \in Row /\ r3.status = "processing"
  BY <1>3, BumpVersion
<1> HIDE DEF r3
<1>5. r4 \in Row /\ r4.status = "processing"
  BY <1>4, SetOwner
<1> HIDE DEF r4
<1>6. r5 \in Row /\ r5.status = "processing"
  BY <1>5, SetLive
<1> QED BY <1>1, <1>6

LEMMA RenewOK ==
  ASSUME StoreOK, NEW w \in Workers, NEW cs, NEW revived, Renew(w, cs, revived),
         UNCHANGED accepted
  PROVE  StoreOK' /\ RowsStill
<1>1. \A e \in Events : rows[e] \in Row
  BY DEF StoreOK
<1>2. \A e \in Events : [rows[e] EXCEPT !.live = TRUE] \in Row
                        /\ [rows[e] EXCEPT !.live = TRUE].status = rows[e].status
                        /\ [rows[e] EXCEPT !.live = TRUE].version = rows[e].version
  BY <1>1 DEF Row
<1> QED BY <1>1, <1>2 DEF Renew, StoreOK, RowsStill

LEMMA RowsUnchanged == UNCHANGED rows => RowsStill
BY DEF RowsStill
-----------------------------------------------------------------------------
(* The steps.  Each keeps Inv, is a step of AuditTrail or a stutter of it, *)
(* and respects the claims.                                                *)

TrailStep == Trail!Next \/ UNCHANGED <<Owed, accepted, log>>

Respect ==
  \A e \in Events :
    /\ rows[e].status = "processing" /\ rows[e].live
    /\ rows'[e].status # "processing" \/ rows'[e].version # rows[e].version
    => \E c \in batch[rows[e].owner] : c.event = e /\ c.version = rows[e].version
                                       /\ c \notin batch'[rows[e].owner]

Good == Inv' /\ TrailStep /\ Respect

LEMMA InvParts ==
  ASSUME Inv
  PROVE  /\ StoreOK /\ FileOK /\ WorkersOK /\ faults \in Nat
         /\ NeverLost /\ LoggedOnce /\ Grounded
BY Parts DEF Inv

LEMMA InvFromParts ==
  ASSUME StoreOK', FileOK', WorkersOK', faults' \in Nat, NeverLost', LoggedOnce', Grounded'
  PROVE  Inv'
BY DEF Inv, TypeOK, StoreOK, FileOK, WorkersOK

LEMMA StillRespects == RowsStill => Respect /\ UNCHANGED Owed
BY DEF RowsStill, Respect, Owed

(* A step that only moves the workers. *)
LEMMA Quiet ==
  ASSUME Inv, StoreOK', WorkersOK', faults' \in Nat, UNCHANGED <<accepted, log, torn>>, RowsStill,
         \A w \in Workers : batch'[w] \subseteq batch[w],
         \A w \in Workers : pc'[w] = "ack" => pc[w] = "ack" /\ cur'[w] = cur[w]
  PROVE  Good
<1> USE InvParts
<1>1. FileOK'
  BY DEF FileOK
<1>2. NeverLost'
  BY DEF NeverLost, RowsStill, Logged, StoreOK
<1>3. LoggedOnce'
  BY DEF LoggedOnce, Logged
<1>4. Grounded'
  BY DEF Grounded, RowsStill, Logged
<1>5. TrailStep
  BY StillRespects DEF TrailStep
<1> QED BY <1>1, <1>2, <1>3, <1>4, <1>5, InvFromParts, StillRespects DEF Good

LEMMA FaultOK == faults \in Nat /\ (Fault \/ UNCHANGED faults) => faults' \in Nat
BY DEF Fault

LEMMA RenewNextGood ==
  ASSUME Inv, NEW w \in Workers, NEW c \in batch[w], NEW revived, RenewNext(w, c, revived)
  PROVE  Good
<1>1. StoreOK' /\ RowsStill
  BY InvParts, RenewOK DEF RenewNext
<1>2. CASE Drop(w, c)
  BY <1>1, <1>2, InvParts, DropOK, Quiet DEF RenewNext, file
<1>3. CASE Deliver(w, c) /\ UNCHANGED batch
  <2>1. batch \in [Workers -> SUBSET Claims] /\ c \in Claims
    BY InvParts DEF WorkersOK
  <2>2. WorkersOK' /\ \A v \in Workers : pc'[v] = "ack" => pc[v] = "ack" /\ cur'[v] = cur[v]
    BY <1>3, <2>1, InvParts, DeliverOK
  <2>3. \A v \in Workers : batch'[v] \subseteq batch[v]
    BY <1>3
  <2> QED BY <1>1, <2>2, <2>3, InvParts, Quiet DEF RenewNext, file
<1> QED BY <1>2, <1>3 DEF RenewNext

LEMMA HeartbeatGood ==
  ASSUME Inv, NEW w \in Workers, NEW revived, Heartbeat(w, revived)
  PROVE  Good
<1>1. StoreOK' /\ RowsStill
  BY InvParts, RenewOK DEF Heartbeat
<1>2. WorkersOK'
  BY InvParts DEF WorkersOK, Heartbeat
<1>3. /\ UNCHANGED <<accepted, log, torn, pc, batch, cur>> /\ faults' \in Nat
  BY InvParts DEF Heartbeat, file
<1> QED BY <1>1, <1>2, <1>3, Quiet

LEMMA HeartbeatAwayGood ==
  ASSUME Inv, NEW w \in Workers, HeartbeatAway(w)
  PROVE  Good
<1>1. /\ UNCHANGED <<accepted, rows, log, torn, pc, batch, cur>> /\ faults' \in Nat
  BY InvParts, FaultOK DEF HeartbeatAway, file, store
<1>2. WorkersOK'
  BY InvParts DEF WorkersOK, HeartbeatAway
<1>3. StoreOK'
  BY <1>1, InvParts DEF StoreOK
<1> QED BY <1>1, <1>2, <1>3, RowsUnchanged, Quiet

LEMMA DatabaseAwayGood ==
  ASSUME Inv, NEW w \in Workers, NEW c \in batch[w], DatabaseAway(w, c)
  PROVE  Good
<1>1. /\ UNCHANGED <<accepted, rows, log, torn>> /\ faults' \in Nat
  BY InvParts, FaultOK DEF DatabaseAway, file, store
<1>2. StoreOK'
  BY <1>1, InvParts DEF StoreOK
<1> QED BY <1>1, <1>2, InvParts, DropOK, RowsUnchanged, Quiet DEF DatabaseAway

LEMMA RefuseLogGood ==
  ASSUME Inv, NEW w \in Workers, RefuseLog(w)
  PROVE  Good
<1>1. /\ UNCHANGED <<accepted, rows, log, torn>> /\ faults' \in Nat
  BY InvParts DEF RefuseLog, file, store
<1>2. StoreOK'
  BY <1>1, InvParts DEF StoreOK
<1> QED BY <1>1, <1>2, InvParts, RaisedOK, RowsUnchanged, Quiet DEF RefuseLog

LEMMA ExpireGood ==
  ASSUME Inv, NEW e \in Events, Expire(e)
  PROVE  Good
<1>1. StoreOK'
  BY InvParts, SetLive DEF Expire, StoreOK
<1>2. RowsStill
  BY InvParts DEF Expire, StoreOK, RowsStill, Row
<1>3. UNCHANGED <<accepted, log, torn, pc, batch, cur, leased>> /\ faults' \in Nat
  BY InvParts, FaultOK DEF Expire, file, workers
<1>4. WorkersOK'
  BY <1>3, InvParts DEF WorkersOK
<1> QED BY <1>1, <1>2, <1>3, <1>4, Quiet

LEMMA BecomeDueGood ==
  ASSUME Inv, NEW e \in Events, BecomeDue(e)
  PROVE  Good
<1>1. StoreOK'
  BY InvParts, SetDue DEF BecomeDue, StoreOK
<1>2. RowsStill
  BY InvParts DEF BecomeDue, StoreOK, RowsStill, Row
<1>3. UNCHANGED <<accepted, log, torn, pc, batch, cur, leased, faults>>
  BY DEF BecomeDue, file, workers
<1>4. WorkersOK'
  BY <1>3, InvParts DEF WorkersOK
<1> QED BY <1>1, <1>2, <1>3, <1>4, InvParts, Quiet
-----------------------------------------------------------------------------
(* A step of a worker that may write its event to the log. *)
LEMMA Logs ==
  ASSUME Inv, NEW e \in accepted, UNCHANGED store, FileOK', WorkersOK', faults' \in Nat,
         log' = log \/ (e \notin Logged /\ log' = Append(log, e)),
         \A w \in Workers : batch'[w] \subseteq batch[w],
         \A w \in Workers : pc'[w] = "ack" => cur'[w] = cur[w] /\ (pc[w] = "ack" \/ cur[w].event \in Logged')
  PROVE  Good
<1>1. UNCHANGED <<accepted, rows>>
  BY DEF store
<1>2. StoreOK' /\ RowsStill
  BY <1>1, InvParts, RowsUnchanged DEF StoreOK
<1>3. LoggedOnce' /\ Logged \subseteq Logged'
  BY <1>1, LogKept
<1>4. NeverLost'
  BY <1>1, <1>3, InvParts DEF NeverLost
<1>5. Grounded'
  BY <1>1, <1>3, InvParts DEF Grounded
<1>6. ASSUME log' = log
      PROVE  TrailStep
  BY <1>1, <1>2, <1>6, StillRespects DEF TrailStep
<1>7. ASSUME e \notin Logged, log' = Append(log, e)
      PROVE  TrailStep
  <2>1. e \in accepted \ Trail!Recorded
    BY <1>7 DEF Trail!Recorded, Logged, ToSet
  <2>2. Trail!Write
    BY <1>1, <1>2, <1>7, <2>1, StillRespects DEF Trail!Write
  <2> QED BY <2>2 DEF TrailStep, Trail!Next
<1>8. TrailStep
  BY <1>6, <1>7
<1> QED BY <1>2, <1>3, <1>4, <1>5, <1>8, InvFromParts, StillRespects DEF Good

LEMMA CurIsAccepted ==
  ASSUME Inv, NEW w \in Workers, pc[w] \in {"append", "ack", "failure"}
  PROVE  cur[w] \in batch[w] /\ cur[w] \in Claims /\ cur[w].event \in accepted /\ cur[w].event \in Events
<1>1. cur[w] \in batch[w] /\ batch[w] \subseteq Claims
  BY InvParts DEF WorkersOK
<1>2. cur[w].event \in accepted
  BY <1>1, InvParts DEF Grounded
<1> QED BY <1>1, <1>2 DEF Claims

LEMMA AppendIfAbsentGood ==
  ASSUME Inv, NEW w \in Workers, AppendIfAbsent(w)
  PROVE  Good
<1> DEFINE e == cur[w].event
<1>1. e \in accepted /\ e \in Events /\ log \in Seq(Events)
  BY CurIsAccepted, InvParts DEF AppendIfAbsent, FileOK
<1>2. log' = log \/ (e \notin Logged /\ log' = Append(log, e))
  BY DEF AppendIfAbsent, AppendOnce
<1>3. e \in Logged'
  <2>1. CASE log' = log
    BY <2>1 DEF AppendIfAbsent, AppendOnce, Logged
  <2>2. CASE log' = Append(log, e)
    BY <1>1, <2>2, Appended DEF Logged
  <2> QED BY <1>2, <2>1, <2>2
<1>4. FileOK' /\ UNCHANGED store /\ faults' \in Nat
  BY <1>1, <1>2, InvParts DEF FileOK, AppendIfAbsent
<1>5. WorkersOK' /\ \A v \in Workers : batch'[v] \subseteq batch[v]
  BY InvParts, ReturnedOK DEF AppendIfAbsent
<1>6. \A v \in Workers : pc'[v] = "ack" => cur'[v] = cur[v] /\ (pc[v] = "ack" \/ v = w)
  BY InvParts, ReturnedOK DEF AppendIfAbsent
<1> QED BY <1>1, <1>2, <1>3, <1>4, <1>5, <1>6, Logs

(* An append that goes wrong does no worse to the log. *)
LEMMA DamageOK ==
  ASSUME Inv, NEW w \in Workers, pc[w] = "append", Damage(w)
  PROVE  /\ FileOK'
         /\ log' = log \/ (cur[w].event \notin Logged /\ log' = Append(log, cur[w].event))
<1>1. log \in Seq(Events) /\ torn \in BOOLEAN /\ cur[w].event \in Events
  BY CurIsAccepted, InvParts DEF FileOK
<1>2. CASE UNCHANGED file
  BY <1>1, <1>2 DEF FileOK, file
<1>3. CASE ~ UNCHANGED file
  <2>1. /\ cur[w].event \notin Logged
        /\ (torn' = TRUE /\ log' = log) \/ (torn' = torn /\ log' = Append(log, cur[w].event))
    BY <1>3 DEF Damage
  <2>2. torn' \in BOOLEAN
    BY <1>1, <2>1
  <2>3. log' \in Seq(Events)
    BY <1>1, <2>1
  <2> QED BY <2>1, <2>2, <2>3 DEF FileOK
<1> QED BY <1>2, <1>3

LEMMA AppendErrorGood ==
  ASSUME Inv, NEW w \in Workers, AppendError(w)
  PROVE  Good
<1>1. pc[w] = "append" /\ Damage(w) /\ Raised(w) /\ UNCHANGED store /\ faults' \in Nat
  BY InvParts, FaultOK DEF AppendError
<1>2. cur[w].event \in accepted
  BY <1>1, CurIsAccepted
<1> QED BY <1>1, <1>2, DamageOK, RaisedOK, InvParts, Logs

LEMMA CrashGood ==
  ASSUME Inv, NEW w \in Workers, Crash(w)
  PROVE  Good
<1>1. /\ WorkersOK' /\ UNCHANGED store /\ faults' \in Nat
      /\ \A v \in Workers : batch'[v] \subseteq batch[v]
      /\ \A v \in Workers : pc'[v] = "ack" => pc[v] = "ack" /\ cur'[v] = cur[v]
  BY InvParts, FaultOK DEF Crash, WorkersOK
<1>2. CASE pc[w] = "append"
  <2>1. Damage(w) /\ cur[w].event \in accepted
    BY <1>2, CurIsAccepted DEF Crash
  <2> QED BY <1>1, <1>2, <2>1, DamageOK, Logs
<1>3. CASE pc[w] # "append"
  <2>1. UNCHANGED <<accepted, rows, log, torn>>
    BY <1>1, <1>3 DEF Crash, file, store
  <2>2. StoreOK'
    BY <2>1, InvParts DEF StoreOK
  <2> QED BY <1>1, <2>1, <2>2, RowsUnchanged, Quiet
<1> QED BY <1>2, <1>3

(* A step that changes rows and drops the claim it worked off. *)
LEMMA Settles ==
  ASSUME Inv, NEW w \in Workers, pc[w] \in {"ack", "failure"}, Drop(w, cur[w]),
         UNCHANGED <<accepted, file, faults>>, StoreOK',
         RowsStill \/ (Current(w, cur[w]) /\ \A e \in Events \ {cur[w].event} : rows'[e] = rows[e]),
         \A e \in Events : rows'[e].status # "none" => rows[e].status # "none",
         \A e \in Events : rows'[e].status = "none" => rows[e].status = "none" \/ e \in Logged
  PROVE  Inv' /\ Respect
<1>1. /\ WorkersOK' /\ \A v \in Workers : batch'[v] \subseteq batch[v]
      /\ \A v \in Workers : pc'[v] = "ack" => pc[v] = "ack" /\ cur'[v] = cur[v]
  BY InvParts, DropOK
<1>2. UNCHANGED <<accepted, log, torn>> /\ faults' \in Nat /\ UNCHANGED Logged
  BY InvParts DEF file, Logged
<1>3. FileOK' /\ LoggedOnce'
  BY <1>2, InvParts DEF FileOK, LoggedOnce
<1>4. NeverLost'
  BY <1>2, InvParts DEF NeverLost, StoreOK
<1>5. Grounded'
  BY <1>1, <1>2, InvParts DEF Grounded
<1>6. Inv'
  BY <1>1, <1>2, <1>3, <1>4, <1>5, InvFromParts
<1>7. CASE RowsStill
  BY <1>6, <1>7, StillRespects
<1>8. CASE Current(w, cur[w]) /\ \A e \in Events \ {cur[w].event} : rows'[e] = rows[e]
  <2>1. cur[w] \in batch[w] /\ cur[w] \notin batch'[w]
    BY CurIsAccepted, InvParts DEF Drop, WorkersOK
  <2>2. rows[cur[w].event].owner = w /\ rows[cur[w].event].version = cur[w].version
    BY <1>8 DEF Current
  <2>3. Respect
    BY <1>8, <2>1, <2>2 DEF Respect
  <2> QED BY <1>6, <2>3
<1> QED BY <1>7, <1>8

LEMMA AcknowledgeGood ==
  ASSUME Inv, NEW w \in Workers, Acknowledge(w)
  PROVE  Good
<1> DEFINE e == cur[w].event
<1>1. e \in Events /\ e \in accepted /\ e \in Logged /\ pc[w] = "ack"
  BY CurIsAccepted, InvParts DEF Acknowledge, Grounded
<1>2. CASE Current(w, cur[w])
  <2>1. rows' = [rows EXCEPT ![e].status = "none"] /\ rows[e].status = "processing"
    BY <1>2 DEF Acknowledge, Current
  <2>2. rows \in [Events -> Row]
    BY InvParts DEF StoreOK
  <2>3. [rows[e] EXCEPT !.status = "none"] \in Row /\ [rows[e] EXCEPT !.status = "none"].status = "none"
    BY <1>1, <2>2, SetStatus
  <2>4. rows' \in [Events -> Row] /\ rows'[e].status = "none" /\ \A x \in Events \ {e} : rows'[x] = rows[x]
    BY <1>1, <2>1, <2>2, <2>3
  <2>5. StoreOK' /\ UNCHANGED <<accepted, file, faults>> /\ Drop(w, cur[w])
    BY <2>4, InvParts DEF StoreOK, Acknowledge
  <2>6. Inv' /\ Respect
    BY <1>1, <1>2, <2>4, <2>5, Settles
  <2>7. Owed' = Owed \ {e} /\ e \in Owed
    BY <1>1, <2>1, <2>4 DEF Owed
  <2>8. e \in Trail!Recorded
    BY <1>1 DEF Trail!Recorded, Logged, ToSet
  <2>9. Trail!Settle
    BY <2>5, <2>7, <2>8 DEF Trail!Settle, file
  <2> QED BY <2>6, <2>9 DEF Good, TrailStep, Trail!Next
<1>3. CASE ~ Current(w, cur[w])
  <2>1. UNCHANGED <<accepted, rows, log, torn, faults>> /\ Drop(w, cur[w])
    BY <1>3 DEF Acknowledge, file
  <2>2. StoreOK' /\ faults' \in Nat
    BY <2>1, InvParts DEF StoreOK
  <2> QED BY <2>1, <2>2, InvParts, DropOK, RowsUnchanged, Quiet
<1> QED BY <1>2, <1>3

LEMMA RecordFailureGood ==
  ASSUME Inv, NEW w \in Workers, RecordFailure(w)
  PROVE  Good
<1> DEFINE e == cur[w].event
<1>1. e \in Events /\ cur[w] \in Claims /\ pc[w] = "failure"
  BY CurIsAccepted DEF RecordFailure
<1>2. CASE Current(w, cur[w])
  <2>1. rows' = [rows EXCEPT ![e] = Failed(w, cur[w])] /\ rows[e].status = "processing"
    BY <1>2 DEF RecordFailure, Current
  <2>2. rows \in [Events -> Row]
    BY InvParts DEF StoreOK
  <2>3. Failed(w, cur[w]) \in Row /\ Failed(w, cur[w]).status \in {"pending", "dead"}
    BY <1>1, InvParts, FailedOK
  <2>4. rows' \in [Events -> Row] /\ rows'[e].status # "none" /\ \A x \in Events \ {e} : rows'[x] = rows[x]
    BY <1>1, <2>1, <2>2, <2>3
  <2>5. StoreOK' /\ UNCHANGED <<accepted, file, faults>> /\ Drop(w, cur[w])
    BY <2>4, InvParts DEF StoreOK, RecordFailure
  <2>6. Inv' /\ Respect
    BY <1>1, <1>2, <2>1, <2>4, <2>5, Settles
  <2>7. UNCHANGED Owed
    BY <1>1, <2>1, <2>4 DEF Owed
  <2> QED BY <2>5, <2>6, <2>7 DEF Good, TrailStep, file
<1>3. CASE ~ Current(w, cur[w])
  <2>1. UNCHANGED <<accepted, rows, log, torn, faults>> /\ Drop(w, cur[w])
    BY <1>3 DEF RecordFailure, file
  <2>2. StoreOK' /\ faults' \in Nat
    BY <2>1, InvParts DEF StoreOK
  <2> QED BY <2>1, <2>2, InvParts, DropOK, RowsUnchanged, Quiet
<1> QED BY <1>2, <1>3

LEMMA AppendEventsGood ==
  ASSUME Inv, NEW new \in SUBSET Events, AppendEvents(new)
  PROVE  Good
<1> DEFINE fresh == [NoRow EXCEPT !.status = "pending", !.version = 1, !.due = TRUE]
<1>1. fresh \in Row /\ fresh.status = "pending"
  BY DEF NoRow, Row
<1>2. /\ rows \in [Events -> Row] /\ accepted \subseteq Events
      /\ \A e \in Events : rows'[e] = IF e \in new THEN fresh ELSE rows[e]
      /\ accepted' = accepted \cup new
      /\ \A e \in new : e \notin accepted
  BY InvParts DEF AppendEvents, StoreOK
<1>3. StoreOK'
  <2> HIDE DEF fresh
  <2>1. rows' = [e \in Events |-> IF e \in new THEN fresh ELSE rows[e]]
    BY DEF AppendEvents, fresh
  <2> QED BY <1>1, <1>2, <2>1 DEF StoreOK
<1> HIDE DEF fresh
<1>4. UNCHANGED <<log, torn, pc, batch, cur, leased, faults, Logged>>
  BY DEF AppendEvents, file, workers, Logged
<1>5. FileOK' /\ WorkersOK' /\ faults' \in Nat
  BY <1>4, InvParts DEF FileOK, WorkersOK
<1>6. NeverLost'
  BY <1>1, <1>2, <1>4, InvParts DEF NeverLost
<1>7. LoggedOnce'
  BY <1>2, <1>4, InvParts DEF LoggedOnce
<1>8. Grounded'
  BY <1>1, <1>2, <1>4, InvParts DEF Grounded
<1>9. Owed' = Owed \cup new
  BY <1>1, <1>2 DEF Owed
<1>10. Trail!Accept
  BY <1>2, <1>4, <1>9 DEF Trail!Accept
<1>11. Respect
  BY <1>2, InvParts DEF Respect, Grounded
<1> QED BY <1>3, <1>5, <1>6, <1>7, <1>8, <1>10, <1>11, InvFromParts DEF Good, TrailStep, Trail!Next

LEMMA ClaimBatchGood ==
  ASSUME Inv, NEW w \in Workers, NEW es \in SUBSET Events, ClaimBatch(w, es)
  PROVE  Good
<1> DEFINE cs == {[event |-> e, version |-> rows'[e].version, attempts |-> rows'[e].attempts] : e \in es}
<1>1. /\ rows \in [Events -> Row] /\ \A e \in es : Ready(e)
      /\ rows' = [e \in Events |-> IF e \in es THEN Claimed(e, w) ELSE rows[e]]
      /\ batch' = [batch EXCEPT ![w] = cs] /\ pc[w] = "idle"
      /\ UNCHANGED <<accepted, log, torn, faults, Logged>>
  BY InvParts DEF ClaimBatch, StoreOK, Due, file, Logged
<1>2. \A e \in Events : Claimed(e, w) \in Row /\ Claimed(e, w).status = "processing"
  BY InvParts, ClaimedOK
<1>3. rows' \in [Events -> Row] /\ StoreOK'
  BY <1>1, <1>2, InvParts DEF StoreOK
<1>4. \A e \in Events : (rows'[e].status # "none") <=> (rows[e].status # "none")
  BY <1>1, <1>2 DEF Ready
<1>5. cs \subseteq Claims /\ \A c \in cs : c.event \in es
  BY <1>3 DEF Claims, Row
<1>6. \A e \in es : e \in accepted
  BY <1>1, InvParts DEF Ready, Grounded
<1> HIDE DEF cs
<1>7. /\ batch' \in [Workers -> SUBSET Claims] /\ batch'[w] = cs
      /\ \A v \in Workers \ {w} : batch'[v] = batch[v]
  BY <1>1, <1>5, InvParts DEF WorkersOK
<1>8. WorkersOK' /\ \A v \in Workers : pc'[v] = "ack" => pc[v] = "ack" /\ cur'[v] = cur[v]
  <2>1. CASE w \in Daemons
    <3>1. pc' = [pc EXCEPT ![w] = "next"] /\ UNCHANGED <<cur, leased>>
      BY <2>1 DEF ClaimBatch
    <3> QED BY <1>1, <1>7, <3>1, InvParts DEF WorkersOK
  <2>2. CASE w \notin Daemons
    <3>1. PICK c \in batch'[w] : Deliver(w, c)
      BY <2>2 DEF ClaimBatch
    <3> QED BY <1>5, <1>7, <3>1, InvParts, DeliverOK
  <2> QED BY <2>1, <2>2
<1>9. FileOK' /\ faults' \in Nat /\ LoggedOnce'
  BY <1>1, InvParts DEF FileOK, LoggedOnce
<1>10. NeverLost'
  BY <1>1, <1>4, InvParts DEF NeverLost, StoreOK
<1>11. Grounded'
  BY <1>1, <1>4, <1>5, <1>6, <1>7, <1>8, InvParts DEF Grounded
<1>12. UNCHANGED <<Owed, accepted, log>>
  BY <1>1, <1>4 DEF Owed
<1>13. Respect
  BY <1>1 DEF Respect, Ready
<1> QED BY <1>3, <1>8, <1>9, <1>10, <1>11, <1>12, <1>13, InvFromParts DEF Good, TrailStep

LEMMA StutterGood ==
  ASSUME Inv, UNCHANGED vars
  PROVE  Good
<1>1. UNCHANGED <<accepted, rows, log, torn, pc, batch, cur, leased, faults>>
  BY DEF vars
<1>2. StoreOK' /\ WorkersOK' /\ faults' \in Nat
  BY <1>1, InvParts DEF StoreOK, WorkersOK
<1> QED BY <1>1, <1>2, RowsUnchanged, Quiet

LEMMA NextGood == Inv /\ [Next]_vars => Good
<1> SUFFICES ASSUME Inv, [Next]_vars PROVE Good
  OBVIOUS
<1>1. ASSUME NEW new \in SUBSET Events, AppendEvents(new) PROVE Good
  BY <1>1, AppendEventsGood
<1>2. ASSUME NEW w \in Workers, Step(w) PROVE Good
  BY <1>2, RenewNextGood, AppendIfAbsentGood, RefuseLogGood, AcknowledgeGood, RecordFailureGood DEF Step
<1>3. ASSUME NEW w \in Workers, Disturb(w) PROVE Good
  BY <1>3, HeartbeatGood, AppendErrorGood, HeartbeatAwayGood, CrashGood, DatabaseAwayGood DEF Disturb
<1>4. ASSUME NEW w \in Workers, NEW es \in SUBSET Events, ClaimBatch(w, es) PROVE Good
  BY <1>4, ClaimBatchGood
<1>5. ASSUME NEW e \in Events, Expire(e) \/ BecomeDue(e) PROVE Good
  BY <1>5, ExpireGood, BecomeDueGood
<1>6. CASE UNCHANGED vars
  BY <1>6, StutterGood
<1> QED BY <1>1, <1>2, <1>3, <1>4, <1>5, <1>6 DEF Next

LEMMA InitInv == Init => Inv
<1> SUFFICES ASSUME Init PROVE Inv
  OBVIOUS
<1>1. NoRow \in Row /\ NoRow.status = "none"
  BY DEF NoRow, Row
<1>2. StoreOK /\ rows = [e \in Events |-> NoRow] /\ accepted = {}
  BY <1>1 DEF Init, StoreOK
<1>3. /\ log = <<>> /\ log \in Seq(Events) /\ DOMAIN log = {}
      /\ torn \in BOOLEAN /\ faults \in Nat
  <2>1. log = <<>> /\ torn = FALSE /\ faults = 0
    BY DEF Init
  <2>2. <<>> \in Seq(Events) /\ DOMAIN <<>> = {}
    OBVIOUS
  <2> QED BY <2>1, <2>2
<1>4. WorkersOK /\ \A w \in Workers : pc[w] = "idle" /\ batch[w] = {}
  BY DEF Init, WorkersOK
<1>5. NeverLost /\ LoggedOnce
  BY <1>2, <1>3 DEF NeverLost, LoggedOnce, Logged, ToSet
<1>6. Grounded
  BY <1>1, <1>2, <1>4 DEF Grounded
<1> QED BY <1>2, <1>3, <1>4, <1>5, <1>6, Parts DEF Inv, FileOK
-----------------------------------------------------------------------------
(* Every behaviour of the outbox has the inductive invariant. *)
THEOREM Invariance == Spec => []Inv
<1>1. Inv /\ [Next]_vars => Inv'
  BY NextGood DEF Good
<1> QED BY InitInv, <1>1, PTL DEF Spec

(* The columns of m0_event_outbox, the log and the workers' memory keep    *)
(* their types; a worker that delivers still has that record in its batch. *)
THEOREM TypeCorrect == Spec => []TypeOK
<1>1. Inv => TypeOK
  BY DEF Inv
<1> QED BY Invariance, <1>1, PTL

(* mark_outbox_delivered only deletes rows whose event is in the log.      *)
THEOREM NothingLost == Spec => []NeverLost
<1>1. Inv => NeverLost
  BY DEF Inv
<1> QED BY Invariance, <1>1, PTL

(* append_if_absent writes each event once, whoever retries it.            *)
THEOREM NothingLoggedTwice == Spec => []LoggedOnce
<1>1. Inv => LoggedOnce
  BY DEF Inv
<1> QED BY Invariance, <1>1, PTL

(* While a lease lives only its holder settles the row.                    *)
THEOREM ClaimsRespected == Spec => ClaimRespected
<1>1. Inv /\ [Next]_vars => [Respect]_vars
  BY NextGood DEF Good
<1>2. Spec => [][Respect]_vars
  BY Invariance, <1>1, PTL DEF Spec
<1> QED BY <1>2 DEF ClaimRespected, Respect

(* The outbox implements the audit trail it promises.                      *)
THEOREM Implements == Spec => DeliveredOnce
<1>1. Init => Trail!Init
  BY DEF Init, Trail!Init, Owed, NoRow
<1>2. Inv /\ [Next]_vars => [Trail!Next]_<<Owed, accepted, log>>
  BY NextGood DEF Good, TrailStep
<1> QED BY Invariance, <1>1, <1>2, PTL DEF Spec, DeliveredOnce, Trail!Spec
=============================================================================
