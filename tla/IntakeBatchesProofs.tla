-------------------------- MODULE IntakeBatchesProofs --------------------------
(* Proofs about IntakeBatches for any number of people, sessions, files and    *)
(* requests raised by hand.                                                    *)
(*                                                                             *)
(* Nothing locks a batch while it is checked.  What keeps two decisions of one *)
(* request apart is the request's row: the invariant says that whoever is      *)
(* about to commit a decision is alone with a request that is still pending,   *)
(* that a decided request has left a batch that awaits nobody, and that no     *)
(* batch that was held has a request of its own.                               *)
EXTENDS IntakeBatches, TLAPS

Deciding == {"decide", "approve", "refuse"}
Committing == {"approve", "refuse"}

\* What a session knows of the batch and the request it works on.
TxOK(s) ==
    LET t == tx[s] IN
    /\ t.step = "submit" => /\ t.file \in Files /\ t.user \in Users
                            /\ t.ctl \in Controls /\ t.answer \in Scans
    /\ t.step \in Deciding =>
         /\ t.request \in DOMAIN request /\ t.batch = request[t.request].batch
         /\ t.user \in Users /\ t.user # request[t.request].maker
    /\ t.step \in Committing => request[t.request].status = "pending"
    /\ t.step = "approve" => t.ctl \in Controls
    /\ t.step \in {"resume", "resumed"} =>
         /\ t.batch \in DOMAIN batch
         /\ \A r \in DOMAIN request : request[r].own => request[r].batch # t.batch
    /\ t.step = "resumed" => t.ctl \in Controls

TxsOK == \A s \in Sessions : TxOK(s)

\* Two sessions are not about to decide the same request.
Apart ==
    \A s, o \in Sessions :
        /\ tx[s].step \in Committing /\ tx[o].step \in Committing
        /\ tx[s].request = tx[o].request
        => s = o

RequestOK(r) ==
    /\ request[r].batch \in DOMAIN batch
    /\ request[r].status # "pending" => batch[request[r].batch].state # "awaiting_approval"
    /\ request[r].own => batch[request[r].batch].state # "held"
    /\ request[r].own /\ Alone(r) => batch[request[r].batch].state = Answer(r)

RequestsOK == \A r \in DOMAIN request : RequestOK(r)

\* What has landed passed every check, or a request for it was approved.
LandingOK(l) ==
    /\ l.batch \in DOMAIN batch
    /\ l.request = 0 => l.reasons = {}
    /\ l.request # 0 =>
         /\ l.request \in DOMAIN request
         /\ request[l.request].batch = l.batch /\ request[l.request].status = "approved"
         /\ request[l.request].checker = l.by /\ l.by \notin {None, request[l.request].maker}

LandingsOK == \A i \in DOMAIN landing : LandingOK(landing[i])

IInv == TypeOK /\ TxsOK /\ Apart /\ RequestsOK /\ LandingsOK /\ LandedOnce

\* A batch never waits again for what it has left behind.
BatchKeeps(b) ==
    /\ b \in DOMAIN batch'
    /\ batch[b].scanned = "again" => batch'[b].scanned = "again"
    /\ batch[b].state # "awaiting_approval" => batch'[b].state # "awaiting_approval"
    /\ batch[b].state # "held" => batch'[b].state # "held"

\* A request is decided once.
RequestKeeps(r) ==
    /\ r \in DOMAIN request'
    /\ request'[r].batch = request[r].batch /\ request'[r].maker = request[r].maker
    /\ request'[r].own = request[r].own
    /\ request[r].status # "pending" => request'[r] = request[r]

\* A new request is pending; the one submit makes is for the batch it makes.
RequestArrives(r) ==
    /\ request'[r].status = "pending" /\ request'[r].batch \in DOMAIN batch'
    /\ request'[r].own => /\ request'[r].batch \notin DOMAIN batch
                          /\ batch'[request'[r].batch].state = "awaiting_approval"

Keeps ==
    /\ \A b \in DOMAIN batch : BatchKeeps(b)
    /\ \A r \in DOMAIN request : RequestKeeps(r)
    /\ \A r \in DOMAIN request' \ DOMAIN request : RequestArrives(r)

-----------------------------------------------------------------------------
(* Records.                                                                *)

\* A transaction written out.
Tx(st, u, b, r, f, c, a) ==
    [step |-> st, user |-> u, batch |-> b, request |-> r, file |-> f, ctl |-> c, answer |-> a]

LEMMA TxFields ==
    ASSUME NEW st, NEW u, NEW b, NEW r, NEW f, NEW c, NEW a
    PROVE  /\ Tx(st, u, b, r, f, c, a).step = st /\ Tx(st, u, b, r, f, c, a).user = u
           /\ Tx(st, u, b, r, f, c, a).batch = b /\ Tx(st, u, b, r, f, c, a).request = r
           /\ Tx(st, u, b, r, f, c, a).file = f /\ Tx(st, u, b, r, f, c, a).ctl = c
           /\ Tx(st, u, b, r, f, c, a).answer = a
BY DEF Tx

LEMMA IdleTyped == Idle \in Transaction /\ Idle.step = "idle"
BY DEF Idle, Transaction

LEMMA SubmitTx ==
    ASSUME NEW u, NEW f, NEW a, NEW c
    PROVE  [Idle EXCEPT !.step = "submit", !.user = u, !.file = f, !.answer = a, !.ctl = c]
           = Tx("submit", u, 0, 0, f, c, a)
<1>1. Idle = Tx("idle", None, 0, 0, None, None, None)
  BY DEF Idle, Tx
<1>2. [Tx("idle", None, 0, 0, None, None, None) EXCEPT !.step = "submit"]
      = Tx("submit", None, 0, 0, None, None, None)
  BY DEF Tx
<1>3. [Tx("submit", None, 0, 0, None, None, None) EXCEPT !.user = u]
      = Tx("submit", u, 0, 0, None, None, None)
  BY DEF Tx
<1>4. [Tx("submit", u, 0, 0, None, None, None) EXCEPT !.file = f]
      = Tx("submit", u, 0, 0, f, None, None)
  BY DEF Tx
<1>5. [Tx("submit", u, 0, 0, f, None, None) EXCEPT !.answer = a]
      = Tx("submit", u, 0, 0, f, None, a)
  BY DEF Tx
<1>6. [Tx("submit", u, 0, 0, f, None, a) EXCEPT !.ctl = c] = Tx("submit", u, 0, 0, f, c, a)
  BY DEF Tx
<1>7. [Idle EXCEPT !.step = "submit", !.user = u] = Tx("submit", u, 0, 0, None, None, None)
  BY <1>1, <1>2, <1>3, Zenon
<1>8. [Idle EXCEPT !.step = "submit", !.user = u, !.file = f, !.answer = a]
      = Tx("submit", u, 0, 0, f, None, a)
  BY <1>4, <1>5, <1>7, Zenon
<1> QED BY <1>6, <1>8, Zenon

LEMMA DecideTx ==
    ASSUME NEW s, NEW u, NEW r, NEW a, DecideRead(s, u, r, a)
    PROVE  Goto(s, Tx("decide", u, request[r].batch, r, None, None, a))
<1> DEFINE b == request[r].batch
<1>0. Goto(s, [Idle EXCEPT !.step = "decide", !.user = u, !.request = r, !.batch = b,
                           !.answer = a])
  BY DEF DecideRead
<1> HIDE DEF b
<1>1. Idle = Tx("idle", None, 0, 0, None, None, None)
  BY DEF Idle, Tx
<1>2. [Tx("idle", None, 0, 0, None, None, None) EXCEPT !.step = "decide"]
      = Tx("decide", None, 0, 0, None, None, None)
  BY DEF Tx
<1>3. [Tx("decide", None, 0, 0, None, None, None) EXCEPT !.user = u]
      = Tx("decide", u, 0, 0, None, None, None)
  BY DEF Tx
<1>4. [Tx("decide", u, 0, 0, None, None, None) EXCEPT !.request = r]
      = Tx("decide", u, 0, r, None, None, None)
  BY DEF Tx
<1>5. [Tx("decide", u, 0, r, None, None, None) EXCEPT !.batch = b]
      = Tx("decide", u, b, r, None, None, None)
  BY DEF Tx
<1>6. [Tx("decide", u, b, r, None, None, None) EXCEPT !.answer = a]
      = Tx("decide", u, b, r, None, None, a)
  BY DEF Tx
<1>7. [Idle EXCEPT !.step = "decide", !.user = u] = Tx("decide", u, 0, 0, None, None, None)
  BY <1>1, <1>2, <1>3, Zenon
<1>8. [Idle EXCEPT !.step = "decide", !.user = u, !.request = r, !.batch = b]
      = Tx("decide", u, b, r, None, None, None)
  BY <1>4, <1>5, <1>7, Zenon
<1>9. [Idle EXCEPT !.step = "decide", !.user = u, !.request = r, !.batch = b, !.answer = a]
      = Tx("decide", u, b, r, None, None, a)
  BY <1>6, <1>8, Zenon
<1>10. Goto(s, Tx("decide", u, b, r, None, None, a))
  BY <1>0, <1>9, Zenon
<1> QED BY <1>10 DEF b

LEMMA ResumeTx ==
    ASSUME NEW b
    PROVE  [Idle EXCEPT !.step = "resume", !.batch = b] = Tx("resume", None, b, 0, None, None, None)
<1>1. Idle = Tx("idle", None, 0, 0, None, None, None)
  BY DEF Idle, Tx
<1>2. [Tx("idle", None, 0, 0, None, None, None) EXCEPT !.step = "resume"]
      = Tx("resume", None, 0, 0, None, None, None)
  BY DEF Tx
<1>3. [Tx("resume", None, 0, 0, None, None, None) EXCEPT !.batch = b]
      = Tx("resume", None, b, 0, None, None, None)
  BY DEF Tx
<1> QED BY <1>1, <1>2, <1>3, Zenon

LEMMA TxIs ==
    ASSUME NEW t \in Transaction
    PROVE  t = Tx(t.step, t.user, t.batch, t.request, t.file, t.ctl, t.answer)
<1> DEFINE F == {"step", "user", "batch", "request", "file", "ctl", "answer"}
<1>1. t = [y \in F |-> t[y]]
  BY DEF Transaction
<1> QED BY <1>1 DEF Tx

LEMMA RefuseTx ==
    ASSUME NEW t \in Transaction
    PROVE  [t EXCEPT !.step = "refuse"]
           = Tx("refuse", t.user, t.batch, t.request, t.file, t.ctl, t.answer)
<1>1. t = Tx(t.step, t.user, t.batch, t.request, t.file, t.ctl, t.answer)
  BY TxIs
<1>2. [Tx(t.step, t.user, t.batch, t.request, t.file, t.ctl, t.answer) EXCEPT !.step = "refuse"]
      = Tx("refuse", t.user, t.batch, t.request, t.file, t.ctl, t.answer)
  BY DEF Tx
<1> QED BY <1>1, <1>2, Zenon

LEMMA CheckedTx ==
    ASSUME NEW t \in Transaction, NEW st, NEW c
    PROVE  [t EXCEPT !.step = st, !.ctl = c]
           = Tx(st, t.user, t.batch, t.request, t.file, c, t.answer)
<1> DEFINE R(s, x) == Tx(s, t.user, t.batch, t.request, t.file, x, t.answer)
<1>1. t = R(t.step, t.ctl)
  BY TxIs
<1>2. [R(t.step, t.ctl) EXCEPT !.step = st] = R(st, t.ctl)
  BY DEF Tx
<1>3. [R(st, t.ctl) EXCEPT !.ctl = c] = R(st, c)
  BY DEF Tx
<1> HIDE DEF R
<1>4. [t EXCEPT !.step = st, !.ctl = c] = R(st, c)
  BY <1>1, <1>2, <1>3, Zenon
<1> QED BY <1>4 DEF R

\* A batch with what a step may change of it.
BatchRow(t, st, v, x, m) ==
    [file |-> t.file, state |-> st, reasons |-> x, match |-> m, scanned |-> v]

LEMMA BatchRowIs ==
    ASSUME NEW t \in Batch
    PROVE  t = BatchRow(t, t.state, t.scanned, t.reasons, t.match)
<1> DEFINE F == {"file", "state", "reasons", "match", "scanned"}
<1>1. t = [y \in F |-> t[y]]
  BY DEF Batch
<1> QED BY <1>1 DEF BatchRow

LEMMA BatchRowTyped ==
    ASSUME NEW t \in Batch, NEW st \in States, NEW v \in {"once", "again"},
           NEW x \in SUBSET Reasons, NEW m \in Matches \cup {None}
    PROVE  /\ BatchRow(t, st, v, x, m) \in Batch
           /\ BatchRow(t, st, v, x, m).state = st
           /\ BatchRow(t, st, v, x, m).scanned = v
BY DEF BatchRow, Batch

LEMMA DecidedRow ==
    ASSUME NEW t \in Batch, NEW st \in States
    PROVE  /\ [t EXCEPT !.state = st] \in Batch
           /\ [t EXCEPT !.state = st].state = st
           /\ [t EXCEPT !.state = st].scanned = t.scanned
BY DEF Batch

LEMMA InfectedRow ==
    ASSUME NEW t \in Batch
    PROVE  [t EXCEPT !.state = "rejected", !.scanned = "again"]
           = BatchRow(t, "rejected", "again", t.reasons, t.match)
<1> DEFINE R(s, v) == BatchRow(t, s, v, t.reasons, t.match)
<1>1. t = R(t.state, t.scanned)
  BY BatchRowIs
<1>2. [R(t.state, t.scanned) EXCEPT !.state = "rejected"] = R("rejected", t.scanned)
  BY DEF BatchRow
<1>3. [R("rejected", t.scanned) EXCEPT !.scanned = "again"] = R("rejected", "again")
  BY DEF BatchRow
<1> HIDE DEF R
<1>4. [t EXCEPT !.state = "rejected", !.scanned = "again"] = R("rejected", "again")
  BY <1>1, <1>2, <1>3, Zenon
<1> QED BY <1>4 DEF R

LEMMA ResumedRow ==
    ASSUME NEW t \in Batch, NEW st, NEW x, NEW m
    PROVE  [t EXCEPT !.state = st, !.scanned = "again", !.reasons = x, !.match = m]
           = BatchRow(t, st, "again", x, m)
<1> DEFINE R(s, v, y, n) == BatchRow(t, s, v, y, n)
<1>1. t = R(t.state, t.scanned, t.reasons, t.match)
  BY BatchRowIs
<1>2. [R(t.state, t.scanned, t.reasons, t.match) EXCEPT !.state = st]
      = R(st, t.scanned, t.reasons, t.match)
  BY DEF BatchRow
<1>3. [R(st, t.scanned, t.reasons, t.match) EXCEPT !.scanned = "again"]
      = R(st, "again", t.reasons, t.match)
  BY DEF BatchRow
<1>4. [R(st, "again", t.reasons, t.match) EXCEPT !.reasons = x] = R(st, "again", x, t.match)
  BY DEF BatchRow
<1>5. [R(st, "again", x, t.match) EXCEPT !.match = m] = R(st, "again", x, m)
  BY DEF BatchRow
<1> HIDE DEF R
<1>6. [t EXCEPT !.state = st, !.scanned = "again"] = R(st, "again", t.reasons, t.match)
  BY <1>1, <1>2, <1>3, Zenon
<1>7. [t EXCEPT !.state = st, !.scanned = "again", !.reasons = x, !.match = m]
      = R(st, "again", x, m)
  BY <1>4, <1>5, <1>6, Zenon
<1> QED BY <1>7 DEF R

\* A request with its decision.
Answered(q, w, u) == [q EXCEPT !.status = w, !.checker = u]

LEMMA AnsweredRow ==
    ASSUME NEW q \in Request, NEW w \in {"approved", "rejected"}, NEW u \in Users
    PROVE  /\ Answered(q, w, u) \in Request
           /\ Answered(q, w, u).status = w /\ Answered(q, w, u).checker = u
           /\ Answered(q, w, u).batch = q.batch /\ Answered(q, w, u).maker = q.maker
           /\ Answered(q, w, u).own = q.own
BY DEF Request, Answered

\* The checks say something of every file.
LEMMA CheckedTyped ==
    ASSUME TypeOK, NEW f \in Files, NEW b
    PROVE  Checked(f, b) \in Controls
<1>1. Merged(f) \in Row
  <2>1. \A x \in Fields : Gives[f][x] \in Values \cup {None}
    <3>1. Gives[f] \in [Fields -> Values \cup {None}]
      BY FilesAssumption
    <3> QED BY <3>1
  <2>2. asset # None => \A x \in Fields : asset[x] \in Values \cup {None}
    BY DEF TypeOK, Row
  <2> QED BY <2>1, <2>2 DEF Merged, Row
<1>2. Match(f) \in Matches
  BY DEF Match, Matches
<1> QED BY <1>1, <1>2 DEF Checked, Controls

LEMMA WarningTyped ==
    ASSUME NEW c \in Controls, NEW f
    PROVE  WithWarning(c, f) \in Controls
<1>1. "security" \in Reasons
  BY DEF Reasons
<1>2. (IF f \in Warned THEN c.reasons \cup {"security"} ELSE c.reasons) \in SUBSET Reasons
  BY <1>1 DEF Controls
<1> DEFINE x == IF f \in Warned THEN c.reasons \cup {"security"} ELSE c.reasons
<1>3. WithWarning(c, f) = [c EXCEPT !.reasons = x]
  BY DEF WithWarning, Controls
<1> HIDE DEF x
<1> QED BY <1>2, <1>3 DEF Controls, x

-----------------------------------------------------------------------------
(* Parts of a step.                                                        *)

LEMMA Goes ==
    ASSUME TypeOK, NEW s \in Sessions, NEW t \in Transaction, Goto(s, t)
    PROVE  /\ tx' \in [Sessions -> Transaction] /\ tx'[s] = t
           /\ \A o \in Sessions : o # s => tx'[o] = tx[o]
BY DEF TypeOK, Goto

LEMMA RowsTyped ==
    ASSUME TypeOK
    PROVE  /\ DOMAIN batch = 1 .. Len(batch) /\ Len(batch) \in Nat
           /\ \A b \in DOMAIN batch : batch[b] \in Batch /\ b \in Nat
           /\ DOMAIN request = 1 .. Len(request) /\ Len(request) \in Nat
           /\ \A r \in DOMAIN request : request[r] \in Request /\ r \in Nat /\ r # 0
BY DEF TypeOK

\* One batch changes.
LEMMA OneBatch ==
    ASSUME TypeOK, NEW b \in DOMAIN batch, NEW x \in Batch, batch' = [batch EXCEPT ![b] = x]
    PROVE  /\ batch' \in Seq(Batch) /\ DOMAIN batch' = DOMAIN batch /\ batch'[b] = x
           /\ \A c \in DOMAIN batch : c # b => batch'[c] = batch[c]
BY DEF TypeOK

\* One batch is added.
LEMMA NewBatch ==
    ASSUME TypeOK, NEW x \in Batch, batch' = Append(batch, x)
    PROVE  /\ batch' \in Seq(Batch) /\ DOMAIN batch' = DOMAIN batch \cup {Len(batch) + 1}
           /\ Len(batch) + 1 \notin DOMAIN batch /\ Len(batch) + 1 \in Nat
           /\ batch'[Len(batch) + 1] = x
           /\ \A c \in DOMAIN batch : batch'[c] = batch[c]
<1>1. batch \in Seq(Batch)
  BY DEF TypeOK
<1> QED BY <1>1

\* One request is decided.
LEMMA OneRequest ==
    ASSUME TypeOK, NEW r \in DOMAIN request, NEW x \in Request,
           request' = [request EXCEPT ![r] = x]
    PROVE  /\ request' \in Seq(Request) /\ DOMAIN request' = DOMAIN request /\ request'[r] = x
           /\ \A q \in DOMAIN request : q # r => request'[q] = request[q]
BY DEF TypeOK

\* One request is added.
LEMMA Asked ==
    ASSUME TypeOK, NEW b \in Nat, NEW u \in Users, NEW own \in BOOLEAN, Ask(b, u, own)
    PROVE  /\ request' \in Seq(Request)
           /\ DOMAIN request' = DOMAIN request \cup {Len(request) + 1}
           /\ Len(request) + 1 \notin DOMAIN request
           /\ \A q \in DOMAIN request : request'[q] = request[q]
           /\ \A q \in DOMAIN request' \ DOMAIN request :
                 /\ request'[q].status = "pending" /\ request'[q].batch = b
                 /\ request'[q].own = own
<1> DEFINE x == [batch |-> b, maker |-> u, own |-> own, status |-> "pending", checker |-> None]
<1>1. x \in Request /\ x.status = "pending" /\ x.batch = b /\ x.own = own
  BY DEF Request
<1>2. request' = Append(request, x) /\ request \in Seq(Request)
  BY DEF Ask, TypeOK
<1> HIDE DEF x
<1>3. /\ request' \in Seq(Request) /\ DOMAIN request' = DOMAIN request \cup {Len(request) + 1}
      /\ Len(request) + 1 \notin DOMAIN request
      /\ request'[Len(request) + 1] = x
      /\ \A q \in DOMAIN request : request'[q] = request[q]
  BY <1>1, <1>2
<1> QED BY <1>1, <1>3

\* Nothing happens to the requests.
LEMMA NobodyAsks ==
    ASSUME UNCHANGED request
    PROVE  /\ \A r \in DOMAIN request : RequestKeeps(r)
           /\ \A r \in DOMAIN request' \ DOMAIN request : RequestArrives(r)
BY DEF RequestKeeps

\* The other sessions know what they knew, if nobody answers the requests they hold.
LEMMA SessionsKept ==
    ASSUME TypeOK, TxsOK, Keeps, NEW s \in Sessions,
           \A o \in Sessions : o # s => tx'[o] = tx[o],
           \A o \in Sessions : o # s /\ tx[o].step \in Committing
                               => request'[tx[o].request].status = "pending",
           TxOK(s)'
    PROVE  TxsOK'
<1> SUFFICES ASSUME NEW o \in Sessions, o # s PROVE TxOK(o)'
  BY DEF TxsOK
<1>1. TxOK(o) /\ tx'[o] = tx[o]
  BY DEF TxsOK
<1>2. tx[o].step \in Deciding =>
         /\ tx[o].request \in DOMAIN request' /\ tx[o].batch = request'[tx[o].request].batch
         /\ tx[o].user \in Users /\ tx[o].user # request'[tx[o].request].maker
  BY <1>1 DEF TxOK, Keeps, RequestKeeps
<1>3. ASSUME tx[o].step \in {"resume", "resumed"}
      PROVE  /\ tx[o].batch \in DOMAIN batch'
             /\ \A r \in DOMAIN request' : request'[r].own => request'[r].batch # tx[o].batch
  <2>1. /\ tx[o].batch \in DOMAIN batch
        /\ \A r \in DOMAIN request : request[r].own => request[r].batch # tx[o].batch
    BY <1>1, <1>3 DEF TxOK
  <2>2. \A r \in DOMAIN request : request'[r].own => request'[r].batch # tx[o].batch
    BY <2>1 DEF Keeps, RequestKeeps
  <2>3. \A r \in DOMAIN request' \ DOMAIN request :
           request'[r].own => request'[r].batch # tx[o].batch
    BY <2>1 DEF Keeps, RequestArrives
  <2>4. tx[o].batch \in DOMAIN batch'
    BY <2>1 DEF Keeps, BatchKeeps
  <2> QED BY <2>2, <2>3, <2>4
<1> QED BY <1>1, <1>2, <1>3 DEF TxOK

\* Nobody starts to commit a decision.
LEMMA ApartKept ==
    ASSUME Apart, NEW s \in Sessions, \A o \in Sessions : o # s => tx'[o] = tx[o],
           tx'[s].step \notin Committing
    PROVE  Apart'
BY DEF Apart

\* Nothing lands.
LEMMA LandingsKept ==
    ASSUME IInv, Keeps, UNCHANGED landing
    PROVE  LandingsOK' /\ LandedOnce'
<1>1. \A i \in DOMAIN landing : LandingOK(landing[i])
  BY DEF IInv, LandingsOK
<1>2. LandingsOK'
  <2> SUFFICES ASSUME NEW i \in DOMAIN landing PROVE LandingOK(landing[i])'
    BY DEF LandingsOK
  <2> DEFINE l == landing[i]
  <2>1. LandingOK(l)
    BY <1>1
  <2>2. /\ l.batch \in DOMAIN batch'
        /\ l.request # 0 => /\ l.request \in DOMAIN request'
                            /\ request'[l.request] = request[l.request]
    BY <2>1 DEF LandingOK, Keeps, BatchKeeps, RequestKeeps
  <2> QED BY <2>1, <2>2 DEF LandingOK
<1>3. LandedOnce'
  BY <1>1 DEF IInv, LandedOnce, Keeps, BatchKeeps, LandingOK
<1> QED BY <1>2, <1>3

\* A batch lands that had not landed through this request, or was resumed.
LEMMA LandingAdded ==
    ASSUME IInv, Keeps, NEW l \in Landing, landing' = Append(landing, l), LandingOK(l)',
           \/ batch'[l.batch].scanned = "again"
           \/ \A i \in DOMAIN landing : landing[i].batch = l.batch
                                        => landing[i].request # l.request
    PROVE  /\ landing' \in Seq(Landing) /\ LandingsOK' /\ LandedOnce'
           /\ \A r : r # l.request => Landed(r)' = Landed(r)
           /\ Landed(l.request)' # {}
<1>1. landing \in Seq(Landing)
  BY DEF IInv, TypeOK
<1>2. /\ landing' \in Seq(Landing) /\ DOMAIN landing' = DOMAIN landing \cup {Len(landing) + 1}
      /\ Len(landing) + 1 \notin DOMAIN landing
      /\ landing'[Len(landing) + 1] = l /\ \A i \in DOMAIN landing : landing'[i] = landing[i]
  BY <1>1
<1>3. \A i \in DOMAIN landing : LandingOK(landing[i])
  BY DEF IInv, LandingsOK
<1>4. \A i \in DOMAIN landing :
         /\ landing[i].batch \in DOMAIN batch'
         /\ landing[i].request # 0 =>
               /\ landing[i].request \in DOMAIN request'
               /\ request'[landing[i].request] = request[landing[i].request]
  BY <1>3 DEF LandingOK, Keeps, BatchKeeps, RequestKeeps
<1>5. LandingsOK'
  <2> SUFFICES ASSUME NEW i \in DOMAIN landing' PROVE LandingOK(landing[i])'
    BY DEF LandingsOK
  <2>1. CASE i = Len(landing) + 1
    BY <1>2, <2>1 DEF LandingOK
  <2>2. CASE i \in DOMAIN landing
    BY <1>2, <1>3, <1>4, <2>2 DEF LandingOK
  <2> QED BY <1>2, <2>1, <2>2
<1>6. LandedOnce'
  <2> SUFFICES ASSUME NEW i \in DOMAIN landing', NEW j \in DOMAIN landing', i # j,
                      landing'[i].batch = landing'[j].batch
               PROVE  \/ batch'[landing'[i].batch].scanned = "again"
                      \/ landing'[i].request # landing'[j].request
    BY DEF LandedOnce
  <2>1. CASE i \in DOMAIN landing /\ j \in DOMAIN landing
    <3>1. landing[i].batch \in DOMAIN batch /\ landing'[i] = landing[i] /\ landing'[j] = landing[j]
      BY <1>2, <1>3, <2>1 DEF LandingOK
    <3>2. \/ batch[landing[i].batch].scanned = "again"
          \/ landing[i].request # landing[j].request
      BY <2>1, <3>1 DEF IInv, LandedOnce
    <3> QED BY <3>1, <3>2 DEF Keeps, BatchKeeps
  <2>2. CASE i = Len(landing) + 1 \/ j = Len(landing) + 1
    BY <1>2, <2>2
  <2> QED BY <1>2, <2>1, <2>2
<1>7. \A r : r # l.request => Landed(r)' = Landed(r)
  BY <1>2 DEF Landed
<1>8. Landed(l.request)' # {}
  BY <1>2 DEF Landed
<1> QED BY <1>2, <1>5, <1>6, <1>7, <1>8

\* A request nobody decides keeps what the invariant says of it, if its batch says
\* what it said or was never its own.
LEMMA RequestKept ==
    ASSUME IInv, Keeps, NEW r \in DOMAIN request, request'[r] = request[r],
           Landed(r)' = Landed(r),
           request[r].own /\ Alone(r) =>
               batch'[request[r].batch].state = batch[request[r].batch].state
    PROVE  RequestOK(r)'
<1>1. RequestOK(r)
  BY DEF IInv, RequestsOK
<1>2. request[r].batch \in DOMAIN batch /\ BatchKeeps(request[r].batch)
  BY <1>1 DEF RequestOK, Keeps
<1>3. Alone(r)' => Alone(r)
  BY DEF Alone, Keeps, RequestKeeps
<1>4. Answer(r)' = Answer(r)
  BY DEF Answer
<1> QED BY <1>1, <1>2, <1>3, <1>4 DEF RequestOK, BatchKeeps

\* A new request is in order: submit's own batch awaits it.
LEMMA RequestNew ==
    ASSUME IInv, Keeps, NEW r \in DOMAIN request' \ DOMAIN request
    PROVE  RequestOK(r)'
<1>1. RequestArrives(r)
  BY DEF Keeps
<1>2. Answer(r)' = "awaiting_approval"
  BY <1>1 DEF RequestArrives, Answer
<1> QED BY <1>1, <1>2 DEF RequestOK, RequestArrives

LEMMA LandTyped ==
    ASSUME TypeOK, NEW c \in Controls, Land(c)
    PROVE  asset' \in Row \cup {None}
BY DEF TypeOK, Land, Controls

LEMMA IdleKnows == ASSUME NEW s \in Sessions, tx'[s] = Idle PROVE TxOK(s)'
BY DEF TxOK, Idle, Deciding, Committing

\* A session that is done leaves the others as they are.
LEMMA Done ==
    ASSUME IInv, Keeps, NEW s \in Sessions, Finish(s),
           \A o \in Sessions : o # s /\ tx[o].step \in Committing
                               => request'[tx[o].request].status = "pending"
    PROVE  tx' \in [Sessions -> Transaction] /\ TxsOK' /\ Apart'
<1>1. /\ tx' \in [Sessions -> Transaction] /\ tx'[s] = Idle
      /\ \A o \in Sessions : o # s => tx'[o] = tx[o]
  BY IdleTyped, Goes DEF Finish, IInv
<1>2. TxsOK'
  BY <1>1, IdleKnows, SessionsKept DEF IInv
<1>3. tx'[s].step \notin Committing
  BY <1>1, IdleTyped DEF Committing
<1>4. Apart'
  BY <1>1, <1>3, ApartKept DEF IInv
<1> QED BY <1>1, <1>2, <1>4

-----------------------------------------------------------------------------
(* The steps.                                                              *)

\* A step that only a session remembers.
LEMMA OnlyRemembers ==
    ASSUME IInv, NEW s \in Sessions, NEW t \in Transaction, Goto(s, t),
           UNCHANGED <<asset, batch, request, landing>>, TxOK(s)', Apart'
    PROVE  IInv'
<1>1. /\ tx' \in [Sessions -> Transaction] /\ tx'[s] = t
      /\ \A o \in Sessions : o # s => tx'[o] = tx[o]
  BY Goes DEF IInv
<1>2. Keeps
  BY NobodyAsks DEF Keeps, BatchKeeps
<1>3. LandingsOK' /\ LandedOnce'
  BY <1>2, LandingsKept
<1>4. TypeOK'
  BY <1>1 DEF IInv, TypeOK
<1>5. RequestsOK'
  <2>1. \A r \in DOMAIN request : Landed(r)' = Landed(r)
    BY DEF Landed
  <2> QED BY <1>2, <2>1, RequestKept DEF RequestsOK
<1>6. \A o \in Sessions : o # s /\ tx[o].step \in Committing
                          => request'[tx[o].request].status = "pending"
  BY DEF IInv, TxsOK, TxOK
<1>7. TxsOK'
  BY <1>1, <1>2, <1>6, SessionsKept DEF IInv
<1> QED BY <1>3, <1>4, <1>5, <1>7 DEF IInv

\* One that commits nothing next.
LEMMA Remembers ==
    ASSUME IInv, NEW s \in Sessions, NEW t \in Transaction, Goto(s, t),
           UNCHANGED <<asset, batch, request, landing>>, TxOK(s)', t.step \notin Committing
    PROVE  IInv'
<1>1. tx'[s] = t /\ \A o \in Sessions : o # s => tx'[o] = tx[o]
  BY Goes DEF IInv
<1>2. Apart'
  BY <1>1, ApartKept DEF IInv
<1> QED BY <1>2, OnlyRemembers

\* One that is about to commit the decision of a request nobody else is about to.
LEMMA Commits ==
    ASSUME IInv, NEW s \in Sessions, NEW t \in Transaction, Goto(s, t),
           UNCHANGED <<asset, batch, request, landing>>, TxOK(s)',
           t.request = tx[s].request, MyTurn(s)
    PROVE  IInv'
<1>1. tx'[s] = t /\ \A o \in Sessions : o # s => tx'[o] = tx[o]
  BY Goes DEF IInv
<1>2. Apart'
  <2> SUFFICES ASSUME NEW u \in Sessions, NEW v \in Sessions, tx'[u].step \in Committing,
                      tx'[v].step \in Committing, tx'[u].request = tx'[v].request, u # v
               PROVE  FALSE
    BY DEF Apart
  <2>1. CASE u # s /\ v # s
    BY <1>1, <2>1 DEF IInv, Apart
  <2>2. CASE u = s \/ v = s
    BY <1>1, <2>2 DEF MyTurn, Committing
  <2> QED BY <2>1, <2>2
<1> QED BY <1>2, OnlyRemembers

LEMMA SubmitCheckInv ==
    ASSUME IInv, NEW s \in Sessions, NEW u \in Users, NEW f \in Files, NEW scan \in Scans,
           SubmitCheck(s, u, f, scan)
    PROVE  IInv'
<1> DEFINE c == WithWarning(Checked(f, 0), f)
           t == Tx("submit", u, 0, 0, f, c, scan)
<1>1. c \in Controls
  BY CheckedTyped, WarningTyped DEF IInv
<1>2. Goto(s, t) /\ UNCHANGED <<asset, batch, request, landing>>
  <2>1. \A x : [Idle EXCEPT !.step = "submit", !.user = u, !.file = f, !.answer = scan, !.ctl = x]
              = Tx("submit", u, 0, 0, f, x, scan)
    BY SubmitTx
  <2>2. Goto(s, [Idle EXCEPT !.step = "submit", !.user = u, !.file = f, !.answer = scan,
                             !.ctl = c])
    BY DEF SubmitCheck
  <2>3. Goto(s, t)
    BY <2>1, <2>2, Zenon
  <2> QED BY <2>3 DEF SubmitCheck
<1> HIDE DEF c
<1>3. t \in Transaction
  BY <1>1 DEF Transaction, Tx
<1>4. t.step = "submit" /\ t.user = u /\ t.file = f /\ t.answer = scan /\ t.ctl = c
  BY TxFields
<1> HIDE DEF t
<1>5. TxOK(s)'
  BY <1>1, <1>2, <1>3, <1>4, Goes DEF TxOK, IInv, Deciding, Committing
<1>6. t.step \notin Committing
  BY <1>4 DEF Committing
<1> QED BY <1>2, <1>3, <1>5, <1>6, Remembers

LEMMA RollbackInv == ASSUME IInv, NEW s \in Sessions, Rollback(s) PROVE IInv'
<1>1. Goto(s, Idle) /\ UNCHANGED <<asset, batch, request, landing>>
  BY DEF Rollback, Finish
<1>2. TxOK(s)'
  BY <1>1, IdleTyped, Goes, IdleKnows DEF IInv
<1>3. Idle.step \notin Committing
  BY IdleTyped DEF Committing
<1> QED BY <1>1, <1>2, <1>3, IdleTyped, Remembers

LEMMA DecideReadInv ==
    ASSUME IInv, NEW s \in Sessions, NEW u \in Users, NEW r \in DOMAIN request,
           NEW d \in {"approved", "rejected"}, DecideRead(s, u, r, d)
    PROVE  IInv'
<1> DEFINE b == request[r].batch
           t == Tx("decide", u, b, r, None, None, d)
<1>1. Goto(s, t) /\ UNCHANGED <<asset, batch, request, landing>> /\ request[r].maker # u
  BY DecideTx DEF DecideRead, MayDecide
<1>2. b \in Nat /\ r \in Nat
  BY RowsTyped DEF IInv, Request
<1>3. t \in Transaction
  BY <1>2 DEF Transaction, Tx
<1>4. t.step = "decide" /\ t.user = u /\ t.batch = b /\ t.request = r
  BY TxFields
<1> HIDE DEF t
<1>5. TxOK(s)'
  BY <1>1, <1>3, <1>4, Goes DEF TxOK, IInv, Deciding, Committing
<1>6. t.step \notin Committing
  BY <1>4 DEF Committing
<1> QED BY <1>1, <1>3, <1>5, <1>6, Remembers

\* What a deciding session holds when its turn has come.
LEMMA Holding ==
    ASSUME IInv, NEW s \in Sessions, tx[s].step = "decide", MyTurn(s)
    PROVE  /\ tx[s] \in Transaction
           /\ tx[s].request \in DOMAIN request /\ tx[s].batch = request[tx[s].request].batch
           /\ tx[s].user \in Users /\ tx[s].user # request[tx[s].request].maker
           /\ request[tx[s].request].status = "pending"
           /\ tx[s].batch \in DOMAIN batch /\ batch[tx[s].batch] \in Batch
<1>1. /\ tx[s] \in Transaction
      /\ tx[s].request \in DOMAIN request /\ tx[s].batch = request[tx[s].request].batch
      /\ tx[s].user \in Users /\ tx[s].user # request[tx[s].request].maker
  BY DEF IInv, TypeOK, TxsOK, TxOK, Deciding
<1>2. RequestOK(tx[s].request)
  BY <1>1 DEF IInv, RequestsOK
<1>3. /\ request[tx[s].request].status = "pending" /\ tx[s].batch \in DOMAIN batch
  BY <1>1, <1>2 DEF RequestOK, MyTurn, StillAwaiting
<1> QED BY <1>1, <1>3, RowsTyped DEF IInv

LEMMA DecideRefuseInv == ASSUME IInv, NEW s \in Sessions, DecideRefuse(s) PROVE IInv'
<1> DEFINE t == tx[s]
           x == Tx("refuse", t.user, t.batch, t.request, t.file, t.ctl, t.answer)
<1>1. /\ t.step = "decide" /\ MyTurn(s) /\ UNCHANGED <<asset, batch, request, landing>>
  BY DEF DecideRefuse, Step
<1>2. /\ t \in Transaction /\ t.request \in DOMAIN request /\ t.batch = request[t.request].batch
      /\ t.user \in Users /\ t.user # request[t.request].maker
      /\ request[t.request].status = "pending"
  BY <1>1, Holding
<1>3. Goto(s, x)
  <2>1. [t EXCEPT !.step = "refuse"] = x
    BY <1>2, RefuseTx
  <2>2. Goto(s, [t EXCEPT !.step = "refuse"])
    BY DEF DecideRefuse
  <2> QED BY <2>1, <2>2, Zenon
<1>4. x \in Transaction
  BY <1>2 DEF Transaction, Tx
<1>5. x.step = "refuse" /\ x.user = t.user /\ x.batch = t.batch /\ x.request = t.request
  BY TxFields
<1> HIDE DEF x
<1>6. tx'[s] = x
  BY <1>3, <1>4, Goes DEF IInv
<1>7. TxOK(s)'
  BY <1>1, <1>2, <1>5, <1>6 DEF TxOK, Deciding, Committing
<1> QED BY <1>1, <1>3, <1>4, <1>5, <1>7, Commits

LEMMA DecideCheckInv == ASSUME IInv, NEW s \in Sessions, DecideCheck(s) PROVE IInv'
<1> DEFINE t == tx[s]
           f == batch[t.batch].file
           c == WithWarning(Checked(f, t.batch), f)
           x == Tx("approve", t.user, t.batch, t.request, t.file, c, t.answer)
<1>1. /\ t.step = "decide" /\ MyTurn(s) /\ UNCHANGED <<asset, batch, request, landing>>
  BY DEF DecideCheck, Step
<1>2. /\ t \in Transaction /\ t.request \in DOMAIN request /\ t.batch = request[t.request].batch
      /\ t.user \in Users /\ t.user # request[t.request].maker
      /\ request[t.request].status = "pending"
  BY <1>1, Holding
<1>3. f \in Files
  BY <1>1, Holding DEF Batch
<1>4. c \in Controls
  BY <1>3, CheckedTyped, WarningTyped DEF IInv
<1>5. Goto(s, x)
  <2>1. \A y : [t EXCEPT !.step = "approve", !.ctl = y]
              = Tx("approve", t.user, t.batch, t.request, t.file, y, t.answer)
    BY <1>2, CheckedTx
  <2>2. Goto(s, [t EXCEPT !.step = "approve", !.ctl = c])
    BY DEF DecideCheck
  <2> QED BY <2>1, <2>2, Zenon
<1> HIDE DEF c
<1>6. x \in Transaction
  BY <1>2, <1>4 DEF Transaction, Tx
<1>7. /\ x.step = "approve" /\ x.user = t.user /\ x.batch = t.batch /\ x.request = t.request
      /\ x.ctl = c
  BY TxFields
<1> HIDE DEF x
<1>8. tx'[s] = x
  BY <1>5, <1>6, Goes DEF IInv
<1>9. TxOK(s)'
  BY <1>1, <1>2, <1>4, <1>7, <1>8 DEF TxOK, Deciding, Committing
<1> QED BY <1>1, <1>5, <1>6, <1>7, <1>9, Commits

LEMMA ResumeReadInv ==
    ASSUME IInv, NEW s \in Sessions, NEW b \in DOMAIN batch, ResumeRead(s, b)
    PROVE  IInv'
<1> DEFINE t == Tx("resume", None, b, 0, None, None, None)
<1>1. Goto(s, t) /\ UNCHANGED <<asset, batch, request, landing>> /\ batch[b].state = "held"
  <2>1. [Idle EXCEPT !.step = "resume", !.batch = b] = t
    BY ResumeTx
  <2>2. Goto(s, [Idle EXCEPT !.step = "resume", !.batch = b])
    BY DEF ResumeRead
  <2>3. Goto(s, t)
    BY <2>1, <2>2, Zenon
  <2> QED BY <2>3 DEF ResumeRead
<1>2. b \in Nat
  BY RowsTyped DEF IInv
<1>3. t \in Transaction
  BY <1>2 DEF Transaction, Tx
<1>4. t.step = "resume" /\ t.batch = b
  BY TxFields
<1>5. \A r \in DOMAIN request : request[r].own => request[r].batch # b
  BY <1>1 DEF IInv, RequestsOK, RequestOK
<1> HIDE DEF t
<1>6. TxOK(s)'
  BY <1>1, <1>3, <1>4, <1>5, Goes DEF TxOK, IInv, Deciding, Committing
<1>7. t.step \notin Committing
  BY <1>4 DEF Committing
<1> QED BY <1>1, <1>3, <1>6, <1>7, Remembers

\* A batch that was held has no request of its own.
LEMMA Resuming ==
    ASSUME IInv, NEW s \in Sessions, tx[s].step \in {"resume", "resumed"}
    PROVE  LET b == tx[s].batch IN
           /\ tx[s] \in Transaction
           /\ b \in DOMAIN batch /\ b \in Nat /\ batch[b] \in Batch
           /\ \A r \in DOMAIN request : request[r].own => request[r].batch # b
           /\ tx[s].step = "resumed" => tx[s].ctl \in Controls
BY RowsTyped DEF IInv, TypeOK, TxsOK, TxOK

LEMMA ResumeCheckInv == ASSUME IInv, NEW s \in Sessions, ResumeCheck(s) PROVE IInv'
<1> DEFINE t == tx[s]
           c == Checked(batch[t.batch].file, t.batch)
           x == Tx("resumed", t.user, t.batch, t.request, t.file, c, t.answer)
<1>1. t.step = "resume" /\ UNCHANGED <<asset, batch, request, landing>>
  BY DEF ResumeCheck, Step
<1>2. /\ t \in Transaction /\ t.batch \in DOMAIN batch /\ batch[t.batch] \in Batch
      /\ \A r \in DOMAIN request : request[r].own => request[r].batch # t.batch
  BY <1>1, Resuming
<1>3. c \in Controls
  BY <1>2, CheckedTyped DEF IInv, Batch
<1>4. Goto(s, x)
  <2>1. \A y : [t EXCEPT !.step = "resumed", !.ctl = y]
              = Tx("resumed", t.user, t.batch, t.request, t.file, y, t.answer)
    BY <1>2, CheckedTx
  <2>2. Goto(s, [t EXCEPT !.step = "resumed", !.ctl = c])
    BY DEF ResumeCheck
  <2> QED BY <2>1, <2>2, Zenon
<1> HIDE DEF c
<1>5. x \in Transaction
  BY <1>2, <1>3 DEF Transaction, Tx
<1>6. x.step = "resumed" /\ x.ctl = c /\ x.batch = t.batch
  BY TxFields
<1> HIDE DEF x
<1>7. tx'[s] = x
  BY <1>4, <1>5, Goes DEF IInv
<1>8. TxOK(s)'
  BY <1>1, <1>2, <1>3, <1>6, <1>7 DEF TxOK, Deciding, Committing
<1>9. x.step \notin Committing
  BY <1>6 DEF Committing
<1> QED BY <1>1, <1>4, <1>5, <1>8, <1>9, Remembers

\* create_approval: one more request, for a batch there is.
LEMMA RaiseRequestInv ==
    ASSUME IInv, NEW u \in Users, NEW b \in DOMAIN batch, RaiseRequest(u, b)
    PROVE  IInv'
<1>1. Ask(b, u, FALSE) /\ UNCHANGED <<asset, batch, landing, tx>> /\ b \in Nat
  BY RowsTyped DEF RaiseRequest, IInv
<1>2. /\ request' \in Seq(Request)
      /\ DOMAIN request' = DOMAIN request \cup {Len(request) + 1}
      /\ \A q \in DOMAIN request : request'[q] = request[q]
      /\ \A q \in DOMAIN request' \ DOMAIN request :
            /\ request'[q].status = "pending" /\ request'[q].batch = b
            /\ request'[q].own = FALSE
  BY <1>1, Asked DEF IInv
<1>3. Keeps
  <2>1. \A r \in DOMAIN request : RequestKeeps(r)
    BY <1>2 DEF RequestKeeps
  <2>2. \A r \in DOMAIN request' \ DOMAIN request : RequestArrives(r)
    BY <1>1, <1>2 DEF RequestArrives
  <2>3. \A c \in DOMAIN batch : BatchKeeps(c)
    BY <1>1 DEF BatchKeeps
  <2> QED BY <2>1, <2>2, <2>3 DEF Keeps
<1>4. RequestsOK'
  <2>1. \A r \in DOMAIN request : RequestOK(r)'
    <3>1. \A r \in DOMAIN request : Landed(r)' = Landed(r)
      BY <1>1 DEF Landed
    <3> QED BY <1>1, <1>2, <1>3, <3>1, RequestKept
  <2>2. \A r \in DOMAIN request' \ DOMAIN request : RequestOK(r)'
    BY <1>3, RequestNew
  <2> QED BY <2>1, <2>2 DEF RequestsOK
<1>5. LandingsOK' /\ LandedOnce'
  BY <1>1, <1>3, LandingsKept
<1>6. TxsOK'
  <2> SUFFICES ASSUME NEW s \in Sessions PROVE TxOK(s)'
    BY DEF TxsOK
  <2>1. TxOK(s) /\ tx'[s] = tx[s]
    BY <1>1 DEF IInv, TxsOK
  <2>2. tx[s].step \in Deciding =>
           tx[s].request \in DOMAIN request' /\ request'[tx[s].request] = request[tx[s].request]
    BY <1>2, <2>1 DEF TxOK
  <2>3. tx[s].step \in Committing => tx[s].step \in Deciding
    BY DEF Committing, Deciding
  <2>4. tx[s].step \in {"resume", "resumed"} =>
           \A r \in DOMAIN request' : request'[r].own => request'[r].batch # tx[s].batch
    BY <1>2, <2>1 DEF TxOK
  <2> QED BY <1>1, <2>1, <2>2, <2>3, <2>4 DEF TxOK
<1>7. Apart' /\ TypeOK'
  BY <1>1, <1>2 DEF IInv, TypeOK, Apart
<1> QED BY <1>4, <1>5, <1>6, <1>7 DEF IInv

-----------------------------------------------------------------------------
(* A file arrives.                                                         *)

LEMMA ReceivedRow ==
    ASSUME NEW t, t.file \in Files, t.user \in Users, t.ctl \in Controls, NEW st \in States
    PROVE  Received(t, st) \in Batch /\ Received(t, st).state = st
BY DEF Received, Batch, Controls

\* A new batch and its request, if it has one.
LEMMA Arrival ==
    ASSUME IInv, NEW s \in Sessions, NEW x \in Batch, batch' = Append(batch, x), Finish(s),
           \/ UNCHANGED request
           \/ /\ x.state = "awaiting_approval"
              /\ \E u \in Users : Ask(Len(batch) + 1, u, TRUE)
    PROVE  /\ batch' \in Seq(Batch) /\ request' \in Seq(Request) /\ Keeps
           /\ tx' \in [Sessions -> Transaction] /\ TxsOK' /\ Apart'
           /\ Len(batch) + 1 \in DOMAIN batch' /\ Len(batch) + 1 \in Nat
           /\ \A i \in DOMAIN landing : landing[i].batch # Len(batch) + 1
           /\ (\A r \in DOMAIN request : Landed(r)' = Landed(r)) => RequestsOK'
<1>1. /\ batch' \in Seq(Batch) /\ DOMAIN batch' = DOMAIN batch \cup {Len(batch) + 1}
      /\ Len(batch) + 1 \notin DOMAIN batch /\ Len(batch) + 1 \in Nat
      /\ batch'[Len(batch) + 1] = x
      /\ \A c \in DOMAIN batch : batch'[c] = batch[c]
  BY NewBatch DEF IInv
<1>2. /\ request' \in Seq(Request) /\ DOMAIN request \subseteq DOMAIN request'
      /\ \A q \in DOMAIN request : request'[q] = request[q]
      /\ \A r \in DOMAIN request' \ DOMAIN request : RequestArrives(r)
  <2>1. CASE UNCHANGED request
    BY <2>1 DEF IInv, TypeOK
  <2>2. CASE /\ x.state = "awaiting_approval"
             /\ \E u \in Users : Ask(Len(batch) + 1, u, TRUE)
    BY <1>1, <2>2, Asked DEF IInv, RequestArrives
  <2> QED BY <2>1, <2>2
<1>3. Keeps
  <2>1. \A r \in DOMAIN request : RequestKeeps(r)
    BY <1>2 DEF RequestKeeps
  <2>2. \A c \in DOMAIN batch : BatchKeeps(c)
    BY <1>1 DEF BatchKeeps
  <2> QED BY <1>2, <2>1, <2>2 DEF Keeps
<1>4. tx' \in [Sessions -> Transaction] /\ TxsOK' /\ Apart'
  <2>1. \A o \in Sessions : tx[o].step \in Committing
                            => request'[tx[o].request].status = "pending"
    BY <1>2 DEF IInv, TxsOK, TxOK, Committing, Deciding
  <2> QED BY <1>3, <2>1, Done
<1>5. \A i \in DOMAIN landing : landing[i].batch # Len(batch) + 1
  BY <1>1 DEF IInv, LandingsOK, LandingOK
<1>6. ASSUME \A r \in DOMAIN request : Landed(r)' = Landed(r) PROVE RequestsOK'
  <2>1. ASSUME NEW r \in DOMAIN request PROVE RequestOK(r)'
    <3>1. request[r].batch \in DOMAIN batch
      BY DEF IInv, RequestsOK, RequestOK
    <3>2. batch'[request[r].batch] = batch[request[r].batch]
      BY <1>1, <3>1
    <3> QED BY <1>2, <1>3, <1>6, <3>2, RequestKept
  <2>2. \A r \in DOMAIN request' \ DOMAIN request : RequestOK(r)'
    BY <1>3, RequestNew
  <2> QED BY <2>1, <2>2 DEF RequestsOK
<1> QED BY <1>1, <1>2, <1>3, <1>4, <1>5, <1>6

LEMMA SubmitStopInv == ASSUME IInv, NEW s \in Sessions, SubmitStop(s) PROVE IInv'
<1> DEFINE t == tx[s]
<1>1. /\ t.file \in Files /\ t.user \in Users /\ t.ctl \in Controls
      /\ Finish(s) /\ UNCHANGED <<asset, landing>>
  BY DEF SubmitStop, Step, IInv, TxsOK, TxOK
<1>2. PICK st \in {"rejected", "held", "awaiting_approval"} :
         /\ batch' = Append(batch, Received(t, st))
         /\ \/ UNCHANGED request
            \/ st = "awaiting_approval" /\ Ask(Len(batch) + 1, t.user, TRUE)
  BY DEF SubmitStop
<1> DEFINE x == Received(t, st)
<1>3. x \in Batch /\ x.state = st
  BY <1>1, ReceivedRow DEF States
<1>4. batch' = Append(batch, x)
  BY <1>2
<1> HIDE DEF x
<1>5. /\ batch' \in Seq(Batch) /\ request' \in Seq(Request) /\ Keeps
      /\ tx' \in [Sessions -> Transaction] /\ TxsOK' /\ Apart'
      /\ (\A r \in DOMAIN request : Landed(r)' = Landed(r)) => RequestsOK'
  BY <1>1, <1>2, <1>3, <1>4, Arrival
<1>6. \A r \in DOMAIN request : Landed(r)' = Landed(r)
  BY <1>1 DEF Landed
<1>7. LandingsOK' /\ LandedOnce'
  BY <1>1, <1>5, LandingsKept
<1> QED BY <1>1, <1>5, <1>6, <1>7 DEF IInv, TypeOK

\* What lands without a request.
LEMMA LandsByItself ==
    ASSUME IInv, Keeps, NEW b \in Nat, b \in DOMAIN batch', NEW c \in Controls, c.reasons = {},
           Imported(b, 0, None, c),
           batch'[b].scanned = "again" \/ \A i \in DOMAIN landing : landing[i].batch # b
    PROVE  /\ landing' \in Seq(Landing) /\ LandingsOK' /\ LandedOnce'
           /\ \A r \in DOMAIN request : Landed(r)' = Landed(r)
<1> DEFINE l == [batch |-> b, request |-> 0, by |-> None, reasons |-> c.reasons]
<1>1. l \in Landing /\ l.batch = b /\ l.request = 0 /\ l.reasons = {}
  BY DEF Landing, Controls
<1>2. landing' = Append(landing, l)
  BY DEF Imported
<1> HIDE DEF l
<1>3. LandingOK(l)'
  BY <1>1 DEF LandingOK
<1>4. /\ landing' \in Seq(Landing) /\ LandingsOK' /\ LandedOnce'
      /\ \A r : r # l.request => Landed(r)' = Landed(r)
  BY <1>1, <1>2, <1>3, LandingAdded
<1>5. \A r \in DOMAIN request : r # 0
  BY RowsTyped DEF IInv
<1> QED BY <1>1, <1>4, <1>5

LEMMA SubmitLandInv == ASSUME IInv, NEW s \in Sessions, SubmitLand(s) PROVE IInv'
<1> DEFINE t == tx[s]
<1>1. /\ t.file \in Files /\ t.user \in Users /\ t.ctl \in Controls /\ t.ctl.reasons = {}
      /\ Finish(s) /\ UNCHANGED request
  BY DEF SubmitLand, Step, IInv, TxsOK, TxOK
<1>2. PICK st \in {"imported", "rejected"} :
         /\ batch' = Append(batch, Received(t, st))
         /\ \/ Land(t.ctl) /\ Imported(Len(batch) + 1, 0, None, t.ctl)
            \/ UNCHANGED <<asset, landing>>
  BY DEF SubmitLand, NothingLands
<1> DEFINE x == Received(t, st)
<1>3. x \in Batch
  BY <1>1, ReceivedRow DEF States
<1>4. batch' = Append(batch, x)
  BY <1>2
<1> HIDE DEF x
<1>5. /\ batch' \in Seq(Batch) /\ request' \in Seq(Request) /\ Keeps
      /\ tx' \in [Sessions -> Transaction] /\ TxsOK' /\ Apart'
      /\ Len(batch) + 1 \in DOMAIN batch' /\ Len(batch) + 1 \in Nat
      /\ \A i \in DOMAIN landing : landing[i].batch # Len(batch) + 1
      /\ (\A r \in DOMAIN request : Landed(r)' = Landed(r)) => RequestsOK'
  BY <1>1, <1>3, <1>4, Arrival
<1>6. /\ landing' \in Seq(Landing) /\ LandingsOK' /\ LandedOnce'
      /\ \A r \in DOMAIN request : Landed(r)' = Landed(r)
      /\ asset' \in Row \cup {None}
  <2>1. CASE Land(t.ctl) /\ Imported(Len(batch) + 1, 0, None, t.ctl)
    BY <1>1, <1>5, <2>1, LandsByItself, LandTyped DEF IInv
  <2>2. CASE UNCHANGED <<asset, landing>>
    BY <1>5, <2>2, LandingsKept DEF IInv, TypeOK, Landed
  <2> QED BY <1>2, <2>1, <2>2
<1> QED BY <1>5, <1>6 DEF IInv, TypeOK

-----------------------------------------------------------------------------
(* A held batch is resumed.                                                *)

\* What the end of a resume does to the batch.
LEMMA ResumeEnds ==
    ASSUME IInv, NEW s \in Sessions, tx[s].step \in {"resume", "resumed"}, Finish(s),
           UNCHANGED request,
           NEW x \in Batch, batch' = [batch EXCEPT ![tx[s].batch] = x],
           x.scanned = "again", x.state \in {"checked", "imported", "rejected"}
    PROVE  /\ batch' \in Seq(Batch) /\ Keeps /\ tx[s].batch \in DOMAIN batch'
           /\ batch'[tx[s].batch].scanned = "again"
           /\ tx' \in [Sessions -> Transaction] /\ TxsOK' /\ Apart'
           /\ (\A r \in DOMAIN request : Landed(r)' = Landed(r)) => RequestsOK'
<1> DEFINE b == tx[s].batch
<1>1. b \in DOMAIN batch /\ \A r \in DOMAIN request : request[r].own => request[r].batch # b
  BY Resuming
<1>2. /\ batch' \in Seq(Batch) /\ DOMAIN batch' = DOMAIN batch /\ batch'[b] = x
      /\ \A c \in DOMAIN batch : c # b => batch'[c] = batch[c]
  BY <1>1, OneBatch DEF IInv
<1>3. Keeps
  <2>1. \A c \in DOMAIN batch : BatchKeeps(c)
    BY <1>2 DEF BatchKeeps
  <2> QED BY <2>1, NobodyAsks DEF Keeps
<1>4. tx' \in [Sessions -> Transaction] /\ TxsOK' /\ Apart'
  <2>1. \A o \in Sessions : tx[o].step \in Committing
                            => request'[tx[o].request].status = "pending"
    BY DEF IInv, TxsOK, TxOK
  <2> QED BY <1>3, <2>1, Done
<1>5. ASSUME \A r \in DOMAIN request : Landed(r)' = Landed(r) PROVE RequestsOK'
  <2> SUFFICES ASSUME NEW r \in DOMAIN request PROVE RequestOK(r)'
    BY DEF RequestsOK
  <2>1. request[r].batch \in DOMAIN batch
    BY DEF IInv, RequestsOK, RequestOK
  <2>2. request[r].own => batch'[request[r].batch].state = batch[request[r].batch].state
    BY <1>1, <1>2, <2>1
  <2> QED BY <1>3, <1>5, <2>2, RequestKept
<1> QED BY <1>1, <1>2, <1>3, <1>4, <1>5

LEMMA ResumeInfectedInv == ASSUME IInv, NEW s \in Sessions, ResumeInfected(s) PROVE IInv'
<1> DEFINE b == tx[s].batch
           k == batch[b]
           x == BatchRow(k, "rejected", "again", k.reasons, k.match)
<1>1. /\ tx[s].step = "resume" /\ k \in Batch
      /\ Finish(s) /\ UNCHANGED <<asset, request, landing>>
  BY Resuming DEF ResumeInfected, Step
<1>2. batch' = [batch EXCEPT ![b] = x]
  <2>1. [k EXCEPT !.state = "rejected", !.scanned = "again"] = x
    BY <1>1, InfectedRow
  <2>2. batch' = [batch EXCEPT ![b] = [k EXCEPT !.state = "rejected", !.scanned = "again"]]
    BY DEF ResumeInfected
  <2> QED BY <2>1, <2>2, Zenon
<1>3. x \in Batch /\ x.state = "rejected" /\ x.scanned = "again"
  <2>1. k.reasons \in SUBSET Reasons /\ k.match \in Matches \cup {None}
    BY <1>1 DEF Batch
  <2>2. "rejected" \in States
    BY DEF States
  <2> QED BY <1>1, <2>1, <2>2, BatchRowTyped
<1> HIDE DEF x
<1>4. /\ batch' \in Seq(Batch) /\ Keeps
      /\ tx' \in [Sessions -> Transaction] /\ TxsOK' /\ Apart'
      /\ (\A r \in DOMAIN request : Landed(r)' = Landed(r)) => RequestsOK'
  BY <1>1, <1>2, <1>3, ResumeEnds
<1>5. \A r \in DOMAIN request : Landed(r)' = Landed(r)
  BY <1>1 DEF Landed
<1>6. LandingsOK' /\ LandedOnce'
  BY <1>1, <1>4, LandingsKept
<1> QED BY <1>1, <1>4, <1>5, <1>6 DEF IInv, TypeOK

\* The row of a batch that was resumed.
LEMMA ResumedIs ==
    ASSUME IInv, NEW s \in Sessions, tx[s].step = "resumed",
           NEW st \in {"checked", "imported", "rejected"}, ResumedTo(tx[s].batch, st, tx[s].ctl)
    PROVE  \E x \in Batch : /\ batch' = [batch EXCEPT ![tx[s].batch] = x]
                            /\ x.state = st /\ x.scanned = "again"
<1> DEFINE b == tx[s].batch
           k == batch[b]
           c == tx[s].ctl
           x == BatchRow(k, st, "again", c.reasons, c.match)
<1>1. k \in Batch /\ c \in Controls
  BY Resuming
<1>2. batch' = [batch EXCEPT ![b] = x]
  <2>1. \A y, m : [k EXCEPT !.state = st, !.scanned = "again", !.reasons = y, !.match = m]
                 = BatchRow(k, st, "again", y, m)
    BY <1>1, ResumedRow
  <2>2. batch' = [batch EXCEPT ![b] = [k EXCEPT !.state = st, !.scanned = "again",
                                                !.reasons = c.reasons, !.match = c.match]]
    BY DEF ResumedTo
  <2> QED BY <2>1, <2>2, Zenon
<1>3. x \in Batch /\ x.state = st /\ x.scanned = "again"
  <2>1. c.reasons \in SUBSET Reasons /\ c.match \in Matches \cup {None}
    BY <1>1 DEF Controls
  <2>2. st \in States
    BY DEF States
  <2> HIDE DEF k, c
  <2> QED BY <1>1, <2>1, <2>2, BatchRowTyped
<1> HIDE DEF x
<1> QED BY <1>2, <1>3

LEMMA ResumeStopInv == ASSUME IInv, NEW s \in Sessions, ResumeStop(s) PROVE IInv'
<1>1. /\ tx[s].step = "resumed" /\ ResumedTo(tx[s].batch, "checked", tx[s].ctl)
      /\ Finish(s) /\ UNCHANGED <<asset, request, landing>>
  BY DEF ResumeStop, Step
<1>2. PICK x \in Batch : /\ batch' = [batch EXCEPT ![tx[s].batch] = x]
                         /\ x.state = "checked" /\ x.scanned = "again"
  BY <1>1, ResumedIs
<1>3. /\ batch' \in Seq(Batch) /\ Keeps
      /\ tx' \in [Sessions -> Transaction] /\ TxsOK' /\ Apart'
      /\ (\A r \in DOMAIN request : Landed(r)' = Landed(r)) => RequestsOK'
  BY <1>1, <1>2, ResumeEnds
<1>4. \A r \in DOMAIN request : Landed(r)' = Landed(r)
  BY <1>1 DEF Landed
<1>5. LandingsOK' /\ LandedOnce'
  BY <1>1, <1>3, LandingsKept
<1> QED BY <1>1, <1>3, <1>4, <1>5 DEF IInv, TypeOK

LEMMA ResumeLandInv == ASSUME IInv, NEW s \in Sessions, ResumeLand(s) PROVE IInv'
<1> DEFINE t == tx[s]
<1>1. /\ t.step = "resumed" /\ t.ctl.reasons = {} /\ Finish(s) /\ UNCHANGED request
  BY DEF ResumeLand, Step
<1>2. t.batch \in Nat /\ t.ctl \in Controls
  BY <1>1, Resuming
<1>3. PICK st \in {"imported", "rejected"} :
         /\ ResumedTo(t.batch, st, t.ctl)
         /\ \/ Land(t.ctl) /\ Imported(t.batch, 0, None, t.ctl)
            \/ UNCHANGED <<asset, landing>>
  BY DEF ResumeLand, NothingLands
<1>4. PICK x \in Batch : /\ batch' = [batch EXCEPT ![tx[s].batch] = x]
                         /\ x.state = st /\ x.scanned = "again"
  BY <1>1, <1>3, ResumedIs
<1>5. /\ batch' \in Seq(Batch) /\ Keeps /\ t.batch \in DOMAIN batch'
      /\ batch'[t.batch].scanned = "again"
      /\ tx' \in [Sessions -> Transaction] /\ TxsOK' /\ Apart'
      /\ (\A r \in DOMAIN request : Landed(r)' = Landed(r)) => RequestsOK'
  BY <1>1, <1>4, ResumeEnds
<1>6. /\ landing' \in Seq(Landing) /\ LandingsOK' /\ LandedOnce'
      /\ \A r \in DOMAIN request : Landed(r)' = Landed(r)
      /\ asset' \in Row \cup {None}
  <2>1. CASE Land(t.ctl) /\ Imported(t.batch, 0, None, t.ctl)
    BY <1>1, <1>2, <1>5, <2>1, LandsByItself, LandTyped DEF IInv
  <2>2. CASE UNCHANGED <<asset, landing>>
    BY <1>5, <2>2, LandingsKept DEF IInv, TypeOK, Landed
  <2> QED BY <1>3, <2>1, <2>2
<1> QED BY <1>1, <1>5, <1>6 DEF IInv, TypeOK

-----------------------------------------------------------------------------
(* A decision is committed.                                                *)

\* What a session holds that is about to commit one.
LEMMA CommitHolds ==
    ASSUME IInv, NEW s \in Sessions, tx[s].step \in Committing
    PROVE  /\ tx[s].request \in DOMAIN request /\ request[tx[s].request] \in Request
           /\ tx[s].request \in Nat /\ tx[s].request # 0
           /\ tx[s].batch = request[tx[s].request].batch
           /\ tx[s].batch \in DOMAIN batch /\ batch[tx[s].batch] \in Batch /\ tx[s].batch \in Nat
           /\ tx[s].user \in Users /\ tx[s].user # request[tx[s].request].maker
           /\ request[tx[s].request].status = "pending"
           /\ Landed(tx[s].request) = {}
           /\ tx[s].step = "approve" => tx[s].ctl \in Controls
<1>1. /\ tx[s].request \in DOMAIN request /\ tx[s].batch = request[tx[s].request].batch
      /\ tx[s].user \in Users /\ tx[s].user # request[tx[s].request].maker
      /\ request[tx[s].request].status = "pending"
      /\ tx[s].step = "approve" => tx[s].ctl \in Controls
  BY DEF IInv, TxsOK, TxOK, Committing, Deciding
<1>2. tx[s].batch \in DOMAIN batch
  BY <1>1 DEF IInv, RequestsOK, RequestOK
<1>3. Landed(tx[s].request) = {}
  <2> SUFFICES ASSUME NEW i \in DOMAIN landing, landing[i].request = tx[s].request
               PROVE  FALSE
    BY DEF Landed
  <2>1. LandingOK(landing[i])
    BY DEF IInv, LandingsOK
  <2>2. tx[s].request # 0
    BY <1>1, RowsTyped DEF IInv
  <2> QED BY <1>1, <2>1, <2>2 DEF LandingOK
<1> QED BY <1>1, <1>2, <1>3, RowsTyped DEF IInv

\* What the commit does to the request and its batch.
LEMMA DecisionRows ==
    ASSUME IInv, NEW s \in Sessions, tx[s].step \in Committing,
           NEW w \in {"approved", "rejected"}, NEW st \in {"imported", "rejected"},
           Decided(tx[s], w, st), Finish(s)
    PROVE  /\ batch' \in Seq(Batch) /\ request' \in Seq(Request) /\ Keeps
           /\ DOMAIN request' = DOMAIN request /\ tx[s].batch \in DOMAIN batch'
           /\ \A r \in DOMAIN request : r # tx[s].request => request'[r] = request[r]
           /\ request'[tx[s].request].status = w
           /\ request'[tx[s].request].checker = tx[s].user
           /\ \A c \in DOMAIN batch : c # tx[s].batch => batch'[c] = batch[c]
           /\ batch'[tx[s].batch].state = st
           /\ tx' \in [Sessions -> Transaction] /\ TxsOK' /\ Apart'
<1> DEFINE q == tx[s].request
           b == tx[s].batch
           k == batch[b]
           x == [k EXCEPT !.state = st]
           e == Answered(request[q], w, tx[s].user)
<1>1. /\ q \in DOMAIN request /\ request[q] \in Request /\ request[q].batch = b
      /\ b \in DOMAIN batch /\ k \in Batch /\ tx[s].user \in Users
      /\ request[q].status = "pending"
  BY CommitHolds
<1>2. request' = [request EXCEPT ![q] = e] /\ batch' = [batch EXCEPT ![b] = x]
  BY DEF Decided, Answered
<1>3. x \in Batch /\ x.state = st /\ x.scanned = k.scanned
  <2>1. st \in States
    BY DEF States
  <2> QED BY <1>1, <2>1, DecidedRow
<1>4. /\ e \in Request /\ e.status = w /\ e.checker = tx[s].user
      /\ e.batch = request[q].batch /\ e.maker = request[q].maker /\ e.own = request[q].own
  BY <1>1, AnsweredRow
<1> HIDE DEF x, e
<1>5. /\ batch' \in Seq(Batch) /\ DOMAIN batch' = DOMAIN batch /\ batch'[b] = x
      /\ \A c \in DOMAIN batch : c # b => batch'[c] = batch[c]
  BY <1>1, <1>2, <1>3, OneBatch DEF IInv
<1>6. /\ request' \in Seq(Request) /\ DOMAIN request' = DOMAIN request /\ request'[q] = e
      /\ \A r \in DOMAIN request : r # q => request'[r] = request[r]
  BY <1>1, <1>2, <1>4, OneRequest DEF IInv
<1>7. Keeps
  <2>1. \A c \in DOMAIN batch : BatchKeeps(c)
    BY <1>3, <1>5 DEF BatchKeeps
  <2>2. \A r \in DOMAIN request : RequestKeeps(r)
    BY <1>1, <1>4, <1>6 DEF RequestKeeps
  <2> QED BY <1>6, <2>1, <2>2 DEF Keeps
<1>8. tx' \in [Sessions -> Transaction] /\ TxsOK' /\ Apart'
  <2>1. ASSUME NEW o \in Sessions, o # s, tx[o].step \in Committing
        PROVE  request'[tx[o].request].status = "pending"
    <3>1. tx[o].request # q
      BY <2>1 DEF IInv, Apart
    <3>2. tx[o].request \in DOMAIN request /\ request[tx[o].request].status = "pending"
      BY <2>1, CommitHolds
    <3> QED BY <1>6, <3>1, <3>2
  <2> QED BY <1>7, <2>1, Done
<1> QED BY <1>1, <1>3, <1>4, <1>5, <1>6, <1>7, <1>8

\* The commit of decision w of request q for batch b, which it leaves in state st.
Commit(q, b, w, st) ==
    /\ DOMAIN request' = DOMAIN request
    /\ \A r \in DOMAIN request : r # q => request'[r] = request[r] /\ Landed(r)' = Landed(r)
    /\ request'[q].status = w
    /\ \A c \in DOMAIN batch : c # b => batch'[c] = batch[c]
    /\ batch'[b].state = st
    /\ w = "rejected" => st = "rejected"
    /\ w = "approved" => (st = "imported" <=> Landed(q)' # {})

\* After it every request is still in order.
LEMMA DecisionOK ==
    ASSUME IInv, NEW s \in Sessions, tx[s].step \in Committing, Keeps,
           NEW q, q = tx[s].request, NEW b, b = tx[s].batch,
           NEW w \in {"approved", "rejected"}, NEW st \in {"imported", "rejected"},
           Commit(q, b, w, st)
    PROVE  RequestsOK'
<1>1. q \in DOMAIN request /\ request[q].batch = b /\ b \in DOMAIN batch
  BY CommitHolds
<1>2. request'[q].batch = b /\ b \in DOMAIN batch'
  BY <1>1 DEF Keeps, RequestKeeps, BatchKeeps
<1>3. RequestOK(q)'
  <2>1. Answer(q)' = st
    BY DEF Answer, Commit
  <2> QED BY <1>2, <2>1 DEF RequestOK, Commit
<1>4. ASSUME NEW r \in DOMAIN request, r # q PROVE RequestOK(r)'
  <2>1. Alone(r) => request[r].batch # b
    BY <1>1, <1>4 DEF Alone
  <2>2. request[r].batch \in DOMAIN batch
    BY DEF IInv, RequestsOK, RequestOK
  <2>3. Alone(r) => batch'[request[r].batch].state = batch[request[r].batch].state
    BY <2>1, <2>2 DEF Commit
  <2> QED BY <1>4, <2>3, RequestKept DEF Commit
<1> QED BY <1>3, <1>4 DEF RequestsOK, Commit

LEMMA DecideRejectInv ==
    ASSUME IInv, NEW s \in Sessions, DecideReject(s),
           NEW q, q = tx[s].request, NEW b, b = tx[s].batch
    PROVE  IInv'
<1>1. /\ tx[s].step \in Committing /\ Decided(tx[s], "rejected", "rejected")
      /\ Finish(s) /\ UNCHANGED <<asset, landing>>
  BY DEF DecideReject, Step, Committing
<1>2. /\ batch' \in Seq(Batch) /\ request' \in Seq(Request) /\ Keeps
      /\ DOMAIN request' = DOMAIN request
      /\ \A r \in DOMAIN request : r # q => request'[r] = request[r]
      /\ request'[q].status = "rejected"
      /\ \A c \in DOMAIN batch : c # b => batch'[c] = batch[c]
      /\ batch'[b].state = "rejected"
      /\ tx' \in [Sessions -> Transaction] /\ TxsOK' /\ Apart'
  BY <1>1, DecisionRows
<1>3. \A r \in DOMAIN request : Landed(r)' = Landed(r)
  BY <1>1 DEF Landed
<1>4. RequestsOK'
  <2>1. Commit(q, b, "rejected", "rejected")
    BY <1>2, <1>3 DEF Commit
  <2> QED BY <1>1, <1>2, <2>1, DecisionOK
<1>5. LandingsOK' /\ LandedOnce'
  BY <1>1, <1>2, LandingsKept
<1> QED BY <1>1, <1>2, <1>4, <1>5 DEF IInv, TypeOK

\* The rows land under the name of the checker, who is not who asked.
LEMMA LandsApproved ==
    ASSUME IInv, NEW s \in Sessions, tx[s].step = "approve", Keeps,
           NEW q, q = tx[s].request,
           tx[s].batch \in DOMAIN batch', request'[q].status = "approved",
           request'[q].checker = tx[s].user,
           Imported(tx[s].batch, tx[s].request, tx[s].user, tx[s].ctl)
    PROVE  /\ landing' \in Seq(Landing) /\ LandingsOK' /\ LandedOnce'
           /\ \A r \in DOMAIN request : r # q => Landed(r)' = Landed(r)
           /\ Landed(q)' # {}
<1> DEFINE t == tx[s]
           x == [batch |-> t.batch, request |-> q, by |-> t.user, reasons |-> t.ctl.reasons]
<1>1. /\ q \in DOMAIN request /\ q \in Nat /\ q # 0
      /\ t.batch = request[q].batch /\ t.batch \in Nat
      /\ t.user \in Users /\ t.user # request[q].maker /\ t.ctl \in Controls
      /\ Landed(q) = {}
  BY CommitHolds DEF Committing
<1>2. x \in Landing /\ x.batch = t.batch /\ x.request = q /\ x.by = t.user
  BY <1>1 DEF Landing, Controls
<1>3. PICK l \in Landing : /\ landing' = Append(landing, l)
                           /\ l.batch = t.batch /\ l.request = q /\ l.by = t.user
  BY <1>2 DEF Imported
<1>4. LandingOK(l)'
  <2>1. /\ q \in DOMAIN request'
        /\ request'[q].batch = t.batch
        /\ request'[q].maker = request[q].maker
    BY <1>1 DEF Keeps, RequestKeeps
  <2>2. t.user # None
    BY <1>1, FilesAssumption
  <2> QED BY <1>1, <1>3, <2>1, <2>2 DEF LandingOK
<1>5. \A i \in DOMAIN landing : landing[i].request # l.request
  BY <1>1, <1>3 DEF Landed
<1>6. /\ landing' \in Seq(Landing) /\ LandingsOK' /\ LandedOnce'
      /\ \A r : r # l.request => Landed(r)' = Landed(r)
      /\ Landed(l.request)' # {}
  BY <1>3, <1>4, <1>5, LandingAdded
<1> QED BY <1>3, <1>6

LEMMA DecideLandInv ==
    ASSUME IInv, NEW s \in Sessions, DecideLand(s),
           NEW q, q = tx[s].request, NEW b, b = tx[s].batch
    PROVE  IInv'
<1> DEFINE t == tx[s]
<1>1. t.step = "approve" /\ t.step \in Committing /\ t.ctl \in Controls /\ Finish(s)
  BY CommitHolds DEF DecideLand, Step, Committing
<1>2. PICK st \in {"imported", "rejected"} :
         /\ Decided(t, "approved", st)
         /\ \/ st = "imported" /\ Land(t.ctl) /\ Imported(t.batch, q, t.user, t.ctl)
            \/ st = "rejected" /\ UNCHANGED <<asset, landing>>
  BY DEF DecideLand, NothingLands
<1>3. /\ batch' \in Seq(Batch) /\ request' \in Seq(Request) /\ Keeps
      /\ DOMAIN request' = DOMAIN request /\ t.batch \in DOMAIN batch'
      /\ \A r \in DOMAIN request : r # q => request'[r] = request[r]
      /\ request'[q].status = "approved" /\ request'[q].checker = t.user
      /\ \A c \in DOMAIN batch : c # t.batch => batch'[c] = batch[c]
      /\ batch'[t.batch].state = st
      /\ tx' \in [Sessions -> Transaction] /\ TxsOK' /\ Apart'
  BY <1>1, <1>2, DecisionRows
<1>4. /\ landing' \in Seq(Landing) /\ LandingsOK' /\ LandedOnce'
      /\ \A r \in DOMAIN request : r # q => Landed(r)' = Landed(r)
      /\ st = "imported" <=> Landed(q)' # {}
      /\ asset' \in Row \cup {None}
  <2>1. CASE st = "imported" /\ Land(t.ctl) /\ Imported(t.batch, q, t.user, t.ctl)
    BY <1>1, <1>3, <2>1, LandsApproved, LandTyped DEF IInv
  <2>2. CASE st = "rejected" /\ UNCHANGED <<asset, landing>>
    <3>1. Landed(q) = {}
      BY <1>1, CommitHolds
    <3>2. LandingsOK' /\ LandedOnce'
      BY <1>3, <2>2, LandingsKept
    <3> QED BY <2>2, <3>1, <3>2 DEF IInv, TypeOK, Landed
  <2> QED BY <1>2, <2>1, <2>2
<1>5. RequestsOK'
  <2>1. Commit(q, b, "approved", st)
    BY <1>3, <1>4 DEF Commit
  <2> QED BY <1>1, <1>3, <2>1, DecisionOK
<1> QED BY <1>3, <1>4, <1>5 DEF IInv, TypeOK

-----------------------------------------------------------------------------
(* The invariant.                                                          *)

LEMMA InitInv == Init => IInv
<1> SUFFICES ASSUME Init PROVE IInv
  OBVIOUS
<1>1. \A s \in Sessions : tx[s].step = "idle"
  BY DEF Init, Idle
<1>2. TypeOK
  BY IdleTyped DEF Init, TypeOK
<1>3. DOMAIN batch = {} /\ DOMAIN request = {} /\ DOMAIN landing = {}
  BY DEF Init
<1>4. TxsOK /\ Apart
  BY <1>1 DEF TxsOK, TxOK, Apart, Deciding, Committing
<1> QED BY <1>2, <1>3, <1>4 DEF IInv, RequestsOK, LandingsOK, LandedOnce

LEMMA NextInv == IInv /\ [Next]_vars => IInv'
<1> SUFFICES ASSUME IInv, [Next]_vars PROVE IInv'
  OBVIOUS
<1>1. CASE UNCHANGED vars
  <2>1. UNCHANGED <<asset, batch, request, landing, tx>>
    BY <1>1 DEF vars
  <2>2. TypeOK' /\ TxsOK' /\ Apart'
    BY <2>1 DEF IInv, TypeOK, TxsOK, TxOK, Apart
  <2>3. RequestsOK'
    <3>1. \A r : RequestOK(r)' = RequestOK(r)
      BY <2>1 DEF RequestOK, Alone, Answer, Landed
    <3> QED BY <2>1, <3>1 DEF IInv, RequestsOK
  <2>4. LandingsOK' /\ LandedOnce'
    BY <2>1 DEF IInv, LandingsOK, LandingOK, LandedOnce
  <2> QED BY <2>2, <2>3, <2>4 DEF IInv
<1>2. ASSUME NEW s \in Sessions, NEW u \in Users, NEW f \in Files, NEW scan \in Scans,
             SubmitCheck(s, u, f, scan)
      PROVE  IInv'
  BY <1>2, SubmitCheckInv
<1>3. ASSUME NEW s \in Sessions, NEW u \in Users, NEW r \in DOMAIN request,
             NEW d \in {"approved", "rejected"}, DecideRead(s, u, r, d)
      PROVE  IInv'
  BY <1>3, DecideReadInv
<1>4. ASSUME NEW s \in Sessions, NEW b \in DOMAIN batch, ResumeRead(s, b) PROVE IInv'
  BY <1>4, ResumeReadInv
<1>5. ASSUME NEW u \in Users, NEW b \in DOMAIN batch, RaiseRequest(u, b) PROVE IInv'
  BY <1>5, RaiseRequestInv
<1>6. ASSUME NEW s \in Sessions,
             \/ SubmitStop(s) \/ SubmitLand(s) \/ DecideRefuse(s) \/ DecideReject(s)
             \/ DecideCheck(s) \/ DecideLand(s) \/ ResumeInfected(s) \/ ResumeCheck(s)
             \/ ResumeStop(s) \/ ResumeLand(s) \/ Rollback(s)
      PROVE  IInv'
  BY <1>6, SubmitStopInv, SubmitLandInv, DecideRefuseInv, DecideRejectInv, DecideCheckInv,
     DecideLandInv, ResumeInfectedInv, ResumeCheckInv, ResumeStopInv, ResumeLandInv, RollbackInv
<1> QED BY <1>1, <1>2, <1>3, <1>4, <1>5, <1>6 DEF Next

LEMMA AlwaysInv == Spec => []IInv
BY InitInv, NextInv, PTL DEF Spec

\* Every row of the pipeline holds values its columns allow.
THEOREM TypeCorrect == Spec => []TypeOK
<1>1. IInv => TypeOK
  BY DEF IInv
<1> QED BY <1>1, AlwaysInv, PTL

\* However many people send, ask, decide and resume at once: what fails a check lands
\* only when one person has asked for it and another has approved it.
THEOREM SecondPerson == Spec => []FailedNeedsSecond
<1>1. IInv => FailedNeedsSecond
  BY DEF IInv, LandingsOK, LandingOK, FailedNeedsSecond
<1> QED BY <1>1, AlwaysInv, PTL

\* A batch and the only request for it always say the same, although they are two rows
\* that different sessions read and write; and no refused request has landed anything,
\* however many there are.
THEOREM OneDecision == Spec => []RequestAndBatchAgree
<1>1. ASSUME IInv, NEW r \in DOMAIN request, request[r].status # "approved"
      PROVE  Landed(r) = {}
  <2> SUFFICES ASSUME NEW i \in DOMAIN landing, landing[i].request = r PROVE FALSE
    BY DEF Landed
  <2>1. LandingOK(landing[i]) /\ r # 0
    BY <1>1, RowsTyped DEF IInv, LandingsOK
  <2> QED BY <1>1, <2>1 DEF LandingOK
<1>2. IInv => RequestAndBatchAgree
  BY <1>1 DEF IInv, RequestsOK, RequestOK, RequestAndBatchAgree
<1> QED BY <1>2, AlwaysInv, PTL

\* No request lands a batch twice, and nothing lands by itself twice unless it was held.
THEOREM LandsOnce == Spec => []LandedOnce
<1>1. IInv => LandedOnce
  BY DEF IInv
<1> QED BY <1>1, AlwaysInv, PTL

=============================================================================
