---------------------------- MODULE IntakeBatches ----------------------------
(***************************************************************************)
(* The customer data pipeline: services/intake/pipeline.py (submit,        *)
(* decide, resume_held, _land), what it checks and lands (staging.py,      *)
(* matching.py, services/ingest/batch_controls.py), and the intake.batch   *)
(* requests of api/routers/approvals.py, which anybody may raise for any   *)
(* batch and which are decided one by one.                                 *)
(*                                                                         *)
(* Every file is about one asset with the customer's own id.  A check and  *)
(* the landing that relies on it are statements of one transaction under   *)
(* READ COMMITTED, so other transactions commit between them.  A file      *)
(* refused by the security inspection or with no usable row ends like an   *)
(* infected one; uploads and the drop folder differ in nothing kept here.  *)
(***************************************************************************)
EXTENDS Naturals, Sequences, FiniteSets

CONSTANTS
    Files,       \* contents the customer may send, each any number of times
    Fields,      \* facts about the asset
    Amount,      \* the one whose change is a large change
    Values,
    Gives,       \* what each file says of each field, None where it is blank
    Faulty,      \* files with a row or a total that fails a check of its own
    Warned,      \* files the security inspection lets pass with a warning
    Users,
    Sessions,
    MaxBatches,  \* bound on the files sent
    MaxRaised,   \* bound on the requests raised by hand
    None

ASSUME FilesAssumption ==
    /\ Amount \in Fields
    /\ Gives \in [Files -> [Fields -> Values \cup {None}]]
    /\ Faulty \subseteq Files /\ Warned \subseteq Files
    /\ MaxBatches \in Nat /\ MaxRaised \in Nat
    /\ None \notin Users \cup Values

VARIABLES
    asset,    \* the book's row: its fields, or None
    batch,    \* ingest_batches, in order
    request,  \* approval_requests of type intake.batch, in order
    landing,  \* every landing that was committed: its batch, checks, request and checker
    tx        \* what each session has read and checked

vars == <<asset, batch, request, landing, tx>>

States == {"held", "checked", "awaiting_approval", "imported", "rejected"}
Reasons == {"rows", "duplicate", "large_change", "security"}
Matches == {"new", "update", "unchanged"}
Scans == {"clean", "infected", "unreachable"}

Row == [Fields -> Values \cup {None}]

Controls == [reasons : SUBSET Reasons, match : Matches, row : Row]

Batch ==
    [file : Files, state : States, reasons : SUBSET Reasons, match : Matches \cup {None},
     scanned : {"once", "again"}]

\* own: the request its batch points at, which submit inserted.
Request ==
    [batch : Nat, maker : Users, own : BOOLEAN,
     status : {"pending", "approved", "rejected"}, checker : Users \cup {None}]

-----------------------------------------------------------------------------
(* The checks of a file against what is committed.                         *)

\* _prior_import, leaving out the batch itself.
Duplicate(f, b) ==
    \E c \in DOMAIN batch \ {b} : batch[c].file = f /\ batch[c].state = "imported"

\* A blank is no statement; the merged row keeps what the book has there.
Merged(f) ==
    [x \in Fields |-> IF Gives[f][x] # None \/ asset = None THEN Gives[f][x] ELSE asset[x]]

LargeChange(f) ==
    asset # None /\ None \notin {asset[Amount], Gives[f][Amount]}
        /\ asset[Amount] # Gives[f][Amount]

Match(f) == IF asset = None THEN "new"
            ELSE IF Merged(f) = asset THEN "unchanged" ELSE "update"

\* _run_controls: the gate's reasons, the match with the book and the staged row.
Checked(f, b) ==
    [reasons |-> {r \in Reasons : \/ r = "rows" /\ f \in Faulty
                                  \/ r = "duplicate" /\ Duplicate(f, b)
                                  \/ r = "large_change" /\ LargeChange(f)},
     match |-> Match(f), row |-> Merged(f)]

\* _security_warned: a warning is one more reason for sign-off.
WithWarning(c, f) ==
    [c EXCEPT !.reasons = IF f \in Warned THEN @ \cup {"security"} ELSE @]

-----------------------------------------------------------------------------
Idle == [step |-> "idle", user |-> None, batch |-> 0, request |-> 0, file |-> None,
         ctl |-> None, answer |-> None]

Step(s, st) == tx[s].step = st
Goto(s, t) == tx' = [tx EXCEPT ![s] = t]
Finish(s) == Goto(s, Idle)

\* staging.land: a new asset's id is unique; an update writes the whole merged row.
CanLand(c) == c.match = "new" => asset = None
Land(c) == asset' = IF c.match = "unchanged" THEN asset ELSE c.row

\* _land: the batch b was approved by u through request r, 0 if nobody was asked.
Imported(b, r, u, c) ==
    landing' = Append(landing, [batch |-> b, request |-> r, by |-> u, reasons |-> c.reasons])

\* _land: the sector's rules may leave every new row out; then the batch is refused.
NothingLands(c) == c.match = "new" /\ UNCHANGED <<asset, landing>>

InFlight == Cardinality({s \in Sessions : Step(s, "submit")})

Init ==
    /\ asset = None
    /\ batch = <<>>
    /\ request = <<>>
    /\ landing = <<>>
    /\ tx = [s \in Sessions |-> Idle]

\* submit: the scan and the checks, all before anything is written.
SubmitCheck(s, u, f, scan) ==
    /\ Step(s, "idle") /\ Len(batch) + InFlight < MaxBatches
    /\ Goto(s, [Idle EXCEPT !.step = "submit", !.user = u, !.file = f, !.answer = scan,
                            !.ctl = WithWarning(Checked(f, 0), f)])
    /\ UNCHANGED <<asset, batch, request, landing>>

\* The row of a batch as submit writes it.
Received(t, state) ==
    [file |-> t.file, state |-> state,
     reasons |-> IF t.answer = "clean" THEN t.ctl.reasons ELSE {},
     match |-> IF t.answer = "clean" THEN t.ctl.match ELSE None,
     scanned |-> "once"]

\* INSERT INTO approval_requests.
Ask(b, u, own) ==
    request' = Append(request, [batch |-> b, maker |-> u, own |-> own,
                                status |-> "pending", checker |-> None])

\* The scanner's word is written instead of the state it leads to.
SubmitStopFault(s) ==
    LET t == tx[s] IN
    /\ Step(s, "submit")
    /\ \/ /\ t.answer # "clean"
          /\ batch' = Append(batch, Received(t, t.answer)) /\ UNCHANGED request
       \/ /\ t.answer = "clean" /\ t.ctl.reasons # {}
          /\ batch' = Append(batch, Received(t, "awaiting_approval"))
          /\ Ask(Len(batch) + 1, t.user, TRUE)
    /\ Finish(s)
    /\ UNCHANGED <<asset, landing>>

\* The file is infected, or cannot be scanned, or fails a check.
SubmitStop(s) ==
    LET t == tx[s] IN
    /\ Step(s, "submit")
    /\ \/ /\ t.answer = "infected"
          /\ batch' = Append(batch, Received(t, "rejected")) /\ UNCHANGED request
       \/ /\ t.answer = "unreachable"
          /\ batch' = Append(batch, Received(t, "held")) /\ UNCHANGED request
       \/ /\ t.answer = "clean" /\ t.ctl.reasons # {}
          /\ batch' = Append(batch, Received(t, "awaiting_approval"))
          /\ Ask(Len(batch) + 1, t.user, TRUE)
    /\ Finish(s)
    /\ UNCHANGED <<asset, landing>>

\* Every check passed: it lands by itself, if anything does.
SubmitLand(s) ==
    LET t == tx[s] IN
    /\ Step(s, "submit")
    /\ t.answer = "clean" /\ t.ctl.reasons = {}
    /\ \/ /\ CanLand(t.ctl) /\ Land(t.ctl)
          /\ batch' = Append(batch, Received(t, "imported"))
          /\ Imported(Len(batch) + 1, 0, None, t.ctl)
       \/ /\ NothingLands(t.ctl)
          /\ batch' = Append(batch, Received(t, "rejected"))
    /\ Finish(s)
    /\ UNCHANGED request

\* A refusal, a unique index that says no or a lost connection.
Rollback(s) ==
    /\ ~Step(s, "idle")
    /\ Finish(s)
    /\ UNCHANGED <<asset, batch, request, landing>>

-----------------------------------------------------------------------------
\* create_approval: any user asks for any batch, whatever became of it.
RaiseRequest(u, b) ==
    /\ Cardinality({r \in DOMAIN request : ~request[r].own}) < MaxRaised
    /\ Ask(b, u, FALSE)
    /\ UNCHANGED <<asset, batch, landing, tx>>

\* The router does not ask who made the request.
MayDecideFault(u, r) == request[r].status = "pending"

\* The router: the request is pending, and the checker is not its maker.  Nobody asks
\* who sent the batch, or whether it points at this request.
MayDecide(u, r) == request[r].status = "pending" /\ request[r].maker # u

DecideRead(s, u, r, d) ==
    /\ Step(s, "idle")
    /\ MayDecide(u, r)
    /\ Goto(s, [Idle EXCEPT !.step = "decide", !.user = u, !.request = r,
                            !.batch = request[r].batch, !.answer = d])
    /\ UNCHANGED <<asset, batch, request, landing>>

\* The batch is not looked at again.
StillAwaitingFault(b) == TRUE

\* decide: the batch awaits approval when the request's turn has come.
StillAwaiting(b) == batch[b].state = "awaiting_approval"

\* The UPDATE of the request makes its decisions wait for each other; those of two
\* requests for one batch do not.
MyTurn(s) ==
    /\ \A o \in Sessions \ {s} :
          ~(tx[o].step \in {"approve", "refuse"} /\ tx[o].request = tx[s].request)
    /\ StillAwaiting(tx[s].batch)

DecideRefuse(s) ==
    /\ Step(s, "decide") /\ tx[s].answer = "rejected"
    /\ MyTurn(s)
    /\ Goto(s, [tx[s] EXCEPT !.step = "refuse"])
    /\ UNCHANGED <<asset, batch, request, landing>>

\* Approved: every check runs again, and must say what it said.
DecideCheck(s) ==
    LET t == tx[s]
        c == WithWarning(Checked(batch[t.batch].file, t.batch), batch[t.batch].file) IN
    /\ Step(s, "decide") /\ t.answer = "approved"
    /\ MyTurn(s)
    /\ c.reasons = batch[t.batch].reasons /\ c.match = batch[t.batch].match
    /\ Goto(s, [t EXCEPT !.step = "approve", !.ctl = c])
    /\ UNCHANGED <<asset, batch, request, landing>>

\* The commit: the batch by its id, whatever it says by now.
Decided(t, status, state) ==
    /\ request' = [request EXCEPT ![t.request] = [@ EXCEPT !.status = status, !.checker = t.user]]
    /\ batch' = [batch EXCEPT ![t.batch] = [@ EXCEPT !.state = state]]

DecideReject(s) ==
    /\ Step(s, "refuse")
    /\ Decided(tx[s], "rejected", "rejected")
    /\ Finish(s)
    /\ UNCHANGED <<asset, landing>>

DecideLand(s) ==
    LET t == tx[s] IN
    /\ Step(s, "approve")
    /\ \/ /\ CanLand(t.ctl) /\ Land(t.ctl)
          /\ Imported(t.batch, t.request, t.user, t.ctl)
          /\ Decided(t, "approved", "imported")
       \/ NothingLands(t.ctl) /\ Decided(t, "approved", "rejected")
    /\ Finish(s)

-----------------------------------------------------------------------------
\* resume_held: the batch is held when the person asks for another scan.
ResumeRead(s, b) ==
    /\ Step(s, "idle") /\ b \in DOMAIN batch
    /\ batch[b].state = "held"
    /\ Goto(s, [Idle EXCEPT !.step = "resume", !.batch = b])
    /\ UNCHANGED <<asset, batch, request, landing>>

\* The UPDATE of the file's scan makes resumes of one file wait for each other; the
\* batch is not read again.
FileIsMine(s, f) ==
    \A r \in Sessions \ {s} : ~(Step(r, "resumed") /\ batch[tx[r].batch].file = f)

ResumeInfected(s) ==
    LET t == tx[s] IN
    /\ Step(s, "resume") /\ FileIsMine(s, batch[t.batch].file)
    /\ batch' = [batch EXCEPT ![t.batch] = [@ EXCEPT !.state = "rejected", !.scanned = "again"]]
    /\ Finish(s)
    /\ UNCHANGED <<asset, request, landing>>

\* Clean: the checks run, those of the stored bytes.
ResumeCheck(s) ==
    LET t == tx[s]
        f == batch[t.batch].file IN
    /\ Step(s, "resume") /\ FileIsMine(s, f)
    /\ Goto(s, [t EXCEPT !.step = "resumed", !.ctl = Checked(f, t.batch)])
    /\ UNCHANGED <<asset, batch, request, landing>>

ResumedTo(b, state, c) ==
    batch' = [batch EXCEPT ![b] = [@ EXCEPT !.state = state, !.scanned = "again",
                                            !.reasons = c.reasons, !.match = c.match]]

\* A check failed: the batch stays checked, to be sent again.
ResumeStop(s) ==
    LET t == tx[s] IN
    /\ Step(s, "resumed") /\ t.ctl.reasons # {}
    /\ ResumedTo(t.batch, "checked", t.ctl)
    /\ Finish(s)
    /\ UNCHANGED <<asset, request, landing>>

ResumeLand(s) ==
    LET t == tx[s] IN
    /\ Step(s, "resumed") /\ t.ctl.reasons = {}
    /\ \/ /\ CanLand(t.ctl) /\ Land(t.ctl)
          /\ ResumedTo(t.batch, "imported", t.ctl)
          /\ Imported(t.batch, 0, None, t.ctl)
       \/ NothingLands(t.ctl) /\ ResumedTo(t.batch, "rejected", t.ctl)
    /\ Finish(s)
    /\ UNCHANGED request

Next ==
    \/ \E u \in Users, b \in DOMAIN batch : RaiseRequest(u, b)
    \/ \E s \in Sessions :
        \/ \E u \in Users, f \in Files, scan \in Scans : SubmitCheck(s, u, f, scan)
        \/ SubmitStop(s) \/ SubmitLand(s)
        \/ \E u \in Users, r \in DOMAIN request, d \in {"approved", "rejected"} :
             DecideRead(s, u, r, d)
        \/ DecideRefuse(s) \/ DecideReject(s) \/ DecideCheck(s) \/ DecideLand(s)
        \/ \E b \in DOMAIN batch : ResumeRead(s, b)
        \/ ResumeInfected(s) \/ ResumeCheck(s) \/ ResumeStop(s) \/ ResumeLand(s)
        \/ Rollback(s)

Spec == Init /\ [][Next]_vars

-----------------------------------------------------------------------------
(* Properties.                                                             *)

Transaction ==
    [step : {"idle", "submit", "decide", "approve", "refuse", "resume", "resumed"},
     user : Users \cup {None}, batch : Nat, request : Nat, file : Files \cup {None},
     ctl : Controls \cup {None}, answer : Scans \cup {"approved", "rejected", None}]

Landing == [batch : Nat, request : Nat, by : Users \cup {None}, reasons : SUBSET Reasons]

\* Every row holds values its columns allow.
TypeOK ==
    /\ asset \in Row \cup {None}
    /\ batch \in Seq(Batch)
    /\ request \in Seq(Request)
    /\ landing \in Seq(Landing)
    /\ tx \in [Sessions -> Transaction]

\* "Any failed check needs a second person": whatever overlaps and whoever asks, what
\* lands with a failed check was asked for by one person and approved by another, under
\* whose name it lands.  The sender may be that other person when somebody else has
\* asked for his batch too.  (A file that was held is checked again without the
\* inspection's warnings, so these are no failed checks of its landing.)
FailedNeedsSecond ==
    \A i \in DOMAIN landing :
        landing[i].reasons # {} =>
            \E r \in DOMAIN request :
                /\ r = landing[i].request /\ request[r].batch = landing[i].batch
                /\ request[r].status = "approved"
                /\ request[r].checker = landing[i].by
                /\ landing[i].by \notin {None, request[r].maker}

\* What landed through a request.
Landed(r) == {i \in DOMAIN landing : landing[i].request = r}

\* No other request names the batch of r.
Alone(r) == \A q \in DOMAIN request : request[q].batch = request[r].batch => q = r

\* What has become of a batch whose only request is r.
Answer(r) ==
    CASE request[r].status = "pending"  -> "awaiting_approval"
      [] request[r].status = "rejected" -> "rejected"
      [] request[r].status = "approved" -> IF Landed(r) = {} THEN "rejected" ELSE "imported"

\* A batch and its request are decided together: no overlapping decision leaves a
\* refused request with its rows on the book, a decided one whose batch still waits, or
\* an approved one of which nothing is known.  With a second request raised by hand only
\* the first two hold: an approval and a refusal may then overtake each other.
RequestAndBatchAgree ==
    \A r \in DOMAIN request :
        /\ request[r].status # "approved" => Landed(r) = {}
        /\ request[r].status # "pending" => batch[request[r].batch].state # "awaiting_approval"
        /\ request[r].own /\ Alone(r) => batch[request[r].batch].state = Answer(r)

\* A batch lands once, unless it was held and two people resumed it at once, or two of
\* its requests were approved at once; no request lands it twice.
LandedOnce ==
    \A i, j \in DOMAIN landing :
        landing[i].batch = landing[j].batch /\ i # j =>
            \/ batch[landing[i].batch].scanned = "again"
            \/ landing[i].request # landing[j].request

-----------------------------------------------------------------------------
(* What the documentation says and the code does not do; it is violated.   *)

\* matching.py: "a blank value in the file never clears a value we already hold; only
\* values the file gives can change a fact".
OnlyGivenValuesChange ==
    [][asset # None /\ Len(landing') > Len(landing) =>
         LET f == batch'[landing'[Len(landing')].batch].file IN
         \A x \in Fields : asset'[x] # asset[x] => asset'[x] = Gives[f][x]]_vars

=============================================================================
