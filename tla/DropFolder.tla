------------------------------ MODULE DropFolder ------------------------------
(***************************************************************************)
(* The pick-up of a client's drop folder: services/intake/dropfolder.py    *)
(* (sweep_channel, _take, sweep_all), the inbox it moves files in          *)
(* (inbox.py), the two ways a sweep starts (the beat and "pick up now" in  *)
(* api/routers/intake_batches.py) and the pool its sessions take their     *)
(* connections from (core/db/session.py).                                  *)
(*                                                                         *)
(* One folder.  A sweep holds it by a Postgres advisory lock, which        *)
(* belongs to a connection and not to a session: a session gives its       *)
(* connection back at every commit, and the pool hands out the one that    *)
(* has been idle longest.  What submit makes of a file is left open.       *)
(***************************************************************************)
EXTENDS Naturals, Sequences, FiniteSets, Functions

CONSTANTS
    Names,       \* names the client's system uses for its files
    Processes,   \* API and worker processes
    Sweepers,    \* threads that sweep the folder
    ProcessOf,   \* the process a sweeper runs in
    PoolOf,      \* the idle connections of a process once it is warm
    Others,      \* processes that do other work on the same pool
    MaxDrops,    \* bound on the files the client writes
    MaxFaults,   \* bound on processes that die and moves that fail
    MaxDepth,    \* bound on how often a connection takes a lock it has
    None

Connections == UNION {Range(PoolOf[p]) : p \in Processes}

ASSUME PoolAssumption ==
    /\ ProcessOf \in [Sweepers -> Processes]
    /\ PoolOf \in [Processes -> Seq(Connections)] /\ Others \subseteq Processes
    /\ \A p \in Processes : IsInjective(PoolOf[p])
    /\ \A p, q \in Processes : p # q => Range(PoolOf[p]) \cap Range(PoolOf[q]) = {}
    /\ MaxDrops \in Nat /\ MaxFaults \in Nat /\ MaxDepth \in Nat
    /\ None \notin Names \cup Sweepers \cup Connections

VARIABLES
    incoming,   \* the file under each name: which of the client's files it is, 0 none
    drops,      \* files written so far; they are numbered
    filed,      \* files moved out of incoming
    ledger,     \* how often each file has been committed as a batch
    refused,    \* files turned away before they became a batch, told the client why
    cut,        \* how often each was committed and then not moved
    raced,      \* files written over one that a sweep had in hand
    faults,
    pool,       \* each process's idle connections, the longest idle first
    lock,       \* the connection that holds the folder, and how many times
    sweep       \* what each sweeper is doing

folder == <<incoming, drops, filed, raced>>
book == <<ledger, refused, cut>>
vars == <<folder, book, faults, pool, lock, sweep>>

Free == [by |-> None, depth |-> 0]
Idle == [step |-> "idle", guard |-> None, todo |-> {}, name |-> None, file |-> 0,
         session |-> None, dest |-> None]

Step(s, st) == sweep[s].step = st
Become(s, r) == sweep' = [sweep EXCEPT ![s] = r]

\* The pool of core/db/session.py: first in, first out.
Rotated(q) == Append(Tail(q), Head(q))

Init ==
    /\ incoming = [n \in Names |-> 0] /\ drops = 0 /\ filed = {} /\ raced = {}
    /\ ledger = [f \in 1 .. MaxDrops |-> 0] /\ refused = {}
    /\ cut = [f \in 1 .. MaxDrops |-> 0]
    /\ faults = 0
    /\ pool = PoolOf
    /\ lock = Free
    /\ sweep = [s \in Sweepers |-> Idle]

InHand(n) == {s \in Sweepers : sweep[s].step \in {"submit", "file"} /\ sweep[s].name = n}

\* A file under this name has stopped changing; it may replace an earlier one.
Drop(n) ==
    /\ drops < MaxDrops
    /\ drops' = drops + 1
    /\ incoming' = [incoming EXCEPT ![n] = drops + 1]
    /\ raced' = IF InHand(n) # {} THEN raced \cup {drops + 1} ELSE raced
    /\ UNCHANGED <<filed, book, faults, pool, lock, sweep>>

\* Some other work of the process uses a connection and gives it back.
OtherWork(p) ==
    /\ p \in Others /\ Len(pool[p]) > 1
    /\ pool' = [pool EXCEPT ![p] = Rotated(@)]
    /\ UNCHANGED <<folder, book, faults, lock, sweep>>

-----------------------------------------------------------------------------
\* The channel is read with one connection, the guard session takes the next.
Guard(s) == Head(Rotated(pool[ProcessOf[s]]))
Connected(s) == pool[ProcessOf[s]] # <<>>

\* The lock is granted whoever holds it.
MayHoldFault(c) == TRUE

\* pg_try_advisory_lock: nobody has it, or this very connection has it already.
MayHold(c) == lock.by \in {None, c}

\* A sweep gets the folder and lists what is there.
Enter(s) ==
    /\ Step(s, "idle") /\ Connected(s)
    /\ MayHold(Guard(s)) /\ lock.depth < MaxDepth
    /\ lock' = [by |-> Guard(s), depth |-> lock.depth + 1]
    /\ pool' = [pool EXCEPT ![ProcessOf[s]] = Tail(Rotated(@))]
    /\ Become(s, [Idle EXCEPT !.step = "loop", !.guard = Guard(s),
                              !.todo = {n \in Names : incoming[n] # 0}])
    /\ UNCHANGED <<folder, book, faults>>

\* The folder is taken: the sweep does nothing.
Busy(s) ==
    /\ Step(s, "idle") /\ Connected(s)
    /\ ~MayHold(Guard(s))
    /\ pool' = [pool EXCEPT ![ProcessOf[s]] = Rotated(Rotated(@))]
    /\ UNCHANGED <<folder, book, faults, lock, sweep>>

\* _take reads the bytes and opens a session for this file.
Take(s, n) ==
    LET p == ProcessOf[s] IN
    /\ Step(s, "loop") /\ n \in sweep[s].todo
    /\ incoming[n] # 0 /\ Connected(s)
    /\ Become(s, [sweep[s] EXCEPT !.step = "submit", !.name = n, !.file = incoming[n],
                                  !.session = Head(pool[p])])
    /\ pool' = [pool EXCEPT ![p] = Tail(@)]
    /\ UNCHANGED <<folder, book, faults, lock>>

GiveBack(s, c) == pool' = [pool EXCEPT ![ProcessOf[s]] = Append(@, c)]

\* Committed: the pipeline took the file, or refused it and keeps the attempt.
Commit(s, dest) ==
    LET t == sweep[s] IN
    /\ Step(s, "submit")
    /\ ledger' = [ledger EXCEPT ![t.file] = @ + 1]
    /\ GiveBack(s, t.session)
    /\ Become(s, [t EXCEPT !.step = "file", !.dest = dest, !.session = None])
    /\ UNCHANGED <<folder, refused, cut, faults, lock>>

\* Refused before it was a batch: rolled back.
Refuse(s) ==
    LET t == sweep[s] IN
    /\ Step(s, "submit")
    /\ refused' = refused \cup {t.file}
    /\ GiveBack(s, t.session)
    /\ Become(s, [t EXCEPT !.step = "file", !.dest = "refused", !.session = None])
    /\ UNCHANGED <<folder, ledger, cut, faults, lock>>

\* On to the next name.
Done(t) == [Idle EXCEPT !.step = "loop", !.guard = t.guard, !.todo = t.todo \ {t.name}]

\* A file that could not be submitted is moved as if it had been.
FailFault(s) ==
    LET t == sweep[s] IN
    /\ Step(s, "submit")
    /\ GiveBack(s, t.session)
    /\ Become(s, [t EXCEPT !.step = "file", !.dest = "processed", !.session = None])
    /\ UNCHANGED <<folder, book, faults, lock>>

\* Any other error: rolled back, and the file stays for the next sweep.
Fail(s) ==
    LET t == sweep[s] IN
    /\ Step(s, "submit")
    /\ GiveBack(s, t.session)
    /\ Become(s, Done(t))
    /\ UNCHANGED <<folder, book, faults, lock>>

\* The file is copied to its place and stays in incoming.
FileAwayFault(s) ==
    LET t == sweep[s] IN
    /\ Step(s, "file")
    /\ filed' = filed \cup {incoming[t.name]}
    /\ Become(s, Done(t))
    /\ UNCHANGED <<incoming, drops, raced, book, faults, pool, lock>>

\* file_away: what lies under the name now is moved.
FileAway(s) ==
    LET t == sweep[s] IN
    /\ Step(s, "file")
    /\ filed' = filed \cup {incoming[t.name]}
    /\ incoming' = [incoming EXCEPT ![t.name] = 0]
    /\ Become(s, Done(t))
    /\ UNCHANGED <<drops, raced, book, faults, pool, lock>>

Committed(t) == t.step = "file" /\ t.dest # "refused"

\* The move fails.  Of a file the pipeline took it is one more error; out of the
\* handler of a refusal it ends the sweep, whose guard has not committed yet.
MoveFails(s) ==
    LET t == sweep[s] IN
    /\ Step(s, "file") /\ faults < MaxFaults
    /\ faults' = faults + 1
    /\ cut' = IF Committed(t) THEN [cut EXCEPT ![t.file] = @ + 1] ELSE cut
    /\ IF t.dest = "processed"
       THEN /\ Become(s, Done(t))
            /\ UNCHANGED <<pool, lock>>
       ELSE /\ Become(s, Idle)
            /\ lock' = IF lock.depth = 1 THEN Free ELSE [lock EXCEPT !.depth = @ - 1]
            /\ GiveBack(s, t.guard)
    /\ UNCHANGED <<folder, ledger, refused>>

\* Every file is done: the guard commits, and its connection goes back to the pool.
Finish(s) ==
    /\ Step(s, "loop") /\ sweep[s].todo = {}
    /\ GiveBack(s, sweep[s].guard)
    /\ Become(s, [Idle EXCEPT !.step = "unlock"])
    /\ UNCHANGED <<folder, book, faults, lock>>

\* The last unlock leaves the folder held.
UnlockFault(s) ==
    LET c == Head(pool[ProcessOf[s]]) IN
    /\ Step(s, "unlock") /\ Connected(s)
    /\ lock' = IF lock.by = c THEN [lock EXCEPT !.depth = @ - 1] ELSE lock
    /\ pool' = [pool EXCEPT ![ProcessOf[s]] = Rotated(@)]
    /\ Become(s, Idle)
    /\ UNCHANGED <<folder, book, faults>>

\* finally: pg_advisory_unlock on the connection the pool hands out now.  Another one
\* than the holder changes nothing.
Unlock(s) ==
    LET c == Head(pool[ProcessOf[s]]) IN
    /\ Step(s, "unlock") /\ Connected(s)
    /\ lock' = CASE lock.by # c -> lock
                 [] lock.by = c /\ lock.depth = 1 -> Free
                 [] OTHER -> [lock EXCEPT !.depth = @ - 1]
    /\ pool' = [pool EXCEPT ![ProcessOf[s]] = Rotated(@)]
    /\ Become(s, Idle)
    /\ UNCHANGED <<folder, book, faults>>

\* A process dies and starts again; its connections are closed with their locks.
Crash(p) ==
    LET mine == {s \in Sweepers : ProcessOf[s] = p}
        lost == {sweep[s].file : s \in {x \in mine : Committed(sweep[x])}} IN
    /\ faults < MaxFaults
    /\ faults' = faults + 1
    /\ pool' = [pool EXCEPT ![p] = PoolOf[p]]
    /\ lock' = IF lock.by \in Range(PoolOf[p]) THEN Free ELSE lock
    /\ cut' = [f \in DOMAIN cut |-> IF f \in lost THEN cut[f] + 1 ELSE cut[f]]
    /\ sweep' = [s \in Sweepers |-> IF s \in mine THEN Idle ELSE sweep[s]]
    /\ UNCHANGED <<folder, ledger, refused>>

Sweep(s) ==
    \/ Enter(s) \/ Busy(s)
    \/ \E n \in Names : Take(s, n)
    \/ \E dest \in {"processed", "kept"} : Commit(s, dest)
    \/ Refuse(s) \/ Fail(s) \/ FileAway(s) \/ MoveFails(s)
    \/ Finish(s) \/ Unlock(s)

Next ==
    \/ \E n \in Names : Drop(n)
    \/ \E p \in Processes : OtherWork(p) \/ Crash(p)
    \/ \E s \in Sweepers : Sweep(s)

\* The beat starts a sweep every five minutes, and a sweep under way goes on.
Fairness == \A s \in Sweepers : WF_vars(Sweep(s))

Spec == Init /\ [][Next]_vars /\ Fairness

-----------------------------------------------------------------------------
(* Properties.                                                             *)

Work ==
    [step : {"idle", "loop", "submit", "file", "unlock"}, todo : SUBSET Names,
     guard : Connections \cup {None}, session : Connections \cup {None},
     name : Names \cup {None}, file : 0 .. MaxDrops,
     dest : {"processed", "kept", "refused", None}]

\* Every file, connection and sweep is one the folder can have.
TypeOK ==
    /\ incoming \in [Names -> 0 .. MaxDrops] /\ drops \in 0 .. MaxDrops
    /\ filed \subseteq 0 .. MaxDrops
    /\ raced \subseteq 1 .. MaxDrops /\ refused \subseteq 1 .. MaxDrops
    /\ ledger \in [1 .. MaxDrops -> Nat] /\ cut \in [1 .. MaxDrops -> Nat]
    /\ faults \in 0 .. MaxFaults
    /\ pool \in [Processes -> Seq(Connections)]
    /\ lock \in [by : Connections, depth : Nat \ {0}] \cup {Free}
    /\ sweep \in [Sweepers -> Work]

Taking(s) == sweep[s].step \in {"loop", "submit", "file"}

\* "One sweep per channel at a time, across every server": although a lock can stay
\* behind on a pooled connection, and be taken again by whoever is given it.
OneSweepAtATime == \A s, u \in Sweepers : Taking(s) /\ Taking(u) => s = u

\* "No file is ever taken twice", but for a process that dies or a move that fails
\* between the commit and the move: then once more for each time.
TakenOnce == \A f \in DOMAIN ledger : ledger[f] <= 1 + cut[f]

\* A file that has left the folder is on the ledger or was turned away with its
\* reason, unless it was written over one a sweep had in hand.
NoneLost ==
    \A f \in filed \ raced : f \in refused \/ ledger[f] > 0

-----------------------------------------------------------------------------
(* What the documentation says and the code does not do.                   *)

\* "A sweep takes every file that has stopped changing": a file that waits is in the
\* end before a sweep that holds the folder.
FolderServed ==
    \A n \in Names : incoming[n] # 0 ~> incoming[n] = 0 \/ \E s \in Sweepers : Taking(s)

=============================================================================
