--------------------------- MODULE DropFolderProofs ---------------------------
(* Proofs about DropFolder for any number of processes, sweeps and files.    *)
(*                                                                           *)
(* A lock may stay on a connection nobody uses, so the lock alone does not   *)
(* keep two sweeps apart.  The invariant follows the connections: one that   *)
(* is out of its pool is out for one session only, and a sweep that takes    *)
(* files holds the folder by a connection that is out.                       *)
EXTENDS DropFolder, TLAPS

Seqs == Seq(Connections)
P(s) == ProcessOf[s]
Hand(s) == sweep[s].step \in {"submit", "file"}

\* The connections a sweep has out of its pool.
Held(s) == {sweep[s].guard, sweep[s].session} \ {None}

PoolsOK ==
    \A p \in Processes : IsInjective(pool[p]) /\ Range(pool[p]) \subseteq Range(PoolOf[p])

HeldOK ==
    \A s \in Sweepers :
        /\ Held(s) \subseteq Range(PoolOf[P(s)]) \ Range(pool[P(s)])
        /\ sweep[s].guard # None => sweep[s].guard # sweep[s].session
        /\ \A u \in Sweepers : u # s => Held(s) \cap Held(u) = {}

StepOK ==
    \A s \in Sweepers :
        /\ sweep[s].guard # None <=> Taking(s)
        /\ sweep[s].session # None <=> sweep[s].step = "submit"

LockOK == \A s \in Sweepers : Taking(s) => lock.by = sweep[s].guard

\* A file lies under one name, and what a sweep has in hand lies under its name,
\* unless it was written over.
FilesOK ==
    /\ \A n \in Names : incoming[n] <= drops
    /\ \A n, m \in Names : incoming[n] # 0 /\ incoming[n] = incoming[m] => n = m
    /\ \A s \in Sweepers : Hand(s) =>
         /\ sweep[s].name \in Names /\ sweep[s].file \in 1 .. drops
         /\ \A n \in Names : incoming[n] = sweep[s].file => n = sweep[s].name
         /\ incoming[sweep[s].name] \in {sweep[s].file} \cup raced

\* A file some sweep may still take.
Waiting(f) ==
    \/ f > drops
    \/ \E n \in Names : incoming[n] = f
    \/ \E s \in Sweepers : sweep[s].step = "submit" /\ sweep[s].file = f

\* A file that is committed and about to be moved.
Moving(f) == \E s \in Sweepers : Committed(sweep[s]) /\ sweep[s].file = f

LedgerOK ==
    \A f \in 1 .. MaxDrops :
        /\ ledger[f] <= 1 + cut[f]
        /\ Waiting(f) /\ ~Moving(f) => ledger[f] <= cut[f]

FiledOK ==
    /\ NoneLost
    /\ \A s \in Sweepers :
         sweep[s].step = "file" => sweep[s].file \in refused \/ ledger[sweep[s].file] > 0

Wired == TypeOK /\ PoolsOK /\ HeldOK /\ StepOK /\ LockOK
IInv == Wired /\ FilesOK /\ LedgerOK /\ FiledOK

-----------------------------------------------------------------------------
(* Pools.                                                                  *)

LEMMA Constants ==
    /\ \A s \in Sweepers : P(s) \in Processes
    /\ MaxDrops \in Nat /\ MaxFaults \in Nat /\ MaxDepth \in Nat
    /\ \A p \in Processes : /\ PoolOf[p] \in Seqs /\ IsInjective(PoolOf[p])
                            /\ Range(PoolOf[p]) \subseteq Connections
    /\ \A p, q \in Processes : p # q => Range(PoolOf[p]) \cap Range(PoolOf[q]) = {}
    /\ None \notin Names \cup Sweepers \cup Connections
<1>1. \A p \in Processes : Range(PoolOf[p]) \subseteq Connections
  BY DEF Connections
<1> QED BY <1>1, PoolAssumption DEF P, Seqs

\* Taking the connection that has been idle longest.
LEMMA TailOK ==
    ASSUME NEW q \in Seqs, q # <<>>, IsInjective(q)
    PROVE  /\ Tail(q) \in Seqs /\ IsInjective(Tail(q))
           /\ Range(Tail(q)) = Range(q) \ {Head(q)}
           /\ Head(q) \in Range(q) /\ Head(q) \in Connections
<1>1. /\ Len(q) \in Nat \ {0} /\ Head(q) = q[1] /\ DOMAIN q = 1 .. Len(q)
      /\ DOMAIN Tail(q) = 1 .. (Len(q) - 1) /\ \A i \in 1 .. (Len(q) - 1) : Tail(q)[i] = q[i + 1]
      /\ Tail(q) \in Seqs /\ \A i \in 1 .. Len(q) : q[i] \in Connections
  BY DEF Seqs
<1>2. \A i, j \in 1 .. Len(q) : q[i] = q[j] => i = j
  BY <1>1 DEF IsInjective
<1>3. IsInjective(Tail(q))
  <2> SUFFICES ASSUME NEW i \in 1 .. (Len(q) - 1), NEW j \in 1 .. (Len(q) - 1),
                      Tail(q)[i] = Tail(q)[j]
               PROVE  i = j
    BY <1>1 DEF IsInjective
  <2>1. q[i + 1] = q[j + 1] /\ i + 1 \in 1 .. Len(q) /\ j + 1 \in 1 .. Len(q)
    BY <1>1
  <2> QED BY <1>2, <2>1
<1>4. ASSUME NEW c PROVE c \in Range(Tail(q)) <=> c \in Range(q) \ {Head(q)}
  <2>1. ASSUME c \in Range(Tail(q)) PROVE c \in Range(q) \ {Head(q)}
    <3>1. PICK i \in 1 .. (Len(q) - 1) : c = Tail(q)[i]
      BY <1>1, <2>1 DEF Range
    <3>2. c = q[i + 1] /\ i + 1 \in 1 .. Len(q) /\ i + 1 # 1 /\ 1 \in 1 .. Len(q)
      BY <1>1, <3>1
    <3>3. c # q[1]
      BY <1>2, <3>2
    <3> QED BY <1>1, <3>2, <3>3 DEF Range
  <2>2. ASSUME c \in Range(q), c # Head(q) PROVE c \in Range(Tail(q))
    <3>1. PICK i \in 1 .. Len(q) : c = q[i]
      BY <1>1, <2>2 DEF Range
    <3>2. i - 1 \in 1 .. (Len(q) - 1) /\ Tail(q)[i - 1] = c
      BY <1>1, <2>2, <3>1
    <3> QED BY <1>1, <3>2 DEF Range
  <2> QED BY <2>1, <2>2
<1>5. Head(q) \in Range(q) /\ Head(q) \in Connections
  BY <1>1 DEF Range
<1> QED BY <1>1, <1>3, <1>4, <1>5

\* Giving one back.
LEMMA AppendOK ==
    ASSUME NEW q \in Seqs, IsInjective(q), NEW c \in Connections, c \notin Range(q)
    PROVE  /\ Append(q, c) \in Seqs /\ IsInjective(Append(q, c))
           /\ Range(Append(q, c)) = Range(q) \cup {c} /\ Append(q, c) # <<>>
<1> DEFINE r == Append(q, c)
<1>1. /\ Len(q) \in Nat /\ DOMAIN q = 1 .. Len(q) /\ r \in Seqs /\ r # <<>>
      /\ DOMAIN r = 1 .. (Len(q) + 1) /\ r[Len(q) + 1] = c
      /\ \A i \in 1 .. Len(q) : r[i] = q[i]
  BY DEF Seqs
<1> HIDE DEF r
<1>2. \A i \in 1 .. Len(q) : q[i] # c
  BY <1>1 DEF Range
<1>3. IsInjective(r)
  <2>1. \A i, j \in 1 .. Len(q) : q[i] = q[j] => i = j
    BY <1>1 DEF IsInjective
  <2>2. \A i \in 1 .. (Len(q) + 1) : i \in 1 .. Len(q) \/ i = Len(q) + 1
    BY <1>1
  <2> QED BY <1>1, <1>2, <2>1, <2>2 DEF IsInjective
<1>4. Range(r) = Range(q) \cup {c}
  <2>1. \A i \in 1 .. (Len(q) + 1) : i \in 1 .. Len(q) \/ i = Len(q) + 1
    BY <1>1
  <2>2. \A i \in 1 .. Len(q) : i \in 1 .. (Len(q) + 1)
    BY <1>1
  <2>3. Len(q) + 1 \in 1 .. (Len(q) + 1)
    BY <1>1
  <2> QED BY <1>1, <2>1, <2>2, <2>3 DEF Range
<1>5. r = Append(q, c)
  BY DEF r
<1> QED BY <1>1, <1>3, <1>4, <1>5, Zenon

\* Using one and giving it back.
LEMMA RotatedOK ==
    ASSUME NEW q \in Seqs, q # <<>>, IsInjective(q)
    PROVE  /\ Rotated(q) \in Seqs /\ IsInjective(Rotated(q)) /\ Rotated(q) # <<>>
           /\ Range(Rotated(q)) = Range(q)
<1>1. /\ Tail(q) \in Seqs /\ IsInjective(Tail(q)) /\ Head(q) \in Connections
      /\ Range(Tail(q)) = Range(q) \ {Head(q)} /\ Head(q) \in Range(q)
  BY TailOK
<1>2. Head(q) \notin Range(Tail(q))
  BY <1>1
<1> DEFINE t == Tail(q)
           h == Head(q)
<1> HIDE DEF t, h
<1>3. /\ Append(t, h) \in Seqs /\ IsInjective(Append(t, h)) /\ Append(t, h) # <<>>
      /\ Range(Append(t, h)) = Range(t) \cup {h}
  BY <1>1, <1>2, AppendOK DEF t, h
<1>4. Range(t) \cup {h} = Range(q)
  BY <1>1 DEF t, h
<1>5. Rotated(q) = Append(t, h)
  BY DEF Rotated, t, h
<1> QED BY <1>3, <1>4, <1>5

-----------------------------------------------------------------------------
(* What a sweep is doing.                                                  *)

LEMMA WorkRow ==
    ASSUME NEW t \in Work
    PROVE  t = [step |-> t.step, guard |-> t.guard, todo |-> t.todo, name |-> t.name,
                file |-> t.file, session |-> t.session, dest |-> t.dest]
<1> DEFINE F == {"step", "guard", "todo", "name", "file", "session", "dest"}
<1>1. DOMAIN t = F
  BY DEF Work
<1>2. t = [x \in F |-> t[x]]
  BY DEF Work
<1> QED BY <1>2

LEMMA EnterRow ==
    ASSUME NEW g, NEW d
    PROVE  [Idle EXCEPT !.step = "loop", !.guard = g, !.todo = d]
           = [step |-> "loop", guard |-> g, todo |-> d, name |-> None, file |-> 0,
              session |-> None, dest |-> None]
<1> DEFINE R(st, gu, to) == [step |-> st, guard |-> gu, todo |-> to, name |-> None,
                             file |-> 0, session |-> None, dest |-> None]
<1>1. [Idle EXCEPT !.step = "loop"] = R("loop", None, {})
  BY DEF Idle
<1>2. [R("loop", None, {}) EXCEPT !.guard = g] = R("loop", g, {})
  OBVIOUS
<1>3. [R("loop", g, {}) EXCEPT !.todo = d] = R("loop", g, d)
  OBVIOUS
<1> HIDE DEF R
<1>4. [Idle EXCEPT !.step = "loop", !.guard = g, !.todo = d] = R("loop", g, d)
  BY <1>1, <1>2, <1>3, Zenon
<1> QED BY <1>4 DEF R

LEMMA TakeRow ==
    ASSUME NEW t \in Work, NEW n, NEW f, NEW c
    PROVE  [t EXCEPT !.step = "submit", !.name = n, !.file = f, !.session = c]
           = [step |-> "submit", guard |-> t.guard, todo |-> t.todo, name |-> n, file |-> f,
              session |-> c, dest |-> t.dest]
<1> DEFINE R(st, na, fi, se) == [step |-> st, guard |-> t.guard, todo |-> t.todo, name |-> na,
                                 file |-> fi, session |-> se, dest |-> t.dest]
<1>1. [t EXCEPT !.step = "submit"] = R("submit", t.name, t.file, t.session)
  BY WorkRow
<1>2. [R("submit", t.name, t.file, t.session) EXCEPT !.name = n] = R("submit", n, t.file, t.session)
  OBVIOUS
<1>3. [R("submit", n, t.file, t.session) EXCEPT !.file = f] = R("submit", n, f, t.session)
  OBVIOUS
<1>4. [R("submit", n, f, t.session) EXCEPT !.session = c] = R("submit", n, f, c)
  OBVIOUS
<1> HIDE DEF R
<1>5. [t EXCEPT !.step = "submit", !.name = n, !.file = f, !.session = c] = R("submit", n, f, c)
  BY <1>1, <1>2, <1>3, <1>4, Zenon
<1> QED BY <1>5 DEF R

LEMMA LeaveRow ==
    ASSUME NEW t \in Work, NEW d
    PROVE  [t EXCEPT !.step = "file", !.dest = d, !.session = None]
           = [step |-> "file", guard |-> t.guard, todo |-> t.todo, name |-> t.name,
              file |-> t.file, session |-> None, dest |-> d]
<1> DEFINE R(st, se, de) == [step |-> st, guard |-> t.guard, todo |-> t.todo, name |-> t.name,
                             file |-> t.file, session |-> se, dest |-> de]
<1>1. [t EXCEPT !.step = "file"] = R("file", t.session, t.dest)
  BY WorkRow
<1>2. [R("file", t.session, t.dest) EXCEPT !.dest = d] = R("file", t.session, d)
  OBVIOUS
<1>3. [R("file", t.session, d) EXCEPT !.session = None] = R("file", None, d)
  OBVIOUS
<1> HIDE DEF R
<1>4. [t EXCEPT !.step = "file", !.dest = d, !.session = None] = R("file", None, d)
  BY <1>1, <1>2, <1>3, Zenon
<1> QED BY <1>4 DEF R

LEMMA DoneRow ==
    ASSUME NEW t \in Work
    PROVE  Done(t) = [step |-> "loop", guard |-> t.guard, todo |-> t.todo \ {t.name},
                      name |-> None, file |-> 0, session |-> None, dest |-> None]
BY EnterRow DEF Done

LEMMA IdleWork == Idle \in Work /\ [Idle EXCEPT !.step = "unlock"] \in Work
BY Constants DEF Idle, Work

\* One sweep's record changes.
LEMMA Becomes ==
    ASSUME TypeOK, NEW s \in Sweepers, NEW r \in Work, Become(s, r)
    PROVE  /\ sweep' \in [Sweepers -> Work] /\ sweep'[s] = r
           /\ \A u \in Sweepers : u # s => sweep'[u] = sweep[u]
BY DEF TypeOK, Become

\* One pool changes.
LEMMA PoolMoved ==
    ASSUME Wired, NEW p \in Processes, NEW q \in Seqs, IsInjective(q),
           Range(q) \subseteq Range(PoolOf[p]), pool' = [pool EXCEPT ![p] = q]
    PROVE  /\ pool' \in [Processes -> Seqs] /\ PoolsOK' /\ pool'[p] = q
           /\ \A x \in Processes : x # p => pool'[x] = pool[x]
<1>1. /\ pool' \in [Processes -> Seqs] /\ pool'[p] = q
      /\ \A x \in Processes : x # p => pool'[x] = pool[x]
  BY DEF Wired, TypeOK, Seqs
<1>2. PoolsOK'
  BY <1>1 DEF Wired, PoolsOK
<1> QED BY <1>1, <1>2

\* Connections go between a sweep and the pool of its process: none is out twice.
LEMMA HeldMoved ==
    ASSUME Wired, NEW s \in Sweepers,
           \A p \in Processes : p # P(s) => pool'[p] = pool[p],
           \A u \in Sweepers : u # s => sweep'[u] = sweep[u],
           Range(pool'[P(s)]) \cup Held(s)' \subseteq Range(pool[P(s)]) \cup Held(s),
           Range(pool'[P(s)]) \cap Held(s)' = {},
           sweep'[s].guard # None => sweep'[s].guard # sweep'[s].session
    PROVE  HeldOK'
<1> DEFINE own(u) == Range(PoolOf[P(u)])
<1>1. \A u \in Sweepers : P(u) \in Processes
  BY Constants
<1>2. \A u \in Sweepers : Held(u) \subseteq own(u) \ Range(pool[P(u)])
  BY DEF Wired, HeldOK
<1>3. \A p \in Processes : Range(pool[p]) \subseteq Range(PoolOf[p])
  BY DEF Wired, PoolsOK
<1>4. \A u, v \in Sweepers : u # v => Held(u) \cap Held(v) = {}
  BY DEF Wired, HeldOK
<1>5. \A u \in Sweepers : u # s => Held(u)' = Held(u)
  BY DEF Held
<1>6. Held(s)' \subseteq own(s)
  BY <1>1, <1>2, <1>3
<1>7. \A u, v \in Sweepers : P(u) # P(v) => own(u) \cap own(v) = {}
  BY <1>1, Constants
<1> HIDE DEF own
<1> SUFFICES ASSUME NEW u \in Sweepers
             PROVE  /\ Held(u)' \subseteq own(u) \ Range(pool'[P(u)])
                    /\ sweep'[u].guard # None => sweep'[u].guard # sweep'[u].session
                    /\ \A v \in Sweepers : v # u => Held(u)' \cap Held(v)' = {}
  BY DEF HeldOK, own
<1>8. ASSUME NEW v \in Sweepers, v # s PROVE Held(s)' \cap Held(v) = {}
  <2>1. CASE P(v) = P(s)
    BY <1>2, <1>4, <1>8, <2>1
  <2>2. CASE P(v) # P(s)
    BY <1>2, <1>6, <1>7, <2>2
  <2> QED BY <2>1, <2>2
<1>9. CASE u = s
  BY <1>5, <1>6, <1>8, <1>9
<1>10. CASE u # s
  <2>1. sweep'[u].guard # None => sweep'[u].guard # sweep'[u].session
    BY <1>10 DEF Wired, HeldOK
  <2>2. Held(u)' \subseteq own(u) \ Range(pool'[P(u)])
    <3>1. CASE P(u) = P(s)
      BY <1>2, <1>4, <1>5, <1>10, <3>1
    <3>2. CASE P(u) # P(s)
      BY <1>1, <1>2, <1>5, <1>10, <3>2
    <3> QED BY <3>1, <3>2
  <2>3. \A v \in Sweepers : v # u => Held(u)' \cap Held(v)' = {}
    BY <1>4, <1>5, <1>8, <1>10
  <2> QED BY <2>1, <2>2, <2>3
<1> QED BY <1>9, <1>10

\* Whoever takes files has a connection out that no other sweep and no pool has.
LEMMA Exclusive ==
    ASSUME Wired
    PROVE  /\ OneSweepAtATime
           /\ \A s \in Sweepers, p \in Processes :
                 Taking(s) => /\ lock.by = sweep[s].guard /\ lock.by # None
                              /\ lock.by \in Range(PoolOf[P(s)])
                              /\ lock.by \notin Range(pool[p])
<1>1. ASSUME NEW s \in Sweepers, NEW p \in Processes, Taking(s)
      PROVE  /\ lock.by = sweep[s].guard /\ lock.by # None /\ lock.by \in Held(s)
             /\ lock.by \in Range(PoolOf[P(s)]) /\ lock.by \notin Range(pool[p])
  <2>1. lock.by = sweep[s].guard /\ lock.by # None /\ lock.by \in Held(s)
    BY <1>1 DEF Wired, LockOK, StepOK, Held
  <2>2. lock.by \in Range(PoolOf[P(s)]) /\ lock.by \notin Range(pool[P(s)])
    BY <2>1 DEF Wired, HeldOK
  <2>3. p # P(s) => lock.by \notin Range(pool[p])
    BY <2>2, Constants DEF Wired, PoolsOK
  <2> QED BY <2>1, <2>2, <2>3
<1>2. OneSweepAtATime
  <2> SUFFICES ASSUME NEW s \in Sweepers, NEW u \in Sweepers, Taking(s), Taking(u), s # u
               PROVE  FALSE
    BY DEF OneSweepAtATime
  <2>1. lock.by \in Held(s) /\ lock.by \in Held(u)
    BY <1>1, Constants
  <2> QED BY <2>1 DEF Wired, HeldOK
<1> QED BY <1>1, <1>2

-----------------------------------------------------------------------------
(* The steps, on the connections.                                          *)

LEMMA PoolTyped ==
    ASSUME Wired, NEW p \in Processes
    PROVE  pool[p] \in Seqs /\ IsInjective(pool[p]) /\ Range(pool[p]) \subseteq Range(PoolOf[p])
BY DEF Wired, TypeOK, PoolsOK, Seqs

\* A connection is used and given back: nothing is out that was not.
LEMMA RotateWired ==
    ASSUME Wired, NEW p \in Processes, NEW q \in Seqs, IsInjective(q),
           Range(q) = Range(pool[p]), pool' = [pool EXCEPT ![p] = q], UNCHANGED sweep
    PROVE  pool' \in [Processes -> Seqs] /\ PoolsOK' /\ HeldOK' /\ StepOK'
<1>1. /\ pool' \in [Processes -> Seqs] /\ PoolsOK' /\ pool'[p] = q
      /\ \A x \in Processes : x # p => pool'[x] = pool[x]
  BY PoolTyped, PoolMoved
<1>2. \A x \in Processes : Range(pool'[x]) = Range(pool[x])
  BY <1>1
<1>3. HeldOK'
  BY <1>2, Constants DEF Wired, HeldOK, Held
<1> QED BY <1>1, <1>3 DEF Wired, StepOK, Taking

LEMMA DropWired == ASSUME Wired, NEW n \in Names, Drop(n) PROVE Wired'
<1>1. drops + 1 \in 1 .. MaxDrops
  BY Constants DEF Wired, TypeOK, Drop
<1>2. TypeOK'
  BY <1>1 DEF Wired, TypeOK, Drop, book
<1> QED BY <1>2 DEF Wired, PoolsOK, HeldOK, Held, StepOK, LockOK, Taking, Drop

LEMMA OtherWorkWired == ASSUME Wired, NEW p \in Processes, OtherWork(p) PROVE Wired'
<1>1. pool[p] \in Seqs /\ IsInjective(pool[p]) /\ pool[p] # <<>>
  BY PoolTyped DEF OtherWork
<1>2. /\ pool' = [pool EXCEPT ![p] = Rotated(pool[p])]
      /\ UNCHANGED <<incoming, drops, filed, raced, ledger, refused, cut, faults, lock, sweep>>
  BY DEF OtherWork, Wired, TypeOK, folder, book
<1>3. pool' \in [Processes -> Seqs] /\ PoolsOK' /\ HeldOK' /\ StepOK'
  BY <1>1, <1>2, RotatedOK, RotateWired
<1> QED BY <1>2, <1>3 DEF Wired, TypeOK, LockOK, Taking, Seqs

LEMMA BusyWired == ASSUME Wired, NEW s \in Sweepers, Busy(s) PROVE Wired'
<1> DEFINE q == pool[P(s)]
<1>1. P(s) \in Processes /\ q \in Seqs /\ IsInjective(q) /\ q # <<>>
  BY PoolTyped, Constants DEF Busy, Connected, P
<1>2. /\ pool' = [pool EXCEPT ![P(s)] = Rotated(Rotated(q))]
      /\ UNCHANGED <<incoming, drops, filed, raced, ledger, refused, cut, faults, lock, sweep>>
  BY DEF Busy, Wired, TypeOK, folder, book, P
<1>3. /\ Rotated(Rotated(q)) \in Seqs /\ IsInjective(Rotated(Rotated(q)))
      /\ Range(Rotated(Rotated(q))) = Range(q)
  <2>1. /\ Rotated(q) \in Seqs /\ IsInjective(Rotated(q)) /\ Rotated(q) # <<>>
        /\ Range(Rotated(q)) = Range(q)
    BY <1>1, RotatedOK
  <2> QED BY <2>1, RotatedOK
<1>4. pool' \in [Processes -> Seqs] /\ PoolsOK' /\ HeldOK' /\ StepOK'
  BY <1>1, <1>2, <1>3, RotateWired
<1> QED BY <1>2, <1>4 DEF Wired, TypeOK, LockOK, Taking, Seqs

\* The guard's connection is in the pool, so no sweep that takes files holds by it.
LEMMA EnterWired == ASSUME Wired, NEW s \in Sweepers, Enter(s) PROVE Wired'
<1> DEFINE q == pool[P(s)]
           g == Guard(s)
           d == {n \in Names : incoming[n] # 0}
           r == [step |-> "loop", guard |-> g, todo |-> d, name |-> None, file |-> 0,
                 session |-> None, dest |-> None]
<1>1. P(s) \in Processes /\ q \in Seqs /\ IsInjective(q) /\ q # <<>>
  BY PoolTyped, Constants DEF Enter, Connected, P
<1>2. /\ Tail(Rotated(q)) \in Seqs /\ IsInjective(Tail(Rotated(q)))
      /\ Range(Tail(Rotated(q))) = Range(q) \ {g} /\ g \in Range(q) /\ g \in Connections
  <2>1. /\ Rotated(q) \in Seqs /\ IsInjective(Rotated(q)) /\ Rotated(q) # <<>>
        /\ Range(Rotated(q)) = Range(q)
    BY <1>1, RotatedOK
  <2>2. g = Head(Rotated(q))
    BY DEF Guard, P
  <2> QED BY <2>1, <2>2, TailOK
<1>3. /\ pool' = [pool EXCEPT ![P(s)] = Tail(Rotated(q))]
      /\ lock' = [by |-> g, depth |-> lock.depth + 1] /\ MayHold(g)
      /\ Become(s, r) /\ sweep[s].step = "idle"
      /\ UNCHANGED <<incoming, drops, filed, raced, ledger, refused, cut, faults>>
  BY EnterRow DEF Enter, Step, Wired, TypeOK, folder, book, P
<1>4. r \in Work
  BY <1>2, Constants DEF Work
<1> HIDE DEF r, g, q, d
<1>5. /\ sweep' \in [Sweepers -> Work] /\ sweep'[s] = r
      /\ \A u \in Sweepers : u # s => sweep'[u] = sweep[u]
  BY <1>3, <1>4, Becomes DEF Wired
<1>6. /\ pool' \in [Processes -> Seqs] /\ PoolsOK' /\ pool'[P(s)] = Tail(Rotated(q))
      /\ \A x \in Processes : x # P(s) => pool'[x] = pool[x]
  <2>1. Range(Tail(Rotated(q))) \subseteq Range(PoolOf[P(s)])
    BY <1>1, <1>2, PoolTyped DEF q
  <2> QED BY <1>1, <1>2, <1>3, <2>1, PoolMoved
<1>7. g # None /\ r.guard = g /\ r.session = None /\ r.step = "loop"
  BY <1>2, Constants DEF r
<1>8. HeldOK'
  <2>1. Held(s) = {} /\ Held(s)' = {g}
    BY <1>3, <1>5, <1>7 DEF Held, Wired, StepOK, Taking
  <2>2. sweep'[s].guard # None => sweep'[s].guard # sweep'[s].session
    BY <1>5, <1>7
  <2> QED BY <1>2, <1>5, <1>6, <2>1, <2>2, HeldMoved DEF q
<1>9. StepOK'
  BY <1>5, <1>7 DEF Wired, StepOK, Taking
<1>10. LockOK'
  <2> SUFFICES ASSUME NEW u \in Sweepers, Taking(u)' PROVE lock'.by = sweep'[u].guard
    BY DEF LockOK
  <2>1. CASE u = s
    BY <1>3, <1>5, <1>7, <2>1
  <2>2. CASE u # s
    <3>1. Taking(u)
      BY <1>5, <2>2 DEF Taking
    <3>2. lock.by # None /\ lock.by \notin Range(q)
      BY <1>1, <3>1, Exclusive DEF q
    <3> QED BY <1>2, <1>3, <3>2 DEF MayHold
  <2> QED BY <2>1, <2>2
<1>11. TypeOK'
  <2>1. lock.depth \in Nat
    BY DEF Wired, TypeOK, Free
  <2>2. lock' \in [by : Connections, depth : Nat \ {0}]
    BY <1>2, <1>3, <2>1
  <2> QED BY <1>3, <1>5, <1>6, <2>2 DEF Wired, TypeOK, Seqs
<1> QED BY <1>6, <1>8, <1>9, <1>10, <1>11 DEF Wired

\* A file's session takes the next connection.
LEMMA TakeWired == ASSUME Wired, NEW s \in Sweepers, NEW n \in Names, Take(s, n) PROVE Wired'
<1> DEFINE q == pool[P(s)]
           c == Head(q)
           t == sweep[s]
           r == [step |-> "submit", guard |-> t.guard, todo |-> t.todo, name |-> n,
                 file |-> incoming[n], session |-> c, dest |-> t.dest]
<1>1. /\ P(s) \in Processes /\ q \in Seqs /\ IsInjective(q) /\ q # <<>> /\ t \in Work
      /\ incoming[n] \in 0 .. MaxDrops
  BY PoolTyped, Constants DEF Take, Connected, P, Wired, TypeOK
<1>2. /\ Tail(q) \in Seqs /\ IsInjective(Tail(q)) /\ Range(Tail(q)) = Range(q) \ {c}
      /\ c \in Range(q) /\ c \in Connections
  BY <1>1, TailOK
<1>3. /\ pool' = [pool EXCEPT ![P(s)] = Tail(q)] /\ Become(s, r) /\ t.step = "loop"
      /\ UNCHANGED <<incoming, drops, filed, raced, ledger, refused, cut, faults, lock>>
  <2>1. \A f, x : [t EXCEPT !.step = "submit", !.name = n, !.file = f, !.session = x]
                 = [step |-> "submit", guard |-> t.guard, todo |-> t.todo, name |-> n,
                    file |-> f, session |-> x, dest |-> t.dest]
    BY <1>1, TakeRow
  <2>2. Become(s, [t EXCEPT !.step = "submit", !.name = n, !.file = incoming[n], !.session = c])
    BY DEF Take, P
  <2>3. Become(s, r)
    BY <2>1, <2>2, Zenon
  <2> QED BY <2>3 DEF Take, Step, folder, book, P
<1>4. r \in Work
  BY <1>1, <1>2 DEF Work
<1> HIDE DEF r
<1>5. /\ sweep' \in [Sweepers -> Work] /\ sweep'[s] = r
      /\ \A u \in Sweepers : u # s => sweep'[u] = sweep[u]
  BY <1>3, <1>4, Becomes DEF Wired
<1>6. /\ pool' \in [Processes -> Seqs] /\ PoolsOK' /\ pool'[P(s)] = Tail(q)
      /\ \A x \in Processes : x # P(s) => pool'[x] = pool[x]
  <2>1. Range(Tail(q)) \subseteq Range(PoolOf[P(s)])
    BY <1>1, <1>2, PoolTyped
  <2> QED BY <1>1, <1>2, <1>3, <2>1, PoolMoved
<1>7. /\ c # None /\ r.guard = t.guard /\ r.session = c /\ r.step = "submit"
      /\ t.guard # None /\ t.session = None /\ t.guard \notin Range(q)
  BY <1>2, <1>3, Constants DEF r, Wired, StepOK, Taking, HeldOK, Held
<1> HIDE DEF q, c, t
<1>8. HeldOK'
  <2>1. Held(s) = {t.guard} /\ Held(s)' = {t.guard, c}
    BY <1>5, <1>7 DEF Held, t
  <2>2. sweep'[s].guard # sweep'[s].session
    BY <1>2, <1>5, <1>7
  <2> QED BY <1>2, <1>5, <1>6, <1>7, <2>1, <2>2, HeldMoved DEF q
<1>9. StepOK'
  BY <1>5, <1>7 DEF Wired, StepOK, Taking
<1>10. LockOK'
  BY <1>3, <1>5, <1>7 DEF Wired, LockOK, Taking, t
<1>11. TypeOK'
  BY <1>3, <1>5, <1>6 DEF Wired, TypeOK, Seqs
<1> QED BY <1>6, <1>8, <1>9, <1>10, <1>11 DEF Wired

\* The file's session is done, and the sweep goes on with the file or the next one.
LEMMA SessionBack ==
    ASSUME Wired, NEW s \in Sweepers, sweep[s].step = "submit", NEW r \in Work,
           r.guard = sweep[s].guard, r.session = None, r.step \in {"file", "loop"},
           Become(s, r), GiveBack(s, sweep[s].session), UNCHANGED lock
    PROVE  /\ sweep' \in [Sweepers -> Work] /\ sweep'[s] = r
           /\ \A u \in Sweepers : u # s => sweep'[u] = sweep[u]
           /\ pool' \in [Processes -> Seqs] /\ PoolsOK' /\ HeldOK' /\ StepOK' /\ LockOK'
<1> DEFINE q == pool[P(s)]
           c == sweep[s].session
           g == sweep[s].guard
<1>1. /\ P(s) \in Processes /\ q \in Seqs /\ IsInjective(q)
      /\ Range(q) \subseteq Range(PoolOf[P(s)])
  BY PoolTyped, Constants
<1>2. /\ c # None /\ g # None /\ c # g /\ Held(s) = {c, g}
      /\ c \in Range(PoolOf[P(s)]) /\ c \notin Range(q) /\ g \notin Range(q)
  BY DEF Wired, StepOK, HeldOK, Held, Taking
<1>3. c \in Connections
  BY <1>1, <1>2, Constants
<1>4. /\ Append(q, c) \in Seqs /\ IsInjective(Append(q, c))
      /\ Range(Append(q, c)) = Range(q) \cup {c}
  BY <1>1, <1>2, <1>3, AppendOK
<1>5. pool' = [pool EXCEPT ![P(s)] = Append(q, c)]
  BY DEF GiveBack, P
<1>6. /\ sweep' \in [Sweepers -> Work] /\ sweep'[s] = r
      /\ \A u \in Sweepers : u # s => sweep'[u] = sweep[u]
  BY Becomes DEF Wired
<1> HIDE DEF q, c, g
<1>7. /\ pool' \in [Processes -> Seqs] /\ PoolsOK' /\ pool'[P(s)] = Append(q, c)
      /\ \A x \in Processes : x # P(s) => pool'[x] = pool[x]
  <2>1. Range(Append(q, c)) \subseteq Range(PoolOf[P(s)])
    BY <1>1, <1>2, <1>4
  <2> QED BY <1>1, <1>4, <1>5, <2>1, PoolMoved
<1>8. HeldOK'
  <2>1. Held(s)' = {g}
    BY <1>2, <1>6 DEF Held, g
  <2>2. sweep'[s].guard # sweep'[s].session
    BY <1>2, <1>6 DEF g
  <2> QED BY <1>2, <1>4, <1>6, <1>7, <2>1, <2>2, HeldMoved DEF q
<1>9. StepOK'
  BY <1>2, <1>6 DEF Wired, StepOK, Taking, g
<1>10. LockOK'
  BY <1>6 DEF Wired, LockOK, Taking
<1> QED BY <1>6, <1>7, <1>8, <1>9, <1>10

\* The guard's connection goes back: nobody takes files any more.
LEMMA GuardBack ==
    ASSUME Wired, NEW s \in Sweepers, sweep[s].step \in {"loop", "file"}, NEW r \in Work,
           r.guard = None, r.session = None, r.step \in {"idle", "unlock"},
           Become(s, r), GiveBack(s, sweep[s].guard)
    PROVE  /\ sweep' \in [Sweepers -> Work] /\ sweep'[s] = r
           /\ \A u \in Sweepers : u # s => sweep'[u] = sweep[u]
           /\ pool' \in [Processes -> Seqs] /\ PoolsOK' /\ HeldOK' /\ StepOK' /\ LockOK'
<1> DEFINE q == pool[P(s)]
           g == sweep[s].guard
<1>1. /\ P(s) \in Processes /\ q \in Seqs /\ IsInjective(q)
      /\ Range(q) \subseteq Range(PoolOf[P(s)])
  BY PoolTyped, Constants
<1>2. /\ g # None /\ Held(s) = {g} /\ g \in Range(PoolOf[P(s)]) /\ g \notin Range(q)
  BY DEF Wired, StepOK, HeldOK, Held, Taking
<1>3. g \in Connections
  BY <1>1, <1>2, Constants
<1>4. /\ Append(q, g) \in Seqs /\ IsInjective(Append(q, g))
      /\ Range(Append(q, g)) = Range(q) \cup {g}
  BY <1>1, <1>2, <1>3, AppendOK
<1>5. pool' = [pool EXCEPT ![P(s)] = Append(q, g)]
  BY DEF GiveBack, P
<1>6. /\ sweep' \in [Sweepers -> Work] /\ sweep'[s] = r
      /\ \A u \in Sweepers : u # s => sweep'[u] = sweep[u]
  BY Becomes DEF Wired
<1>7. \A u \in Sweepers : u # s => ~Taking(u)
  BY Exclusive DEF OneSweepAtATime, Taking
<1> HIDE DEF q, g
<1>8. /\ pool' \in [Processes -> Seqs] /\ PoolsOK' /\ pool'[P(s)] = Append(q, g)
      /\ \A x \in Processes : x # P(s) => pool'[x] = pool[x]
  <2>1. Range(Append(q, g)) \subseteq Range(PoolOf[P(s)])
    BY <1>1, <1>2, <1>4
  <2> QED BY <1>1, <1>4, <1>5, <2>1, PoolMoved
<1>9. HeldOK'
  <2>1. Held(s)' = {}
    BY <1>6 DEF Held
  <2>2. sweep'[s].guard = None
    BY <1>6
  <2> QED BY <1>2, <1>4, <1>6, <1>8, <2>1, <2>2, HeldMoved DEF q
<1>10. StepOK'
  BY <1>6 DEF Wired, StepOK, Taking
<1>11. LockOK'
  BY <1>6, <1>7 DEF LockOK, Taking
<1> QED BY <1>6, <1>8, <1>9, <1>10, <1>11

LEMMA CommitWired ==
    ASSUME Wired, NEW s \in Sweepers, NEW dest \in {"processed", "kept"}, Commit(s, dest)
    PROVE  Wired'
<1> DEFINE t == sweep[s]
           r == [step |-> "file", guard |-> t.guard, todo |-> t.todo, name |-> t.name,
                 file |-> t.file, session |-> None, dest |-> dest]
<1>1. t \in Work /\ t.step = "submit" /\ UNCHANGED lock /\ GiveBack(s, t.session)
  BY DEF Wired, TypeOK, Commit, Step
<1>2. r \in Work
  BY <1>1 DEF Work
<1>3. Become(s, r)
  <2>1. r = [t EXCEPT !.step = "file", !.dest = dest, !.session = None]
    BY <1>1, LeaveRow
  <2>2. Become(s, [t EXCEPT !.step = "file", !.dest = dest, !.session = None])
    BY DEF Commit
  <2> QED BY <2>1, <2>2, Zenon
<1>4. r.guard = t.guard /\ r.session = None /\ r.step = "file"
  OBVIOUS
<1> HIDE DEF r
<1>5. /\ sweep' \in [Sweepers -> Work]
      /\ pool' \in [Processes -> Seqs] /\ PoolsOK' /\ HeldOK' /\ StepOK' /\ LockOK'
  BY <1>1, <1>2, <1>3, <1>4, SessionBack
<1>6. TypeOK'
  <2>1. ledger' = [ledger EXCEPT ![t.file] = @ + 1] /\ ledger \in [1 .. MaxDrops -> Nat]
    BY DEF Commit, Wired, TypeOK
  <2>2. ledger' \in [1 .. MaxDrops -> Nat]
    <3> DEFINE f == t.file
    <3> HIDE DEF f
    <3>1. ledger' = [ledger EXCEPT ![f] = ledger[f] + 1]
      BY <2>1 DEF f
    <3>2. f \in 1 .. MaxDrops => ledger[f] + 1 \in Nat
      BY <2>1
    <3> QED BY <2>1, <3>1, <3>2
  <2> QED BY <1>1, <1>5, <2>2 DEF Commit, Wired, TypeOK, Seqs, folder
<1> QED BY <1>5, <1>6 DEF Wired

LEMMA FileInHand ==
    ASSUME FilesOK, TypeOK, NEW s \in Sweepers, Hand(s)
    PROVE  sweep[s].file \in 1 .. MaxDrops /\ sweep[s].name \in Names
<1>1. sweep[s].file \in 1 .. drops /\ drops \in 0 .. MaxDrops /\ sweep[s].name \in Names
  BY DEF FilesOK, TypeOK
<1> QED BY <1>1, Constants

LEMMA RefuseWired ==
    ASSUME Wired, FilesOK, NEW s \in Sweepers, Refuse(s)
    PROVE  Wired'
<1> DEFINE t == sweep[s]
           r == [step |-> "file", guard |-> t.guard, todo |-> t.todo, name |-> t.name,
                 file |-> t.file, session |-> None, dest |-> "refused"]
<1>1. t \in Work /\ t.step = "submit" /\ UNCHANGED lock /\ GiveBack(s, t.session)
  BY DEF Wired, TypeOK, Refuse, Step
<1>2. r \in Work
  BY <1>1 DEF Work
<1>3. Become(s, r)
  <2>1. r = [t EXCEPT !.step = "file", !.dest = "refused", !.session = None]
    BY <1>1, LeaveRow
  <2>2. Become(s, [t EXCEPT !.step = "file", !.dest = "refused", !.session = None])
    BY DEF Refuse
  <2> QED BY <2>1, <2>2, Zenon
<1>4. r.guard = t.guard /\ r.session = None /\ r.step = "file"
  OBVIOUS
<1> HIDE DEF r
<1>5. /\ sweep' \in [Sweepers -> Work]
      /\ pool' \in [Processes -> Seqs] /\ PoolsOK' /\ HeldOK' /\ StepOK' /\ LockOK'
  BY <1>1, <1>2, <1>3, <1>4, SessionBack
<1>6. TypeOK'
  <2>1. t.file \in 1 .. MaxDrops
    BY <1>1, FileInHand DEF Hand, Wired
  <2> QED BY <1>1, <1>5, <2>1 DEF Refuse, Wired, TypeOK, Seqs, folder
<1> QED BY <1>5, <1>6 DEF Wired

LEMMA FailWired == ASSUME Wired, NEW s \in Sweepers, Fail(s) PROVE Wired'
<1> DEFINE t == sweep[s]
           r == Done(t)
<1>1. /\ t \in Work /\ t.step = "submit" /\ GiveBack(s, t.session) /\ Become(s, r)
      /\ UNCHANGED <<incoming, drops, filed, raced, ledger, refused, cut, faults, lock>>
  BY DEF Wired, TypeOK, Fail, Step, folder, book
<1>2. r = [step |-> "loop", guard |-> t.guard, todo |-> t.todo \ {t.name},
           name |-> None, file |-> 0, session |-> None, dest |-> None]
  BY <1>1, DoneRow
<1>3. r \in Work
  BY <1>1, <1>2, Constants DEF Work
<1>4. r.guard = t.guard /\ r.session = None /\ r.step = "loop"
  BY <1>2
<1> HIDE DEF r
<1>5. /\ sweep' \in [Sweepers -> Work]
      /\ pool' \in [Processes -> Seqs] /\ PoolsOK' /\ HeldOK' /\ StepOK' /\ LockOK'
  BY <1>1, <1>3, <1>4, SessionBack
<1> QED BY <1>1, <1>5 DEF Wired, TypeOK, Seqs

\* A file is done: the sweep keeps its guard and goes on.
LEMMA NextFile ==
    ASSUME Wired, NEW s \in Sweepers, sweep[s].step = "file",
           Become(s, Done(sweep[s])), UNCHANGED <<pool, lock>>
    PROVE  /\ sweep' \in [Sweepers -> Work] /\ PoolsOK' /\ HeldOK' /\ StepOK' /\ LockOK'
           /\ sweep'[s].step = "loop" /\ \A u \in Sweepers : u # s => sweep'[u] = sweep[u]
<1> DEFINE t == sweep[s]
           r == Done(t)
<1>1. t \in Work /\ t.session = None
  BY DEF Wired, TypeOK, StepOK
<1>2. r = [step |-> "loop", guard |-> t.guard, todo |-> t.todo \ {t.name},
           name |-> None, file |-> 0, session |-> None, dest |-> None]
  BY <1>1, DoneRow
<1>3. r \in Work
  BY <1>1, <1>2, Constants DEF Work
<1>4. r.guard = t.guard /\ r.session = t.session /\ r.step = "loop"
  BY <1>1, <1>2
<1> HIDE DEF r
<1>5. /\ sweep' \in [Sweepers -> Work] /\ sweep'[s] = r
      /\ \A u \in Sweepers : u # s => sweep'[u] = sweep[u]
  BY <1>3, Becomes DEF Wired, r
<1>6. \A u \in Sweepers : /\ sweep'[u].guard = sweep[u].guard
                          /\ sweep'[u].session = sweep[u].session
  BY <1>4, <1>5
<1>7. \A u \in Sweepers : Held(u)' = Held(u)
  BY <1>6 DEF Held
<1>8. PoolsOK' /\ HeldOK'
  BY <1>6, <1>7 DEF Wired, PoolsOK, HeldOK
<1>9. StepOK' /\ LockOK'
  BY <1>4, <1>5, <1>6 DEF Wired, StepOK, LockOK, Taking
<1> QED BY <1>4, <1>5, <1>8, <1>9

LEMMA FileAwayWired ==
    ASSUME Wired, FilesOK, NEW s \in Sweepers, FileAway(s)
    PROVE  Wired'
<1> DEFINE t == sweep[s]
<1>1. /\ t.step = "file" /\ Become(s, Done(t)) /\ filed' = filed \cup {incoming[t.name]}
      /\ incoming' = [incoming EXCEPT ![t.name] = 0]
      /\ UNCHANGED <<drops, raced, ledger, refused, cut, faults, pool, lock>>
  BY DEF FileAway, Step, book
<1>2. t.name \in Names
  BY <1>1, FileInHand DEF Hand, Wired
<1>3. sweep' \in [Sweepers -> Work] /\ PoolsOK' /\ HeldOK' /\ StepOK' /\ LockOK'
  BY <1>1, NextFile
<1> HIDE DEF t
<1>4. /\ incoming \in [Names -> 0 .. MaxDrops] /\ 0 \in 0 .. MaxDrops
      /\ filed \subseteq 0 .. MaxDrops
  BY Constants DEF Wired, TypeOK
<1>5. incoming' \in [Names -> 0 .. MaxDrops] /\ filed' \subseteq 0 .. MaxDrops
  BY <1>1, <1>2, <1>4
<1>6. TypeOK'
  BY <1>1, <1>3, <1>5 DEF Wired, TypeOK
<1> QED BY <1>3, <1>6 DEF Wired

LEMMA MoveFailsWired ==
    ASSUME Wired, NEW s \in Sweepers, MoveFails(s)
    PROVE  Wired'
<1> DEFINE t == sweep[s]
<1>1. /\ t.step = "file" /\ faults' = faults + 1 /\ faults < MaxFaults
      /\ cut' = IF Committed(t) THEN [cut EXCEPT ![t.file] = @ + 1] ELSE cut
      /\ UNCHANGED <<incoming, drops, filed, raced, ledger, refused>>
  BY DEF MoveFails, Step, folder
<1>2. cut' \in [1 .. MaxDrops -> Nat] /\ faults' \in 0 .. MaxFaults
  <2>1. faults' \in 0 .. MaxFaults
    BY <1>1, Constants DEF Wired, TypeOK
  <2>2. cut \in [1 .. MaxDrops -> Nat]
    BY DEF Wired, TypeOK
  <2> DEFINE f == t.file
  <2> HIDE DEF f
  <2>3. cut' = [cut EXCEPT ![f] = cut[f] + 1] \/ cut' = cut
    BY <1>1, <2>2 DEF f
  <2>4. f \in 1 .. MaxDrops => cut[f] + 1 \in Nat
    BY <2>2
  <2>5. cut' \in [1 .. MaxDrops -> Nat]
    BY <2>2, <2>3, <2>4
  <2> QED BY <2>1, <2>5
<1>3. CASE t.dest = "processed"
  <2>1. Become(s, Done(t)) /\ UNCHANGED <<pool, lock>>
    BY <1>3 DEF MoveFails
  <2>2. sweep' \in [Sweepers -> Work] /\ PoolsOK' /\ HeldOK' /\ StepOK' /\ LockOK'
    BY <1>1, <2>1, NextFile
  <2> QED BY <1>1, <1>2, <2>1, <2>2 DEF Wired, TypeOK
<1>4. CASE t.dest # "processed"
  <2>1. /\ Become(s, Idle) /\ GiveBack(s, t.guard)
        /\ lock' = IF lock.depth = 1 THEN Free ELSE [lock EXCEPT !.depth = @ - 1]
    BY <1>4 DEF MoveFails
  <2>2. Idle \in Work /\ Idle.guard = None /\ Idle.session = None /\ Idle.step = "idle"
    BY IdleWork DEF Idle
  <2> HIDE DEF t
  <2>3. /\ sweep' \in [Sweepers -> Work]
        /\ pool' \in [Processes -> Seqs] /\ PoolsOK' /\ HeldOK' /\ StepOK' /\ LockOK'
    BY <1>1, <2>1, <2>2, GuardBack DEF t
  <2>4. lock' \in [by : Connections, depth : Nat \ {0}] \cup {Free}
    <3>1. lock.by # None
      BY <1>1, Constants, Exclusive DEF Taking, t
    <3>2. lock \in [by : Connections, depth : Nat \ {0}]
      BY <3>1 DEF Wired, TypeOK, Free
    <3> QED BY <2>1, <3>2
  <2> QED BY <1>1, <1>2, <2>3, <2>4 DEF Wired, TypeOK, Seqs
<1> QED BY <1>3, <1>4

LEMMA FinishWired == ASSUME Wired, NEW s \in Sweepers, Finish(s) PROVE Wired'
<1> DEFINE r == [Idle EXCEPT !.step = "unlock"]
<1>1. /\ sweep[s].step = "loop" /\ Become(s, r) /\ GiveBack(s, sweep[s].guard)
      /\ UNCHANGED <<incoming, drops, filed, raced, ledger, refused, cut, faults, lock>>
  BY DEF Finish, Step, folder, book
<1>2. r \in Work /\ r.guard = None /\ r.session = None /\ r.step = "unlock"
  BY IdleWork DEF Idle
<1> HIDE DEF r
<1>3. /\ sweep' \in [Sweepers -> Work]
      /\ pool' \in [Processes -> Seqs] /\ PoolsOK' /\ HeldOK' /\ StepOK' /\ LockOK'
  BY <1>1, <1>2, GuardBack
<1> QED BY <1>1, <1>3 DEF Wired, TypeOK, Seqs

\* The connection it unlocks with is in the pool, so no sweep that takes files holds by it.
LEMMA UnlockWired == ASSUME Wired, NEW s \in Sweepers, Unlock(s) PROVE Wired'
<1> DEFINE q == pool[P(s)]
           c == Head(q)
<1>1. P(s) \in Processes /\ q \in Seqs /\ IsInjective(q) /\ q # <<>>
  BY PoolTyped, Constants DEF Unlock, Connected, P
<1>2. /\ Rotated(q) \in Seqs /\ IsInjective(Rotated(q)) /\ Range(Rotated(q)) = Range(q)
      /\ c \in Range(q)
  BY <1>1, RotatedOK, TailOK
<1>3. /\ pool' = [pool EXCEPT ![P(s)] = Rotated(q)]
      /\ Become(s, Idle) /\ sweep[s].step = "unlock"
      /\ UNCHANGED <<incoming, drops, filed, raced, ledger, refused, cut, faults>>
  BY DEF Unlock, Step, folder, book, P
<1>4. lock' = CASE lock.by # c -> lock
                [] lock.by = c /\ lock.depth = 1 -> Free
                [] OTHER -> [lock EXCEPT !.depth = @ - 1]
  BY DEF Unlock, P
<1>5. Idle \in Work /\ Idle.guard = None /\ Idle.session = None /\ Idle.step = "idle"
  BY IdleWork DEF Idle
<1>6. /\ sweep' \in [Sweepers -> Work] /\ sweep'[s] = Idle
      /\ \A u \in Sweepers : u # s => sweep'[u] = sweep[u]
  BY <1>3, <1>5, Becomes DEF Wired
<1>7. c \in Connections
  BY <1>1, TailOK
<1> HIDE DEF q, c
<1>8. /\ pool' \in [Processes -> Seqs] /\ PoolsOK' /\ pool'[P(s)] = Rotated(q)
      /\ \A x \in Processes : x # P(s) => pool'[x] = pool[x]
  <2>1. Range(Rotated(q)) \subseteq Range(PoolOf[P(s)])
    BY <1>1, <1>2, PoolTyped DEF q
  <2> QED BY <1>1, <1>2, <1>3, <2>1, PoolMoved
<1>9. HeldOK'
  <2>1. Held(s)' = {} /\ sweep'[s].guard = None
    BY <1>5, <1>6 DEF Held
  <2> QED BY <1>2, <1>6, <1>8, <2>1, HeldMoved DEF q
<1>10. StepOK'
  BY <1>5, <1>6 DEF Wired, StepOK, Taking
<1>11. LockOK'
  <2> SUFFICES ASSUME NEW u \in Sweepers, Taking(u)' PROVE lock'.by = sweep'[u].guard
    BY DEF LockOK
  <2>1. u # s /\ Taking(u) /\ sweep'[u] = sweep[u]
    BY <1>5, <1>6 DEF Taking
  <2>2. lock.by = sweep[u].guard /\ lock.by \notin Range(q)
    BY <1>1, <2>1, Exclusive DEF q
  <2>3. lock' = lock
    BY <1>2, <1>4, <2>2
  <2> QED BY <2>1, <2>2, <2>3
<1>12. lock' \in [by : Connections, depth : Nat \ {0}] \cup {Free}
  <2>1. CASE lock.by # c
    BY <1>4, <2>1 DEF Wired, TypeOK
  <2>2. CASE lock.by = c
    <3>1. lock \in [by : Connections, depth : Nat \ {0}]
      BY <1>7, <2>2, Constants DEF Wired, TypeOK, Free
    <3>2. lock' = IF lock.depth = 1 THEN Free ELSE [lock EXCEPT !.depth = @ - 1]
      BY <1>4, <2>2
    <3> QED BY <3>1, <3>2
  <2> QED BY <2>1, <2>2
<1>13. TypeOK'
  BY <1>3, <1>6, <1>8, <1>12 DEF Wired, TypeOK, Seqs
<1> QED BY <1>8, <1>9, <1>10, <1>11, <1>13 DEF Wired

\* Only the process's own connections and sweeps are gone.
LEMMA CrashWired == ASSUME Wired, NEW p \in Processes, Crash(p) PROVE Wired'
<1> DEFINE own == Range(PoolOf[p])
           lost == {sweep[s].file : s \in {x \in Sweepers : ProcessOf[x] = p /\ Committed(sweep[x])}}
<1>1. /\ pool' = [pool EXCEPT ![p] = PoolOf[p]]
      /\ lock' = IF lock.by \in own THEN Free ELSE lock
      /\ sweep' = [s \in Sweepers |-> IF P(s) = p THEN Idle ELSE sweep[s]]
      /\ faults < MaxFaults /\ faults' = faults + 1
      /\ UNCHANGED <<incoming, drops, filed, raced, ledger, refused>>
  BY DEF Crash, folder, P
<1>2. cut' \in [1 .. MaxDrops -> Nat]
  <2>1. PICK S : cut' = [f \in DOMAIN cut |-> IF f \in S THEN cut[f] + 1 ELSE cut[f]]
    BY DEF Crash
  <2> QED BY <2>1 DEF Wired, TypeOK
<1>3. Idle \in Work /\ Idle.guard = None /\ Idle.session = None /\ Idle.step = "idle"
  BY IdleWork DEF Idle
<1>4. /\ sweep' \in [Sweepers -> Work]
      /\ \A u \in Sweepers : P(u) = p => sweep'[u] = Idle
      /\ \A u \in Sweepers : P(u) # p => sweep'[u] = sweep[u]
  BY <1>1, <1>3 DEF Wired, TypeOK
<1>5. /\ PoolOf[p] \in Seqs /\ IsInjective(PoolOf[p]) /\ \A s \in Sweepers : P(s) \in Processes
      /\ \A x \in Processes : x # p => Range(PoolOf[x]) \cap own = {}
  BY Constants
<1>6. /\ pool' \in [Processes -> Seqs] /\ PoolsOK' /\ pool'[p] = PoolOf[p]
      /\ \A x \in Processes : x # p => pool'[x] = pool[x]
  BY <1>1, <1>5, PoolMoved
<1>7. HeldOK'
  <2>1. /\ \A u \in Sweepers : P(u) = p => Held(u)' = {} /\ sweep'[u].guard = None
        /\ \A u \in Sweepers : P(u) # p => Held(u)' = Held(u)
    BY <1>3, <1>4 DEF Held
  <2> SUFFICES ASSUME NEW u \in Sweepers
               PROVE  /\ Held(u)' \subseteq Range(PoolOf[P(u)]) \ Range(pool'[P(u)])
                      /\ sweep'[u].guard # None => sweep'[u].guard # sweep'[u].session
                      /\ \A v \in Sweepers : v # u => Held(u)' \cap Held(v)' = {}
    BY DEF HeldOK
  <2>2. CASE P(u) = p
    BY <2>1, <2>2
  <2>3. CASE P(u) # p
    BY <1>4, <1>5, <1>6, <2>1, <2>3 DEF Wired, HeldOK
  <2> QED BY <2>2, <2>3
<1>8. StepOK'
  BY <1>3, <1>4 DEF Wired, StepOK, Taking
<1>9. LockOK'
  <2> SUFFICES ASSUME NEW u \in Sweepers, Taking(u)' PROVE lock'.by = sweep'[u].guard
    BY DEF LockOK
  <2>1. P(u) # p /\ sweep'[u] = sweep[u] /\ Taking(u)
    BY <1>3, <1>4 DEF Taking
  <2>2. lock.by = sweep[u].guard /\ lock.by \in Range(PoolOf[P(u)])
    BY <2>1, Exclusive
  <2>3. lock' = lock
    BY <1>1, <1>5, <2>1, <2>2
  <2> QED BY <2>1, <2>2, <2>3
<1>10. faults' \in 0 .. MaxFaults
  BY <1>1, Constants DEF Wired, TypeOK
<1>11. TypeOK'
  BY <1>1, <1>2, <1>4, <1>6, <1>10 DEF Wired, TypeOK, Seqs
<1> QED BY <1>6, <1>7, <1>8, <1>9, <1>11 DEF Wired

-----------------------------------------------------------------------------
(* The steps, on the files.                                                *)

LEMMA OnlyOne ==
    ASSUME Wired, NEW s \in Sweepers, Taking(s)
    PROVE  \A u \in Sweepers : Taking(u) => u = s
BY Exclusive DEF OneSweepAtATime

\* Sweeps only leave files, and nothing in the folder moves.
LEMMA FilesKept ==
    ASSUME FilesOK, UNCHANGED <<incoming, drops, raced>>,
           \A u \in Sweepers : Hand(u)' => /\ Hand(u) /\ sweep'[u].name = sweep[u].name
                                           /\ sweep'[u].file = sweep[u].file
    PROVE  FilesOK'
BY DEF FilesOK

\* A file nobody could take before cannot be taken now.
LEMMA WaitingKept ==
    ASSUME UNCHANGED <<incoming, drops>>,
           \A u \in Sweepers : sweep'[u].step = "submit"
                               => sweep[u].step = "submit" /\ sweep'[u].file = sweep[u].file
    PROVE  \A f : Waiting(f)' => Waiting(f)
BY DEF Waiting

\* A sweep that holds the folder is the only one with a file.
LEMMA MovingOne ==
    ASSUME Wired, NEW s \in Sweepers, Taking(s)
    PROVE  \A f : Moving(f) <=> Committed(sweep[s]) /\ sweep[s].file = f
BY OnlyOne DEF Moving, Committed, Taking

\* Steps that leave the books alone and take no file in hand.
LEMMA Quiet ==
    ASSUME IInv,
           UNCHANGED <<incoming, drops, raced, filed, ledger, refused, cut>>,
           \A u \in Sweepers : Hand(u) \/ Hand(u)' =>
                \/ sweep'[u] = sweep[u]
                \/ sweep[u].step = "submit" /\ ~Hand(u)'
    PROVE  FilesOK' /\ LedgerOK' /\ FiledOK'
<1>1. FilesOK'
  BY FilesKept DEF IInv, Hand
<1>2. \A f : Waiting(f)' => Waiting(f)
  BY WaitingKept DEF Hand
<1>3. \A f : Moving(f) => Moving(f)'
  BY DEF Moving, Committed, Hand
<1>4. LedgerOK'
  BY <1>2, <1>3 DEF IInv, LedgerOK
<1>5. FiledOK'
  BY DEF IInv, FiledOK, NoneLost, Hand
<1> QED BY <1>1, <1>4, <1>5

LEMMA DropFiles == ASSUME IInv, NEW n \in Names, Drop(n) PROVE FilesOK' /\ LedgerOK' /\ FiledOK'
<1>1. /\ drops' = drops + 1 /\ incoming' = [incoming EXCEPT ![n] = drops + 1]
      /\ raced' = (IF InHand(n) # {} THEN raced \cup {drops + 1} ELSE raced)
      /\ drops < MaxDrops
      /\ UNCHANGED <<filed, ledger, refused, cut, sweep>>
  BY DEF Drop, book
<1>2. /\ incoming \in [Names -> 0 .. MaxDrops] /\ drops \in Nat
      /\ \A m \in Names : incoming[m] \in Nat /\ incoming[m] <= drops
      /\ incoming'[n] = drops + 1 /\ \A m \in Names : m # n => incoming'[m] = incoming[m]
  BY <1>1, Constants DEF IInv, Wired, TypeOK, FilesOK
<1>3. FilesOK'
  <2>1. \A m \in Names : incoming'[m] <= drops'
    BY <1>1, <1>2
  <2>2. \A m, k \in Names : incoming'[m] # 0 /\ incoming'[m] = incoming'[k] => m = k
    <3> SUFFICES ASSUME NEW m \in Names, NEW k \in Names,
                        incoming'[m] # 0, incoming'[m] = incoming'[k]
                 PROVE  m = k
      OBVIOUS
    <3>1. \A x \in Names : incoming[x] # drops + 1
      BY <1>2
    <3> QED BY <1>2, <3>1 DEF IInv, FilesOK
  <2>3. ASSUME NEW s \in Sweepers, Hand(s)
        PROVE  /\ sweep[s].name \in Names /\ sweep[s].file \in 1 .. drops'
               /\ \A m \in Names : incoming'[m] = sweep[s].file => m = sweep[s].name
               /\ incoming'[sweep[s].name] \in {sweep[s].file} \cup raced'
    <3>1. /\ sweep[s].name \in Names /\ sweep[s].file \in 1 .. drops
          /\ \A m \in Names : incoming[m] = sweep[s].file => m = sweep[s].name
          /\ incoming[sweep[s].name] \in {sweep[s].file} \cup raced
      BY <2>3 DEF IInv, FilesOK
    <3>2. sweep[s].file \in 1 .. drops' /\ sweep[s].file # drops + 1
      BY <1>1, <1>2, <3>1
    <3>3. \A m \in Names : incoming'[m] = sweep[s].file => m = sweep[s].name
      BY <1>2, <3>1, <3>2
    <3>4. CASE sweep[s].name = n
      BY <1>1, <1>2, <2>3, <3>1, <3>2, <3>3, <3>4 DEF InHand, Hand
    <3>5. CASE sweep[s].name # n
      BY <1>1, <1>2, <3>1, <3>2, <3>3, <3>5
    <3> QED BY <3>4, <3>5
  <2> QED BY <1>1, <2>1, <2>2, <2>3 DEF FilesOK, Hand
<1>4. \A f \in 1 .. MaxDrops : Waiting(f)' => Waiting(f)
  BY <1>1, <1>2 DEF Waiting
<1>5. \A f : Moving(f)' <=> Moving(f)
  BY <1>1 DEF Moving
<1>6. LedgerOK'
  BY <1>1, <1>4, <1>5 DEF IInv, LedgerOK
<1>7. FiledOK'
  BY <1>1 DEF IInv, FiledOK, NoneLost
<1> QED BY <1>3, <1>6, <1>7

LEMMA TakeFiles ==
    ASSUME IInv, NEW s \in Sweepers, NEW n \in Names, Take(s, n)
    PROVE  FilesOK' /\ LedgerOK' /\ FiledOK'
<1> DEFINE t == sweep[s]
           c == Head(pool[ProcessOf[s]])
           r == [step |-> "submit", guard |-> t.guard, todo |-> t.todo, name |-> n,
                 file |-> incoming[n], session |-> c, dest |-> t.dest]
<1>1. t \in Work /\ incoming[n] \in 0 .. MaxDrops
  BY DEF IInv, Wired, TypeOK
<1>2. Become(s, r)
  <2>1. \A f, x : [t EXCEPT !.step = "submit", !.name = n, !.file = f, !.session = x]
                 = [step |-> "submit", guard |-> t.guard, todo |-> t.todo, name |-> n,
                    file |-> f, session |-> x, dest |-> t.dest]
    BY <1>1, TakeRow
  <2>2. Become(s, [t EXCEPT !.step = "submit", !.name = n, !.file = incoming[n], !.session = c])
    BY DEF Take
  <2> QED BY <2>1, <2>2, Zenon
<1>3. r.step = "submit" /\ r.name = n /\ r.file = incoming[n]
  OBVIOUS
<1>4. /\ t.step = "loop" /\ incoming[n] # 0
      /\ UNCHANGED <<incoming, drops, filed, raced, ledger, refused, cut>>
  BY DEF Take, Step, folder, book
<1> HIDE DEF r
<1>5. sweep'[s] = r /\ \A u \in Sweepers : u # s => sweep'[u] = sweep[u]
  BY <1>2 DEF Become, IInv, Wired, TypeOK
<1>6. FilesOK'
  <2>1. incoming[n] \in 1 .. drops
    BY <1>1, <1>4 DEF IInv, FilesOK, Wired, TypeOK
  <2> QED BY <1>3, <1>4, <1>5, <2>1 DEF IInv, FilesOK, Hand
<1>7. \A f : Waiting(f)' => Waiting(f)
  BY <1>3, <1>4, <1>5 DEF Waiting
<1>8. \A f : Moving(f) => Moving(f)'
  BY <1>4, <1>5 DEF Moving, Committed
<1>9. LedgerOK'
  BY <1>4, <1>7, <1>8 DEF IInv, LedgerOK
<1>10. FiledOK'
  BY <1>3, <1>4, <1>5 DEF IInv, FiledOK, NoneLost
<1> QED BY <1>6, <1>9, <1>10

\* A file that leaves its session keeps its name.
LEMMA LeavesSession ==
    ASSUME TypeOK, NEW s \in Sweepers, NEW d,
           Become(s, [sweep[s] EXCEPT !.step = "file", !.dest = d, !.session = None])
    PROVE  /\ sweep'[s].step = "file" /\ sweep'[s].dest = d
           /\ sweep'[s].name = sweep[s].name /\ sweep'[s].file = sweep[s].file
           /\ \A u \in Sweepers : u # s => sweep'[u] = sweep[u]
<1> DEFINE t == sweep[s]
           r == [step |-> "file", guard |-> t.guard, todo |-> t.todo, name |-> t.name,
                 file |-> t.file, session |-> None, dest |-> d]
<1>1. t \in Work
  BY DEF TypeOK
<1>2. r = [t EXCEPT !.step = "file", !.dest = d, !.session = None]
  BY <1>1, LeaveRow
<1>3. Become(s, r)
  BY <1>2, Zenon
<1>4. r.step = "file" /\ r.dest = d /\ r.name = t.name /\ r.file = t.file
  OBVIOUS
<1> HIDE DEF r
<1>5. sweep'[s] = r /\ \A u \in Sweepers : u # s => sweep'[u] = sweep[u]
  BY <1>3 DEF Become, TypeOK
<1> QED BY <1>4, <1>5

LEMMA CommitFiles ==
    ASSUME IInv, NEW s \in Sweepers, NEW dest \in {"processed", "kept"}, Commit(s, dest)
    PROVE  FilesOK' /\ LedgerOK' /\ FiledOK'
<1> DEFINE f == sweep[s].file
<1>1. /\ sweep'[s].step = "file" /\ sweep'[s].dest = dest
      /\ sweep'[s].name = sweep[s].name /\ sweep'[s].file = f
      /\ \A u \in Sweepers : u # s => sweep'[u] = sweep[u]
  BY LeavesSession DEF Commit, IInv, Wired
<1>2. /\ sweep[s].step = "submit" /\ ledger' = [ledger EXCEPT ![f] = ledger[f] + 1]
      /\ UNCHANGED <<incoming, drops, filed, raced, refused, cut>>
  BY DEF Commit, Step, folder, IInv, Wired, TypeOK
<1>3. FilesOK'
  BY <1>1, <1>2, FilesKept DEF IInv, Hand
<1>4. f \in 1 .. MaxDrops
  BY <1>2, FileInHand DEF IInv, Wired, Hand
<1>5. /\ \A x \in 1 .. MaxDrops : ledger[x] \in Nat /\ cut[x] \in Nat
      /\ ledger'[f] = ledger[f] + 1 /\ \A x \in 1 .. MaxDrops : x # f => ledger'[x] = ledger[x]
  BY <1>2, <1>4 DEF IInv, Wired, TypeOK
<1>6. \A x : ~Moving(x)
  BY <1>2, MovingOne DEF IInv, Taking, Committed
<1>7. \A x : Waiting(x)' => Waiting(x)
  BY <1>1, <1>2, WaitingKept
<1>8. Waiting(f) /\ \A x : x = f => Moving(x)'
  BY <1>1, <1>2 DEF Waiting, Moving, Committed
<1>9. ledger[f] <= cut[f]
  BY <1>4, <1>6, <1>8 DEF IInv, LedgerOK
<1> HIDE DEF f
<1>10. LedgerOK'
  <2> SUFFICES ASSUME NEW x \in 1 .. MaxDrops
               PROVE  /\ ledger'[x] <= 1 + cut'[x]
                      /\ Waiting(x)' /\ ~Moving(x)' => ledger'[x] <= cut'[x]
    BY DEF LedgerOK
  <2>1. CASE x = f
    BY <1>2, <1>4, <1>5, <1>8, <1>9, <2>1
  <2>2. CASE x # f
    BY <1>2, <1>5, <1>6, <1>7, <2>2 DEF IInv, LedgerOK
  <2> QED BY <2>1, <2>2
<1>11. FiledOK'
  <2>1. ledger'[f] > 0
    BY <1>4, <1>5
  <2>2. \A x \in 0 .. MaxDrops : ledger'[x] > 0 \/ ledger'[x] = ledger[x]
    BY <1>2, <2>1 DEF IInv, Wired, TypeOK
  <2>3. NoneLost'
    BY <1>2, <2>2 DEF IInv, Wired, TypeOK, FiledOK, NoneLost
  <2>4. \A u \in Sweepers : sweep'[u].step = "file"
                            => sweep'[u].file \in refused' \/ ledger'[sweep'[u].file] > 0
    BY <1>1, <1>2, <2>1, OnlyOne DEF IInv, Taking, f
  <2> QED BY <2>3, <2>4 DEF FiledOK
<1> QED BY <1>3, <1>10, <1>11

LEMMA RefuseFiles ==
    ASSUME IInv, NEW s \in Sweepers, Refuse(s)
    PROVE  FilesOK' /\ LedgerOK' /\ FiledOK'
<1>1. /\ sweep'[s].step = "file" /\ sweep'[s].dest = "refused"
      /\ sweep'[s].name = sweep[s].name /\ sweep'[s].file = sweep[s].file
      /\ \A u \in Sweepers : u # s => sweep'[u] = sweep[u]
  BY LeavesSession DEF Refuse, IInv, Wired
<1>2. /\ sweep[s].step = "submit" /\ refused' = refused \cup {sweep[s].file}
      /\ UNCHANGED <<incoming, drops, filed, raced, ledger, cut>>
  BY DEF Refuse, Step, folder
<1>3. FilesOK'
  BY <1>1, <1>2, FilesKept DEF IInv, Hand
<1>4. \A x : ~Moving(x)
  BY <1>2, MovingOne DEF IInv, Taking, Committed
<1>5. \A x : Waiting(x)' => Waiting(x)
  BY <1>1, <1>2, WaitingKept
<1>6. LedgerOK'
  BY <1>2, <1>4, <1>5 DEF IInv, LedgerOK
<1>7. FiledOK'
  BY <1>1, <1>2 DEF IInv, FiledOK, NoneLost
<1> QED BY <1>3, <1>6, <1>7

LEMMA FailFiles ==
    ASSUME IInv, NEW s \in Sweepers, Fail(s)
    PROVE  FilesOK' /\ LedgerOK' /\ FiledOK'
<1>1. /\ sweep[s].step = "submit" /\ Become(s, Done(sweep[s])) /\ sweep[s] \in Work
      /\ UNCHANGED <<incoming, drops, filed, raced, ledger, refused, cut>>
  BY DEF Fail, Step, folder, book, IInv, Wired, TypeOK
<1>2. sweep'[s] = Done(sweep[s]) /\ \A u \in Sweepers : u # s => sweep'[u] = sweep[u]
  BY <1>1 DEF Become, IInv, Wired, TypeOK
<1>3. sweep'[s].step = "loop"
  BY <1>1, <1>2, DoneRow
<1> QED BY <1>1, <1>2, <1>3, Quiet DEF Hand

\* What lies under the name is the file in hand, or one written over it.
LEMMA FileAwayFiles ==
    ASSUME IInv, NEW s \in Sweepers, FileAway(s)
    PROVE  FilesOK' /\ LedgerOK' /\ FiledOK'
<1> DEFINE n == sweep[s].name
           f == sweep[s].file
<1>1. /\ sweep[s].step = "file" /\ Become(s, Done(sweep[s]))
      /\ filed' = filed \cup {incoming[n]} /\ incoming' = [incoming EXCEPT ![n] = 0]
      /\ UNCHANGED <<drops, raced, ledger, refused, cut, pool, lock>>
  BY DEF FileAway, Step, book
<1>2. /\ sweep'[s].step = "loop" /\ \A u \in Sweepers : u # s => sweep'[u] = sweep[u]
  BY <1>1, NextFile DEF IInv
<1>3. /\ n \in Names /\ f \in 1 .. drops /\ f # 0 /\ incoming[n] \in {f} \cup raced
      /\ \A m \in Names : incoming[m] = f => m = n
  BY <1>1 DEF IInv, FilesOK, Hand
<1>4. /\ incoming'[n] = 0 /\ \A m \in Names : m # n => incoming'[m] = incoming[m]
      /\ drops \in Nat
  BY <1>1, <1>3, Constants DEF IInv, Wired, TypeOK
<1>5. \A u \in Sweepers : ~Hand(u)'
  BY <1>1, <1>2, OnlyOne DEF IInv, Taking, Hand
<1> HIDE DEF n, f
<1>6. FilesOK'
  <2>1. \A m \in Names : incoming'[m] <= drops'
    BY <1>1, <1>4 DEF IInv, FilesOK
  <2>2. \A m, k \in Names : incoming'[m] # 0 /\ incoming'[m] = incoming'[k] => m = k
    BY <1>4 DEF IInv, FilesOK
  <2> QED BY <1>5, <2>1, <2>2 DEF FilesOK
<1>7. \A x \in 1 .. MaxDrops : Waiting(x)' => Waiting(x) /\ x # f
  <2> SUFFICES ASSUME NEW x \in 1 .. MaxDrops, Waiting(x)' PROVE Waiting(x) /\ x # f
    OBVIOUS
  <2>1. CASE x > drops
    BY <1>3, <1>4, <2>1, Constants DEF Waiting
  <2>2. CASE \E m \in Names : incoming'[m] = x
    <3>1. PICK m \in Names : incoming'[m] = x
      BY <2>2
    <3>2. m # n /\ incoming[m] = x
      BY <1>4, <3>1, Constants
    <3> QED BY <1>3, <3>2 DEF Waiting
  <2>3. \A u \in Sweepers : sweep'[u].step # "submit"
    BY <1>5 DEF Hand
  <2> QED BY <1>1, <2>1, <2>2, <2>3 DEF Waiting
<1>8. \A x : Moving(x) => x = f
  BY <1>1, MovingOne DEF IInv, Taking, f
<1>9. LedgerOK'
  BY <1>1, <1>7, <1>8 DEF IInv, LedgerOK
<1>10. f \in refused \/ ledger[f] > 0
  BY <1>1 DEF IInv, FiledOK, f
<1>11. FiledOK'
  BY <1>1, <1>3, <1>5, <1>10 DEF IInv, FiledOK, NoneLost, Hand
<1> QED BY <1>6, <1>9, <1>11

LEMMA MoveFailsFiles ==
    ASSUME IInv, NEW s \in Sweepers, MoveFails(s)
    PROVE  FilesOK' /\ LedgerOK' /\ FiledOK'
<1> DEFINE t == sweep[s]
           f == t.file
<1>1. /\ t.step = "file"
      /\ cut' = IF Committed(t) THEN [cut EXCEPT ![f] = @ + 1] ELSE cut
      /\ UNCHANGED <<incoming, drops, filed, raced, ledger, refused>>
      /\ Become(s, Done(t)) \/ Become(s, Idle)
  BY DEF MoveFails, Step, folder
<1>2. t \in Work /\ f \in 1 .. MaxDrops
  BY <1>1, FileInHand DEF IInv, Wired, TypeOK, Hand
<1>3. sweep'[s].step \in {"loop", "idle"} /\ \A u \in Sweepers : u # s => sweep'[u] = sweep[u]
  <2>1. Done(t).step = "loop" /\ Idle.step = "idle"
    BY <1>2, DoneRow DEF Idle
  <2>2. \A r : Become(s, r) => sweep'[s] = r /\ \A u \in Sweepers : u # s => sweep'[u] = sweep[u]
    BY DEF Become, IInv, Wired, TypeOK
  <2> HIDE DEF t
  <2> QED BY <1>1, <2>1, <2>2
<1>4. \A u \in Sweepers : ~Hand(u)'
  BY <1>1, <1>3, OnlyOne DEF IInv, Taking, Hand
<1>5. FilesOK'
  BY <1>1, <1>4, FilesKept DEF IInv
<1>6. \A x : Waiting(x)' => Waiting(x)
  BY <1>1, <1>4, WaitingKept DEF Hand
<1>7. \A x : Moving(x) <=> Committed(t) /\ f = x
  BY <1>1, MovingOne DEF IInv, Taking
<1>8. \A x \in 1 .. MaxDrops : ledger[x] \in Nat /\ cut[x] \in Nat
  BY DEF IInv, Wired, TypeOK
<1>9. /\ Committed(t) => cut'[f] = cut[f] + 1
      /\ \A x \in 1 .. MaxDrops : cut'[x] = cut[x] \/ (x = f /\ Committed(t))
  <2>1. cut \in [1 .. MaxDrops -> Nat]
    BY DEF IInv, Wired, TypeOK
  <2> HIDE DEF t, f
  <2>2. cut' = (IF Committed(t) THEN [cut EXCEPT ![f] = cut[f] + 1] ELSE cut)
    BY <1>1, <2>1
  <2> QED BY <1>2, <2>1, <2>2
<1> HIDE DEF t, f
<1>10. LedgerOK'
  <2> SUFFICES ASSUME NEW x \in 1 .. MaxDrops
               PROVE  /\ ledger'[x] <= 1 + cut'[x]
                      /\ Waiting(x)' /\ ~Moving(x)' => ledger'[x] <= cut'[x]
    BY DEF LedgerOK
  <2>1. ledger[x] <= 1 + cut[x] /\ (Waiting(x) /\ ~Moving(x) => ledger[x] <= cut[x])
    BY DEF IInv, LedgerOK
  <2>2. CASE x = f /\ Committed(t)
    BY <1>1, <1>8, <1>9, <2>1, <2>2
  <2>3. CASE ~(x = f /\ Committed(t))
    BY <1>1, <1>6, <1>7, <1>9, <2>1, <2>3
  <2> QED BY <2>2, <2>3
<1>11. FiledOK'
  BY <1>1, <1>4 DEF IInv, FiledOK, NoneLost, Hand
<1> QED BY <1>5, <1>10, <1>11

LEMMA CrashFiles ==
    ASSUME IInv, NEW p \in Processes, Crash(p)
    PROVE  FilesOK' /\ LedgerOK' /\ FiledOK'
<1> DEFINE lost == {sweep[s].file : s \in {x \in {y \in Sweepers : ProcessOf[y] = p} :
                                              Committed(sweep[x])}}
<1>1. /\ sweep' = [s \in Sweepers |-> IF P(s) = p THEN Idle ELSE sweep[s]]
      /\ cut' = [f \in DOMAIN cut |-> IF f \in lost THEN cut[f] + 1 ELSE cut[f]]
      /\ UNCHANGED <<incoming, drops, filed, raced, ledger, refused>>
  BY DEF Crash, folder, P
<1>2. /\ \A u \in Sweepers : P(u) = p => sweep'[u].step = "idle"
      /\ \A u \in Sweepers : P(u) # p => sweep'[u] = sweep[u]
  BY <1>1 DEF Idle
<1>3. FilesOK'
  BY <1>1, <1>2, FilesKept DEF IInv, Hand
<1>4. \A x : Waiting(x)' => Waiting(x)
  BY <1>1, <1>2, WaitingKept
<1>5. \A x : Moving(x) => Moving(x)' \/ x \in lost
  BY <1>2 DEF Moving, P
<1> HIDE DEF lost
<1>6. LedgerOK'
  <2> SUFFICES ASSUME NEW x \in 1 .. MaxDrops
               PROVE  /\ ledger'[x] <= 1 + cut'[x]
                      /\ Waiting(x)' /\ ~Moving(x)' => ledger'[x] <= cut'[x]
    BY DEF LedgerOK
  <2>1. ledger[x] <= 1 + cut[x] /\ (Waiting(x) /\ ~Moving(x) => ledger[x] <= cut[x])
    BY DEF IInv, LedgerOK
  <2>2. /\ ledger[x] \in Nat /\ cut[x] \in Nat
        /\ cut'[x] = IF x \in lost THEN cut[x] + 1 ELSE cut[x]
    BY <1>1 DEF IInv, Wired, TypeOK
  <2> QED BY <1>1, <1>4, <1>5, <2>1, <2>2
<1>7. FiledOK'
  BY <1>1, <1>2 DEF IInv, FiledOK, NoneLost
<1> QED BY <1>3, <1>6, <1>7

-----------------------------------------------------------------------------
(* The invariant.                                                          *)

LEMMA InitInv == Init => IInv
<1> SUFFICES ASSUME Init PROVE IInv
  OBVIOUS
<1>1. sweep = [s \in Sweepers |-> Idle] /\ pool = PoolOf /\ lock = Free
  BY DEF Init
<1>2. \A s \in Sweepers : /\ sweep[s].step = "idle" /\ sweep[s].guard = None
                          /\ sweep[s].session = None
  BY <1>1 DEF Idle
<1>3. TypeOK
  <2>1. sweep \in [Sweepers -> Work]
    BY <1>1, IdleWork
  <2>2. pool \in [Processes -> Seqs]
    BY <1>1, PoolAssumption DEF Seqs
  <2>3. /\ 0 \in 0 .. MaxDrops /\ 0 \in 0 .. MaxFaults
        /\ incoming \in [Names -> 0 .. MaxDrops]
        /\ ledger \in [1 .. MaxDrops -> Nat] /\ cut \in [1 .. MaxDrops -> Nat]
        /\ lock \in [by : Connections, depth : Nat \ {0}] \cup {Free}
    BY <1>1, Constants DEF Init
  <2>4. /\ drops = 0 /\ filed = {} /\ raced = {} /\ refused = {} /\ faults = 0
    BY DEF Init
  <2> QED BY <2>1, <2>2, <2>3, <2>4 DEF TypeOK, Seqs
<1>4. PoolsOK
  BY <1>1, Constants DEF PoolsOK
<1>5. HeldOK /\ StepOK /\ LockOK
  BY <1>2 DEF HeldOK, Held, StepOK, LockOK, Taking
<1>6. FilesOK
  BY <1>2, Constants DEF Init, FilesOK, Hand
<1>7. LedgerOK
  BY Constants DEF Init, LedgerOK
<1>8. FiledOK
  BY <1>2 DEF Init, FiledOK, NoneLost
<1> QED BY <1>3, <1>4, <1>5, <1>6, <1>7, <1>8 DEF IInv, Wired

\* The steps that take no file in hand and move none.
LEMMA QuietSteps ==
    ASSUME IInv, NEW s \in Sweepers, Enter(s) \/ Busy(s) \/ Finish(s) \/ Unlock(s)
    PROVE  FilesOK' /\ LedgerOK' /\ FiledOK'
<1>1. UNCHANGED <<incoming, drops, raced, filed, ledger, refused, cut>>
  BY DEF Enter, Busy, Finish, Unlock, folder, book
<1>2. \/ UNCHANGED sweep
      \/ \E r : r.step \in {"loop", "unlock", "idle"} /\ Become(s, r) /\ ~Hand(s)
  <2>1. CASE Enter(s)
    <3>1. \A g, d : [Idle EXCEPT !.step = "loop", !.guard = g, !.todo = d].step = "loop"
      BY EnterRow
    <3>2. \E g, d : Become(s, [Idle EXCEPT !.step = "loop", !.guard = g, !.todo = d])
      BY <2>1 DEF Enter
    <3> QED BY <2>1, <3>1, <3>2 DEF Enter, Step, Hand
  <2>2. CASE Busy(s)
    BY <2>2 DEF Busy
  <2>3. CASE Finish(s)
    <3>1. [Idle EXCEPT !.step = "unlock"].step = "unlock"
      BY DEF Idle
    <3> QED BY <2>3, <3>1 DEF Finish, Step, Hand
  <2>4. CASE Unlock(s)
    <3>1. Idle.step = "idle"
      BY DEF Idle
    <3> QED BY <2>4, <3>1 DEF Unlock, Step, Hand
  <2> QED BY <2>1, <2>2, <2>3, <2>4
<1>3. \A u \in Sweepers : Hand(u) \/ Hand(u)' => sweep'[u] = sweep[u]
  <2>1. CASE UNCHANGED sweep
    BY <2>1
  <2>2. ASSUME NEW r, r.step \in {"loop", "unlock", "idle"}, Become(s, r), ~Hand(s)
        PROVE  \A u \in Sweepers : Hand(u) \/ Hand(u)' => sweep'[u] = sweep[u]
    <3>1. sweep'[s] = r /\ \A u \in Sweepers : u # s => sweep'[u] = sweep[u]
      BY <2>2 DEF Become, IInv, Wired, TypeOK
    <3> QED BY <2>2, <3>1 DEF Hand
  <2> QED BY <1>2, <2>1, <2>2
<1> QED BY <1>1, <1>3, Quiet

LEMMA NextInv == IInv /\ [Next]_vars => IInv'
<1> SUFFICES ASSUME IInv, [Next]_vars PROVE IInv'
  OBVIOUS
<1>1. Wired /\ FilesOK
  BY DEF IInv
<1>2. ASSUME NEW n \in Names, Drop(n) PROVE IInv'
  BY <1>1, <1>2, DropWired, DropFiles DEF IInv
<1>3. ASSUME NEW p \in Processes, OtherWork(p) PROVE IInv'
  <2>1. UNCHANGED <<incoming, drops, raced, filed, ledger, refused, cut, sweep>>
    BY <1>3 DEF OtherWork, folder, book
  <2> QED BY <1>1, <1>3, <2>1, OtherWorkWired, Quiet DEF IInv
<1>4. ASSUME NEW p \in Processes, Crash(p) PROVE IInv'
  BY <1>1, <1>4, CrashWired, CrashFiles DEF IInv
<1>5. ASSUME NEW s \in Sweepers, Sweep(s) PROVE IInv'
  <2>1. CASE Enter(s)
    BY <1>1, <2>1, EnterWired, QuietSteps DEF IInv
  <2>2. CASE Busy(s)
    BY <1>1, <2>2, BusyWired, QuietSteps DEF IInv
  <2>3. ASSUME NEW n \in Names, Take(s, n) PROVE IInv'
    BY <1>1, <2>3, TakeWired, TakeFiles DEF IInv
  <2>4. ASSUME NEW dest \in {"processed", "kept"}, Commit(s, dest) PROVE IInv'
    BY <1>1, <2>4, CommitWired, CommitFiles DEF IInv
  <2>5. CASE Refuse(s)
    BY <1>1, <2>5, RefuseWired, RefuseFiles DEF IInv
  <2>6. CASE Fail(s)
    BY <1>1, <2>6, FailWired, FailFiles DEF IInv
  <2>7. CASE FileAway(s)
    BY <1>1, <2>7, FileAwayWired, FileAwayFiles DEF IInv
  <2>8. CASE MoveFails(s)
    BY <1>1, <2>8, MoveFailsWired, MoveFailsFiles DEF IInv
  <2>9. CASE Finish(s)
    BY <1>1, <2>9, FinishWired, QuietSteps DEF IInv
  <2>10. CASE Unlock(s)
    BY <1>1, <2>10, UnlockWired, QuietSteps DEF IInv
  <2> QED BY <1>5, <2>1, <2>2, <2>3, <2>4, <2>5, <2>6, <2>7, <2>8, <2>9, <2>10 DEF Sweep
<1>6. CASE UNCHANGED vars
  <2>1. UNCHANGED <<incoming, drops, raced, filed, ledger, refused, cut, faults, pool, lock, sweep>>
    BY <1>6 DEF vars, folder, book
  <2>2. Wired'
    BY <1>1, <2>1 DEF Wired, TypeOK, PoolsOK, HeldOK, Held, StepOK, LockOK, Taking
  <2> QED BY <2>1, <2>2, Quiet DEF IInv
<1> QED BY <1>2, <1>3, <1>4, <1>5, <1>6 DEF Next

LEMMA AlwaysInv == Spec => []IInv
BY InitInv, NextInv, PTL DEF Spec

\* The folder's types: every connection, file and sweep in the books is a real one.
THEOREM TypeCorrect == Spec => []TypeOK
<1>1. IInv => TypeOK
  BY DEF IInv, Wired
<1> QED BY <1>1, AlwaysInv, PTL

\* "One sweep per channel at a time", for any number of servers, pools and threads,
\* although the pool can leave a lock behind on a connection that is idle: a sweep that
\* takes files holds the folder by a connection no other session can be given.
THEOREM OneAtATime == Spec => []OneSweepAtATime
<1>1. IInv => OneSweepAtATime
  BY Exclusive DEF IInv
<1> QED BY <1>1, AlwaysInv, PTL

\* "No file is ever taken twice", but once more for each time a process dies or a move
\* fails after the file was committed.
THEOREM TakenOnlyOnce == Spec => []TakenOnce
<1>1. IInv => TakenOnce
  <2> SUFFICES ASSUME IInv PROVE TakenOnce
    OBVIOUS
  <2>1. DOMAIN ledger = 1 .. MaxDrops
    BY DEF IInv, Wired, TypeOK
  <2> QED BY <2>1 DEF IInv, LedgerOK, TakenOnce
<1> QED BY <1>1, AlwaysInv, PTL

\* What leaves the folder is on the ledger or was turned away with its reason, except a
\* file written over one that was in hand.
THEOREM NothingLost == Spec => []NoneLost
<1>1. IInv => NoneLost
  BY DEF IInv, FiledOK
<1> QED BY <1>1, AlwaysInv, PTL
=============================================================================
