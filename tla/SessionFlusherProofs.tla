------------------------- MODULE SessionFlusherProofs -------------------------
(***************************************************************************)
(* Theorems about SessionFlusher for any threads, flusher threads and      *)
(* sessions, any number of forks and any size of an envelope.  SInv says   *)
(* which thread is the flusher, who has which list, and of a session where *)
(* it is.  Then theorems about Scopes.                                     *)
(***************************************************************************)
EXTENDS SessionFlusher, ScopesProperties, FiniteSetTheorems, SequenceTheorems,
        WellFoundedInduction, TLAPS

(* The thread that is at work is the one that is remembered, or is about   *)
(* to be.                                                                  *)
Busy(f) == pc[f] \notin {"new", "dead", "gone"}
Newest(f) == \A g \in Flushers : pc[g] # "new" => g <= f
ThreadInv ==
  /\ \A t \in Threads : pc[t] = "assign" <=> lock = t
  /\ \A t \in Threads : pc[t] \notin {"new", "wait", "dead"}
  /\ \A f \in Flushers : pc[f] \notin {"idle", "append", "start", "assign"}
  /\ \A f, g \in Flushers : pc[f] # "new" /\ pc[g] = "new" => f < g
  /\ \A f \in Flushers :
       Busy(f) => IF lock = None THEN ThreadIsThere /\ thread = f ELSE Newest(f)

(* Whoever has read the list appends to it, or has been overtaken by a     *)
(* flush, which then owns it.                                              *)
Owner(u) == pc[u] \in {"swap", "take", "sessions"} /\ None \notin into[u]
ListInv ==
  \A u \in Actors :
    /\ session[u] # None <=> pc[u] = "append"
    /\ session[u] \notin Requests
    /\ None \in into[u] => into[u] = {None}
    /\ pc[u] = "append" /\ None \notin into[u] => session[u] \in overlapped
    /\ pc[u] \in {"take", "sessions"} => None \notin into[u]
    /\ list[u] # {} => Owner(u)
    /\ \A t \in Actors : u \in into[t] => Owner(u)
    /\ pc[u] # "sessions" => taken[u] = {} /\ envelope[u] = {}

(* Where a session is. *)
Held(s)   == \E t \in Actors : session[t] = s
Due(s, t) == s \in list[t] \cup taken[t]
InDue(s)  == \E t \in Actors : Due(s, t)
Boxed(s, t) == s \in UNION envelope[t]
Packed(s) == \E t \in Actors : Boxed(s, t)

Nowhere(s) == ~Held(s) /\ s \notin Waiting /\ ~InDue(s) /\ ~Packed(s) /\ captured[s] = 0
Once(s) ==
  /\ Held(s) => s \notin Waiting /\ ~InDue(s) /\ ~Packed(s) /\ captured[s] = 0
  /\ s \in Waiting => ~InDue(s) /\ ~Packed(s) /\ captured[s] = 0
  /\ InDue(s) => ~Packed(s) /\ captured[s] = 0
  /\ Packed(s) => captured[s] = 0
  /\ \A t, u \in Actors : session[t] = s /\ session[u] = s => t = u
  /\ \A t, u \in Actors : Due(s, t) /\ Due(s, u) => t = u
  /\ \A t, u \in Actors : Boxed(s, t) /\ Boxed(s, u) => t = u
  /\ captured[s] <= 1
Fate(s) ==
  /\ s \notin added => Nowhere(s)
  /\ s \in added \ (inherited \cup overlapped) => Once(s)
  /\ s \in added \ inherited => Accounted(s) \/ s \in overlapped
FateInv == \A s \in Sessions : Fate(s)

SizeInv ==
  \A t \in Actors : IsFiniteSet(envelope[t]) /\ Cardinality(envelope[t]) <= MaxItems

SInv == Constants /\ TypeOK /\ ThreadInv /\ ListInv /\ FateInv /\ SizeInv

-----------------------------------------------------------------------------
LEMMA Members ==
  ASSUME Constants
  PROVE  /\ \A t \in Threads : t \in Actors /\ t \notin Flushers /\ t # None
         /\ \A f \in Flushers : f \in Actors /\ f \notin Threads /\ f \in Nat /\ f # None
         /\ \A u \in Actors : (u \in Threads \/ u \in Flushers) /\ u # None
         /\ \A s \in Sessions : s \in Nat /\ s # None
BY DEF Constants, Actors

(* A step of a thread that is none of _ensure_running.                     *)
LEMMA OwnStep ==
  ASSUME SInv, NEW a \in Actors, NEW p, pc' = [pc EXCEPT ![a] = p],
         UNCHANGED <<thread, threadForPid, pid, lock>>,
         a \in Threads => pc[a] # "assign" /\ p \in {"idle", "append", "start", "flush",
                                                     "swap", "take", "sessions"},
         a \in Flushers => Busy(a) /\ p \in {"wait", "dead", "flush", "swap", "take", "sessions"}
  PROVE  /\ ThreadInv'
         /\ pc' \in [Actors -> {"idle", "gone", "new", "wait", "dead", "append", "start",
                                "assign", "flush", "swap", "take", "sessions"}]
         /\ pc'[a] = p /\ \A u \in Actors \ {a} : pc'[u] = pc[u]
<1> USE DEF SInv
<1>1. p \in {"idle", "gone", "new", "wait", "dead", "append", "start",
             "assign", "flush", "swap", "take", "sessions"}
  BY Members
<1>2. pc'[a] = p /\ \A u \in Actors \ {a} : pc'[u] = pc[u]
  BY DEF TypeOK
<1>3. pc' \in [Actors -> {"idle", "gone", "new", "wait", "dead", "append", "start",
                          "assign", "flush", "swap", "take", "sessions"}]
  BY <1>1 DEF TypeOK
<1>4. \A t \in Threads : (pc'[t] = "assign" <=> lock' = t) /\ pc'[t] \notin {"new", "wait", "dead"}
  BY <1>2, Members DEF ThreadInv
<1>5. \A f \in Flushers : /\ pc'[f] \notin {"idle", "append", "start", "assign"}
                          /\ pc'[f] = "new" <=> pc[f] = "new"
                          /\ pc'[f] \notin {"new", "dead", "gone"} => Busy(f)
  BY <1>2, Members DEF ThreadInv, Busy
<1>6. \A f, g \in Flushers : pc'[f] # "new" /\ pc'[g] = "new" => f < g
  BY <1>5 DEF ThreadInv
<1>7. \A f \in Flushers :
        Busy(f)' => IF lock' = None THEN ThreadIsThere' /\ thread' = f ELSE Newest(f)'
  BY <1>5 DEF ThreadInv, Busy, Newest, ThreadIsThere
<1> QED
  BY <1>2, <1>3, <1>4, <1>5, <1>6, <1>7 DEF ThreadInv

(* A session that stays where it is keeps its fate.                        *)
LEMMA StaysThere ==
  ASSUME NEW s \in Sessions, Fate(s),
         s \in Waiting' <=> s \in Waiting,
         \A t \in Actors : session'[t] = s <=> session[t] = s,
         \A t \in Actors : Due(s, t)' <=> Due(s, t),
         \A t \in Actors : Boxed(s, t)' <=> Boxed(s, t),
         captured'[s] = captured[s],
         s \in failed => s \in failed',
         s \in added' <=> s \in added,
         s \in inherited' <=> s \in inherited,
         s \in overlapped => s \in overlapped'
  PROVE  Fate(s)'
<1>1. (Held(s)' <=> Held(s)) /\ (InDue(s)' <=> InDue(s)) /\ (Packed(s)' <=> Packed(s))
  BY DEF Held, InDue, Packed
<1>2. Accounted(s) <=> \/ captured[s] > 0 \/ s \in failed \cup Waiting
                       \/ Held(s) \/ InDue(s) \/ Packed(s)
  BY DEF Accounted, Taken, Held, InDue, Packed, Due, Boxed
<1>3. Accounted(s)' <=> \/ captured'[s] > 0 \/ s \in failed' \/ s \in Waiting'
                        \/ Held(s)' \/ InDue(s)' \/ Packed(s)'
  BY DEF Accounted, Taken, Held, InDue, Packed, Due, Boxed
<1>4. s \notin added' => Nowhere(s)'
  BY <1>1 DEF Fate, Nowhere
<1>5. s \in added' \ (inherited' \cup overlapped') => Once(s)'
  BY <1>1 DEF Fate, Once
<1>6. s \in added' \ inherited' => Accounted(s)' \/ s \in overlapped'
  BY <1>1, <1>2, <1>3 DEF Fate
<1> QED
  BY <1>4, <1>5, <1>6 DEF Fate

(* Nothing is at a new place.                                              *)
LEMMA AllStay ==
  ASSUME SInv, UNCHANGED <<buffers, session, list, taken, envelope, captured, failed,
                           added, inherited, overlapped>>
  PROVE  FateInv' /\ SizeInv'
<1>1. ASSUME NEW s \in Sessions
      PROVE  Fate(s)'
  BY StaysThere DEF SInv, FateInv, buffers, Waiting, Due, Boxed
<1> QED
  BY <1>1 DEF SInv, FateInv, SizeInv

-----------------------------------------------------------------------------
LEMMA StepStart ==
  ASSUME SInv, NEW t \in Threads, Start(t)
  PROVE  SInv'
<1> USE DEF SInv, Start, StartUnless
<1>1. /\ pc[t] = "start" /\ lock = None
      /\ UNCHANGED <<buffers, thread, threadForPid, pid, addState, flushState, ending,
                     captured, failed>>
  OBVIOUS
<1>2. FateInv' /\ SizeInv'
  BY <1>1, AllStay DEF addState, flushState
<1>3. CASE Goto(t, "idle") /\ UNCHANGED lock /\ shutdown' \in BOOLEAN /\ died' \in BOOLEAN
  <2>1. /\ ThreadInv'
        /\ pc' \in [Actors -> {"idle", "gone", "new", "wait", "dead", "append", "start",
                               "assign", "flush", "swap", "take", "sessions"}]
        /\ pc'[t] = "idle" /\ \A u \in Actors \ {t} : pc'[u] = pc[u]
    BY <1>1, <1>3, OwnStep, Members DEF Goto
  <2>2. TypeOK'
    BY <1>1, <1>3, <2>1 DEF TypeOK, buffers, addState, flushState
  <2>3. ListInv'
    BY <1>1, <2>1 DEF ListInv, Owner, addState, flushState
  <2> QED
    BY <1>2, <2>1, <2>2, <2>3 DEF Constants
<1>4. ASSUME NEW f \in Flushers, ~ThreadIsThere, pc[f] = "new",
             \A g \in Flushers : pc[g] = "new" => f <= g,
             pc' = [pc EXCEPT ![t] = "assign", ![f] = "wait"],
             lock' = t, UNCHANGED <<shutdown, died>>
      PROVE  SInv'
  <2>1. /\ pc'[t] = "assign" /\ pc'[f] = "wait" /\ t # f
        /\ \A u \in Actors \ {t, f} : pc'[u] = pc[u]
    BY <1>4, Members DEF TypeOK
  <2>2. TypeOK'
    BY <1>1, <1>4, Members DEF TypeOK, buffers, addState, flushState
  <2>3. \A g \in Flushers : pc[g] \in {"new", "dead", "gone"}
    BY <1>1, <1>4 DEF ThreadInv, Busy
  <2>4. \A g \in Flushers : pc[g] # "new" => g < f
    BY <1>4 DEF ThreadInv
  <2>5. \A g \in Flushers : pc[g] = "new" /\ g # f => f < g
    BY <1>4, Members
  <2>6. \A u \in Threads : /\ pc'[u] = "assign" <=> lock' = u
                           /\ pc'[u] \notin {"new", "wait", "dead"}
    BY <1>1, <1>4, <2>1, Members DEF ThreadInv
  <2>7. \A g \in Flushers : pc'[g] \notin {"idle", "append", "start", "assign"}
    BY <2>1, <2>3, Members
  <2>8. \A g, h \in Flushers : pc'[g] # "new" /\ pc'[h] = "new" => g < h
    BY <2>1, <2>4, <2>5, Members DEF ThreadInv
  <2>9. \A g \in Flushers : Busy(g)' => lock' # None /\ Newest(g)'
    <3>1. \A g \in Flushers : Busy(g)' => g = f
      BY <2>1, <2>3, Members DEF Busy
    <3>2. \A g \in Flushers : pc'[g] # "new" => g <= f
      BY <2>1, <2>4, Members
    <3> QED
      BY <1>4, <3>1, <3>2, Members DEF Newest
  <2>10. ThreadInv'
    BY <2>6, <2>7, <2>8, <2>9 DEF ThreadInv
  <2>11. ListInv'
    <3>1. \A u \in Actors : /\ pc'[u] = "append" <=> pc[u] = "append"
                            /\ pc'[u] \in {"swap", "take", "sessions"} <=>
                                 pc[u] \in {"swap", "take", "sessions"}
                            /\ pc'[u] \in {"take", "sessions"} <=> pc[u] \in {"take", "sessions"}
                            /\ pc'[u] = "sessions" <=> pc[u] = "sessions"
      BY <1>1, <1>4, <2>1, Members
    <3> QED
      BY <1>1, <3>1 DEF ListInv, Owner, addState, flushState
  <2> QED
    BY <1>2, <2>2, <2>10, <2>11 DEF Constants
<1> QED
  BY <1>3, <1>4 DEF TypeOK

LEMMA StepAssign ==
  ASSUME SInv, NEW t \in Threads, AssignThread(t)
  PROVE  SInv'
<1> USE DEF SInv, AssignThread
<1>1. PICK f \in Flushers : /\ pc[f] # "new" /\ \A g \in Flushers : pc[g] # "new" => g <= f
                            /\ thread' = f
  OBVIOUS
<1>2. lock = t /\ lock' = None /\ threadForPid' = pid /\ pid' = pid
  BY DEF ThreadInv
<1>3. pc'[t] = "idle" /\ \A u \in Actors \ {t} : pc'[u] = pc[u]
  BY Members DEF TypeOK, Goto
<1>4. FateInv' /\ SizeInv'
  BY AllStay DEF addState, flushState, results
<1>5. TypeOK'
  BY <1>1, <1>2 DEF TypeOK, Goto, buffers, addState, flushState, results
<1>6. \A u \in Threads : pc'[u] # "assign" /\ lock' # u /\ pc'[u] \notin {"new", "wait", "dead"}
  BY <1>2, <1>3, Members DEF ThreadInv
<1>7. \A g \in Flushers : pc'[g] = pc[g]
  BY <1>3, Members
<1>8. ThreadIsThere'
  BY <1>1, <1>2, Members DEF ThreadIsThere
<1>9. ASSUME NEW g \in Flushers, Busy(g)
      PROVE  thread' = g
  <2>1. Newest(g) /\ pc[g] # "new"
    BY <1>2, <1>9, Members DEF ThreadInv, Busy
  <2> QED
    BY <1>1, <2>1, Members DEF Newest
<1>10. ThreadInv'
  BY <1>2, <1>6, <1>7, <1>8, <1>9 DEF ThreadInv, Busy
<1>11. ListInv'
  BY <1>3 DEF ListInv, Owner, addState, flushState
<1> QED
  BY <1>4, <1>5, <1>10, <1>11 DEF Constants

(* The other steps of a thread's own.  Where it is next.                   *)
LEMMA OwnPoints ==
  ASSUME SInv, NEW t \in Actors, NEW p, pc' = [pc EXCEPT ![t] = p],
         UNCHANGED <<thread, threadForPid, pid, lock>>,
         \/ t \in Threads /\ pc[t] # "assign"
              /\ p \in {"idle", "append", "start", "flush", "swap", "take", "sessions"}
         \/ pc[t] \in {"wait", "flush", "swap", "take", "sessions"}
              /\ p \in {"flush", "swap", "take", "sessions"}
         \/ pc[t] = "sessions" /\ t \in Flushers /\ p \in {"wait", "dead"}
  PROVE  /\ ThreadInv'
         /\ pc' \in [Actors -> {"idle", "gone", "new", "wait", "dead", "append", "start",
                                "assign", "flush", "swap", "take", "sessions"}]
         /\ pc'[t] = p /\ \A u \in Actors \ {t} : pc'[u] = pc[u]
<1>1. t \in Threads => pc[t] # "assign" /\ p \in {"idle", "append", "start", "flush",
                                                  "swap", "take", "sessions"}
  BY Members DEF SInv
<1>2. t \in Flushers => Busy(t) /\ p \in {"wait", "dead", "flush", "swap", "take", "sessions"}
  BY Members DEF SInv, Busy
<1> QED
  BY <1>1, <1>2, OwnStep

LEMMA StepAddSession ==
  ASSUME SInv, NEW t \in Threads, NEW s \in Sessions, AddSession(t, s)
  PROVE  SInv'
<1> USE DEF SInv, AddSession, AddSessionUnless, threadState, results
<1>1. /\ ThreadInv'
      /\ pc' \in [Actors -> {"idle", "gone", "new", "wait", "dead", "append", "start",
                             "assign", "flush", "swap", "take", "sessions"}]
      /\ pc'[t] = "append" /\ \A u \in Actors \ {t} : pc'[u] = pc[u]
  BY OwnPoints, Members DEF Goto
<1>2. /\ session'[t] = s /\ \A u \in Actors \ {t} : session'[u] = session[u]
      /\ into'[t] = {None} /\ \A u \in Actors \ {t} : into'[u] = into[u]
      /\ session[t] = None /\ s # None
  BY Members DEF TypeOK, ListInv
<1>3. TypeOK'
  BY <1>1, Members DEF TypeOK, buffers, flushState
<1>4. ListInv'
  BY <1>1, <1>2, Members DEF ListInv, Owner, flushState
<1>5. ASSUME NEW x \in Sessions
      PROVE  Fate(x)'
  <2>1. CASE x # s
    BY <1>2, <2>1, StaysThere, Members DEF FateInv, Waiting, Due, Boxed, buffers, flushState
  <2>2. CASE x = s
    <3>1. Nowhere(x)
      BY <2>2 DEF FateInv, Fate
    <3>2. /\ x \notin Waiting' /\ captured'[x] = 0
          /\ \A u \in Actors : ~Due(x, u)' /\ ~Boxed(x, u)'
      BY <3>1 DEF Nowhere, Waiting, InDue, Packed, Due, Boxed, buffers, flushState
    <3>3. \A u \in Actors : session'[u] = x <=> u = t
      BY <1>2, <2>2, <3>1, Members DEF Nowhere, Held
    <3>4. Once(x)'
      BY <3>2, <3>3 DEF Once, InDue, Packed
    <3>5. Accounted(x)' /\ x \in added'
      BY <1>2, <2>2, Members DEF Accounted
    <3> QED
      BY <3>4, <3>5 DEF Fate
  <2> QED
    BY <2>1, <2>2
<1>6. FateInv' /\ SizeInv'
  BY <1>5 DEF FateInv, SizeInv, flushState
<1> QED
  BY <1>1, <1>3, <1>4, <1>6 DEF Constants

LEMMA StepAppend ==
  ASSUME SInv, NEW t \in Threads, AppendSession(t)
  PROVE  SInv'
<1> USE DEF SInv, AppendSession, threadState, results
<1>0. PICK s \in Sessions : s = session[t]
  BY Members DEF TypeOK, ListInv
<1>1. /\ ThreadInv'
      /\ pc' \in [Actors -> {"idle", "gone", "new", "wait", "dead", "append", "start",
                             "assign", "flush", "swap", "take", "sessions"}]
      /\ pc'[t] \in {"idle", "start"} /\ \A u \in Actors \ {t} : pc'[u] = pc[u]
  BY OwnPoints, Members DEF Goto, EnsureRunning
<1>2. /\ session'[t] = None /\ \A u \in Actors \ {t} : session'[u] = session[u]
      /\ into'[t] = {} /\ \A u \in Actors \ {t} : into'[u] = into[u]
      /\ t \in Actors /\ s # None
  BY <1>0, Members DEF TypeOK, ListInv
<1>3. s \in added /\ s \notin Requests
  BY <1>0, <1>2 DEF FateInv, Fate, Nowhere, Held, ListInv
<1>4. TypeOK'
  <2>1. /\ session' \in [Actors -> Sessions \cup {None}]
        /\ into' \in [Actors -> SUBSET (Actors \cup {None})]
        /\ pending' \subseteq Sessions \ Requests /\ late' \subseteq added
    BY <1>0, <1>3 DEF TypeOK
  <2>2. list' \in [Actors -> SUBSET (Sessions \ Requests)]
    BY <1>0, <1>3 DEF TypeOK
  <2> QED
    BY <1>1, <2>1, <2>2 DEF TypeOK
<1>5. \A u \in Actors : /\ u \notin into[t] => list'[u] = list[u]
                        /\ u \in into[t] => list'[u] = list[u] \cup {s} /\ Owner(u) /\ u # t
  BY <1>0, <1>1, <1>2 DEF ListInv, Owner
<1>6. ListInv'
  <2>1. \A u \in Actors : Owner(u) => Owner(u)'
    BY <1>1, <1>2 DEF Owner
  <2>2. \A u \in Actors : list'[u] # {} => Owner(u)
    <3> SUFFICES ASSUME NEW u \in Actors, list'[u] # {} PROVE Owner(u)
      OBVIOUS
    <3>1. CASE u \in into[t]
      BY <1>2, <3>1 DEF ListInv
    <3>2. CASE u \notin into[t]
      BY <1>5, <3>2 DEF ListInv
    <3> QED
      BY <3>1, <3>2
  <2>3. \A u, v \in Actors : u \in into'[v] => Owner(u)
    BY <1>2 DEF ListInv
  <2>4. None \notin Requests
    BY Members DEF Constants
  <2>5. ASSUME NEW u \in Actors
        PROVE  /\ session'[u] # None <=> pc'[u] = "append"
               /\ session'[u] \notin Requests
               /\ None \in into'[u] => into'[u] = {None}
               /\ pc'[u] = "append" /\ None \notin into'[u] => session'[u] \in overlapped'
               /\ pc'[u] \in {"take", "sessions"} => None \notin into'[u]
               /\ pc'[u] # "sessions" => taken'[u] = {} /\ envelope'[u] = {}
    BY <1>1, <1>2, <2>4 DEF ListInv
  <2> QED
    BY <2>1, <2>2, <2>3, <2>5 DEF ListInv
<1>7. ASSUME NEW x \in Sessions, x # s
      PROVE  Fate(x)'
  <2>1. x \in Waiting' <=> x \in Waiting
    BY <1>0, <1>7 DEF Waiting
  <2>2. \A u \in Actors : (Due(x, u)' <=> Due(x, u)) /\ (Boxed(x, u)' <=> Boxed(x, u))
    <3>1. ASSUME NEW u \in Actors
          PROVE  x \in list'[u] <=> x \in list[u]
      <4>1. CASE u \in into[t]
        BY <1>5, <1>7, <4>1
      <4>2. CASE u \notin into[t]
        BY <1>5, <4>2
      <4> QED
        BY <4>1, <4>2
    <3> QED
      BY <3>1 DEF Due, Boxed
  <2>3. \A u \in Actors : session'[u] = x <=> session[u] = x
    BY <1>0, <1>2, <1>7, Members
  <2> QED
    BY <2>1, <2>2, <2>3, StaysThere DEF FateInv
<1>8. Fate(s)'
  <2>1. CASE None \in into[t]
    <3>1. /\ pending' = pending \cup {s} /\ s \in Waiting'
          /\ \A u \in Actors : (Due(s, u)' <=> Due(s, u)) /\ (Boxed(s, u)' <=> Boxed(s, u))
      <4>1. into[t] = {None}
        BY <1>2, <2>1 DEF ListInv
      <4>2. pending' = pending \cup {s} /\ \A u \in Actors : list'[u] = list[u]
        BY <1>0, <1>5, <4>1, Members
      <4> QED
        BY <4>2 DEF Due, Boxed, Waiting
    <3>2. Accounted(s)'
      BY <3>1 DEF Accounted
    <3>3. ASSUME s \notin inherited \cup overlapped
          PROVE  Once(s)'
      <4>1. Once(s) /\ Held(s)
        BY <1>0, <1>2, <1>3, <3>3 DEF FateInv, Fate, Held
      <4>2. \A u \in Actors : session'[u] # s
        BY <1>0, <1>2, <4>1, Members DEF Once
      <4>3. \A u \in Actors : ~Due(s, u)' /\ ~Boxed(s, u)'
        BY <3>1, <4>1 DEF Once, InDue, Packed
      <4> QED
        BY <4>1, <4>2, <4>3 DEF Once, Held, InDue, Packed
    <3> QED
      BY <1>3, <3>2, <3>3 DEF Fate
  <2>2. CASE None \notin into[t]
    BY <1>0, <1>2, <1>3, <2>2 DEF ListInv, Fate
  <2> QED
    BY <2>1, <2>2
<1>9. FateInv' /\ SizeInv'
  BY <1>7, <1>8 DEF FateInv, SizeInv
<1> QED
  BY <1>1, <1>4, <1>6, <1>9 DEF Constants

LEMMA StepAggregate ==
  ASSUME SInv, NEW t \in Threads, NEW s \in Sessions, AddAggregateSession(t, s)
  PROVE  SInv'
<1> USE DEF SInv, AddAggregateSession, threadState, results, flushState
<1>1. /\ ThreadInv'
      /\ pc' \in [Actors -> {"idle", "gone", "new", "wait", "dead", "append", "start",
                             "assign", "flush", "swap", "take", "sessions"}]
      /\ pc'[t] \in {"idle", "start"} /\ \A u \in Actors \ {t} : pc'[u] = pc[u]
  BY OwnPoints, Members DEF Goto, EnsureRunning
<1>2. TypeOK'
  BY <1>1 DEF TypeOK, Constants
<1>3. ListInv'
  BY <1>1 DEF ListInv, Owner
<1>4. ASSUME NEW x \in Sessions
      PROVE  Fate(x)'
  <2>1. CASE x # s
    BY <2>1, StaysThere DEF FateInv, Waiting, Due, Boxed
  <2>2. CASE x = s
    <3>1. Nowhere(x)
      BY <2>2 DEF FateInv, Fate
    <3>2. /\ captured'[x] = 0 /\ ~Held(x)' /\ x \in Waiting' /\ x \in added'
          /\ \A u \in Actors : ~Due(x, u)' /\ ~Boxed(x, u)'
      BY <2>2, <3>1 DEF Nowhere, Waiting, Held, InDue, Packed, Due, Boxed
    <3>3. Once(x)'
      BY <3>2 DEF Once, InDue, Packed, Held
    <3>4. Accounted(x)'
      BY <3>2 DEF Accounted
    <3> QED
      BY <3>2, <3>3, <3>4 DEF Fate
  <2> QED
    BY <2>1, <2>2
<1>5. FateInv' /\ SizeInv'
  BY <1>4 DEF FateInv, SizeInv
<1> QED
  BY <1>1, <1>2, <1>3, <1>5 DEF Constants

LEMMA StepKill ==
  ASSUME SInv, NEW t \in Threads, Kill(t)
  PROVE  SInv'
<1> USE DEF SInv, Kill
<1>1. FateInv' /\ SizeInv'
  BY AllStay DEF addState, flushState, results
<1>2. TypeOK'
  BY DEF TypeOK, buffers, addState, flushState, results
<1>3. ThreadInv'
  BY DEF ThreadInv, Busy, Newest, ThreadIsThere
<1>4. ListInv'
  BY DEF ListInv, Owner, addState, flushState
<1> QED
  BY <1>1, <1>2, <1>3, <1>4 DEF Constants

LEMMA StepFork ==
  ASSUME SInv, NEW t \in Threads, Fork(t)
  PROVE  SInv'
<1> USE DEF SInv, Fork
<1>1. pc'[t] = "idle" /\ \A u \in Actors \ {t} : pc'[u] = IF pc[u] = "new" THEN "new" ELSE "gone"
  BY Members DEF TypeOK
<1>2. /\ pc' \in [Actors -> {"idle", "gone", "new", "wait", "dead", "append", "start",
                             "assign", "flush", "swap", "take", "sessions"}]
      /\ session' \in [Actors -> Sessions \cup {None}]
      /\ into' \in [Actors -> SUBSET (Actors \cup {None})]
      /\ list' \in [Actors -> SUBSET (Sessions \ Requests)]
      /\ taken' \in [Actors -> SUBSET Requests]
      /\ envelope' \in [Actors -> SUBSET SUBSET Sessions]
      /\ captured' \in [Sessions -> Nat]
      /\ ending' \in [Flushers -> BOOLEAN]
  BY DEF TypeOK
<1>3. pid' \in 0..MaxForks
  BY DEF TypeOK, Constants
<1>4. TypeOK'
  BY <1>2, <1>3 DEF TypeOK, buffers
<1>5. ThreadInv'
  <2>1. /\ \A u \in Threads : pc'[u] \in {"idle", "gone"} /\ lock' # u
        /\ \A f \in Flushers : pc'[f] \in {"new", "gone"} /\ (pc'[f] = "new" <=> pc[f] = "new")
    BY <1>1, Members DEF ThreadInv
  <2> QED
    BY <2>1 DEF ThreadInv, Busy
<1>6. ListInv'
  <2>1. \A u \in Actors : pc'[u] \in {"idle", "new", "gone"}
    BY <1>1
  <2>2. None \notin Requests
    BY Members DEF Constants
  <2> QED
    BY <2>1, <2>2 DEF ListInv
<1>7. FateInv'
  <2>1. ASSUME NEW x \in Sessions
        PROVE  Fate(x)'
    <3>1. x \notin added => Nowhere(x)
      BY DEF FateInv, Fate
    <3>2. x \notin added' => Nowhere(x)'
      BY <3>1, Members DEF Nowhere, Held, Waiting, InDue, Packed, Due, Boxed, buffers
    <3> QED
      BY <3>2 DEF Fate
  <2> QED
    BY <2>1 DEF FateInv
<1>8. SizeInv'
  BY FS_EmptySet DEF SizeInv, Constants
<1> QED
  BY <1>4, <1>5, <1>6, <1>7, <1>8 DEF Constants

-----------------------------------------------------------------------------
LEMMA StepFlush ==
  ASSUME SInv, NEW t \in Threads, Flush(t)
  PROVE  SInv'
<1> USE DEF SInv, Flush
<1>1. FateInv' /\ SizeInv'
  BY AllStay DEF addState, flushState, results
<1>2. /\ ThreadInv'
      /\ pc' \in [Actors -> {"idle", "gone", "new", "wait", "dead", "append", "start",
                             "assign", "flush", "swap", "take", "sessions"}]
      /\ pc'[t] = "flush" /\ \A u \in Actors \ {t} : pc'[u] = pc[u]
  BY OwnPoints, Members DEF Goto, threadState
<1>3. TypeOK'
  BY <1>2 DEF TypeOK, buffers, threadState, addState, flushState, results
<1>4. ListInv'
  BY <1>2 DEF ListInv, Owner, addState, flushState
<1> QED
  BY <1>1, <1>2, <1>3, <1>4 DEF Constants

LEMMA StepWait ==
  ASSUME SInv, NEW f \in Flushers, Wait(f)
  PROVE  SInv'
<1> USE DEF SInv, Wait, WaitThen
<1>1. FateInv' /\ SizeInv'
  BY AllStay DEF addState, flushState, results
<1>2. /\ ThreadInv'
      /\ pc' \in [Actors -> {"idle", "gone", "new", "wait", "dead", "append", "start",
                             "assign", "flush", "swap", "take", "sessions"}]
      /\ pc'[f] = "flush" /\ \A u \in Actors \ {f} : pc'[u] = pc[u]
  BY OwnPoints, Members DEF Goto, threadState
<1>3. TypeOK'
  BY <1>2 DEF TypeOK, buffers, threadState, addState, flushState, results
<1>4. ListInv'
  BY <1>2 DEF ListInv, Owner, addState, flushState
<1> QED
  BY <1>1, <1>2, <1>3, <1>4 DEF Constants

LEMMA StepFlushRead ==
  ASSUME SInv, NEW t \in Actors, FlushRead(t)
  PROVE  SInv'
<1> USE DEF SInv, FlushRead
<1>1. FateInv' /\ SizeInv'
  BY AllStay DEF flushState, results
<1>2. /\ ThreadInv'
      /\ pc' \in [Actors -> {"idle", "gone", "new", "wait", "dead", "append", "start",
                             "assign", "flush", "swap", "take", "sessions"}]
      /\ pc'[t] = "swap" /\ \A u \in Actors \ {t} : pc'[u] = pc[u]
  BY OwnPoints, Members DEF Goto, threadState
<1>3. TypeOK'
  BY <1>2 DEF TypeOK, buffers, threadState, flushState, results
<1>4. into'[t] = {None} /\ \A u \in Actors \ {t} : into'[u] = into[u]
  BY DEF TypeOK
<1>5. \A u \in Actors : Owner(u) => Owner(u)' /\ u # t
  BY <1>2, <1>4 DEF Owner
<1>6. \A u, v \in Actors : v \in into'[u] => v \in into[u]
  BY <1>4, Members
<1>7. ListInv'
  BY <1>2, <1>4, <1>5, <1>6 DEF ListInv, flushState
<1> QED
  BY <1>1, <1>2, <1>3, <1>7 DEF Constants

LEMMA StepFlushSwap ==
  ASSUME SInv, NEW t \in Actors, FlushSwap(t)
  PROVE  SInv'
<1> USE DEF SInv
<1> DEFINE ts == Readers("swap")
<1>1. /\ list' = [u \in Actors |-> IF u \in ts THEN pending ELSE list[u]]
      /\ into' = [u \in Actors |-> IF None \notin into[u] THEN into[u]
                                   ELSE IF u \in ts THEN {} ELSE ts]
      /\ overlapped' = overlapped \cup {session[u] : u \in Readers("append")}
                                  \cup IF ts = {t} THEN {} ELSE pending
      /\ pending' = {}
      /\ UNCHANGED <<aggregates, threadState, session, added, inherited, late,
                     taken, envelope, ending, results>>
      /\ pc[t] = "swap" /\ Goto(t, "take")
  BY DEF FlushSwap
<1>2. ts \subseteq Actors /\ \A u \in Actors : u \in ts <=> pc[u] = "swap" /\ None \in into[u]
  BY DEF Readers
<1> HIDE DEF ts
<1>3. /\ ThreadInv'
      /\ pc' \in [Actors -> {"idle", "gone", "new", "wait", "dead", "append", "start",
                             "assign", "flush", "swap", "take", "sessions"}]
      /\ pc'[t] = "take" /\ pc[t] = "swap" /\ \A u \in Actors \ {t} : pc'[u] = pc[u]
  BY <1>1, OwnPoints, Members DEF Goto, threadState
<1>4. \A x \in pending : x \in added
  BY DEF FateInv, Fate, Nowhere, Waiting, TypeOK
<1>5. \A u \in Actors : pc[u] = "append" => session[u] \in added
  BY DEF FateInv, Fate, Nowhere, Held, TypeOK, ListInv
<1>6. overlapped' \subseteq added
  BY <1>1, <1>4, <1>5 DEF TypeOK, Readers
<1>7. TypeOK'
  <2>1. list' \in [Actors -> SUBSET (Sessions \ Requests)]
    BY <1>1 DEF TypeOK
  <2>2. into' \in [Actors -> SUBSET (Actors \cup {None})]
    BY <1>1, <1>2 DEF TypeOK
  <2> QED
    BY <1>1, <1>3, <1>6, <2>1, <2>2 DEF TypeOK, threadState, results
<1>8. \A u \in Actors : /\ None \notin into'[u]
                        /\ None \notin into[u] => into'[u] = into[u]
                        /\ None \in into[u] => into'[u] \subseteq ts
  BY <1>1, <1>2, Members DEF ListInv
<1>9. \A u \in Actors : pc'[u] \in {"swap", "take", "sessions"} <=>
                           pc[u] \in {"swap", "take", "sessions"}
  BY <1>3
<1>10. ASSUME NEW u \in Actors, u \in ts \/ Owner(u)
       PROVE  Owner(u)'
  <2>1. pc[u] \in {"swap", "take", "sessions"}
    BY <1>2, <1>10 DEF Owner
  <2> QED
    BY <1>8, <1>9, <2>1 DEF Owner
<1>11. ListInv'
  <2>1. \A u \in Actors : list'[u] # {} => Owner(u)'
    <3>1. ASSUME NEW u \in Actors, u \notin ts, list'[u] # {}
          PROVE  Owner(u)'
      BY <1>1, <1>10, <3>1 DEF ListInv
    <3> QED
      BY <1>10, <3>1
  <2>2. \A u, v \in Actors : u \in into'[v] => Owner(u)'
    <3> SUFFICES ASSUME NEW u \in Actors, NEW v \in Actors, u \in into'[v] PROVE Owner(u)'
      OBVIOUS
    <3>1. CASE None \in into[v]
      BY <1>8, <1>10, <3>1
    <3>2. CASE None \notin into[v]
      BY <1>8, <1>10, <3>2 DEF ListInv
    <3> QED
      BY <3>1, <3>2
  <2>3. \A u \in Actors : pc'[u] = "append" => session'[u] \in overlapped'
    BY <1>1, <1>3 DEF ListInv, Readers
  <2>4. ASSUME NEW u \in Actors
        PROVE  /\ session'[u] # None <=> pc'[u] = "append"
               /\ session'[u] \notin Requests
               /\ pc'[u] # "sessions" => taken'[u] = {} /\ envelope'[u] = {}
    <3>1. (pc'[u] = "append" <=> pc[u] = "append") /\ (pc'[u] # "sessions" => pc[u] # "sessions")
      BY <1>3
    <3> QED
      BY <1>1, <3>1 DEF ListInv
  <2>5. \A u \in Actors : None \notin into'[u]
    BY <1>8
  <2> QED
    BY <2>1, <2>2, <2>3, <2>4, <2>5 DEF ListInv
<1>12. ASSUME NEW x \in Sessions
       PROVE  Fate(x)'
  <2>1. CASE x \notin pending
    <3>1. x \in Waiting' <=> x \in Waiting
      BY <1>1, <2>1 DEF Waiting
    <3>2. \A u \in Actors : u \in ts => list[u] = {}
      BY <1>2 DEF ListInv, Owner
    <3>3. \A u \in Actors : x \in list'[u] <=> x \in list[u]
      BY <1>1, <2>1, <3>2
    <3>4. \A u \in Actors : (Due(x, u)' <=> Due(x, u)) /\ (Boxed(x, u)' <=> Boxed(x, u))
      BY <1>1, <3>3 DEF Due, Boxed
    <3>5. x \in overlapped => x \in overlapped'
      BY <1>1
    <3> QED
      BY <1>1, <3>1, <3>4, <3>5, StaysThere DEF FateInv, results
  <2>2. CASE x \in pending /\ ts # {t}
    BY <1>1, <1>4, <2>2 DEF Fate
  <2>3. CASE x \in pending /\ ts = {t}
    <3>1. x \in added /\ x \in Waiting
      BY <1>4, <2>3 DEF Waiting
    <3>2. Due(x, t)'
      BY <1>1, <2>3 DEF Due
    <3>3. Accounted(x)'
      BY <3>2 DEF Accounted, Taken, Due
    <3>4. ASSUME x \notin inherited \cup overlapped
          PROVE  Once(x)'
      <4>1. Once(x)
        BY <3>1, <3>4 DEF FateInv, Fate
      <4>2. captured'[x] = 0 /\ ~Held(x)'
        BY <1>1, <3>1, <4>1 DEF Once, Held, results
      <4>3. x \notin Waiting'
        BY <1>1, <2>3 DEF Waiting, TypeOK
      <4>4. \A u \in Actors : ~Boxed(x, u)'
        BY <1>1, <3>1, <4>1 DEF Once, Packed, Boxed
      <4>5. \A u \in Actors : Due(x, u)' => u = t
        BY <1>1, <2>3, <3>1, <4>1 DEF Once, InDue, Due
      <4> QED
        BY <4>2, <4>3, <4>4, <4>5 DEF Once, Held, Packed, InDue
    <3> QED
      BY <1>1, <3>1, <3>3, <3>4 DEF Fate
  <2> QED
    BY <2>1, <2>2, <2>3
<1>13. FateInv' /\ SizeInv'
  BY <1>1, <1>12 DEF FateInv, SizeInv
<1> QED
  BY <1>3, <1>7, <1>11, <1>13 DEF Constants

LEMMA StepFlushAggregates ==
  ASSUME SInv, NEW t \in Actors, FlushAggregates(t)
  PROVE  SInv'
<1> USE DEF SInv
<1>1. /\ pc[t] = "take" /\ Goto(t, "sessions") /\ aggregates' = {}
      /\ taken' = [taken EXCEPT ![t] = aggregates]
      /\ UNCHANGED <<pending, threadState, addState, list, envelope, ending, results>>
  BY DEF FlushAggregates, TakeAggregates
<1>2. /\ ThreadInv'
      /\ pc' \in [Actors -> {"idle", "gone", "new", "wait", "dead", "append", "start",
                             "assign", "flush", "swap", "take", "sessions"}]
      /\ pc'[t] = "sessions" /\ \A u \in Actors \ {t} : pc'[u] = pc[u]
  BY <1>1, OwnPoints, Members DEF Goto, threadState
<1>3. /\ taken'[t] = aggregates /\ \A u \in Actors \ {t} : taken'[u] = taken[u]
      /\ taken[t] = {} /\ taken' \in [Actors -> SUBSET Requests]
      /\ \A u \in Actors : list[u] \cap Requests = {}
  BY <1>1 DEF TypeOK, ListInv
<1>4. TypeOK'
  BY <1>1, <1>2, <1>3 DEF TypeOK, threadState, addState, results
<1>5. ListInv'
  BY <1>1, <1>2, <1>3 DEF ListInv, Owner, addState
<1>6. ASSUME NEW x \in Sessions
      PROVE  Fate(x)'
  <2>1. CASE x \notin aggregates
    <3>1. \A u \in Actors : (Due(x, u)' <=> Due(x, u)) /\ (Boxed(x, u)' <=> Boxed(x, u))
      BY <1>1, <1>3, <2>1 DEF Due, Boxed
    <3> QED
      BY <1>1, <2>1, <3>1, StaysThere DEF FateInv, Waiting, addState, results
  <2>2. CASE x \in aggregates
    <3>1. x \in added /\ x \in Waiting
      BY <2>2 DEF FateInv, Fate, Nowhere, Waiting
    <3>2. Due(x, t)'
      BY <1>3, <2>2 DEF Due
    <3>3. Accounted(x)'
      BY <3>2 DEF Accounted, Taken, Due
    <3>4. ASSUME x \notin inherited \cup overlapped
          PROVE  Once(x)'
      <4>1. Once(x)
        BY <3>1, <3>4 DEF FateInv, Fate
      <4>2. captured'[x] = 0 /\ ~Held(x)'
        BY <1>1, <3>1, <4>1 DEF Once, Held, addState, results
      <4>3. x \notin Waiting'
        BY <1>1, <2>2 DEF Waiting, TypeOK
      <4>4. \A u \in Actors : ~Boxed(x, u)'
        BY <1>1, <3>1, <4>1 DEF Once, Packed, Boxed
      <4>5. \A u \in Actors : Due(x, u)' => u = t
        BY <1>1, <1>3, <3>1, <4>1 DEF Once, InDue, Due
      <4> QED
        BY <4>2, <4>3, <4>4, <4>5 DEF Once, Held, Packed, InDue
    <3> QED
      BY <1>1, <3>1, <3>3, <3>4 DEF Fate, addState
  <2> QED
    BY <2>1, <2>2
<1>7. FateInv' /\ SizeInv'
  BY <1>1, <1>6 DEF FateInv, SizeInv
<1> QED
  BY <1>2, <1>4, <1>5, <1>7 DEF Constants

(* What a flush does to the sessions that it has: some of them, gone, get  *)
(* from its lists into its envelope, what was in it is sent or lost, and   *)
(* lists that are empty for good are forgotten by all.                     *)
LEMMA OwnSessions ==
  ASSUME SInv, NEW t \in Actors, NEW x \in Sessions,
         UNCHANGED <<buffers, session, added, inherited, overlapped>>,
         \A u \in Actors \ {t} : /\ list'[u] = list[u] /\ taken'[u] = taken[u]
                                 /\ envelope'[u] = envelope[u],
         \/ /\ Due(x, t)' <=> Due(x, t)
            /\ Boxed(x, t)' <=> Boxed(x, t)
            /\ captured'[x] = captured[x]
         \/ /\ Due(x, t) /\ ~Due(x, t)' /\ Boxed(x, t)'
            /\ captured'[x] = captured[x] \/ (Boxed(x, t) /\ captured'[x] = captured[x] + 1)
         \/ /\ Due(x, t) \/ Boxed(x, t)
            /\ ~Due(x, t)' /\ ~Boxed(x, t)' /\ captured'[x] = captured[x] + 1
         \/ /\ Boxed(x, t) /\ (Due(x, t)' <=> Due(x, t))
            /\ ~Boxed(x, t)' /\ captured'[x] = captured[x] + 1
         \/ /\ ~Due(x, t)' /\ ~Boxed(x, t)' /\ captured'[x] = captured[x]
            /\ Due(x, t) \/ Boxed(x, t) => x \in failed',
         x \in failed => x \in failed'
  PROVE  Fate(x)'
<1> USE DEF SInv
<1>1. /\ x \in Waiting' <=> x \in Waiting
      /\ Held(x)' <=> Held(x)
      /\ \A u \in Actors : session'[u] = session[u]
      /\ captured[x] \in Nat
  BY DEF Waiting, Held, buffers, TypeOK
<1>2. \A u \in Actors \ {t} : (Due(x, u)' <=> Due(x, u)) /\ (Boxed(x, u)' <=> Boxed(x, u))
  BY DEF Due, Boxed
<1>3. ASSUME x \notin added'
      PROVE  Nowhere(x)'
  <2>1. /\ Nowhere(x) /\ ~Due(x, t) /\ ~Boxed(x, t) /\ captured[x] = 0
        /\ \A u \in Actors : ~Due(x, u) /\ ~Boxed(x, u)
    BY <1>3 DEF FateInv, Fate, Nowhere, InDue, Packed
  <2> QED
    BY <1>1, <1>2, <2>1 DEF Nowhere, InDue, Packed
<1>4. ASSUME x \in added' \ (inherited' \cup overlapped')
      PROVE  Once(x)'
  <2>1. Once(x)
    BY <1>4 DEF FateInv, Fate
  <2>2. CASE ~Due(x, t) /\ ~Boxed(x, t)
    BY <1>1, <1>2, <2>1, <2>2 DEF Once, InDue, Packed
  <2>3. CASE Due(x, t) \/ Boxed(x, t)
    <3>1. /\ ~Held(x) /\ x \notin Waiting /\ captured[x] = 0
          /\ ~(Due(x, t) /\ Boxed(x, t))
          /\ \A u \in Actors \ {t} : ~Due(x, u) /\ ~Boxed(x, u)
      BY <2>1, <2>3 DEF Once, InDue, Packed
    <3>2. \A u \in Actors \ {t} : ~Due(x, u)' /\ ~Boxed(x, u)'
      BY <1>2, <3>1
    <3> QED
      BY <1>1, <3>1, <3>2 DEF Once, InDue, Packed, Held
  <2> QED
    BY <2>2, <2>3
<1>5. ASSUME x \in added' \ inherited', x \notin overlapped'
      PROVE  Accounted(x)'
  <2>1. \/ captured[x] > 0 \/ x \in failed \/ x \in Waiting
        \/ \E u \in Actors : session[u] = x \/ Due(x, u) \/ Boxed(x, u)
    BY <1>5 DEF FateInv, Fate, Accounted, Taken, Due, Boxed
  <2>2. \/ captured'[x] > 0 \/ x \in failed' \/ x \in Waiting'
        \/ \E u \in Actors : session'[u] = x \/ Due(x, u)' \/ Boxed(x, u)'
    BY <1>1, <1>2, <2>1
  <2> QED
    BY <2>2 DEF Accounted, Taken, Due, Boxed
<1> QED
  BY <1>3, <1>4, <1>5 DEF Fate

(* The end of a flush, or of its first envelope.                           *)
LEMMA Released ==
  ASSUME SInv, NEW t \in Actors, NEW p, pc[t] = "sessions", Release(t),
         pc' = [pc EXCEPT ![t] = p],
         \/ p = "sessions"
         \/ p = "idle" /\ t \in Threads
         \/ p \in {"wait", "dead"} /\ t \in Flushers,
         list'[t] = {},
         p # "sessions" => taken'[t] = {} /\ envelope'[t] = {},
         \A u \in Actors \ {t} : /\ list'[u] = list[u] /\ taken'[u] = taken[u]
                                 /\ envelope'[u] = envelope[u],
         UNCHANGED <<threadState, session, overlapped>>
  PROVE  /\ ThreadInv' /\ ListInv'
         /\ pc' \in [Actors -> {"idle", "gone", "new", "wait", "dead", "append", "start",
                                "assign", "flush", "swap", "take", "sessions"}]
         /\ into' \in [Actors -> SUBSET (Actors \cup {None})]
<1> USE DEF SInv
<1>1. /\ ThreadInv'
      /\ pc' \in [Actors -> {"idle", "gone", "new", "wait", "dead", "append", "start",
                             "assign", "flush", "swap", "take", "sessions"}]
      /\ pc'[t] = p /\ \A u \in Actors \ {t} : pc'[u] = pc[u]
  BY OwnPoints, Members DEF threadState
<1>2. /\ \A u \in Actors : into'[u] = into[u] \ {t} /\ (None \in into'[u] <=> None \in into[u])
      /\ into' \in [Actors -> SUBSET (Actors \cup {None})]
  BY Members DEF Release, TypeOK
<1>3. \A u \in Actors \ {t} : Owner(u) => Owner(u)'
  BY <1>1, <1>2 DEF Owner
<1>4. \A u \in Actors : list'[u] # {} => u # t /\ Owner(u)
  BY DEF ListInv
<1>5. \A u, v \in Actors : u \in into'[v] => u # t /\ Owner(u)
  BY <1>2 DEF ListInv
<1>6. ASSUME NEW u \in Actors
      PROVE  /\ session'[u] # None <=> pc'[u] = "append"
             /\ session'[u] \notin Requests
             /\ None \in into'[u] => into'[u] = {None}
             /\ pc'[u] = "append" /\ None \notin into'[u] => session'[u] \in overlapped'
             /\ pc'[u] \in {"take", "sessions"} => None \notin into'[u]
             /\ pc'[u] # "sessions" => taken'[u] = {} /\ envelope'[u] = {}
  <2>1. None \in into'[u] => into'[u] = {None}
    BY <1>2, Members DEF ListInv
  <2>2. CASE u = t
    BY <1>1, <1>2, <2>1, <2>2 DEF ListInv
  <2>3. CASE u # t
    BY <1>1, <1>2, <2>1, <2>3 DEF ListInv
  <2> QED
    BY <2>2, <2>3
<1>7. ListInv'
  BY <1>3, <1>4, <1>5, <1>6 DEF ListInv
<1> QED
  BY <1>1, <1>2, <1>7

(* An exception in capture_func.                                           *)
LEMMA StepRaise ==
  ASSUME SInv, NEW t \in Actors, pc[t] = "sessions", Raise(t), Release(t),
         UNCHANGED <<buffers, threadState, session, added, inherited, overlapped, late, ending>>
  PROVE  SInv'
<1> USE DEF SInv
<1> DEFINE p == IF t \in Threads THEN "idle" ELSE "dead"
<1>1. /\ list'[t] = {} /\ taken'[t] = {} /\ envelope'[t] = {}
      /\ \A u \in Actors \ {t} : /\ list'[u] = list[u] /\ taken'[u] = taken[u]
                                 /\ envelope'[u] = envelope[u]
      /\ list' \in [Actors -> SUBSET (Sessions \ Requests)]
      /\ taken' \in [Actors -> SUBSET Requests]
      /\ envelope' \in [Actors -> SUBSET SUBSET Sessions]
      /\ captured' = captured /\ died' \in BOOLEAN
      /\ failed' = failed \cup list[t] \cup taken[t] \cup UNION envelope[t]
      /\ pc' = [pc EXCEPT ![t] = p]
  BY DEF TypeOK, Raise, Goto
<1>2. /\ ThreadInv' /\ ListInv'
      /\ pc' \in [Actors -> {"idle", "gone", "new", "wait", "dead", "append", "start",
                             "assign", "flush", "swap", "take", "sessions"}]
      /\ into' \in [Actors -> SUBSET (Actors \cup {None})]
  BY <1>1, Released, Members
<1>3. failed' \subseteq added
  <2>1. \A x \in Sessions : Due(x, t) \/ Boxed(x, t) => x \in added
    BY DEF FateInv, Fate, Nowhere, InDue, Packed
  <2>2. list[t] \cup taken[t] \cup UNION envelope[t] \subseteq Sessions
    BY DEF TypeOK, Constants
  <2> QED
    BY <1>1, <2>1, <2>2 DEF TypeOK, Due, Boxed
<1>4. TypeOK'
  BY <1>1, <1>2, <1>3 DEF TypeOK, buffers, threadState
<1>5. ASSUME NEW x \in Sessions
      PROVE  Fate(x)'
  <2>1. /\ ~Due(x, t)' /\ ~Boxed(x, t)' /\ captured'[x] = captured[x]
        /\ Due(x, t) \/ Boxed(x, t) => x \in failed'
        /\ x \in failed => x \in failed'
    BY <1>1 DEF Due, Boxed
  <2> QED
    BY <1>1, <2>1, OwnSessions
<1>6. SizeInv'
  <2>1. IsFiniteSet(envelope'[t]) /\ Cardinality(envelope'[t]) <= MaxItems
    BY <1>1, FS_EmptySet DEF Constants
  <2>2. \A u \in Actors \ {t} : IsFiniteSet(envelope'[u]) /\ Cardinality(envelope'[u]) <= MaxItems
    BY <1>1 DEF SizeInv
  <2> QED
    BY <2>1, <2>2 DEF SizeInv
<1> QED
  BY <1>2, <1>4, <1>5, <1>6 DEF FateInv, Constants

LEMMA StepFlushSession ==
  ASSUME SInv, NEW t \in Actors, FlushSession(t)
  PROVE  SInv'
<1> USE DEF SInv
<1>1. PICK s \in list[t] :
        \/ /\ PutItem(t, {s}, Full(t)) /\ list' = [list EXCEPT ![t] = @ \ {s}]
           /\ UNCHANGED <<into, taken>>
        \/ Full(t) /\ Raise(t) /\ Release(t)
  BY DEF FlushSession, FlushSessionWhen
<1>2. /\ pc[t] = "sessions"
      /\ UNCHANGED <<buffers, threadState, session, added, inherited, overlapped, late, ending>>
  BY DEF FlushSession, FlushSessionWhen
<1>3. CASE Raise(t) /\ Release(t)
  BY <1>2, <1>3, StepRaise
<1>4. CASE PutItem(t, {s}, Full(t)) /\ list' = [list EXCEPT ![t] = @ \ {s}]
           /\ UNCHANGED <<into, taken>>
  <2>1. /\ list'[t] = list[t] \ {s} /\ s \in Sessions \ Requests
        /\ \A u \in Actors \ {t} : list'[u] = list[u]
        /\ list' \in [Actors -> SUBSET (Sessions \ Requests)]
        /\ taken[t] \subseteq Requests
        /\ UNCHANGED <<pc, failed, died>>
    BY <1>4 DEF TypeOK, PutItem, PutInto
  <2>2. \A x \in Sessions : /\ Due(x, t) <=> Due(x, t)' \/ x = s
                            /\ ~Due(s, t)' /\ Due(s, t)
    BY <1>4, <2>1 DEF Due
  <2>3. /\ \A u \in Actors \ {t} : envelope'[u] = envelope[u]
        /\ envelope' \in [Actors -> SUBSET SUBSET Sessions]
        /\ captured' \in [Sessions -> Nat]
        /\ IsFiniteSet(envelope'[t]) /\ Cardinality(envelope'[t]) <= MaxItems
        /\ \/ /\ captured' = captured
              /\ \A x \in Sessions : Boxed(x, t)' <=> Boxed(x, t) \/ x = s
           \/ /\ \A x \in Sessions :
                    captured'[x] = IF Boxed(x, t) THEN captured[x] + 1 ELSE captured[x]
              /\ \A x \in Sessions : Boxed(x, t)' <=> x = s
    <3>1. CASE ~Full(t) /\ envelope' = [envelope EXCEPT ![t] = @ \cup {{s}}] /\ UNCHANGED captured
      <4>1. /\ envelope'[t] = envelope[t] \cup {{s}}
            /\ \A u \in Actors \ {t} : envelope'[u] = envelope[u]
            /\ envelope' \in [Actors -> SUBSET SUBSET Sessions]
        BY <2>1, <3>1 DEF TypeOK
      <4>2. IsFiniteSet(envelope[t]) /\ Cardinality(envelope[t]) <= MaxItems
        BY DEF SizeInv
      <4>3. Cardinality(envelope[t]) \in Nat /\ Cardinality(envelope[t]) # MaxItems
        BY <3>1, <4>2, FS_CardinalityType DEF Full
      <4>4. /\ IsFiniteSet(envelope'[t])
            /\ Cardinality(envelope'[t]) \in
                 {Cardinality(envelope[t]), Cardinality(envelope[t]) + 1}
        <5>1. /\ IsFiniteSet(envelope[t] \cup {{s}})
              /\ Cardinality(envelope[t] \cup {{s}}) =
                   IF {s} \in envelope[t] THEN Cardinality(envelope[t])
                   ELSE Cardinality(envelope[t]) + 1
          BY <4>2, FS_AddElement
        <5> QED
          BY <4>1, <5>1
      <4>5. Cardinality(envelope'[t]) <= MaxItems
        BY <4>2, <4>3, <4>4 DEF Constants
      <4>6. \A x \in Sessions : Boxed(x, t)' <=> Boxed(x, t) \/ x = s
        BY <4>1 DEF Boxed
      <4> QED
        BY <3>1, <4>1, <4>4, <4>5, <4>6 DEF TypeOK
    <3>2. CASE Sent(envelope[t]) /\ envelope' = [envelope EXCEPT ![t] = {{s}}]
      <4>1. /\ envelope'[t] = {{s}}
            /\ \A u \in Actors \ {t} : envelope'[u] = envelope[u]
            /\ envelope' \in [Actors -> SUBSET SUBSET Sessions]
        BY <2>1, <3>2 DEF TypeOK
      <4>2. IsFiniteSet(envelope'[t]) /\ Cardinality(envelope'[t]) <= MaxItems
        <5>1. IsFiniteSet({{s}}) /\ Cardinality({{s}}) = 1
          BY FS_Singleton
        <5>2. 1 <= MaxItems
          BY DEF Constants
        <5> QED
          BY <4>1, <5>1, <5>2
      <4>3. \A x \in Sessions : Boxed(x, t)' <=> x = s
        BY <4>1 DEF Boxed
      <4>4. /\ \A x \in Sessions :
                 captured'[x] = IF Boxed(x, t) THEN captured[x] + 1 ELSE captured[x]
            /\ captured' \in [Sessions -> Nat]
        BY <3>2 DEF Sent, Boxed, TypeOK
      <4> QED
        BY <4>1, <4>2, <4>3, <4>4
    <3> QED
      BY <1>4, <3>1, <3>2 DEF PutItem, PutInto
  <2>4. TypeOK'
    BY <1>2, <1>4, <2>1, <2>3 DEF TypeOK, buffers, threadState
  <2>5. ThreadInv'
    BY <1>2, <2>1 DEF ThreadInv, Busy, Newest, ThreadIsThere, threadState
  <2>6. ListInv'
    <3>1. \A u \in Actors : list'[u] # {} => list[u] # {}
      BY <2>1
    <3>2. \A u \in Actors : pc[u] # "sessions" => envelope'[u] = envelope[u]
      BY <1>2, <2>3
    <3> QED
      BY <1>2, <1>4, <2>1, <3>1, <3>2 DEF ListInv, Owner
  <2>7. ASSUME NEW x \in Sessions
        PROVE  Fate(x)'
    <3>1. /\ UNCHANGED <<buffers, session, added, inherited, overlapped>>
          /\ \A u \in Actors \ {t} : /\ list'[u] = list[u] /\ taken'[u] = taken[u]
                                     /\ envelope'[u] = envelope[u]
          /\ x \in failed => x \in failed'
      BY <1>2, <1>4, <2>1, <2>3
    <3>0. \/ captured'[x] = captured[x] /\ (Boxed(x, t)' <=> Boxed(x, t) \/ x = s)
          \/ /\ captured'[x] = IF Boxed(x, t) THEN captured[x] + 1 ELSE captured[x]
             /\ Boxed(x, t)' <=> x = s
      BY <2>3
    <3>2. CASE x = s
      <4>1. /\ Due(x, t) /\ ~Due(x, t)' /\ Boxed(x, t)'
            /\ captured'[x] = captured[x] \/ (Boxed(x, t) /\ captured'[x] = captured[x] + 1)
        <5>1. Due(x, t) /\ ~Due(x, t)'
          BY <2>2, <3>2
        <5> QED
          BY <3>0, <3>2, <5>1
      <4> QED
        BY <3>1, <4>1, OwnSessions
    <3>3. CASE x # s
      <4>1. \/ /\ Due(x, t)' <=> Due(x, t)
               /\ Boxed(x, t)' <=> Boxed(x, t)
               /\ captured'[x] = captured[x]
            \/ /\ Boxed(x, t) /\ (Due(x, t)' <=> Due(x, t))
               /\ ~Boxed(x, t)' /\ captured'[x] = captured[x] + 1
        <5>1. Due(x, t) <=> Due(x, t)'
          BY <2>2, <3>3
        <5> QED
          BY <3>0, <3>3, <5>1
      <4> QED
        BY <3>1, <4>1, OwnSessions
    <3> QED
      BY <3>2, <3>3
  <2>8. SizeInv'
    BY <2>3 DEF SizeInv
  <2> QED
    BY <2>4, <2>5, <2>6, <2>7, <2>8 DEF FateInv, Constants
<1> QED
  BY <1>1, <1>3, <1>4

LEMMA StepFlushLast ==
  ASSUME SInv, NEW t \in Actors, FlushLast(t)
  PROVE  SInv'
<1> USE DEF SInv
<1> DEFINE items == envelope[t] \cup ({taken[t]} \ {{}})
<1>1. /\ pc[t] = "sessions" /\ list[t] = {} /\ Release(t)
      /\ UNCHANGED <<buffers, threadState, session, added, inherited, overlapped, late, ending>>
  BY DEF FlushLast, FlushRest
<1>2. CASE Raise(t)
  BY <1>1, <1>2, StepRaise
<1>3. ASSUME NEW p, pc' = [pc EXCEPT ![t] = p], NEW boxes \in SUBSET SUBSET Sessions,
             \/ p = "sessions" /\ boxes = envelope[t] /\ taken' = taken
             \/ /\ boxes = items /\ taken' = [taken EXCEPT ![t] = {}]
                /\ (p = "idle" /\ t \in Threads) \/ (p \in {"wait", "dead"} /\ t \in Flushers),
             Sent(boxes), envelope' = [envelope EXCEPT ![t] = {}],
             UNCHANGED <<list, failed, died>>
      PROVE  SInv'
  <2>1. /\ envelope'[t] = {} /\ list' = list
        /\ \A u \in Actors \ {t} : /\ list'[u] = list[u] /\ taken'[u] = taken[u]
                                   /\ envelope'[u] = envelope[u]
        /\ envelope' \in [Actors -> SUBSET SUBSET Sessions]
        /\ taken' \in [Actors -> SUBSET Requests]
        /\ captured' \in [Sessions -> Nat]
        /\ p # "sessions" => taken'[t] = {}
    BY <1>3 DEF TypeOK, Sent
  <2>2. /\ ThreadInv' /\ ListInv'
        /\ pc' \in [Actors -> {"idle", "gone", "new", "wait", "dead", "append", "start",
                               "assign", "flush", "swap", "take", "sessions"}]
        /\ into' \in [Actors -> SUBSET (Actors \cup {None})]
    <3>1. /\ list'[t] = {} /\ (p # "sessions" => taken'[t] = {} /\ envelope'[t] = {})
          /\ UNCHANGED <<threadState, session, overlapped>>
      BY <1>1, <2>1
    <3>2. \/ p = "sessions"
          \/ p = "idle" /\ t \in Threads
          \/ p \in {"wait", "dead"} /\ t \in Flushers
      BY <1>3
    <3> QED
      BY <1>1, <1>3, <2>1, <3>1, <3>2, Released
  <2>3. TypeOK'
    BY <1>1, <1>3, <2>1, <2>2 DEF TypeOK, buffers, threadState
  <2>4. ASSUME NEW x \in Sessions
        PROVE  Fate(x)'
    <3>1. /\ ~Boxed(x, t)' /\ (Due(x, t) <=> x \in taken[t])
          /\ captured'[x] = IF x \in UNION boxes THEN captured[x] + 1 ELSE captured[x]
          /\ x \in failed => x \in failed'
      BY <1>1, <1>3, <2>1 DEF Due, Boxed, Sent
    <3>2. CASE boxes = envelope[t] /\ taken' = taken
      <4>1. (Due(x, t)' <=> Due(x, t)) /\ (Boxed(x, t) <=> x \in UNION boxes)
        BY <2>1, <3>2 DEF Due, Boxed
      <4>2. \/ /\ Due(x, t)' <=> Due(x, t)
               /\ Boxed(x, t)' <=> Boxed(x, t)
               /\ captured'[x] = captured[x]
            \/ /\ Boxed(x, t) /\ (Due(x, t)' <=> Due(x, t))
               /\ ~Boxed(x, t)' /\ captured'[x] = captured[x] + 1
        BY <3>1, <4>1
      <4> QED
        BY <1>1, <2>1, <3>1, <4>2, OwnSessions
    <3>3. CASE boxes = items /\ taken' = [taken EXCEPT ![t] = {}]
      <4>1. ~Due(x, t)'
        BY <1>1, <2>1, <3>3 DEF Due, TypeOK
      <4>2. Due(x, t) \/ Boxed(x, t) <=> x \in UNION boxes
        BY <3>1, <3>3 DEF Boxed
      <4>3. \/ /\ Due(x, t)' <=> Due(x, t)
               /\ Boxed(x, t)' <=> Boxed(x, t)
               /\ captured'[x] = captured[x]
            \/ /\ Due(x, t) \/ Boxed(x, t)
               /\ ~Due(x, t)' /\ ~Boxed(x, t)' /\ captured'[x] = captured[x] + 1
        BY <3>1, <4>1, <4>2
      <4> QED
        BY <1>1, <2>1, <3>1, <4>3, OwnSessions
    <3> QED
      BY <1>3, <3>2, <3>3
  <2>5. SizeInv'
    <3>1. IsFiniteSet(envelope'[t]) /\ Cardinality(envelope'[t]) <= MaxItems
      BY <2>1, FS_EmptySet DEF Constants
    <3> QED
      BY <2>1, <3>1 DEF SizeInv
  <2> QED
    BY <2>2, <2>3, <2>4, <2>5 DEF FateInv, Constants
<1>4. CASE /\ Sent(envelope[t]) /\ envelope' = [envelope EXCEPT ![t] = {}]
           /\ UNCHANGED <<pc, list, taken, failed, died>>
  <2>1. pc' = [pc EXCEPT ![t] = "sessions"] /\ envelope[t] \in SUBSET SUBSET Sessions
    BY <1>1, <1>4 DEF TypeOK
  <2> QED
    BY <1>3, <1>4, <2>1
<1>5. CASE /\ Sent(items) /\ envelope' = [envelope EXCEPT ![t] = {}]
           /\ taken' = [taken EXCEPT ![t] = {}]
           /\ Goto(t, IF t \in Threads THEN "idle" ELSE IF ending[t] THEN "dead" ELSE "wait")
           /\ UNCHANGED <<list, failed, died>>
  <2> DEFINE p == IF t \in Threads THEN "idle" ELSE IF ending[t] THEN "dead" ELSE "wait"
  <2>1. items \in SUBSET SUBSET Sessions
    <3>1. taken[t] \subseteq Sessions /\ envelope[t] \subseteq SUBSET Sessions
      BY DEF TypeOK, Constants
    <3>2. {taken[t]} \ {{}} \subseteq SUBSET Sessions
      BY <3>1
    <3> QED
      BY <3>1, <3>2
  <2>2. (p = "idle" /\ t \in Threads) \/ (p \in {"wait", "dead"} /\ t \in Flushers)
    <3>1. t \in Threads \/ t \in Flushers
      BY Members
    <3> QED
      BY <3>1
  <2>3. pc' = [pc EXCEPT ![t] = p]
    BY <1>5 DEF Goto
  <2> HIDE DEF p, items
  <2> QED
    BY <1>3, <1>5, <2>1, <2>2, <2>3
<1> QED
  BY <1>1, <1>2, <1>4, <1>5 DEF FlushLast, FlushRest

-----------------------------------------------------------------------------
LEMMA InitSInv ==
  ASSUME Constants, Init
  PROVE  SInv
<1> USE DEF Init
<1>1. TypeOK
  <2>1. /\ pending = {} /\ aggregates = {} /\ thread = None /\ threadForPid = None
        /\ lock = None /\ shutdown \in BOOLEAN /\ died \in BOOLEAN /\ added = {}
        /\ overlapped \cup late \cup failed \cup inherited = {}
    OBVIOUS
  <2>3. pid \in 0..MaxForks
    BY DEF Constants
  <2>2. /\ pc \in [Actors -> {"idle", "gone", "new", "wait", "dead", "append", "start",
                              "assign", "flush", "swap", "take", "sessions"}]
        /\ session \in [Actors -> Sessions \cup {None}]
        /\ into \in [Actors -> SUBSET (Actors \cup {None})]
        /\ list \in [Actors -> SUBSET (Sessions \ Requests)]
        /\ taken \in [Actors -> SUBSET Requests]
        /\ envelope \in [Actors -> SUBSET SUBSET Sessions]
        /\ ending \in [Flushers -> BOOLEAN]
        /\ captured \in [Sessions -> Nat]
    OBVIOUS
  <2> QED
    BY <2>1, <2>2, <2>3 DEF TypeOK
<1>2. ThreadInv
  BY Members DEF ThreadInv, Busy
<1>3. ListInv
  BY Members DEF ListInv, Constants
<1>4. FateInv
  BY Members DEF FateInv, Fate, Nowhere, Held, Waiting, InDue, Due, Packed, Boxed
<1>5. SizeInv
  BY FS_EmptySet DEF SizeInv, Constants
<1> QED
  BY <1>1, <1>2, <1>3, <1>4, <1>5 DEF SInv

LEMMA StepSInv ==
  ASSUME SInv, [Next]_vars
  PROVE  SInv'
<1>1. CASE UNCHANGED vars
  <2>1. FateInv' /\ SizeInv'
    BY <1>1, AllStay DEF vars, addState, flushState, results
  <2> QED
    BY <1>1, <2>1 DEF vars, buffers, threadState, addState, flushState, results, SInv, Constants,
                      TypeOK, ThreadInv, Busy, Newest, ThreadIsThere, ListInv, Owner
<1>2. ASSUME NEW t \in Actors, FlushStep(t)
      PROVE  SInv'
  BY <1>2, StepFlushRead, StepFlushSwap, StepFlushAggregates, StepFlushSession, StepFlushLast
  DEF FlushStep
<1>3. ASSUME NEW t \in Threads, AddStep(t)
      PROVE  SInv'
  BY <1>3, StepAppend, StepStart, StepAssign DEF AddStep
<1>4. ASSUME NEW t \in Threads, Flush(t) \/ Kill(t) \/ Fork(t)
      PROVE  SInv'
  BY <1>4, StepFlush, StepKill, StepFork
<1>5. ASSUME NEW t \in Threads, NEW s \in Sessions, AddSession(t, s) \/ AddAggregateSession(t, s)
      PROVE  SInv'
  BY <1>5, StepAddSession, StepAggregate
<1>6. ASSUME NEW f \in Flushers, Wait(f)
      PROVE  SInv'
  BY <1>6, StepWait
<1>7. Threads \subseteq Actors /\ Flushers \subseteq Actors
  BY DEF Actors
<1> QED
  BY <1>1, <1>2, <1>3, <1>4, <1>5, <1>6, <1>7 DEF Next

(* Every step of every thread keeps what the theorems rest on.             *)
LEMMA Inductive == Spec => []SInv
<1>1. Init => SInv
  BY InitSInv, Parameters
<1>2. SInv /\ [Next]_vars => SInv'
  BY StepSInv
<1> QED
  BY <1>1, <1>2, PTL DEF Spec

(* A session that was added is never lost and never sent twice, except by  *)
(* the races of add_session() and flush() on one list.                     *)
THEOREM SessionsAreSent == Spec => []SessionsSent
<1>1. SInv => SessionsSent
  <2> SUFFICES ASSUME SInv PROVE SessionsSent
    OBVIOUS
  <2>1. \A s \in added : s \in Sessions
    BY DEF SInv, TypeOK
  <2>2. NoneLost
    BY <2>1 DEF SInv, FateInv, Fate, NoneLost
  <2>3. SentOnce
    BY <2>1 DEF SInv, FateInv, Fate, Once, SentOnce
  <2> QED
    BY <2>2, <2>3 DEF SInv, SessionsSent
<1> QED
  BY <1>1, Inductive, PTL

(* However first calls, forks, flushes and kills interleave, one thread at *)
(* most flushes at the interval, and no envelope has more items than fit.  *)
THEOREM OneThreadFlushes == Spec => []FlushesFit
<1>1. SInv => FlushesFit
  <2> SUFFICES ASSUME SInv PROVE FlushesFit
    OBVIOUS
  <2> DEFINE working == {f \in Flushers : Busy(f)}
  <2>1. \A f, g \in working : f = g
    BY Members DEF SInv, ThreadInv, Busy, Newest
  <2>2. CASE working = {}
    <3>1. Cardinality(working) = 0
      BY <2>2, FS_EmptySet
    <3> QED
      BY <3>1 DEF OneThread, Busy, SInv, SizeInv, EnvelopesFit, FlushesFit
  <2>3. ASSUME NEW f \in working
        PROVE  FlushesFit
    <3>1. working = {f}
      BY <2>1
    <3>2. Cardinality(working) = 1
      BY <3>1, FS_Singleton
    <3> QED
      BY <3>2 DEF OneThread, Busy, SInv, SizeInv, EnvelopesFit, FlushesFit
  <2> QED
    BY <2>2, <2>3
<1> QED
  BY <1>1, Inductive, PTL
-----------------------------------------------------------------------------
(***************************************************************************)
(* Where sessions come from.  Theorems about Scopes, of which              *)
(* ScopesProperties has an instance S, for any threads, scopes and         *)
(* sessions and any number of events, with what S!Constants says of them.  *)
(* ScopesInv says whose a scope is, when its session has been taken from   *)
(* it, and what a thread on its way with a session has seen of it: all of  *)
(* its errors, if it is alone with it, and otherwise some.                 *)
(***************************************************************************)

(* The instance's Cardinality is FiniteSets'.                              *)
LEMMA SameFinite == \A X : S!Cardinality(X) = Cardinality(X)
  BY DEF S!Cardinality, Cardinality, S!IsFiniteSet, IsFiniteSet

(* Where a thread is says what it works on.                                *)
WhereInv ==
  \A t \in Handlers :
    /\ at[t] # "idle" \/ blocks[t] # <<>> => isolation[t] # Nothing
    /\ current[t] # Nothing <=> at[t] \in {"check", "exit", "report", "errors", "status"}
    /\ at[t] \in {"idle", "errors", "status"} => call[t] = "end"
    /\ call[t] = "leave" => blocks[t] # <<>>

(* The scopes that a thread runs in or will restore are of no other.       *)
Owned(t) == {isolation[t]} \cup {blocks[t][i][1] : i \in 1..Len(blocks[t])}
ApartInv == \A t, u \in Handlers : t # u => Owned(t) \cap Owned(u) \subseteq {Nothing}

(* What does not exist yet is as it was made.                              *)
NewInv ==
  /\ \A sc \in Scopes \ made : scopeOf[sc] = Nothing
  /\ \A s \in Objects \ begun :
       /\ status[s] = "ok" /\ errors[s] = 0 /\ count[s] = 0
       /\ reports[s] = <<>> /\ holders[s] = 0

(* A call has taken the session off the scope, unless the block it leaves  *)
(* is not tracked.                                                         *)
Untracked(t) == call[t] = "leave" /\ ~Head(blocks[t])[2]
TakenInv ==
  \A t \in Handlers :
    at[t] \in {"check", "exit", "report", "after"} /\ ~Untracked(t)
      => scopeOf[isolation[t]] = Nothing

(* The count of OncePerHolder, of sessions that are not begun as well.     *)
Holding(s) == {sc \in made : scopeOf[sc] = s}
CountOf(s) ==
  /\ IsFiniteSet(S!Ending(s))
  /\ holders[s] = Len(reports[s]) + Cardinality(S!Ending(s)) + Cardinality(Holding(s))
CountInv == IsFiniteSet(made) /\ \A s \in Objects : CountOf(s)

(* Without races, one thread at most works on a session.                   *)
SoloInv ==
  \A s \in begun \ raced : \A t \in Handlers : current[t] = s =>
    /\ \A u \in Handlers : current[u] = s => t = u
    /\ at[t] = "errors" => seen[t] = errors[s]
    /\ at[t] = "exit" => status[s] = "ok"

WhatInv ==
  \A s \in begun \ raced :
    /\ status[s] = "crashed" <=> s \in crashes
    /\ (\A t \in Handlers : current[t] = s => at[t] # "errors") => errors[s] = count[s]
    /\ \A t \in Handlers :
         current[t] = s /\ at[t] = "errors" => errors[s] + S!Exceptions(t) = count[s]

TrueInv ==
  /\ \A s \in begun : errors[s] <= count[s] /\ (status[s] = "crashed" => s \in crashes)
  /\ \A t \in Handlers :
       /\ at[t] = "errors" => seen[t] + S!Exceptions(t) <= count[current[t]]
       /\ at[t] = "report" => status[current[t]] # "ok"
  /\ S!NothingMadeUp

ScopesInv == /\ S!TypeOK /\ WhereInv /\ ApartInv /\ NewInv /\ TakenInv /\ CountInv
             /\ SoloInv /\ WhatInv /\ TrueInv

(* What First returns.                                                     *)
LEMMA FirstIn == ASSUME NEW X \in SUBSET Nat, X # {} PROVE S!First(X) \in X
<1>1. PICK x \in X : \A y \in X : <<y, x>> \notin OpToRel(<, Nat)
  BY WFMin, NatLessThanWellFounded, Zenon
<1>2. \A y \in X : ~(y < x)
  BY <1>1, Zenon DEF OpToRel
<1>3. \A y \in X : x <= y
  BY <1>2
<1> QED
  BY <1>3, Zenon DEF S!First

LEMMA InitTypeOK == ASSUME S!Constants, S!Init PROVE S!TypeOK
<1>1. \A X : <<>> \in Seq(X)
  OBVIOUS
<1> QED
  BY <1>1 DEF S!Constants, S!Init, S!TypeOK, S!Kinds, S!Calls


(* Types, ...                                                              *)
LEMMA TypeStep ==
  ASSUME S!Constants, S!TypeOK, WhereInv, [S!Next]_S!vars
  PROVE  S!TypeOK'
<1> DEFINE Statuses == {"ok", "exited", "crashed"}
           Reps == [status : Statuses, errors : Nat]
<1> USE DEF S!Constants, S!Goto, S!Calls, S!Kinds
<1>1. CASE UNCHANGED S!vars
  BY <1>1 DEF S!TypeOK, S!vars, S!scopeState, S!fields, S!local, S!ghosts
<1>2. ASSUME NEW t \in Handlers, S!Take(t) PROVE S!TypeOK'
  <2>1. isolation[t] \in made
    BY <1>2 DEF S!TypeOK, WhereInv, S!Take, S!TakeLeaving
  <2>2. scopeOf[isolation[t]] \in begun \cup {Nothing}
    BY <2>1 DEF S!TypeOK
  <2>3. scopeOf[isolation[t]] # Nothing => scopeOf[isolation[t]] \in begun
    BY <2>2
  <2> QED
    BY <1>2, <2>1, <2>2, <2>3 DEF S!TypeOK, S!Take, S!TakeLeaving, S!Racing, S!fields
<1>3. ASSUME NEW t \in Handlers, S!Check(t) PROVE S!TypeOK'
  BY <1>3 DEF S!TypeOK, S!Check, S!CloseIf, S!scopeState, S!fields, S!local, S!ghosts
<1>4. ASSUME NEW t \in Handlers, S!Exit(t) PROVE S!TypeOK'
  BY <1>4 DEF S!TypeOK, S!Exit, S!scopeState, S!local, S!ghosts
<1>5. ASSUME NEW t \in Handlers, S!Report(t) PROVE S!TypeOK'
  <2>1. current[t] \in begun /\ current[t] \in Objects
    BY <1>5 DEF S!TypeOK, WhereInv, S!Report
  <2> DEFINE r == [status |-> status[current[t]], errors |-> errors[current[t]]]
  <2>2. r \in Reps
    BY <2>1 DEF S!TypeOK
  <2>3. Append(reports[current[t]], r) \in Seq(Reps)
    BY <2>1, <2>2, AppendProperties DEF S!TypeOK
  <2>4. reports' \in [Objects -> Seq(Reps)]
    BY <1>5, <2>3 DEF S!TypeOK, S!Report
  <2> QED
    BY <1>5, <2>1, <2>4 DEF S!TypeOK, S!Report, S!scopeState, S!fields, S!ghosts
<1>6. ASSUME NEW t \in Handlers, S!After(t) PROVE S!TypeOK'
  <2>1. isolation[t] \in made
    BY <1>6 DEF S!TypeOK, WhereInv, S!After
  <2>2. CASE call[t] = "end"
    BY <1>6, <2>2 DEF S!TypeOK, S!After, S!scopeState, S!fields, S!local, S!ghosts
  <2>3. CASE call[t] = "start"
    <3>1. begun # Objects
      BY <1>6, <2>3 DEF S!After
    <3> DEFINE s == S!First(Objects \ begun)
    <3>2. s \in Objects \ begun
      BY <3>1, FirstIn DEF S!TypeOK
    <3> QED
      BY <1>6, <2>1, <2>3, <3>2 DEF S!TypeOK, S!After, S!fields, S!local, S!ghosts
  <2>4. CASE call[t] = "leave"
    <3>1. blocks[t] # <<>> /\ blocks[t] \in Seq(made \X BOOLEAN)
      BY <1>6, <2>4 DEF S!TypeOK, WhereInv, S!After
    <3>2. Head(blocks[t]) \in made \X BOOLEAN /\ Tail(blocks[t]) \in Seq(made \X BOOLEAN)
      BY <3>1, HeadTailProperties
    <3>3. blocks' = [blocks EXCEPT ![t] = Tail(blocks[t])]
      BY <1>6, <2>4 DEF S!After
    <3>4. blocks' \in [Handlers -> Seq(made \X BOOLEAN)]
      BY <3>2, <3>3 DEF S!TypeOK
    <3> QED
      BY <1>6, <2>4, <3>2, <3>4 DEF S!TypeOK, S!After, S!fields, S!local, S!ghosts
  <2> QED
    BY <1>6, <2>2, <2>3, <2>4 DEF S!TypeOK
<1>7. ASSUME NEW t \in Handlers, S!UpdateErrors(t) PROVE S!TypeOK'
  <2>1. current[t] \in begun /\ current[t] \in Objects
    BY <1>7 DEF S!TypeOK, WhereInv, S!UpdateErrors, S!UpdateErrorsTo
  <2>2. seen[t] + S!Exceptions(t) \in Nat
    BY DEF S!TypeOK, S!Exceptions
  <2>3. errors' \in [Objects -> Nat] /\ seen' \in [Handlers -> Nat]
    BY <1>7, <2>1, <2>2 DEF S!TypeOK, S!UpdateErrors, S!UpdateErrorsTo
  <2>4. current' \in [Handlers -> begun \cup {Nothing}] /\ stale' \subseteq begun
    BY <1>7, <2>1 DEF S!TypeOK, S!UpdateErrors, S!UpdateErrorsTo
  <2>5. kind' \in [Handlers -> S!Kinds]
    BY <1>7 DEF S!TypeOK, S!UpdateErrors, S!UpdateErrorsTo
  <2> QED
    BY <1>7, <2>3, <2>4, <2>5 DEF S!TypeOK, S!UpdateErrors, S!UpdateErrorsTo, S!scopeState
<1>8. ASSUME NEW t \in Handlers, S!UpdateStatus(t) PROVE S!TypeOK'
  BY <1>8 DEF S!TypeOK, WhereInv, S!UpdateStatus, S!scopeState
<1>9. ASSUME NEW t \in Handlers, NEW c \in S!Calls, S!Call(t, c) PROVE S!TypeOK'
  BY <1>9 DEF S!TypeOK, S!Call, S!CallOr, S!scopeState, S!fields, S!local, S!ghosts
<1>10. ASSUME NEW t \in Handlers, NEW tracked \in BOOLEAN, S!Enter(t, tracked) PROVE S!TypeOK'
  <2> DEFINE sc == S!First(Scopes \ made)
  <2>1. sc \in Scopes \ made
    BY <1>10, FirstIn DEF S!TypeOK, S!Enter
  <2>2. isolation[t] \in made
    BY <1>10 DEF S!TypeOK, S!Enter, S!Idle
  <2>3. blocks' = [blocks EXCEPT ![t] = <<<<isolation[t], tracked>>>> \o blocks[t]]
    BY <1>10 DEF S!Enter
  <2>4. \A u \in Handlers : blocks[u] \in Seq((made \cup {sc}) \X BOOLEAN)
    <3> SUFFICES ASSUME NEW u \in Handlers PROVE blocks[u] \in Seq((made \cup {sc}) \X BOOLEAN)
      OBVIOUS
    <3>1. blocks[u] \in Seq(made \X BOOLEAN)
      BY DEF S!TypeOK
    <3>2. made \X BOOLEAN \subseteq (made \cup {sc}) \X BOOLEAN
      OBVIOUS
    <3> QED
      BY <3>1, <3>2
  <2>5. <<<<isolation[t], tracked>>>> \o blocks[t] \in Seq((made \cup {sc}) \X BOOLEAN)
    <3> HIDE DEF sc
    <3>1. <<<<isolation[t], tracked>>>> \in Seq((made \cup {sc}) \X BOOLEAN)
      BY <2>2
    <3> QED
      BY <2>4, <3>1, ConcatProperties
  <2>6. blocks' \in [Handlers -> Seq((made \cup {sc}) \X BOOLEAN)]
    BY <2>3, <2>4, <2>5 DEF S!TypeOK
  <2>7. made' = made \cup {sc} /\ begun' = begun
    BY <1>10 DEF S!Enter, S!Fork
  <2>8. holders' \in [Objects -> Nat]
    BY <1>10 DEF S!TypeOK, S!Enter, S!Fork
  <2> HIDE DEF sc
  <2> QED
    BY <1>10, <2>1, <2>2, <2>6, <2>7, <2>8 DEF S!TypeOK, S!Enter, S!Fork, S!fields, S!local,
       S!ghosts, sc
<1>11. ASSUME NEW t \in Handlers, NEW u \in Handlers, NEW propagated \in BOOLEAN,
              S!Spawn(t, u, propagated)
       PROVE  S!TypeOK'
  <2> DEFINE sc == S!First(Scopes \ made)
  <2>1. sc \in Scopes \ made
    BY <1>11, FirstIn DEF S!TypeOK, S!Spawn
  <2>2. isolation[t] \in made
    BY <1>11 DEF S!TypeOK, S!Spawn, S!Idle
  <2>3. made' = made \cup {sc} /\ begun' = begun
    BY <1>11 DEF S!Spawn, S!Fork
  <2>4. blocks' \in [Handlers -> Seq((made \cup {sc}) \X BOOLEAN)]
    <3>1. made \X BOOLEAN \subseteq (made \cup {sc}) \X BOOLEAN
      OBVIOUS
    <3> QED
      BY <1>11, <3>1 DEF S!TypeOK, S!Spawn
  <2>5. holders' \in [Objects -> Nat] /\ scopeOf' \in [Scopes -> begun \cup {Nothing}]
    <3>1. CASE propagated
      <4>1. scopeOf' = [scopeOf EXCEPT ![sc] = scopeOf[isolation[t]]]
        BY <1>11, <3>1 DEF S!Spawn, S!Fork
      <4>2. scopeOf[isolation[t]] \in begun \cup {Nothing}
        BY <2>2 DEF S!TypeOK
      <4> HIDE DEF sc
      <4>3. scopeOf' \in [Scopes -> begun \cup {Nothing}]
        BY <4>1, <4>2 DEF S!TypeOK
      <4>4. holders' = [s \in Objects |-> IF s = scopeOf[isolation[t]] THEN holders[s] + 1
                                           ELSE holders[s]]
        BY <1>11, <3>1 DEF S!Spawn, S!Fork
      <4>5. holders' \in [Objects -> Nat]
        BY <4>4 DEF S!TypeOK
      <4> QED
        BY <4>3, <4>5
    <3>2. CASE ~propagated
      BY <1>11, <3>2 DEF S!TypeOK, S!Spawn
    <3> QED
      BY <3>1, <3>2
  <2> HIDE DEF sc
  <2> QED
    BY <1>11, <2>1, <2>2, <2>3, <2>4, <2>5 DEF S!TypeOK, S!Spawn, S!fields, S!local, S!ghosts,
       sc
<1>12. ASSUME NEW t \in Handlers, NEW k \in S!Kinds, S!Capture(t, k) PROVE S!TypeOK'
  <2>1. isolation[t] \in made /\ scopeOf[isolation[t]] \in begun
    BY <1>12 DEF S!TypeOK, S!Capture, S!Idle
  <2> QED
    <3>1. count' \in [Objects -> Nat] /\ seen' \in [Handlers -> Nat]
      BY <1>12, <2>1 DEF S!TypeOK, S!Capture
    <3>2. raced' \subseteq begun
      BY <1>12, <2>1 DEF S!TypeOK, S!Capture, S!Racing
    <3> QED
      BY <1>12, <2>1, <3>1, <3>2 DEF S!TypeOK, S!Capture, S!scopeState, S!fields
<1> QED
  BY <1>1, <1>2, <1>3, <1>4, <1>5, <1>6, <1>7, <1>8, <1>9, <1>10, <1>11, <1>12 DEF S!Next,
     S!Step

(* ... where threads are, and whose scopes are whose, ...                  *)
LEMMA OwnedAre ==
  ASSUME S!Constants, S!TypeOK, NEW t \in Handlers
  PROVE  Owned(t) \subseteq made \cup {Nothing}
<1>1. isolation[t] \in made \cup {Nothing} /\ blocks[t] \in Seq(made \X BOOLEAN)
  BY DEF S!TypeOK
<1>2. \A i \in 1..Len(blocks[t]) : blocks[t][i] \in made \X BOOLEAN
  BY <1>1
<1>3. \A i \in 1..Len(blocks[t]) : blocks[t][i][1] \in made
  BY <1>2
<1> QED
  BY <1>1, <1>3 DEF Owned

(* A thread in a block owns its scope, too; one that leaves it, no more.   *)
LEMMA OwnedPushed ==
  ASSUME S!Constants, S!TypeOK, NEW t \in Handlers, NEW sc, NEW b \in BOOLEAN,
         isolation[t] \in made,
         isolation'[t] = sc, blocks'[t] = <<<<isolation[t], b>>>> \o blocks[t]
  PROVE  Owned(t)' = Owned(t) \cup {sc}
<1> DEFINE top == <<isolation[t], b>>
<1>1. blocks[t] \in Seq(made \X BOOLEAN) /\ top \in made \X BOOLEAN
  BY DEF S!TypeOK
<1>2. /\ Len(blocks'[t]) = Len(blocks[t]) + 1
      /\ \A i \in 1..Len(blocks'[t]) : blocks'[t][i] = IF i = 1 THEN top ELSE blocks[t][i - 1]
  BY <1>1
<1> HIDE DEF top
<1>3. ASSUME NEW x \in Owned(t)' PROVE x \in Owned(t) \cup {sc}
  <2>1. CASE x = sc
    BY <2>1
  <2>2. CASE x # sc
    <3>1. PICK i \in 1..Len(blocks'[t]) : x = blocks'[t][i][1]
      BY <1>3, <2>2 DEF Owned
    <3>2. CASE i = 1
      BY <1>2, <3>1, <3>2 DEF Owned, top
    <3>3. CASE i # 1
      <4>1. i - 1 \in 1..Len(blocks[t]) /\ x = blocks[t][i - 1][1]
        BY <1>1, <1>2, <3>1, <3>3
      <4> QED
        BY <4>1 DEF Owned
    <3> QED
      BY <3>2, <3>3
  <2> QED
    BY <2>1, <2>2
<1>4. ASSUME NEW x \in Owned(t) PROVE x \in Owned(t)'
  <2>1. CASE x = isolation[t]
    <3>1. 1 \in 1..Len(blocks'[t]) /\ blocks'[t][1][1] = x
      BY <1>1, <1>2, <2>1 DEF top
    <3> QED
      BY <3>1 DEF Owned
  <2>2. CASE x # isolation[t]
    <3>1. PICK i \in 1..Len(blocks[t]) : x = blocks[t][i][1]
      BY <1>4, <2>2 DEF Owned
    <3>2. i + 1 \in 1..Len(blocks'[t]) /\ blocks'[t][i + 1] = blocks[t][i]
      BY <1>1, <1>2, <3>1
    <3> QED
      BY <3>1, <3>2 DEF Owned
  <2> QED
    BY <2>1, <2>2
<1>5. sc \in Owned(t)'
  BY DEF Owned
<1> QED
  BY <1>3, <1>4, <1>5

LEMMA OwnedPopped ==
  ASSUME S!Constants, S!TypeOK, NEW t \in Handlers, blocks[t] # <<>>,
         isolation'[t] = Head(blocks[t])[1], blocks'[t] = Tail(blocks[t])
  PROVE  Owned(t)' \subseteq Owned(t)
<1>1. blocks[t] \in Seq(made \X BOOLEAN)
  BY DEF S!TypeOK
<1>2. /\ Head(blocks[t]) = blocks[t][1] /\ 1 \in 1..Len(blocks[t])
      /\ \A i \in 1..Len(Tail(blocks[t])) : /\ Tail(blocks[t])[i] = blocks[t][i + 1]
                                            /\ i + 1 \in 1..Len(blocks[t])
  BY <1>1
<1>3. isolation'[t] \in Owned(t)
  BY <1>2 DEF Owned
<1>4. ASSUME NEW i \in 1..Len(blocks'[t]) PROVE blocks'[t][i][1] \in Owned(t)
  BY <1>2 DEF Owned
<1> QED
  BY <1>3, <1>4 DEF Owned

LEMMA InitThreads == ASSUME S!Constants, S!Init PROVE WhereInv /\ ApartInv
<1>1. WhereInv
  BY DEF S!Constants, S!Init, WhereInv
<1>2. \A t \in Handlers : t # Main => Owned(t) = {Nothing}
  BY DEF S!Constants, S!Init, Owned
<1> QED
  BY <1>1, <1>2 DEF ApartInv

LEMMA ThreadStep ==
  ASSUME S!Constants, S!TypeOK, WhereInv, [S!Next]_S!vars
  PROVE  WhereInv'
<1> USE DEF S!Constants, S!Goto, S!Calls, S!Kinds
<1>1. CASE UNCHANGED S!vars
  BY <1>1 DEF WhereInv, S!vars, S!scopeState, S!fields, S!local, S!ghosts
<1>2. ASSUME NEW t \in Handlers, S!Take(t) PROVE WhereInv'
  BY <1>2 DEF S!TypeOK, WhereInv, S!Take, S!TakeLeaving
<1>3. ASSUME NEW t \in Handlers, S!Check(t) PROVE WhereInv'
  BY <1>3 DEF S!TypeOK, WhereInv, S!Check, S!CloseIf, S!scopeState, S!fields, S!local, S!ghosts
<1>4. ASSUME NEW t \in Handlers, S!Exit(t) PROVE WhereInv'
  BY <1>4 DEF S!TypeOK, WhereInv, S!Exit, S!scopeState, S!local, S!ghosts
<1>5. ASSUME NEW t \in Handlers, S!Report(t) PROVE WhereInv'
  BY <1>5 DEF S!TypeOK, WhereInv, S!Report, S!scopeState, S!fields, S!ghosts
<1>6. ASSUME NEW t \in Handlers, S!After(t) PROVE WhereInv'
  <2>1. isolation'[t] # Nothing
    <3>1. isolation[t] # Nothing /\ blocks[t] \in Seq(made \X BOOLEAN)
      BY <1>6 DEF S!TypeOK, WhereInv, S!After
    <3>2. CASE call[t] = "leave"
      <4>1. blocks[t] # <<>>
        BY <1>6, <3>2 DEF WhereInv, S!After
      <4>2. Head(blocks[t])[1] \in made
        BY <3>1, <4>1
      <4>3. isolation'[t] = Head(blocks[t])[1]
        BY <1>6, <3>2 DEF S!TypeOK, S!After
      <4> QED
        BY <4>2, <4>3 DEF S!TypeOK
    <3> QED
      BY <1>6, <3>1, <3>2 DEF S!After, S!scopeState
  <2>2. \A u \in Handlers \ {t} :
          /\ isolation'[u] = isolation[u] /\ blocks'[u] = blocks[u] /\ at'[u] = at[u]
          /\ current'[u] = current[u] /\ call'[u] = call[u]
    BY <1>6 DEF S!TypeOK, S!After, S!scopeState, S!local
  <2>3. at'[t] = "idle" /\ current'[t] = current[t] /\ at[t] = "after" /\ call'[t] = "end"
    BY <1>6 DEF S!TypeOK, S!After, S!local
  <2> QED
    BY <2>1, <2>2, <2>3 DEF WhereInv
<1>7. ASSUME NEW t \in Handlers, S!UpdateErrors(t) PROVE WhereInv'
  BY <1>7 DEF S!TypeOK, WhereInv, S!UpdateErrors, S!UpdateErrorsTo, S!scopeState
<1>8. ASSUME NEW t \in Handlers, S!UpdateStatus(t) PROVE WhereInv'
  BY <1>8 DEF S!TypeOK, WhereInv, S!UpdateStatus, S!scopeState
<1>9. ASSUME NEW t \in Handlers, NEW c \in S!Calls, S!Call(t, c) PROVE WhereInv'
  BY <1>9 DEF S!TypeOK, WhereInv, S!Call, S!CallOr, S!Idle, S!scopeState, S!fields, S!local,
     S!ghosts
<1>10. ASSUME NEW t \in Handlers, NEW tracked \in BOOLEAN, S!Enter(t, tracked) PROVE WhereInv'
  <2> DEFINE sc == S!First(Scopes \ made)
  <2>1. sc \in Scopes \ made
    BY <1>10, FirstIn DEF S!TypeOK, S!Enter
  <2> HIDE DEF sc
  <2>2. isolation'[t] = sc /\ sc # Nothing
    BY <1>10, <2>1 DEF S!TypeOK, S!Enter, sc
  <2>3. \A u \in Handlers \ {t} :
          /\ isolation'[u] = isolation[u] /\ blocks'[u] = blocks[u] /\ at'[u] = at[u]
          /\ current'[u] = current[u] /\ call'[u] = call[u]
    BY <1>10 DEF S!TypeOK, S!Enter, S!local
  <2>4. /\ at[t] = "idle" /\ at'[t] \in {"take", "idle"} /\ current'[t] = current[t]
        /\ call'[t] # "leave" /\ (at'[t] = "idle" => call'[t] = "end")
    BY <1>10 DEF S!TypeOK, S!Enter, S!Idle, S!local
  <2> QED
    BY <2>2, <2>3, <2>4 DEF WhereInv
<1>11. ASSUME NEW t \in Handlers, NEW u \in Handlers, NEW propagated \in BOOLEAN,
              S!Spawn(t, u, propagated)
       PROVE  WhereInv'
  <2> DEFINE sc == S!First(Scopes \ made)
  <2>1. sc \in Scopes \ made
    BY <1>11, FirstIn DEF S!TypeOK, S!Spawn
  <2> HIDE DEF sc
  <2>2. isolation' = [isolation EXCEPT ![u] = sc] /\ sc # Nothing
    BY <1>11, <2>1 DEF S!Spawn, sc
  <2> QED
    BY <1>11, <2>2 DEF S!TypeOK, WhereInv, S!Spawn, S!local
<1>12. ASSUME NEW t \in Handlers, NEW k \in S!Kinds, S!Capture(t, k) PROVE WhereInv'
  <2>1. /\ at' = [at EXCEPT ![t] = "errors"]
        /\ current' = [current EXCEPT ![t] = scopeOf[isolation[t]]]
        /\ scopeOf[isolation[t]] # Nothing /\ isolation[t] # Nothing
        /\ UNCHANGED <<isolation, blocks, call>>
    BY <1>12 DEF S!Capture, S!Idle, S!scopeState
  <2>2. at[t] = "idle"
    BY <1>12 DEF S!Capture, S!Idle
  <2>3. at'[t] = "errors" /\ current'[t] # Nothing
    BY <2>1 DEF S!TypeOK
  <2>4. \A u \in Handlers \ {t} : at'[u] = at[u] /\ current'[u] = current[u]
    BY <2>1 DEF S!TypeOK
  <2> QED
    BY <2>1, <2>2, <2>3, <2>4 DEF WhereInv
<1> QED
  BY <1>1, <1>2, <1>3, <1>4, <1>5, <1>6, <1>7, <1>8, <1>9, <1>10, <1>11, <1>12 DEF S!Next,
     S!Step

LEMMA ApartStep ==
  ASSUME S!Constants, S!TypeOK, WhereInv, ApartInv, [S!Next]_S!vars
  PROVE  ApartInv'
<1> USE DEF S!Constants, S!Goto
<1>1. ASSUME UNCHANGED <<isolation, blocks>> PROVE ApartInv'
  <2>1. \A t : Owned(t)' = Owned(t)
    BY <1>1 DEF Owned
  <2> QED
    BY <2>1 DEF ApartInv
<1>2. CASE UNCHANGED S!vars
  BY <1>1, <1>2 DEF S!vars, S!scopeState
<1>3. ASSUME NEW t \in Handlers,
             \/ S!Take(t) \/ S!Check(t) \/ S!Exit(t) \/ S!Report(t)
             \/ S!UpdateErrors(t) \/ S!UpdateStatus(t)
      PROVE  ApartInv'
  BY <1>1, <1>3 DEF S!Take, S!TakeLeaving, S!Check, S!CloseIf, S!Exit, S!Report, S!UpdateErrors,
       S!UpdateErrorsTo, S!UpdateStatus, S!scopeState
<1>4. ASSUME NEW t \in Handlers, S!After(t) PROVE ApartInv'
  <2>1. CASE call[t] # "leave"
    BY <1>1, <1>4, <2>1 DEF S!After, S!scopeState
  <2>2. CASE call[t] = "leave"
    <3>1. blocks[t] # <<>> /\ isolation'[t] = Head(blocks[t])[1] /\ blocks'[t] = Tail(blocks[t])
      BY <1>4, <2>2 DEF S!TypeOK, WhereInv, S!After
    <3>2. Owned(t)' \subseteq Owned(t)
      BY <3>1, OwnedPopped
    <3>3. \A u \in Handlers \ {t} : Owned(u)' = Owned(u)
      <4>1. \A u \in Handlers \ {t} : isolation'[u] = isolation[u] /\ blocks'[u] = blocks[u]
        BY <1>4, <2>2 DEF S!TypeOK, S!After
      <4> QED
        BY <4>1 DEF Owned
    <3> QED
      BY <3>2, <3>3 DEF ApartInv
  <2> QED
    BY <2>1, <2>2
<1>5. ASSUME NEW t \in Handlers, NEW c \in S!Calls, S!Call(t, c) PROVE ApartInv'
  BY <1>1, <1>5 DEF S!Call, S!CallOr, S!scopeState
<1>6. ASSUME NEW t \in Handlers, NEW tracked \in BOOLEAN, S!Enter(t, tracked) PROVE ApartInv'
  <2> DEFINE sc == S!First(Scopes \ made)
  <2>1. sc \in Scopes \ made
    BY <1>6, FirstIn DEF S!TypeOK, S!Enter
  <2>2. /\ isolation[t] \in made /\ isolation'[t] = sc
        /\ blocks'[t] = <<<<isolation[t], tracked>>>> \o blocks[t]
    BY <1>6 DEF S!TypeOK, S!Enter, S!Idle
  <2> HIDE DEF sc
  <2>3. Owned(t)' = Owned(t) \cup {sc}
    BY <2>2, OwnedPushed
  <2>4. \A u \in Handlers \ {t} : Owned(u)' = Owned(u) /\ sc \notin Owned(u)
    <3> SUFFICES ASSUME NEW u \in Handlers \ {t} PROVE Owned(u)' = Owned(u) /\ sc \notin Owned(u)
      OBVIOUS
    <3>1. Owned(u)' = Owned(u)
      BY <1>6 DEF S!TypeOK, S!Enter, Owned
    <3> QED
      BY <2>1, <3>1, OwnedAre
  <2> QED
    BY <2>3, <2>4 DEF ApartInv
<1>7. ASSUME NEW t \in Handlers, NEW u \in Handlers, NEW propagated \in BOOLEAN,
             S!Spawn(t, u, propagated)
      PROVE  ApartInv'
  <2> DEFINE sc == S!First(Scopes \ made)
  <2>1. sc \in Scopes \ made
    BY <1>7, FirstIn DEF S!TypeOK, S!Spawn
  <2>2. isolation' = [isolation EXCEPT ![u] = sc] /\ blocks' = blocks
    BY <1>7 DEF S!Spawn
  <2> HIDE DEF sc
  <2>3. Owned(u)' \subseteq Owned(u) \cup {sc}
    BY <2>2 DEF S!TypeOK, Owned
  <2>4. \A v \in Handlers \ {u} : Owned(v)' = Owned(v) /\ sc \notin Owned(v)
    <3> SUFFICES ASSUME NEW v \in Handlers \ {u} PROVE Owned(v)' = Owned(v) /\ sc \notin Owned(v)
      OBVIOUS
    <3>1. Owned(v)' = Owned(v)
      BY <2>2 DEF S!TypeOK, Owned
    <3> QED
      BY <2>1, <3>1, OwnedAre
  <2> QED
    BY <2>3, <2>4 DEF ApartInv
<1>8. ASSUME NEW t \in Handlers, NEW k \in S!Kinds, S!Capture(t, k) PROVE ApartInv'
  BY <1>1, <1>8 DEF S!Capture, S!scopeState
<1> QED
  BY <1>2, <1>3, <1>4, <1>5, <1>6, <1>7, <1>8 DEF S!Next, S!Step

(* ... what does not exist yet, ...                                        *)
LEMMA InitNew == ASSUME S!Constants, S!Init PROVE NewInv /\ TakenInv
  BY DEF S!Constants, S!Init, NewInv, TakenInv

LEMMA NewStep ==
  ASSUME S!Constants, S!TypeOK, WhereInv, NewInv, [S!Next]_S!vars
  PROVE  NewInv'
<1> USE DEF S!Constants, S!Goto
<1>1. CASE UNCHANGED S!vars
  BY <1>1 DEF NewInv, S!vars, S!scopeState, S!fields, S!ghosts
<1>2. ASSUME NEW t \in Handlers, S!Take(t) PROVE NewInv'
  <2>1. isolation[t] \in made
    BY <1>2 DEF S!TypeOK, WhereInv, S!Take, S!TakeLeaving
  <2> QED
    BY <1>2, <2>1 DEF S!TypeOK, NewInv, S!Take, S!TakeLeaving, S!fields
<1>3. ASSUME NEW t \in Handlers, S!Check(t) PROVE NewInv'
  BY <1>3 DEF NewInv, S!Check, S!CloseIf, S!scopeState, S!fields, S!ghosts
<1>4. ASSUME NEW t \in Handlers, S!Exit(t) PROVE NewInv'
  <2>1. current[t] \in begun
    BY <1>4 DEF S!TypeOK, WhereInv, S!Exit
  <2> QED
    BY <1>4, <2>1 DEF S!TypeOK, NewInv, S!Exit, S!scopeState, S!ghosts
<1>5. ASSUME NEW t \in Handlers, S!Report(t) PROVE NewInv'
  <2>1. current[t] \in begun
    BY <1>5 DEF S!TypeOK, WhereInv, S!Report
  <2> QED
    BY <1>5, <2>1 DEF S!TypeOK, NewInv, S!Report, S!scopeState, S!fields, S!ghosts
<1>6. ASSUME NEW t \in Handlers, S!After(t) PROVE NewInv'
  <2>1. isolation[t] \in made
    BY <1>6 DEF S!TypeOK, WhereInv, S!After
  <2>2. CASE call[t] # "start"
    BY <1>6, <2>2 DEF NewInv, S!After, S!scopeState, S!fields, S!ghosts
  <2>3. CASE call[t] = "start"
    <3> DEFINE s == S!First(Objects \ begun)
    <3>1. begun' = begun \cup {s} /\ holders' = [holders EXCEPT ![s] = 1]
      BY <1>6, <2>3 DEF S!After
    <3>2. scopeOf' = [scopeOf EXCEPT ![isolation[t]] = s]
      BY <1>6, <2>3 DEF S!After
    <3>3. UNCHANGED <<made, status, errors, count, reports>>
      BY <1>6, <2>3 DEF S!After, S!fields, S!ghosts
    <3> HIDE DEF s
    <3> QED
      BY <2>1, <3>1, <3>2, <3>3 DEF S!TypeOK, NewInv
  <2> QED
    BY <2>2, <2>3
<1>7. ASSUME NEW t \in Handlers, S!UpdateErrors(t) PROVE NewInv'
  <2>1. current[t] \in begun
    BY <1>7 DEF S!TypeOK, WhereInv, S!UpdateErrors, S!UpdateErrorsTo
  <2>2. \A s \in Objects \ begun : errors'[s] = errors[s]
    BY <1>7, <2>1 DEF S!TypeOK, S!UpdateErrors, S!UpdateErrorsTo
  <2> QED
    BY <1>7, <2>2 DEF NewInv, S!UpdateErrors, S!UpdateErrorsTo, S!scopeState
<1>8. ASSUME NEW t \in Handlers, S!UpdateStatus(t) PROVE NewInv'
  <2>1. current[t] \in begun
    BY <1>8 DEF S!TypeOK, WhereInv, S!UpdateStatus
  <2> QED
    BY <1>8, <2>1 DEF S!TypeOK, NewInv, S!UpdateStatus, S!scopeState
<1>9. ASSUME NEW t \in Handlers, NEW c \in S!Calls, S!Call(t, c) PROVE NewInv'
  BY <1>9 DEF NewInv, S!Call, S!CallOr, S!scopeState, S!fields, S!ghosts
<1>10. ASSUME NEW t \in Handlers, NEW sc \in Scopes \ made, isolation[t] \in made,
              S!Fork(isolation[t], sc), UNCHANGED <<begun, S!fields, reports, S!ghosts>>
       PROVE  NewInv'
  <2>1. \A s \in Objects \ begun : s # scopeOf[isolation[t]]
    BY <1>10 DEF S!TypeOK
  <2>2. made' = made \cup {sc} /\ scopeOf' = [scopeOf EXCEPT ![sc] = scopeOf[isolation[t]]]
    BY <1>10 DEF S!Fork
  <2>3. \A s \in Objects \ begun : holders'[s] = holders[s]
    BY <1>10, <2>1 DEF S!Fork
  <2> QED
    BY <1>10, <2>2, <2>3 DEF S!TypeOK, NewInv, S!fields, S!ghosts
<1>11. ASSUME NEW t \in Handlers, NEW tracked \in BOOLEAN, S!Enter(t, tracked) PROVE NewInv'
  <2>1. S!First(Scopes \ made) \in Scopes \ made /\ isolation[t] \in made
    BY <1>11, FirstIn DEF S!TypeOK, S!Enter, S!Idle
  <2> QED
    BY <1>10, <1>11, <2>1 DEF S!Enter
<1>12. ASSUME NEW t \in Handlers, NEW u \in Handlers, NEW propagated \in BOOLEAN,
              S!Spawn(t, u, propagated)
       PROVE  NewInv'
  <2>1. S!First(Scopes \ made) \in Scopes \ made /\ isolation[t] \in made
    BY <1>12, FirstIn DEF S!TypeOK, S!Spawn, S!Idle
  <2>2. CASE propagated
    BY <1>10, <1>12, <2>1, <2>2 DEF S!Spawn
  <2>3. CASE ~propagated
    BY <1>12, <2>3 DEF NewInv, S!Spawn, S!fields, S!ghosts
  <2> QED
    BY <2>2, <2>3
<1>13. ASSUME NEW t \in Handlers, NEW k \in S!Kinds, S!Capture(t, k) PROVE NewInv'
  <2>1. scopeOf[isolation[t]] \in begun
    BY <1>13 DEF S!TypeOK, S!Capture, S!Idle
  <2>2. \A s \in Objects \ begun : count'[s] = count[s]
    BY <1>13, <2>1 DEF S!TypeOK, S!Capture
  <2> QED
    BY <1>13, <2>2 DEF NewInv, S!Capture, S!scopeState, S!fields
<1> QED
  BY <1>1, <1>2, <1>3, <1>4, <1>5, <1>6, <1>7, <1>8, <1>9, <1>11, <1>12, <1>13 DEF S!Next,
     S!Step

(* ... what a call has taken, ...                                          *)
LEMMA TakenStep ==
  ASSUME S!Constants, S!TypeOK, WhereInv, ApartInv, NewInv, TakenInv, [S!Next]_S!vars
  PROVE  TakenInv'
<1> USE DEF S!Constants, S!Goto, Untracked
<1>1. CASE UNCHANGED S!vars
  BY <1>1 DEF TakenInv, S!vars, S!scopeState
<1> DEFINE Same(u) ==
      /\ at'[u] = at[u] /\ call'[u] = call[u] /\ blocks'[u] = blocks[u]
      /\ isolation'[u] = isolation[u]
(* No other thread touches the session of a thread's scope.                *)
<1>2. ASSUME NEW t \in Handlers, NEW u \in Handlers \ {t}, isolation[t] # Nothing
      PROVE  isolation[u] # isolation[t]
  BY <1>2 DEF ApartInv, Owned
<1>3. ASSUME NEW t \in Handlers, S!Take(t) PROVE TakenInv'
  <2>1. isolation[t] \in made
    BY <1>3 DEF S!TypeOK, WhereInv, S!Take, S!TakeLeaving
  <2>2. scopeOf' = [scopeOf EXCEPT ![isolation[t]] = Nothing]
    BY <1>3 DEF S!Take, S!TakeLeaving
  <2>3. scopeOf'[isolation[t]] = Nothing /\ isolation' = isolation
    BY <1>3, <2>1, <2>2 DEF S!TypeOK, S!Take, S!TakeLeaving
  <2>4. \A u \in Handlers \ {t} : Same(u)
    BY <1>3 DEF S!TypeOK, S!Take, S!TakeLeaving
  <2>5. \A sc : scopeOf[sc] = Nothing => scopeOf'[sc] = Nothing
    BY <2>1, <2>2 DEF S!TypeOK
  <2> QED
    BY <2>3, <2>4, <2>5 DEF TakenInv
<1>4. ASSUME NEW t \in Handlers,
             S!Check(t) \/ S!Exit(t) \/ S!Report(t) \/ S!UpdateErrors(t) \/ S!UpdateStatus(t)
      PROVE  TakenInv'
  <2>1. UNCHANGED <<scopeOf, isolation, blocks, call>>
    BY <1>4 DEF S!Check, S!CloseIf, S!Exit, S!Report, S!UpdateErrors, S!UpdateErrorsTo,
       S!UpdateStatus, S!scopeState
  <2>2. \A u \in Handlers \ {t} : at'[u] = at[u]
    BY <1>4 DEF S!TypeOK, S!Check, S!CloseIf, S!Exit, S!Report, S!UpdateErrors,
       S!UpdateErrorsTo, S!UpdateStatus
  <2>3. \/ at[t] \in {"check", "exit", "report"}
        \/ at'[t] \in {"status", "idle"}
    BY <1>4 DEF S!TypeOK, S!Check, S!CloseIf, S!Exit, S!Report, S!UpdateErrors,
       S!UpdateErrorsTo, S!UpdateStatus
  <2> QED
    BY <2>1, <2>2, <2>3 DEF TakenInv
<1>5. ASSUME NEW t \in Handlers, S!After(t) PROVE TakenInv'
  <2>1. at'[t] = "idle" /\ \A u \in Handlers \ {t} : Same(u)
    BY <1>5 DEF S!TypeOK, S!After, S!scopeState
  <2>2. \A u \in Handlers \ {t} : isolation[u] # isolation[t]
    BY <1>2, <1>5 DEF S!TypeOK, WhereInv, S!After
  <2>3. scopeOf' = scopeOf \/ \E s : scopeOf' = [scopeOf EXCEPT ![isolation[t]] = s]
    BY <1>5 DEF S!After, S!scopeState
  <2>4. \A u \in Handlers \ {t} :
          isolation[u] # Nothing => scopeOf'[isolation[u]] = scopeOf[isolation[u]]
    BY <2>2, <2>3 DEF S!TypeOK
  <2> QED
    BY <2>1, <2>4 DEF TakenInv, WhereInv
<1>6. ASSUME NEW t \in Handlers, NEW c \in S!Calls, S!Call(t, c) PROVE TakenInv'
  <2>1. UNCHANGED <<scopeOf, isolation, blocks>>
    BY <1>6 DEF S!Call, S!CallOr, S!scopeState
  <2>2. \A u \in Handlers \ {t} : Same(u)
    BY <1>6, <2>1 DEF S!TypeOK, S!Call, S!CallOr
  <2>3. at'[t] = "after" => Untracked(t)'
    BY <1>6, <2>1 DEF S!TypeOK, S!Call, S!CallOr
  <2>4. at'[t] \in {"take", "after"}
    BY <1>6 DEF S!TypeOK, S!Call, S!CallOr
  <2> QED
    BY <2>1, <2>2, <2>3, <2>4 DEF TakenInv
<1>7. ASSUME NEW sc \in Scopes \ made, NEW sc1,
             S!Fork(sc1, sc) \/ scopeOf' = scopeOf
      PROVE  \A u \in Handlers :
               isolation[u] # Nothing => scopeOf'[isolation[u]] = scopeOf[isolation[u]]
  BY <1>7 DEF S!TypeOK, S!Fork
<1>8. ASSUME NEW t \in Handlers, NEW tracked \in BOOLEAN, S!Enter(t, tracked) PROVE TakenInv'
  <2>1. S!First(Scopes \ made) \in Scopes \ made
    BY <1>8, FirstIn DEF S!TypeOK, S!Enter
  <2>2. \A u \in Handlers : isolation[u] # Nothing => scopeOf'[isolation[u]] = scopeOf[isolation[u]]
    BY <1>7, <1>8, <2>1 DEF S!Enter
  <2>3. at'[t] \in {"take", "idle"} /\ \A u \in Handlers \ {t} : Same(u)
    BY <1>8 DEF S!TypeOK, S!Enter
  <2> QED
    BY <2>2, <2>3 DEF TakenInv, WhereInv
<1>9. ASSUME NEW t \in Handlers, NEW u \in Handlers, NEW propagated \in BOOLEAN,
             S!Spawn(t, u, propagated)
      PROVE  TakenInv'
  <2>1. S!First(Scopes \ made) \in Scopes \ made
    BY <1>9, FirstIn DEF S!TypeOK, S!Spawn
  <2>2. \A v \in Handlers : isolation[v] # Nothing => scopeOf'[isolation[v]] = scopeOf[isolation[v]]
    BY <1>7, <1>9, <2>1 DEF S!Spawn
  <2>3. at[u] = "idle" /\ at' = at /\ \A v \in Handlers \ {u} : Same(v)
    BY <1>9 DEF S!TypeOK, WhereInv, S!Spawn
  <2> QED
    BY <2>2, <2>3 DEF TakenInv, WhereInv
<1>10. ASSUME NEW t \in Handlers, NEW k \in S!Kinds, S!Capture(t, k) PROVE TakenInv'
  <2>1. at'[t] = "errors" /\ UNCHANGED scopeOf /\ \A u \in Handlers \ {t} : Same(u)
    BY <1>10 DEF S!TypeOK, S!Capture, S!scopeState
  <2> QED
    BY <2>1 DEF TakenInv
<1> QED
  BY <1>1, <1>3, <1>4, <1>5, <1>6, <1>8, <1>9, <1>10 DEF S!Next, S!Step

(* ... and how many scopes have had a session.                             *)
LEMMA InitCount == ASSUME S!Constants, S!Init PROVE CountInv
<1>1. made = {1} /\ IsFiniteSet(made)
  BY FS_Singleton DEF S!Init
<1>2. ASSUME NEW s \in Objects PROVE CountOf(s)
  <2>1. S!Ending(s) = {} /\ Holding(s) = {}
    BY DEF S!Constants, S!Init, S!Ending, Holding
  <2>2. holders[s] = 0 /\ Len(reports[s]) = 0
    BY DEF S!Init
  <2> QED
    BY <2>1, <2>2, FS_EmptySet DEF CountOf
<1> QED
  BY <1>1, <1>2 DEF CountInv

LEMMA Types ==
  ASSUME S!Constants, S!TypeOK, CountInv, NEW s \in Objects
  PROVE  /\ holders[s] \in Nat /\ Len(reports[s]) \in Nat
         /\ IsFiniteSet(S!Ending(s)) /\ Cardinality(S!Ending(s)) \in Nat
         /\ IsFiniteSet(Holding(s)) /\ Cardinality(Holding(s)) \in Nat
<1>1. Holding(s) \subseteq made
  BY DEF Holding
<1>2. IsFiniteSet(Holding(s)) /\ IsFiniteSet(S!Ending(s))
  BY <1>1, FS_Subset DEF CountInv, CountOf
<1>3. Cardinality(S!Ending(s)) \in Nat /\ Cardinality(Holding(s)) \in Nat
  BY <1>2, FS_CardinalityType
<1> QED
  BY <1>2, <1>3 DEF S!TypeOK

(* The count of a session for which nothing changes.                       *)
LEMMA Unmoved ==
  ASSUME NEW s \in Objects, CountOf(s), holders'[s] = holders[s], reports'[s] = reports[s],
         S!Ending(s)' = S!Ending(s), Holding(s)' = Holding(s)
  PROVE  CountOf(s)'
  BY DEF CountOf

(* A fork of a scope with a session, or none.                              *)
LEMMA OneMore ==
  ASSUME NEW h, NEW a \in Nat, NEW b \in Nat, NEW c \in Nat, h = a + b + c
  PROVE  h + 1 = a + b + (c + 1)
  OBVIOUS

LEMMA CountFork ==
  ASSUME S!Constants, S!TypeOK, CountInv, NewInv,
         NEW sc \in made, NEW copy \in Scopes \ made, S!Fork(sc, copy),
         reports' = reports, \A s \in Objects : S!Ending(s)' = S!Ending(s)
  PROVE  CountInv'
<1>1. made' = made \cup {copy} /\ scopeOf' = [scopeOf EXCEPT ![copy] = scopeOf[sc]]
  BY DEF S!Fork
<1>2. IsFiniteSet(made')
  BY <1>1, FS_AddElement DEF CountInv
<1>3. ASSUME NEW s \in Objects, s = scopeOf[sc] PROVE CountOf(s)'
  <2>1. Holding(s)' = Holding(s) \cup {copy} /\ copy \notin Holding(s)
    BY <1>1, <1>3 DEF S!TypeOK, Holding
  <2>2. Cardinality(Holding(s)') = Cardinality(Holding(s)) + 1
    BY <2>1, Types, FS_AddElement
  <2>3. holders'[s] = holders[s] + 1
    BY <1>3 DEF S!Fork
  <2>4. S!Ending(s)' = S!Ending(s) /\ reports'[s] = reports[s]
    OBVIOUS
  <2>5. IsFiniteSet(S!Ending(s)') /\ Cardinality(S!Ending(s)') = Cardinality(S!Ending(s))
    BY <2>4, Types
  <2>6. holders[s] = Len(reports[s]) + Cardinality(S!Ending(s)) + Cardinality(Holding(s))
    BY DEF CountInv, CountOf
  <2>7. /\ Len(reports[s]) \in Nat
      /\ Cardinality(S!Ending(s)) \in Nat /\ Cardinality(Holding(s)) \in Nat
    BY Types
  <2>8. holders[s] + 1 = Len(reports[s]) + Cardinality(S!Ending(s)) + (Cardinality(Holding(s)) + 1)
    BY <2>6, <2>7, OneMore
  <2>9. holders'[s] = Len(reports'[s]) + Cardinality(S!Ending(s)') + Cardinality(Holding(s)')
    BY <2>2, <2>3, <2>4, <2>5, <2>8
  <2> QED
    BY <2>5, <2>9 DEF CountOf
<1>4. ASSUME NEW s \in Objects, s # scopeOf[sc] PROVE CountOf(s)'
  <2>1. Holding(s)' = Holding(s)
    BY <1>1, <1>4 DEF S!TypeOK, Holding
  <2>2. holders'[s] = holders[s]
    BY <1>4 DEF S!Fork
  <2> QED
    BY <2>1, <2>2, Unmoved DEF CountInv
<1> QED
  BY <1>2, <1>3, <1>4 DEF CountInv

(* end_session() has the session instead of the scope, ...                 *)
LEMMA CountTake ==
  ASSUME S!Constants, S!TypeOK, WhereInv, CountInv, NEW t \in Handlers, S!Take(t)
  PROVE  CountInv'
<1> USE DEF S!Constants, S!Goto
<1> DEFINE sc == isolation[t]
<1>1. /\ sc \in made /\ scopeOf[sc] \in begun \cup {Nothing}
      /\ at[t] = "take" /\ current[t] = Nothing
  BY DEF S!TypeOK, WhereInv, S!Take, S!TakeLeaving
<1>2. /\ made' = made /\ holders' = holders /\ reports' = reports
      /\ scopeOf' = [scopeOf EXCEPT ![sc] = Nothing]
      /\ current' = [current EXCEPT ![t] = scopeOf[sc]]
      /\ at' = [at EXCEPT ![t] = IF scopeOf[sc] = Nothing THEN "after" ELSE "check"]
  BY DEF S!Take, S!TakeLeaving
<1> HIDE DEF sc
<1>3. ASSUME NEW s \in Objects, s = scopeOf[sc] PROVE CountOf(s)'
  <2>1. Holding(s)' = Holding(s) \ {sc} /\ sc \in Holding(s)
    BY <1>1, <1>2, <1>3 DEF S!TypeOK, Holding
  <2>2. S!Ending(s)' = S!Ending(s) \cup {t} /\ t \notin S!Ending(s)
    <3>1. at'[t] = "check" /\ current'[t] = s
      BY <1>2, <1>3 DEF S!TypeOK
    <3>2. \A u \in Handlers \ {t} : at'[u] = at[u] /\ current'[u] = current[u]
      BY <1>2 DEF S!TypeOK
    <3> QED
      BY <1>1, <3>1, <3>2 DEF S!Ending
  <2>3. Cardinality(Holding(s)') = Cardinality(Holding(s)) - 1
    BY <2>1, Types, FS_RemoveElement
  <2>4. IsFiniteSet(S!Ending(s)') /\ Cardinality(S!Ending(s)') = Cardinality(S!Ending(s)) + 1
    BY <2>2, Types, FS_AddElement
  <2> QED
    BY <1>2, <2>3, <2>4, Types DEF CountInv, CountOf
<1>4. ASSUME NEW s \in Objects, s # scopeOf[sc] PROVE CountOf(s)'
  <2>1. Holding(s)' = Holding(s)
    BY <1>1, <1>2, <1>4 DEF S!TypeOK, Holding
  <2>2. S!Ending(s)' = S!Ending(s)
    <3>1. current'[t] # s
      BY <1>2, <1>4 DEF S!TypeOK
    <3>2. \A u \in Handlers \ {t} : at'[u] = at[u] /\ current'[u] = current[u]
      BY <1>2 DEF S!TypeOK
    <3> QED
      BY <1>1, <3>1, <3>2 DEF S!Ending
  <2> QED
    BY <1>2, <2>1, <2>2, Unmoved DEF CountInv
<1> QED
  BY <1>2, <1>3, <1>4 DEF CountInv

(* ... and then the report instead of it.                                  *)
LEMMA CountReport ==
  ASSUME S!Constants, S!TypeOK, WhereInv, CountInv, NEW t \in Handlers, S!Report(t)
  PROVE  CountInv'
<1> USE DEF S!Constants, S!Goto
<1> DEFINE r == [status |-> status[current[t]], errors |-> errors[current[t]]]
<1>1. current[t] \in begun /\ at[t] = "report"
  BY DEF S!TypeOK, WhereInv, S!Report
<1>2. /\ made' = made /\ holders' = holders /\ scopeOf' = scopeOf
      /\ reports' = [reports EXCEPT ![current[t]] = Append(reports[current[t]], r)]
      /\ current' = [current EXCEPT ![t] = Nothing]
      /\ at' = [at EXCEPT ![t] = "after"]
  BY DEF S!Report, S!scopeState
<1> HIDE DEF r
<1>3. \A s \in Objects : Holding(s)' = Holding(s)
  BY <1>2 DEF Holding
<1>4. \A u \in Handlers \ {t} : at'[u] = at[u] /\ current'[u] = current[u]
  BY <1>2 DEF S!TypeOK
<1>5. at'[t] = "after" /\ current'[t] = Nothing
  BY <1>2 DEF S!TypeOK
<1>6. ASSUME NEW s \in Objects, s = current[t] PROVE CountOf(s)'
  <2>1. S!Ending(s)' = S!Ending(s) \ {t} /\ t \in S!Ending(s)
    BY <1>1, <1>4, <1>5, <1>6 DEF S!Ending
  <2>2. IsFiniteSet(S!Ending(s)') /\ Cardinality(S!Ending(s)') = Cardinality(S!Ending(s)) - 1
    BY <2>1, Types, FS_RemoveElement
  <2>3. Len(reports'[s]) = Len(reports[s]) + 1
    BY <1>2, <1>6 DEF S!TypeOK
  <2> QED
    BY <1>2, <1>3, <2>2, <2>3, Types DEF CountInv, CountOf
<1>7. ASSUME NEW s \in Objects, s # current[t] PROVE CountOf(s)'
  <2>1. S!Ending(s)' = S!Ending(s)
    BY <1>4, <1>5, <1>7 DEF S!Ending
  <2>2. reports'[s] = reports[s]
    BY <1>2, <1>7 DEF S!TypeOK
  <2> QED
    BY <1>2, <1>3, <2>1, <2>2, Unmoved DEF CountInv
<1> QED
  BY <1>2, <1>6, <1>7 DEF CountInv

(* start_session() puts a new one on the scope, which has none any more.   *)
LEMMA CountStart ==
  ASSUME S!Constants, S!TypeOK, WhereInv, TakenInv, NewInv, CountInv,
         NEW t \in Handlers, S!After(t), call[t] = "start"
  PROVE  CountInv'
<1> USE DEF S!Constants, S!Goto
<1> DEFINE sc == isolation[t]
<1>1. PICK new \in Objects \ begun :
        holders' = [holders EXCEPT ![new] = 1] /\ scopeOf' = [scopeOf EXCEPT ![sc] = new]
  <2>1. Objects \ begun # {}
    BY DEF S!TypeOK, S!After
  <2>2. S!First(Objects \ begun) \in Objects \ begun
    BY <2>1, FirstIn
  <2> QED
    BY <2>2 DEF S!After
<1>2. sc \in made /\ scopeOf[sc] = Nothing
  BY DEF S!TypeOK, WhereInv, TakenInv, Untracked, S!After
<1>3. /\ made' = made /\ reports' = reports /\ current' = current
      /\ at' = [at EXCEPT ![t] = "idle"] /\ at[t] = "after"
  BY DEF S!After, S!local
<1> HIDE DEF sc
<1>4. \A s \in Objects : S!Ending(s)' = S!Ending(s)
  BY <1>3 DEF S!TypeOK, S!Ending
<1>5. CountOf(new)'
  <2>1. Holding(new)' = {sc}
    BY <1>1, <1>2, <1>3 DEF S!TypeOK, Holding
  <2>2. S!Ending(new) = {}
    BY <1>1 DEF S!TypeOK, S!Ending
  <2>3. holders'[new] = 1 /\ Len(reports'[new]) = 0
    BY <1>1, <1>3 DEF S!TypeOK, NewInv
  <2>4. IsFiniteSet(S!Ending(new)') /\ Cardinality(S!Ending(new)') = 0
    BY <1>1, <1>4, <2>2, FS_EmptySet
  <2>5. Cardinality(Holding(new)') = 1
    BY <2>1, FS_Singleton
  <2> QED
    BY <2>3, <2>4, <2>5 DEF CountOf
<1>6. ASSUME NEW s \in Objects, s # new PROVE CountOf(s)'
  <2>1. Holding(s)' = Holding(s)
    BY <1>1, <1>2, <1>3, <1>6 DEF S!TypeOK, Holding
  <2>2. holders'[s] = holders[s]
    BY <1>1, <1>6 DEF S!TypeOK
  <2> QED
    BY <1>3, <1>4, <2>1, <2>2, Unmoved DEF CountInv
<1> QED
  BY <1>3, <1>5, <1>6 DEF CountInv

LEMMA CountStep ==
  ASSUME S!Constants, S!TypeOK, WhereInv, TakenInv, NewInv, CountInv, [S!Next]_S!vars
  PROVE  CountInv'
<1> USE DEF S!Constants, S!Goto
<1>1. ASSUME UNCHANGED <<made, scopeOf, holders, reports>>,
             \A s \in Objects : S!Ending(s)' = S!Ending(s)
      PROVE  CountInv'
  <2>1. \A s \in Objects : Holding(s)' = Holding(s)
    BY <1>1 DEF Holding
  <2>2. \A s \in Objects : CountOf(s)'
    BY <1>1, <2>1, Unmoved DEF CountInv
  <2> QED
    BY <1>1, <2>2 DEF CountInv
<1>2. CASE UNCHANGED S!vars
  <2>1. \A s \in Objects : S!Ending(s)' = S!Ending(s)
    BY <1>2 DEF S!vars, S!local, S!Ending
  <2> QED
    BY <1>1, <1>2, <2>1 DEF S!vars, S!scopeState
(* A step of one thread on no session, or between check() and report().    *)
<1>3. ASSUME NEW t \in Handlers,
             \/ current[t] = Nothing /\ current'[t] = Nothing
             \/ /\ current'[t] = current[t]
                /\ {at[t], at'[t]} \subseteq {"check", "exit", "report"}
             \/ {at[t], at'[t]} \cap {"check", "exit", "report"} = {},
             \A u \in Handlers \ {t} : at'[u] = at[u] /\ current'[u] = current[u]
      PROVE  \A s \in Objects : S!Ending(s)' = S!Ending(s)
  <2>1. \A s \in Objects : \A u \in Handlers :
          (current'[u] = s /\ at'[u] \in {"check", "exit", "report"})
            <=> (current[u] = s /\ at[u] \in {"check", "exit", "report"})
    BY <1>3
  <2> QED
    BY <2>1 DEF S!Ending
<1>4. ASSUME NEW t \in Handlers, S!Check(t) \/ S!Exit(t) PROVE CountInv'
  <2>1. UNCHANGED <<made, scopeOf, holders, reports, current>>
    BY <1>4 DEF S!Check, S!CloseIf, S!Exit, S!scopeState, S!local
  <2>2. /\ {at[t], at'[t]} \subseteq {"check", "exit", "report"}
        /\ \A u \in Handlers \ {t} : at'[u] = at[u]
    BY <1>4 DEF S!TypeOK, S!Check, S!CloseIf, S!Exit
  <2> QED
    BY <1>1, <1>3, <2>1, <2>2
<1>5. ASSUME NEW t \in Handlers, S!UpdateErrors(t) \/ S!UpdateStatus(t) PROVE CountInv'
  <2>1. UNCHANGED <<made, scopeOf, holders, reports>>
    BY <1>5 DEF S!UpdateErrors, S!UpdateErrorsTo, S!UpdateStatus, S!scopeState
  <2>2. /\ {at[t], at'[t]} \cap {"check", "exit", "report"} = {}
        /\ \A u \in Handlers \ {t} : at'[u] = at[u] /\ current'[u] = current[u]
    BY <1>5 DEF S!TypeOK, S!UpdateErrors, S!UpdateErrorsTo, S!UpdateStatus
  <2> QED
    BY <1>1, <1>3, <2>1, <2>2
<1>6. ASSUME NEW t \in Handlers, S!After(t) PROVE CountInv'
  <2>1. CASE call[t] = "start"
    BY <1>6, <2>1, CountStart
  <2>2. CASE call[t] # "start"
    <3>1. UNCHANGED <<made, scopeOf, holders, reports, current>>
      BY <1>6, <2>2 DEF S!After, S!scopeState, S!local
    <3>2. /\ {at[t], at'[t]} \cap {"check", "exit", "report"} = {}
          /\ \A u \in Handlers \ {t} : at'[u] = at[u]
      BY <1>6 DEF S!TypeOK, S!After
    <3> QED
      BY <1>1, <1>3, <3>1, <3>2
  <2> QED
    BY <2>1, <2>2
<1>7. ASSUME NEW t \in Handlers, NEW c \in S!Calls, S!Call(t, c) PROVE CountInv'
  <2>1. UNCHANGED <<made, scopeOf, holders, reports, current>>
    BY <1>7 DEF S!Call, S!CallOr, S!scopeState, S!local
  <2>2. /\ {at[t], at'[t]} \cap {"check", "exit", "report"} = {}
        /\ \A u \in Handlers \ {t} : at'[u] = at[u]
    BY <1>7 DEF S!TypeOK, S!Call, S!CallOr, S!Idle
  <2> QED
    BY <1>1, <1>3, <2>1, <2>2
<1>8. ASSUME NEW t \in Handlers, NEW tracked \in BOOLEAN, S!Enter(t, tracked) PROVE CountInv'
  <2>1. S!First(Scopes \ made) \in Scopes \ made /\ isolation[t] \in made
    BY <1>8, FirstIn DEF S!TypeOK, S!Enter, S!Idle
  <2>2. /\ {at[t], at'[t]} \cap {"check", "exit", "report"} = {}
        /\ \A u \in Handlers \ {t} : at'[u] = at[u] /\ current'[u] = current[u]
    BY <1>8 DEF S!TypeOK, S!Enter, S!Idle, S!local
  <2>3. \A s \in Objects : S!Ending(s)' = S!Ending(s)
    BY <1>3, <2>2
  <2> QED
    BY <1>8, <2>1, <2>3, CountFork DEF S!Enter
<1>9. ASSUME NEW t \in Handlers, NEW u \in Handlers, NEW propagated \in BOOLEAN,
             S!Spawn(t, u, propagated)
      PROVE  CountInv'
  <2> DEFINE copy == S!First(Scopes \ made)
  <2>1. copy \in Scopes \ made /\ isolation[t] \in made
    BY <1>9, FirstIn DEF S!TypeOK, S!Spawn, S!Idle
  <2>2. \A s \in Objects : S!Ending(s)' = S!Ending(s)
    BY <1>9 DEF S!Spawn, S!local, S!Ending
  <2>3. reports' = reports
    BY <1>9 DEF S!Spawn
  <2>4. CASE propagated
    BY <1>9, <2>1, <2>2, <2>3, <2>4, CountFork DEF S!Spawn
  <2>5. CASE ~propagated
    <3>1. UNCHANGED <<scopeOf, holders, reports>>
      BY <1>9, <2>3, <2>5 DEF S!Spawn
    <3>2. made' = made \cup {copy} /\ scopeOf[copy] = Nothing
      BY <1>9, <2>1, <2>5 DEF S!Spawn, NewInv
    <3> HIDE DEF copy
    <3>3. \A s \in Objects : Holding(s)' = Holding(s)
      BY <3>1, <3>2 DEF Holding
    <3>4. IsFiniteSet(made')
      BY <3>2, FS_AddElement DEF CountInv
    <3> QED
      BY <2>2, <3>1, <3>3, <3>4, Unmoved DEF CountInv
  <2> QED
    BY <2>4, <2>5
<1>10. ASSUME NEW t \in Handlers, NEW k \in S!Kinds, S!Capture(t, k) PROVE CountInv'
  <2>1. UNCHANGED <<made, scopeOf, holders, reports>>
    BY <1>10 DEF S!Capture, S!scopeState
  <2>2. /\ {at[t], at'[t]} \cap {"check", "exit", "report"} = {}
        /\ \A u \in Handlers \ {t} : at'[u] = at[u] /\ current'[u] = current[u]
    BY <1>10 DEF S!TypeOK, S!Capture, S!Idle
  <2> QED
    BY <1>1, <1>3, <2>1, <2>2
<1> QED
  BY <1>2, <1>4, <1>5, <1>6, <1>7, <1>8, <1>9, <1>10, CountTake, CountReport DEF S!Next, S!Step

(* ... what threads make of a session that they are alone with, ...        *)
LEMMA InitTrue == ASSUME S!Constants, S!Init PROVE SoloInv /\ WhatInv /\ TrueInv
  BY DEF S!Constants, S!Init, SoloInv, WhatInv, TrueInv, S!NothingMadeUp

LEMMA SoloStep ==
  ASSUME S!Constants, S!TypeOK, WhereInv, SoloInv, [S!Next]_S!vars
  PROVE  SoloInv'
<1> USE DEF S!Constants, S!Goto
<1>1. Nothing \notin begun /\ begun \subseteq Objects
  BY DEF S!TypeOK
<1>2. CASE UNCHANGED S!vars
  BY <1>2 DEF SoloInv, S!vars, S!fields, S!local, S!ghosts
(* Whoever begins with a session is the only one, or it is raced.          *)
<1>3. ASSUME NEW t \in Handlers, NEW s \in begun, S!Racing(t, s),
             current' = [current EXCEPT ![t] = s], at'[t] # "exit",
             at'[t] = "errors" => seen'[t] = errors[s],
             \A u \in Handlers \ {t} : at'[u] = at[u] /\ seen'[u] = seen[u],
             UNCHANGED <<begun, errors, status>>
      PROVE  SoloInv'
  <2>1. raced \subseteq raced'
    BY <1>3 DEF S!Racing
  <2>2. s \in begun \ raced' => \A u \in Handlers \ {t} : current[u] # s
    BY <1>3 DEF S!Racing
  <2>3. current'[t] = s /\ \A u \in Handlers \ {t} : current'[u] = current[u]
    BY <1>3 DEF S!TypeOK
  <2> QED
    BY <1>3, <2>1, <2>2, <2>3 DEF SoloInv
<1>4. ASSUME NEW t \in Handlers, S!Take(t) PROVE SoloInv'
  <2>1. isolation[t] \in made /\ seen' = seen /\ UNCHANGED <<begun, errors, status>>
    BY <1>4 DEF S!TypeOK, WhereInv, S!Take, S!TakeLeaving, S!fields
  <2>2. at'[t] \in {"after", "check"} /\ \A u \in Handlers \ {t} : at'[u] = at[u]
    BY <1>4 DEF S!TypeOK, S!Take, S!TakeLeaving
  <2>3. CASE scopeOf[isolation[t]] = Nothing
    <3>1. /\ raced' = raced /\ current'[t] = Nothing
          /\ \A u \in Handlers \ {t} : current'[u] = current[u]
      BY <1>4, <2>3 DEF S!TypeOK, S!Take, S!TakeLeaving
    <3> QED
      BY <1>1, <2>1, <2>2, <3>1 DEF SoloInv
  <2>4. CASE scopeOf[isolation[t]] # Nothing
    <3>1. scopeOf[isolation[t]] \in begun
      BY <2>1, <2>4 DEF S!TypeOK
    <3>2. /\ S!Racing(t, scopeOf[isolation[t]])
          /\ current' = [current EXCEPT ![t] = scopeOf[isolation[t]]]
      BY <1>4, <2>4 DEF S!Take, S!TakeLeaving
    <3> QED
      BY <1>3, <2>1, <2>2, <3>1, <3>2
  <2> QED
    BY <2>3, <2>4
<1>5. ASSUME NEW t \in Handlers, S!Check(t) PROVE SoloInv'
  <2>1. UNCHANGED <<begun, raced, current, seen, errors, status>>
    BY <1>5 DEF S!Check, S!CloseIf, S!fields, S!local, S!ghosts
  <2>2. /\ at'[t] # "errors" /\ (at'[t] = "exit" => status[current[t]] = "ok")
        /\ \A u \in Handlers \ {t} : at'[u] = at[u]
    BY <1>5 DEF S!TypeOK, S!Check, S!CloseIf
  <2> QED
    BY <2>1, <2>2 DEF SoloInv
<1>6. ASSUME NEW t \in Handlers, S!Exit(t) PROVE SoloInv'
  <2>1. UNCHANGED <<begun, raced, current, seen, errors>>
    BY <1>6 DEF S!Exit, S!local, S!ghosts
  <2>2. /\ at'[t] = "report" /\ \A u \in Handlers \ {t} : at'[u] = at[u]
        /\ \A s \in Objects : s # current[t] => status'[s] = status[s]
    BY <1>6 DEF S!TypeOK, S!Exit
  <2> QED
    BY <1>1, <2>1, <2>2 DEF SoloInv
<1>7. ASSUME NEW t \in Handlers, S!Report(t) PROVE SoloInv'
  <2>1. UNCHANGED <<begun, raced, seen, errors, status>>
    BY <1>7 DEF S!Report, S!scopeState, S!fields, S!ghosts
  <2>2. /\ current'[t] = Nothing
        /\ \A u \in Handlers \ {t} : at'[u] = at[u] /\ current'[u] = current[u]
    BY <1>7 DEF S!TypeOK, S!Report
  <2> QED
    BY <1>1, <2>1, <2>2 DEF SoloInv
<1>8. ASSUME NEW t \in Handlers, S!After(t) PROVE SoloInv'
  <2>1. UNCHANGED <<raced, current, seen, errors, status>>
    BY <1>8 DEF S!After, S!fields, S!local, S!ghosts
  <2>2. at'[t] = "idle" /\ \A u \in Handlers \ {t} : at'[u] = at[u]
    BY <1>8 DEF S!TypeOK, S!After
  <2>3. \A u \in Handlers : current[u] \in begun \cup {Nothing}
    BY DEF S!TypeOK
  <2>4. Nothing \notin begun' \ begun
    BY <1>8, TypeStep DEF S!Next, S!Step, S!TypeOK
  <2> QED
    BY <2>1, <2>2, <2>3, <2>4 DEF SoloInv
<1>9. ASSUME NEW t \in Handlers, S!UpdateErrors(t) PROVE SoloInv'
  <2>1. UNCHANGED <<begun, raced, status>>
    BY <1>9 DEF S!UpdateErrors, S!UpdateErrorsTo, S!scopeState
  <2>2. /\ at'[t] \in {"status", "idle"} /\ current'[t] \in {current[t], Nothing}
        /\ \A u \in Handlers \ {t} :
             at'[u] = at[u] /\ current'[u] = current[u] /\ seen'[u] = seen[u]
        /\ \A s \in Objects : s # current[t] => errors'[s] = errors[s]
    BY <1>9 DEF S!TypeOK, S!UpdateErrors, S!UpdateErrorsTo
  <2> QED
    BY <1>1, <2>1, <2>2 DEF SoloInv
<1>10. ASSUME NEW t \in Handlers, S!UpdateStatus(t) PROVE SoloInv'
  <2>1. UNCHANGED <<begun, raced, errors, seen>>
    BY <1>10 DEF S!UpdateStatus, S!scopeState
  <2>2. /\ at'[t] = "idle" /\ current'[t] = Nothing
        /\ \A u \in Handlers \ {t} : at'[u] = at[u] /\ current'[u] = current[u]
        /\ \A s \in Objects : s # current[t] => status'[s] = status[s]
    BY <1>10 DEF S!TypeOK, S!UpdateStatus
  <2> QED
    BY <1>1, <2>1, <2>2 DEF SoloInv
<1>11. ASSUME NEW t \in Handlers, \/ \E c \in S!Calls : S!Call(t, c)
                                  \/ \E tracked \in BOOLEAN : S!Enter(t, tracked)
       PROVE  SoloInv'
  <2>1. UNCHANGED <<begun, raced, current, seen, errors, status>>
    BY <1>11 DEF S!Call, S!CallOr, S!Enter, S!fields, S!local, S!ghosts
  <2>2. at'[t] \in {"take", "after", "idle"} /\ \A u \in Handlers \ {t} : at'[u] = at[u]
    BY <1>11 DEF S!TypeOK, S!Call, S!CallOr, S!Enter
  <2> QED
    BY <2>1, <2>2 DEF SoloInv
<1>12. ASSUME NEW t \in Handlers, NEW u \in Handlers, NEW propagated \in BOOLEAN,
              S!Spawn(t, u, propagated)
       PROVE  SoloInv'
  BY <1>12 DEF SoloInv, S!Spawn, S!fields, S!local, S!ghosts
<1>13. ASSUME NEW t \in Handlers, NEW k \in S!Kinds, S!Capture(t, k) PROVE SoloInv'
  <2>1. scopeOf[isolation[t]] \in begun
    BY <1>13 DEF S!TypeOK, S!Capture, S!Idle
  <2>2. /\ S!Racing(t, scopeOf[isolation[t]])
        /\ current' = [current EXCEPT ![t] = scopeOf[isolation[t]]]
        /\ UNCHANGED <<begun, errors, status>>
    BY <1>13 DEF S!Capture, S!fields
  <2>3. /\ at'[t] = "errors" /\ seen'[t] = errors[scopeOf[isolation[t]]]
        /\ \A u \in Handlers \ {t} : at'[u] = at[u] /\ seen'[u] = seen[u]
    BY <1>13 DEF S!TypeOK, S!Capture
  <2> QED
    BY <1>3, <2>1, <2>2, <2>3
<1> QED
  BY <1>2, <1>4, <1>5, <1>6, <1>7, <1>8, <1>9, <1>10, <1>11, <1>12, <1>13 DEF S!Next, S!Step

(* ... what its fields say without races, ...                              *)
LEMMA WhatStep ==
  ASSUME S!Constants, S!TypeOK, WhereInv, NewInv, SoloInv, WhatInv, [S!Next]_S!vars
  PROVE  WhatInv'
<1> USE DEF S!Constants, S!Goto
<1>1. Nothing \notin begun /\ begun \subseteq Objects /\ crashes \subseteq begun
  BY DEF S!TypeOK
<1>2. CASE UNCHANGED S!vars
  BY <1>2 DEF WhatInv, S!Exceptions, S!vars, S!fields, S!local, S!ghosts
(* Whoever works on a session does not add to its errors now.              *)
<1>3. ASSUME NEW t \in Handlers, UNCHANGED <<begun, errors, count, crashes>>,
             raced \subseteq raced',
             \A s \in begun : (status'[s] = "crashed") <=> (status[s] = "crashed"),
             at[t] # "errors", at'[t] # "errors",
             \A u \in Handlers \ {t} :
               at'[u] = at[u] /\ current'[u] = current[u] /\ kind'[u] = kind[u]
      PROVE  WhatInv'
  BY <1>3 DEF WhatInv, S!Exceptions
<1>4. ASSUME NEW t \in Handlers, S!Take(t) PROVE WhatInv'
  <2>1. UNCHANGED <<begun, errors, status, count, crashes, kind>> /\ raced \subseteq raced'
    BY <1>4 DEF S!Take, S!TakeLeaving, S!Racing, S!fields
  <2>2. /\ at[t] # "errors" /\ at'[t] # "errors"
        /\ \A u \in Handlers \ {t} : at'[u] = at[u] /\ current'[u] = current[u]
    BY <1>4 DEF S!TypeOK, S!Take, S!TakeLeaving
  <2> QED
    BY <1>3, <2>1, <2>2
<1>5. ASSUME NEW t \in Handlers, S!Check(t) PROVE WhatInv'
  <2>1. UNCHANGED <<begun, errors, status, count, crashes, kind, current, raced>>
    BY <1>5 DEF S!Check, S!CloseIf, S!fields, S!local, S!ghosts
  <2>2. at[t] # "errors" /\ at'[t] # "errors" /\ \A u \in Handlers \ {t} : at'[u] = at[u]
    BY <1>5 DEF S!TypeOK, S!Check, S!CloseIf
  <2> QED
    BY <1>3, <2>1, <2>2
<1>6. ASSUME NEW t \in Handlers, S!Exit(t) PROVE WhatInv'
  <2>1. UNCHANGED <<begun, errors, count, crashes, kind, current, raced>>
    BY <1>6 DEF S!Exit, S!local, S!ghosts
  <2>2. /\ at[t] = "exit" /\ at'[t] = "report" /\ \A u \in Handlers \ {t} : at'[u] = at[u]
        /\ status' = [status EXCEPT ![current[t]] = "exited"]
    BY <1>6 DEF S!TypeOK, S!Exit
  <2>3. \A s \in begun \ raced : (status'[s] = "crashed") <=> (status[s] = "crashed")
    BY <1>1, <2>2 DEF S!TypeOK, SoloInv
  <2> QED
    BY <2>1, <2>2, <2>3 DEF WhatInv, S!Exceptions
<1>7. ASSUME NEW t \in Handlers, S!Report(t) PROVE WhatInv'
  <2>1. UNCHANGED <<begun, errors, status, count, crashes, kind, raced>>
    BY <1>7 DEF S!Report, S!scopeState, S!fields, S!ghosts
  <2>2. /\ at[t] # "errors" /\ at'[t] # "errors"
        /\ \A u \in Handlers \ {t} : at'[u] = at[u] /\ current'[u] = current[u]
    BY <1>7 DEF S!TypeOK, S!Report
  <2> QED
    BY <1>3, <2>1, <2>2
<1>8. ASSUME NEW t \in Handlers, S!After(t) PROVE WhatInv'
  <2>1. UNCHANGED <<errors, status, count, crashes, kind, current, raced>>
    BY <1>8 DEF S!After, S!fields, S!local, S!ghosts
  <2>2. at[t] # "errors" /\ at'[t] # "errors" /\ \A u \in Handlers \ {t} : at'[u] = at[u]
    BY <1>8 DEF S!TypeOK, S!After
  <2>3. begun' \subseteq Objects
    BY TypeStep, <1>8 DEF S!Next, S!Step, S!TypeOK
  <2>4. \A s \in begun' \ begun :
          /\ status[s] # "crashed" /\ s \notin crashes /\ errors[s] = count[s]
          /\ \A u \in Handlers : current[u] # s
    BY <1>1, <2>3 DEF S!TypeOK, NewInv
  <2> QED
    BY <2>1, <2>2, <2>4 DEF WhatInv, S!Exceptions
<1>9. ASSUME NEW t \in Handlers, S!UpdateErrors(t) PROVE WhatInv'
  <2>1. UNCHANGED <<begun, status, count, crashes, raced>>
    BY <1>9 DEF S!UpdateErrors, S!UpdateErrorsTo, S!scopeState
  <2>2. /\ at[t] = "errors" /\ at'[t] # "errors" /\ current'[t] \in {current[t], Nothing}
        /\ errors' = [errors EXCEPT ![current[t]] = seen[t] + S!Exceptions(t)]
        /\ \A u \in Handlers \ {t} :
             at'[u] = at[u] /\ current'[u] = current[u] /\ kind'[u] = kind[u]
    BY <1>9 DEF S!TypeOK, S!UpdateErrors, S!UpdateErrorsTo
  <2>3. current[t] \in begun
    BY <2>2 DEF S!TypeOK, WhereInv
  <2>4. ASSUME NEW s \in begun \ raced, s # current[t]
        PROVE  /\ (\A u \in Handlers : current'[u] = s => at'[u] # "errors")
                    => errors'[s] = count[s]
               /\ \A u \in Handlers : current'[u] = s /\ at'[u] = "errors"
                    => errors'[s] + S!Exceptions(u)' = count[s]
    <3>1. errors'[s] = errors[s] /\ current'[t] # s
      BY <1>1, <2>2, <2>4 DEF S!TypeOK
    <3>2. \A u \in Handlers \ {t} : S!Exceptions(u)' = S!Exceptions(u)
      BY <2>2 DEF S!Exceptions
    <3> QED
      BY <2>2, <2>4, <3>1, <3>2 DEF WhatInv
  <2>5. ASSUME current[t] \notin raced
        PROVE  /\ errors'[current[t]] = count[current[t]]
               /\ \A u \in Handlers : current'[u] = current[t] => at'[u] # "errors"
    <3>1. errors'[current[t]] = seen[t] + S!Exceptions(t)
      BY <1>1, <2>2, <2>3 DEF S!TypeOK
    <3>2. seen[t] = errors[current[t]] /\ \A u \in Handlers : current[u] = current[t] => u = t
      BY <2>2, <2>3, <2>5 DEF SoloInv
    <3>3. errors[current[t]] + S!Exceptions(t) = count[current[t]]
      BY <2>2, <2>3, <2>5 DEF WhatInv
    <3> QED
      BY <2>2, <3>1, <3>2, <3>3
  <2> QED
    BY <2>1, <2>4, <2>5 DEF WhatInv
<1>10. ASSUME NEW t \in Handlers, S!UpdateStatus(t) PROVE WhatInv'
  <2>1. UNCHANGED <<begun, errors, count, kind, raced>>
    BY <1>10 DEF S!UpdateStatus, S!scopeState
  <2>2. /\ at[t] # "errors" /\ at'[t] # "errors"
        /\ \A u \in Handlers \ {t} : at'[u] = at[u] /\ current'[u] = current[u]
        /\ status' = [status EXCEPT ![current[t]] = "crashed"]
        /\ crashes' = crashes \cup {current[t]}
    BY <1>10 DEF S!TypeOK, S!UpdateStatus
  <2>3. \A s \in begun \ raced : (status'[s] = "crashed") <=> s \in crashes'
    BY <1>1, <2>2 DEF S!TypeOK, WhatInv
  <2> QED
    BY <2>1, <2>2, <2>3 DEF WhatInv, S!Exceptions
<1>11. ASSUME NEW t \in Handlers, \/ \E c \in S!Calls : S!Call(t, c)
                                  \/ \E tracked \in BOOLEAN : S!Enter(t, tracked)
       PROVE  WhatInv'
  <2>1. UNCHANGED <<begun, errors, status, count, crashes, kind, current, raced>>
    BY <1>11 DEF S!Call, S!CallOr, S!Enter, S!fields, S!local, S!ghosts
  <2>2. at[t] = "idle"
    BY <1>11 DEF S!Call, S!CallOr, S!Enter, S!Idle
  <2>3. at'[t] \in {"take", "after", "idle"} /\ \A u \in Handlers \ {t} : at'[u] = at[u]
    BY <1>11 DEF S!TypeOK, S!Call, S!CallOr, S!Enter
  <2> QED
    BY <1>3, <2>1, <2>2, <2>3
<1>12. ASSUME NEW t \in Handlers, NEW u \in Handlers, NEW propagated \in BOOLEAN,
              S!Spawn(t, u, propagated)
       PROVE  WhatInv'
  BY <1>12 DEF WhatInv, S!Exceptions, S!Spawn, S!fields, S!local, S!ghosts
<1>13. ASSUME NEW t \in Handlers, NEW k \in S!Kinds, S!Capture(t, k) PROVE WhatInv'
  <2> DEFINE s == scopeOf[isolation[t]]
  <2>1. s \in begun
    BY <1>13 DEF S!TypeOK, S!Capture, S!Idle
  <2>2. /\ UNCHANGED <<begun, errors, status, crashes>>
        /\ count' = IF k = "message" THEN count ELSE [count EXCEPT ![s] = @ + 1]
        /\ S!Racing(t, s) /\ current' = [current EXCEPT ![t] = s]
        /\ kind' = [kind EXCEPT ![t] = k]
    BY <1>13 DEF S!Capture, S!fields
  <2>3. at[t] = "idle" /\ at'[t] = "errors" /\ \A u \in Handlers \ {t} : at'[u] = at[u]
    BY <1>13 DEF S!TypeOK, S!Capture, S!Idle
  <2> HIDE DEF s
  <2>4. /\ current[t] = Nothing /\ current'[t] = s /\ kind'[t] = k
        /\ \A u \in Handlers \ {t} : current'[u] = current[u] /\ kind'[u] = kind[u]
    BY <2>2, <2>3 DEF S!TypeOK, WhereInv
  <2>5. raced \subseteq raced' /\ (s \notin raced' => \A u \in Handlers \ {t} : current[u] # s)
    BY <2>2 DEF S!Racing
  <2>6. ASSUME s \notin raced'
        PROVE  /\ \A u \in Handlers : current'[u] = s => u = t
               /\ errors'[s] + S!Exceptions(t)' = count'[s]
    <3>1. errors[s] = count[s] /\ errors[s] \in Nat
      <4>1. \A u \in Handlers : current[u] # s
        BY <1>1, <2>1, <2>4, <2>5, <2>6
      <4> QED
        BY <1>1, <2>1, <2>5, <2>6, <4>1 DEF S!TypeOK, WhatInv
    <3>2. count'[s] = count[s] + (IF k = "message" THEN 0 ELSE 1)
      BY <1>1, <2>1, <2>2 DEF S!TypeOK
    <3> QED
      BY <2>2, <2>4, <2>5, <2>6, <3>1, <3>2 DEF S!Exceptions
  <2>7. ASSUME NEW x \in begun \ raced', x # s
        PROVE  /\ (\A u \in Handlers : current'[u] = x => at'[u] # "errors")
                    => errors'[x] = count'[x]
               /\ \A u \in Handlers : current'[u] = x /\ at'[u] = "errors"
                    => errors'[x] + S!Exceptions(u)' = count'[x]
    <3>1. count'[x] = count[x] /\ errors'[x] = errors[x]
      BY <1>1, <2>2, <2>7 DEF S!TypeOK
    <3>2. \A u \in Handlers \ {t} : S!Exceptions(u)' = S!Exceptions(u)
      BY <2>4 DEF S!Exceptions
    <3> QED
      BY <1>1, <2>3, <2>4, <2>5, <2>7, <3>1, <3>2 DEF WhatInv
  <2>8. \A x \in begun \ raced' : status'[x] = "crashed" <=> x \in crashes'
    BY <2>2, <2>5 DEF WhatInv
  <2> QED
    BY <2>2, <2>3, <2>4, <2>6, <2>7, <2>8 DEF WhatInv
<1> QED
  BY <1>2, <1>4, <1>5, <1>6, <1>7, <1>8, <1>9, <1>10, <1>11, <1>12, <1>13 DEF S!Next, S!Step

(* ... and with races.                                                     *)
LEMMA TrueStep ==
  ASSUME S!Constants, S!TypeOK, WhereInv, NewInv, TrueInv, [S!Next]_S!vars
  PROVE  TrueInv'
<1> USE DEF S!Constants, S!Goto
<1>1. /\ Nothing \notin begun /\ begun \subseteq Objects
      /\ \A s \in Objects : errors[s] \in Nat /\ count[s] \in Nat
      /\ \A u \in Handlers : seen[u] \in Nat /\ S!Exceptions(u) \in Nat
  BY DEF S!TypeOK, S!Exceptions
<1>2. CASE UNCHANGED S!vars
  BY <1>2 DEF TrueInv, S!NothingMadeUp, S!Reported, S!Exceptions, S!vars, S!fields, S!local,
     S!ghosts
(* A step that is not about the fields of a session, its events or reports.*)
<1>3. ASSUME NEW t \in Handlers, UNCHANGED <<begun, S!fields, count, crashes, reports>>,
             at'[t] # "errors", at'[t] = "report" => status'[current'[t]] # "ok",
             \A u \in Handlers \ {t} :
               /\ at'[u] = at[u] /\ current'[u] = current[u] /\ kind'[u] = kind[u]
               /\ seen'[u] = seen[u]
      PROVE  TrueInv'
  <2>1. \A u \in Handlers \ {t} : S!Exceptions(u)' = S!Exceptions(u)
    BY <1>3 DEF S!Exceptions
  <2>2. S!NothingMadeUp'
    BY <1>3 DEF TrueInv, S!NothingMadeUp, S!Reported
  <2> QED
    BY <1>3, <2>1, <2>2 DEF TrueInv, S!fields
<1>4. ASSUME NEW t \in Handlers, S!Take(t) PROVE TrueInv'
  <2>1. UNCHANGED <<begun, S!fields, count, crashes, reports, kind, seen>>
    BY <1>4 DEF S!Take, S!TakeLeaving
  <2>2. /\ at'[t] \in {"after", "check"}
        /\ \A u \in Handlers \ {t} : at'[u] = at[u] /\ current'[u] = current[u]
    BY <1>4 DEF S!TypeOK, S!Take, S!TakeLeaving
  <2> QED
    BY <1>3, <2>1, <2>2
<1>5. ASSUME NEW t \in Handlers, S!Check(t) PROVE TrueInv'
  <2>1. UNCHANGED <<begun, S!fields, S!local, count, crashes, reports>>
    BY <1>5 DEF S!Check, S!CloseIf, S!ghosts
  <2>2. /\ at'[t] # "errors" /\ (at'[t] = "report" => status[current[t]] # "ok")
        /\ \A u \in Handlers \ {t} : at'[u] = at[u]
    BY <1>5 DEF S!TypeOK, S!Check, S!CloseIf
  <2> QED
    BY <1>3, <2>1, <2>2 DEF S!fields, S!local
<1>6. ASSUME NEW t \in Handlers, S!Exit(t) PROVE TrueInv'
  <2>1. UNCHANGED <<begun, errors, S!local, count, crashes, reports>>
    BY <1>6 DEF S!Exit, S!ghosts
  <2>2. /\ status' = [status EXCEPT ![current[t]] = "exited"] /\ current[t] \in begun
        /\ at[t] = "exit" /\ at'[t] = "report" /\ \A u \in Handlers \ {t} : at'[u] = at[u]
    BY <1>6 DEF S!TypeOK, WhereInv, S!Exit
  <2>3. \A s \in Objects : status'[s] # status[s] => s = current[t] /\ status'[s] = "exited"
    BY <2>2 DEF S!TypeOK
  <2>4. status'[current[t]] = "exited"
    BY <1>1, <2>2 DEF S!TypeOK
  <2>5. \A u \in Handlers : at[u] = "report" => current[u] \in Objects
    BY DEF S!TypeOK, WhereInv
  <2>6. \A s \in begun : errors'[s] <= count'[s] /\ (status'[s] = "crashed" => s \in crashes')
    BY <1>1, <2>1, <2>3 DEF TrueInv
  <2>7. \A u \in Handlers : at'[u] = "report" => status'[current'[u]] # "ok"
    BY <2>1, <2>2, <2>3, <2>4, <2>5 DEF TrueInv, S!local
  <2>8. S!NothingMadeUp'
    BY <2>1 DEF TrueInv, S!NothingMadeUp, S!Reported
  <2> QED
    BY <2>1, <2>2, <2>6, <2>7, <2>8 DEF TrueInv, S!Exceptions, S!local
<1>7. ASSUME NEW t \in Handlers, S!Report(t) PROVE TrueInv'
  <2> DEFINE s == current[t]
             r == [status |-> status[s], errors |-> errors[s]]
  <2>1. UNCHANGED <<begun, S!fields, count, crashes, kind, seen>>
    BY <1>7 DEF S!Report, S!scopeState, S!ghosts
  <2>2. /\ at[t] = "report" /\ at'[t] = "after" /\ s \in begun
        /\ reports' = [reports EXCEPT ![s] = Append(reports[s], r)]
        /\ \A u \in Handlers \ {t} : at'[u] = at[u] /\ current'[u] = current[u]
    BY <1>7 DEF S!TypeOK, WhereInv, S!Report
  <2>3. r.errors <= count[s] /\ r.status # "ok" /\ (r.status = "crashed" => s \in crashes)
    BY <2>2 DEF TrueInv
  <2> HIDE DEF s, r
  <2>4. \A x \in begun : S!Reported(x)' \subseteq S!Reported(x) \cup IF x = s THEN {r} ELSE {}
    <3>1. ASSUME NEW x \in begun, x = s PROVE S!Reported(x)' \subseteq S!Reported(x) \cup {r}
      <4>1. reports'[x] = Append(reports[x], r)
        BY <1>1, <2>2, <3>1 DEF S!TypeOK
      <4>2. \E R : reports[x] \in Seq(R)
        BY <1>1 DEF S!TypeOK
      <4>3. /\ DOMAIN reports'[x] = 1..Len(reports[x]) + 1
            /\ reports'[x][Len(reports[x]) + 1] = r
            /\ \A i \in 1..Len(reports[x]) : reports'[x][i] = reports[x][i]
            /\ DOMAIN reports[x] = 1..Len(reports[x]) /\ Len(reports[x]) \in Nat
        BY <4>1, <4>2
      <4>4. \A i \in DOMAIN reports'[x] : i \in DOMAIN reports[x] \/ i = Len(reports[x]) + 1
        BY <4>3
      <4> QED
        BY <4>3, <4>4 DEF S!Reported
    <3>2. ASSUME NEW x \in begun, x # s PROVE S!Reported(x)' = S!Reported(x)
      BY <1>1, <2>2, <3>2 DEF S!TypeOK, S!Reported
    <3> QED
      BY <3>1, <3>2
  <2>5. S!NothingMadeUp'
    BY <2>1, <2>3, <2>4 DEF TrueInv, S!NothingMadeUp
  <2>6. \A u \in Handlers \ {t} : S!Exceptions(u)' = S!Exceptions(u)
    BY <2>1 DEF S!Exceptions
  <2> QED
    BY <2>1, <2>2, <2>5, <2>6 DEF TrueInv, S!fields
<1>8. ASSUME NEW t \in Handlers, S!After(t) PROVE TrueInv'
  <2>1. UNCHANGED <<S!fields, S!local, count, crashes, reports>>
    BY <1>8 DEF S!After, S!ghosts
  <2>2. at'[t] = "idle" /\ \A u \in Handlers \ {t} : at'[u] = at[u]
    BY <1>8 DEF S!TypeOK, S!After
  <2>3. begun' \subseteq Objects
    BY TypeStep, <1>8 DEF S!Next, S!Step, S!TypeOK
  <2>4. \A s \in begun' \ begun :
          status[s] # "crashed" /\ errors[s] <= count[s] /\ S!Reported(s) = {}
    BY <2>3 DEF NewInv, S!Reported
  <2>5. S!NothingMadeUp'
    BY <2>1, <2>4 DEF TrueInv, S!NothingMadeUp, S!Reported
  <2> QED
    BY <2>1, <2>2, <2>4, <2>5 DEF TrueInv, S!Exceptions, S!fields, S!local
<1>9. ASSUME NEW t \in Handlers, S!UpdateErrors(t) PROVE TrueInv'
  <2>1. UNCHANGED <<begun, status, count, crashes, reports>>
    BY <1>9 DEF S!UpdateErrors, S!UpdateErrorsTo, S!scopeState
  <2>2. /\ at[t] = "errors" /\ at'[t] \in {"status", "idle"}
        /\ errors' = [errors EXCEPT ![current[t]] = seen[t] + S!Exceptions(t)]
        /\ \A u \in Handlers \ {t} :
             /\ at'[u] = at[u] /\ current'[u] = current[u] /\ kind'[u] = kind[u]
             /\ seen'[u] = seen[u]
    BY <1>9 DEF S!TypeOK, S!UpdateErrors, S!UpdateErrorsTo
  <2>3. \A s \in begun : errors'[s] <= count[s]
    BY <1>1, <2>2 DEF S!TypeOK, TrueInv
  <2>4. \A u \in Handlers \ {t} : S!Exceptions(u)' = S!Exceptions(u)
    BY <2>2 DEF S!Exceptions
  <2>5. S!NothingMadeUp'
    BY <2>1 DEF TrueInv, S!NothingMadeUp, S!Reported
  <2> QED
    BY <2>1, <2>2, <2>3, <2>4, <2>5 DEF TrueInv
<1>10. ASSUME NEW t \in Handlers, S!UpdateStatus(t) PROVE TrueInv'
  <2>1. UNCHANGED <<begun, errors, count, reports, kind, seen>>
    BY <1>10 DEF S!UpdateStatus, S!scopeState
  <2>2. /\ at'[t] = "idle" /\ current[t] \in begun
        /\ \A u \in Handlers \ {t} : at'[u] = at[u] /\ current'[u] = current[u]
        /\ status' = [status EXCEPT ![current[t]] = "crashed"]
        /\ crashes' = crashes \cup {current[t]}
    BY <1>10 DEF S!TypeOK, WhereInv, S!UpdateStatus
  <2>3. \A s \in Objects : status'[s] # status[s] => s = current[t] /\ status'[s] = "crashed"
    BY <2>2 DEF S!TypeOK
  <2>4. \A u \in Handlers : at[u] = "report" => current[u] \in Objects
    BY DEF S!TypeOK, WhereInv
  <2>5. \A s \in begun : errors'[s] <= count'[s] /\ (status'[s] = "crashed" => s \in crashes')
    BY <1>1, <2>1, <2>2, <2>3 DEF TrueInv
  <2>6. \A u \in Handlers : at'[u] = "report" => status'[current'[u]] # "ok"
    BY <2>2, <2>3, <2>4 DEF TrueInv
  <2>7. S!NothingMadeUp'
    BY <2>1, <2>2 DEF TrueInv, S!NothingMadeUp, S!Reported
  <2> QED
    BY <2>1, <2>2, <2>5, <2>6, <2>7 DEF TrueInv, S!Exceptions
<1>11. ASSUME NEW t \in Handlers, \/ \E c \in S!Calls : S!Call(t, c)
                                  \/ \E tracked \in BOOLEAN : S!Enter(t, tracked)
       PROVE  TrueInv'
  <2>1. UNCHANGED <<begun, S!fields, S!local, count, crashes, reports>>
    BY <1>11 DEF S!Call, S!CallOr, S!Enter, S!ghosts
  <2>2. at'[t] \in {"take", "after", "idle"} /\ \A u \in Handlers \ {t} : at'[u] = at[u]
    BY <1>11 DEF S!TypeOK, S!Call, S!CallOr, S!Enter
  <2> QED
    BY <1>3, <2>1, <2>2 DEF S!local
<1>12. ASSUME NEW t \in Handlers, NEW u \in Handlers, NEW propagated \in BOOLEAN,
              S!Spawn(t, u, propagated)
       PROVE  TrueInv'
  BY <1>12 DEF TrueInv, S!NothingMadeUp, S!Reported, S!Exceptions, S!Spawn, S!fields, S!local,
     S!ghosts
<1>13. ASSUME NEW t \in Handlers, NEW k \in S!Kinds, S!Capture(t, k) PROVE TrueInv'
  <2> DEFINE s == scopeOf[isolation[t]]
  <2>1. s \in begun
    BY <1>13 DEF S!TypeOK, S!Capture, S!Idle
  <2>2. /\ UNCHANGED <<begun, S!fields, crashes, reports>>
        /\ count' = IF k = "message" THEN count ELSE [count EXCEPT ![s] = @ + 1]
        /\ current' = [current EXCEPT ![t] = s] /\ seen' = [seen EXCEPT ![t] = errors[s]]
        /\ kind' = [kind EXCEPT ![t] = k] /\ at' = [at EXCEPT ![t] = "errors"]
    BY <1>13 DEF S!Capture
  <2> HIDE DEF s
  <2>3. /\ current'[t] = s /\ seen'[t] = errors[s] /\ kind'[t] = k /\ at'[t] = "errors"
        /\ \A u \in Handlers \ {t} :
             /\ at'[u] = at[u] /\ current'[u] = current[u] /\ kind'[u] = kind[u]
             /\ seen'[u] = seen[u]
    BY <2>2 DEF S!TypeOK
  <2>4. /\ \A x \in Objects : count'[x] \in Nat /\ count[x] <= count'[x]
        /\ count'[s] = count[s] + S!Exceptions(t)'
    BY <1>1, <2>1, <2>2, <2>3 DEF S!TypeOK, S!Exceptions
  <2>5. \A u \in Handlers \ {t} : S!Exceptions(u)' = S!Exceptions(u)
    BY <2>3 DEF S!Exceptions
  <2>6. errors[s] <= count[s]
    BY <2>1 DEF TrueInv
  <2>7. seen'[t] + S!Exceptions(t)' <= count'[current'[t]]
    <3>1. S!Exceptions(t)' \in {0, 1}
      BY DEF S!Exceptions
    <3> QED
      BY <1>1, <2>1, <2>3, <2>4, <2>6, <3>1
  <2>8. \A u \in Handlers \ {t} : at[u] = "errors" => current[u] \in begun
    BY DEF S!TypeOK, WhereInv
  <2>9. \A u \in Handlers \ {t} :
          at'[u] = "errors" => seen'[u] + S!Exceptions(u)' <= count'[current'[u]]
    <3> SUFFICES ASSUME NEW u \in Handlers \ {t}, at[u] = "errors"
                 PROVE  seen[u] + S!Exceptions(u) <= count'[current[u]]
      BY <2>3, <2>5
    <3>1. seen[u] + S!Exceptions(u) <= count[current[u]] /\ current[u] \in Objects
      BY <1>1, <2>8 DEF TrueInv
    <3> QED
      BY <1>1, <2>4, <3>1
  <2>10. S!NothingMadeUp'
    <3> SUFFICES ASSUME NEW x \in begun, NEW r \in S!Reported(x)
                 PROVE  /\ r.errors <= count'[x] /\ r.status # "ok"
                        /\ r.status = "crashed" => x \in crashes
      BY <2>2 DEF S!NothingMadeUp, S!Reported
    <3>1. /\ r.errors <= count[x] /\ r.status # "ok"
          /\ r.status = "crashed" => x \in crashes
      BY DEF TrueInv, S!NothingMadeUp
    <3>2. r.errors \in Nat
      <4> DEFINE Reps == [status : {"ok", "exited", "crashed"}, errors : Nat]
      <4>1. PICK i \in DOMAIN reports[x] : r = reports[x][i]
        BY DEF S!Reported
      <4>2. reports[x] \in Seq(Reps)
        BY <1>1 DEF S!TypeOK
      <4>3. \A y \in Reps : y.errors \in Nat
        OBVIOUS
      <4> HIDE DEF Reps
      <4>4. r \in Reps
        BY <4>1, <4>2
      <4> QED
        BY <4>3, <4>4
    <3> QED
      BY <1>1, <2>4, <3>1, <3>2
  <2>11. \A x \in begun : errors[x] <= count'[x]
    BY <1>1, <2>4 DEF TrueInv
  <2> QED
    BY <2>2, <2>3, <2>7, <2>9, <2>10, <2>11 DEF TrueInv, S!fields
<1> QED
  BY <1>2, <1>4, <1>5, <1>6, <1>7, <1>8, <1>9, <1>10, <1>11, <1>12, <1>13 DEF S!Next, S!Step

LEMMA InitScopesInv == ASSUME S!Constants PROVE S!Init => ScopesInv
  BY InitTypeOK, InitThreads, InitNew, InitCount, InitTrue DEF ScopesInv

LEMMA StepScopesInv == ASSUME S!Constants PROVE ScopesInv /\ [S!Next]_S!vars => ScopesInv'
  BY TypeStep, ThreadStep, ApartStep, NewStep, TakenStep, CountStep, SoloStep, WhatStep,
     TrueStep DEF ScopesInv

LEMMA ScopesInductive == ASSUME S!Constants PROVE S!Spec => []ScopesInv
  BY InitScopesInv, StepScopesInv, PTL DEF S!Spec

(* However threads fork, start and end: a session is reported once by each *)
(* scope that gave it up, and no scope has it any more (scope.py:303,      *)
(* 1616-1637).                                                             *)
THEOREM SessionsAreHeld == S!Spec => []SessionsHeld
<1>1. ScopesInv => SessionsHeld
  BY SameFinite DEF ScopesInv, CountInv, CountOf, Holding, S!TypeOK, SessionsHeld, S!SessionsHeld,
     S!OncePerHolder
<1> QED
  BY <1>1, ScopesConstants, ScopesInductive, PTL

(* What is reported happened, and is all that happened if no update came   *)
(* between others (client.py:1115-1150, session.py:121-130).               *)
THEOREM ReportsAreTrue == S!Spec => []ReportsTrue
<1>1. ASSUME S!Constants, ScopesInv PROVE ReportsTrue
  <2>1. S!ReportsWhatHappened
    <3> SUFFICES ASSUME NEW s \in begun \ raced, NEW t \in Handlers,
                        current[t] = s, at[t] = "report"
                 PROVE  /\ errors[s] = count[s]
                        /\ status[s] = IF s \in crashes THEN "crashed" ELSE "exited"
      BY DEF S!ReportsWhatHappened
    <3>1. \A u \in Handlers : current[u] = s => at[u] # "errors"
      BY <1>1 DEF ScopesInv, SoloInv
    <3>2. errors[s] = count[s] /\ (status[s] = "crashed" <=> s \in crashes)
      BY <1>1, <3>1 DEF ScopesInv, WhatInv
    <3>3. status[s] \in {"exited", "crashed"}
      BY <1>1 DEF ScopesInv, TrueInv, S!TypeOK
    <3> QED
      BY <3>2, <3>3
  <2> QED
    BY <1>1, <2>1 DEF ScopesInv, TrueInv, ReportsTrue, S!ReportsTrue
<1> QED
  BY <1>1, ScopesConstants, ScopesInductive, PTL

(* A session with an error does not look error-free again, unless a        *)
(* message's update came between, and a tracked block leaves its scope     *)
(* without a session (client.py:1145-1150, sessions.py:116-132).           *)
THEOREM NothingIsForgotten == S!Spec => NothingForgotten
<1> USE DEF S!Goto
<1>1. ASSUME S!Constants, ScopesInv, [S!Next]_S!vars
      PROVE  [\A s \in begun : errors[s] > 0 /\ s \notin stale' => errors'[s] > 0]_S!vars
  <2>1. ASSUME errors' = errors
        PROVE  \A s \in begun : errors[s] > 0 => errors'[s] > 0
    BY <2>1
  <2>2. ASSUME NEW t \in Handlers, S!UpdateErrors(t)
        PROVE  \A s \in begun : errors[s] > 0 /\ s \notin stale' => errors'[s] > 0
    <3> SUFFICES ASSUME NEW s \in begun, errors[s] > 0, s \notin stale'
                 PROVE  errors'[s] > 0
      OBVIOUS
    <3>1. /\ errors' = [errors EXCEPT ![current[t]] = seen[t] + S!Exceptions(t)]
          /\ current[t] = s /\ kind[t] = "message" => ~(errors[s] > seen[t])
      BY <2>2 DEF S!UpdateErrors, S!UpdateErrorsTo
    <3>2. s \in Objects /\ errors[s] \in Nat /\ seen[t] \in Nat
      BY <1>1 DEF ScopesInv, S!TypeOK
    <3>3. CASE s = current[t]
      <4>1. errors'[s] = seen[t] + S!Exceptions(t)
        BY <1>1, <3>1, <3>2, <3>3 DEF ScopesInv, S!TypeOK
      <4> QED
        BY <3>1, <3>2, <3>3, <4>1 DEF S!Exceptions
    <3>4. CASE s # current[t]
      BY <1>1, <3>1, <3>2, <3>4 DEF ScopesInv, S!TypeOK
    <3> QED
      BY <3>3, <3>4
  <2>3. ASSUME NEW t \in Handlers,
               \/ S!Take(t) \/ S!Check(t) \/ S!Exit(t) \/ S!Report(t) \/ S!After(t)
               \/ S!UpdateStatus(t)
               \/ \E c \in S!Calls : S!Call(t, c)
               \/ \E tracked \in BOOLEAN : S!Enter(t, tracked)
               \/ \E u \in Handlers, propagated \in BOOLEAN : S!Spawn(t, u, propagated)
               \/ \E k \in S!Kinds : S!Capture(t, k)
        PROVE  errors' = errors
    BY <2>3 DEF S!Take, S!TakeLeaving, S!Check, S!CloseIf, S!Exit, S!Report, S!After,
       S!UpdateStatus, S!Call, S!CallOr, S!Enter, S!Spawn, S!Capture, S!fields
  <2> QED
    BY <1>1, <2>1, <2>2, <2>3 DEF S!Next, S!Step
<1>2. ASSUME S!Constants, ScopesInv, [S!Next]_S!vars
      PROVE  [\A t \in Handlers :
               at[t] = "after" /\ call[t] = "leave" /\ Head(blocks[t])[2] /\ at'[t] = "idle"
                 => scopeOf'[isolation[t]] = Nothing]_S!vars
  <2> SUFFICES ASSUME S!Next, NEW t \in Handlers, at[t] = "after", call[t] = "leave",
                      Head(blocks[t])[2], at'[t] = "idle"
               PROVE  scopeOf'[isolation[t]] = Nothing
    BY <1>2
  <2>1. scopeOf[isolation[t]] = Nothing
    BY <1>2 DEF ScopesInv, TakenInv, Untracked
  <2>2. PICK u \in Handlers :
          \/ S!Step(u)
          \/ \E c \in S!Calls : S!Call(u, c)
          \/ \E tracked \in BOOLEAN : S!Enter(u, tracked)
          \/ \E v \in Handlers, propagated \in BOOLEAN : S!Spawn(u, v, propagated)
          \/ \E k \in S!Kinds : S!Capture(u, k)
    BY DEF S!Next
  <2>3. at[u] # at'[u] /\ u = t
    BY <1>2, <2>2 DEF ScopesInv, S!TypeOK, S!Step, S!Take, S!TakeLeaving, S!Check, S!CloseIf,
       S!Exit, S!Report, S!After, S!UpdateErrors, S!UpdateErrorsTo, S!UpdateStatus, S!Call,
       S!CallOr, S!Enter, S!Spawn, S!Capture
  <2>4. S!After(t)
    BY <2>2, <2>3 DEF S!Step, S!Take, S!TakeLeaving, S!Check, S!CloseIf, S!Exit, S!Report,
       S!UpdateErrors, S!UpdateErrorsTo, S!UpdateStatus, S!Call, S!CallOr, S!Enter, S!Spawn,
       S!Capture, S!Idle
  <2>5. scopeOf' = scopeOf
    BY <2>4 DEF S!After
  <2> QED
    BY <2>1, <2>5
<1>3. S!Spec => S!ErrorsStay
  BY <1>1, ScopesConstants, ScopesInductive, PTL DEF S!Spec, S!ErrorsStay
<1>4. S!Spec => S!NoneLeftBehind
  BY <1>2, ScopesConstants, ScopesInductive, PTL DEF S!Spec, S!NoneLeftBehind
<1> QED
  BY <1>3, <1>4 DEF NothingForgotten, S!NothingForgotten
=============================================================================
