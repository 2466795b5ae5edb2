-------------------------- MODULE LeaveRequests_proofs --------------------------
(***************************************************************************)
(* The balance ledger of LeaveRequests is exact, and a finished review     *)
(* agrees with it, for any employees, requests, amounts and entitlements   *)
(* and any number of concurrent requests that may fail at any statement,   *)
(* as long as one review at a time is made per balance.  When requests     *)
(* come one at a time, leaves never overlap and nothing is overdrawn.      *)
(***************************************************************************)
EXTENDS LeaveRequests, FiniteSetTheorems, WellFoundedInduction, TLAPS

-----------------------------------------------------------------------------
(* Sums over finite sets, as the totals of LeaveRequests compute them with *)
(* MapThenSumSet: a sum exists, does not depend on the order in which its  *)
(* terms are picked, and loses exactly A[x] with x.  The argument is by    *)
(* well-founded induction on the subsets of the set.                       *)

\* The recursive function that MapThenSumSet evaluates.
Pick(s) == CHOOSE x \in s : TRUE
Iterates(A, S, f) == f = [s \in SUBSET S |-> IF s = {} THEN 0 ELSE A[Pick(s)] + f[s \ {Pick(s)}]]
Iterated(A, S) == CHOOSE f : Iterates(A, S, f)
SumOver(A, S) == Iterated(A, S)[S]

LEMMA SumOverIs ==
    ASSUME NEW A, NEW S
    PROVE  MapThenSumSet(LAMBDA x : A[x], S) = SumOver(A, S)
BY DEF MapThenSumSet, MapThenFoldSet, SumOver, Iterated, Iterates, Pick

LEMMA PickIn == ASSUME NEW s, s # {} PROVE Pick(s) \in s
BY DEF Pick

\* Among subsets of a finite set there is a minimal one.
LEMMA MinimalSubset ==
    ASSUME NEW S, IsFiniteSet(S), NEW T, T \subseteq SUBSET S, T # {}
    PROVE  \E s \in T : \A t \in T : t \subseteq s => t = s
<1>1. T \subseteq FiniteSubsetsOf(S)
  BY FS_Subset DEF FiniteSubsetsOf
<1>2. \E s \in T : \A t \in T : ~ (<<t, s>> \in StrictSubsetOrdering(S))
  BY <1>1, FS_StrictSubsetOrderingWellFounded, WFMin
<1> QED BY <1>2 DEF StrictSubsetOrdering

LEMMA IterationIsUnique ==
    ASSUME NEW A, NEW S, IsFiniteSet(S), NEW f, NEW g, Iterates(A, S, f), Iterates(A, S, g)
    PROVE  f = g
<1> DEFINE T == {s \in SUBSET S : f[s] # g[s]}
<1>1. CASE T = {}
  BY <1>1 DEF Iterates
<1>2. CASE T # {}
  <2>0. T \subseteq SUBSET S
    OBVIOUS
  <2>1. PICK s \in T : \A t \in T : t \subseteq s => t = s
    <3> HIDE DEF T
    <3> QED BY <1>2, <2>0, MinimalSubset
  <2> DEFINE u == s \ {Pick(s)}
  <2>2. /\ f[s] = IF s = {} THEN 0 ELSE A[Pick(s)] + f[u]
        /\ g[s] = IF s = {} THEN 0 ELSE A[Pick(s)] + g[u]
    BY DEF Iterates
  <2>3. s # {} /\ Pick(s) \in s
    BY <2>2, PickIn
  <2>4. u \in SUBSET S /\ u \subseteq s /\ u # s
    BY <2>3
  <2>5. f[u] = g[u]
    BY <2>1, <2>4
  <2> QED BY <2>2, <2>3, <2>5
<1> QED BY <1>1, <1>2

LEMMA IterationRestricts ==
    ASSUME NEW A, NEW S, NEW f, Iterates(A, S, f), NEW t \in SUBSET S
    PROVE  Iterates(A, t, [s \in SUBSET t |-> f[s]])
<1> DEFINE g == [s \in SUBSET t |-> f[s]]
<1>1. ASSUME NEW s \in SUBSET t
      PROVE  g[s] = IF s = {} THEN 0 ELSE A[Pick(s)] + g[s \ {Pick(s)}]
  <2>1. s \in SUBSET S /\ s \ {Pick(s)} \in SUBSET t
    OBVIOUS
  <2>2. f[s] = IF s = {} THEN 0 ELSE A[Pick(s)] + f[s \ {Pick(s)}]
    BY <2>1 DEF Iterates
  <2> QED BY <2>1, <2>2
<1> QED BY <1>1 DEF Iterates

LEMMA IterationExists ==
    ASSUME NEW A, NEW S, IsFiniteSet(S)
    PROVE  Iterates(A, S, Iterated(A, S))
<1> DEFINE T == {s \in SUBSET S : ~ \E f : Iterates(A, s, f)}
<1>1. CASE T = {}
  <2>1. \E f : Iterates(A, S, f)
    BY <1>1
  <2> QED BY <2>1 DEF Iterated
<1>2. CASE T # {}
  <2>0. T \subseteq SUBSET S
    OBVIOUS
  <2>1. PICK s \in T : \A t \in T : t \subseteq s => t = s
    <3> HIDE DEF T
    <3> QED BY <1>2, <2>0, MinimalSubset
  <2> DEFINE rest(t) == t \ {Pick(t)}
             f == [t \in SUBSET s |-> IF t = {} THEN 0 ELSE A[Pick(t)] + SumOver(A, rest(t))]
  <2>2. ASSUME NEW u \in SUBSET s, u # s PROVE Iterates(A, u, Iterated(A, u))
    <3>1. \E h : Iterates(A, u, h)
      BY <2>1, <2>2
    <3> QED BY <3>1 DEF Iterated
  <2>3. ASSUME NEW u \in SUBSET s, u # s PROVE f[u] = SumOver(A, u)
    <3> DEFINE h == Iterated(A, u)
               v == rest(u)
    <3>1. h[u] = IF u = {} THEN 0 ELSE A[Pick(u)] + h[v]
      BY <2>2, <2>3 DEF Iterates
    <3>2. CASE u = {}
      BY <3>1, <3>2 DEF SumOver
    <3>3. CASE u # {}
      <4>1. v \in SUBSET u /\ v \in SUBSET s /\ v # s
        BY <3>3, PickIn
      <4>2. Iterates(A, v, Iterated(A, v)) /\ Iterates(A, v, [t \in SUBSET v |-> h[t]])
        BY <2>2, <2>3, <4>1, IterationRestricts
      <4>3. IsFiniteSet(v)
        BY <4>1, FS_Subset
      <4>4. Iterated(A, v) = [t \in SUBSET v |-> h[t]]
        BY <4>2, <4>3, IterationIsUnique
      <4>5. h[v] = SumOver(A, v)
        BY <4>4 DEF SumOver
      <4> QED BY <3>1, <3>3, <4>5 DEF SumOver
    <3> QED BY <3>2, <3>3
  <2>4. ASSUME NEW t \in SUBSET s PROVE f[t] = IF t = {} THEN 0 ELSE A[Pick(t)] + f[t \ {Pick(t)}]
    <3>1. CASE t = {}
      BY <3>1
    <3>2. CASE t # {}
      <4>1. rest(t) \in SUBSET s /\ rest(t) # s
        BY <3>2, PickIn
      <4> QED BY <2>3, <3>2, <4>1
    <3> QED BY <3>1, <3>2
  <2>5. Iterates(A, s, f)
    <3> HIDE DEF f
    <3>1. f = [t \in SUBSET s |-> f[t]]
      BY DEF f
    <3> QED BY <2>4, <3>1 DEF Iterates
  <2> QED BY <2>1, <2>5
<1> QED BY <1>1, <1>2

LEMMA SumEmpty == ASSUME NEW A PROVE SumOver(A, {}) = 0
<1>1. Iterates(A, {}, Iterated(A, {}))
  BY FS_EmptySet, IterationExists
<1> QED BY <1>1 DEF Iterates, SumOver

LEMMA SumPick ==
    ASSUME NEW A, NEW S, IsFiniteSet(S), S # {}
    PROVE  SumOver(A, S) = A[Pick(S)] + SumOver(A, S \ {Pick(S)})
<1> DEFINE f == Iterated(A, S)
           u == S \ {Pick(S)}
<1>1. Iterates(A, S, f) /\ IsFiniteSet(u) /\ u \in SUBSET S
  BY IterationExists, FS_Subset
<1>2. f[S] = A[Pick(S)] + f[u]
  BY <1>1 DEF Iterates
<1>3. Iterated(A, u) = [t \in SUBSET u |-> f[t]]
  <2>1. Iterates(A, u, Iterated(A, u))
    BY <1>1, IterationExists
  <2>2. Iterates(A, u, [t \in SUBSET u |-> f[t]])
    BY <1>1, IterationRestricts
  <2> QED BY <1>1, <2>1, <2>2, IterationIsUnique
<1>4. SumOver(A, u) = f[u]
  BY <1>3 DEF SumOver
<1> QED BY <1>2, <1>4 DEF SumOver

\* Sums of naturals are naturals.
LEMMA SumNat ==
    ASSUME NEW S, IsFiniteSet(S), NEW A, \A x \in S : A[x] \in Nat
    PROVE  SumOver(A, S) \in Nat
<1> DEFINE T == {s \in SUBSET S : SumOver(A, s) \notin Nat}
<1>1. CASE T # {}
  <2>0. T \subseteq SUBSET S
    OBVIOUS
  <2>1. PICK s \in T : \A t \in T : t \subseteq s => t = s
    <3> HIDE DEF T
    <3> QED BY <1>1, <2>0, MinimalSubset
  <2>2. s # {} /\ Pick(s) \in s /\ IsFiniteSet(s)
    <3>1. s \in SUBSET S /\ SumOver(A, s) \notin Nat
      BY <2>1
    <3>2. s # {}
      BY <3>1, SumEmpty
    <3> QED BY <3>1, <3>2, PickIn, FS_Subset
  <2>3. SumOver(A, s \ {Pick(s)}) \in Nat
    BY <2>1, <2>2
  <2> QED BY <2>1, <2>2, <2>3, SumPick
<1> QED BY <1>1

\* A sum loses exactly A[x] with x, whatever order its terms are picked in.
THEOREM SumRemove ==
    ASSUME NEW S, IsFiniteSet(S), NEW A, \A x \in S : A[x] \in Nat, NEW x \in S
    PROVE  SumOver(A, S) = A[x] + SumOver(A, S \ {x})
<1> DEFINE Fits(s) == \A y \in s : SumOver(A, s) = A[y] + SumOver(A, s \ {y})
           T == {s \in SUBSET S : ~ Fits(s)}
<1>1. CASE T # {}
  <2>0. T \subseteq SUBSET S
    OBVIOUS
  <2>1. PICK s \in T : \A t \in T : t \subseteq s => t = s
    <3> HIDE DEF T
    <3> QED BY <1>1, <2>0, MinimalSubset
  <2>2. PICK y \in s : SumOver(A, s) # A[y] + SumOver(A, s \ {y})
    BY <2>1
  <2> DEFINE c == Pick(s)
             both == s \ {c, y}
  <2>3. IsFiniteSet(s) /\ c \in s
    BY <2>2, FS_Subset, PickIn
  <2>4. SumOver(A, s) = A[c] + SumOver(A, s \ {c})
    BY <2>2, <2>3, SumPick
  <2>5. y # c
    BY <2>2, <2>4
  <2>6. Fits(s \ {c}) /\ Fits(s \ {y})
    BY <2>1, <2>3
  <2>7. both = (s \ {c}) \ {y} /\ both = (s \ {y}) \ {c} /\ y \in s \ {c} /\ c \in s \ {y}
    BY <2>3, <2>5
  <2>8. /\ SumOver(A, s \ {c}) = A[y] + SumOver(A, both)
        /\ SumOver(A, s \ {y}) = A[c] + SumOver(A, both)
    BY <2>6, <2>7
  <2>9. IsFiniteSet(both) /\ A[c] \in Nat /\ A[y] \in Nat
    BY <2>3, FS_Subset
  <2>10. SumOver(A, both) \in Nat
    BY <2>9, SumNat
  <2> QED BY <2>2, <2>4, <2>8, <2>9, <2>10
<1>2. CASE T = {}
  BY <1>2
<1> QED BY <1>1, <1>2

\* The sum over two sets that share nothing is the sum of their sums.
LEMMA SumDisjoint ==
    ASSUME NEW S, NEW T, IsFiniteSet(S), IsFiniteSet(T), S \cap T = {},
           NEW A, \A x \in S \cup T : A[x] \in Nat
    PROVE  SumOver(A, S \cup T) = SumOver(A, S) + SumOver(A, T)
<1> DEFINE Fits(t) == SumOver(A, S \cup t) = SumOver(A, S) + SumOver(A, t)
           Bad == {t \in SUBSET T : ~ Fits(t)}
<1>1. CASE Bad # {}
  <2>0. Bad \subseteq SUBSET T
    OBVIOUS
  <2>1. PICK t \in Bad : \A u \in Bad : u \subseteq t => u = t
    <3> HIDE DEF Bad
    <3> QED BY <1>1, <2>0, MinimalSubset
  <2>2. t \in SUBSET T /\ ~ Fits(t) /\ IsFiniteSet(t)
    BY <2>1, FS_Subset
  <2>3. SumOver(A, S) \in Nat
    BY SumNat
  <2>4. t # {}
    <3>1. ASSUME t = {} PROVE Fits(t)
      <4>1. S \cup t = S
        BY <3>1
      <4>2. SumOver(A, t) = 0
        BY <3>1, SumEmpty
      <4>3. SumOver(A, S \cup t) = SumOver(A, S)
        BY <4>1
      <4> QED BY <2>3, <4>2, <4>3
    <3> QED BY <2>2, <3>1
  <2>5. PICK x \in t : TRUE
    BY <2>4
  <2> DEFINE u == t \ {x}
  <2>6. Fits(u)
    BY <2>1, <2>5
  <2>7. /\ IsFiniteSet(S \cup t) /\ \A y \in S \cup t : A[y] \in Nat
        /\ x \in S \cup t /\ (S \cup t) \ {x} = S \cup u
    BY <2>2, FS_Union
  <2>8. SumOver(A, S \cup t) = A[x] + SumOver(A, S \cup u)
    BY <2>7, SumRemove
  <2>9. SumOver(A, t) = A[x] + SumOver(A, u)
    BY <2>2, SumRemove
  <2>10. SumOver(A, u) \in Nat /\ A[x] \in Nat
    <3>1. IsFiniteSet(u) /\ \A y \in u : A[y] \in Nat
      BY <2>2, FS_Subset
    <3> QED BY <2>7, <3>1, SumNat
  <2> QED BY <2>2, <2>3, <2>6, <2>8, <2>9, <2>10
<1>2. CASE Bad = {}
  BY <1>2
<1> QED BY <1>1, <1>2

\* More terms do not sum to less, and terms counted in two sets not to more.
LEMMA SumBounds ==
    ASSUME NEW S, NEW T, IsFiniteSet(S), IsFiniteSet(T),
           NEW A, \A x \in S \cup T : A[x] \in Nat
    PROVE  /\ SumOver(A, S) \in Nat /\ SumOver(A, T) \in Nat /\ SumOver(A, S \cup T) \in Nat
           /\ SumOver(A, S) <= SumOver(A, S \cup T)
           /\ SumOver(A, S \cup T) <= SumOver(A, S) + SumOver(A, T)
<1> DEFINE rest == T \ S
           both == T \cap S
<1>1. /\ IsFiniteSet(rest) /\ IsFiniteSet(both) /\ S \cap rest = {} /\ both \cap rest = {}
      /\ S \cup rest = S \cup T /\ both \cup rest = T
  BY FS_Subset
<1>2. /\ \A x \in S \cup rest : A[x] \in Nat
      /\ \A x \in both \cup rest : A[x] \in Nat
  OBVIOUS
<1> HIDE DEF rest, both
<1>3. SumOver(A, S \cup rest) = SumOver(A, S) + SumOver(A, rest)
  BY <1>1, <1>2, SumDisjoint
<1>4. SumOver(A, both \cup rest) = SumOver(A, both) + SumOver(A, rest)
  BY <1>1, <1>2, SumDisjoint
<1>5. SumOver(A, S) \in Nat /\ SumOver(A, rest) \in Nat /\ SumOver(A, both) \in Nat
  BY <1>1, <1>2, SumNat
<1>6. SumOver(A, S \cup T) = SumOver(A, S \cup rest) /\ SumOver(A, T) = SumOver(A, both \cup rest)
  BY <1>1
<1> QED BY <1>3, <1>4, <1>5, <1>6

-----------------------------------------------------------------------------
(* The inductive invariant.                                                *)

\* The statements a request passes on its way.
Path(op) ==
    CASE op = "none" -> {"idle"}
      [] op = "list" -> {"sync", "syncWrite"}
      [] op = "submit" -> {"sync", "syncWrite", "pending", "overlap", "insert"}
      [] op = "approve" -> {"source", "coverTx", "sync", "syncWrite", "lookTx", "book", "status"}
      [] op = "reject" -> {"clear", "readTx", "unbook", "status"}
      [] op = "assign" -> {"source", "coverTx", "restoreTx", "clear", "dropCover"}

Reviews == {"approve", "reject"}

\* Reviews of one balance do not meet, if only because no two requests do.
OneReviewPerBalance == ExclusiveReviews \/ \A p, q \in Proc : p = q

\* A review at one of these has committed its changes to the schedule.
Underway == {"sync", "syncWrite", "lookTx", "book", "readTx", "unbook", "status"}

\* A request is about one leave and one balance; a review about that leave's.
WellFormed(r) ==
    /\ r.pc \in Path(r.op)
    /\ r.op \in {"submit", "approve", "reject", "assign"} => \E l \in Leave : r.leaves = {l}
    /\ r.op \in Reviews => \A l \in r.leaves : r.accts = {AccountOf(l)}
    /\ r.op \in {"none", "list"} => r.leaves = {}
    /\ r.op # "none" => \E a \in Account : r.accts = {a}

Shapes == \A p \in Proc : WellFormed(req[p])

\* Two reviews in flight are about different balances.
Exclusive ==
    \A p, q \in Proc : req[p].op \in Reviews /\ req[q].op \in Reviews /\ p # q
        => req[p].accts \cap req[q].accts = {}

\* A leave is submitted once, and reviewed only after that.
SubmittedOnce ==
    /\ \A p \in Proc : \A l \in req[p].leaves :
          /\ req[p].op = "submit" => leave[l].status = "NONE"
          /\ req[p].op \in Reviews => leave[l].status # "NONE"
    /\ \A p, q \in Proc : req[p].op = "submit" /\ req[q].op = "submit" /\ p # q
          => req[p].leaves \cap req[q].leaves = {}

\* Nothing is booked on a balance that has no row.
Opened ==
    /\ \A a \in Account : ~ bal[a].on => bal[a].used = 0
    /\ \A l \in Leave : usage[l] # {} => bal[AccountOf(l)].on

BookedOnce == \A l \in Leave : \A m, n \in usage[l] : m = n

\* What a request read of the ledger, at the points where it relies on it,
\* is still what the ledger says; a review that changes it is marked as torn.
Holds(r) ==
    /\ r.pc = "syncWrite" /\ r.row.on => \A a \in r.accts : bal[a].on
    /\ r.op = "approve" /\ r.pc \in {"lookTx", "book"} =>
          \A a \in r.accts : bal[a].on /\ r.row.used = bal[a].used
    /\ r.op = "approve" /\ r.pc = "book" => \A l \in r.leaves : usage[l] = {}
    /\ r.op = "approve" /\ r.pc = "status" => \A l \in r.leaves : usage[l] # {}
    /\ r.pc = "unbook" => /\ \A l \in r.leaves : r.txs # {} /\ r.txs = usage[l]
                          /\ \A a \in r.accts : r.row.used = bal[a].used
    /\ r.op = "reject" /\ r.pc = "status" => \A l \in r.leaves : usage[l] = {}
    /\ r.op \in Reviews /\ r.pc \in Underway => r.leaves \subseteq torn

HoldsAll == \A p \in Proc : Holds(req[p])

LedgerInv == /\ TypeOK /\ Shapes /\ Exclusive /\ SubmittedOnce /\ Opened /\ BookedOnce
             /\ HoldsAll /\ UsageIsExact /\ ApprovedIsBooked

-----------------------------------------------------------------------------
(* Constants, rows and fields.                                             *)

LEMMA DaysAreDays == ASSUME NEW l \in Leave PROVE LeaveDays(l) \subseteq Day
BY LeaveAssumption, DayAssumption DEF LeaveDays, Day

LEMMA AccountsAreAccounts ==
    /\ \A l \in Leave : LeaveEmp[l] \in Employee /\ AccountOf(l) \in Account
    /\ \A e \in Employee : <<e, ThisYear>> \in Account
BY LeaveAssumption DEF AccountOf, Account, Year

LEMMA EntitlementsAreNat == ASSUME TypeOK PROVE entitled \in Nat
BY InstanceAssumption DEF TypeOK

LEMMA NoBalIsRow == NoBal \in BalRow
BY DEF NoBal, BalRow

LEMMA IdleIsReq == Idle \in ReqType
BY NoBalIsRow, Zenon DEF Idle, ReqType

LEMMA AboutIsReq ==
    ASSUME NEW l \in Leave
    PROVE  /\ About(l) \in ReqType
           /\ About(l).leaves = {l} /\ About(l).accts = {AccountOf(l)}
           /\ About(l).op = "none" /\ About(l).txs = {} /\ About(l).row = NoBal
<1> USE DEF About, Idle
<1>1. /\ About(l).leaves = {l} /\ About(l).accts = {AccountOf(l)}
      /\ About(l).op = "none" /\ About(l).txs = {} /\ About(l).row = NoBal
  OBVIOUS
<1>2. {AccountOf(l)} \in SUBSET Account /\ {l} \in SUBSET Leave
  BY AccountsAreAccounts
<1>3. About(l) \in ReqType
  BY <1>2, NoBalIsRow, ZenonT(30) DEF ReqType
<1> QED BY <1>1, <1>3

\* Steps of the other requests change at most these two fields of a request.
LEMMA AliveField ==
    ASSUME NEW r \in ReqType, NEW days \in SUBSET Day
    PROVE  /\ [r EXCEPT !.alive = days] \in ReqType
           /\ LET s == [r EXCEPT !.alive = days] IN
              /\ s.pc = r.pc /\ s.op = r.op /\ s.leaves = r.leaves
              /\ s.accts = r.accts /\ s.row = r.row /\ s.txs = r.txs
BY ZenonT(30) DEF ReqType

LEMMA TxsField ==
    ASSUME NEW r \in ReqType, NEW txs \in SUBSET TxId
    PROVE  /\ [r EXCEPT !.txs = txs] \in ReqType
           /\ LET s == [r EXCEPT !.txs = txs] IN
              /\ s.pc = r.pc /\ s.op = r.op /\ s.leaves = r.leaves
              /\ s.accts = r.accts /\ s.row = r.row /\ s.txs = txs
BY ZenonT(30) DEF ReqType

Pcs == {"idle", "sync", "syncWrite", "pending", "overlap", "insert", "source",
        "coverTx", "lookTx", "book", "status", "clear", "readTx", "unbook",
        "restoreTx", "dropCover"}

LEMMA PcField ==
    ASSUME NEW r \in ReqType, NEW pc \in Pcs
    PROVE  /\ [r EXCEPT !.pc = pc] \in ReqType
           /\ LET s == [r EXCEPT !.pc = pc] IN
              /\ s.pc = pc /\ s.op = r.op /\ s.leaves = r.leaves
              /\ s.accts = r.accts /\ s.row = r.row /\ s.txs = r.txs
BY ZenonT(30) DEF ReqType, Pcs

-----------------------------------------------------------------------------
(* What a step does to the requests in flight.                             *)

\* Every request but p's keeps what the invariants say of it.
OthersKeep(p) ==
    \A q \in Proc \ {p} :
        /\ req'[q].pc = req[q].pc /\ req'[q].op = req[q].op
        /\ req'[q].leaves = req[q].leaves /\ req'[q].accts = req[q].accts
        /\ req'[q].row = req[q].row
        /\ req[q].op \in Reviews => req'[q].txs = req[q].txs

LEMMA UpdateKeeps ==
    ASSUME TypeOK, NEW p \in Proc, NEW r \in ReqType, Update(p, r)
    PROVE  req' \in [Proc -> ReqType] /\ req'[p] = r /\ OthersKeep(p)
BY DEF TypeOK, Update, OthersKeep

LEMMA ForgetKeeps ==
    ASSUME TypeOK, NEW p \in Proc, NEW r \in ReqType, NEW e, NEW days, ForgetRows(p, e, days, r)
    PROVE  req' \in [Proc -> ReqType] /\ req'[p] = r /\ OthersKeep(p)
<1> DEFINE deleted == {x \in CoverSlots(asg, e, days) : asg[x].note.kind # "moved"}
           lost(q) == {d \in Day : \E l \in req[q].leaves : <<LeaveEmp[l], d>> \in deleted}
           kept(q) == req[q].alive \ lost(q)
<1>1. req' = [q \in Proc |-> IF q = p THEN r ELSE [req[q] EXCEPT !.alive = kept(q)]]
  BY DEF ForgetRows
<1>2. ASSUME NEW q \in Proc
      PROVE  req[q] \in ReqType /\ kept(q) \in SUBSET Day
  <2>1. req[q] \in ReqType
    BY DEF TypeOK
  <2>2. req[q].alive \in SUBSET Day
    BY <2>1 DEF ReqType
  <2> QED BY <2>1, <2>2
<1> HIDE DEF kept
<1>3. ASSUME NEW q \in Proc \ {p}
      PROVE  /\ req'[q] \in ReqType
             /\ req'[q].pc = req[q].pc /\ req'[q].op = req[q].op
             /\ req'[q].leaves = req[q].leaves /\ req'[q].accts = req[q].accts
             /\ req'[q].row = req[q].row /\ req'[q].txs = req[q].txs
  <2>1. req'[q] = [req[q] EXCEPT !.alive = kept(q)]
    BY <1>1
  <2> QED BY <1>2, <2>1, AliveField
<1>4. req'[p] = r
  BY <1>1
<1>5. req' \in [Proc -> ReqType]
  BY <1>1, <1>3, <1>4
<1> QED BY <1>3, <1>4, <1>5 DEF OthersKeep

-----------------------------------------------------------------------------
(* Steps that leave the ledger alone.                                      *)

\* What p becomes does not meet another review of its balance, another
\* submission of its leave, or a leave of the wrong status.
Distinct(p) ==
    /\ req'[p].op \in Reviews =>
          \A q \in Proc \ {p} : req[q].op \in Reviews => req'[p].accts \cap req[q].accts = {}
    /\ req'[p].op = "submit" =>
          \A q \in Proc \ {p} : req[q].op = "submit" => req'[p].leaves \cap req[q].leaves = {}
    /\ \A l \in req'[p].leaves :
          /\ req'[p].op = "submit" => leave[l].status = "NONE"
          /\ req'[p].op \in Reviews => leave[l].status # "NONE"

\* A request that goes on with what it is about, or ends.
Continues(p) ==
    \/ req'[p].op = "none"
    \/ /\ req'[p].op = req[p].op /\ req'[p].leaves = req[p].leaves
       /\ req[p].op \in Reviews => req'[p].accts = req[p].accts

\* Where a request is tells what it is for.
LEMMA PlacesOf ==
    ASSUME NEW r \in ReqType, WellFormed(r)
    PROVE  /\ r.pc \in {"sync", "syncWrite"} => r.op \in {"list", "submit", "approve"}
           /\ r.pc \in {"pending", "overlap", "insert"} => r.op = "submit"
           /\ r.pc \in {"source", "coverTx"} => r.op \in {"approve", "assign"}
           /\ r.pc \in {"lookTx", "book"} => r.op = "approve"
           /\ r.pc \in {"readTx", "unbook"} => r.op = "reject"
           /\ r.pc = "status" => r.op \in {"approve", "reject"}
           /\ r.pc = "clear" => r.op \in {"reject", "assign"}
           /\ r.pc \in {"restoreTx", "dropCover"} => r.op = "assign"
<1>1. r.op \in {"none", "submit", "approve", "reject", "assign", "list"}
  BY DEF ReqType
<1> QED BY <1>1 DEF WellFormed, Path

LEMMA ContinuesIsDistinct ==
    ASSUME LedgerInv, NEW p \in Proc, Continues(p)
    PROVE  Distinct(p)
<1>1. CASE req'[p].op = "none"
  BY <1>1 DEF Distinct, Reviews, WellFormed, Path, LedgerInv, Shapes, SubmittedOnce
<1>2. CASE req'[p].op # "none"
  BY <1>2 DEF Distinct, Continues, LedgerInv, Exclusive, SubmittedOnce
<1> QED BY <1>1, <1>2

LEMMA RequestsKeptApart ==
    ASSUME LedgerInv, NEW p \in Proc, OthersKeep(p), WellFormed(req'[p]), Distinct(p)
    PROVE  /\ Shapes' /\ Exclusive'
           /\ \A q, r \in Proc : req'[q].op = "submit" /\ req'[r].op = "submit" /\ q # r
                 => req'[q].leaves \cap req'[r].leaves = {}
<1>1. ASSUME NEW q \in Proc PROVE WellFormed(req'[q])
  <2>1. CASE q = p
    BY <2>1
  <2>2. CASE q # p
    <3>1. WellFormed(req[q])
      BY DEF LedgerInv, Shapes
    <3> QED BY <2>2, <3>1 DEF OthersKeep, WellFormed
  <2> QED BY <2>1, <2>2
<1>2. Shapes'
  BY <1>1 DEF Shapes, WellFormed
<1>3. ASSUME NEW q \in Proc, NEW r \in Proc, q # r
      PROVE  /\ req'[q].op \in Reviews /\ req'[r].op \in Reviews
                  => req'[q].accts \cap req'[r].accts = {}
             /\ req'[q].op = "submit" /\ req'[r].op = "submit"
                  => req'[q].leaves \cap req'[r].leaves = {}
  <2>1. CASE q = p
    BY <1>3, <2>1 DEF OthersKeep, Distinct
  <2>2. CASE r = p
    BY <1>3, <2>2 DEF OthersKeep, Distinct
  <2>3. CASE q # p /\ r # p
    BY <1>3, <2>3 DEF OthersKeep, LedgerInv, Exclusive, SubmittedOnce
  <2> QED BY <2>1, <2>2, <2>3
<1> QED BY <1>2, <1>3 DEF Exclusive

LEMMA StatusesKept ==
    ASSUME LedgerInv, NEW p \in Proc, OthersKeep(p), Distinct(p),
           \A l \in Leave : leave'[l].status = leave[l].status,
           WellFormed(req'[p])
    PROVE  \A q \in Proc : \A l \in req'[q].leaves :
              /\ req'[q].op = "submit" => leave'[l].status = "NONE"
              /\ req'[q].op \in Reviews => leave'[l].status # "NONE"
<1> SUFFICES ASSUME NEW q \in Proc, NEW l \in req'[q].leaves,
                    req'[q].op \in Reviews \cup {"submit"}
             PROVE  /\ req'[q].op = "submit" => leave'[l].status = "NONE"
                    /\ req'[q].op \in Reviews => leave'[l].status # "NONE"
  OBVIOUS
<1>1. WellFormed(req'[q])
  BY DEF LedgerInv, Shapes, OthersKeep, WellFormed
<1>2. l \in Leave
  BY <1>1 DEF WellFormed, Reviews
<1>3. CASE q = p
  BY <1>2, <1>3 DEF Distinct
<1>4. CASE q # p
  BY <1>2, <1>4 DEF OthersKeep, LedgerInv, SubmittedOnce
<1> QED BY <1>3, <1>4

\* Figures may be written again as long as nothing is booked or reversed.
UsedKept ==
    /\ usage' = usage
    /\ \A a \in Account : bal'[a].used = bal[a].used /\ (bal[a].on => bal'[a].on)

\* A request of which the other requests' steps change nothing still holds
\* what it read, if the used figures and the bookings did not change.
LEMMA OthersHold ==
    ASSUME LedgerInv, NEW p \in Proc, OthersKeep(p), UsedKept, torn \subseteq torn',
           NEW q \in Proc \ {p}
    PROVE  Holds(req[q])'
<1>1. Holds(req[q]) /\ WellFormed(req[q]) /\ req[q] \in ReqType
  BY DEF LedgerInv, HoldsAll, Shapes, TypeOK
<1>2. req[q].pc = "unbook" => req[q].op \in Reviews
  BY <1>1, PlacesOf DEF Reviews
<1>3. req[q].accts \in SUBSET Account
  BY <1>1 DEF ReqType
<1> QED BY <1>1, <1>2, <1>3 DEF OthersKeep, Holds, UsedKept

LEMMA LedgerKept ==
    ASSUME LedgerInv, NEW p \in Proc, OthersKeep(p), UsedKept,
           \A l \in Leave : leave'[l].status = leave[l].status,
           torn \subseteq torn', WellFormed(req'[p]), Distinct(p), Holds(req[p])', TypeOK'
    PROVE  LedgerInv'
<1>1. Shapes' /\ Exclusive' /\ SubmittedOnce'
  BY RequestsKeptApart, StatusesKept DEF SubmittedOnce
<1>2. Opened' /\ BookedOnce' /\ UsageIsExact'
  <2>1. Opened /\ BookedOnce /\ UsageIsExact
    BY DEF LedgerInv
  <2>2. Opened'
    <3>1. \A a \in Account : bal'[a].on \in BOOLEAN /\ bal[a].on \in BOOLEAN
      BY DEF LedgerInv, TypeOK, BalRow
    <3> QED BY <2>1, <3>1, AccountsAreAccounts DEF Opened, UsedKept
  <2> QED BY <2>1, <2>2 DEF BookedOnce, UsageIsExact, UsedKept
<1>3. HoldsAll'
  BY OthersHold DEF HoldsAll
<1>4. ApprovedIsBooked'
  BY DEF LedgerInv, ApprovedIsBooked, UsedKept
<1> QED BY <1>1, <1>2, <1>3, <1>4 DEF LedgerInv

LEMMA LedgerUntouched ==
    ASSUME LedgerInv, NEW p \in Proc, OthersKeep(p), UNCHANGED <<bal, usage>>,
           \A l \in Leave : leave'[l].status = leave[l].status,
           torn \subseteq torn', WellFormed(req'[p]), Distinct(p), Holds(req[p])', TypeOK'
    PROVE  LedgerInv'
BY LedgerKept DEF UsedKept

-----------------------------------------------------------------------------
(* Requests begin.                                                         *)

LEMMA TablesKept ==
    ASSUME TypeOK, UNCHANGED <<tables, planned, torn>>, req' \in [Proc -> ReqType]
    PROVE  /\ TypeOK' /\ UNCHANGED <<bal, usage>> /\ torn \subseteq torn'
           /\ \A l \in Leave : leave'[l].status = leave[l].status
BY DEF TypeOK, tables

\* A request that has read nothing yet holds nothing.
LEMMA BeginsWell ==
    ASSUME LedgerInv, NEW p \in Proc, UNCHANGED <<tables, planned, torn>>,
           NEW r \in ReqType, Update(p, r), WellFormed(r),
           r.pc \in {"sync", "source", "clear", "restoreTx"},
           r.op \in {"list", "submit", "reject", "approve", "assign"},
           r.op \in Reviews => r.pc \notin Underway,
           r.op \in Reviews =>
               \A q \in Proc \ {p} : req[q].op \in Reviews => r.accts \cap req[q].accts = {},
           r.op = "submit" =>
               \A q \in Proc \ {p} : req[q].op = "submit" => r.leaves \cap req[q].leaves = {},
           \A l \in r.leaves : /\ r.op = "submit" => leave[l].status = "NONE"
                               /\ r.op \in Reviews => leave[l].status # "NONE"
    PROVE  LedgerInv'
<1>1. req' \in [Proc -> ReqType] /\ req'[p] = r /\ OthersKeep(p)
  BY UpdateKeeps DEF LedgerInv
<1>2. /\ TypeOK' /\ UNCHANGED <<bal, usage>> /\ torn \subseteq torn'
      /\ \A l \in Leave : leave'[l].status = leave[l].status
  BY <1>1, TablesKept DEF LedgerInv
<1>3. Distinct(p)
  BY <1>1 DEF Distinct
<1>4. Holds(req[p])'
  BY <1>1 DEF Holds
<1> QED BY <1>1, <1>2, <1>3, <1>4, LedgerUntouched

LEMMA ListBalanceKeeps ==
    ASSUME LedgerInv, NEW p \in Proc, NEW e \in Employee, ListBalance(p, e)
    PROVE  LedgerInv'
<1> DEFINE r == [Idle EXCEPT !.pc = "sync", !.accts = {<<e, ThisYear>>}, !.op = "list"]
<1>1. r.pc = "sync" /\ r.op = "list" /\ r.leaves = {} /\ r.accts = {<<e, ThisYear>>}
  BY DEF Idle
<1>2. {<<e, ThisYear>>} \in SUBSET Account
  BY AccountsAreAccounts
<1>3. r \in ReqType
  BY <1>2, IdleIsReq, ZenonT(30) DEF ReqType
<1>4. Update(p, r) /\ UNCHANGED <<tables, planned, torn>>
  BY DEF ListBalance, Begin
<1> HIDE DEF r
<1>5. WellFormed(r)
  BY <1>1, <1>2 DEF WellFormed, Path, Reviews
<1> QED BY <1>1, <1>3, <1>4, <1>5, BeginsWell DEF Reviews

LEMMA SubmitStartKeeps ==
    ASSUME LedgerInv, NEW p \in Proc, NEW l \in Leave, SubmitStart(p, l)
    PROVE  LedgerInv'
<1> DEFINE accts == {<<LeaveEmp[l], ThisYear>>}
           r == [About(l) EXCEPT !.pc = "sync", !.accts = accts, !.op = "submit"]
<1>2. accts \in SUBSET Account
  BY AccountsAreAccounts
<1>1. r.pc = "sync" /\ r.op = "submit" /\ r.leaves = {l} /\ r.accts = accts
  BY DEF About, Idle
<1>3. r \in ReqType
  <2>1. About(l) \in ReqType
    BY AboutIsReq
  <2> QED BY <1>2, <2>1, ZenonT(30) DEF ReqType, Pcs
<1>4. /\ Update(p, r) /\ UNCHANGED <<tables, planned, torn>> /\ leave[l].status = "NONE"
      /\ \A q \in Proc : l \in req[q].leaves => req[q].op # "submit"
  BY DEF SubmitStart, Begin
<1> HIDE DEF r
<1>5. WellFormed(r)
  BY <1>1, <1>2, <1>3 DEF WellFormed, Path, Reviews
<1> QED BY <1>1, <1>3, <1>4, <1>5, BeginsWell DEF Reviews

\* Both reviews: the status is one that is reviewed, and no other review of the
\* balance is in flight.
LEMMA MayReviewMeans ==
    ASSUME OneReviewPerBalance, NEW p \in Proc, NEW l \in Leave, MayReview(p, l)
    PROVE  /\ leave[l].status # "NONE"
           /\ \A q \in Proc \ {p} : req[q].op \in Reviews => {AccountOf(l)} \cap req[q].accts = {}
BY InstanceAssumption DEF OneReviewPerBalance, MayReview, Reviews

LEMMA RejectStartKeeps ==
    ASSUME LedgerInv, OneReviewPerBalance, NEW p \in Proc, NEW l \in Leave, RejectStart(p, l)
    PROVE  LedgerInv'
<1> DEFINE accts == {AccountOf(l)}
           r == [About(l) EXCEPT !.pc = "clear", !.op = "reject"]
<1>2. accts \in SUBSET Account
  BY AccountsAreAccounts
<1>1. r.pc = "clear" /\ r.op = "reject" /\ r.leaves = {l} /\ r.accts = accts
  BY DEF About, Idle
<1>3. r \in ReqType
  <2>1. About(l) \in ReqType
    BY AboutIsReq
  <2> QED BY <1>2, <2>1, ZenonT(30) DEF ReqType, Pcs
<1>4. Update(p, r) /\ UNCHANGED <<tables, planned, torn>> /\ MayReview(p, l)
  BY DEF RejectStart, Begin
<1> HIDE DEF r
<1>5. WellFormed(r)
  BY <1>1, <1>2, <1>3 DEF WellFormed, Path, Reviews
<1>6. "reject" \in Reviews /\ "clear" \notin Underway
  BY DEF Reviews, Underway
<1> QED BY <1>1, <1>3, <1>4, <1>5, <1>6, MayReviewMeans, BeginsWell

LEMMA CoversAreEmployees ==
    ASSUME TypeOK, NEW l \in Leave, NEW cs \in CoverChoices(l)
    PROVE  /\ cs \in SUBSET Employee
           /\ {leave[l].cover} \ {Nobody} \in SUBSET Employee
BY LeaveAssumption, EmployeeNames DEF TypeOK, CoverChoices, Nobody

LEMMA ApproveStartKeeps ==
    ASSUME LedgerInv, OneReviewPerBalance, NEW p \in Proc, NEW l \in Leave,
           NEW cs \in CoverChoices(l), ApproveStart(p, l, cs)
    PROVE  LedgerInv'
<1> DEFINE accts == {AccountOf(l)}
           given == IF cs # {} THEN cs ELSE {leave[l].cover} \ {Nobody}
           r == [About(l) EXCEPT !.pc = "source", !.covers = given, !.op = "approve"]
<1>2. accts \in SUBSET Account /\ given \in SUBSET Employee
  BY AccountsAreAccounts, CoversAreEmployees DEF LedgerInv
<1>4. Update(p, r) /\ UNCHANGED <<tables, planned, torn>> /\ MayReview(p, l)
  BY DEF ApproveStart, Begin
<1> HIDE DEF given
<1>1. r.pc = "source" /\ r.op = "approve" /\ r.leaves = {l} /\ r.accts = accts
  BY DEF About, Idle
<1>3. r \in ReqType
  <2>1. About(l) \in ReqType
    BY AboutIsReq
  <2> QED BY <1>2, <2>1, ZenonT(30) DEF ReqType, Pcs
<1> HIDE DEF r
<1>5. WellFormed(r)
  BY <1>1, <1>2, <1>3 DEF WellFormed, Path, Reviews
<1>6. "approve" \in Reviews /\ "source" \notin Underway
  BY DEF Reviews, Underway
<1> QED BY <1>1, <1>3, <1>4, <1>5, <1>6, MayReviewMeans, BeginsWell

LEMMA AssignStartKeeps ==
    ASSUME LedgerInv, NEW p \in Proc, NEW l \in Leave,
           NEW cs \in CoverChoices(l), AssignStart(p, l, cs)
    PROVE  LedgerInv'
<1> DEFINE accts == {AccountOf(l)}
           pc == IF cs # {} THEN "source"
                 ELSE IF leave[l].status = "APPROVED" THEN "restoreTx" ELSE "clear"
           r == [About(l) EXCEPT !.covers = cs, !.pc = pc, !.op = "assign"]
<1>2. accts \in SUBSET Account /\ cs \in SUBSET Employee
  BY AccountsAreAccounts, CoversAreEmployees DEF LedgerInv
<1>4. Update(p, r) /\ UNCHANGED <<tables, planned, torn>>
  BY DEF AssignStart, Begin
<1>7. pc \in {"source", "restoreTx", "clear"} /\ pc \in Pcs
  BY DEF Pcs
<1> HIDE DEF pc
<1>1. r.pc = pc /\ r.op = "assign" /\ r.leaves = {l} /\ r.accts = accts
  BY DEF About, Idle
<1>3. r \in ReqType
  <2>1. About(l) \in ReqType
    BY AboutIsReq
  <2> QED BY <1>2, <1>7, <2>1, ZenonT(30) DEF ReqType, Pcs
<1> HIDE DEF r
<1>5. WellFormed(r)
  BY <1>1, <1>2, <1>3, <1>7 DEF WellFormed, Path, Reviews
<1>6. "assign" \notin Reviews
  BY DEF Reviews
<1> QED BY <1>1, <1>3, <1>4, <1>5, <1>6, <1>7, BeginsWell

-----------------------------------------------------------------------------
(* Requests go on, or end, without writing.                                *)

LEMMA Shape ==
    ASSUME LedgerInv, NEW p \in Proc
    PROVE  /\ req[p] \in ReqType /\ WellFormed(req[p]) /\ Holds(req[p])
           /\ \A l \in req[p].leaves : l \in Leave /\ req[p].leaves = {l}
           /\ \A a \in req[p].accts : a \in Account /\ (req[p].op # "none" => req[p].accts = {a})
<1>1. req[p] \in ReqType /\ WellFormed(req[p]) /\ Holds(req[p])
  BY DEF LedgerInv, TypeOK, Shapes, HoldsAll
<1>2. req[p].leaves \in SUBSET Leave /\ req[p].accts \in SUBSET Account
  BY <1>1 DEF ReqType
<1>3. ASSUME NEW l \in req[p].leaves PROVE l \in Leave /\ req[p].leaves = {l}
  <2>1. req[p].op \in {"none", "submit", "approve", "reject", "assign", "list"}
    BY <1>1 DEF ReqType
  <2>2. req[p].op \notin {"none", "list"}
    BY <1>1 DEF WellFormed
  <2> QED BY <1>1, <1>2, <2>1, <2>2 DEF WellFormed
<1>4. ASSUME NEW a \in req[p].accts PROVE a \in Account /\ (req[p].op # "none" => req[p].accts = {a})
  BY <1>1, <1>2 DEF WellFormed
<1> QED BY <1>1, <1>3, <1>4

LEMMA IdleIsFine == WellFormed(Idle) /\ Holds(Idle) /\ Idle.op = "none"
<1>1. Idle.op = "none" /\ Idle.pc = "idle" /\ Idle.leaves = {}
  BY DEF Idle
<1> QED BY <1>1 DEF WellFormed, Path, Reviews, Holds

LEMMA Resumes ==
    ASSUME LedgerInv, NEW p \in Proc, UNCHANGED <<tables, planned, torn>>,
           NEW r \in ReqType, Update(p, r), WellFormed(r), Holds(r),
           r.op = "none" \/ /\ r.op = req[p].op /\ r.leaves = req[p].leaves
                            /\ req[p].op \in Reviews => r.accts = req[p].accts
    PROVE  LedgerInv'
<1>1. req' \in [Proc -> ReqType] /\ req'[p] = r /\ OthersKeep(p)
  BY UpdateKeeps DEF LedgerInv
<1>2. /\ TypeOK' /\ UNCHANGED <<bal, usage>> /\ torn \subseteq torn'
      /\ \A l \in Leave : leave'[l].status = leave[l].status
  BY <1>1, TablesKept DEF LedgerInv
<1>3. Distinct(p)
  BY <1>1, ContinuesIsDistinct DEF Continues
<1>4. Holds(req[p])'
  BY <1>1, <1>2 DEF Holds
<1> QED BY <1>1, <1>2, <1>3, <1>4, LedgerUntouched

LEMMA ReturnKeeps ==
    ASSUME LedgerInv, NEW p \in Proc, UNCHANGED <<tables, planned, torn>>, Return(p)
    PROVE  LedgerInv'
BY IdleIsReq, IdleIsFine, Resumes DEF Return

\* The row of a request that drops what it read.
Onward(l, op, pc) == [About(l) EXCEPT !.op = op, !.pc = pc]

LEMMA ProceedRow ==
    ASSUME NEW l \in Leave, NEW pc \in Pcs,
           NEW op \in {"none", "submit", "approve", "reject", "assign", "list"}
    PROVE  /\ Onward(l, op, pc) \in ReqType
           /\ Onward(l, op, pc).pc = pc /\ Onward(l, op, pc).op = op
           /\ Onward(l, op, pc).leaves = {l} /\ Onward(l, op, pc).accts = {AccountOf(l)}
           /\ Onward(l, op, pc).row = NoBal /\ Onward(l, op, pc).txs = {}
<1> DEFINE r == [About(l) EXCEPT !.op = op, !.pc = pc]
<1>1. r.pc = pc /\ r.op = op /\ r.leaves = {l} /\ r.accts = {AccountOf(l)}
      /\ r.row = NoBal /\ r.txs = {}
  BY DEF About, Idle
<1>2. About(l) \in ReqType
  BY AboutIsReq
<1>3. r \in ReqType
  BY <1>2, ZenonT(30) DEF ReqType, Pcs
<1> QED BY <1>1, <1>3 DEF Onward

LEMMA SyncReadKeeps ==
    ASSUME LedgerInv, NEW p \in Proc, SyncRead(p)
    PROVE  LedgerInv'
<1>1. PICK a \in req[p].accts :
          Update(p, [req[p] EXCEPT !.pc = "syncWrite", !.ent = entitled, !.row = bal[a]])
  BY DEF SyncRead
<1> DEFINE r == [req[p] EXCEPT !.pc = "syncWrite", !.ent = entitled, !.row = bal[a]]
<1>2. /\ req[p] \in ReqType /\ WellFormed(req[p]) /\ Holds(req[p]) /\ req[p].pc = "sync"
      /\ req[p].op \in {"list", "submit", "approve"}
      /\ a \in Account /\ req[p].accts = {a}
  BY Shape, PlacesOf DEF SyncRead, At
<1>3. entitled \in Nat /\ bal[a] \in BalRow
  BY <1>2, EntitlementsAreNat DEF LedgerInv, TypeOK
<1>4. r \in ReqType
  BY <1>2, <1>3, ZenonT(30) DEF ReqType
<1>5. /\ r.pc = "syncWrite" /\ r.row = bal[a] /\ r.op = req[p].op
      /\ r.leaves = req[p].leaves /\ r.accts = req[p].accts
  BY <1>2, ZenonT(30) DEF ReqType
<1>6. Update(p, r) /\ UNCHANGED <<tables, planned, torn>>
  BY <1>1 DEF SyncRead
<1> HIDE DEF r
<1>7. WellFormed(r)
  BY <1>2, <1>5 DEF WellFormed, Path, Reviews
<1>8. Holds(r)
  BY <1>2, <1>5 DEF Holds, Underway, Reviews
<1> QED BY <1>4, <1>5, <1>6, <1>7, <1>8, Resumes

LEMMA CheckBalanceKeeps ==
    ASSUME LedgerInv, NEW p \in Proc, CheckBalance(p)
    PROVE  LedgerInv'
<1>1. PICK l \in req[p].leaves : Return(p) \/ Proceed(p, l, "overlap")
  BY DEF CheckBalance
<1>2. UNCHANGED <<tables, planned, torn>> /\ l \in Leave /\ req[p].leaves = {l} /\ req[p].op = "submit"
  BY Shape, PlacesOf DEF CheckBalance, At
<1> DEFINE r == Onward(l, "submit", "overlap")
<1>3. CASE Proceed(p, l, "overlap")
  <2>1. Update(p, r)
    BY <1>2, <1>3 DEF Proceed, Onward
  <2>2. /\ r \in ReqType
        /\ r.pc = "overlap" /\ r.op = "submit" /\ r.leaves = {l} /\ r.accts = {AccountOf(l)}
    BY <1>2, ProceedRow DEF Pcs
  <2> HIDE DEF r
  <2>3. WellFormed(r) /\ Holds(r)
    BY <1>2, <2>2, AccountsAreAccounts DEF WellFormed, Path, Reviews, Holds
  <2> QED BY <1>2, <2>1, <2>2, <2>3, Resumes DEF Reviews
<1>4. CASE Return(p)
  BY <1>2, <1>4, ReturnKeeps
<1> QED BY <1>1, <1>3, <1>4

LEMMA CheckOverlapKeeps ==
    ASSUME LedgerInv, NEW p \in Proc, CheckOverlap(p)
    PROVE  LedgerInv'
<1> DEFINE r == [req[p] EXCEPT !.pc = "insert"]
<1>1. UNCHANGED <<tables, planned, torn>> /\ (Return(p) \/ Update(p, r))
  BY DEF CheckOverlap, Goto
<1>2. req[p] \in ReqType /\ WellFormed(req[p]) /\ req[p].op = "submit"
  BY Shape, PlacesOf DEF CheckOverlap, At
<1>3. /\ r \in ReqType
      /\ r.pc = "insert" /\ r.op = req[p].op /\ r.leaves = req[p].leaves /\ r.accts = req[p].accts
  BY <1>2, PcField, ZenonT(60) DEF Pcs
<1> HIDE DEF r
<1>4. WellFormed(r) /\ Holds(r)
  BY <1>2, <1>3 DEF WellFormed, Path, Reviews, Holds
<1> QED BY <1>1, <1>3, <1>4, Resumes, ReturnKeeps

LEMMA LookTxKeeps ==
    ASSUME LedgerInv, NEW p \in Proc, LookTx(p)
    PROVE  LedgerInv'
<1>1. PICK l \in req[p].leaves : IF Booked(l) THEN Proceed(p, l, "status") ELSE Goto(p, "book")
  BY DEF LookTx
<1>2. /\ req[p] \in ReqType /\ WellFormed(req[p]) /\ Holds(req[p]) /\ req[p].pc = "lookTx"
      /\ UNCHANGED <<tables, planned, torn>> /\ l \in Leave /\ req[p].leaves = {l}
      /\ req[p].op = "approve"
  BY Shape, PlacesOf DEF LookTx, At
<1>3. req[p].accts = {AccountOf(l)} /\ req[p].leaves \subseteq torn
  BY <1>2 DEF WellFormed, Reviews, Holds, Underway
<1>4. CASE Booked(l)
  <2> DEFINE r == Onward(l, "approve", "status")
  <2>1. Update(p, r)
    BY <1>1, <1>2, <1>4 DEF Proceed, Onward
  <2>2. /\ r \in ReqType
        /\ r.pc = "status" /\ r.op = "approve" /\ r.leaves = {l} /\ r.accts = {AccountOf(l)}
    BY <1>2, ProceedRow DEF Pcs
  <2> HIDE DEF r
  <2>3. WellFormed(r)
    BY <1>2, <2>2, AccountsAreAccounts DEF WellFormed, Path, Reviews
  <2>4. Holds(r)
    BY <1>2, <1>3, <1>4, <2>2 DEF Holds, Booked
  <2> QED BY <1>2, <1>3, <2>1, <2>2, <2>3, <2>4, Resumes
<1>5. CASE ~ Booked(l)
  <2> DEFINE r == [req[p] EXCEPT !.pc = "book"]
  <2>1. Update(p, r)
    BY <1>1, <1>5 DEF Goto
  <2>2. /\ r \in ReqType /\ r.pc = "book" /\ r.op = req[p].op /\ r.leaves = req[p].leaves
        /\ r.accts = req[p].accts /\ r.row = req[p].row
    BY <1>2, PcField, ZenonT(60) DEF Pcs
  <2> HIDE DEF r
  <2>3. WellFormed(r)
    BY <1>2, <2>2 DEF WellFormed, Path, Reviews
  <2>4. Holds(r)
    BY <1>2, <1>3, <1>5, <2>2 DEF Holds, Booked
  <2> QED BY <1>2, <2>1, <2>2, <2>3, <2>4, Resumes
<1> QED BY <1>4, <1>5

LEMMA ReadTxKeeps ==
    ASSUME LedgerInv, NEW p \in Proc, ReadTx(p)
    PROVE  LedgerInv'
<1>1. PICK l \in req[p].leaves, a \in req[p].accts :
          \/ ReverseFrom(l) = {} /\ Proceed(p, l, "status")
          \/ \E n \in ReverseFrom(l) :
               Update(p, [req[p] EXCEPT !.pc = "unbook", !.row = bal[a], !.txs = {n}])
  BY DEF ReadTx
<1>2. /\ req[p] \in ReqType /\ WellFormed(req[p]) /\ Holds(req[p]) /\ req[p].pc = "readTx"
      /\ UNCHANGED <<tables, planned, torn>> /\ l \in Leave /\ req[p].leaves = {l}
      /\ req[p].op = "reject" /\ a \in Account
  BY Shape, PlacesOf DEF ReadTx, At
<1>3. req[p].accts = {AccountOf(l)} /\ req[p].leaves \subseteq torn /\ a = AccountOf(l)
  BY <1>2 DEF WellFormed, Reviews, Holds, Underway
<1>4. CASE ReverseFrom(l) = {} /\ Proceed(p, l, "status")
  <2> DEFINE r == Onward(l, "reject", "status")
  <2>1. Update(p, r)
    BY <1>2, <1>4 DEF Proceed, Onward
  <2>2. /\ r \in ReqType
        /\ r.pc = "status" /\ r.op = "reject" /\ r.leaves = {l} /\ r.accts = {AccountOf(l)}
    BY <1>2, ProceedRow DEF Pcs
  <2> HIDE DEF r
  <2>3. WellFormed(r)
    BY <1>2, <2>2, AccountsAreAccounts DEF WellFormed, Path, Reviews
  <2>4. Holds(r)
    BY <1>2, <1>3, <1>4, <2>2 DEF Holds, ReverseFrom
  <2> QED BY <1>2, <1>3, <2>1, <2>2, <2>3, <2>4, Resumes
<1>5. ASSUME NEW n \in ReverseFrom(l),
             Update(p, [req[p] EXCEPT !.pc = "unbook", !.row = bal[a], !.txs = {n}])
      PROVE  LedgerInv'
  <2> DEFINE r == [req[p] EXCEPT !.pc = "unbook", !.row = bal[a], !.txs = {n}]
  <2>1. usage[l] \in SUBSET TxId /\ bal[a] \in BalRow /\ usage[l] = {n}
    BY <1>2, <1>5 DEF LedgerInv, TypeOK, BookedOnce, ReverseFrom
  <2>2. {n} \in SUBSET TxId
    BY <2>1
  <2>3. r \in ReqType
    BY <1>2, <2>1, <2>2, ZenonT(30) DEF ReqType
  <2>4. /\ r.pc = "unbook" /\ r.op = req[p].op /\ r.leaves = req[p].leaves
        /\ r.accts = req[p].accts /\ r.row = bal[a] /\ r.txs = {n}
    BY <1>2, ZenonT(30) DEF ReqType
  <2>5. Update(p, r)
    BY <1>5
  <2> HIDE DEF r
  <2>6. WellFormed(r)
    BY <1>2, <2>4 DEF WellFormed, Path, Reviews
  <2>7. Holds(r)
    BY <1>2, <1>3, <2>1, <2>4 DEF Holds, Reviews
  <2> QED BY <1>2, <2>3, <2>4, <2>5, <2>6, <2>7, Resumes
<1> QED BY <1>1, <1>4, <1>5

LEMMA FailKeeps ==
    ASSUME LedgerInv, NEW p \in Proc, Fail(p)
    PROVE  LedgerInv'
BY ReturnKeeps DEF Fail

LEMMA SetEntitlementKeeps ==
    ASSUME LedgerInv, NEW n \in Entitlements, SetEntitlement(n)
    PROVE  LedgerInv'
<1>1. /\ entitled' = n /\ leave' = leave /\ asg' = asg /\ bal' = bal
      /\ usage' = usage /\ req' = req /\ torn' = torn
  BY DEF SetEntitlement
<1>2. TypeOK'
  BY <1>1 DEF LedgerInv, TypeOK
<1> QED BY <1>1, <1>2, SMTT(30) DEF LedgerInv, Shapes, Exclusive, SubmittedOnce, Opened, BookedOnce,
                          HoldsAll, Holds, UsageIsExact, ApprovedIsBooked

-----------------------------------------------------------------------------
(* The schedule: its rows keep their type, and the ledger is left alone.   *)

Rows == [Slot -> Row]

LEMMA RestoredIsRow == ASSUME NEW row \in Row PROVE Restored(row) \in Row
<1>1. row.note \in Note
  BY DEF Row
<1>2. CASE row.note.kind # "moved"
  BY <1>2 DEF Restored, NoRow, NoNote, Row, Note
<1>3. CASE row.note.kind = "moved"
  BY <1>1, <1>3 DEF Restored, NoNote, Row, Note
<1> QED BY <1>2, <1>3

LEMMA RestoreTyped ==
    ASSUME NEW rows \in Rows, NEW e, NEW days
    PROVE  RestoreCovers(rows, e, days) \in Rows
<1>1. ASSUME NEW x \in Slot PROVE rows[x] \in Row /\ Restored(rows[x]) \in Row
  BY RestoredIsRow DEF Rows
<1> QED BY <1>1 DEF RestoreCovers, Rows

LEMMA FlagTyped == ASSUME NEW row \in Row, NEW b \in BOOLEAN PROVE [row EXCEPT !.onLeave = b] \in Row
BY ZenonT(30) DEF Row

LEMMA MarkTyped ==
    ASSUME NEW rows \in Rows, NEW e, NEW days
    PROVE  MarkLeave(rows, e, days) \in Rows
<1>1. ASSUME NEW x \in Slot PROVE rows[x] \in Row /\ [rows[x] EXCEPT !.onLeave = TRUE] \in Row
  BY FlagTyped DEF Rows
<1> QED BY <1>1, Zenon DEF MarkLeave, Rows

LEMMA UnmarkTyped ==
    ASSUME NEW rows \in Rows, NEW e, NEW days
    PROVE  UnmarkLeave(rows, e, days) \in Rows
<1>1. ASSUME NEW x \in Slot PROVE rows[x] \in Row /\ [rows[x] EXCEPT !.onLeave = FALSE] \in Row
  BY FlagTyped DEF Rows
<1> QED BY <1>1, Zenon DEF UnmarkLeave, Rows

LEMMA SourceTyped ==
    ASSUME NEW rows \in Rows, NEW e \in Employee, NEW days \in SUBSET Day
    PROVE  /\ SourceOf(rows, e, days) \in SUBSET (Day \X Shift)
           /\ DaysOf(SourceOf(rows, e, days)) \in SUBSET Day
<1>1. ASSUME NEW d \in days, Works(rows[<<e, d>>])
      PROVE  d \in Day /\ rows[<<e, d>>].shift \in Shift
  <2>1. rows[<<e, d>>] \in Row
    BY DEF Rows, Slot
  <2> QED BY <1>1, <2>1 DEF Works, Row
<1>2. ASSUME NEW s \in SourceOf(rows, e, days)
      PROVE  s \in Day \X Shift /\ s[1] \in Day
  <2>1. PICK d \in days : Works(rows[<<e, d>>]) /\ s = <<d, rows[<<e, d>>].shift>>
    BY <1>2 DEF SourceOf
  <2> QED BY <1>1, <2>1
<1> QED BY <1>2 DEF DaysOf

LEMMA MoveTyped ==
    ASSUME NEW rows \in Rows, NEW c, NEW e \in Employee, NEW src \in SUBSET (Day \X Shift)
    PROVE  MoveCover(rows, c, e, src) \in Rows
<1> DEFINE shift(x) == (CHOOSE s \in src : s[1] = x[2])[2]
           moved(x) == [on |-> TRUE, rest |-> FALSE, onLeave |-> FALSE, covers |-> e,
                        shift |-> shift(x), note |-> Snapshot(rows[x])]
<1>1. ASSUME NEW x \in Slot, x[2] \in DaysOf(src) PROVE moved(x) \in Row
  <2>1. PICK s \in src : s[1] = x[2]
    BY <1>1 DEF DaysOf
  <2>2. (CHOOSE t \in src : t[1] = x[2]) \in src
    BY <2>1
  <2>3. shift(x) \in Shift
    BY <2>2
  <2>4. Snapshot(rows[x]) \in Note
    <3>1. rows[x] \in Row
      BY DEF Rows
    <3> QED BY <3>1 DEF Snapshot, NoNote, Row, Note
  <2> HIDE DEF shift
  <2> QED BY <2>3, <2>4 DEF Row
<1> HIDE DEF moved
<1>2. MoveCover(rows, c, e, src) =
          [x \in Slot |-> IF x[1] = c /\ x[2] \in DaysOf(src) THEN moved(x) ELSE rows[x]]
  BY DEF MoveCover, moved
<1>3. ASSUME NEW x \in Slot PROVE rows[x] \in Row
  BY DEF Rows
<1> QED BY <1>1, <1>2, <1>3 DEF Rows

LeaveRows == [Leave -> [status : Status, cover : Employee \cup {Nobody}]]

LEMMA CoverTyped ==
    ASSUME LedgerInv, NEW l \in Leave, NEW c \in Employee \cup {Nobody},
           leave' = [leave EXCEPT ![l].cover = c]
    PROVE  leave' \in LeaveRows /\ \A k \in Leave : leave'[k].status = leave[k].status
<1>1. leave \in LeaveRows
  BY DEF LedgerInv, TypeOK, LeaveRows
<1> QED BY <1>1 DEF LeaveRows

LEMMA ScheduleStep ==
    ASSUME LedgerInv, NEW p \in Proc, NEW r \in ReqType, OthersKeep(p), req'[p] = r,
           req' \in [Proc -> ReqType],
           asg' \in Rows, leave' \in LeaveRows, \A l \in Leave : leave'[l].status = leave[l].status,
           UNCHANGED <<planned, entitled, bal, usage>>, torn \subseteq torn', torn' \subseteq Leave,
           WellFormed(r), r.pc \in {"idle", "sync", "readTx", "dropCover"},
           r.op \in Reviews => r.leaves \subseteq torn',
           r.op = "none" \/ /\ r.op = req[p].op /\ r.leaves = req[p].leaves
                            /\ req[p].op \in Reviews => r.accts = req[p].accts
    PROVE  LedgerInv'
<1>1. TypeOK'
  BY DEF LedgerInv, TypeOK, Rows, LeaveRows
<1>2. Distinct(p)
  BY ContinuesIsDistinct DEF Continues
<1>3. Holds(req[p])'
  BY DEF Holds
<1> QED BY <1>1, <1>2, <1>3, LedgerUntouched

LEMMA ReadSourceKeeps ==
    ASSUME LedgerInv, NEW p \in Proc, ReadSource(p)
    PROVE  LedgerInv'
<1>1. PICK l \in req[p].leaves :
          LET src == SourceOf(asg, LeaveEmp[l], LeaveDays(l))
          IN IF req[p].covers # {} /\ src = {} THEN Return(p)
             ELSE Update(p, [req[p] EXCEPT !.pc = "coverTx", !.src = src, !.alive = DaysOf(src)])
  BY DEF ReadSource
<1>2. /\ req[p] \in ReqType /\ WellFormed(req[p])
      /\ UNCHANGED <<tables, planned, torn>> /\ l \in Leave
      /\ req[p].op \in {"approve", "assign"}
  BY Shape, PlacesOf DEF ReadSource, At
<1> DEFINE src == SourceOf(asg, LeaveEmp[l], LeaveDays(l))
           days == DaysOf(src)
           r == [req[p] EXCEPT !.pc = "coverTx", !.src = src, !.alive = days]
<1>3. src \in SUBSET (Day \X Shift) /\ days \in SUBSET Day
  BY <1>2, DaysAreDays, AccountsAreAccounts, SourceTyped DEF LedgerInv, TypeOK, Rows
<1>4. Return(p) \/ Update(p, r)
  BY <1>1
<1> HIDE DEF src, days
<1>5. r \in ReqType
  BY <1>2, <1>3, ZenonT(30) DEF ReqType
<1>6. /\ r.pc = "coverTx" /\ r.op = req[p].op /\ r.leaves = req[p].leaves /\ r.accts = req[p].accts
  BY <1>2, ZenonT(30) DEF ReqType
<1> HIDE DEF r
<1>7. WellFormed(r)
  BY <1>2, <1>6 DEF WellFormed, Path, Reviews
<1>8. Holds(r)
  BY <1>2, <1>6 DEF Holds, Underway
<1> QED BY <1>2, <1>4, <1>5, <1>6, <1>7, <1>8, Resumes, ReturnKeeps

LEMMA CoverTxKeeps ==
    ASSUME LedgerInv, NEW p \in Proc, CoverTx(p)
    PROVE  LedgerInv'
<1> DEFINE next(l) == IF req[p].op = "approve"
                      THEN [About(l) EXCEPT !.op = "approve", !.pc = "sync"] ELSE Idle
           ending(l) == IF req[p].op = "approve" THEN torn \cup {l} ELSE torn
           marked(l) == MarkLeave(RestoreCovers(asg, LeaveEmp[l], LeaveDays(l)), LeaveEmp[l], req[p].alive)
<1>1. PICK l \in req[p].leaves :
         \/ /\ req[p].covers = {}
            /\ asg' = marked(l)
            /\ leave' = [leave EXCEPT ![l].cover = Nobody]
            /\ ForgetRows(p, LeaveEmp[l], LeaveDays(l), next(l))
            /\ torn' = ending(l)
         \/ \E c \in req[p].covers :
            IF SameShift(marked(l), c, req[p].src)
            THEN Return(p) /\ UNCHANGED <<asg, leave, torn>>
            ELSE /\ asg' = MoveCover(marked(l), c, LeaveEmp[l], req[p].src)
                 /\ leave' = [leave EXCEPT ![l].cover = c]
                 /\ ForgetRows(p, LeaveEmp[l], LeaveDays(l), next(l))
                 /\ torn' = ending(l)
  BY DEF CoverTx
<1>2. /\ req[p] \in ReqType /\ WellFormed(req[p]) /\ req[p].pc = "coverTx"
      /\ UNCHANGED <<planned, entitled, bal, usage>> /\ l \in Leave /\ req[p].leaves = {l}
      /\ req[p].op \in {"approve", "assign"}
  BY Shape, PlacesOf DEF CoverTx, At
<1>3. torn \subseteq Leave /\ req[p].covers \in SUBSET Employee /\ req[p].src \in SUBSET (Day \X Shift)
  BY <1>2 DEF LedgerInv, TypeOK, ReqType
<1>4. /\ next(l) \in ReqType /\ WellFormed(next(l)) /\ next(l).pc \in {"idle", "sync"}
      /\ next(l).op \in Reviews => next(l).leaves \subseteq ending(l)
      /\ next(l).op = "none" \/ /\ next(l).op = req[p].op /\ next(l).leaves = req[p].leaves
                                /\ req[p].op \in Reviews => next(l).accts = req[p].accts
  <2>1. CASE req[p].op = "approve"
    <3>1. next(l) = Onward(l, "approve", "sync")
      BY <2>1 DEF Onward
    <3> HIDE DEF next
    <3>2. /\ next(l) \in ReqType /\ next(l).pc = "sync" /\ next(l).op = "approve"
          /\ next(l).leaves = {l} /\ next(l).accts = {AccountOf(l)}
      BY <1>2, <3>1, ProceedRow DEF Pcs
    <3>3. WellFormed(next(l))
      BY <1>2, <3>2, AccountsAreAccounts DEF WellFormed, Path, Reviews
    <3> QED BY <1>2, <2>1, <3>2, <3>3 DEF WellFormed, Reviews
  <2>2. CASE req[p].op # "approve"
    <3>1. next(l) = Idle
      BY <2>2
    <3> HIDE DEF next
    <3>2. Idle.pc = "idle"
      BY DEF Idle
    <3> QED BY <3>1, <3>2, IdleIsReq, IdleIsFine DEF Reviews
  <2> QED BY <2>1, <2>2
<1>5. torn \subseteq ending(l) /\ ending(l) \subseteq Leave
  BY <1>2, <1>3
<1>6. marked(l) \in Rows
  BY RestoreTyped, MarkTyped DEF LedgerInv, TypeOK, Rows
<1>7. LeaveEmp[l] \in Employee
  BY <1>2, AccountsAreAccounts
<1> HIDE DEF next, ending, marked
<1>8. ASSUME NEW c \in Employee \cup {Nobody},
             leave' = [leave EXCEPT ![l].cover = c], asg' \in Rows,
             ForgetRows(p, LeaveEmp[l], LeaveDays(l), next(l)), torn' = ending(l)
      PROVE  LedgerInv'
  <2>1. req' \in [Proc -> ReqType] /\ req'[p] = next(l) /\ OthersKeep(p)
    BY <1>4, <1>8, ForgetKeeps DEF LedgerInv
  <2>2. leave' \in LeaveRows /\ \A k \in Leave : leave'[k].status = leave[k].status
    BY <1>2, <1>8, CoverTyped
  <2> QED BY <1>2, <1>4, <1>5, <1>8, <2>1, <2>2, ScheduleStep
<1>9. CASE /\ asg' = marked(l)
           /\ leave' = [leave EXCEPT ![l].cover = Nobody]
           /\ ForgetRows(p, LeaveEmp[l], LeaveDays(l), next(l))
           /\ torn' = ending(l)
  BY <1>6, <1>8, <1>9
<1>10. ASSUME NEW c \in req[p].covers,
              asg' = MoveCover(marked(l), c, LeaveEmp[l], req[p].src),
              leave' = [leave EXCEPT ![l].cover = c],
              ForgetRows(p, LeaveEmp[l], LeaveDays(l), next(l)),
              torn' = ending(l)
       PROVE  LedgerInv'
  <2>1. asg' \in Rows
    BY <1>3, <1>6, <1>7, <1>10, MoveTyped
  <2> QED BY <1>3, <1>8, <1>10, <2>1
<1>11. CASE Return(p) /\ UNCHANGED <<asg, leave, torn>>
  BY <1>2, <1>11, ReturnKeeps DEF tables
<1> QED BY <1>1, <1>9, <1>10, <1>11

LEMMA ClearTxKeeps ==
    ASSUME LedgerInv, NEW p \in Proc, ClearTx(p)
    PROVE  LedgerInv'
<1> DEFINE pc == IF req[p].op = "reject" THEN "readTx" ELSE "dropCover"
           r == [req[p] EXCEPT !.pc = pc]
           ending(l) == IF req[p].op = "reject" THEN torn \cup {l} ELSE torn
<1>1. PICK l \in req[p].leaves :
         /\ asg' = UnmarkLeave(RestoreCovers(asg, LeaveEmp[l], LeaveDays(l)), LeaveEmp[l], LeaveDays(l))
         /\ ForgetRows(p, LeaveEmp[l], LeaveDays(l), r)
         /\ torn' = ending(l)
  BY DEF ClearTx
<1>2. /\ req[p] \in ReqType /\ WellFormed(req[p]) /\ req[p].pc = "clear"
      /\ UNCHANGED <<leave, planned, entitled, bal, usage>> /\ l \in Leave /\ req[p].leaves = {l}
      /\ req[p].op \in {"reject", "assign"}
  BY Shape, PlacesOf DEF ClearTx, At
<1>3. torn \subseteq Leave /\ leave \in LeaveRows /\ asg \in Rows
  BY DEF LedgerInv, TypeOK, LeaveRows, Rows
<1>4. /\ torn \subseteq ending(l) /\ ending(l) \subseteq Leave
      /\ req[p].op = "reject" => {l} \subseteq ending(l)
  BY <1>2, <1>3
<1>5. asg' \in Rows
  BY <1>1, <1>3, RestoreTyped, UnmarkTyped
<1>6. pc \in {"readTx", "dropCover"} /\ pc \in Pcs /\ (req[p].op = "reject" <=> pc = "readTx")
  BY DEF Pcs
<1> HIDE DEF pc, ending
<1>7. /\ r \in ReqType
      /\ r.pc = pc /\ r.op = req[p].op /\ r.leaves = req[p].leaves /\ r.accts = req[p].accts
  BY <1>2, <1>6, PcField
<1> HIDE DEF r
<1>8. WellFormed(r)
  BY <1>2, <1>6, <1>7 DEF WellFormed, Path, Reviews
<1>9. req' \in [Proc -> ReqType] /\ req'[p] = r /\ OthersKeep(p)
  BY <1>1, <1>7, ForgetKeeps DEF LedgerInv
<1>10. r.op \in Reviews => r.leaves \subseteq torn'
  BY <1>1, <1>2, <1>4, <1>7 DEF Reviews
<1> QED BY <1>1, <1>2, <1>3, <1>4, <1>5, <1>6, <1>7, <1>8, <1>9, <1>10, ScheduleStep

LEMMA RestoreTxKeeps ==
    ASSUME LedgerInv, NEW p \in Proc, RestoreTx(p)
    PROVE  LedgerInv'
<1>1. PICK l \in req[p].leaves :
         /\ asg' = RestoreCovers(asg, LeaveEmp[l], LeaveDays(l))
         /\ leave' = [leave EXCEPT ![l].cover = Nobody]
         /\ ForgetRows(p, LeaveEmp[l], LeaveDays(l), Idle)
  BY DEF RestoreTx
<1>2. l \in Leave /\ UNCHANGED <<planned, entitled, bal, usage, torn>>
  BY Shape DEF RestoreTx
<1>3. torn \subseteq Leave /\ asg' \in Rows
  BY <1>1, RestoreTyped DEF LedgerInv, TypeOK, Rows
<1>4. leave' \in LeaveRows /\ \A k \in Leave : leave'[k].status = leave[k].status
  BY <1>1, <1>2, CoverTyped
<1>5. req' \in [Proc -> ReqType] /\ req'[p] = Idle /\ OthersKeep(p)
  BY <1>1, IdleIsReq, ForgetKeeps DEF LedgerInv
<1>6. Idle.pc = "idle"
  BY DEF Idle
<1> QED BY <1>2, <1>3, <1>4, <1>5, <1>6, IdleIsReq, IdleIsFine, ScheduleStep DEF Reviews

LEMMA DropCoverKeeps ==
    ASSUME LedgerInv, NEW p \in Proc, DropCover(p)
    PROVE  LedgerInv'
<1>1. PICK l \in req[p].leaves : leave' = [leave EXCEPT ![l].cover = Nobody]
  BY DEF DropCover
<1>2. l \in Leave /\ UNCHANGED <<asg, planned, entitled, bal, usage, torn>>
  BY Shape DEF DropCover
<1>3. torn \subseteq Leave /\ asg' \in Rows
  BY <1>2 DEF LedgerInv, TypeOK, Rows
<1>4. leave' \in LeaveRows /\ \A k \in Leave : leave'[k].status = leave[k].status
  BY <1>1, <1>2, CoverTyped
<1>5. req' \in [Proc -> ReqType] /\ req'[p] = Idle /\ OthersKeep(p)
  BY IdleIsReq, UpdateKeeps DEF LedgerInv, DropCover, Return
<1>6. Idle.pc = "idle"
  BY DEF Idle
<1> QED BY <1>2, <1>3, <1>4, <1>5, <1>6, IdleIsReq, IdleIsFine, ScheduleStep DEF Reviews

-----------------------------------------------------------------------------
(* The statuses.                                                           *)

LEMMA InsertLeaveKeeps ==
    ASSUME LedgerInv, NEW p \in Proc, InsertLeave(p)
    PROVE  LedgerInv'
<1>1. PICK l \in req[p].leaves : leave' = [leave EXCEPT ![l].status = "SUBMITTED"]
  BY DEF InsertLeave
<1>2. /\ Return(p) /\ asg' = asg /\ entitled' = entitled /\ bal' = bal /\ usage' = usage /\ torn' = torn
      /\ l \in Leave /\ req[p].leaves = {l} /\ req[p].op = "submit"
  BY Shape, PlacesOf DEF InsertLeave, At
<1>3. req' \in [Proc -> ReqType] /\ req'[p] = Idle /\ OthersKeep(p)
  BY <1>2, IdleIsReq, UpdateKeeps DEF LedgerInv, Return
<1>4. leave \in LeaveRows
  BY DEF LedgerInv, TypeOK, LeaveRows
<1>5. /\ leave' \in LeaveRows /\ leave'[l].status = "SUBMITTED"
      /\ \A k \in Leave : k # l => leave'[k] = leave[k]
  BY <1>1, <1>2, <1>4, ZenonT(30) DEF LeaveRows, Status
<1>6. TypeOK'
  BY <1>2, <1>3, <1>5 DEF LedgerInv, TypeOK, LeaveRows
<1>7. Distinct(p) /\ WellFormed(req'[p]) /\ Holds(req'[p]) /\ req'[p].op = "none" /\ req'[p].leaves = {}
  <2>1. Idle.leaves = {}
    BY DEF Idle
  <2> QED BY <1>3, <2>1, IdleIsFine, ContinuesIsDistinct DEF Continues
<1>8. /\ Shapes' /\ Exclusive'
      /\ \A q, r \in Proc : req'[q].op = "submit" /\ req'[r].op = "submit" /\ q # r
            => req'[q].leaves \cap req'[r].leaves = {}
  BY <1>3, <1>7, RequestsKeptApart
<1>9. ASSUME NEW q \in Proc, NEW k \in req'[q].leaves
      PROVE  /\ req'[q].op = "submit" => leave'[k].status = "NONE"
             /\ req'[q].op \in Reviews => leave'[k].status # "NONE"
  <2>1. q # p /\ k \in req[q].leaves /\ req'[q].op = req[q].op
    BY <1>3, <1>7, <1>9 DEF OthersKeep
  <2>2. k \in Leave
    BY <2>1, Shape
  <2>3. CASE k = l
    BY <1>2, <1>5, <2>1, <2>3 DEF LedgerInv, SubmittedOnce
  <2>4. CASE k # l
    BY <1>5, <2>1, <2>2, <2>4 DEF LedgerInv, SubmittedOnce
  <2> QED BY <2>3, <2>4
<1>10. SubmittedOnce'
  BY <1>8, <1>9 DEF SubmittedOnce
<1>11. Opened' /\ BookedOnce' /\ UsageIsExact'
  <2>1. Opened'
    BY <1>2 DEF LedgerInv, Opened
  <2>2. BookedOnce'
    BY <1>2 DEF LedgerInv, BookedOnce
  <2>3. UsageIsExact'
    BY <1>2 DEF LedgerInv, UsageIsExact
  <2> QED BY <2>1, <2>2, <2>3
<1>12. HoldsAll'
  <2>1. UsedKept /\ torn \subseteq torn'
    BY <1>2 DEF UsedKept
  <2>2. Holds(req[p])'
    BY <1>2, <1>7 DEF Holds
  <2> QED BY <1>3, <2>1, <2>2, OthersHold DEF HoldsAll
<1>13. ApprovedIsBooked'
  <2>1. leave[l].status = "NONE"
    BY <1>2 DEF LedgerInv, SubmittedOnce
  <2> QED BY <1>2, <1>5, <2>1 DEF LedgerInv, ApprovedIsBooked
<1> QED BY <1>6, <1>8, <1>10, <1>11, <1>12, <1>13 DEF LedgerInv

\* Two reviews in flight are about different leaves too.
LEMMA ReviewsApart ==
    ASSUME LedgerInv, NEW p \in Proc, NEW l \in req[p].leaves, req[p].op \in Reviews,
           NEW q \in Proc \ {p}
    PROVE  /\ req[q].op \in Reviews => l \notin req[q].leaves /\ AccountOf(l) \notin req[q].accts
           /\ req[q].op = "submit" => l \notin req[q].leaves
<1>1. req[p].accts = {AccountOf(l)}
  BY DEF LedgerInv, Shapes, WellFormed
<1>2. req[q].op \in Reviews => AccountOf(l) \notin req[q].accts
  BY <1>1 DEF LedgerInv, Exclusive
<1>3. req[q].op \in Reviews /\ l \in req[q].leaves => req[q].accts = {AccountOf(l)}
  BY DEF LedgerInv, Shapes, WellFormed
<1>4. req[q].op = "submit" => l \notin req[q].leaves
  BY DEF LedgerInv, SubmittedOnce
<1> QED BY <1>2, <1>3, <1>4

LEMMA WriteStatusKeeps ==
    ASSUME LedgerInv, NEW p \in Proc, WriteStatus(p)
    PROVE  LedgerInv'
<1>1. PICK l \in req[p].leaves :
         /\ leave' = IF req[p].op = "approve"
                     THEN [leave EXCEPT ![l].status = "APPROVED"]
                     ELSE [leave EXCEPT ![l] = [status |-> "REJECTED", cover |-> Nobody]]
         /\ torn' = torn \ {l}
  BY DEF WriteStatus
<1>2. /\ Return(p) /\ asg' = asg /\ entitled' = entitled /\ bal' = bal /\ usage' = usage
      /\ l \in Leave /\ req[p].leaves = {l} /\ req[p].pc = "status"
      /\ req[p].op \in {"approve", "reject"} /\ Holds(req[p])
  BY Shape, PlacesOf DEF WriteStatus, At
<1>3. req' \in [Proc -> ReqType] /\ req'[p] = Idle /\ OthersKeep(p)
  BY <1>2, IdleIsReq, UpdateKeeps DEF LedgerInv, Return
<1>4. leave \in LeaveRows
  BY DEF LedgerInv, TypeOK, LeaveRows
<1>5. /\ leave' \in LeaveRows
      /\ leave'[l].status = IF req[p].op = "approve" THEN "APPROVED" ELSE "REJECTED"
      /\ \A k \in Leave : k # l => leave'[k] = leave[k]
  <2>1. CASE req[p].op = "approve"
    BY <1>1, <1>2, <1>4, <2>1, ZenonT(30) DEF LeaveRows, Status
  <2>2. CASE req[p].op # "approve"
    BY <1>1, <1>2, <1>4, <2>2 DEF LeaveRows, Status
  <2> QED BY <2>1, <2>2
<1>6. TypeOK'
  BY <1>1, <1>2, <1>3, <1>5 DEF LedgerInv, TypeOK, LeaveRows
<1>7. Distinct(p) /\ WellFormed(req'[p]) /\ req'[p].op = "none" /\ req'[p].leaves = {}
  <2>1. Idle.leaves = {}
    BY DEF Idle
  <2> QED BY <1>3, <2>1, IdleIsFine, ContinuesIsDistinct DEF Continues
<1>8. /\ Shapes' /\ Exclusive'
      /\ \A q, r \in Proc : req'[q].op = "submit" /\ req'[r].op = "submit" /\ q # r
            => req'[q].leaves \cap req'[r].leaves = {}
  BY <1>3, <1>7, RequestsKeptApart
<1>0. req[p].op \in Reviews
  BY <1>2 DEF Reviews
<1>9. ASSUME NEW q \in Proc, NEW k \in req'[q].leaves
      PROVE  /\ req'[q].op = "submit" => leave'[k].status = "NONE"
             /\ req'[q].op \in Reviews => leave'[k].status # "NONE"
  <2>1. q # p /\ k \in req[q].leaves /\ req'[q].op = req[q].op
    BY <1>3, <1>7, <1>9 DEF OthersKeep
  <2>2. k \in Leave
    BY <2>1, Shape
  <2>3. CASE k = l
    BY <1>0, <1>5, <2>1, <2>3, ReviewsApart
  <2>4. CASE k # l
    BY <1>5, <2>1, <2>2, <2>4 DEF LedgerInv, SubmittedOnce
  <2> QED BY <2>3, <2>4
<1>10. SubmittedOnce'
  BY <1>8, <1>9 DEF SubmittedOnce
<1>11. Opened' /\ BookedOnce' /\ UsageIsExact'
  BY <1>2 DEF LedgerInv, Opened, BookedOnce, UsageIsExact
<1>12. ASSUME NEW q \in Proc PROVE Holds(req[q])'
  <2>1. CASE q = p
    BY <1>3, <1>7, <2>1 DEF Holds, Reviews, Idle
  <2>2. CASE q # p
    <3>1. Holds(req[q]) /\ (req[q].pc = "unbook" => req[q].op \in Reviews)
      BY Shape, PlacesOf DEF Reviews
    <3>2. req[q].op \in Reviews => l \notin req[q].leaves
      BY <1>0, <2>2, ReviewsApart
    <3> QED BY <1>1, <1>2, <1>3, <2>2, <3>1, <3>2 DEF OthersKeep, Holds
  <2> QED BY <2>1, <2>2
<1>13. ApprovedIsBooked'
  <2>1. req[p].op = "approve" <=> usage[l] # {}
    BY <1>2 DEF Holds
  <2> QED BY <1>1, <1>2, <1>5, <2>1 DEF LedgerInv, ApprovedIsBooked
<1> QED BY <1>6, <1>8, <1>10, <1>11, <1>12, <1>13 DEF LedgerInv, HoldsAll

-----------------------------------------------------------------------------
(* The ledger.                                                             *)

LEMMA TotalIs == ASSUME NEW ls PROVE TotalOf(ls) = SumOver(Amount, ls)
BY DEF TotalOf, MapThenSumSet, MapThenFoldSet, SumOver, Iterated, Iterates, Pick

LEMMA TotalGrows ==
    ASSUME NEW ls \in SUBSET Leave, NEW l \in ls
    PROVE  /\ TotalOf(ls) = Amount[l] + TotalOf(ls \ {l})
           /\ TotalOf(ls \ {l}) \in Nat /\ Amount[l] \in Nat
<1>1. IsFiniteSet(ls) /\ IsFiniteSet(ls \ {l})
  BY LeaveAssumption, FS_Subset
<1>2. \A k \in ls : Amount[k] \in Nat
  BY LeaveAssumption
<1>3. SumOver(Amount, ls) = Amount[l] + SumOver(Amount, ls \ {l})
  BY <1>1, <1>2, SumRemove
<1>4. SumOver(Amount, ls \ {l}) \in Nat
  BY <1>1, <1>2, SumNat
<1> QED BY <1>2, <1>3, <1>4, TotalIs

LEMMA SyncWriteKeeps ==
    ASSUME LedgerInv, NEW p \in Proc, SyncWrite(p)
    PROVE  LedgerInv'
<1> DEFINE row(a) == Synced(bal[a], req[p].row, req[p].ent)
           next == AfterSync(req[p].op)
           r(a) == [req[p] EXCEPT !.pc = next, !.row = row(a)]
<1>1. PICK a \in req[p].accts :
         IF bal[a].on /\ ~ req[p].row.on
         THEN Return(p) /\ UNCHANGED bal
         ELSE /\ bal' = [bal EXCEPT ![a] = row(a)]
              /\ IF next = "idle" THEN Return(p) ELSE Update(p, r(a))
  BY DEF SyncWrite
<1>2. /\ req[p] \in ReqType /\ WellFormed(req[p]) /\ Holds(req[p]) /\ req[p].pc = "syncWrite"
      /\ req[p].op \in {"list", "submit", "approve"}
      /\ a \in Account /\ req[p].accts = {a}
      /\ leave' = leave /\ asg' = asg /\ entitled' = entitled /\ usage' = usage /\ torn' = torn
  BY Shape, PlacesOf DEF SyncWrite, At
<1>3. CASE bal[a].on /\ ~ req[p].row.on
  <2>1. Return(p) /\ UNCHANGED <<tables, planned, torn>>
    BY <1>1, <1>3 DEF SyncWrite, tables
  <2> QED BY <2>1, ReturnKeeps
<1>4. CASE ~ (bal[a].on /\ ~ req[p].row.on)
  <2>1. bal' = [bal EXCEPT ![a] = row(a)]
    BY <1>1, <1>4
  <2>2. /\ bal \in [Account -> BalRow] /\ bal[a] \in BalRow /\ req[p].row \in BalRow
        /\ req[p].ent \in Nat
    BY <1>2 DEF LedgerInv, TypeOK, ReqType
  <2>3. req[p].row.on => bal[a].on
    BY <1>2 DEF Holds
  <2>4. ~ bal[a].on => bal[a].used = 0
    BY <1>2 DEF LedgerInv, Opened
  <2>5. row(a) \in BalRow /\ row(a).used = bal[a].used /\ row(a).on
    <3>1. CASE req[p].row.on
      <4> DEFINE ent == req[p].ent
                 left == ent - req[p].row.used
      <4>1. left \in Int /\ ent \in Nat
        BY <2>2 DEF BalRow
      <4>2. row(a) = [bal[a] EXCEPT !.opening = ent, !.available = left]
        BY <3>1 DEF Synced
      <4> HIDE DEF row, left, ent
      <4>3. row(a) \in BalRow
        BY <2>2, <4>1, <4>2, ZenonT(30) DEF BalRow
      <4>4. row(a).used = bal[a].used /\ row(a).on = bal[a].on
        BY <2>2, <4>2, ZenonT(30) DEF BalRow
      <4> QED BY <2>3, <3>1, <4>3, <4>4
    <3>2. CASE ~ req[p].row.on
      BY <1>4, <2>2, <2>4, <3>2 DEF Synced, BalRow
    <3> QED BY <3>1, <3>2
  <2> HIDE DEF row
  <2>6. /\ bal' \in [Account -> BalRow] /\ UsedKept
        /\ bal'[a].used = bal[a].used /\ bal'[a].on /\ bal'[a] = row(a)
    BY <1>2, <2>1, <2>2, <2>5 DEF UsedKept
  <2>7. /\ req' \in [Proc -> ReqType] /\ OthersKeep(p) /\ WellFormed(req'[p]) /\ Distinct(p)
        /\ Holds(req[p])'
    <3>1. CASE next = "idle"
      <4>1. Return(p)
        BY <1>1, <1>4, <3>1
      <4>2. req' \in [Proc -> ReqType] /\ req'[p] = Idle /\ OthersKeep(p)
        BY <4>1, IdleIsReq, UpdateKeeps DEF LedgerInv, Return
      <4>3. Distinct(p) /\ WellFormed(req'[p])
        BY <4>2, IdleIsFine, ContinuesIsDistinct DEF Continues
      <4>4. Holds(req[p])'
        BY <4>2 DEF Holds, Idle, Reviews
      <4> QED BY <4>2, <4>3, <4>4
    <3>2. CASE next # "idle"
      <4>1. Update(p, r(a))
        BY <1>1, <1>4, <3>2
      <4>2. next \in {"pending", "lookTx"} /\ next \in Pcs /\ next \in Path(req[p].op)
            /\ (next = "lookTx" <=> req[p].op = "approve")
        BY <1>2, <3>2 DEF AfterSync, Pcs, Path
      <4> HIDE DEF next
      <4>3. r(a) \in ReqType
        BY <1>2, <2>5, <4>2, ZenonT(30) DEF ReqType, Pcs
      <4>4. /\ r(a).pc = next /\ r(a).row = row(a) /\ r(a).op = req[p].op
            /\ r(a).leaves = req[p].leaves /\ r(a).accts = req[p].accts
        BY <1>2, ZenonT(30) DEF ReqType
      <4> HIDE DEF r
      <4>5. req' \in [Proc -> ReqType] /\ req'[p] = r(a) /\ OthersKeep(p)
        BY <4>1, <4>3, UpdateKeeps DEF LedgerInv
      <4>6. Distinct(p)
        BY <4>4, <4>5, ContinuesIsDistinct DEF Continues
      <4>7. WellFormed(req'[p])
        BY <1>2, <4>2, <4>4, <4>5 DEF WellFormed
      <4>8. Holds(req[p])'
        BY <1>2, <2>6, <4>2, <4>4, <4>5 DEF Holds, Underway, Reviews
      <4> QED BY <4>5, <4>6, <4>7, <4>8
    <3> QED BY <3>1, <3>2
  <2>8. TypeOK'
    BY <1>2, <2>6, <2>7 DEF LedgerInv, TypeOK
  <2> QED BY <1>2, <2>6, <2>7, <2>8, LedgerKept
<1> QED BY <1>3, <1>4

\* A review p of l books l or reverses its booking and goes on to the status.
Posted(p, l, op) ==
    /\ OthersKeep(p) /\ req'[p] = Onward(l, op, "status")
    /\ leave' = leave /\ torn' = torn
    /\ \A k \in Leave : k # l => usage'[k] = usage[k]
    /\ \A a \in Account : bal'[a].on = bal[a].on
    /\ \A a \in Account : a # AccountOf(l) => bal'[a] = bal[a]
    /\ op = "approve" <=> usage'[l] # {}
    /\ \A m, n \in usage'[l] : m = n

LEMMA PostedKeeps ==
    ASSUME LedgerInv, NEW p \in Proc, NEW l \in Leave, req[p].leaves = {l},
           req[p].op \in Reviews, req[p].pc \in Underway, bal[AccountOf(l)].on,
           Posted(p, l, req[p].op), TypeOK', UsageIsExact'
    PROVE  LedgerInv'
<1> DEFINE op == req[p].op
           r == Onward(l, op, "status")
<1>0. op \in {"approve", "reject"} /\ l \in req[p].leaves /\ req[p].accts = {AccountOf(l)}
      /\ l \in torn
  BY Shape DEF Reviews, WellFormed, Holds
<1>1. /\ r.pc = "status" /\ r.op = op /\ r.leaves = {l} /\ r.accts = {AccountOf(l)}
  BY <1>0, ProceedRow DEF Pcs
<1> HIDE DEF r
<1>2. OthersKeep(p) /\ req'[p] = r /\ leave' = leave /\ torn' = torn
  BY DEF Posted, r
<1>3. WellFormed(req'[p])
  BY <1>0, <1>1, <1>2, AccountsAreAccounts DEF WellFormed, Path, Reviews
<1>4. Distinct(p)
  BY <1>0, <1>1, <1>2, ContinuesIsDistinct DEF Continues
<1>5. Shapes' /\ Exclusive' /\ SubmittedOnce'
  BY <1>2, <1>3, <1>4, RequestsKeptApart, StatusesKept DEF SubmittedOnce
<1>6. Opened'
  <2>1. ASSUME NEW a \in Account, ~ bal'[a].on PROVE bal'[a].used = 0
    BY <2>1 DEF LedgerInv, Opened, Posted
  <2>2. ASSUME NEW k \in Leave, usage'[k] # {} PROVE bal'[AccountOf(k)].on
    BY <2>2, AccountsAreAccounts DEF LedgerInv, Opened, Posted
  <2> QED BY <2>1, <2>2 DEF Opened
<1>7. BookedOnce'
  BY DEF LedgerInv, BookedOnce, Posted
<1>8. ASSUME NEW q \in Proc PROVE Holds(req[q])'
  <2>1. CASE q = p
    BY <1>0, <1>1, <1>2, <2>1 DEF Holds, Reviews, Posted
  <2>2. CASE q # p
    <3>1. Holds(req[q]) /\ (req[q].pc = "unbook" => req[q].op \in Reviews)
          /\ req[q].accts \in SUBSET Account /\ req[q].leaves \in SUBSET Leave
      BY Shape, PlacesOf DEF Reviews, ReqType
    <3>2. req[q].op \in Reviews => l \notin req[q].leaves /\ AccountOf(l) \notin req[q].accts
      BY <1>0, <2>2, ReviewsApart
    <3>3. /\ \A k \in req[q].leaves : k # l => usage'[k] = usage[k]
          /\ \A a \in req[q].accts : bal'[a].on = bal[a].on
          /\ \A a \in req[q].accts : a # AccountOf(l) => bal'[a] = bal[a]
      BY <3>1 DEF Posted
    <3>4. /\ req'[q].pc = req[q].pc /\ req'[q].op = req[q].op
          /\ req'[q].leaves = req[q].leaves /\ req'[q].accts = req[q].accts
          /\ req'[q].row = req[q].row
          /\ req[q].op \in Reviews => req'[q].txs = req[q].txs
      BY <1>2, <2>2 DEF OthersKeep
    <3>5. CASE req[q].op \in Reviews
      <4>1. \A k \in req[q].leaves : usage'[k] = usage[k]
        BY <3>2, <3>3, <3>5
      <4>2. \A a \in req[q].accts : bal'[a] = bal[a]
        BY <3>2, <3>3, <3>5
      <4> QED BY <1>2, <3>1, <3>4, <3>5, <4>1, <4>2 DEF Holds
    <3>6. CASE req[q].op \notin Reviews
      BY <3>1, <3>3, <3>4, <3>6 DEF Holds, Reviews
    <3> QED BY <3>5, <3>6
  <2> QED BY <2>1, <2>2
<1>9. ApprovedIsBooked'
  BY <1>0, <1>2 DEF LedgerInv, ApprovedIsBooked, Posted
<1> QED BY <1>5, <1>6, <1>7, <1>8, <1>9 DEF LedgerInv, HoldsAll

BookedOn(a) == {l \in Leave : usage[l] # {} /\ AccountOf(l) = a}

\* Posting a booking of l moves l in or out of what its balance must equal,
\* and touches no other balance.
LEMMA PostedIsExact ==
    ASSUME LedgerInv, NEW l \in Leave, NEW p, NEW op, Posted(p, l, op),
           bal'[AccountOf(l)].used =
              IF usage'[l] # {} THEN TotalOf((BookedOn(AccountOf(l)) \ {l}) \cup {l})
              ELSE TotalOf(BookedOn(AccountOf(l)) \ {l})
    PROVE  UsageIsExact'
<1> DEFINE after(a) == {k \in Leave : usage'[k] # {} /\ AccountOf(k) = a}
<1>1. ASSUME NEW a \in Account PROVE bal'[a].used = TotalOf(after(a))
  <2>1. CASE a = AccountOf(l)
    <3>1. CASE usage'[l] # {}
      <4>1. after(a) = (BookedOn(a) \ {l}) \cup {l}
        BY <2>1, <3>1 DEF Posted, BookedOn
      <4> QED BY <2>1, <3>1, <4>1
    <3>2. CASE usage'[l] = {}
      <4>1. after(a) = BookedOn(a) \ {l}
        BY <2>1, <3>2 DEF Posted, BookedOn
      <4> QED BY <2>1, <3>2, <4>1
    <3> QED BY <3>1, <3>2
  <2>2. CASE a # AccountOf(l)
    <3>1. after(a) = BookedOn(a)
      BY <2>2 DEF Posted, BookedOn
    <3>2. bal'[a] = bal[a]
      BY <2>2 DEF Posted
    <3> QED BY <3>1, <3>2 DEF LedgerInv, UsageIsExact, BookedOn
  <2> QED BY <2>1, <2>2
<1> QED BY <1>1 DEF UsageIsExact

LEMMA BookKeeps ==
    ASSUME LedgerInv, NEW p \in Proc, Book(p)
    PROVE  LedgerInv'
<1> DEFINE new(l) == BookedRow(req[p].row, req[p].ent, l)
           tx(l) == CHOOSE n \in TxId : n \notin usage[l]
<1>1. PICK l \in req[p].leaves, a \in req[p].accts :
         /\ bal' = [bal EXCEPT ![a].used = new(l).used, ![a].available = new(l).available]
         /\ usage' = [usage EXCEPT ![l] = @ \cup {tx(l)}]
         /\ Proceed(p, l, "status")
  BY DEF Book
<1>2. /\ req[p] \in ReqType /\ WellFormed(req[p]) /\ Holds(req[p]) /\ req[p].pc = "book"
      /\ leave' = leave /\ asg' = asg /\ entitled' = entitled /\ torn' = torn
      /\ l \in Leave /\ req[p].leaves = {l} /\ req[p].op = "approve" /\ a \in Account
  BY Shape, PlacesOf DEF Book, At
<1>3. /\ req[p].accts = {AccountOf(l)} /\ a = AccountOf(l) /\ usage[l] = {}
      /\ bal[a].on /\ req[p].row.used = bal[a].used
  BY <1>2 DEF WellFormed, Reviews, Holds
<1>4. tx(l) \in TxId
  <2>1. Cardinality(Proc) \in Nat \ {0}
    BY InstanceAssumption, FS_CardinalityType, FS_EmptySet
  <2>2. 1 \in TxId
    BY <2>1 DEF TxId
  <2> QED BY <1>3, <2>2
<1>5. /\ bal \in [Account -> BalRow] /\ bal[a] \in BalRow /\ req[p].row \in BalRow
      /\ req[p].ent \in Nat /\ Amount[l] \in Nat /\ usage \in [Leave -> SUBSET TxId]
  BY <1>2, LeaveAssumption DEF LedgerInv, TypeOK, ReqType
<1>6. new(l).used = bal[a].used + Amount[l] /\ new(l).used \in Nat /\ new(l).available \in Int
  BY <1>3, <1>5 DEF BookedRow, BalRow
<1> HIDE DEF new, tx
<1>7. /\ bal' \in [Account -> BalRow] /\ bal'[a].used = bal[a].used + Amount[l]
      /\ \A b \in Account : bal'[b].on = bal[b].on
      /\ \A b \in Account : b # a => bal'[b] = bal[b]
  <2> DEFINE used == new(l).used
             left == new(l).available
             row == [bal[a] EXCEPT !.used = used, !.available = left]
  <2>1. used \in Nat /\ left \in Int
    BY <1>6
  <2>2. bal' = [bal EXCEPT ![a] = row]
    BY <1>1, <1>2, <1>5, ZenonT(30)
  <2>3. used = bal[a].used + Amount[l]
    BY <1>6
  <2> HIDE DEF used, left
  <2>4. row \in BalRow
    BY <1>5, <2>1, ZenonT(30) DEF BalRow
  <2>5. row.used = used /\ row.on = bal[a].on
    BY <1>5, ZenonT(30) DEF BalRow
  <2> HIDE DEF row
  <2> QED BY <1>2, <1>5, <2>2, <2>3, <2>4, <2>5
<1>8. /\ usage' \in [Leave -> SUBSET TxId] /\ usage'[l] = {tx(l)}
      /\ \A k \in Leave : k # l => usage'[k] = usage[k]
  BY <1>1, <1>2, <1>3, <1>4, <1>5
<1>9. req' \in [Proc -> ReqType] /\ req'[p] = Onward(l, "approve", "status") /\ OthersKeep(p)
  <2>1. Update(p, Onward(l, "approve", "status"))
    BY <1>1, <1>2 DEF Proceed, Onward
  <2>2. Onward(l, "approve", "status") \in ReqType
    BY <1>2, ProceedRow DEF Pcs
  <2> QED BY <2>1, <2>2, UpdateKeeps DEF LedgerInv
<1>10. TypeOK'
  BY <1>2, <1>7, <1>8, <1>9 DEF LedgerInv, TypeOK
<1>11. Posted(p, l, "approve")
  BY <1>2, <1>3, <1>7, <1>8, <1>9 DEF Posted
<1>12. UsageIsExact'
  <2> DEFINE ls == BookedOn(a)
  <2>1. l \notin ls /\ ls \subseteq Leave /\ bal[a].used = TotalOf(ls)
    BY <1>2, <1>3 DEF LedgerInv, UsageIsExact, BookedOn
  <2>2. (ls \ {l}) \cup {l} \in SUBSET Leave /\ l \in (ls \ {l}) \cup {l}
        /\ ((ls \ {l}) \cup {l}) \ {l} = ls
    BY <1>2, <2>1
  <2> HIDE DEF ls
  <2>3. TotalOf((ls \ {l}) \cup {l}) = Amount[l] + TotalOf(ls) /\ TotalOf(ls) \in Nat
    BY <2>2, TotalGrows
  <2>4. bal'[a].used = TotalOf((ls \ {l}) \cup {l})
    BY <1>5, <1>7, <2>1, <2>3
  <2> QED BY <1>2, <1>3, <1>8, <1>11, <2>4, PostedIsExact DEF ls
<1>13. req[p].op \in Reviews /\ req[p].pc \in Underway
  BY <1>2 DEF Reviews, Underway
<1> QED BY <1>2, <1>3, <1>10, <1>11, <1>12, <1>13, PostedKeeps

LEMMA UnbookKeeps ==
    ASSUME LedgerInv, NEW p \in Proc, Unbook(p)
    PROVE  LedgerInv'
<1> DEFINE was == req[p].row.used
           used(l) == IF was > Amount[l] THEN was - Amount[l] ELSE 0
           left(l) == req[p].row.opening - used(l)
           done(l) == [About(l) EXCEPT !.op = "reject", !.pc = "status"]
           without(q) == req[q].txs \ req[p].txs
<1>1. PICK l \in req[p].leaves, a \in req[p].accts :
         IF req[p].txs = {}
         THEN Return(p) /\ UNCHANGED <<bal, usage>>
         ELSE /\ bal' = [bal EXCEPT ![a].used = used(l), ![a].available = left(l)]
              /\ usage' = [usage EXCEPT ![l] = @ \ req[p].txs]
              /\ req' = [q \in Proc |->
                    IF q = p THEN done(l)
                    ELSE IF l \in req[q].leaves THEN [req[q] EXCEPT !.txs = without(q)] ELSE req[q]]
  BY DEF Unbook
<1>2. /\ req[p] \in ReqType /\ WellFormed(req[p]) /\ Holds(req[p]) /\ req[p].pc = "unbook"
      /\ leave' = leave /\ asg' = asg /\ entitled' = entitled /\ torn' = torn
      /\ l \in Leave /\ req[p].leaves = {l} /\ req[p].op = "reject" /\ a \in Account
  BY Shape, PlacesOf DEF Unbook, At
<1>3. /\ req[p].accts = {AccountOf(l)} /\ a = AccountOf(l)
      /\ req[p].txs # {} /\ req[p].txs = usage[l] /\ was = bal[a].used /\ bal[a].on
  BY <1>2 DEF WellFormed, Reviews, Holds, LedgerInv, Opened
<1>4. /\ bal \in [Account -> BalRow] /\ bal[a] \in BalRow /\ req[p].row \in BalRow
      /\ Amount[l] \in Nat /\ usage \in [Leave -> SUBSET TxId]
  BY <1>2, LeaveAssumption DEF LedgerInv, TypeOK, ReqType
<1>5. /\ bal' = [bal EXCEPT ![a].used = used(l), ![a].available = left(l)]
      /\ usage' = [usage EXCEPT ![l] = @ \ req[p].txs]
      /\ req' = [q \in Proc |->
            IF q = p THEN done(l)
            ELSE IF l \in req[q].leaves THEN [req[q] EXCEPT !.txs = without(q)] ELSE req[q]]
  BY <1>1, <1>3
<1>6. was \in Nat /\ used(l) \in Nat /\ left(l) \in Int
  BY <1>4 DEF BalRow
<1>7. /\ bal' \in [Account -> BalRow] /\ bal'[a].used = used(l)
      /\ \A b \in Account : bal'[b].on = bal[b].on
      /\ \A b \in Account : b # a => bal'[b] = bal[b]
  <2> DEFINE row == [bal[a] EXCEPT !.used = used(l), !.available = left(l)]
  <2> HIDE DEF used, left
  <2>1. bal' = [bal EXCEPT ![a] = row]
    BY <1>2, <1>4, <1>5, ZenonT(30)
  <2>2. row \in BalRow
    BY <1>4, <1>6, ZenonT(30) DEF BalRow
  <2>3. row.used = used(l) /\ row.on = bal[a].on
    BY <1>4, ZenonT(30) DEF BalRow
  <2> HIDE DEF row
  <2> QED BY <1>2, <1>4, <2>1, <2>2, <2>3
<1>8. /\ usage' \in [Leave -> SUBSET TxId] /\ usage'[l] = {}
      /\ \A k \in Leave : k # l => usage'[k] = usage[k]
  BY <1>2, <1>3, <1>4, <1>5
<1>9. req' \in [Proc -> ReqType] /\ req'[p] = Onward(l, "reject", "status") /\ OthersKeep(p)
  <2>1. done(l) = Onward(l, "reject", "status")
    BY DEF Onward
  <2> HIDE DEF done, without
  <2>2. req'[p] = done(l)
    BY <1>5
  <2>3. done(l) \in ReqType
    BY <1>2, <2>1, ProceedRow DEF Pcs
  <2>4. ASSUME NEW q \in Proc \ {p}
        PROVE  /\ req'[q] \in ReqType
               /\ req'[q].pc = req[q].pc /\ req'[q].op = req[q].op
               /\ req'[q].leaves = req[q].leaves /\ req'[q].accts = req[q].accts
               /\ req'[q].row = req[q].row
               /\ req[q].op \in Reviews => req'[q].txs = req[q].txs
    <3>1. req[q] \in ReqType /\ without(q) \in SUBSET TxId
      <4>1. req[q] \in ReqType /\ req[q].txs \in SUBSET TxId
        BY Shape DEF ReqType
      <4> QED BY <4>1 DEF without
    <3>2. req[q].op \in Reviews => l \notin req[q].leaves
      BY <1>2, ReviewsApart DEF Reviews
    <3>3. CASE l \in req[q].leaves
      <4>1. req'[q] = [req[q] EXCEPT !.txs = without(q)]
        BY <1>5, <3>3
      <4> QED BY <3>1, <3>2, <3>3, <4>1, TxsField
    <3>4. CASE l \notin req[q].leaves
      BY <1>5, <3>1, <3>4
    <3> QED BY <3>3, <3>4
  <2>5. req' \in [Proc -> ReqType]
    BY <1>5, <2>2, <2>3, <2>4
  <2> QED BY <2>1, <2>2, <2>4, <2>5 DEF OthersKeep
<1>10. TypeOK'
  BY <1>2, <1>7, <1>8, <1>9 DEF LedgerInv, TypeOK
<1>11. Posted(p, l, "reject")
  BY <1>2, <1>3, <1>7, <1>8, <1>9 DEF Posted
<1>12. UsageIsExact'
  <2> DEFINE ls == BookedOn(a)
  <2>1. l \in ls /\ ls \subseteq Leave /\ bal[a].used = TotalOf(ls)
    BY <1>2, <1>3 DEF LedgerInv, UsageIsExact, BookedOn
  <2> HIDE DEF ls
  <2>2. TotalOf(ls) = Amount[l] + TotalOf(ls \ {l}) /\ TotalOf(ls \ {l}) \in Nat
    BY <2>1, TotalGrows
  <2>3. bal'[a].used = TotalOf(ls \ {l})
    BY <1>3, <1>4, <1>7, <2>1, <2>2
  <2> QED BY <1>2, <1>3, <1>8, <1>11, <2>3, PostedIsExact DEF ls
<1>13. req[p].op \in Reviews /\ req[p].pc \in Underway
  BY <1>2 DEF Reviews, Underway
<1> QED BY <1>2, <1>3, <1>10, <1>11, <1>12, <1>13, PostedKeeps

-----------------------------------------------------------------------------
(* The theorems.                                                           *)

LEMMA PlannedTyped == ASSUME NEW plan \in Shift \cup {"empty", "rest"} PROVE PlannedRow(plan) \in Row
BY DEF PlannedRow, NoRow, NoNote, Row, Note

LEMMA InitIsFine == Init => LedgerInv
<1> SUFFICES ASSUME Init PROVE LedgerInv
  OBVIOUS
<1>1. /\ leave = [l \in Leave |-> [status |-> "NONE", cover |-> Nobody]]
      /\ entitled \in Entitlements /\ bal = [a \in Account |-> NoBal]
      /\ usage = [l \in Leave |-> {}] /\ req = [p \in Proc |-> Idle] /\ torn = {}
  BY DEF Init
<1>2. asg \in [Slot -> Row]
  <2>1. \A x \in Slot : planned[x] \in Shift \cup {"empty", "rest"}
    BY InstanceAssumption DEF Init
  <2> QED BY <2>1, PlannedTyped DEF Init
<1>3. NoBal.on = FALSE /\ NoBal.used = 0
  BY DEF NoBal
<1>4. /\ Idle.pc = "idle" /\ Idle.op = "none" /\ Idle.leaves = {}
  BY DEF Idle
<1>5. TypeOK
  BY <1>1, <1>2, IdleIsReq, NoBalIsRow DEF TypeOK, Status
<1>6. Shapes /\ HoldsAll
  BY <1>1, IdleIsFine DEF Shapes, HoldsAll
<1>7. Exclusive /\ SubmittedOnce
  BY <1>1, <1>4 DEF Exclusive, SubmittedOnce, Reviews
<1>8. Opened /\ BookedOnce /\ ApprovedIsBooked
  BY <1>1, <1>3, AccountsAreAccounts DEF Opened, BookedOnce, ApprovedIsBooked
<1>9. UsageIsExact
  <2>1. TotalOf({}) = 0
    BY TotalIs, SumEmpty
  <2>2. ASSUME NEW a \in Account PROVE {l \in Leave : usage[l] # {} /\ AccountOf(l) = a} = {}
    BY <1>1
  <2> QED BY <1>1, <1>3, <2>1, <2>2 DEF UsageIsExact
<1> QED BY <1>5, <1>6, <1>7, <1>8, <1>9 DEF LedgerInv

LEMMA NextIsFine == ASSUME OneReviewPerBalance PROVE LedgerInv /\ [Next]_vars => LedgerInv'
<1> SUFFICES ASSUME LedgerInv, [Next]_vars PROVE LedgerInv'
  OBVIOUS
<1>1. ASSUME NEW p \in Proc, StartStep(p) PROVE LedgerInv'
  <2>1. ASSUME NEW e \in Employee, ListBalance(p, e) PROVE LedgerInv'
    BY <2>1, ListBalanceKeeps
  <2>2. ASSUME NEW l \in Leave, SubmitStart(p, l) \/ RejectStart(p, l) PROVE LedgerInv'
    BY <2>2, SubmitStartKeeps, RejectStartKeeps
  <2>3. ASSUME NEW l \in Leave, NEW cs \in CoverChoices(l),
               ApproveStart(p, l, cs) \/ AssignStart(p, l, cs)
        PROVE  LedgerInv'
    BY <2>3, ApproveStartKeeps, AssignStartKeeps
  <2> QED BY <1>1, <2>1, <2>2, <2>3 DEF StartStep
<1>2. ASSUME NEW p \in Proc, RunStep(p) PROVE LedgerInv'
  BY <1>2, SyncReadKeeps, SyncWriteKeeps, CheckBalanceKeeps, CheckOverlapKeeps, InsertLeaveKeeps,
     ReadSourceKeeps, CoverTxKeeps, ClearTxKeeps, RestoreTxKeeps, DropCoverKeeps,
     LookTxKeeps, BookKeeps, ReadTxKeeps, UnbookKeeps, WriteStatusKeeps DEF RunStep
<1>3. ASSUME NEW p \in Proc, Fail(p) PROVE LedgerInv'
  BY <1>3, FailKeeps
<1>4. ASSUME NEW n \in Entitlements, SetEntitlement(n) PROVE LedgerInv'
  BY <1>4, SetEntitlementKeeps
<1>5. CASE UNCHANGED vars
  <2>1. /\ leave' = leave /\ asg' = asg /\ entitled' = entitled /\ bal' = bal
        /\ usage' = usage /\ req' = req /\ torn' = torn
    BY <1>5 DEF vars
  <2>2. TypeOK' /\ Shapes' /\ Exclusive' /\ SubmittedOnce'
    BY <2>1 DEF LedgerInv, TypeOK, Shapes, Exclusive, SubmittedOnce
  <2>3. Opened' /\ BookedOnce' /\ UsageIsExact' /\ ApprovedIsBooked'
    BY <2>1 DEF LedgerInv, Opened, BookedOnce, UsageIsExact, ApprovedIsBooked
  <2>4. HoldsAll'
    BY <2>1 DEF LedgerInv, HoldsAll, Holds
  <2> QED BY <2>2, <2>3, <2>4 DEF LedgerInv
<1> QED BY <1>1, <1>2, <1>3, <1>4, <1>5 DEF Next

LEMMA LedgerInvariant == ASSUME OneReviewPerBalance PROVE Spec => []LedgerInv
BY InitIsFine, NextIsFine, PTL DEF Spec

\* As long as one review at a time is made per balance, the tables keep their
\* types and the used figure of every balance is the sum of the approved requests
\* booked on it, each once, although it is computed outside the transaction that
\* writes it and balances are synchronized and requests abandoned at any moment
\* (syncEmployeeLeaveBalance, applyApprovedLeaveUsage, reverseLeaveUsageIfAny).
THEOREM BalancesAreExact == ASSUME OneReviewPerBalance PROVE Spec => []BalanceInv
<1>1. LedgerInv => BalanceInv
  BY DEF LedgerInv, BalanceInv
<1> QED BY <1>1, LedgerInvariant, PTL

\* As long as one review at a time is made per balance, a leave whose latest
\* review reached its end is booked exactly if it is approved, whatever earlier
\* reviews left behind when they were abandoned (reviewLeave).
THEOREM ReviewsAgreeWithLedger == ASSUME OneReviewPerBalance PROVE Spec => []ApprovedIsBooked
<1>1. LedgerInv => ApprovedIsBooked
  BY DEF LedgerInv
<1> QED BY <1>1, LedgerInvariant, PTL

-----------------------------------------------------------------------------
(* One request at a time: overlaps and entitlements.                       *)

\* Where the step of p came from, if it leaves the statuses alone.
Carried(p) ==
    /\ req'[p].op = req[p].op /\ req'[p].leaves = req[p].leaves
    /\ req'[p].pc = "insert" => CheckOverlap(p)
    /\ req'[p].pc = "overlap" => CheckBalance(p)
    /\ req'[p].pc = "pending" => SyncWrite(p)
    /\ req'[p].pc = "syncWrite" => SyncRead(p)
    /\ req'[p].pc = "sync" => req[p].op = "approve"
    /\ req[p].op \in Reviews /\ req[p].pc \in Underway => req'[p].pc \in Underway

Started(p) ==
    /\ req[p].op = "none"
    /\ req'[p].pc \in {"sync", "source", "clear", "restoreTx"}
    /\ req'[p].op = "submit" => \A l \in req'[p].leaves : req'[p].accts = {<<LeaveEmp[l], ThisYear>>}
    /\ req'[p].op \in Reviews => \A l \in req'[p].leaves : leave[l].status \in Reviewable

\* A review that has begun to change the schedule ends early only by failing,
\* or by losing the race to create the balance row.
Ended(p) ==
    /\ req'[p].op = "none" /\ req'[p].leaves = {}
    /\ req[p].op \in Reviews /\ req[p].pc \in Underway => Fail(p) \/ (SyncWrite(p) /\ Return(p))

Effect(p) ==
    /\ \A l \in Leave : leave'[l].status = leave[l].status
    /\ entitled' = entitled
    /\ \A l \in Leave : usage'[l] = usage[l] \/ (req[p].op \in Reviews /\ l \in req[p].leaves)
    /\ \/ torn' = torn
       \/ /\ req[p].op \in Reviews /\ req'[p].pc \in Underway
          /\ torn' = torn \cup req[p].leaves
    /\ \/ Ended(p) /\ torn' = torn
       \/ Carried(p)
       \/ Started(p) /\ torn' = torn

LEMMA ReturnEffect ==
    ASSUME LedgerInv, NEW p \in Proc, Return(p)
    PROVE  req'[p] = Idle /\ req'[p].op = "none" /\ req'[p].leaves = {}
BY DEF LedgerInv, TypeOK, Return, Update, Idle

LEMMA UpdateEffect ==
    ASSUME LedgerInv, NEW p \in Proc, NEW r, Update(p, r)
    PROVE  req'[p] = r
BY DEF LedgerInv, TypeOK, Update

LEMMA StartEffect ==
    ASSUME LedgerInv, NEW p \in Proc, StartStep(p)
    PROVE  Effect(p)
<1>1. UNCHANGED <<tables, planned, torn>> /\ req[p].op = "none"
  <2>1. UNCHANGED <<tables, planned, torn>> /\ req[p] = Idle
    BY DEF StartStep, ListBalance, SubmitStart, RejectStart, ApproveStart, AssignStart, Begin
  <2> QED BY <2>1 DEF Idle
<1>2. ASSUME NEW e \in Employee, ListBalance(p, e) PROVE Started(p)
  <2> DEFINE r == [Idle EXCEPT !.pc = "sync", !.accts = {<<e, ThisYear>>}, !.op = "list"]
  <2>1. Update(p, r)
    BY <1>2 DEF ListBalance, Begin
  <2>2. r.pc = "sync" /\ r.op = "list"
    BY DEF Idle
  <2> HIDE DEF r
  <2> QED BY <1>1, <2>1, <2>2, UpdateEffect DEF Started, Reviews
<1>3. ASSUME NEW l \in Leave, SubmitStart(p, l) PROVE Started(p)
  <2> DEFINE accts == {<<LeaveEmp[l], ThisYear>>}
             r == [About(l) EXCEPT !.pc = "sync", !.accts = accts, !.op = "submit"]
  <2>1. Update(p, r)
    BY <1>3 DEF SubmitStart, Begin
  <2>2. r.pc = "sync" /\ r.op = "submit" /\ r.leaves = {l} /\ r.accts = accts
    BY DEF About, Idle
  <2> HIDE DEF r
  <2> QED BY <1>1, <2>1, <2>2, UpdateEffect DEF Started, Reviews
<1>4. ASSUME NEW l \in Leave, RejectStart(p, l) PROVE Started(p)
  <2> DEFINE r == [About(l) EXCEPT !.pc = "clear", !.op = "reject"]
  <2>1. Update(p, r) /\ leave[l].status \in Reviewable
    BY <1>4 DEF RejectStart, Begin, MayReview
  <2>2. r.pc = "clear" /\ r.op = "reject" /\ r.leaves = {l}
    BY DEF About, Idle
  <2> HIDE DEF r
  <2> QED BY <1>1, <2>1, <2>2, UpdateEffect DEF Started
<1>5. ASSUME NEW l \in Leave, NEW cs \in CoverChoices(l), ApproveStart(p, l, cs) PROVE Started(p)
  <2> DEFINE given == IF cs # {} THEN cs ELSE {leave[l].cover} \ {Nobody}
             r == [About(l) EXCEPT !.pc = "source", !.covers = given, !.op = "approve"]
  <2>1. Update(p, r) /\ leave[l].status \in Reviewable
    BY <1>5 DEF ApproveStart, Begin, MayReview
  <2> HIDE DEF given
  <2>2. r.pc = "source" /\ r.op = "approve" /\ r.leaves = {l}
    BY DEF About, Idle
  <2> HIDE DEF r
  <2> QED BY <1>1, <2>1, <2>2, UpdateEffect DEF Started
<1>6. ASSUME NEW l \in Leave, NEW cs \in CoverChoices(l), AssignStart(p, l, cs) PROVE Started(p)
  <2> DEFINE pc == IF cs # {} THEN "source"
                   ELSE IF leave[l].status = "APPROVED" THEN "restoreTx" ELSE "clear"
             r == [About(l) EXCEPT !.covers = cs, !.pc = pc, !.op = "assign"]
  <2>1. Update(p, r)
    BY <1>6 DEF AssignStart, Begin
  <2>2. pc \in {"source", "restoreTx", "clear"}
    OBVIOUS
  <2> HIDE DEF pc
  <2>3. r.pc = pc /\ r.op = "assign"
    BY DEF About, Idle
  <2> HIDE DEF r
  <2> QED BY <1>1, <2>1, <2>2, <2>3, UpdateEffect DEF Started, Reviews
<1>7. Started(p)
  BY <1>2, <1>3, <1>4, <1>5, <1>6 DEF StartStep
<1> QED BY <1>1, <1>7 DEF Effect, tables

\* A row of which only fields that say nothing of its course were changed.
LEMMA OnwardEffect ==
    ASSUME LedgerInv, NEW p \in Proc, NEW l \in Leave, NEW op, NEW pc, Update(p, Onward(l, op, pc))
    PROVE  req'[p].op = op /\ req'[p].pc = pc /\ req'[p].leaves = {l} /\ req'[p].accts = {AccountOf(l)}
<1>1. /\ Onward(l, op, pc).op = op /\ Onward(l, op, pc).pc = pc
      /\ Onward(l, op, pc).leaves = {l} /\ Onward(l, op, pc).accts = {AccountOf(l)}
  BY DEF Onward, About, Idle
<1> QED BY <1>1, UpdateEffect

LEMMA ForgetEffect ==
    ASSUME NEW p \in Proc, NEW e, NEW days, NEW r, ForgetRows(p, e, days, r)
    PROVE  req'[p] = r
BY DEF ForgetRows

LEMMA RunEffect ==
    ASSUME LedgerInv, NEW p \in Proc, RunStep(p), ~ InsertLeave(p), ~ WriteStatus(p)
    PROVE  Effect(p)
<1>0. /\ req[p] \in ReqType /\ WellFormed(req[p])
      /\ \A l \in req[p].leaves : l \in Leave /\ req[p].leaves = {l}
  BY Shape
<1>1. CASE SyncRead(p)
  <2>1. PICK a \in req[p].accts :
            Update(p, [req[p] EXCEPT !.pc = "syncWrite", !.ent = entitled, !.row = bal[a]])
    BY <1>1 DEF SyncRead
  <2> DEFINE r == [req[p] EXCEPT !.pc = "syncWrite", !.ent = entitled, !.row = bal[a]]
  <2>2. r.pc = "syncWrite" /\ r.op = req[p].op /\ r.leaves = req[p].leaves
    BY <1>0, ZenonT(30) DEF ReqType
  <2> HIDE DEF r
  <2>3. req'[p] = r
    BY <2>1, UpdateEffect DEF r
  <2> QED BY <1>1, <2>2, <2>3 DEF Effect, Carried, SyncRead, tables, Underway
<1>2. CASE SyncWrite(p)
  <2> DEFINE next == AfterSync(req[p].op)
             row(a) == Synced(bal[a], req[p].row, req[p].ent)
             r(a) == [req[p] EXCEPT !.pc = next, !.row = row(a)]
  <2>1. PICK a \in req[p].accts : Return(p) \/ (next # "idle" /\ Update(p, r(a)))
    BY <1>2 DEF SyncWrite
  <2>2. req[p].op \in {"list", "submit", "approve"}
    BY <1>0, <1>2, PlacesOf DEF SyncWrite, At
  <2>3. next \in {"pending", "lookTx", "idle"} /\ (req[p].op \in Reviews => next = "lookTx")
    BY <2>2 DEF AfterSync, Reviews
  <2> HIDE DEF next, row
  <2>4. r(a).pc = next /\ r(a).op = req[p].op /\ r(a).leaves = req[p].leaves
    BY <1>0, ZenonT(30) DEF ReqType
  <2> HIDE DEF r
  <2>5. /\ leave' = leave /\ entitled' = entitled /\ usage' = usage /\ torn' = torn
    BY <1>2 DEF SyncWrite
  <2>6. CASE Return(p)
    BY <1>2, <2>5, <2>6, ReturnEffect DEF Effect, Ended
  <2>7. CASE next # "idle" /\ Update(p, r(a))
    <3>1. req'[p] = r(a)
      BY <2>7, UpdateEffect
    <3> QED BY <1>2, <2>3, <2>4, <2>5, <2>7, <3>1 DEF Effect, Carried, Underway
  <2> QED BY <2>1, <2>6, <2>7
<1>3. CASE CheckBalance(p)
  <2>1. PICK l \in req[p].leaves : Return(p) \/ Update(p, Onward(l, req[p].op, "overlap"))
    BY <1>3 DEF CheckBalance, Proceed, Onward
  <2>2. /\ leave' = leave /\ entitled' = entitled /\ usage' = usage /\ torn' = torn
    BY <1>3 DEF CheckBalance, tables
  <2>0. req[p].op \notin Reviews
    BY <1>0, <1>3, PlacesOf DEF CheckBalance, At, Reviews
  <2>3. CASE Return(p)
    BY <2>0, <2>2, <2>3, ReturnEffect DEF Effect, Ended
  <2>4. CASE Update(p, Onward(l, req[p].op, "overlap"))
    <3>1. l \in Leave /\ req[p].leaves = {l}
      BY <1>0
    <3>2. req'[p].op = req[p].op /\ req'[p].pc = "overlap" /\ req'[p].leaves = {l}
      BY <2>4, <3>1, OnwardEffect
    <3> QED BY <1>3, <2>0, <2>2, <3>1, <3>2 DEF Effect, Carried, Underway
  <2> QED BY <2>1, <2>3, <2>4
<1>4. CASE CheckOverlap(p)
  <2> DEFINE r == [req[p] EXCEPT !.pc = "insert"]
  <2>1. Return(p) \/ Update(p, r)
    BY <1>4 DEF CheckOverlap, Goto
  <2>2. /\ leave' = leave /\ entitled' = entitled /\ usage' = usage /\ torn' = torn
    BY <1>4 DEF CheckOverlap, tables
  <2>0. req[p].op \notin Reviews
    BY <1>0, <1>4, PlacesOf DEF CheckOverlap, At, Reviews
  <2>3. r.pc = "insert" /\ r.op = req[p].op /\ r.leaves = req[p].leaves
    BY <1>0, PcField DEF Pcs
  <2> HIDE DEF r
  <2>4. CASE Return(p)
    BY <2>0, <2>2, <2>4, ReturnEffect DEF Effect, Ended
  <2>5. CASE Update(p, r)
    BY <1>4, <2>0, <2>2, <2>3, <2>5, UpdateEffect DEF Effect, Carried, Underway
  <2> QED BY <2>1, <2>4, <2>5
<1>5. CASE ReadSource(p)
  <2> DEFINE src(l) == SourceOf(asg, LeaveEmp[l], LeaveDays(l))
             days(l) == DaysOf(src(l))
             r(l) == [req[p] EXCEPT !.pc = "coverTx", !.src = src(l), !.alive = days(l)]
  <2>1. PICK l \in req[p].leaves : Return(p) \/ Update(p, r(l))
    BY <1>5 DEF ReadSource
  <2>2. /\ leave' = leave /\ entitled' = entitled /\ usage' = usage /\ torn' = torn
    BY <1>5 DEF ReadSource, tables
  <2> HIDE DEF src, days
  <2>3. r(l).pc = "coverTx" /\ r(l).op = req[p].op /\ r(l).leaves = req[p].leaves
    BY <1>0, ZenonT(30) DEF ReqType
  <2> HIDE DEF r
  <2>4. CASE Return(p)
    BY <1>5, <2>2, <2>4, ReturnEffect DEF Effect, Ended, ReadSource, At, Underway
  <2>5. CASE Update(p, r(l))
    BY <1>5, <2>2, <2>3, <2>5, UpdateEffect DEF Effect, Carried, Underway, ReadSource, At
  <2> QED BY <2>1, <2>4, <2>5
<1>6. CASE CoverTx(p)
  <2> DEFINE next(l) == IF req[p].op = "approve"
                        THEN [About(l) EXCEPT !.op = "approve", !.pc = "sync"] ELSE Idle
             ending(l) == IF req[p].op = "approve" THEN torn \cup {l} ELSE torn
  <2>1. PICK l \in req[p].leaves :
           \/ (Return(p) /\ UNCHANGED <<leave, torn>>)
           \/ /\ ForgetRows(p, LeaveEmp[l], LeaveDays(l), next(l))
              /\ torn' = ending(l)
              /\ \E c : leave' = [leave EXCEPT ![l].cover = c]
    BY <1>6 DEF CoverTx
  <2>2. entitled' = entitled /\ usage' = usage
    BY <1>6 DEF CoverTx
  <2>3. CASE Return(p) /\ UNCHANGED <<leave, torn>>
    BY <1>6, <2>2, <2>3, ReturnEffect DEF Effect, Ended, CoverTx, At, Underway
  <2>4. CASE /\ ForgetRows(p, LeaveEmp[l], LeaveDays(l), next(l))
             /\ torn' = ending(l)
             /\ \E c : leave' = [leave EXCEPT ![l].cover = c]
    <3>1. req'[p] = next(l)
      BY <2>4, ForgetEffect
    <3>2. \A k \in Leave : leave'[k].status = leave[k].status
      BY <2>4 DEF LedgerInv, TypeOK
    <3>3. CASE req[p].op = "approve"
      <4>1. next(l) = Onward(l, "approve", "sync")
        BY <3>3 DEF Onward
      <4>2. next(l).pc = "sync" /\ next(l).op = "approve" /\ next(l).leaves = {l}
        BY <3>3 DEF About, Idle
      <4> HIDE DEF next
      <4> QED BY <1>0, <2>2, <2>4, <3>1, <3>2, <3>3, <4>2 DEF Effect, Carried, Underway, Reviews
    <3>4. CASE req[p].op # "approve"
      <4>1. req'[p] = Idle
        BY <3>1, <3>4
      <4>2. Idle.op = "none" /\ Idle.leaves = {}
        BY DEF Idle
      <4> QED BY <1>6, <2>2, <2>4, <3>2, <3>4, <4>1, <4>2 DEF Effect, Ended, CoverTx, At, Underway
    <3> QED BY <3>3, <3>4
  <2> QED BY <2>1, <2>3, <2>4
<1>7. CASE ClearTx(p)
  <2> DEFINE pc == IF req[p].op = "reject" THEN "readTx" ELSE "dropCover"
             r == [req[p] EXCEPT !.pc = pc]
  <2>1. PICK l \in req[p].leaves :
           /\ ForgetRows(p, LeaveEmp[l], LeaveDays(l), r)
           /\ torn' = IF req[p].op = "reject" THEN torn \cup {l} ELSE torn
    BY <1>7 DEF ClearTx
  <2>2. leave' = leave /\ entitled' = entitled /\ usage' = usage
    BY <1>7 DEF ClearTx
  <2>3. pc \in {"readTx", "dropCover"} /\ pc \in Pcs /\ (req[p].op = "reject" => pc = "readTx")
        /\ req[p].op \in {"reject", "assign"} /\ req[p].pc = "clear"
    BY <1>0, <1>7, PlacesOf DEF Pcs, ClearTx, At
  <2> HIDE DEF pc
  <2>4. r.pc = pc /\ r.op = req[p].op /\ r.leaves = req[p].leaves
    BY <1>0, <2>3, PcField
  <2> HIDE DEF r
  <2>5. req'[p] = r
    BY <2>1, ForgetEffect
  <2> QED BY <1>0, <2>1, <2>2, <2>3, <2>4, <2>5 DEF Effect, Carried, Underway, Reviews
<1>8. CASE RestoreTx(p)
  <2>1. PICK l \in req[p].leaves :
           /\ ForgetRows(p, LeaveEmp[l], LeaveDays(l), Idle)
           /\ leave' = [leave EXCEPT ![l].cover = Nobody]
    BY <1>8 DEF RestoreTx
  <2>2. req'[p] = Idle /\ Idle.op = "none" /\ Idle.leaves = {}
    BY <2>1, ForgetEffect DEF Idle
  <2>3. \A k \in Leave : leave'[k].status = leave[k].status
    BY <2>1 DEF LedgerInv, TypeOK
  <2> QED BY <1>8, <2>2, <2>3 DEF Effect, RestoreTx, Ended, At, Underway
<1>9. CASE DropCover(p)
  <2>1. PICK l \in req[p].leaves : leave' = [leave EXCEPT ![l].cover = Nobody]
    BY <1>9 DEF DropCover
  <2>2. \A k \in Leave : leave'[k].status = leave[k].status
    BY <2>1 DEF LedgerInv, TypeOK
  <2> QED BY <1>9, <2>2, ReturnEffect DEF Effect, DropCover, Ended, At, Underway
<1>10. CASE LookTx(p)
  <2> DEFINE r == [req[p] EXCEPT !.pc = "book"]
  <2>1. PICK l \in req[p].leaves : Update(p, Onward(l, req[p].op, "status")) \/ Update(p, r)
    BY <1>10 DEF LookTx, Proceed, Goto, Onward
  <2>2. /\ leave' = leave /\ entitled' = entitled /\ usage' = usage /\ torn' = torn
    BY <1>10 DEF LookTx, tables
  <2>3. r.pc = "book" /\ r.op = req[p].op /\ r.leaves = req[p].leaves
    BY <1>0, PcField DEF Pcs
  <2> HIDE DEF r
  <2>4. CASE Update(p, Onward(l, req[p].op, "status"))
    <3>1. l \in Leave /\ req[p].leaves = {l}
      BY <1>0
    <3>2. req'[p].op = req[p].op /\ req'[p].pc = "status" /\ req'[p].leaves = {l}
      BY <2>4, <3>1, OnwardEffect
    <3> QED BY <2>2, <3>1, <3>2 DEF Effect, Carried, Underway
  <2>5. CASE Update(p, r)
    BY <2>2, <2>3, <2>5, UpdateEffect DEF Effect, Carried, Underway
  <2> QED BY <2>1, <2>4, <2>5
<1>11. CASE ReadTx(p)
  <2> DEFINE r(a, n) == [req[p] EXCEPT !.pc = "unbook", !.row = bal[a], !.txs = {n}]
  <2>1. PICK l \in req[p].leaves, a \in req[p].accts :
           \/ Update(p, Onward(l, req[p].op, "status"))
           \/ \E n : Update(p, r(a, n))
    BY <1>11 DEF ReadTx, Proceed, Onward
  <2>2. /\ leave' = leave /\ entitled' = entitled /\ usage' = usage /\ torn' = torn
    BY <1>11 DEF ReadTx, tables
  <2>3. \A n : r(a, n).pc = "unbook" /\ r(a, n).op = req[p].op /\ r(a, n).leaves = req[p].leaves
    BY <1>0, ZenonT(30) DEF ReqType
  <2> HIDE DEF r
  <2>4. CASE Update(p, Onward(l, req[p].op, "status"))
    <3>1. l \in Leave /\ req[p].leaves = {l}
      BY <1>0
    <3>2. req'[p].op = req[p].op /\ req'[p].pc = "status" /\ req'[p].leaves = {l}
      BY <2>4, <3>1, OnwardEffect
    <3> QED BY <2>2, <3>1, <3>2 DEF Effect, Carried, Underway
  <2>5. CASE \E n : Update(p, r(a, n))
    BY <2>2, <2>3, <2>5, UpdateEffect DEF Effect, Carried, Underway
  <2> QED BY <2>1, <2>4, <2>5
<1>12. CASE Book(p)
  <2>1. PICK l \in req[p].leaves : Update(p, Onward(l, req[p].op, "status"))
    BY <1>12 DEF Book, Proceed, Onward
  <2>2. leave' = leave /\ entitled' = entitled /\ torn' = torn /\ req[p].op \in Reviews
    BY <1>0, <1>12, PlacesOf DEF Book, At, Reviews
  <2>5. \A k \in Leave : usage'[k] = usage[k] \/ k \in req[p].leaves
    BY <1>0, <1>12 DEF Book, LedgerInv, TypeOK
  <2>3. l \in Leave /\ req[p].leaves = {l}
    BY <1>0
  <2>4. req'[p].op = req[p].op /\ req'[p].pc = "status" /\ req'[p].leaves = {l}
    BY <2>1, <2>3, OnwardEffect
  <2> QED BY <2>2, <2>3, <2>4, <2>5 DEF Effect, Carried, Underway
<1>13. CASE Unbook(p)
  <2>1. leave' = leave /\ entitled' = entitled /\ torn' = torn /\ req[p].op = "reject"
        /\ req[p].op \in Reviews
    BY <1>0, <1>13, PlacesOf DEF Unbook, At, Reviews
  <2>2. PICK l \in req[p].leaves : req[p].txs = {} \/ req'[p] = Onward(l, "reject", "status")
    BY <1>13 DEF Unbook, Onward
  <2>5. \A k \in Leave : usage'[k] = usage[k] \/ k \in req[p].leaves
    BY <1>0, <1>13 DEF Unbook, LedgerInv, TypeOK
  <2>3. req'[p] = Onward(l, "reject", "status")
    BY <1>13, <2>2, Shape DEF Unbook, At, Holds
  <2> QED
    <3>1. /\ Onward(l, "reject", "status").op = "reject" /\ Onward(l, "reject", "status").pc = "status"
          /\ Onward(l, "reject", "status").leaves = {l}
      BY DEF Onward, About, Idle
    <3> QED BY <1>0, <2>1, <2>3, <2>5, <3>1 DEF Effect, Carried, Underway
<1> QED BY <1>1, <1>2, <1>3, <1>4, <1>5, <1>6, <1>7, <1>8, <1>9, <1>10, <1>11, <1>12, <1>13 DEF RunStep

LEMMA FailEffect ==
    ASSUME LedgerInv, NEW p \in Proc, Fail(p)
    PROVE  Effect(p)
BY ReturnEffect DEF Fail, Effect, Ended, tables

\* One request at a time, and no request reviewed again after its rejection.
Serial ==
    /\ \A p, q \in Proc : p = q
    /\ Reviewable \subseteq {"SUBMITTED", "APPROVED"}

\* A review is of a live request; a submission about to be inserted found no
\* live request that overlaps it.
OverlapInv ==
    /\ NoOverlap
    /\ \A p \in Proc : \A l \in req[p].leaves :
          /\ req[p].op \in Reviews => Live(leave[l].status)
          /\ req[p].pc = "insert" =>
                \A k \in Leave : LeaveEmp[k] = LeaveEmp[l] /\ Live(leave[k].status) => ~ Overlaps(k, l)

\* Two stretches of days are disjoint exactly if the query finds no overlap.
LEMMA OverlapsMeansShared ==
    ASSUME NEW k \in Leave, NEW l \in Leave
    PROVE  Overlaps(k, l) <=> LeaveDays(k) \cap LeaveDays(l) # {}
<1> DEFINE a == FirstDay[k]
           b == LastDay[k]
           c == FirstDay[l]
           d == LastDay[l]
<1>1. a \in Nat /\ b \in Nat /\ c \in Nat /\ d \in Nat /\ a <= b /\ c <= d
  BY LeaveAssumption, DayAssumption DEF Day
<1>2. LeaveDays(k) = a .. b /\ LeaveDays(l) = c .. d /\ (Overlaps(k, l) <=> a <= d /\ b >= c)
  BY DEF LeaveDays, Overlaps
<1> HIDE DEF a, b, c, d
<1>3. CASE Overlaps(k, l)
  <2>1. CASE a <= c
    BY <1>1, <1>2, <1>3, <2>1
  <2>2. CASE c <= a
    BY <1>1, <1>2, <1>3, <2>2
  <2> QED BY <1>1, <2>1, <2>2
<1>4. CASE ~ Overlaps(k, l)
  BY <1>1, <1>2, <1>4
<1> QED BY <1>3, <1>4

LEMMA OverlapEffect ==
    ASSUME Serial, LedgerInv, OverlapInv, NEW p \in Proc, Effect(p), LedgerInv'
    PROVE  OverlapInv'
<1>1. \A l \in Leave : leave'[l].status = leave[l].status
  BY DEF Effect
<1>2. NoOverlap'
  BY <1>1 DEF OverlapInv, NoOverlap
<1>3. /\ req[p] \in ReqType /\ req'[p] \in ReqType /\ WellFormed(req'[p])
      /\ req[p].leaves \subseteq Leave /\ req'[p].leaves \subseteq Leave
  <2>1. req[p] \in ReqType /\ req'[p] \in ReqType /\ WellFormed(req'[p])
    BY DEF LedgerInv, TypeOK, Shapes
  <2> QED BY <2>1 DEF ReqType
<1>4. ASSUME NEW l \in req'[p].leaves
      PROVE  /\ req'[p].op \in Reviews => Live(leave[l].status)
             /\ req'[p].pc = "insert" =>
                  \A k \in Leave : LeaveEmp[k] = LeaveEmp[l] /\ Live(leave[k].status) => ~ Overlaps(k, l)
  <2>1. CASE Ended(p)
    BY <1>4, <2>1 DEF Ended
  <2>2. CASE Carried(p)
    <3>1. l \in req[p].leaves /\ req'[p].op = req[p].op
      BY <2>2 DEF Carried
    <3>2. req'[p].op \in Reviews => Live(leave[l].status)
      BY <3>1 DEF OverlapInv
    <3>3. ASSUME req'[p].pc = "insert"
          PROVE  \A k \in Leave : LeaveEmp[k] = LeaveEmp[l] /\ Live(leave[k].status) => ~ Overlaps(k, l)
      <4>1. CheckOverlap(p)
        BY <2>2, <3>3 DEF Carried
      <4>2. req[p].leaves = {l} /\ ~ Return(p)
        BY <2>2, <3>1, <3>3, Shape, ReturnEffect DEF Idle, Carried
      <4> QED BY <4>1, <4>2 DEF CheckOverlap
    <3> QED BY <3>2, <3>3
  <2>3. CASE Started(p)
    BY <2>3 DEF Started, Serial, Live
  <2> QED BY <2>1, <2>2, <2>3 DEF Effect
<1>5. ASSUME NEW q \in Proc, NEW l \in req'[q].leaves
      PROVE  /\ req'[q].op \in Reviews => Live(leave'[l].status)
             /\ req'[q].pc = "insert" =>
                  \A k \in Leave : LeaveEmp[k] = LeaveEmp[l] /\ Live(leave'[k].status) => ~ Overlaps(k, l)
  <2>1. q = p
    BY DEF Serial
  <2> QED BY <1>1, <1>3, <1>4, <2>1
<1> QED BY <1>2, <1>5 DEF OverlapInv, Overlaps

LEMMA OverlapInsert ==
    ASSUME Serial, LedgerInv, OverlapInv, NEW p \in Proc, InsertLeave(p)
    PROVE  OverlapInv'
<1>1. PICK l \in req[p].leaves : leave' = [leave EXCEPT ![l].status = "SUBMITTED"]
  BY DEF InsertLeave
<1>2. l \in Leave /\ req[p].pc = "insert" /\ req'[p].leaves = {}
  BY Shape, ReturnEffect DEF InsertLeave, At
<1>3. leave'[l].status = "SUBMITTED" /\ \A k \in Leave : k # l => leave'[k].status = leave[k].status
  BY <1>1, <1>2 DEF LedgerInv, TypeOK
<1>4. \A k \in Leave : LeaveEmp[k] = LeaveEmp[l] /\ Live(leave[k].status) => ~ Overlaps(k, l)
  BY <1>2 DEF OverlapInv
<1>5. ASSUME NEW j \in Leave, NEW k \in Leave, j # k, LeaveEmp[j] = LeaveEmp[k],
             Live(leave'[j].status), Live(leave'[k].status)
      PROVE  LeaveDays(j) \cap LeaveDays(k) = {}
  <2>1. CASE j = l
    BY <1>2, <1>3, <1>4, <1>5, <2>1, OverlapsMeansShared
  <2>2. CASE k = l
    BY <1>2, <1>3, <1>4, <1>5, <2>2, OverlapsMeansShared
  <2>3. CASE j # l /\ k # l
    BY <1>3, <1>5, <2>3 DEF OverlapInv, NoOverlap
  <2> QED BY <2>1, <2>2, <2>3
<1>6. \A q \in Proc : req'[q].leaves = {}
  BY <1>2 DEF Serial
<1> QED BY <1>5, <1>6 DEF OverlapInv, NoOverlap

LEMMA OverlapStatus ==
    ASSUME Serial, LedgerInv, OverlapInv, NEW p \in Proc, WriteStatus(p)
    PROVE  OverlapInv'
<1>1. PICK l \in req[p].leaves :
          leave' = IF req[p].op = "approve"
                   THEN [leave EXCEPT ![l].status = "APPROVED"]
                   ELSE [leave EXCEPT ![l] = [status |-> "REJECTED", cover |-> Nobody]]
  BY DEF WriteStatus
<1>2. l \in Leave /\ req[p].op \in Reviews /\ req'[p].leaves = {}
  BY Shape, PlacesOf, ReturnEffect DEF WriteStatus, At, Reviews
<1>3. Live(leave[l].status)
  BY <1>2 DEF OverlapInv
<1>4. \A k \in Leave : Live(leave'[k].status) => Live(leave[k].status)
  <2>1. \A k \in Leave : k # l => leave'[k] = leave[k]
    BY <1>1 DEF LedgerInv, TypeOK
  <2> QED BY <1>3, <2>1
<1>5. \A q \in Proc : req'[q].leaves = {}
  BY <1>2 DEF Serial
<1> QED BY <1>4, <1>5 DEF OverlapInv, NoOverlap

LEMMA StepEffect ==
    ASSUME LedgerInv, NEW p \in Proc, StartStep(p) \/ RunStep(p) \/ Fail(p)
    PROVE  Effect(p) \/ InsertLeave(p) \/ WriteStatus(p)
BY StartEffect, RunEffect, FailEffect

LEMMA OverlapInvariant == ASSUME Serial PROVE Spec => []OverlapInv
<1>1. Init => OverlapInv
  <2> SUFFICES ASSUME Init PROVE OverlapInv
    OBVIOUS
  <2>1. /\ \A l \in Leave : leave[l].status = "NONE"
        /\ \A p \in Proc : req[p].leaves = {}
    BY DEF Init, Idle
  <2> QED BY <2>1 DEF OverlapInv, NoOverlap, Live
<1>2. LedgerInv /\ LedgerInv' /\ OverlapInv /\ [Next]_vars => OverlapInv'
  <2> SUFFICES ASSUME LedgerInv, LedgerInv', OverlapInv, [Next]_vars PROVE OverlapInv'
    OBVIOUS
  <2>1. ASSUME NEW p \in Proc, StartStep(p) \/ RunStep(p) \/ Fail(p) PROVE OverlapInv'
    BY <2>1, StepEffect, OverlapEffect, OverlapInsert, OverlapStatus
  <2>2. ASSUME NEW n \in Entitlements, SetEntitlement(n) PROVE OverlapInv'
    BY <2>2 DEF SetEntitlement, OverlapInv, NoOverlap
  <2>3. CASE UNCHANGED vars
    BY <2>3 DEF vars, OverlapInv, NoOverlap
  <2> QED BY <2>1, <2>2, <2>3 DEF Next
<1>3. OneReviewPerBalance
  BY DEF Serial, OneReviewPerBalance
<1> QED BY <1>1, <1>2, <1>3, LedgerInvariant, PTL DEF Spec

\* submitLeave: with one request at a time, two live requests of an employee never
\* share a day, through submissions, reviews and cover changes abandoned at any
\* statement.
THEOREM LeavesNeverOverlap == ASSUME Serial PROVE Spec => []NoOverlap
<1>1. OverlapInv => NoOverlap
  BY DEF OverlapInv
<1> QED BY <1>1, OverlapInvariant, PTL

-----------------------------------------------------------------------------
(* One request at a time: the entitlement.                                 *)

\* No request is abandoned, the entitlement is not lowered meanwhile, and every
\* leave lies in the current year, the only one whose balance submitLeave looks at.
WithinTheYear ==
    /\ Failures = FALSE /\ "entitle" \notin Ops
    /\ \A l \in Leave : \A d \in LeaveDays(l) : YearOf(d) = ThisYear

\* What a balance owes to the requests that are live, and to those still booked.
Committed(a) == {l \in Leave : AccountOf(l) = a /\ (Live(leave[l].status) \/ usage[l] # {})}

\* What a submission read of the balance still holds where it is compared, and
\* once it was compared there is room for it.
Room(p) ==
    /\ req[p].op = "submit" /\ req[p].pc \in {"sync", "syncWrite", "pending"} =>
          \A l \in req[p].leaves : req[p].accts = {<<LeaveEmp[l], ThisYear>>}
    /\ req[p].pc = "syncWrite" =>
          \A a \in req[p].accts : req[p].row = bal[a] /\ req[p].ent = entitled
    /\ req[p].pc = "pending" =>
          \A a \in req[p].accts : req[p].row.used = bal[a].used /\ req[p].ent = entitled
    /\ req[p].pc \in {"overlap", "insert"} =>
          \A l \in req[p].leaves : Amount[l] + TotalOf(Committed(AccountOf(l))) <= entitled

BudgetInv ==
    /\ \A a \in Account : TotalOf(Committed(a)) <= entitled
    /\ \A l \in torn : \E p \in Proc : /\ req[p].op \in Reviews /\ req[p].pc \in Underway
                                       /\ l \in req[p].leaves
    /\ \A p \in Proc : Room(p)

LEMMA TotalBounds ==
    ASSUME NEW ls \in SUBSET Leave, NEW ks \in SUBSET Leave
    PROVE  /\ TotalOf(ls) \in Nat /\ TotalOf(ks) \in Nat /\ TotalOf(ls \cup ks) \in Nat
           /\ TotalOf(ls) <= TotalOf(ls \cup ks)
           /\ TotalOf(ls \cup ks) <= TotalOf(ls) + TotalOf(ks)
<1>1. IsFiniteSet(ls) /\ IsFiniteSet(ks)
  BY LeaveAssumption, FS_Subset
<1>2. \A k \in ls \cup ks : Amount[k] \in Nat
  BY LeaveAssumption
<1> QED BY <1>1, <1>2, SumBounds, TotalIs

LEMMA TotalOfPart ==
    ASSUME NEW ls \in SUBSET Leave, NEW ks \in SUBSET ls
    PROVE  TotalOf(ks) \in Nat /\ TotalOf(ls) \in Nat /\ TotalOf(ks) <= TotalOf(ls)
<1>1. ks \cup ls = ls /\ ks \in SUBSET Leave
  OBVIOUS
<1> QED BY <1>1, TotalBounds

LEMMA AccountThisYear ==
    ASSUME WithinTheYear, NEW l \in Leave
    PROVE  AccountOf(l) = <<LeaveEmp[l], ThisYear>>
<1>1. FirstDay[l] \in LeaveDays(l)
  BY LeaveAssumption, DayAssumption DEF LeaveDays, Day
<1> QED BY <1>1 DEF WithinTheYear, AccountOf

\* Between reviews the live requests are the submitted and the booked ones.
LEMMA CommittedIsSeen ==
    ASSUME WithinTheYear, LedgerInv, torn = {}, NEW l \in Leave
    PROVE  Committed(AccountOf(l)) \subseteq BookedOn(AccountOf(l)) \cup PendingOf(LeaveEmp[l])
<1> SUFFICES ASSUME NEW k \in Committed(AccountOf(l)), k \notin BookedOn(AccountOf(l))
             PROVE  k \in PendingOf(LeaveEmp[l])
  OBVIOUS
<1>1. k \in Leave /\ AccountOf(k) = AccountOf(l) /\ Live(leave[k].status) /\ usage[k] = {}
  BY DEF Committed, BookedOn
<1>2. leave[k].status = "SUBMITTED"
  BY <1>1 DEF LedgerInv, ApprovedIsBooked, Live
<1>3. LeaveEmp[k] = LeaveEmp[l]
  BY <1>1 DEF AccountOf
<1>4. FirstDay[k] \in LeaveDays(k)
  BY <1>1, LeaveAssumption, DayAssumption DEF LeaveDays, Day
<1>5. YearOf(FirstDay[k]) = ThisYear
  BY <1>1, <1>4 DEF WithinTheYear
<1> QED BY <1>1, <1>2, <1>3, <1>4, <1>5 DEF PendingOf

\* There is room for a request that passed the check of the balance.
LEMMA CheckedHasRoom ==
    ASSUME Serial, WithinTheYear, LedgerInv, BudgetInv, NEW p \in Proc, CheckBalance(p),
           req'[p].op # "none", NEW l \in req[p].leaves
    PROVE  Amount[l] + TotalOf(Committed(AccountOf(l))) <= entitled
<1> DEFINE a == AccountOf(l)
<1>1. /\ l \in Leave /\ req[p].leaves = {l} /\ req[p].op = "submit" /\ req[p].pc = "pending"
      /\ req[p].row \in BalRow
  BY Shape, PlacesOf DEF CheckBalance, At, ReqType
<1>2. req[p].accts = {a} /\ a \in Account
  BY <1>1, AccountThisYear, AccountsAreAccounts DEF BudgetInv, Room
<1>3. req[p].row.used = bal[a].used /\ req[p].ent = entitled
  BY <1>1, <1>2 DEF BudgetInv, Room
<1>4. ~ Return(p)
  BY ReturnEffect
<1>5. ~ (Amount[l] + req[p].row.used + TotalOf(PendingOf(LeaveEmp[l])) > req[p].ent)
  BY <1>1, <1>4 DEF CheckBalance
<1>6. torn = {}
  BY <1>1 DEF BudgetInv, Serial, Reviews
<1>7. bal[a].used = TotalOf(BookedOn(a))
  BY <1>2 DEF LedgerInv, UsageIsExact, BookedOn
<1>8. /\ BookedOn(a) \in SUBSET Leave /\ PendingOf(LeaveEmp[l]) \in SUBSET Leave
      /\ Committed(a) \in SUBSET (BookedOn(a) \cup PendingOf(LeaveEmp[l]))
  BY <1>1, <1>6, CommittedIsSeen DEF BookedOn, PendingOf
<1> DEFINE booked == TotalOf(BookedOn(a))
           pending == TotalOf(PendingOf(LeaveEmp[l]))
           both == TotalOf(BookedOn(a) \cup PendingOf(LeaveEmp[l]))
           all == TotalOf(Committed(a))
<1>9. booked \in Nat /\ pending \in Nat /\ both \in Nat /\ both <= booked + pending
  BY <1>8, TotalBounds
<1>10. all \in Nat /\ all <= both
  BY <1>8, TotalOfPart
<1>11. Amount[l] \in Nat /\ entitled \in Nat
  BY <1>1, LeaveAssumption, EntitlementsAreNat DEF LedgerInv
<1>12. Amount[l] + booked + pending <= entitled
  <2> HIDE DEF booked, pending
  <2>1. ~ (Amount[l] + booked + pending > entitled)
    BY <1>3, <1>5, <1>7 DEF booked, pending
  <2> QED BY <1>9, <1>11, <2>1
<1> HIDE DEF booked, pending, both, all
<1>13. Amount[l] + all <= entitled
  BY <1>9, <1>10, <1>11, <1>12
<1> QED BY <1>13 DEF all

LEMMA CommittedKept ==
    ASSUME LedgerInv, OverlapInv, NEW p \in Proc, Effect(p)
    PROVE  \A a : Committed(a)' = Committed(a)
<1>1. ASSUME NEW l \in Leave, usage'[l] # usage[l] PROVE Live(leave[l].status)
  BY <1>1 DEF Effect, OverlapInv
<1>2. \A l \in Leave : leave'[l].status = leave[l].status
  BY DEF Effect
<1>3. ASSUME NEW l \in Leave
      PROVE  (Live(leave'[l].status) \/ usage'[l] # {}) <=> (Live(leave[l].status) \/ usage[l] # {})
  BY <1>1, <1>2
<1> QED BY <1>3 DEF Committed

LEMMA BudgetEffect ==
    ASSUME Serial, WithinTheYear, LedgerInv, LedgerInv', OverlapInv, BudgetInv,
           NEW p \in Proc, Effect(p)
    PROVE  BudgetInv'
<1>0. entitled' = entitled /\ \A q \in Proc : q = p
  BY DEF Effect, Serial
<1>1. \A a \in Account : TotalOf(Committed(a)') <= entitled'
  BY <1>0, CommittedKept DEF BudgetInv
<1>2. Room(p) /\ (torn # {} => req[p].op \in Reviews /\ req[p].pc \in Underway /\ torn \subseteq req[p].leaves)
  BY <1>0 DEF BudgetInv
<1>3. /\ req[p] \in ReqType /\ WellFormed(req[p]) /\ req'[p] \in ReqType /\ WellFormed(req'[p])
  BY DEF LedgerInv, TypeOK, Shapes
<1>4. ~ (SyncWrite(p) /\ Return(p) /\ req[p].op \in Reviews)
  <2> SUFFICES ASSUME SyncWrite(p), Return(p), req[p].op \in Reviews PROVE FALSE
    OBVIOUS
  <2>1. req[p].pc = "syncWrite" /\ req[p].op = "approve"
    BY <1>3, PlacesOf DEF SyncWrite, At, Reviews
  <2>2. \A a \in req[p].accts : ~ (bal[a].on /\ ~ req[p].row.on)
    BY <1>2, <2>1 DEF Room
  <2>3. AfterSync(req[p].op) = "lookTx"
    BY <2>1 DEF AfterSync
  <2>4. PICK a \in req[p].accts :
           Update(p, [req[p] EXCEPT !.pc = AfterSync(req[p].op),
                                    !.row = Synced(bal[a], req[p].row, req[p].ent)])
    BY <2>2, <2>3 DEF SyncWrite
  <2> DEFINE row == Synced(bal[a], req[p].row, req[p].ent)
             pc == AfterSync(req[p].op)
             r == [req[p] EXCEPT !.pc = pc, !.row = row]
  <2>5. Update(p, r)
    BY <2>4
  <2> HIDE DEF row, pc
  <2>6. r.op = req[p].op
    BY <1>3, ZenonT(30) DEF ReqType
  <2> HIDE DEF r
  <2>7. req'[p].op = "approve"
    BY <2>1, <2>5, <2>6, UpdateEffect
  <2> QED BY <2>7, ReturnEffect
<1>5. ASSUME NEW l \in torn' PROVE req'[p].op \in Reviews /\ req'[p].pc \in Underway /\ l \in req'[p].leaves
  <2>1. CASE Ended(p)
    <3>1. torn' = torn \/ (req[p].op \in Reviews /\ req'[p].pc \in Underway)
      BY DEF Effect
    <3>2. req'[p].pc \notin Underway
      BY <1>3, <2>1 DEF Ended, WellFormed, Path, Underway
    <3>3. torn # {}
      BY <1>5, <3>1, <3>2
    <3>4. ~ Fail(p)
      BY DEF Fail, WithinTheYear
    <3> QED BY <1>2, <1>4, <2>1, <3>3, <3>4 DEF Ended
  <2>2. CASE Carried(p)
    <3>1. CASE torn' = torn
      BY <1>2, <1>5, <2>2, <3>1 DEF Carried
    <3>2. CASE /\ req[p].op \in Reviews /\ req'[p].pc \in Underway
               /\ torn' = torn \cup req[p].leaves
      BY <1>2, <1>5, <2>2, <3>2 DEF Carried
    <3> QED BY <3>1, <3>2 DEF Effect
  <2>3. CASE Started(p) /\ torn' = torn
    <3>1. req[p].op \notin Reviews
      BY <2>3 DEF Started, Reviews
    <3> QED BY <1>2, <1>5, <2>3, <3>1
  <2> QED BY <2>1, <2>2, <2>3 DEF Effect
<1>6. Room(p)'
  <2>1. CASE Ended(p)
    <3>1. req'[p].pc = "idle"
      BY <1>3, <2>1 DEF Ended, WellFormed, Path
    <3> QED BY <3>1 DEF Room
  <2>2. CASE Started(p)
    BY <2>2 DEF Started, Room
  <2>3. CASE Carried(p)
    <3>1. CASE req'[p].pc = "syncWrite"
      <4>1. SyncRead(p)
        BY <2>3, <3>1 DEF Carried
      <4>2. PICK a \in req[p].accts :
               Update(p, [req[p] EXCEPT !.pc = "syncWrite", !.ent = entitled, !.row = bal[a]])
        BY <4>1 DEF SyncRead
      <4> DEFINE r == [req[p] EXCEPT !.pc = "syncWrite", !.ent = entitled, !.row = bal[a]]
      <4>3. /\ r.op = req[p].op /\ r.leaves = req[p].leaves /\ r.accts = req[p].accts
            /\ r.ent = entitled /\ r.row = bal[a]
        BY <1>3, ZenonT(30) DEF ReqType
      <4> HIDE DEF r
      <4>4. req'[p] = r
        BY <4>2, UpdateEffect DEF r
      <4>5. req[p].pc = "sync" /\ bal' = bal /\ req[p].op # "none"
        BY <1>3, <4>1, PlacesOf DEF SyncRead, At, tables
      <4>6. req[p].accts = {a}
        BY <4>5, Shape
      <4> QED BY <1>0, <1>2, <3>1, <4>3, <4>4, <4>5, <4>6 DEF Room
    <3>2. CASE req'[p].pc = "pending"
      <4>1. SyncWrite(p) /\ ~ Return(p)
        BY <2>3, <3>2, ReturnEffect DEF Carried, Idle
      <4> DEFINE row(a) == Synced(bal[a], req[p].row, req[p].ent)
                 pc == AfterSync(req[p].op)
                 r(a) == [req[p] EXCEPT !.pc = pc, !.row = row(a)]
      <4>2. PICK a \in req[p].accts : bal' = [bal EXCEPT ![a] = row(a)] /\ Update(p, r(a))
        BY <4>1 DEF SyncWrite
      <4>3. /\ req[p].pc = "syncWrite" /\ req[p].op # "none" /\ a \in Account /\ req[p].accts = {a}
        BY <1>3, <4>1, Shape, PlacesOf DEF SyncWrite, At
      <4>4. bal'[a] = row(a)
        BY <4>2, <4>3 DEF LedgerInv, TypeOK
      <4> HIDE DEF row, pc
      <4>5. /\ r(a).op = req[p].op /\ r(a).leaves = req[p].leaves /\ r(a).accts = req[p].accts
            /\ r(a).ent = req[p].ent /\ r(a).row = row(a)
        BY <1>3, ZenonT(30) DEF ReqType
      <4> HIDE DEF r
      <4>6. req'[p] = r(a)
        BY <4>2, UpdateEffect
      <4> QED BY <1>0, <1>2, <3>2, <4>3, <4>4, <4>5, <4>6 DEF Room
    <3>3. CASE req'[p].pc \in {"overlap", "insert"}
      <4>1. req[p].leaves = req'[p].leaves /\ req'[p].op = req[p].op /\ req'[p].op # "none"
        BY <1>3, <2>3, <3>3, PlacesOf DEF Carried
      <4>2. ASSUME NEW l \in req[p].leaves
            PROVE  Amount[l] + TotalOf(Committed(AccountOf(l))) <= entitled
        <5>1. CASE req'[p].pc = "overlap"
          <6>1. CheckBalance(p)
            BY <2>3, <5>1 DEF Carried
          <6> QED BY <4>1, <4>2, <6>1, CheckedHasRoom
        <5>2. CASE req'[p].pc = "insert"
          <6>1. req[p].pc = "overlap"
            BY <2>3, <5>2 DEF Carried, CheckOverlap, At
          <6> QED BY <1>2, <4>2, <6>1 DEF Room
        <5> QED BY <3>3, <5>1, <5>2
      <4>3. ASSUME NEW l \in req'[p].leaves
            PROVE  Amount[l] + TotalOf(Committed(AccountOf(l))') <= entitled'
        BY <1>0, <4>1, <4>2, <4>3, CommittedKept
      <4> QED BY <3>3, <4>3 DEF Room
    <3>4. CASE req'[p].pc \notin {"syncWrite", "pending", "overlap", "insert"}
      <4>1. req'[p].op = "submit" => req'[p].pc # "sync"
        BY <2>3 DEF Carried
      <4> QED BY <3>4, <4>1 DEF Room
    <3> QED BY <3>1, <3>2, <3>3, <3>4
  <2> QED BY <2>1, <2>2, <2>3 DEF Effect
<1>7. \A q \in Proc : Room(q)'
  BY <1>0, <1>6
<1>8. \A l \in torn' : \E q \in Proc : /\ req'[q].op \in Reviews /\ req'[q].pc \in Underway
                                       /\ l \in req'[q].leaves
  BY <1>5
<1> QED BY <1>1, <1>7, <1>8 DEF BudgetInv

LEMMA BudgetInsert ==
    ASSUME Serial, LedgerInv, BudgetInv, NEW p \in Proc, InsertLeave(p)
    PROVE  BudgetInv'
<1>1. PICK l \in req[p].leaves : leave' = [leave EXCEPT ![l].status = "SUBMITTED"]
  BY DEF InsertLeave
<1>2. /\ l \in Leave /\ req[p].pc = "insert" /\ req[p].op = "submit"
      /\ req'[p] = Idle /\ usage' = usage /\ entitled' = entitled /\ torn' = torn
      /\ \A q \in Proc : q = p
  BY Shape, PlacesOf, ReturnEffect DEF InsertLeave, At, Serial
<1>3. leave'[l].status = "SUBMITTED" /\ \A k \in Leave : k # l => leave'[k].status = leave[k].status
  BY <1>1, <1>2 DEF LedgerInv, TypeOK
<1>4. Amount[l] + TotalOf(Committed(AccountOf(l))) <= entitled
  BY <1>2 DEF BudgetInv, Room
<1>5. ASSUME NEW a \in Account PROVE TotalOf(Committed(a)') <= entitled'
  <2>1. CASE a = AccountOf(l)
    <3>1. Committed(a)' = Committed(a) \cup {l}
      BY <1>2, <1>3, <2>1 DEF Committed, Live
    <3>2. Committed(a) \in SUBSET Leave /\ {l} \in SUBSET Leave
      BY <1>2 DEF Committed
    <3>3. /\ TotalOf(Committed(a) \cup {l}) <= TotalOf(Committed(a)) + TotalOf({l})
          /\ TotalOf(Committed(a)) \in Nat /\ TotalOf(Committed(a) \cup {l}) \in Nat
      BY <3>2, TotalBounds
    <3>4. TotalOf({l}) = Amount[l] /\ Amount[l] \in Nat
      <4>1. TotalOf({l}) = Amount[l] + TotalOf({l} \ {l}) /\ Amount[l] \in Nat
        BY <3>2, TotalGrows
      <4>2. TotalOf({l} \ {l}) = 0
        <5>1. {l} \ {l} = {}
          OBVIOUS
        <5> QED BY <5>1, TotalIs, SumEmpty
      <4> QED BY <4>1, <4>2
    <3>5. entitled \in Nat
      BY EntitlementsAreNat DEF LedgerInv
    <3>6. TotalOf(Committed(a) \cup {l}) <= entitled
      BY <1>4, <2>1, <3>3, <3>4, <3>5
    <3> QED BY <1>2, <3>1, <3>6
  <2>2. CASE a # AccountOf(l)
    <3>1. Committed(a)' = Committed(a)
      BY <1>2, <1>3, <2>2 DEF Committed
    <3> QED BY <1>2, <3>1 DEF BudgetInv
  <2> QED BY <2>1, <2>2
<1>6. torn' = {}
  BY <1>2 DEF BudgetInv, Reviews
<1>7. \A q \in Proc : Room(q)'
  BY <1>2 DEF Room, Idle
<1> QED BY <1>5, <1>6, <1>7 DEF BudgetInv

LEMMA BudgetStatus ==
    ASSUME Serial, LedgerInv, OverlapInv, BudgetInv, NEW p \in Proc, WriteStatus(p)
    PROVE  BudgetInv'
<1>1. PICK l \in req[p].leaves :
         /\ leave' = IF req[p].op = "approve"
                     THEN [leave EXCEPT ![l].status = "APPROVED"]
                     ELSE [leave EXCEPT ![l] = [status |-> "REJECTED", cover |-> Nobody]]
         /\ torn' = torn \ {l}
  BY DEF WriteStatus
<1>2. /\ l \in Leave /\ req[p].leaves = {l} /\ req[p].op \in Reviews
      /\ req'[p] = Idle /\ usage' = usage /\ entitled' = entitled
      /\ \A q \in Proc : q = p
  BY Shape, PlacesOf, ReturnEffect DEF WriteStatus, At, Reviews, Serial
<1>3. Live(leave[l].status)
  BY <1>2 DEF OverlapInv
<1>4. \A k \in Leave : Live(leave'[k].status) => Live(leave[k].status)
  <2>1. \A k \in Leave : k # l => leave'[k] = leave[k]
    BY <1>1 DEF LedgerInv, TypeOK
  <2> QED BY <1>3, <2>1
<1>5. ASSUME NEW a \in Account PROVE TotalOf(Committed(a)') <= entitled'
  <2> DEFINE now == TotalOf(Committed(a)')
             before == TotalOf(Committed(a))
  <2>1. Committed(a)' \in SUBSET Committed(a) /\ Committed(a) \in SUBSET Leave
    BY <1>2, <1>4 DEF Committed
  <2>2. now \in Nat /\ before \in Nat /\ now <= before
    BY <2>1, TotalOfPart
  <2>3. before <= entitled
    BY DEF BudgetInv
  <2>4. entitled \in Nat
    BY EntitlementsAreNat DEF LedgerInv
  <2> HIDE DEF now, before
  <2>5. now <= entitled
    BY <2>2, <2>3, <2>4
  <2> QED BY <1>2, <2>5 DEF now
<1>6. torn' = {}
  BY <1>1, <1>2 DEF BudgetInv
<1>7. \A q \in Proc : Room(q)'
  BY <1>2 DEF Room, Idle
<1> QED BY <1>5, <1>6, <1>7 DEF BudgetInv

LEMMA BudgetStart == ASSUME Init PROVE BudgetInv
<1>1. /\ torn = {} /\ entitled \in Nat
      /\ \A l \in Leave : leave[l].status = "NONE" /\ usage[l] = {}
      /\ \A p \in Proc : req[p].pc = "idle"
  BY InstanceAssumption DEF Init, Idle
<1>2. ASSUME NEW a \in Account PROVE TotalOf(Committed(a)) <= entitled
  <2>1. Committed(a) = {}
    BY <1>1 DEF Committed, Live
  <2>2. TotalOf({}) = 0
    BY TotalIs, SumEmpty
  <2> QED BY <1>1, <2>1, <2>2
<1> QED BY <1>1, <1>2 DEF BudgetInv, Room

LEMMA BudgetMeansRoom == ASSUME LedgerInv, BudgetInv PROVE NeverOverdrawn
<1> SUFFICES ASSUME NEW a \in Account PROVE bal[a].used <= entitled
  BY DEF NeverOverdrawn
<1>1. bal[a].used = TotalOf(BookedOn(a))
  BY DEF LedgerInv, UsageIsExact, BookedOn
<1>2. BookedOn(a) \in SUBSET Committed(a) /\ Committed(a) \in SUBSET Leave
  BY DEF BookedOn, Committed
<1>3. /\ TotalOf(BookedOn(a)) \in Nat /\ TotalOf(Committed(a)) \in Nat
      /\ TotalOf(BookedOn(a)) <= TotalOf(Committed(a))
  BY <1>2, TotalOfPart
<1>4. TotalOf(Committed(a)) <= entitled /\ entitled \in Nat
  BY EntitlementsAreNat DEF BudgetInv, LedgerInv
<1> QED BY <1>1, <1>3, <1>4

\* submitLeave: with one request at a time, none of them abandoned, and every
\* leave within the current year, what is booked on a balance never exceeds the
\* entitlement, although approving never looks at it: the check made at submission
\* counts what is booked and what is pending, and that is all that can be booked.
THEOREM NothingIsOverdrawn == ASSUME Serial, WithinTheYear PROVE Spec => []NeverOverdrawn
<1> DEFINE SerialInv == OverlapInv /\ BudgetInv
<1>1. Init => SerialInv
  <2> SUFFICES ASSUME Init PROVE OverlapInv
    BY BudgetStart
  <2>1. /\ \A l \in Leave : leave[l].status = "NONE"
        /\ \A p \in Proc : req[p].leaves = {}
    BY DEF Init, Idle
  <2> QED BY <2>1 DEF OverlapInv, NoOverlap, Live
<1>2. LedgerInv /\ LedgerInv' /\ SerialInv /\ [Next]_vars => SerialInv'
  <2> SUFFICES ASSUME LedgerInv, LedgerInv', OverlapInv, BudgetInv, [Next]_vars
               PROVE  OverlapInv' /\ BudgetInv'
    OBVIOUS
  <2>1. ASSUME NEW p \in Proc, StartStep(p) \/ RunStep(p) \/ Fail(p)
        PROVE  OverlapInv' /\ BudgetInv'
    <3>1. CASE Effect(p)
      BY <3>1, OverlapEffect, BudgetEffect
    <3>2. CASE InsertLeave(p)
      BY <3>2, OverlapInsert, BudgetInsert
    <3>3. CASE WriteStatus(p)
      BY <3>3, OverlapStatus, BudgetStatus
    <3> QED BY <2>1, <3>1, <3>2, <3>3, StepEffect
  <2>2. ASSUME NEW n \in Entitlements, SetEntitlement(n) PROVE FALSE
    BY <2>2 DEF SetEntitlement, WithinTheYear
  <2>3. CASE UNCHANGED vars
    <3>1. OverlapInv'
      BY <2>3 DEF vars, OverlapInv, NoOverlap
    <3>2. \A a : Committed(a)' = Committed(a)
      BY <2>3 DEF vars, Committed
    <3>3. entitled' = entitled /\ torn' = torn /\ req' = req /\ bal' = bal
      BY <2>3 DEF vars
    <3>4. BudgetInv'
      BY <3>2, <3>3 DEF BudgetInv, Room
    <3> QED BY <3>1, <3>4
  <2> QED BY <2>1, <2>2, <2>3 DEF Next
<1>3. OneReviewPerBalance
  BY DEF Serial, OneReviewPerBalance
<1>4. LedgerInv /\ SerialInv => NeverOverdrawn
  BY BudgetMeansRoom
<1> HIDE DEF SerialInv
<1> QED BY <1>1, <1>2, <1>3, <1>4, LedgerInvariant, PTL DEF Spec


-----------------------------------------------------------------------------
(* The schedule: a row that covers nobody is as planned.                   *)

\* Nobody can be asked to cover two colleagues on one day.
OneAbsentee ==
    \A k, l \in Leave : LeaveDays(k) \cap LeaveDays(l) # {} /\ Covers[k] \cap Covers[l] # {}
                           => LeaveEmp[k] = LeaveEmp[l]

\* A row shows what was planned, or keeps it in its notes.
AsPlanned(row, plan) ==
    IF row.covers = Nobody THEN Duty(row) = PlannedRow(plan)
    ELSE Duty(Restored(row)) = PlannedRow(plan)

\* Some leave of e may put the employee of x in e's place that day.
Asked(x, e) == \E l \in Leave : LeaveEmp[l] = e /\ x[1] \in Covers[l] /\ x[2] \in LeaveDays(l)

\* Of a schedule: it can be brought back to the plan.
Restorable(rows) ==
    \A x \in Slot : /\ AsPlanned(rows[x], planned[x])
                    /\ rows[x].covers # Nobody => Asked(x, rows[x].covers)

LEMMA PlannedRowIs ==
    ASSUME NEW plan
    PROVE  /\ PlannedRow(plan).note = NoNote /\ PlannedRow(plan).covers = Nobody
           /\ PlannedRow(plan).onLeave = FALSE
           /\ PlannedRow(plan).on \/ PlannedRow(plan) = NoRow
BY DEF PlannedRow, NoRow

LEMMA RestoredCovers == ASSUME NEW row PROVE Restored(row).covers = Nobody
BY DEF Restored, NoRow

\* A row marked as leave or not; a row moved to cover e.
Flagged(row) == [row EXCEPT !.onLeave = TRUE]
Unflagged(row) == [row EXCEPT !.onLeave = FALSE]
Moved(row, e, s) == [on |-> TRUE, rest |-> FALSE, onLeave |-> FALSE, covers |-> e,
                     shift |-> s, note |-> Snapshot(row)]

LEMMA FlagFields ==
    ASSUME NEW row \in Row
    PROVE  /\ Flagged(row) \in Row
           /\ Flagged(row).on = row.on /\ Flagged(row).shift = row.shift
           /\ Flagged(row).rest = row.rest /\ Flagged(row).covers = row.covers
           /\ Flagged(row).note = row.note /\ Flagged(row).onLeave
<1>1. Flagged(row) \in Row
  BY FlagTyped DEF Flagged
<1> QED BY <1>1 DEF Row, Flagged

LEMMA UnflagFields ==
    ASSUME NEW row \in Row
    PROVE  /\ Unflagged(row) \in Row
           /\ Unflagged(row).on = row.on /\ Unflagged(row).shift = row.shift
           /\ Unflagged(row).rest = row.rest /\ Unflagged(row).covers = row.covers
           /\ Unflagged(row).note = row.note /\ ~ Unflagged(row).onLeave
<1>1. Unflagged(row) \in Row
  BY FlagTyped DEF Unflagged
<1> QED BY <1>1 DEF Row, Unflagged

LEMMA MovedFields ==
    ASSUME NEW row, NEW e, NEW s
    PROVE  /\ Moved(row, e, s).on /\ ~ Moved(row, e, s).rest /\ ~ Moved(row, e, s).onLeave
           /\ Moved(row, e, s).shift = s /\ Moved(row, e, s).covers = e
           /\ Moved(row, e, s).note = Snapshot(row)
BY DEF Moved

LEMMA SameRow ==
    ASSUME NEW a \in Row, NEW b \in Row, a.on = b.on, a.shift = b.shift, a.rest = b.rest,
           a.onLeave = b.onLeave, a.covers = b.covers, a.note = b.note
    PROVE  a = b
BY DEF Row

LEMMA DutyIs ==
    ASSUME NEW row \in Row
    PROVE  /\ Duty(row) = [on |-> row.on, shift |-> row.shift, rest |-> row.rest,
                           onLeave |-> FALSE, covers |-> row.covers, note |-> row.note]
           /\ Duty(row).on = row.on /\ Duty(row).shift = row.shift /\ Duty(row).rest = row.rest
           /\ Duty(row).covers = row.covers /\ Duty(row).note = row.note
<1> DEFINE idle == Unflagged(row)
           same == [on |-> row.on, shift |-> row.shift, rest |-> row.rest,
                    onLeave |-> FALSE, covers |-> row.covers, note |-> row.note]
<1>1. idle \in Row /\ same \in Row
  <2>1. same \in Row
    BY DEF Row
  <2> QED BY <2>1, UnflagFields
<1>2. /\ idle.on = same.on /\ idle.shift = same.shift /\ idle.rest = same.rest
      /\ idle.covers = same.covers /\ idle.note = same.note /\ idle.onLeave = same.onLeave
  <2>1. idle.onLeave = FALSE /\ same.onLeave = FALSE
    BY UnflagFields, <1>1 DEF Row
  <2> QED BY <2>1, UnflagFields
<1>3. same.on = row.on /\ same.shift = row.shift /\ same.rest = row.rest
      /\ same.covers = row.covers /\ same.note = row.note
  OBVIOUS
<1>4. Duty(row) = idle
  BY DEF Duty, Unflagged
<1> HIDE DEF idle, same
<1>5. idle = same
  BY <1>1, <1>2, SameRow
<1>6. Duty(row) = same
  BY <1>4, <1>5
<1> QED BY <1>3, <1>6 DEF same

LEMMA DutyOfDuty ==
    ASSUME NEW row \in Row, row.onLeave = FALSE
    PROVE  Duty(row) = row
<1>1. Duty(row) = [on |-> row.on, shift |-> row.shift, rest |-> row.rest,
                   onLeave |-> FALSE, covers |-> row.covers, note |-> row.note]
  BY DutyIs
<1>2. row = [on |-> row.on, shift |-> row.shift, rest |-> row.rest,
             onLeave |-> row.onLeave, covers |-> row.covers, note |-> row.note]
  BY DEF Row
<1> QED BY <1>1, <1>2

LEMMA RestoredAsPlanned ==
    ASSUME NEW row \in Row, NEW plan, row.covers # Nobody, AsPlanned(row, plan)
    PROVE  AsPlanned(Restored(row), plan)
BY RestoredCovers DEF AsPlanned

LEMMA FlaggedAsPlanned ==
    ASSUME NEW row \in Row, NEW plan, AsPlanned(row, plan),
           NEW flagged \in {Flagged(row), Unflagged(row)}
    PROVE  AsPlanned(flagged, plan)
<1>1. /\ flagged.on = row.on /\ flagged.shift = row.shift /\ flagged.rest = row.rest
      /\ flagged.covers = row.covers /\ flagged.note = row.note /\ flagged \in Row
  BY FlagFields, UnflagFields
<1>2. Duty(flagged) = Duty(row)
  BY <1>1, DutyIs, ZenonT(30)
<1>3. Restored(flagged) = Restored(row)
  BY <1>1 DEF Restored
<1> QED BY <1>1, <1>2, <1>3 DEF AsPlanned

\* encodeCoverNotes: the snapshot of a row that covers nobody brings the plan back.
LEMMA MovedAsPlanned ==
    ASSUME NEW row \in Row, NEW plan, NEW e \in Employee, NEW s \in Shift,
           row.covers = Nobody, AsPlanned(row, plan)
    PROVE  AsPlanned(Moved(row, e, s), plan)
<1> DEFINE moved == Moved(row, e, s)
<1>1. moved.covers = e /\ moved.note = Snapshot(row)
  BY MovedFields
<1> HIDE DEF moved
<1>2. e # Nobody
  BY EmployeeNames DEF Nobody
<1>3. Duty(row) = PlannedRow(plan)
  BY DEF AsPlanned
<1>4. row.note = NoNote
  <2>1. Duty(row).note = row.note
    BY DutyIs
  <2>2. PlannedRow(plan).note = NoNote
    BY PlannedRowIs
  <2> QED BY <1>3, <2>1, <2>2
<1>5. ASSUME row.on PROVE AsPlanned(moved, plan)
  <2> DEFINE old == [on |-> TRUE, shift |-> row.shift, rest |-> row.rest,
                     onLeave |-> row.onLeave, covers |-> Nobody, note |-> NoNote]
  <2>1. moved.note = [kind |-> "moved", shift |-> row.shift, rest |-> row.rest,
                      onLeave |-> row.onLeave]
    BY <1>1, <1>5 DEF Snapshot
  <2>2. Restored(moved) = old
    BY <2>1 DEF Restored
  <2>3. Duty(old) = [on |-> TRUE, shift |-> row.shift, rest |-> row.rest,
                     onLeave |-> FALSE, covers |-> Nobody, note |-> NoNote]
    <3>1. old \in Row
      BY DEF Row, Note, NoNote
    <3>2. /\ old.on = TRUE /\ old.shift = row.shift /\ old.rest = row.rest
          /\ old.covers = Nobody /\ old.note = NoNote
      OBVIOUS
    <3> HIDE DEF old
    <3> QED BY <3>1, <3>2, DutyIs
  <2>4. row.on = TRUE
    BY <1>5 DEF Row
  <2>5. Duty(old) = Duty(row)
    BY <1>4, <2>3, <2>4, DutyIs
  <2> QED BY <1>1, <1>2, <1>3, <2>2, <2>5 DEF AsPlanned
<1>6. ASSUME ~ row.on PROVE AsPlanned(moved, plan)
  <2>1. moved.note = [NoNote EXCEPT !.kind = "created"]
    BY <1>1, <1>6 DEF Snapshot
  <2>2. moved.note.kind # "moved"
    BY <2>1 DEF NoNote
  <2>3. Restored(moved) = NoRow
    BY <2>2 DEF Restored
  <2>4. PlannedRow(plan) = NoRow
    BY <1>3, <1>6, DutyIs, PlannedRowIs
  <2>5. Duty(NoRow) = NoRow
    <3>1. NoRow \in Row
      BY DEF NoRow, NoNote, Row, Note
    <3> QED BY <3>1, DutyIs DEF NoRow
  <2> QED BY <1>1, <1>2, <2>3, <2>4, <2>5 DEF AsPlanned
<1>7. AsPlanned(moved, plan)
  BY <1>5, <1>6
<1> QED BY <1>7 DEF moved

\* The statements on the schedule, row by row.
LEMMA RestoreRow ==
    ASSUME NEW rows, NEW e, NEW days, NEW x \in Slot
    PROVE  RestoreCovers(rows, e, days)[x] =
              IF rows[x].covers = e /\ x[2] \in days THEN Restored(rows[x]) ELSE rows[x]
BY DEF RestoreCovers, CoverSlots

LEMMA MarkRow ==
    ASSUME NEW rows, NEW e, NEW days, NEW x \in Slot
    PROVE  MarkLeave(rows, e, days)[x] =
              IF x[1] = e /\ x[2] \in days /\ rows[x].on
              THEN Flagged(rows[x]) ELSE rows[x]
BY Zenon DEF MarkLeave, Flagged

LEMMA UnmarkRow ==
    ASSUME NEW rows, NEW e, NEW days, NEW x \in Slot
    PROVE  UnmarkLeave(rows, e, days)[x] =
              IF x[1] = e /\ x[2] \in days THEN Unflagged(rows[x]) ELSE rows[x]
BY Zenon DEF UnmarkLeave, Unflagged

\* A flag changes nothing but itself.
LEMMA MarkFields ==
    ASSUME NEW rows \in Rows, NEW e, NEW days, NEW x \in Slot
    PROVE  LET old == rows[x]
               new == MarkLeave(rows, e, days)[x]
           IN /\ new.on = old.on /\ new.shift = old.shift /\ new.rest = old.rest
              /\ new.covers = old.covers /\ new.note = old.note
              /\ x[1] = e /\ x[2] \in days /\ old.on => new.onLeave
              /\ ~ (x[1] = e /\ x[2] \in days /\ old.on) => new = old
<1>1. rows[x] \in Row
  BY DEF Rows
<1>3. CASE x[1] = e /\ x[2] \in days /\ rows[x].on
  <2>1. MarkLeave(rows, e, days)[x] = Flagged(rows[x])
    BY <1>3, MarkRow
  <2> QED BY <1>1, <1>3, <2>1, FlagFields
<1>4. CASE ~ (x[1] = e /\ x[2] \in days /\ rows[x].on)
  <2>1. MarkLeave(rows, e, days)[x] = rows[x]
    BY <1>4, MarkRow
  <2> QED BY <1>4, <2>1
<1> QED BY <1>3, <1>4

LEMMA UnmarkFields ==
    ASSUME NEW rows \in Rows, NEW e, NEW days, NEW x \in Slot
    PROVE  LET old == rows[x]
               new == UnmarkLeave(rows, e, days)[x]
           IN /\ new.on = old.on /\ new.shift = old.shift /\ new.rest = old.rest
              /\ new.covers = old.covers /\ new.note = old.note
              /\ ~ (x[1] = e /\ x[2] \in days) => new = old
<1>1. rows[x] \in Row
  BY DEF Rows
<1>2. CASE x[1] = e /\ x[2] \in days
  <2>1. UnmarkLeave(rows, e, days)[x] = Unflagged(rows[x])
    BY <1>2, UnmarkRow
  <2> QED BY <1>1, <1>2, <2>1, UnflagFields
<1>3. CASE ~ (x[1] = e /\ x[2] \in days)
  <2>1. UnmarkLeave(rows, e, days)[x] = rows[x]
    BY <1>3, UnmarkRow
  <2> QED BY <1>3, <2>1
<1> QED BY <1>2, <1>3

LEMMA RestoreRestorable ==
    ASSUME NEW rows \in Rows, Restorable(rows), NEW e \in Employee, NEW days
    PROVE  /\ Restorable(RestoreCovers(rows, e, days))
           /\ \A x \in Slot : x[2] \in days => RestoreCovers(rows, e, days)[x].covers # e
<1>0. e # Nobody
  BY EmployeeNames DEF Nobody
<1> DEFINE new == RestoreCovers(rows, e, days)
<1>1. ASSUME NEW x \in Slot
      PROVE  /\ AsPlanned(new[x], planned[x])
             /\ new[x].covers # Nobody => Asked(x, new[x].covers)
             /\ x[2] \in days => new[x].covers # e
  <2>1. rows[x] \in Row /\ AsPlanned(rows[x], planned[x])
        /\ (rows[x].covers # Nobody => Asked(x, rows[x].covers))
    BY DEF Rows, Restorable
  <2>2. CASE rows[x].covers = e /\ x[2] \in days
    <3>1. new[x] = Restored(rows[x])
      BY <2>2, RestoreRow
    <3> HIDE DEF new
    <3> QED BY <1>0, <2>1, <2>2, <3>1, RestoredAsPlanned, RestoredCovers
  <2>3. CASE ~ (rows[x].covers = e /\ x[2] \in days)
    <3>1. new[x] = rows[x]
      BY <2>3, RestoreRow
    <3> HIDE DEF new
    <3> QED BY <2>1, <2>3, <3>1
  <2> QED BY <2>2, <2>3
<1> QED BY <1>1 DEF Restorable

LEMMA MarkRestorable ==
    ASSUME NEW rows \in Rows, Restorable(rows), NEW e, NEW days
    PROVE  Restorable(MarkLeave(rows, e, days))
<1> DEFINE new == MarkLeave(rows, e, days)
<1>1. ASSUME NEW x \in Slot
      PROVE  AsPlanned(new[x], planned[x]) /\ (new[x].covers # Nobody => Asked(x, new[x].covers))
  <2>1. rows[x] \in Row /\ AsPlanned(rows[x], planned[x])
        /\ (rows[x].covers # Nobody => Asked(x, rows[x].covers))
    BY DEF Rows, Restorable
  <2>2. new[x].covers = rows[x].covers
    BY MarkFields
  <2>3. new[x] = rows[x] \/ new[x] = Flagged(rows[x])
    BY MarkRow
  <2> HIDE DEF new
  <2>4. AsPlanned(Flagged(rows[x]), planned[x])
    BY <2>1, FlaggedAsPlanned
  <2> QED BY <2>1, <2>2, <2>3, <2>4, Zenon
<1> QED BY <1>1 DEF Restorable

LEMMA UnmarkRestorable ==
    ASSUME NEW rows \in Rows, Restorable(rows), NEW e, NEW days
    PROVE  Restorable(UnmarkLeave(rows, e, days))
<1> DEFINE new == UnmarkLeave(rows, e, days)
<1>1. ASSUME NEW x \in Slot
      PROVE  AsPlanned(new[x], planned[x]) /\ (new[x].covers # Nobody => Asked(x, new[x].covers))
  <2>1. rows[x] \in Row /\ AsPlanned(rows[x], planned[x])
        /\ (rows[x].covers # Nobody => Asked(x, rows[x].covers))
    BY DEF Rows, Restorable
  <2>2. new[x].covers = rows[x].covers
    BY UnmarkFields
  <2>3. new[x] = rows[x] \/ new[x] = Unflagged(rows[x])
    BY UnmarkRow
  <2> HIDE DEF new
  <2>4. AsPlanned(Unflagged(rows[x]), planned[x])
    BY <2>1, FlaggedAsPlanned
  <2> QED BY <2>1, <2>2, <2>3, <2>4, Zenon
<1> QED BY <1>1 DEF Restorable

\* What the cover is moved to is a shift that was read for that day.
LEMMA MoveRow ==
    ASSUME NEW rows, NEW c, NEW e, NEW src \in SUBSET (Day \X Shift), NEW x \in Slot
    PROVE  /\ x[1] = c /\ x[2] \in DaysOf(src) =>
                \E s \in src : /\ s[1] = x[2] /\ s[2] \in Shift
                               /\ MoveCover(rows, c, e, src)[x] = Moved(rows[x], e, s[2])
           /\ ~ (x[1] = c /\ x[2] \in DaysOf(src)) => MoveCover(rows, c, e, src)[x] = rows[x]
<1>1. CASE x[1] = c /\ x[2] \in DaysOf(src)
  <2> DEFINE t == CHOOSE s \in src : s[1] = x[2]
  <2>1. \E s \in src : s[1] = x[2]
    BY <1>1 DEF DaysOf
  <2>2. t \in src /\ t[1] = x[2]
    BY <2>1
  <2>3. MoveCover(rows, c, e, src)[x] = Moved(rows[x], e, t[2])
    BY <1>1, Zenon DEF MoveCover, Moved
  <2> HIDE DEF t
  <2>4. t[2] \in Shift
    BY <2>2
  <2> QED BY <1>1, <2>2, <2>3, <2>4
<1>2. CASE ~ (x[1] = c /\ x[2] \in DaysOf(src))
  BY <1>2 DEF MoveCover
<1> QED BY <1>1, <1>2

LEMMA MoveRestorable ==
    ASSUME OneAbsentee, NEW rows \in Rows, Restorable(rows), NEW l \in Leave,
           NEW c \in Covers[l], NEW src \in SUBSET (Day \X Shift), DaysOf(src) \subseteq LeaveDays(l),
           \A x \in Slot : x[2] \in LeaveDays(l) => rows[x].covers # LeaveEmp[l]
    PROVE  Restorable(MoveCover(rows, c, LeaveEmp[l], src))
<1> DEFINE e == LeaveEmp[l]
           new == MoveCover(rows, c, e, src)
<1>0. e \in Employee /\ e # Nobody
  BY AccountsAreAccounts, EmployeeNames DEF Nobody
<1>1. ASSUME NEW x \in Slot
      PROVE  AsPlanned(new[x], planned[x]) /\ (new[x].covers # Nobody => Asked(x, new[x].covers))
  <2>1. rows[x] \in Row /\ AsPlanned(rows[x], planned[x])
        /\ (rows[x].covers # Nobody => Asked(x, rows[x].covers))
    BY DEF Rows, Restorable
  <2>2. CASE x[1] = c /\ x[2] \in DaysOf(src)
    <3>1. PICK s \in src : s[2] \in Shift /\ new[x] = Moved(rows[x], e, s[2])
      BY <2>2, MoveRow
    <3> HIDE DEF new, e
    <3>2. rows[x].covers = Nobody
      <4> SUFFICES ASSUME rows[x].covers # Nobody PROVE FALSE
        OBVIOUS
      <4>1. PICK k \in Leave : LeaveEmp[k] = rows[x].covers /\ x[1] \in Covers[k] /\ x[2] \in LeaveDays(k)
        BY <2>1 DEF Asked
      <4>2. x[2] \in LeaveDays(l) /\ x[1] \in Covers[l]
        BY <2>2
      <4>3. LeaveEmp[k] = LeaveEmp[l]
        BY <4>1, <4>2 DEF OneAbsentee
      <4> QED BY <4>1, <4>2, <4>3
    <3>3. AsPlanned(new[x], planned[x])
      BY <1>0, <2>1, <3>1, <3>2, MovedAsPlanned
    <3>4. new[x].covers = e
      BY <3>1, MovedFields
    <3>5. Asked(x, e)
      BY <2>2 DEF Asked, e
    <3> QED BY <3>3, <3>4, <3>5
  <2>3. CASE ~ (x[1] = c /\ x[2] \in DaysOf(src))
    <3>1. new[x] = rows[x]
      BY <2>3, MoveRow
    <3> HIDE DEF new
    <3> QED BY <2>1, <3>1
  <2> QED BY <2>2, <2>3
<1> QED BY <1>1 DEF Restorable

\* Every request but p's keeps what it knows of the schedule.
OthersAlike(p) ==
    \A q \in Proc \ {p} :
        /\ req'[q].pc = req[q].pc /\ req'[q].leaves = req[q].leaves
        /\ req'[q].covers = req[q].covers /\ req'[q].src = req[q].src

LEMMA UpdateAlike ==
    ASSUME LedgerInv, NEW p \in Proc, NEW r, Update(p, r)
    PROVE  req'[p] = r /\ OthersAlike(p)
BY DEF LedgerInv, TypeOK, Update, OthersAlike

LEMMA ReturnAlike ==
    ASSUME LedgerInv, NEW p \in Proc, Return(p)
    PROVE  OthersAlike(p) /\ req'[p] = Idle /\ req'[p].pc = "idle" /\ req'[p].leaves = {}
<1>1. OthersAlike(p) /\ req'[p] = Idle
  BY UpdateAlike DEF Return
<1> QED BY <1>1 DEF Idle

LEMMA AliveAlike ==
    ASSUME NEW r \in ReqType, NEW days
    PROVE  LET s == [r EXCEPT !.alive = days]
           IN s.pc = r.pc /\ s.leaves = r.leaves /\ s.covers = r.covers /\ s.src = r.src
BY ZenonT(30) DEF ReqType

LEMMA TxsAlike ==
    ASSUME NEW r \in ReqType, NEW txs
    PROVE  LET s == [r EXCEPT !.txs = txs]
           IN s.pc = r.pc /\ s.leaves = r.leaves /\ s.covers = r.covers /\ s.src = r.src
BY ZenonT(30) DEF ReqType

LEMMA ForgetAlike ==
    ASSUME LedgerInv, NEW p \in Proc, NEW r, NEW e, NEW days, ForgetRows(p, e, days, r)
    PROVE  req'[p] = r /\ OthersAlike(p)
<1> DEFINE deleted == {x \in CoverSlots(asg, e, days) : asg[x].note.kind # "moved"}
           lost(q) == {d \in Day : \E l \in req[q].leaves : <<LeaveEmp[l], d>> \in deleted}
           kept(q) == req[q].alive \ lost(q)
<1>1. req' = [q \in Proc |-> IF q = p THEN r ELSE [req[q] EXCEPT !.alive = kept(q)]]
  BY DEF ForgetRows
<1> HIDE DEF kept
<1>2. ASSUME NEW q \in Proc \ {p}
      PROVE  /\ req'[q].pc = req[q].pc /\ req'[q].leaves = req[q].leaves
             /\ req'[q].covers = req[q].covers /\ req'[q].src = req[q].src
  <2>1. req'[q] = [req[q] EXCEPT !.alive = kept(q)]
    BY <1>1
  <2>2. req[q] \in ReqType
    BY DEF LedgerInv, TypeOK
  <2> QED BY <2>1, <2>2, AliveAlike
<1>3. req'[p] = r
  BY <1>1
<1> QED BY <1>2, <1>3 DEF OthersAlike

\* The statements on balances, and those that only look.
LedgerStep(p) ==
    \/ SyncRead(p) \/ SyncWrite(p) \/ CheckBalance(p) \/ CheckOverlap(p)
    \/ LookTx(p) \/ Book(p) \/ ReadTx(p) \/ Unbook(p)

LedgerPcs == {"sync", "syncWrite", "pending", "overlap", "lookTx", "book", "readTx", "unbook"}

LEMMA OnwardPc ==
    ASSUME LedgerInv, NEW p \in Proc, NEW l \in Leave, NEW op, NEW pc, Update(p, Onward(l, op, pc))
    PROVE  OthersAlike(p) /\ req'[p].pc = pc
BY OnwardEffect, UpdateAlike

LEMMA LedgerSteps ==
    ASSUME LedgerInv, NEW p \in Proc, LedgerStep(p)
    PROVE  /\ UNCHANGED <<leave, asg, planned>> /\ OthersAlike(p)
           /\ req[p].pc \in LedgerPcs
           /\ req'[p].pc \in LedgerPcs \cup {"idle", "insert", "status"}
<1>0. /\ req[p] \in ReqType /\ WellFormed(req[p])
      /\ \A l \in req[p].leaves : l \in Leave /\ req[p].leaves = {l}
  BY Shape
<1>r. Return(p) => OthersAlike(p) /\ req'[p].pc = "idle"
  BY ReturnAlike
<1>1. CASE SyncRead(p)
  <2>1. PICK a \in req[p].accts :
            Update(p, [req[p] EXCEPT !.pc = "syncWrite", !.ent = entitled, !.row = bal[a]])
    BY <1>1 DEF SyncRead
  <2> DEFINE r == [req[p] EXCEPT !.pc = "syncWrite", !.ent = entitled, !.row = bal[a]]
  <2>2. r.pc = "syncWrite"
    BY <1>0, ZenonT(30) DEF ReqType
  <2>3. Update(p, r)
    BY <2>1
  <2> HIDE DEF r
  <2>4. req'[p] = r /\ OthersAlike(p)
    BY <2>3, UpdateAlike
  <2> QED BY <1>1, <2>2, <2>4 DEF SyncRead, tables, At, LedgerPcs
<1>2. CASE SyncWrite(p)
  <2> DEFINE next == AfterSync(req[p].op)
             row(a) == Synced(bal[a], req[p].row, req[p].ent)
             r(a) == [req[p] EXCEPT !.pc = next, !.row = row(a)]
  <2>1. PICK a \in req[p].accts : Return(p) \/ Update(p, r(a))
    BY <1>2 DEF SyncWrite
  <2>2. req[p].op \in {"list", "submit", "approve"}
    BY <1>0, <1>2, PlacesOf DEF SyncWrite, At
  <2>3. next \in {"pending", "lookTx", "idle"}
    BY <2>2 DEF AfterSync
  <2> HIDE DEF next, row
  <2>4. r(a).pc = next
    BY <1>0, ZenonT(30) DEF ReqType
  <2> HIDE DEF r
  <2>5. Update(p, r(a)) => OthersAlike(p) /\ req'[p] = r(a)
    BY UpdateAlike
  <2>6. OthersAlike(p) /\ req'[p].pc \in LedgerPcs \cup {"idle"}
    BY <1>r, <2>1, <2>3, <2>4, <2>5 DEF LedgerPcs
  <2> QED BY <1>2, <2>6 DEF SyncWrite, At, LedgerPcs
<1>3. CASE CheckBalance(p)
  <2>1. PICK l \in req[p].leaves : Return(p) \/ Update(p, Onward(l, req[p].op, "overlap"))
    BY <1>3 DEF CheckBalance, Proceed, Onward
  <2>2. OthersAlike(p) /\ req'[p].pc \in {"idle", "overlap"}
    BY <1>0, <1>r, <2>1, OnwardPc
  <2> QED BY <1>3, <2>2 DEF CheckBalance, At, LedgerPcs, tables
<1>4. CASE CheckOverlap(p)
  <2> DEFINE r == [req[p] EXCEPT !.pc = "insert"]
  <2>1. Return(p) \/ Update(p, r)
    BY <1>4 DEF CheckOverlap, Goto
  <2>2. r.pc = "insert"
    BY <1>0, PcField DEF Pcs
  <2> HIDE DEF r
  <2>3. OthersAlike(p) /\ req'[p].pc \in {"idle", "insert"}
    BY <1>r, <2>1, <2>2, UpdateAlike
  <2> QED BY <1>4, <2>3 DEF CheckOverlap, At, LedgerPcs, tables
<1>5. CASE LookTx(p)
  <2> DEFINE r == [req[p] EXCEPT !.pc = "book"]
  <2>1. PICK l \in req[p].leaves : Update(p, Onward(l, req[p].op, "status")) \/ Update(p, r)
    BY <1>5 DEF LookTx, Proceed, Goto, Onward
  <2>2. r.pc = "book"
    BY <1>0, PcField DEF Pcs
  <2> HIDE DEF r
  <2>3. OthersAlike(p) /\ req'[p].pc \in {"book", "status"}
    BY <1>0, <2>1, <2>2, UpdateAlike, OnwardPc
  <2> QED BY <1>5, <2>3 DEF LookTx, At, LedgerPcs, tables
<1>6. CASE Book(p)
  <2>1. PICK l \in req[p].leaves : Update(p, Onward(l, req[p].op, "status"))
    BY <1>6 DEF Book, Proceed, Onward
  <2>2. OthersAlike(p) /\ req'[p].pc = "status"
    BY <1>0, <2>1, OnwardPc
  <2> QED BY <1>6, <2>2 DEF Book, At, LedgerPcs
<1>7. CASE ReadTx(p)
  <2> DEFINE r(a, n) == [req[p] EXCEPT !.pc = "unbook", !.row = bal[a], !.txs = {n}]
  <2>1. PICK l \in req[p].leaves, a \in req[p].accts :
           \/ Update(p, Onward(l, req[p].op, "status"))
           \/ \E n : Update(p, r(a, n))
    BY <1>7 DEF ReadTx, Proceed, Onward
  <2>2. \A n : r(a, n).pc = "unbook"
    BY <1>0, ZenonT(30) DEF ReqType
  <2> HIDE DEF r
  <2>3. OthersAlike(p) /\ req'[p].pc \in {"unbook", "status"}
    BY <1>0, <2>1, <2>2, UpdateAlike, OnwardPc
  <2> QED BY <1>7, <2>3 DEF ReadTx, At, LedgerPcs, tables
<1>8. CASE Unbook(p)
  <2> DEFINE without(q) == [req[q] EXCEPT !.txs = req[q].txs \ req[p].txs]
             next(l) == [q \in Proc |-> IF q = p THEN Onward(l, "reject", "status")
                                       ELSE IF l \in req[q].leaves THEN without(q) ELSE req[q]]
  <2>1. PICK l \in req[p].leaves : Return(p) \/ req' = next(l)
    BY <1>8 DEF Unbook, Onward
  <2>2. ASSUME NEW q \in Proc
        PROVE  /\ without(q).pc = req[q].pc /\ without(q).leaves = req[q].leaves
               /\ without(q).covers = req[q].covers /\ without(q).src = req[q].src
    <3>1. req[q] \in ReqType
      BY DEF LedgerInv, TypeOK
    <3> QED BY <3>1, TxsAlike
  <2> HIDE DEF without
  <2>4. ASSUME req' = next(l) PROVE OthersAlike(p) /\ req'[p].pc = "status"
    <3>1. req'[p] = Onward(l, "reject", "status")
      BY <2>4
    <3>2. Onward(l, "reject", "status").pc = "status"
      BY DEF Onward, About, Idle
    <3>3. ASSUME NEW q \in Proc \ {p}
          PROVE  /\ req'[q].pc = req[q].pc /\ req'[q].leaves = req[q].leaves
                 /\ req'[q].covers = req[q].covers /\ req'[q].src = req[q].src
      <4>1. req'[q] = req[q] \/ req'[q] = without(q)
        BY <2>4
      <4> QED BY <2>2, <4>1
    <3>4. OthersAlike(p)
      BY <3>3 DEF OthersAlike
    <3> QED BY <3>1, <3>2, <3>4
  <2> HIDE DEF next
  <2>3. OthersAlike(p) /\ req'[p].pc \in {"idle", "status"}
    BY <1>r, <2>1, <2>4
  <2> QED BY <1>8, <2>3 DEF Unbook, At, LedgerPcs
<1> QED BY <1>1, <1>2, <1>3, <1>4, <1>5, <1>6, <1>7, <1>8 DEF LedgerStep

\* A request names covers the leave may have, and read shifts of the leave's days.
Named(r) ==
    /\ r.pc \in {"source", "coverTx"} => \A l \in r.leaves : r.covers \subseteq Covers[l]
    /\ r.pc = "coverTx" => \A l \in r.leaves : DaysOf(r.src) \subseteq LeaveDays(l)

MayBeCover == \A l \in Leave : leave[l].cover \in Covers[l] \cup {Nobody}

PlanInv ==
    /\ Restorable(asg)
    /\ MayBeCover
    /\ \A p \in Proc : Named(req[p])

LEMMA PlanKept ==
    ASSUME PlanInv, NEW p \in Proc, OthersAlike(p), Named(req'[p]), planned' = planned,
           Restorable(asg'), MayBeCover'
    PROVE  PlanInv'
<1>1. Restorable(asg)'
  BY DEF Restorable
<1>2. ASSUME NEW q \in Proc PROVE Named(req'[q])
  <2>1. CASE q = p
    BY <2>1
  <2>2. CASE q # p
    <3>1. Named(req[q])
      BY DEF PlanInv
    <3>2. /\ req'[q].pc = req[q].pc /\ req'[q].leaves = req[q].leaves
          /\ req'[q].covers = req[q].covers /\ req'[q].src = req[q].src
      BY <2>2 DEF OthersAlike
    <3> QED BY <3>1, <3>2 DEF Named
  <2> QED BY <2>1, <2>2
<1> QED BY <1>1, <1>2 DEF PlanInv

\* A step that changes no row and no cover.
LEMMA PlanUntouched ==
    ASSUME PlanInv, NEW p \in Proc, OthersAlike(p), Named(req'[p]), UNCHANGED <<asg, planned>>,
           \A l \in Leave : leave'[l].cover = leave[l].cover
    PROVE  PlanInv'
BY PlanKept DEF PlanInv, MayBeCover

LEMMA Elsewhere ==
    ASSUME NEW r, r.pc \notin {"source", "coverTx"}
    PROVE  Named(r)
BY DEF Named

LEMMA LeaveRowsAre ==
    ASSUME LedgerInv, NEW l \in Leave, NEW c, leave' = [leave EXCEPT ![l].cover = c]
    PROVE  leave'[l].cover = c /\ \A k \in Leave : k # l => leave'[k] = leave[k]
<1>1. leave \in LeaveRows
  BY DEF LedgerInv, TypeOK, LeaveRows
<1> QED BY <1>1 DEF LeaveRows

LEMMA CoverRowKept ==
    ASSUME LedgerInv, MayBeCover, NEW l \in Leave, NEW c \in Covers[l] \cup {Nobody},
           leave' = [leave EXCEPT ![l].cover = c]
    PROVE  MayBeCover'
BY LeaveRowsAre DEF MayBeCover

LEMMA PlanStart ==
    ASSUME LedgerInv, PlanInv, NEW p \in Proc, StartStep(p)
    PROVE  PlanInv'
<1>1. UNCHANGED <<leave, asg, planned>>
  BY DEF StartStep, ListBalance, SubmitStart, RejectStart, ApproveStart, AssignStart, tables
<1>2. ASSUME NEW r, Update(p, r), Named(r) PROVE PlanInv'
  <2>1. req'[p] = r /\ OthersAlike(p)
    BY <1>2, UpdateAlike
  <2> QED BY <1>1, <1>2, <2>1, PlanUntouched
<1>3. ASSUME NEW e \in Employee, ListBalance(p, e) PROVE PlanInv'
  <2> DEFINE r == [Idle EXCEPT !.pc = "sync", !.accts = {<<e, ThisYear>>}, !.op = "list"]
  <2>1. Update(p, r)
    BY <1>3 DEF ListBalance, Begin
  <2>2. r.pc = "sync"
    BY DEF Idle
  <2> HIDE DEF r
  <2> QED BY <1>2, <2>1, <2>2, Elsewhere
<1>4. ASSUME NEW l \in Leave, SubmitStart(p, l) PROVE PlanInv'
  <2> DEFINE accts == {<<LeaveEmp[l], ThisYear>>}
             r == [About(l) EXCEPT !.pc = "sync", !.accts = accts, !.op = "submit"]
  <2>1. Update(p, r)
    BY <1>4 DEF SubmitStart, Begin
  <2>2. r.pc = "sync"
    BY DEF About, Idle
  <2> HIDE DEF r
  <2> QED BY <1>2, <2>1, <2>2, Elsewhere
<1>5. ASSUME NEW l \in Leave, RejectStart(p, l) PROVE PlanInv'
  <2> DEFINE r == [About(l) EXCEPT !.pc = "clear", !.op = "reject"]
  <2>1. Update(p, r)
    BY <1>5 DEF RejectStart, Begin
  <2>2. r.pc = "clear"
    BY DEF About, Idle
  <2> HIDE DEF r
  <2> QED BY <1>2, <2>1, <2>2, Elsewhere
<1>6. ASSUME NEW l \in Leave, NEW cs \in CoverChoices(l), ApproveStart(p, l, cs) PROVE PlanInv'
  <2> DEFINE given == IF cs # {} THEN cs ELSE {leave[l].cover} \ {Nobody}
             r == [About(l) EXCEPT !.pc = "source", !.covers = given, !.op = "approve"]
  <2>1. Update(p, r)
    BY <1>6 DEF ApproveStart, Begin
  <2>2. given \subseteq Covers[l]
    BY DEF CoverChoices, PlanInv, MayBeCover
  <2> HIDE DEF given
  <2>3. r.pc = "source" /\ r.covers = given /\ r.leaves = {l}
    BY DEF About, Idle
  <2> HIDE DEF r
  <2>4. Named(r)
    BY <2>2, <2>3 DEF Named
  <2> QED BY <1>2, <2>1, <2>4
<1>7. ASSUME NEW l \in Leave, NEW cs \in CoverChoices(l), AssignStart(p, l, cs) PROVE PlanInv'
  <2> DEFINE pc == IF cs # {} THEN "source"
                   ELSE IF leave[l].status = "APPROVED" THEN "restoreTx" ELSE "clear"
             r == [About(l) EXCEPT !.covers = cs, !.pc = pc, !.op = "assign"]
  <2>1. Update(p, r)
    BY <1>7 DEF AssignStart, Begin
  <2>2. cs \subseteq Covers[l] /\ pc \in {"source", "restoreTx", "clear"}
    BY DEF CoverChoices
  <2> HIDE DEF pc
  <2>3. r.pc = pc /\ r.covers = cs /\ r.leaves = {l}
    BY DEF About, Idle
  <2> HIDE DEF r
  <2>4. Named(r)
    BY <2>2, <2>3 DEF Named
  <2> QED BY <1>2, <2>1, <2>4
<1> QED BY <1>3, <1>4, <1>5, <1>6, <1>7 DEF StartStep

LEMMA PlanReadSource ==
    ASSUME LedgerInv, PlanInv, NEW p \in Proc, ReadSource(p)
    PROVE  PlanInv'
<1>0. UNCHANGED <<leave, asg, planned>> /\ req[p] \in ReqType /\ req[p].pc = "source"
      /\ \A l \in req[p].leaves : l \in Leave /\ req[p].leaves = {l}
  BY Shape DEF ReadSource, tables, At
<1> DEFINE src(l) == SourceOf(asg, LeaveEmp[l], LeaveDays(l))
           days(l) == DaysOf(src(l))
           r(l) == [req[p] EXCEPT !.pc = "coverTx", !.src = src(l), !.alive = days(l)]
<1>1. PICK l \in req[p].leaves : Return(p) \/ Update(p, r(l))
  BY DEF ReadSource
<1>2. days(l) \subseteq LeaveDays(l)
  <2>1. ASSUME NEW s \in src(l) PROVE s[1] \in LeaveDays(l)
    <3>1. PICK d \in {k \in LeaveDays(l) : Works(asg[<<LeaveEmp[l], k>>])} :
             s = <<d, asg[<<LeaveEmp[l], d>>].shift>>
      BY <2>1 DEF SourceOf
    <3> QED BY <3>1
  <2> HIDE DEF src
  <2> QED BY <2>1 DEF DaysOf
<1> HIDE DEF src
<1>3. r(l).pc = "coverTx" /\ r(l).leaves = req[p].leaves /\ r(l).covers = req[p].covers
      /\ r(l).src = src(l)
  BY <1>0, ZenonT(30) DEF ReqType
<1> HIDE DEF r
<1>4. CASE Return(p)
  BY <1>0, <1>4, ReturnAlike, Elsewhere, PlanUntouched
<1>5. CASE Update(p, r(l))
  <2>1. req'[p] = r(l) /\ OthersAlike(p)
    BY <1>5, UpdateAlike
  <2>2. \A k \in req[p].leaves : req[p].covers \subseteq Covers[k]
    BY <1>0 DEF PlanInv, Named
  <2>3. \A k \in req[p].leaves : k = l
    BY <1>0
  <2>4. Named(r(l))
    BY <1>2, <1>3, <2>2, <2>3 DEF Named
  <2> QED BY <1>0, <2>1, <2>4, PlanUntouched
<1> QED BY <1>1, <1>4, <1>5

LEMMA PlanCoverTx ==
    ASSUME OneAbsentee, LedgerInv, PlanInv, NEW p \in Proc, CoverTx(p)
    PROVE  PlanInv'
<1> DEFINE next(l) == IF req[p].op = "approve"
                      THEN [About(l) EXCEPT !.op = "approve", !.pc = "sync"] ELSE Idle
           restored(l) == RestoreCovers(asg, LeaveEmp[l], LeaveDays(l))
           marked(l) == MarkLeave(restored(l), LeaveEmp[l], req[p].alive)
<1>1. PICK l \in req[p].leaves :
         \/ /\ asg' = marked(l)
            /\ leave' = [leave EXCEPT ![l].cover = Nobody]
            /\ ForgetRows(p, LeaveEmp[l], LeaveDays(l), next(l))
         \/ \E c \in req[p].covers :
               /\ asg' = MoveCover(marked(l), c, LeaveEmp[l], req[p].src)
               /\ leave' = [leave EXCEPT ![l].cover = c]
               /\ ForgetRows(p, LeaveEmp[l], LeaveDays(l), next(l))
         \/ Return(p) /\ UNCHANGED <<asg, leave>>
  BY DEF CoverTx
<1>2. /\ planned' = planned /\ l \in Leave /\ req[p].pc = "coverTx"
      /\ req[p] \in ReqType /\ req[p].src \in SUBSET (Day \X Shift)
  BY Shape DEF CoverTx, At, ReqType
<1>3. /\ req[p].covers \subseteq Covers[l] /\ DaysOf(req[p].src) \subseteq LeaveDays(l)
      /\ Restorable(asg) /\ MayBeCover
  BY <1>2 DEF PlanInv, Named
<1>4. asg \in Rows /\ LeaveEmp[l] \in Employee
  BY <1>2, AccountsAreAccounts DEF LedgerInv, TypeOK, Rows
<1>5. next(l).pc \in {"sync", "idle"}
  BY DEF About, Idle
<1>6. /\ restored(l) \in Rows /\ Restorable(restored(l))
      /\ \A x \in Slot : x[2] \in LeaveDays(l) => restored(l)[x].covers # LeaveEmp[l]
  BY <1>3, <1>4, RestoreTyped, RestoreRestorable
<1> HIDE DEF restored
<1>7. /\ marked(l) \in Rows /\ Restorable(marked(l))
      /\ \A x \in Slot : x[2] \in LeaveDays(l) => marked(l)[x].covers # LeaveEmp[l]
  BY <1>6, MarkTyped, MarkRestorable, MarkFields
<1> HIDE DEF marked, next
<1>8. ASSUME NEW c \in Covers[l] \cup {Nobody}, Restorable(asg'),
             leave' = [leave EXCEPT ![l].cover = c],
             ForgetRows(p, LeaveEmp[l], LeaveDays(l), next(l))
      PROVE  PlanInv'
  <2>1. req'[p] = next(l) /\ OthersAlike(p)
    BY <1>8, ForgetAlike
  <2>2. Named(req'[p])
    BY <1>5, <2>1, Elsewhere
  <2>3. MayBeCover'
    BY <1>2, <1>3, <1>8, CoverRowKept
  <2> QED BY <1>2, <1>8, <2>1, <2>2, <2>3, PlanKept
<1>9. CASE /\ asg' = marked(l)
           /\ leave' = [leave EXCEPT ![l].cover = Nobody]
           /\ ForgetRows(p, LeaveEmp[l], LeaveDays(l), next(l))
  BY <1>7, <1>8, <1>9
<1>10. ASSUME NEW c \in req[p].covers,
              asg' = MoveCover(marked(l), c, LeaveEmp[l], req[p].src),
              leave' = [leave EXCEPT ![l].cover = c],
              ForgetRows(p, LeaveEmp[l], LeaveDays(l), next(l))
       PROVE  PlanInv'
  <2>1. c \in Covers[l]
    BY <1>3
  <2>2. Restorable(asg')
    BY <1>2, <1>3, <1>7, <1>10, <2>1, MoveRestorable
  <2> QED BY <1>8, <1>10, <2>1, <2>2
<1>11. CASE Return(p) /\ UNCHANGED <<asg, leave>>
  BY <1>2, <1>11, ReturnAlike, Elsewhere, PlanUntouched
<1> QED BY <1>1, <1>9, <1>10, <1>11

LEMMA PlanClearTx ==
    ASSUME LedgerInv, PlanInv, NEW p \in Proc, ClearTx(p)
    PROVE  PlanInv'
<1> DEFINE pc == IF req[p].op = "reject" THEN "readTx" ELSE "dropCover"
           r == [req[p] EXCEPT !.pc = pc]
           restored(l) == RestoreCovers(asg, LeaveEmp[l], LeaveDays(l))
<1>1. PICK l \in req[p].leaves :
         /\ asg' = UnmarkLeave(restored(l), LeaveEmp[l], LeaveDays(l))
         /\ ForgetRows(p, LeaveEmp[l], LeaveDays(l), r)
  BY DEF ClearTx
<1>2. /\ planned' = planned /\ leave' = leave /\ l \in Leave /\ req[p] \in ReqType
      /\ asg \in Rows /\ LeaveEmp[l] \in Employee /\ Restorable(asg) /\ MayBeCover
  BY Shape, AccountsAreAccounts DEF ClearTx, LedgerInv, TypeOK, Rows, PlanInv
<1>3. restored(l) \in Rows /\ Restorable(restored(l))
  BY <1>2, RestoreTyped, RestoreRestorable
<1> HIDE DEF restored
<1>4. Restorable(asg')
  BY <1>1, <1>3, UnmarkRestorable
<1>5. pc \in Pcs /\ pc \notin {"source", "coverTx"}
  BY DEF Pcs
<1> HIDE DEF pc
<1>6. r.pc = pc
  BY <1>2, <1>5, PcField
<1> HIDE DEF r
<1>7. req'[p] = r /\ OthersAlike(p)
  BY <1>1, ForgetAlike
<1>8. Named(req'[p])
  BY <1>5, <1>6, <1>7, Elsewhere
<1>9. MayBeCover'
  BY <1>2 DEF MayBeCover
<1> QED BY <1>2, <1>4, <1>7, <1>8, <1>9, PlanKept

LEMMA PlanRestoreTx ==
    ASSUME LedgerInv, PlanInv, NEW p \in Proc, RestoreTx(p)
    PROVE  PlanInv'
<1>1. PICK l \in req[p].leaves :
         /\ asg' = RestoreCovers(asg, LeaveEmp[l], LeaveDays(l))
         /\ leave' = [leave EXCEPT ![l].cover = Nobody]
         /\ ForgetRows(p, LeaveEmp[l], LeaveDays(l), Idle)
  BY DEF RestoreTx
<1>2. /\ planned' = planned /\ l \in Leave
      /\ asg \in Rows /\ LeaveEmp[l] \in Employee /\ Restorable(asg) /\ MayBeCover
  BY Shape, AccountsAreAccounts DEF RestoreTx, LedgerInv, TypeOK, Rows, PlanInv
<1>3. Restorable(asg')
  BY <1>1, <1>2, RestoreRestorable
<1>4. req'[p] = Idle /\ OthersAlike(p)
  BY <1>1, ForgetAlike
<1>5. Named(req'[p])
  BY <1>4, Elsewhere DEF Idle
<1>6. MayBeCover'
  BY <1>1, <1>2, CoverRowKept
<1> QED BY <1>2, <1>3, <1>4, <1>5, <1>6, PlanKept

LEMMA PlanDropCover ==
    ASSUME LedgerInv, PlanInv, NEW p \in Proc, DropCover(p)
    PROVE  PlanInv'
<1>1. PICK l \in req[p].leaves : leave' = [leave EXCEPT ![l].cover = Nobody]
  BY DEF DropCover
<1>2. UNCHANGED <<asg, planned>> /\ l \in Leave /\ Restorable(asg) /\ MayBeCover
  BY Shape DEF DropCover, PlanInv
<1>3. OthersAlike(p) /\ Named(req'[p])
  BY ReturnAlike, Elsewhere DEF DropCover
<1>4. MayBeCover'
  BY <1>1, <1>2, CoverRowKept
<1>5. Restorable(asg')
  BY <1>2
<1> QED BY <1>2, <1>3, <1>4, <1>5, PlanKept

LEMMA PlanStatus ==
    ASSUME LedgerInv, PlanInv, NEW p \in Proc, InsertLeave(p) \/ WriteStatus(p)
    PROVE  PlanInv'
<1>1. PICK l \in req[p].leaves :
         \/ leave' = [leave EXCEPT ![l].status = "SUBMITTED"]
         \/ leave' = [leave EXCEPT ![l].status = "APPROVED"]
         \/ leave' = [leave EXCEPT ![l] = [status |-> "REJECTED", cover |-> Nobody]]
  BY DEF InsertLeave, WriteStatus
<1>2. UNCHANGED <<asg, planned>> /\ l \in Leave /\ Restorable(asg) /\ MayBeCover
  BY Shape DEF InsertLeave, WriteStatus, PlanInv
<1>3. OthersAlike(p) /\ Named(req'[p])
  BY ReturnAlike, Elsewhere DEF InsertLeave, WriteStatus
<1>4. leave \in LeaveRows
  BY DEF LedgerInv, TypeOK, LeaveRows
<1>5. \A k \in Leave : leave'[k].cover \in {leave[k].cover, Nobody}
  BY <1>1, <1>2, <1>4 DEF LeaveRows
<1>6. MayBeCover'
  BY <1>2, <1>5 DEF MayBeCover
<1>7. Restorable(asg')
  BY <1>2
<1> QED BY <1>2, <1>3, <1>6, <1>7, PlanKept

LEMMA PlanStep ==
    ASSUME OneAbsentee, LedgerInv, PlanInv, NEW p \in Proc, StartStep(p) \/ RunStep(p) \/ Fail(p)
    PROVE  PlanInv'
<1>1. ASSUME LedgerStep(p) PROVE PlanInv'
  <2>1. /\ UNCHANGED <<leave, asg, planned>> /\ OthersAlike(p)
        /\ req'[p].pc \in LedgerPcs \cup {"idle", "insert", "status"}
    BY <1>1, LedgerSteps
  <2>2. Named(req'[p])
    BY <2>1, Elsewhere DEF LedgerPcs
  <2> QED BY <2>1, <2>2, PlanUntouched
<1>2. ASSUME Fail(p) PROVE PlanInv'
  <2>1. UNCHANGED <<leave, asg, planned>>
    BY <1>2 DEF Fail, tables
  <2>2. OthersAlike(p) /\ Named(req'[p])
    BY <1>2, ReturnAlike, Elsewhere DEF Fail
  <2> QED BY <2>1, <2>2, PlanUntouched
<1> QED BY <1>1, <1>2, PlanStart, PlanReadSource, PlanCoverTx, PlanClearTx, PlanRestoreTx,
           PlanDropCover, PlanStatus DEF RunStep, LedgerStep

LEMMA PlanInit == ASSUME Init PROVE PlanInv
<1>1. ASSUME NEW x \in Slot
      PROVE  AsPlanned(asg[x], planned[x]) /\ asg[x].covers = Nobody
  <2>1. asg[x] = PlannedRow(planned[x])
    BY DEF Init
  <2>2. planned[x] \in Shift \cup {"empty", "rest"}
    BY InstanceAssumption DEF Init
  <2>3. asg[x] \in Row
    BY <2>1, <2>2, PlannedTyped
  <2>4. asg[x].covers = Nobody /\ asg[x].note = NoNote /\ asg[x].onLeave = FALSE
    BY <2>1, PlannedRowIs
  <2>6. Duty(asg[x]) = asg[x]
    BY <2>3, <2>4, DutyOfDuty
  <2> QED BY <2>1, <2>4, <2>6 DEF AsPlanned
<1>2. Restorable(asg)
  BY <1>1 DEF Restorable
<1>3. MayBeCover
  BY DEF Init, MayBeCover
<1>4. ASSUME NEW p \in Proc PROVE Named(req[p])
  BY Elsewhere DEF Init, Idle
<1> QED BY <1>2, <1>3, <1>4 DEF PlanInv

LEMMA PlanInvariant ==
    ASSUME OneReviewPerBalance, OneAbsentee
    PROVE  Spec => []PlanInv
<1>1. Init => PlanInv
  BY PlanInit
<1>2. LedgerInv /\ PlanInv /\ [Next]_vars => PlanInv'
  <2> SUFFICES ASSUME LedgerInv, PlanInv, [Next]_vars PROVE PlanInv'
    OBVIOUS
  <2>1. ASSUME NEW p \in Proc, StartStep(p) \/ RunStep(p) \/ Fail(p) PROVE PlanInv'
    BY <2>1, PlanStep
  <2>2. ASSUME NEW n \in Entitlements, SetEntitlement(n) PROVE PlanInv'
    BY <2>2 DEF SetEntitlement, PlanInv, Restorable, MayBeCover
  <2>3. CASE UNCHANGED vars
    BY <2>3 DEF vars, PlanInv, Restorable, MayBeCover
  <2> QED BY <2>1, <2>2, <2>3 DEF Next
<1> QED BY <1>1, <1>2, LedgerInvariant, PTL DEF Spec

\* restorePriorCoverAssignments: where nobody can be asked to cover two colleagues
\* on one day, a row that covers nobody shows what was planned, through covers
\* named, exchanged and removed by any number of requests, each of which may be
\* abandoned at any statement.
THEOREM CoversComeBack ==
    ASSUME OneReviewPerBalance, OneAbsentee
    PROVE  Spec => []UncoveredIsPlanned
<1>1. PlanInv => UncoveredIsPlanned
  BY DEF PlanInv, Restorable, AsPlanned, UncoveredIsPlanned
<1> QED BY <1>1, PlanInvariant, PTL

-----------------------------------------------------------------------------
(* The schedule, one request at a time: leave marks and covers.            *)

\* Nobody can be asked to cover a day of a leave of his own.
CoversAtWork ==
    \A k, l \in Leave : LeaveDays(k) \cap LeaveDays(l) # {} => LeaveEmp[k] \notin Covers[l]

\* What the absent employee was to do that day.
Duties(l, d) == PlannedRow(planned[<<LeaveEmp[l], d>>])

MarkedIn(rows, l) ==
    \A d \in LeaveDays(l) :
        Works(rows[<<LeaveEmp[l], d>>]) => rows[<<LeaveEmp[l], d>>].onLeave

ServesIn(rows, l, x) == rows[x].covers = LeaveEmp[l] /\ rows[x].shift = Duties(l, x[2]).shift

\* Between the transaction that takes the cover from the schedule and the
\* statement that takes it from the request.
Withdraws(p) == req[p].pc = "dropCover" \/ (req[p].op = "reject" /\ req[p].pc \in Underway)
Withdrawn(l) == \E p \in Proc : l \in req[p].leaves /\ Withdraws(p)

\* l is the reason why the employee of x covers somebody.
Backs(l, x) == /\ x[2] \in LeaveDays(l) /\ leave[l].cover = x[1] /\ ~ Withdrawn(l)
               /\ ServesIn(asg, l, x) /\ Works(Duties(l, x[2]))

\* What a request has read is the plan; an approval has marked the leave before
\* it writes the status.
Prepared(p) ==
    \A l \in req[p].leaves :
        /\ req[p].op = "assign" => /\ Live(leave[l].status)
                                   /\ req[p].pc \in {"clear", "dropCover"} => leave[l].status # "APPROVED"
        /\ req[p].pc = "coverTx" =>
              /\ req[p].alive = DaysOf(req[p].src)
              /\ \A d \in LeaveDays(l) : d \in DaysOf(req[p].src) <=> Works(Duties(l, d))
              /\ \A s \in req[p].src : s[2] = Duties(l, s[1]).shift
        /\ req[p].op = "approve" /\ req[p].pc \in Underway => MarkedIn(asg, l)

NamedIfLive == \A l \in Leave : Live(leave[l].status) \/ leave[l].cover = Nobody
MarkedIfApproved ==
    \A l \in Leave : leave[l].status = "APPROVED" /\ ~ Withdrawn(l) => MarkedIn(asg, l)
BackedIfCovering ==
    \A x \in Slot : asg[x].covers # Nobody => \E l \in Leave : Backs(l, x)
ServedIfNamed ==
    \A l \in Leave : leave[l].cover # Nobody /\ ~ Withdrawn(l) =>
        \A d \in LeaveDays(l) : Works(Duties(l, d)) => ServesIn(asg, l, <<leave[l].cover, d>>)

ServiceInv ==
    /\ \A p \in Proc : Prepared(p)
    /\ NamedIfLive /\ MarkedIfApproved /\ BackedIfCovering /\ ServedIfNamed

\* An absent employee covers nobody, so the row shows the plan.
LEMMA AbsentRow ==
    ASSUME CoversAtWork, NEW rows \in Rows, Restorable(rows),
           NEW l \in Leave, NEW d \in LeaveDays(l)
    PROVE  /\ <<LeaveEmp[l], d>> \in Slot
           /\ rows[<<LeaveEmp[l], d>>].covers = Nobody
           /\ rows[<<LeaveEmp[l], d>>].shift = Duties(l, d).shift
           /\ Works(rows[<<LeaveEmp[l], d>>]) <=> Works(Duties(l, d))
<1> DEFINE x == <<LeaveEmp[l], d>>
<1>1. x \in Slot /\ x[1] = LeaveEmp[l] /\ x[2] = d
  BY AccountsAreAccounts, DaysAreDays DEF Slot
<1>2. Duties(l, d) = PlannedRow(planned[x])
  BY DEF Duties
<1> HIDE DEF x
<1>3. AsPlanned(rows[x], planned[x]) /\ (rows[x].covers # Nobody => Asked(x, rows[x].covers))
      /\ rows[x] \in Row
  BY <1>1 DEF Restorable, Rows
<1>4. rows[x].covers = Nobody
  <2> SUFFICES ASSUME rows[x].covers # Nobody PROVE FALSE
    OBVIOUS
  <2>1. PICK k \in Leave : x[1] \in Covers[k] /\ x[2] \in LeaveDays(k)
    BY <1>3 DEF Asked
  <2> QED BY <1>1, <2>1 DEF CoversAtWork
<1>5. Duty(rows[x]) = Duties(l, d)
  BY <1>2, <1>3, <1>4 DEF AsPlanned
<1>6. /\ Duties(l, d).on = rows[x].on /\ Duties(l, d).shift = rows[x].shift
      /\ Duties(l, d).rest = rows[x].rest
  BY <1>3, <1>5, DutyIs
<1> QED BY <1>1, <1>4, <1>6 DEF Works, x

LEMMA OnlyRequest ==
    ASSUME Serial, NEW p \in Proc, NEW l
    PROVE  /\ Withdrawn(l) <=> l \in req[p].leaves /\ Withdraws(p)
           /\ Withdrawn(l)' <=> l \in req'[p].leaves /\ Withdraws(p)'
           /\ \A q \in Proc : q = p
BY DEF Serial, Withdrawn

\* A step that leaves schedule and covers alone.
LEMMA ServiceKept ==
    ASSUME Serial, ServiceInv, NEW p \in Proc, UNCHANGED <<asg, planned>>,
           \A l \in Leave : leave'[l].cover = leave[l].cover,
           NamedIfLive', MarkedIfApproved', Prepared(p)',
           \A l \in Leave : Withdrawn(l)' <=> Withdrawn(l)
    PROVE  ServiceInv'
<1>1. \A q \in Proc : Prepared(q)'
  BY OnlyRequest
<1>2. \A l \in Leave, x \in Slot : Backs(l, x) => Backs(l, x)'
  BY DEF Backs, ServesIn, Duties
<1>3. BackedIfCovering'
  BY <1>2 DEF ServiceInv, BackedIfCovering
<1>4. ServedIfNamed'
  BY DEF ServiceInv, ServedIfNamed, ServesIn, Duties
<1> QED BY <1>1, <1>3, <1>4 DEF ServiceInv

\* The cover that was taken from the schedule is taken from the request.
LEMMA ServiceDropped ==
    ASSUME Serial, LedgerInv, ServiceInv, NEW p \in Proc, NEW l \in req[p].leaves, Withdraws(p),
           UNCHANGED <<asg, planned>>, Return(p),
           leave'[l].cover = Nobody, leave'[l].status # "APPROVED",
           \A k \in Leave : k # l => leave'[k] = leave[k]
    PROVE  ServiceInv'
<1>1. l \in Leave /\ req[p].leaves = {l}
  BY Shape
<1>2. req'[p].leaves = {}
  BY ReturnAlike
<1>3. \A k : ~ Withdrawn(k)' /\ (Withdrawn(k) <=> k = l)
  BY <1>1, <1>2, OnlyRequest
<1>4. \A q \in Proc : Prepared(q)'
  BY <1>2, OnlyRequest DEF Prepared
<1>5. NamedIfLive'
  BY DEF ServiceInv, NamedIfLive
<1>6. MarkedIfApproved'
  BY <1>3 DEF ServiceInv, MarkedIfApproved, MarkedIn
<1>7. BackedIfCovering'
  <2>1. ASSUME NEW x \in Slot, asg[x].covers # Nobody PROVE \E k \in Leave : Backs(k, x)'
    <3>1. PICK k \in Leave : Backs(k, x)
      BY <2>1 DEF ServiceInv, BackedIfCovering
    <3>2. k # l
      BY <1>3, <3>1 DEF Backs
    <3>3. leave'[k] = leave[k] /\ ~ Withdrawn(k)'
      BY <1>3, <3>2
    <3>4. Backs(k, x)'
      BY <3>1, <3>3 DEF Backs, ServesIn, Duties
    <3> QED BY <3>4
  <2> QED BY <2>1 DEF BackedIfCovering
<1>8. ServedIfNamed'
  <2>1. ASSUME NEW k \in Leave, leave'[k].cover # Nobody, NEW d \in LeaveDays(k), Works(Duties(k, d))
        PROVE  ServesIn(asg, k, <<leave'[k].cover, d>>)
    <3>1. k # l
      BY <2>1
    <3>2. leave'[k] = leave[k] /\ ~ Withdrawn(k)
      BY <1>3, <3>1
    <3> QED BY <2>1, <3>2 DEF ServiceInv, ServedIfNamed
  <2> QED BY <2>1 DEF ServedIfNamed, ServesIn, Duties
<1> QED BY <1>4, <1>5, <1>6, <1>7, <1>8 DEF ServiceInv

\* rows is the schedule in which nobody covers the days of l any more.
Released(rows, l) ==
    \A x \in Slot :
        IF asg[x].covers = LeaveEmp[l] /\ x[2] \in LeaveDays(l)
        THEN rows[x].covers = Nobody
        ELSE rows[x].covers = asg[x].covers /\ rows[x].shift = asg[x].shift

\* A step that frees the covers of l and may put one in their place.
LEMMA ServiceMoved ==
    ASSUME Serial, LedgerInv, OverlapInv, ServiceInv, NEW p \in Proc, NEW l \in req[p].leaves,
           Live(leave[l].status), ~ Withdraws(p), planned' = planned,
           NEW rows, Released(rows, l),
           \A x \in Slot :
              \/ asg'[x].covers = rows[x].covers /\ asg'[x].shift = rows[x].shift
              \/ /\ rows[x].covers = Nobody /\ x[1] = leave'[l].cover /\ x[2] \in LeaveDays(l)
                 /\ Works(Duties(l, x[2])) /\ ServesIn(asg', l, x) /\ ~ Withdrawn(l)',
           leave'[l].cover # Nobody /\ ~ Withdrawn(l)' =>
              \A d \in LeaveDays(l) :
                 Works(Duties(l, d)) => ServesIn(asg', l, <<leave'[l].cover, d>>),
           \A k \in Leave : k # l => leave'[k] = leave[k],
           req'[p].leaves \subseteq {l},
           NamedIfLive', MarkedIfApproved', Prepared(p)'
    PROVE  ServiceInv'
<1>1. /\ l \in Leave /\ req[p].leaves = {l} /\ leave \in LeaveRows
      /\ \A k : ~ Withdrawn(k) /\ (k # l => ~ Withdrawn(k)')
  BY Shape, OnlyRequest DEF LedgerInv, TypeOK, LeaveRows
<1>2. \A q \in Proc : Prepared(q)'
  BY OnlyRequest
<1>3. \A k : LeaveEmp[k] \in Employee => LeaveEmp[k] # Nobody
  BY EmployeeNames DEF Nobody
<1>4. BackedIfCovering'
  <2>1. ASSUME NEW x \in Slot, asg'[x].covers # Nobody PROVE \E k \in Leave : Backs(k, x)'
    <3>1. CASE asg'[x].covers = rows[x].covers /\ asg'[x].shift = rows[x].shift
      <4>1. /\ ~ (asg[x].covers = LeaveEmp[l] /\ x[2] \in LeaveDays(l))
            /\ rows[x].covers = asg[x].covers /\ rows[x].shift = asg[x].shift
        BY <2>1, <3>1 DEF Released
      <4>2. PICK k \in Leave : Backs(k, x)
        BY <2>1, <3>1, <4>1 DEF ServiceInv, BackedIfCovering
      <4>3. k # l
        BY <4>1, <4>2 DEF Backs, ServesIn
      <4>4. leave'[k] = leave[k] /\ ~ Withdrawn(k)'
        BY <1>1, <4>3
      <4>5. Backs(k, x)'
        BY <3>1, <4>1, <4>2, <4>4 DEF Backs, ServesIn, Duties
      <4> QED BY <4>5
    <3>2. CASE /\ rows[x].covers = Nobody /\ x[1] = leave'[l].cover /\ x[2] \in LeaveDays(l)
               /\ Works(Duties(l, x[2])) /\ ServesIn(asg', l, x) /\ ~ Withdrawn(l)'
      <4>1. Backs(l, x)'
        BY <3>2 DEF Backs, ServesIn, Duties
      <4> QED BY <1>1, <4>1
    <3> QED BY <3>1, <3>2
  <2> QED BY <2>1 DEF BackedIfCovering
<1>5. ServedIfNamed'
  <2>1. ASSUME NEW k \in Leave, leave'[k].cover # Nobody, ~ Withdrawn(k)',
               NEW d \in LeaveDays(k), Works(Duties(k, d))
        PROVE  ServesIn(asg', k, <<leave'[k].cover, d>>)
    <3>1. CASE k = l
      BY <2>1, <3>1
    <3>2. CASE k # l
      <4> DEFINE x == <<leave[k].cover, d>>
      <4>1. leave'[k] = leave[k] /\ leave[k].cover \in Employee /\ Live(leave[k].status)
        BY <1>1, <2>1, <3>2 DEF LeaveRows, ServiceInv, NamedIfLive
      <4>2. x \in Slot /\ x[2] = d
        BY <4>1, DaysAreDays DEF Slot
      <4>3. ServesIn(asg, k, x)
        BY <1>1, <2>1, <4>1 DEF ServiceInv, ServedIfNamed
      <4> HIDE DEF x
      <4>4. ~ (LeaveEmp[k] = LeaveEmp[l] /\ d \in LeaveDays(l))
        BY <1>1, <2>1, <3>2, <4>1 DEF OverlapInv, NoOverlap
      <4>5. rows[x].covers = asg[x].covers /\ rows[x].shift = asg[x].shift
        BY <4>2, <4>3, <4>4 DEF Released, ServesIn
      <4>6. rows[x].covers # Nobody
        BY <1>3, <4>3, <4>5, AccountsAreAccounts DEF ServesIn
      <4>7. asg'[x].covers = asg[x].covers /\ asg'[x].shift = asg[x].shift
        BY <4>2, <4>5, <4>6
      <4>8. ServesIn(asg', k, x)
        BY <4>3, <4>7 DEF ServesIn
      <4> QED BY <4>1, <4>8 DEF x
    <3> QED BY <3>1, <3>2
  <2> QED BY <2>1 DEF ServedIfNamed, ServesIn, Duties
<1> QED BY <1>2, <1>4, <1>5 DEF ServiceInv

\* The statements that free the covers.
LEMMA RestoreReleases ==
    ASSUME LedgerInv, NEW l \in Leave
    PROVE  Released(RestoreCovers(asg, LeaveEmp[l], LeaveDays(l)), l)
BY RestoreRow, RestoredCovers DEF Released

LEMMA MarkReleases ==
    ASSUME NEW rows \in Rows, NEW l \in Leave, Released(rows, l), NEW e, NEW days
    PROVE  Released(MarkLeave(rows, e, days), l)
<1>1. ASSUME NEW x \in Slot
      PROVE  /\ MarkLeave(rows, e, days)[x].covers = rows[x].covers
             /\ MarkLeave(rows, e, days)[x].shift = rows[x].shift
  BY MarkFields
<1> QED BY <1>1 DEF Released

LEMMA UnmarkReleases ==
    ASSUME NEW rows \in Rows, NEW l \in Leave, Released(rows, l), NEW e, NEW days
    PROVE  Released(UnmarkLeave(rows, e, days), l)
<1>1. ASSUME NEW x \in Slot
      PROVE  /\ UnmarkLeave(rows, e, days)[x].covers = rows[x].covers
             /\ UnmarkLeave(rows, e, days)[x].shift = rows[x].shift
  BY UnmarkFields
<1> QED BY <1>1 DEF Released

\* What starts a request has withdrawn nothing, and relies on nothing yet.
LEMMA ServiceStart ==
    ASSUME Serial, LedgerInv, ServiceInv, NEW p \in Proc, StartStep(p)
    PROVE  ServiceInv'
<1>1. UNCHANGED <<leave, asg, planned>> /\ req[p] = Idle
  BY DEF StartStep, ListBalance, SubmitStart, RejectStart, ApproveStart, AssignStart, Begin, tables
<1>2. req[p].leaves = {}
  BY <1>1 DEF Idle
<1>3. ASSUME NEW r, Update(p, r), r.pc \in {"sync", "source", "clear", "restoreTx"},
             r.op = "reject" => r.pc = "clear", r.op = "approve" => r.pc = "source",
             r.op = "assign" => \A k \in r.leaves :
                /\ Live(leave[k].status)
                /\ r.pc \in {"clear", "dropCover"} => leave[k].status # "APPROVED"
      PROVE  ServiceInv'
  <2>1. req'[p] = r
    BY <1>3, UpdateAlike
  <2>2. \A k \in Leave : Withdrawn(k)' <=> Withdrawn(k)
    BY <1>2, <1>3, <2>1, OnlyRequest DEF Withdraws, Underway
  <2>3. Prepared(p)'
    BY <1>1, <1>3, <2>1 DEF Prepared, Underway
  <2>4. NamedIfLive' /\ MarkedIfApproved'
    BY <1>1, <2>2 DEF ServiceInv, NamedIfLive, MarkedIfApproved, MarkedIn
  <2> QED BY <1>1, <2>2, <2>3, <2>4, ServiceKept
<1>4. ASSUME NEW e \in Employee, ListBalance(p, e) PROVE ServiceInv'
  <2> DEFINE r == [Idle EXCEPT !.pc = "sync", !.accts = {<<e, ThisYear>>}, !.op = "list"]
  <2>1. Update(p, r)
    BY <1>4 DEF ListBalance, Begin
  <2>2. r.pc = "sync" /\ r.op = "list"
    BY DEF Idle
  <2> HIDE DEF r
  <2> QED BY <1>3, <2>1, <2>2
<1>5. ASSUME NEW l \in Leave, SubmitStart(p, l) PROVE ServiceInv'
  <2> DEFINE accts == {<<LeaveEmp[l], ThisYear>>}
             r == [About(l) EXCEPT !.pc = "sync", !.accts = accts, !.op = "submit"]
  <2>1. Update(p, r)
    BY <1>5 DEF SubmitStart, Begin
  <2>2. r.pc = "sync" /\ r.op = "submit"
    BY DEF About, Idle
  <2> HIDE DEF r
  <2> QED BY <1>3, <2>1, <2>2
<1>6. ASSUME NEW l \in Leave, RejectStart(p, l) PROVE ServiceInv'
  <2> DEFINE r == [About(l) EXCEPT !.pc = "clear", !.op = "reject"]
  <2>1. Update(p, r)
    BY <1>6 DEF RejectStart, Begin
  <2>2. r.pc = "clear" /\ r.op = "reject"
    BY DEF About, Idle
  <2> HIDE DEF r
  <2> QED BY <1>3, <2>1, <2>2
<1>7. ASSUME NEW l \in Leave, NEW cs \in CoverChoices(l), ApproveStart(p, l, cs) PROVE ServiceInv'
  <2> DEFINE given == IF cs # {} THEN cs ELSE {leave[l].cover} \ {Nobody}
             r == [About(l) EXCEPT !.pc = "source", !.covers = given, !.op = "approve"]
  <2>1. Update(p, r)
    BY <1>7 DEF ApproveStart, Begin
  <2> HIDE DEF given
  <2>2. r.pc = "source" /\ r.op = "approve"
    BY DEF About, Idle
  <2> HIDE DEF r
  <2> QED BY <1>3, <2>1, <2>2
<1>8. ASSUME NEW l \in Leave, NEW cs \in CoverChoices(l), AssignStart(p, l, cs) PROVE ServiceInv'
  <2> DEFINE pc == IF cs # {} THEN "source"
                   ELSE IF leave[l].status = "APPROVED" THEN "restoreTx" ELSE "clear"
             r == [About(l) EXCEPT !.covers = cs, !.pc = pc, !.op = "assign"]
  <2>1. Update(p, r) /\ Live(leave[l].status)
    BY <1>8 DEF AssignStart, Begin
  <2>2. pc \in {"source", "restoreTx", "clear"} /\ (pc = "clear" => leave[l].status # "APPROVED")
    OBVIOUS
  <2> HIDE DEF pc
  <2>3. r.pc = pc /\ r.op = "assign" /\ r.leaves = {l}
    BY DEF About, Idle
  <2> HIDE DEF r
  <2> QED BY <1>3, <2>1, <2>2, <2>3
<1> QED BY <1>4, <1>5, <1>6, <1>7, <1>8 DEF StartStep

LEMMA ServiceLedger ==
    ASSUME Serial, Failures = FALSE, LedgerInv, ServiceInv, NEW p \in Proc, LedgerStep(p)
    PROVE  ServiceInv'
<1>1. /\ UNCHANGED <<leave, asg, planned>> /\ req[p].pc \in LedgerPcs
      /\ req'[p].pc \in LedgerPcs \cup {"idle", "insert", "status"}
  BY LedgerSteps
<1>2. Effect(p)
  BY RunEffect, PlacesOf, Shape, <1>1 DEF RunStep, LedgerStep, InsertLeave, WriteStatus, At, LedgerPcs
<1>3. req[p] \in ReqType /\ WellFormed(req[p])
  BY Shape
<1>4. /\ req[p].op \in {"list", "submit", "approve", "reject"}
      /\ req[p].op = "reject" => req[p].pc \in {"readTx", "unbook"}
      /\ req[p].op = "approve" => req[p].pc \in {"sync", "syncWrite", "lookTx", "book"}
  <2>1. req[p].op \in {"none", "submit", "approve", "reject", "assign", "list"}
    BY <1>3 DEF ReqType
  <2> QED BY <1>1, <1>3, <2>1 DEF WellFormed, Path, LedgerPcs
<1>5. \/ /\ req'[p].op = req[p].op /\ req'[p].leaves = req[p].leaves
         /\ req[p].op \in Reviews => req'[p].pc \in Underway
      \/ req'[p].leaves = {} /\ req[p].op # "reject"
  <2>1. CASE Ended(p)
    <3>1. ~ Fail(p)
      BY DEF Fail
    <3>2. req[p].op = "reject" => ~ SyncWrite(p)
      BY <1>4 DEF SyncWrite, At
    <3> QED BY <1>4, <2>1, <3>1, <3>2 DEF Ended, Reviews, Underway
  <2>2. CASE Carried(p)
    BY <1>4, <2>2 DEF Carried, Reviews, Underway
  <2>3. ~ Started(p)
    BY <1>4 DEF Started
  <2> QED BY <1>2, <2>1, <2>2, <2>3 DEF Effect
<1>6. \A k \in Leave : Withdrawn(k)' <=> Withdrawn(k)
  BY <1>1, <1>4, <1>5, OnlyRequest DEF Withdraws, Underway, LedgerPcs, Reviews
<1>7. Prepared(p)'
  <2>1. CASE req'[p].leaves = {}
    BY <2>1 DEF Prepared
  <2>2. CASE req'[p].op = req[p].op /\ req'[p].leaves = req[p].leaves
    <3>1. \A k \in req[p].leaves : req[p].op = "approve" => MarkedIn(asg, k)
      BY <1>4 DEF ServiceInv, Prepared, Underway
    <3>2. req'[p].op # "assign" /\ req'[p].pc # "coverTx"
      BY <1>1, <1>4, <2>2 DEF LedgerPcs
    <3> QED BY <1>1, <2>2, <3>1, <3>2 DEF Prepared, MarkedIn
  <2> QED BY <1>5, <2>1, <2>2
<1>8. NamedIfLive' /\ MarkedIfApproved'
  BY <1>1, <1>6 DEF ServiceInv, NamedIfLive, MarkedIfApproved, MarkedIn
<1> QED BY <1>1, <1>6, <1>7, <1>8, ServiceKept

LEMMA ServiceInsert ==
    ASSUME Serial, LedgerInv, ServiceInv, NEW p \in Proc, InsertLeave(p)
    PROVE  ServiceInv'
<1>1. PICK l \in req[p].leaves : leave' = [leave EXCEPT ![l].status = "SUBMITTED"]
  BY DEF InsertLeave
<1>2. /\ UNCHANGED <<asg, planned>> /\ l \in Leave /\ req[p].op = "submit" /\ req[p].pc = "insert"
      /\ leave \in LeaveRows
  BY Shape, PlacesOf DEF InsertLeave, At, LedgerInv, TypeOK, LeaveRows
<1>3. req'[p].leaves = {}
  BY ReturnAlike DEF InsertLeave
<1>4. /\ leave'[l].status = "SUBMITTED" /\ \A k \in Leave : leave'[k].cover = leave[k].cover
      /\ \A k \in Leave : k # l => leave'[k] = leave[k]
  BY <1>1, <1>2 DEF LeaveRows
<1>5. \A k \in Leave : Withdrawn(k)' <=> Withdrawn(k)
  BY <1>2, <1>3, OnlyRequest DEF Withdraws
<1>6. NamedIfLive'
  BY <1>4 DEF ServiceInv, NamedIfLive, Live
<1>7. MarkedIfApproved'
  BY <1>2, <1>4, <1>5 DEF ServiceInv, MarkedIfApproved, MarkedIn
<1>8. Prepared(p)'
  BY <1>3 DEF Prepared
<1> QED BY <1>2, <1>4, <1>5, <1>6, <1>7, <1>8, ServiceKept

LEMMA ServiceStatus ==
    ASSUME Serial, LedgerInv, OverlapInv, ServiceInv, NEW p \in Proc, WriteStatus(p)
    PROVE  ServiceInv'
<1>1. PICK l \in req[p].leaves :
          leave' = IF req[p].op = "approve"
                   THEN [leave EXCEPT ![l].status = "APPROVED"]
                   ELSE [leave EXCEPT ![l] = [status |-> "REJECTED", cover |-> Nobody]]
  BY DEF WriteStatus
<1>2. /\ UNCHANGED <<asg, planned>> /\ l \in Leave /\ req[p].op \in Reviews /\ req[p].pc = "status"
      /\ leave \in LeaveRows /\ Return(p) /\ req[p].leaves = {l}
  BY Shape, PlacesOf DEF WriteStatus, At, LedgerInv, TypeOK, LeaveRows, Reviews
<1>3. req'[p].leaves = {}
  BY <1>2, ReturnAlike
<1>4. CASE req[p].op = "approve"
  <2>1. /\ leave'[l].status = "APPROVED" /\ \A k \in Leave : leave'[k].cover = leave[k].cover
        /\ \A k \in Leave : k # l => leave'[k] = leave[k]
    BY <1>1, <1>2, <1>4 DEF LeaveRows
  <2>2. \A k \in Leave : Withdrawn(k)' <=> Withdrawn(k)
    BY <1>2, <1>3, <1>4, OnlyRequest DEF Withdraws
  <2>3. NamedIfLive'
    BY <2>1 DEF ServiceInv, NamedIfLive, Live
  <2>4. MarkedIn(asg, l)
    BY <1>2, <1>4 DEF ServiceInv, Prepared, Underway
  <2>5. MarkedIfApproved'
    BY <1>2, <2>1, <2>2, <2>4 DEF ServiceInv, MarkedIfApproved, MarkedIn
  <2>6. Prepared(p)'
    BY <1>3 DEF Prepared
  <2> QED BY <1>2, <2>1, <2>2, <2>3, <2>5, <2>6, ServiceKept
<1>5. CASE req[p].op = "reject"
  <2>1. leave' = [leave EXCEPT ![l] = [status |-> "REJECTED", cover |-> Nobody]]
    BY <1>1, <1>5
  <2>2. /\ leave'[l].status # "APPROVED" /\ leave'[l].cover = Nobody
        /\ \A k \in Leave : k # l => leave'[k] = leave[k]
    BY <1>2, <2>1 DEF LeaveRows
  <2>3. Withdraws(p)
    BY <1>2, <1>5 DEF Withdraws, Underway
  <2> QED BY <1>2, <2>2, <2>3, ServiceDropped
<1> QED BY <1>2, <1>4, <1>5 DEF Reviews

LEMMA ServiceDropCover ==
    ASSUME Serial, LedgerInv, ServiceInv, NEW p \in Proc, DropCover(p)
    PROVE  ServiceInv'
<1>1. PICK l \in req[p].leaves : leave' = [leave EXCEPT ![l].cover = Nobody]
  BY DEF DropCover
<1>2. /\ UNCHANGED <<asg, planned>> /\ l \in Leave /\ req[p].op = "assign" /\ req[p].pc = "dropCover"
      /\ leave \in LeaveRows /\ Return(p)
  BY Shape, PlacesOf DEF DropCover, At, LedgerInv, TypeOK, LeaveRows
<1>3. leave[l].status # "APPROVED"
  BY <1>2 DEF ServiceInv, Prepared
<1>4. /\ leave'[l].status = leave[l].status /\ leave'[l].cover = Nobody
      /\ \A k \in Leave : k # l => leave'[k] = leave[k]
  BY <1>1, <1>2 DEF LeaveRows
<1>5. Withdraws(p)
  BY <1>2 DEF Withdraws
<1> QED BY <1>2, <1>3, <1>4, <1>5, ServiceDropped

\* The days and shifts that are read are those of the plan.
LEMMA SourceIs ==
    ASSUME CoversAtWork, NEW rows \in Rows, Restorable(rows), NEW l \in Leave
    PROVE  LET src == SourceOf(rows, LeaveEmp[l], LeaveDays(l))
           IN /\ \A d \in LeaveDays(l) : d \in DaysOf(src) <=> Works(Duties(l, d))
              /\ \A s \in src : s[2] = Duties(l, s[1]).shift
<1> DEFINE e == LeaveEmp[l]
           src == SourceOf(rows, e, LeaveDays(l))
<1>1. ASSUME NEW d \in LeaveDays(l)
      PROVE  /\ rows[<<e, d>>].shift = Duties(l, d).shift
             /\ Works(rows[<<e, d>>]) <=> Works(Duties(l, d))
  BY AbsentRow
<1>2. ASSUME NEW s \in src
      PROVE  s[1] \in LeaveDays(l) /\ Works(Duties(l, s[1])) /\ s[2] = Duties(l, s[1]).shift
  <2>1. PICK d \in {k \in LeaveDays(l) : Works(rows[<<e, k>>])} : s = <<d, rows[<<e, d>>].shift>>
    BY <1>2 DEF SourceOf
  <2> HIDE DEF e
  <2> QED BY <1>1, <2>1
<1>3. ASSUME NEW d \in LeaveDays(l), Works(Duties(l, d)) PROVE d \in DaysOf(src)
  <2>1. <<d, rows[<<e, d>>].shift>> \in src
    BY <1>1, <1>3 DEF SourceOf
  <2> HIDE DEF src
  <2> QED BY <2>1 DEF DaysOf
<1>4. ASSUME NEW d \in LeaveDays(l), d \in DaysOf(src) PROVE Works(Duties(l, d))
  <2> HIDE DEF src
  <2>1. PICK s \in src : d = s[1]
    BY <1>4 DEF DaysOf
  <2> QED BY <1>2, <2>1
<1> QED BY <1>2, <1>3, <1>4

LEMMA ServiceReadSource ==
    ASSUME Serial, CoversAtWork, LedgerInv, PlanInv, ServiceInv, NEW p \in Proc, ReadSource(p)
    PROVE  ServiceInv'
<1>0. /\ UNCHANGED <<leave, asg, planned>> /\ req[p] \in ReqType /\ req[p].pc = "source"
      /\ \A l \in req[p].leaves : l \in Leave /\ req[p].leaves = {l}
      /\ asg \in Rows /\ Restorable(asg)
  BY Shape DEF ReadSource, tables, At, LedgerInv, TypeOK, Rows, PlanInv
<1> DEFINE src(l) == SourceOf(asg, LeaveEmp[l], LeaveDays(l))
           days(l) == DaysOf(src(l))
           r(l) == [req[p] EXCEPT !.pc = "coverTx", !.src = src(l), !.alive = days(l)]
<1>1. PICK l \in req[p].leaves : Return(p) \/ Update(p, r(l))
  BY DEF ReadSource
<1>2. /\ \A d \in LeaveDays(l) : d \in DaysOf(src(l)) <=> Works(Duties(l, d))
      /\ \A s \in src(l) : s[2] = Duties(l, s[1]).shift
  BY <1>0, SourceIs
<1> HIDE DEF src
<1>3. r(l).pc = "coverTx" /\ r(l).leaves = req[p].leaves /\ r(l).op = req[p].op
      /\ r(l).src = src(l) /\ r(l).alive = DaysOf(src(l))
  BY <1>0, ZenonT(30) DEF ReqType
<1> HIDE DEF r
<1>4. Prepared(p)' /\ ~ Withdraws(p)'
  <2>1. CASE Return(p)
    BY <2>1, ReturnAlike DEF Prepared, Withdraws, Idle
  <2>2. CASE Update(p, r(l))
    <3>1. req'[p] = r(l)
      BY <2>2, UpdateAlike
    <3>2. \A k \in req[p].leaves : k = l
      BY <1>0
    <3>3. req[p].op = "assign" => Live(leave[l].status)
      BY DEF ServiceInv, Prepared
    <3>4. ~ Withdraws(p)'
      BY <1>3, <3>1 DEF Withdraws, Underway
    <3>5. Prepared(p)'
      BY <1>0, <1>2, <1>3, <3>1, <3>2, <3>3 DEF Prepared, Underway, Duties
    <3> QED BY <3>4, <3>5
  <2> QED BY <1>1, <2>1, <2>2
<1>5. \A k \in Leave : Withdrawn(k)' <=> Withdrawn(k)
  BY <1>0, <1>4, OnlyRequest DEF Withdraws, Underway
<1>6. NamedIfLive' /\ MarkedIfApproved'
  BY <1>0, <1>5 DEF ServiceInv, NamedIfLive, MarkedIfApproved, MarkedIn
<1> QED BY <1>0, <1>4, <1>5, <1>6, ServiceKept

\* Nobody's leave is marked on the row of somebody who covers.
LEMMA RestoreSparesAbsent ==
    ASSUME CoversAtWork, LedgerInv, PlanInv, NEW l \in Leave, NEW k \in Leave, NEW d \in LeaveDays(k)
    PROVE  RestoreCovers(asg, LeaveEmp[l], LeaveDays(l))[<<LeaveEmp[k], d>>] = asg[<<LeaveEmp[k], d>>]
<1>1. asg \in Rows /\ Restorable(asg) /\ LeaveEmp[l] # Nobody
  BY AccountsAreAccounts, EmployeeNames DEF LedgerInv, TypeOK, Rows, PlanInv, Nobody
<1>2. <<LeaveEmp[k], d>> \in Slot /\ asg[<<LeaveEmp[k], d>>].covers = Nobody
  BY <1>1, AbsentRow
<1> QED BY <1>1, <1>2, RestoreRow

LEMMA ServiceClearTx ==
    ASSUME Serial, CoversAtWork, LedgerInv, OverlapInv, PlanInv, ServiceInv,
           NEW p \in Proc, ClearTx(p)
    PROVE  ServiceInv'
<1> DEFINE pc == IF req[p].op = "reject" THEN "readTx" ELSE "dropCover"
           r == [req[p] EXCEPT !.pc = pc]
           restored(l) == RestoreCovers(asg, LeaveEmp[l], LeaveDays(l))
<1>1. PICK l \in req[p].leaves :
         /\ asg' = UnmarkLeave(restored(l), LeaveEmp[l], LeaveDays(l))
         /\ ForgetRows(p, LeaveEmp[l], LeaveDays(l), r)
  BY DEF ClearTx
<1>2. /\ planned' = planned /\ leave' = leave /\ l \in Leave /\ req[p] \in ReqType
      /\ req[p].op \in {"reject", "assign"} /\ req[p].pc = "clear" /\ req[p].leaves = {l}
  BY Shape, PlacesOf DEF ClearTx, At
<1>3. /\ Live(leave[l].status)
      /\ req[p].op = "assign" => leave[l].status # "APPROVED"
      /\ ~ Withdraws(p)
  BY <1>2 DEF OverlapInv, Reviews, ServiceInv, Prepared, Withdraws, Underway
<1>4. pc \in Pcs /\ pc = (IF req[p].op = "reject" THEN "readTx" ELSE "dropCover")
  BY DEF Pcs
<1> HIDE DEF pc
<1>5. r.pc = pc /\ r.op = req[p].op /\ r.leaves = {l}
  BY <1>2, <1>4, PcField
<1> HIDE DEF r
<1>6. req'[p] = r
  BY <1>1, ForgetAlike
<1>7. /\ req'[p].leaves = {l} /\ req'[p].op = req[p].op
      /\ req'[p].pc = (IF req[p].op = "reject" THEN "readTx" ELSE "dropCover")
  BY <1>4, <1>5, <1>6
<1>8. Withdrawn(l)' /\ \A k : k # l => ~ Withdrawn(k)' /\ ~ Withdrawn(k)
  <2>1. Withdraws(p)'
    BY <1>2, <1>7 DEF Withdraws, Underway
  <2> QED BY <1>2, <1>7, <2>1, OnlyRequest
<1>9. Prepared(p)'
  BY <1>2, <1>3, <1>7 DEF Prepared
<1>10. restored(l) \in Rows /\ Released(restored(l), l)
  BY <1>2, RestoreTyped, RestoreReleases DEF LedgerInv, TypeOK, Rows
<1>11. ASSUME NEW k \in Leave, k # l, leave[k].status = "APPROVED" PROVE MarkedIn(asg', k)
  <2>1. MarkedIn(asg, k)
    BY <1>8, <1>11 DEF ServiceInv, MarkedIfApproved
  <2>2. ASSUME NEW d \in LeaveDays(k) PROVE asg'[<<LeaveEmp[k], d>>] = asg[<<LeaveEmp[k], d>>]
    <3> DEFINE x == <<LeaveEmp[k], d>>
    <3>1. x \in Slot /\ x[1] = LeaveEmp[k] /\ x[2] = d
      BY AccountsAreAccounts, DaysAreDays DEF Slot
    <3>2. restored(l)[x] = asg[x]
      BY <1>2, RestoreSparesAbsent
    <3>3. ~ (x[1] = LeaveEmp[l] /\ x[2] \in LeaveDays(l))
      BY <1>2, <1>3, <1>11, <3>1 DEF OverlapInv, NoOverlap, Live
    <3> HIDE DEF x, restored
    <3>4. asg'[x] = restored(l)[x]
      BY <1>1, <1>10, <3>1, <3>3, UnmarkFields
    <3> QED BY <3>2, <3>4 DEF x
  <2> QED BY <2>1, <2>2 DEF MarkedIn
<1> HIDE DEF restored
<1>12. Released(asg', l)
  BY <1>1, <1>2, <1>10, UnmarkReleases
<1>13. MarkedIfApproved' /\ NamedIfLive'
  <2>1. ASSUME NEW k \in Leave, leave[k].status = "APPROVED", ~ Withdrawn(k)' PROVE MarkedIn(asg', k)
    BY <1>8, <1>11, <2>1
  <2>2. MarkedIfApproved'
    BY <1>2, <2>1 DEF MarkedIfApproved, MarkedIn
  <2> QED BY <1>2, <2>2 DEF ServiceInv, NamedIfLive
<1> QED BY <1>2, <1>3, <1>7, <1>8, <1>9, <1>12, <1>13, ServiceMoved

LEMMA ServiceRestoreTx ==
    ASSUME Serial, CoversAtWork, LedgerInv, OverlapInv, PlanInv, ServiceInv,
           NEW p \in Proc, RestoreTx(p)
    PROVE  ServiceInv'
<1>1. PICK l \in req[p].leaves :
         /\ asg' = RestoreCovers(asg, LeaveEmp[l], LeaveDays(l))
         /\ leave' = [leave EXCEPT ![l].cover = Nobody]
         /\ ForgetRows(p, LeaveEmp[l], LeaveDays(l), Idle)
  BY DEF RestoreTx
<1>2. /\ planned' = planned /\ l \in Leave /\ req[p].op = "assign" /\ req[p].pc = "restoreTx"
      /\ req[p].leaves = {l} /\ leave \in LeaveRows
  BY Shape, PlacesOf DEF RestoreTx, At, LedgerInv, TypeOK, LeaveRows
<1>3. Live(leave[l].status) /\ ~ Withdraws(p)
  BY <1>2 DEF ServiceInv, Prepared, Withdraws
<1>4. req'[p] = Idle
  BY <1>1, ForgetAlike
<1>5. req'[p].leaves = {} /\ Prepared(p)' /\ \A k : ~ Withdrawn(k)' /\ ~ Withdrawn(k)
  BY <1>3, <1>4, OnlyRequest DEF Prepared, Idle
<1>6. /\ leave'[l].cover = Nobody /\ leave'[l].status = leave[l].status
      /\ \A k \in Leave : k # l => leave'[k] = leave[k]
  BY <1>1, <1>2 DEF LeaveRows
<1>7. NamedIfLive'
  BY <1>6 DEF ServiceInv, NamedIfLive
<1>8. MarkedIfApproved'
  <2>1. ASSUME NEW k \in Leave, leave[k].status = "APPROVED" PROVE MarkedIn(asg', k)
    <3>1. MarkedIn(asg, k)
      BY <1>5, <2>1 DEF ServiceInv, MarkedIfApproved
    <3>2. ASSUME NEW d \in LeaveDays(k) PROVE asg'[<<LeaveEmp[k], d>>] = asg[<<LeaveEmp[k], d>>]
      BY <1>1, <1>2, RestoreSparesAbsent
    <3> QED BY <3>1, <3>2 DEF MarkedIn
  <2>2. \A k \in Leave : leave'[k].status = leave[k].status
    BY <1>6
  <2> QED BY <2>1, <2>2 DEF MarkedIfApproved, MarkedIn
<1>9. Released(asg', l)
  BY <1>1, <1>2, RestoreReleases
<1> QED BY <1>2, <1>3, <1>5, <1>6, <1>7, <1>8, <1>9, ServiceMoved

\* The cover takes the days and shifts of the plan, from rows that cover nobody.
LEMMA MoveServes ==
    ASSUME OneAbsentee, NEW rows \in Rows, Restorable(rows), NEW l \in Leave,
           NEW c \in Covers[l], NEW src \in SUBSET (Day \X Shift), DaysOf(src) \subseteq LeaveDays(l),
           \A x \in Slot : x[2] \in LeaveDays(l) => rows[x].covers # LeaveEmp[l],
           \A s \in src : s[2] = Duties(l, s[1]).shift,
           NEW x \in Slot
    PROVE  LET new == MoveCover(rows, c, LeaveEmp[l], src)
           IN IF x[1] = c /\ x[2] \in DaysOf(src)
              THEN rows[x].covers = Nobody /\ ServesIn(new, l, x)
              ELSE new[x] = rows[x]
<1> DEFINE e == LeaveEmp[l]
           new == MoveCover(rows, c, e, src)
<1>1. CASE x[1] = c /\ x[2] \in DaysOf(src)
  <2>1. PICK s \in src : s[1] = x[2] /\ new[x] = Moved(rows[x], e, s[2])
    BY <1>1, MoveRow
  <2> HIDE DEF new
  <2>2. new[x].shift = s[2] /\ new[x].covers = e
    BY <2>1, MovedFields
  <2>3. ServesIn(new, l, x)
    BY <2>1, <2>2 DEF ServesIn
  <2>4. rows[x].covers = Nobody
    <3> SUFFICES ASSUME rows[x].covers # Nobody PROVE FALSE
      OBVIOUS
    <3>1. PICK k \in Leave : LeaveEmp[k] = rows[x].covers /\ x[1] \in Covers[k] /\ x[2] \in LeaveDays(k)
      BY DEF Restorable, Asked
    <3>2. x[2] \in LeaveDays(l) /\ x[1] \in Covers[l]
      BY <1>1
    <3>3. LeaveEmp[k] = e
      BY <3>1, <3>2 DEF OneAbsentee
    <3> QED BY <3>1, <3>2, <3>3
  <2> QED BY <1>1, <2>3, <2>4 DEF new
<1>2. CASE ~ (x[1] = c /\ x[2] \in DaysOf(src))
  BY <1>2, MoveRow
<1> QED BY <1>1, <1>2

\* Freeing the covers of l and marking its days keeps the marks of every leave, and
\* marks l where all its working days are among those that are marked.
LEMMA MarksStay ==
    ASSUME CoversAtWork, LedgerInv, PlanInv, NEW l \in Leave, NEW days,
           NEW restored, restored = RestoreCovers(asg, LeaveEmp[l], LeaveDays(l)),
           NEW rows, rows = MarkLeave(restored, LeaveEmp[l], days)
    PROVE  /\ \A k \in Leave : MarkedIn(asg, k) => MarkedIn(rows, k)
           /\ (\A d \in LeaveDays(l) : Works(Duties(l, d)) => d \in days) => MarkedIn(rows, l)
<1>1. asg \in Rows /\ LeaveEmp[l] \in Employee /\ Restorable(asg)
  BY AccountsAreAccounts DEF LedgerInv, TypeOK, Rows, PlanInv
<1>2. restored \in Rows /\ Restorable(restored)
  BY <1>1, RestoreTyped, RestoreRestorable
<1>3. rows \in Rows /\ Restorable(rows)
  BY <1>2, MarkTyped, MarkRestorable
<1>4. ASSUME NEW k \in Leave, MarkedIn(asg, k), NEW d \in LeaveDays(k),
             Works(rows[<<LeaveEmp[k], d>>])
      PROVE  rows[<<LeaveEmp[k], d>>].onLeave
  <2> DEFINE x == <<LeaveEmp[k], d>>
  <2>1. x \in Slot
    BY AccountsAreAccounts, DaysAreDays DEF Slot
  <2>2. restored[x] = asg[x]
    BY RestoreSparesAbsent
  <2>3. Works(asg[x]) => asg[x].onLeave
    BY <1>4 DEF MarkedIn
  <2>4. Works(rows[x])
    BY <1>4
  <2> HIDE DEF x
  <2>5. /\ rows[x].on = restored[x].on /\ rows[x].shift = restored[x].shift
        /\ rows[x].rest = restored[x].rest
        /\ x[1] = LeaveEmp[l] /\ x[2] \in days /\ restored[x].on => rows[x].onLeave
        /\ ~ (x[1] = LeaveEmp[l] /\ x[2] \in days /\ restored[x].on) => rows[x] = restored[x]
    BY <1>2, <2>1, MarkFields
  <2>6. Works(asg[x])
    BY <2>2, <2>4, <2>5 DEF Works
  <2>7. rows[x].onLeave
    BY <2>2, <2>3, <2>5, <2>6
  <2> QED BY <2>7 DEF x
<1>5. ASSUME \A d \in LeaveDays(l) : Works(Duties(l, d)) => d \in days,
             NEW d \in LeaveDays(l), Works(rows[<<LeaveEmp[l], d>>])
      PROVE  rows[<<LeaveEmp[l], d>>].onLeave
  <2> DEFINE x == <<LeaveEmp[l], d>>
  <2>1. x \in Slot /\ Works(rows[x]) /\ d \in days /\ x[1] = LeaveEmp[l] /\ x[2] = d
    BY <1>3, <1>5, AbsentRow
  <2> HIDE DEF x
  <2>2. /\ rows[x].on = restored[x].on
        /\ x[1] = LeaveEmp[l] /\ x[2] \in days /\ restored[x].on => rows[x].onLeave
    BY <1>2, <2>1, MarkFields
  <2>3. rows[x].onLeave
    BY <2>1, <2>2 DEF Works
  <2> QED BY <2>3 DEF x
<1> QED BY <1>4, <1>5 DEF MarkedIn

\* Nobody is moved on a day of a leave of his own.
LEMMA MoveSparesAbsent ==
    ASSUME CoversAtWork, NEW rows, NEW l \in Leave, NEW c \in Covers[l],
           NEW src \in SUBSET (Day \X Shift), DaysOf(src) \subseteq LeaveDays(l),
           NEW k \in Leave, MarkedIn(rows, k)
    PROVE  MarkedIn(MoveCover(rows, c, LeaveEmp[l], src), k)
<1> DEFINE new == MoveCover(rows, c, LeaveEmp[l], src)
<1>1. ASSUME NEW d \in LeaveDays(k) PROVE new[<<LeaveEmp[k], d>>] = rows[<<LeaveEmp[k], d>>]
  <2> DEFINE x == <<LeaveEmp[k], d>>
  <2>1. x \in Slot /\ x[1] = LeaveEmp[k] /\ x[2] = d
    BY AccountsAreAccounts, DaysAreDays DEF Slot
  <2> HIDE DEF x
  <2>2. ~ (x[1] = c /\ x[2] \in DaysOf(src))
    BY <1>1, <2>1 DEF CoversAtWork
  <2>3. new[x] = rows[x]
    BY <2>1, <2>2, MoveRow
  <2> QED BY <2>3 DEF x
<1> HIDE DEF new
<1>2. MarkedIn(new, k)
  BY <1>1 DEF MarkedIn
<1> QED BY <1>2 DEF new

LEMMA ServiceCoverTx ==
    ASSUME Serial, OneAbsentee, CoversAtWork, LedgerInv, OverlapInv, PlanInv, ServiceInv,
           NEW p \in Proc, CoverTx(p)
    PROVE  ServiceInv'
<1> DEFINE next(l) == IF req[p].op = "approve"
                      THEN [About(l) EXCEPT !.op = "approve", !.pc = "sync"] ELSE Idle
           restored(l) == RestoreCovers(asg, LeaveEmp[l], LeaveDays(l))
           marked(l) == MarkLeave(restored(l), LeaveEmp[l], req[p].alive)
           src == req[p].src
<1>1. PICK l \in req[p].leaves :
         \/ /\ asg' = marked(l)
            /\ leave' = [leave EXCEPT ![l].cover = Nobody]
            /\ ForgetRows(p, LeaveEmp[l], LeaveDays(l), next(l))
         \/ \E c \in req[p].covers :
               /\ asg' = MoveCover(marked(l), c, LeaveEmp[l], src)
               /\ leave' = [leave EXCEPT ![l].cover = c]
               /\ ForgetRows(p, LeaveEmp[l], LeaveDays(l), next(l))
         \/ Return(p) /\ UNCHANGED <<asg, leave>>
  BY DEF CoverTx
<1>2. /\ planned' = planned /\ l \in Leave /\ req[p].pc = "coverTx" /\ req[p].leaves = {l}
      /\ req[p] \in ReqType /\ src \in SUBSET (Day \X Shift) /\ leave \in LeaveRows
      /\ req[p].op \in {"approve", "assign"}
  BY Shape, PlacesOf DEF CoverTx, At, ReqType, LedgerInv, TypeOK, LeaveRows
<1>3. /\ req[p].covers \subseteq Covers[l] /\ DaysOf(src) \subseteq LeaveDays(l)
      /\ Restorable(asg) /\ asg \in Rows /\ LeaveEmp[l] \in Employee
  BY <1>2, AccountsAreAccounts DEF PlanInv, Named, LedgerInv, TypeOK, Rows
<1>4. /\ Live(leave[l].status) /\ ~ Withdraws(p)
      /\ req[p].alive = DaysOf(src)
      /\ \A d \in LeaveDays(l) : d \in DaysOf(src) <=> Works(Duties(l, d))
      /\ \A s \in src : s[2] = Duties(l, s[1]).shift
  BY <1>2 DEF OverlapInv, Reviews, ServiceInv, Prepared, Withdraws, Underway
<1>5. /\ next(l).op = "approve" => next(l).pc = "sync"
      /\ next(l).op \in {"approve", "none"} /\ next(l).pc \in {"sync", "idle"}
      /\ next(l).leaves \subseteq {l}
  BY DEF About, Idle
<1>6. /\ restored(l) \in Rows /\ Restorable(restored(l)) /\ Released(restored(l), l)
      /\ \A x \in Slot : x[2] \in LeaveDays(l) => restored(l)[x].covers # LeaveEmp[l]
  BY <1>2, <1>3, RestoreTyped, RestoreRestorable, RestoreReleases
<1>7. /\ marked(l) \in Rows /\ Restorable(marked(l))
      /\ \A x \in Slot : x[2] \in LeaveDays(l) => marked(l)[x].covers # LeaveEmp[l]
  <2> HIDE DEF restored
  <2> QED BY <1>6, MarkTyped, MarkRestorable, MarkFields
<1>8. Released(marked(l), l)
  <2> HIDE DEF restored
  <2> QED BY <1>2, <1>6, MarkReleases
<1>9. /\ \A k \in Leave : MarkedIn(asg, k) => MarkedIn(marked(l), k)
      /\ MarkedIn(marked(l), l)
  <2> HIDE DEF src
  <2> QED BY <1>2, <1>4, MarksStay
<1>10. \A k : ~ Withdrawn(k)
  BY <1>4, OnlyRequest
<1> HIDE DEF restored, marked, next, src
<1>11. ASSUME NEW c, leave' = [leave EXCEPT ![l].cover = c],
              ForgetRows(p, LeaveEmp[l], LeaveDays(l), next(l)),
              \A k \in Leave : MarkedIn(marked(l), k) => MarkedIn(asg', k)
       PROVE  /\ leave'[l].cover = c /\ \A k \in Leave : k # l => leave'[k] = leave[k]
              /\ req'[p].leaves \subseteq {l} /\ \A k : ~ Withdrawn(k)'
              /\ NamedIfLive' /\ MarkedIfApproved' /\ Prepared(p)'
  <2>1. req'[p] = next(l)
    BY <1>11, ForgetAlike
  <2>2. /\ leave'[l].cover = c /\ leave'[l].status = leave[l].status
        /\ \A k \in Leave : k # l => leave'[k] = leave[k]
    BY <1>2, <1>11 DEF LeaveRows
  <2>3. \A k : ~ Withdrawn(k)'
    BY <1>5, <2>1, OnlyRequest DEF Withdraws
  <2>4. NamedIfLive'
    BY <1>4, <2>2 DEF ServiceInv, NamedIfLive
  <2>5. MarkedIfApproved'
    <3>1. ASSUME NEW k \in Leave, leave'[k].status = "APPROVED" PROVE MarkedIn(asg', k)
      <4>1. leave[k].status = "APPROVED"
        BY <2>2, <3>1
      <4>2. MarkedIn(asg, k)
        BY <1>10, <4>1 DEF ServiceInv, MarkedIfApproved
      <4> QED BY <1>9, <1>11, <4>2
    <3> QED BY <3>1 DEF MarkedIfApproved, MarkedIn
  <2>6. Prepared(p)'
    <3>1. MarkedIn(asg', l)
      BY <1>2, <1>9, <1>11
    <3> QED BY <1>5, <2>1, <3>1 DEF Prepared, MarkedIn
  <2> QED BY <1>5, <2>1, <2>2, <2>3, <2>4, <2>5, <2>6
<1>12. ASSUME asg' = marked(l), leave' = [leave EXCEPT ![l].cover = Nobody],
              ForgetRows(p, LeaveEmp[l], LeaveDays(l), next(l))
       PROVE  ServiceInv'
  <2>1. /\ leave'[l].cover = Nobody /\ \A k \in Leave : k # l => leave'[k] = leave[k]
        /\ req'[p].leaves \subseteq {l} /\ NamedIfLive' /\ MarkedIfApproved' /\ Prepared(p)'
    BY <1>11, <1>12
  <2>2. \A x \in Slot : asg'[x].covers = marked(l)[x].covers /\ asg'[x].shift = marked(l)[x].shift
    BY <1>12
  <2> QED BY <1>2, <1>4, <1>8, <2>1, <2>2, ServiceMoved
<1>13. ASSUME NEW c \in req[p].covers,
              asg' = MoveCover(marked(l), c, LeaveEmp[l], src),
              leave' = [leave EXCEPT ![l].cover = c],
              ForgetRows(p, LeaveEmp[l], LeaveDays(l), next(l))
       PROVE  ServiceInv'
  <2>1. c \in Covers[l]
    BY <1>3
  <2>2. \A k \in Leave : MarkedIn(marked(l), k) => MarkedIn(asg', k)
    BY <1>2, <1>3, <1>13, <2>1, MoveSparesAbsent
  <2>3. /\ leave'[l].cover = c /\ \A k \in Leave : k # l => leave'[k] = leave[k]
        /\ req'[p].leaves \subseteq {l} /\ NamedIfLive' /\ MarkedIfApproved' /\ Prepared(p)'
        /\ \A k : ~ Withdrawn(k)'
    BY <1>11, <1>13, <2>2
  <2>4. ASSUME NEW x \in Slot
        PROVE  IF x[1] = c /\ x[2] \in DaysOf(src)
               THEN marked(l)[x].covers = Nobody /\ ServesIn(asg', l, x)
               ELSE asg'[x] = marked(l)[x]
    BY <1>2, <1>3, <1>4, <1>7, <1>13, <2>1, MoveServes
  <2>5. ASSUME NEW x \in Slot
        PROVE  \/ asg'[x].covers = marked(l)[x].covers /\ asg'[x].shift = marked(l)[x].shift
               \/ /\ marked(l)[x].covers = Nobody /\ x[1] = leave'[l].cover
                  /\ x[2] \in LeaveDays(l) /\ Works(Duties(l, x[2]))
                  /\ ServesIn(asg', l, x) /\ ~ Withdrawn(l)'
    <3>1. CASE x[1] = c /\ x[2] \in DaysOf(src)
      <4>1. marked(l)[x].covers = Nobody /\ ServesIn(asg', l, x)
        BY <2>4, <3>1
      <4>2. x[2] \in LeaveDays(l) /\ Works(Duties(l, x[2]))
        BY <1>3, <1>4, <3>1
      <4> QED BY <2>3, <3>1, <4>1, <4>2
    <3>2. CASE ~ (x[1] = c /\ x[2] \in DaysOf(src))
      <4>1. asg'[x] = marked(l)[x]
        BY <2>4, <3>2
      <4> QED BY <4>1
    <3> QED BY <3>1, <3>2
  <2>6. ASSUME NEW d \in LeaveDays(l), Works(Duties(l, d))
        PROVE  ServesIn(asg', l, <<leave'[l].cover, d>>)
    <3> DEFINE x == <<c, d>>
    <3>1. x \in Slot /\ x[1] = c /\ x[2] = d
      BY <1>2, <2>1, LeaveAssumption, DaysAreDays DEF Slot
    <3> HIDE DEF x
    <3>2. ServesIn(asg', l, x)
      BY <1>4, <2>4, <2>6, <3>1
    <3> QED BY <2>3, <3>2 DEF x
  <2> QED BY <1>2, <1>4, <1>8, <2>3, <2>5, <2>6, ServiceMoved
<1>14. ASSUME Return(p), UNCHANGED <<asg, leave>> PROVE ServiceInv'
  <2>1. req'[p].leaves = {}
    BY <1>14, ReturnAlike
  <2>2. \A k \in Leave : Withdrawn(k)' <=> Withdrawn(k)
    BY <1>10, <2>1, OnlyRequest
  <2>3. Prepared(p)'
    BY <2>1 DEF Prepared
  <2>4. NamedIfLive' /\ MarkedIfApproved'
    BY <1>2, <1>14, <2>2 DEF ServiceInv, NamedIfLive, MarkedIfApproved, MarkedIn
  <2> QED BY <1>2, <1>14, <2>2, <2>3, <2>4, ServiceKept
<1> QED BY <1>1, <1>12, <1>13, <1>14

LEMMA ServiceStep ==
    ASSUME Serial, Failures = FALSE, OneAbsentee, CoversAtWork,
           LedgerInv, OverlapInv, PlanInv, ServiceInv,
           NEW p \in Proc, StartStep(p) \/ RunStep(p) \/ Fail(p)
    PROVE  ServiceInv'
<1>1. ~ Fail(p)
  BY DEF Fail
<1>2. \/ StartStep(p) \/ LedgerStep(p) \/ InsertLeave(p) \/ ReadSource(p) \/ CoverTx(p)
      \/ ClearTx(p) \/ RestoreTx(p) \/ DropCover(p) \/ WriteStatus(p)
  BY <1>1 DEF RunStep, LedgerStep
<1> QED BY <1>2, ServiceStart, ServiceLedger, ServiceInsert, ServiceReadSource, ServiceCoverTx,
           ServiceClearTx, ServiceRestoreTx, ServiceDropCover, ServiceStatus

LEMMA ServiceInit == ASSUME Init PROVE ServiceInv
<1>1. /\ \A l \in Leave : leave[l].status = "NONE" /\ leave[l].cover = Nobody
      /\ \A p \in Proc : req[p].leaves = {}
  BY DEF Init, Idle
<1>2. ASSUME NEW x \in Slot PROVE asg[x].covers = Nobody
  <2>1. asg[x] = PlannedRow(planned[x])
    BY DEF Init
  <2> QED BY <2>1, PlannedRowIs
<1> QED BY <1>1, <1>2 DEF ServiceInv, Prepared, NamedIfLive, MarkedIfApproved, BackedIfCovering,
                          ServedIfNamed

LEMMA ServiceInvariant ==
    ASSUME Serial, Failures = FALSE, OneAbsentee, CoversAtWork
    PROVE  Spec => [](LedgerInv /\ PlanInv /\ ServiceInv)
<1>1. Init => ServiceInv
  BY ServiceInit
<1>2. LedgerInv /\ OverlapInv /\ PlanInv /\ ServiceInv /\ [Next]_vars => ServiceInv'
  <2> SUFFICES ASSUME LedgerInv, OverlapInv, PlanInv, ServiceInv, [Next]_vars PROVE ServiceInv'
    OBVIOUS
  <2>1. ASSUME NEW p \in Proc, StartStep(p) \/ RunStep(p) \/ Fail(p) PROVE ServiceInv'
    BY <2>1, ServiceStep
  <2>2. ASSUME UNCHANGED <<leave, asg, planned, req>> PROVE ServiceInv'
    <3>1. \A p \in Proc : Prepared(p)'
      BY <2>2 DEF ServiceInv, Prepared, MarkedIn, Duties
    <3>2. \A l : Withdrawn(l)' <=> Withdrawn(l)
      BY <2>2 DEF Withdrawn, Withdraws
    <3>3. NamedIfLive' /\ MarkedIfApproved'
      BY <2>2, <3>2 DEF ServiceInv, NamedIfLive, MarkedIfApproved, MarkedIn
    <3>4. BackedIfCovering'
      BY <2>2, <3>2 DEF ServiceInv, BackedIfCovering, Backs, ServesIn, Duties
    <3>5. ServedIfNamed'
      BY <2>2, <3>2 DEF ServiceInv, ServedIfNamed, ServesIn, Duties
    <3> QED BY <3>1, <3>3, <3>4, <3>5 DEF ServiceInv
  <2>3. ASSUME NEW n \in Entitlements, SetEntitlement(n) PROVE ServiceInv'
    BY <2>2, <2>3 DEF SetEntitlement
  <2>4. CASE UNCHANGED vars
    BY <2>2, <2>4 DEF vars
  <2> QED BY <2>1, <2>3, <2>4 DEF Next
<1>3. OneReviewPerBalance
  BY DEF Serial, OneReviewPerBalance
<1> QED BY <1>1, <1>2, <1>3, LedgerInvariant, OverlapInvariant, PlanInvariant, PTL DEF Spec

\* Between requests no cover is on its way out.
LEMMA QuietIsSettled == ASSUME LedgerInv, Quiet, NEW l PROVE ~ Withdrawn(l)
<1> SUFFICES ASSUME NEW p \in Proc PROVE req[p].leaves = {}
  BY DEF Withdrawn
<1>1. req[p].pc = "idle" /\ req[p] \in ReqType /\ WellFormed(req[p])
  BY Shape DEF Quiet
<1>2. req[p].op \in {"none", "submit", "approve", "reject", "assign", "list"}
  BY <1>1 DEF ReqType
<1> QED BY <1>1, <1>2 DEF WellFormed, Path

\* reviewLeave and assignLeaveCover: with one request at a time, none of them
\* abandoned, and covers who are neither away nor shared by two colleagues on one
\* day, every day an employee works within an approved leave is marked as leave
\* between requests, for any number of leaves, covers and roster.
THEOREM LeaveDaysAreMarked ==
    ASSUME Serial, Failures = FALSE, OneAbsentee, CoversAtWork
    PROVE  Spec => []ApprovedDaysMarked
<1>1. LedgerInv /\ PlanInv /\ ServiceInv => ApprovedDaysMarked
  <2> SUFFICES ASSUME LedgerInv, ServiceInv, Quiet, NEW l \in Leave, leave[l].status = "APPROVED"
               PROVE  MarkedIn(asg, l)
    BY DEF ApprovedDaysMarked, MarkedIn
  <2> QED BY QuietIsSettled DEF ServiceInv, MarkedIfApproved
<1> QED BY <1>1, ServiceInvariant, PTL

\* applyLeaveCoverToSchedule and restorePriorCoverAssignments: under the same
\* conditions somebody covers an absent employee's shift, between requests, exactly
\* when a live request names that cover, and then works that very shift.
THEOREM CoversMatchRequests ==
    ASSUME Serial, Failures = FALSE, OneAbsentee, CoversAtWork
    PROVE  Spec => []CoverMatchesRequest
<1>1. LedgerInv /\ PlanInv /\ ServiceInv => CoverMatchesRequest
  <2> SUFFICES ASSUME LedgerInv, PlanInv, ServiceInv, Quiet,
                      NEW c \in Employee, NEW e \in Employee, NEW d \in Day
               PROVE  asg[<<c, d>>].covers = e <=>
                        /\ \E l \in Leave : /\ LeaveEmp[l] = e /\ d \in LeaveDays(l)
                                            /\ Live(leave[l].status) /\ leave[l].cover = c
                        /\ Works(asg[<<e, d>>])
                        /\ asg[<<c, d>>].shift = asg[<<e, d>>].shift
    BY DEF CoverMatchesRequest
  <2> DEFINE x == <<c, d>>
  <2>1. /\ x \in Slot /\ x[1] = c /\ x[2] = d /\ e # Nobody /\ c # Nobody
        /\ asg \in Rows /\ Restorable(asg)
    BY EmployeeNames DEF Slot, Nobody, LedgerInv, TypeOK, Rows, PlanInv
  <2>2. ASSUME NEW l \in Leave, LeaveEmp[l] = e, d \in LeaveDays(l)
        PROVE  /\ Works(asg[<<e, d>>]) <=> Works(Duties(l, d))
               /\ asg[<<e, d>>].shift = Duties(l, d).shift
    BY <2>1, <2>2, AbsentRow
  <2> HIDE DEF x
  <2>3. ASSUME asg[x].covers = e
        PROVE  /\ \E l \in Leave : /\ LeaveEmp[l] = e /\ d \in LeaveDays(l)
                                   /\ Live(leave[l].status) /\ leave[l].cover = c
               /\ Works(asg[<<e, d>>])
               /\ asg[x].shift = asg[<<e, d>>].shift
    <3>1. PICK l \in Leave : Backs(l, x)
      BY <2>1, <2>3 DEF ServiceInv, BackedIfCovering
    <3>2. /\ d \in LeaveDays(l) /\ leave[l].cover = c /\ LeaveEmp[l] = e
          /\ Works(Duties(l, d)) /\ asg[x].shift = Duties(l, d).shift
      BY <2>1, <2>3, <3>1 DEF Backs, ServesIn
    <3>3. Live(leave[l].status)
      BY <2>1, <3>2 DEF ServiceInv, NamedIfLive
    <3> QED BY <2>2, <3>2, <3>3
  <2>4. ASSUME NEW l \in Leave, LeaveEmp[l] = e, d \in LeaveDays(l), leave[l].cover = c,
               Works(asg[<<e, d>>])
        PROVE  asg[x].covers = e
    <3>1. Works(Duties(l, d)) /\ ~ Withdrawn(l)
      BY <2>2, <2>4, QuietIsSettled
    <3>2. ServesIn(asg, l, <<leave[l].cover, d>>)
      BY <2>1, <2>4, <3>1 DEF ServiceInv, ServedIfNamed
    <3> QED BY <2>4, <3>2 DEF ServesIn, x
  <2> QED BY <2>3, <2>4 DEF x
<1> QED BY <1>1, ServiceInvariant, PTL
=============================================================================
