------------------------- MODULE PslOpensslInitProofs -------------------------
(***************************************************************************)
(* Theorems about OpenSSL's initialisation and the SSL contexts            *)
(* (PslOpensslInit), for any number of threads and contexts, both kinds of *)
(* OpenSSL and every MaxHeld.                                              *)
(*                                                                         *)
(* Every step adds or removes one debt, and its count goes along; so the   *)
(* proof is about the sizes of sets that change by one element.            *)
(***************************************************************************)
EXTENDS PslOpensslInit, FiniteSetTheorems, TLAPS

InitRecs == [isInitialized : BOOLEAN, initType : InitTypes, refCount : Nat]
CtxRecs  == [mem : BOOLEAN, refCount : Nat, opensslCtx : BOOLEAN, opensslInitTaken : BOOLEAN]
CallRecs == [op : Ops, type : InitTypes, ctx : Contexts \cup {NoCtx}]

(* The debts are counted.                                                  *)
CountInv ==
    /\ IsFiniteSet(HeldInits) /\ IsFiniteSet(Undoing) /\ IsFiniteSet(TakenByCtx)
    /\ init.refCount = Owed
    /\ init.isInitialized <=> init.refCount > 0
    /\ locks <=> Legacy /\ init.isInitialized /\ init.initType = "multi"
    /\ \A t \in Threads : held[t]["multi"] > 0 => init.initType = "multi"

(* What a call that is under way was made with stays true: only its thread *)
(* changes what it holds, and nobody takes its references away.            *)
CtxOps == {"newCtx", "destroyCtx", "uninitCtx"}

CallOK(t) ==
    /\ call[t].op = "init" => held[t][call[t].type] < MaxHeld
    /\ call[t].op = "conditional" => held[t]["conditional"] < MaxHeld
    /\ call[t].op = "ssl" => Holds(t) \/ \E c \in Contexts : refs[t][c] > 0
    /\ call[t].op \in CtxOps <=> call[t].ctx # NoCtx

(* A context is made or destroyed by one thread,                           *)
OneMaker ==
    \A t, u \in Threads : call[t].ctx = call[u].ctx /\ call[t].ctx # NoCtx => t = u

Busy(c) == \E t \in Threads : call[t].ctx = c

(* to which nobody has a reference meanwhile; else it is counted.          *)
MakingOK(t, x) ==
    /\ call[t].op = "newCtx" => x.refCount = 1 /\ ~x.opensslInitTaken /\ ~x.opensslCtx
    /\ call[t].op = "destroyCtx" => (x.opensslCtx => x.opensslInitTaken)
    /\ call[t].op = "uninitCtx" => x.opensslInitTaken /\ ~x.opensslCtx

CtxOK(c) ==
    /\ IsFiniteSet(RefsTo(c))
    /\ Busy(c) => /\ ctxs[c].mem
                  /\ \A t \in Threads : refs[t][c] = 0
                  /\ \A t \in Threads : call[t].ctx = c => MakingOK(t, ctxs[c])
    /\ ~Busy(c) => /\ ctxs[c].refCount = Cardinality(RefsTo(c))
                   /\ ctxs[c].mem <=> ctxs[c].refCount > 0
                   /\ ctxs[c].opensslInitTaken = ctxs[c].mem
                   /\ ctxs[c].opensslCtx = ctxs[c].mem

Inv ==
    /\ TypeOK
    /\ fault = ""
    /\ CountInv
    /\ \A t \in Threads : CallOK(t)
    /\ OneMaker
    /\ \A c \in Contexts : CtxOK(c)

-----------------------------------------------------------------------------
(* The sets of debts and of references.                                    *)

(* One more initialisation is one more element,                            *)
LEMMA HeldGrows ==
    ASSUME TypeOK, IsFiniteSet(HeldInits), NEW t \in Threads, NEW k \in HeldTypes,
           held[t][k] < MaxHeld, held' = [held EXCEPT ![t][k] = @ + 1]
    PROVE  /\ IsFiniteSet(HeldInits')
           /\ Cardinality(HeldInits') = Cardinality(HeldInits) + 1
<1> DEFINE x == <<t, k, held[t][k] + 1>>
<1> USE ConstantsAssumption
<1>1. held \in [Threads -> [HeldTypes -> 0 .. MaxHeld]]
  BY DEF TypeOK
<1>2. \A u \in Threads, l \in HeldTypes :
          held'[u][l] = IF u = t /\ l = k THEN held[t][k] + 1 ELSE held[u][l]
  BY <1>1
<1>3. x \in Threads \X HeldTypes \X (1 .. MaxHeld)
  BY <1>1
<1>4. HeldInits' = HeldInits \cup {x}
  <2>1. ASSUME NEW h \in Threads \X HeldTypes \X (1 .. MaxHeld)
        PROVE  h[3] <= held'[h[1]][h[2]] <=> h[3] <= held[h[1]][h[2]] \/ h = x
    <3>1. PICK u \in Threads, l \in HeldTypes, n \in 1 .. MaxHeld : h = <<u, l, n>>
      BY <2>1
    <3>2. held[u][l] \in Int /\ n \in Int /\ held[t][k] \in Int
      BY <1>1
    <3>3. n <= held'[u][l] <=> n <= held[u][l] \/ (u = t /\ l = k /\ n = held[t][k] + 1)
      BY <1>2, <3>2
    <3> QED
      BY <3>1, <3>3
  <2> HIDE DEF x
  <2> QED
    BY <1>3, <2>1 DEF HeldInits
<1>5. x \notin HeldInits
  BY <1>1 DEF HeldInits
<1> QED
  BY <1>4, <1>5, FS_AddElement

(* and one less is one less.                                               *)
LEMMA HeldShrinks ==
    ASSUME TypeOK, IsFiniteSet(HeldInits), NEW t \in Threads, NEW k \in HeldTypes,
           held[t][k] > 0, held' = [held EXCEPT ![t][k] = @ - 1]
    PROVE  /\ IsFiniteSet(HeldInits')
           /\ Cardinality(HeldInits') = Cardinality(HeldInits) - 1
<1> DEFINE x == <<t, k, held[t][k]>>
<1> USE ConstantsAssumption
<1>1. held \in [Threads -> [HeldTypes -> 0 .. MaxHeld]]
  BY DEF TypeOK
<1>2. \A u \in Threads, l \in HeldTypes :
          held'[u][l] = IF u = t /\ l = k THEN held[t][k] - 1 ELSE held[u][l]
  BY <1>1
<1>3. HeldInits' = HeldInits \ {x}
  <2>1. ASSUME NEW h \in Threads \X HeldTypes \X (1 .. MaxHeld)
        PROVE  h[3] <= held'[h[1]][h[2]] <=> h[3] <= held[h[1]][h[2]] /\ h # x
    <3>1. PICK u \in Threads, l \in HeldTypes, n \in 1 .. MaxHeld : h = <<u, l, n>>
      BY <2>1
    <3>2. held[u][l] \in Int /\ n \in Int /\ held[t][k] \in Int
      BY <1>1
    <3>3. n <= held'[u][l] <=> n <= held[u][l] /\ ~(u = t /\ l = k /\ n = held[t][k])
      BY <1>2, <3>2
    <3> QED
      BY <3>1, <3>3
  <2> HIDE DEF x
  <2> QED
    BY <2>1 DEF HeldInits
<1>4. x \in HeldInits
  BY <1>1 DEF HeldInits
<1> QED
  BY <1>3, <1>4, FS_RemoveElement

(* Whoever holds something owes it.                                        *)
LEMMA HeldIsOwed ==
    ASSUME TypeOK, IsFiniteSet(HeldInits), NEW t \in Threads, NEW k \in HeldTypes, held[t][k] > 0
    PROVE  Cardinality(HeldInits) > 0
<1> USE ConstantsAssumption
<1>0. held \in [Threads -> [HeldTypes -> 0 .. MaxHeld]]
  BY DEF TypeOK
<1>1. held[t][k] \in 1 .. MaxHeld
  BY <1>0
<1>2. <<t, k, held[t][k]>> \in HeldInits
  BY <1>1 DEF HeldInits
<1>3. Cardinality(HeldInits) # 0 /\ Cardinality(HeldInits) \in Nat
  BY <1>2, FS_EmptySet, FS_CardinalityType
<1> QED
  BY <1>3

(* The same of the references to a context.                                *)
LEMMA RefsGrow ==
    ASSUME TypeOK, NEW c \in Contexts, IsFiniteSet(RefsTo(c)), NEW t \in Threads,
           refs[t][c] < MaxHeld, refs' = [refs EXCEPT ![t][c] = @ + 1]
    PROVE  /\ IsFiniteSet(RefsTo(c)')
           /\ Cardinality(RefsTo(c)') = Cardinality(RefsTo(c)) + 1
<1> DEFINE x == <<t, refs[t][c] + 1>>
<1> USE ConstantsAssumption
<1>1. refs \in [Threads -> [Contexts -> 0 .. MaxHeld]]
  BY DEF TypeOK
<1>2. \A u \in Threads : refs'[u][c] = IF u = t THEN refs[t][c] + 1 ELSE refs[u][c]
  BY <1>1
<1>3. x \in Threads \X (1 .. MaxHeld)
  BY <1>1
<1>4. RefsTo(c)' = RefsTo(c) \cup {x}
  <2>1. ASSUME NEW r \in Threads \X (1 .. MaxHeld)
        PROVE  r[2] <= refs'[r[1]][c] <=> r[2] <= refs[r[1]][c] \/ r = x
    <3>1. PICK u \in Threads, n \in 1 .. MaxHeld : r = <<u, n>>
      BY <2>1
    <3>2. refs[u][c] \in Int /\ n \in Int /\ refs[t][c] \in Int
      BY <1>1
    <3>3. n <= refs'[u][c] <=> n <= refs[u][c] \/ (u = t /\ n = refs[t][c] + 1)
      BY <1>2, <3>2
    <3> QED
      BY <3>1, <3>3
  <2> HIDE DEF x
  <2> QED
    BY <1>3, <2>1 DEF RefsTo
<1>5. x \notin RefsTo(c)
  BY <1>1 DEF RefsTo
<1> QED
  BY <1>4, <1>5, FS_AddElement

(* One less.                                                               *)
LEMMA RefsShrink ==
    ASSUME TypeOK, NEW c \in Contexts, IsFiniteSet(RefsTo(c)), NEW t \in Threads,
           refs[t][c] > 0, refs' = [refs EXCEPT ![t][c] = @ - 1]
    PROVE  /\ IsFiniteSet(RefsTo(c)')
           /\ Cardinality(RefsTo(c)') = Cardinality(RefsTo(c)) - 1
<1> DEFINE x == <<t, refs[t][c]>>
<1> USE ConstantsAssumption
<1>1. refs \in [Threads -> [Contexts -> 0 .. MaxHeld]]
  BY DEF TypeOK
<1>2. \A u \in Threads : refs'[u][c] = IF u = t THEN refs[t][c] - 1 ELSE refs[u][c]
  BY <1>1
<1>3. RefsTo(c)' = RefsTo(c) \ {x}
  <2>1. ASSUME NEW r \in Threads \X (1 .. MaxHeld)
        PROVE  r[2] <= refs'[r[1]][c] <=> r[2] <= refs[r[1]][c] /\ r # x
    <3>1. PICK u \in Threads, n \in 1 .. MaxHeld : r = <<u, n>>
      BY <2>1
    <3>2. refs[u][c] \in Int /\ n \in Int /\ refs[t][c] \in Int
      BY <1>1
    <3>3. n <= refs'[u][c] <=> n <= refs[u][c] /\ ~(u = t /\ n = refs[t][c])
      BY <1>2, <3>2
    <3> QED
      BY <3>1, <3>3
  <2> HIDE DEF x
  <2> QED
    BY <2>1 DEF RefsTo
<1>4. x \in RefsTo(c)
  BY <1>1 DEF RefsTo
<1> HIDE DEF x
<1>5. Cardinality(RefsTo(c) \ {x}) = Cardinality(RefsTo(c)) - 1 /\ IsFiniteSet(RefsTo(c) \ {x})
  BY <1>4, FS_RemoveElement
<1> QED
  BY <1>3, <1>5

(* Nobody has a reference exactly if there are none.                       *)
LEMMA RefsCount ==
    ASSUME TypeOK, NEW c \in Contexts, IsFiniteSet(RefsTo(c))
    PROVE  /\ Cardinality(RefsTo(c)) \in Nat
           /\ Cardinality(RefsTo(c)) = 0 <=> \A t \in Threads : refs[t][c] = 0
<1> USE ConstantsAssumption
<1>1. refs \in [Threads -> [Contexts -> 0 .. MaxHeld]]
  BY DEF TypeOK
<1>2. RefsTo(c) = {} <=> \A t \in Threads : refs[t][c] = 0
  <2>1. ASSUME RefsTo(c) = {}, NEW t \in Threads, refs[t][c] # 0 PROVE FALSE
    <3>1. <<t, refs[t][c]>> \in RefsTo(c)
      BY <1>1, <2>1 DEF RefsTo
    <3> QED
      BY <2>1, <3>1
  <2>2. ASSUME \A t \in Threads : refs[t][c] = 0, NEW r \in RefsTo(c) PROVE FALSE
    BY <2>2 DEF RefsTo
  <2> QED
    BY <2>1, <2>2
<1> QED
  BY <1>2, FS_CardinalityType, FS_EmptySet

One(b) == IF b THEN 1 ELSE 0

(* A set that gains or loses one element.                                  *)
LEMMA OneElement ==
    ASSUME NEW S, NEW T, NEW x, IsFiniteSet(S), \A y : y # x => (y \in S <=> y \in T)
    PROVE  /\ IsFiniteSet(T)
           /\ Cardinality(S) \in Nat
           /\ Cardinality(T) = Cardinality(S) + One(x \in T) - One(x \in S)
<1>1. Cardinality(S) \in Nat
  BY FS_CardinalityType
<1>2. CASE x \in S /\ x \notin T
  <2>1. T = S \ {x}
    BY <1>2
  <2> QED
    BY <1>1, <1>2, <2>1, FS_RemoveElement DEF One
<1>3. CASE x \notin S /\ x \in T
  <2>1. T = S \cup {x}
    BY <1>3
  <2> QED
    BY <1>1, <1>3, <2>1, FS_AddElement DEF One
<1>4. CASE x \in S <=> x \in T
  <2>1. T = S
    BY <1>4
  <2> QED
    BY <1>1, <2>1 DEF One
<1> QED
  BY <1>2, <1>3, <1>4

(* A thread that goes from one call to another,                            *)
LEMMA UndoingStep ==
    ASSUME NEW t \in Threads, NEW r, call \in [Threads -> CallRecs], IsFiniteSet(Undoing),
           call' = [call EXCEPT ![t] = r]
    PROVE  /\ IsFiniteSet(Undoing')
           /\ Cardinality(Undoing') =
                  Cardinality(Undoing) + One(r.op = "uninit") - One(call[t].op = "uninit")
<1>1. \A u : u # t => (u \in Undoing <=> u \in Undoing')
  BY DEF Undoing
<1>2. (t \in Undoing <=> call[t].op = "uninit") /\ (t \in Undoing' <=> r.op = "uninit")
  BY DEF Undoing
<1>3. One(t \in Undoing) = One(call[t].op = "uninit") /\ One(t \in Undoing') = One(r.op = "uninit")
  BY <1>2 DEF One
<1> HIDE DEF Undoing
<1> QED
  BY <1>1, <1>3, OneElement

(* and a context that changes.                                             *)
LEMMA TakenStep ==
    ASSUME NEW c \in Contexts, NEW x, ctxs \in [Contexts -> CtxRecs], IsFiniteSet(TakenByCtx),
           ctxs' = [ctxs EXCEPT ![c] = x]
    PROVE  /\ IsFiniteSet(TakenByCtx')
           /\ Cardinality(TakenByCtx') =
                  Cardinality(TakenByCtx) + One(x.opensslInitTaken) - One(ctxs[c].opensslInitTaken)
<1>1. \A d : d # c => (d \in TakenByCtx <=> d \in TakenByCtx')
  BY DEF TakenByCtx
<1>2. (c \in TakenByCtx <=> ctxs[c].opensslInitTaken) /\ (c \in TakenByCtx' <=> x.opensslInitTaken)
  BY DEF TakenByCtx
<1>3. /\ One(c \in TakenByCtx) = One(ctxs[c].opensslInitTaken)
      /\ One(c \in TakenByCtx') = One(x.opensslInitTaken)
  BY <1>2 DEF One
<1> QED
  BY <1>1, <1>3, OneElement

(* Whoever has a debt keeps OpenSSL initialized.                           *)
LEMMA DebtsMeanInit ==
    ASSUME TypeOK, CountInv
    PROVE  /\ Cardinality(HeldInits) \in Nat /\ Cardinality(Undoing) \in Nat
           /\ Cardinality(TakenByCtx) \in Nat
           /\ \A t \in Threads : Holds(t) => init.isInitialized
           /\ \A t \in Threads : call[t].op = "uninit" => init.isInitialized
           /\ \A c \in Contexts : ctxs[c].opensslInitTaken => init.isInitialized
<1>1. /\ Cardinality(HeldInits) \in Nat /\ Cardinality(Undoing) \in Nat
      /\ Cardinality(TakenByCtx) \in Nat
  BY FS_CardinalityType DEF CountInv
<1>2. Cardinality(HeldInits) + Cardinality(Undoing) + Cardinality(TakenByCtx) > 0
          => init.isInitialized
  BY DEF CountInv, Owed
<1>3. ASSUME NEW t \in Threads, Holds(t) PROVE init.isInitialized
  <2>1. PICK k \in HeldTypes : held[t][k] > 0
    BY <1>3 DEF Holds
  <2>2. Cardinality(HeldInits) > 0
    BY <2>1, HeldIsOwed DEF CountInv
  <2> QED
    BY <1>1, <1>2, <2>2
<1>4. ASSUME NEW t \in Threads, call[t].op = "uninit" PROVE init.isInitialized
  <2>1. t \in Undoing
    BY <1>4 DEF Undoing
  <2>2. Cardinality(Undoing) # 0
    BY <2>1, FS_EmptySet DEF CountInv
  <2> QED
    BY <1>1, <1>2, <2>2
<1>5. ASSUME NEW c \in Contexts, ctxs[c].opensslInitTaken PROVE init.isInitialized
  <2>1. c \in TakenByCtx
    BY <1>5 DEF TakenByCtx
  <2>2. Cardinality(TakenByCtx) # 0
    BY <2>1, FS_EmptySet DEF CountInv
  <2> QED
    BY <1>1, <1>2, <2>2
<1> QED
  BY <1>1, <1>3, <1>4, <1>5

-----------------------------------------------------------------------------
(* What the count becomes.                                                 *)

LocksFit == locks <=> Legacy /\ init.isInitialized /\ init.initType = "multi"

(* An initialisation that is taken counts one more, and keeps the type     *)
(* OpenSSL was first initialized with; one that is not changes nothing.    *)
LEMMA InitMeans ==
    ASSUME TypeOK, CountInv, NEW type \in InitTypes, NEW taken \in BOOLEAN,
           InitAlreadyLocked(type, taken) \/ InitConditional(type, taken)
    PROVE  /\ init' \in InitRecs /\ locks' \in BOOLEAN /\ fault' = fault
           /\ init'.refCount = init.refCount + One(taken)
           /\ init'.isInitialized <=> init'.refCount > 0
           /\ LocksFit'
           /\ init.initType = "multi" /\ init.isInitialized => init'.initType = "multi"
           /\ ~taken => init' = init
           /\ InitAlreadyLocked(type, taken) /\ taken /\ type = "multi" => init'.initType = "multi"
<1> USE ConstantsAssumption
<1>1. init \in InitRecs /\ locks \in BOOLEAN
  BY DEF TypeOK, InitRecs
<1>2. LocksFit /\ (init.isInitialized <=> init.refCount > 0)
  BY DEF CountInv, LocksFit
<1>3. CASE ~init.isInitialized
  <2>1. InitLow(type, taken)
    BY <1>3 DEF InitAlreadyLocked, InitConditional
  <2>2. init.refCount = 0
    BY <1>1, <1>2, <1>3 DEF InitRecs
  <2>3. ~locks /\ fault' = fault
    BY <1>2, <1>3, <2>1 DEF InitLow, Fails, LocksFit
  <2>4. locks' \in BOOLEAN /\ (locks' <=> taken /\ Legacy /\ type = "multi")
    BY <2>1, <2>3 DEF InitLow
  <2>5. CASE taken
    <3>1. init' = [isInitialized |-> TRUE, initType |-> type, refCount |-> 1]
      BY <2>1, <2>5 DEF InitLow
    <3>2. /\ init' \in InitRecs
          /\ init'.isInitialized /\ init'.refCount = 1 /\ init'.initType = type
      BY <3>1 DEF InitRecs
    <3>3. LocksFit'
      BY <2>4, <2>5, <3>2 DEF LocksFit
    <3>4. init'.refCount = init.refCount + One(taken) /\ init'.refCount > 0
      BY <2>2, <2>5, <3>2 DEF One
    <3> QED
      BY <1>3, <2>3, <2>4, <2>5, <3>2, <3>3, <3>4, Zenon
  <2>6. CASE ~taken
    <3>1. init' = init
      BY <2>1, <2>6 DEF InitLow
    <3>2. LocksFit'
      BY <1>3, <2>4, <2>6, <3>1 DEF LocksFit
    <3> QED
      BY <1>1, <1>2, <1>3, <2>2, <2>3, <2>4, <2>6, <3>1, <3>2 DEF One
  <2> QED
    BY <2>5, <2>6
<1>4. CASE init.isInitialized
  <2>1. \/ taken /\ Counted
        \/ ~taken /\ UNCHANGED <<init, locks, fault>>
    BY <1>4 DEF InitAlreadyLocked, InitConditional
  <2>2. InitAlreadyLocked(type, taken) /\ taken /\ type = "multi" => init.initType = "multi"
    BY <1>1, <1>4 DEF InitAlreadyLocked, InitRecs, InitTypes
  <2>3. CASE taken
    <3>1. init' = [init EXCEPT !.refCount = @ + 1] /\ locks' = locks /\ fault' = fault
      BY <2>1, <2>3 DEF Counted
    <3>2. /\ init' \in InitRecs /\ init'.refCount = init.refCount + 1
          /\ init'.isInitialized = init.isInitialized /\ init'.initType = init.initType
          /\ init'.refCount > 0
      BY <1>1, <3>1 DEF InitRecs
    <3>3. LocksFit'
      BY <1>2, <3>1, <3>2 DEF LocksFit
    <3> QED
      BY <1>1, <1>4, <2>2, <2>3, <3>1, <3>2, <3>3 DEF One
  <2>4. CASE ~taken
    <3>1. init' = init /\ locks' = locks /\ fault' = fault
      BY <2>1, <2>4
    <3>2. LocksFit'
      BY <1>2, <3>1 DEF LocksFit
    <3>3. init.refCount \in Nat
      BY <1>1 DEF InitRecs
    <3> QED
      BY <1>1, <1>2, <1>4, <2>4, <3>1, <3>2, <3>3 DEF One
  <2> QED
    BY <2>3, <2>4
<1> QED
  BY <1>3, <1>4

(* Undoing one counts one less, the last one takes OpenSSL down.           *)
LEMMA UninitMeans ==
    ASSUME TypeOK, CountInv, Uninit, init.isInitialized
    PROVE  /\ init' \in InitRecs /\ locks' \in BOOLEAN /\ fault' = fault
           /\ init'.refCount = init.refCount - 1
           /\ init'.isInitialized <=> init'.refCount > 0
           /\ LocksFit'
           /\ init'.isInitialized => init'.initType = init.initType
<1>1. init \in InitRecs /\ locks \in BOOLEAN /\ init.refCount \in Nat
  BY DEF TypeOK, InitRecs
<1>2. LocksFit /\ init.refCount > 0
  BY DEF CountInv, LocksFit
<1>3. /\ init' = IF init.refCount <= 1 THEN NotInit ELSE [init EXCEPT !.refCount = @ - 1]
      /\ fault' = fault
  BY DEF Uninit, Fails
<1>4. locks' = (locks /\ init.refCount > 1)
  BY DEF Uninit
<1>5. CASE init.refCount = 1
  <2>1. init' = NotInit /\ ~(init.refCount > 1)
    BY <1>3, <1>5
  <2>2. locks' = FALSE
    BY <1>4, <2>1
  <2>3. init' \in InitRecs /\ init'.refCount = 0 /\ ~init'.isInitialized
    BY <2>1 DEF NotInit, InitRecs, InitTypes
  <2>4. LocksFit'
    BY <2>2, <2>3 DEF LocksFit
  <2>5. init'.refCount = init.refCount - 1 /\ ~(init'.refCount > 0)
    BY <1>5, <2>3
  <2>6. locks' \in BOOLEAN
    BY <2>2
  <2> QED
    BY <1>3, <2>3, <2>4, <2>5, <2>6, Zenon
<1>6. CASE init.refCount > 1
  <2>1. init' = [init EXCEPT !.refCount = @ - 1]
    BY <1>1, <1>3, <1>6
  <2>2. locks' \in BOOLEAN /\ (locks' <=> locks)
    BY <1>1, <1>4, <1>6
  <2>3. init.refCount - 1 \in Nat /\ init.refCount - 1 > 0
    BY <1>1, <1>6
  <2>4. /\ init' \in InitRecs /\ init'.refCount = init.refCount - 1
        /\ init'.isInitialized = init.isInitialized /\ init'.initType = init.initType
        /\ init'.refCount > 0
    BY <1>1, <2>3, <2>1 DEF InitRecs
  <2>5. LocksFit'
    BY <1>2, <2>2, <2>4 DEF LocksFit
  <2> QED
    BY <1>3, <2>2, <2>4, <2>5
<1> QED
  BY <1>1, <1>2, <1>5, <1>6

-----------------------------------------------------------------------------
(* What a step leaves alone.                                               *)

(* The shapes of the variables.                                            *)
LEMMA Shapes ==
    ASSUME TypeOK
    PROVE  /\ mutex \in Threads \cup {Nobody} /\ locks \in BOOLEAN
           /\ init \in InitRecs /\ init.refCount \in Nat
           /\ ctxs \in [Contexts -> CtxRecs]
           /\ call \in [Threads -> CallRecs]
           /\ held \in [Threads -> [HeldTypes -> 0 .. MaxHeld]]
           /\ refs \in [Threads -> [Contexts -> 0 .. MaxHeld]]
BY DEF TypeOK, InitRecs, CtxRecs, CallRecs

(* The count follows the debts.                                            *)
LEMMA CountStep ==
    ASSUME TypeOK, CountInv,
           IsFiniteSet(HeldInits'), IsFiniteSet(Undoing'), IsFiniteSet(TakenByCtx'),
           NEW h \in Int, Cardinality(HeldInits') = Cardinality(HeldInits) + h,
           NEW u \in Int, Cardinality(Undoing') = Cardinality(Undoing) + u,
           NEW x \in Int, Cardinality(TakenByCtx') = Cardinality(TakenByCtx) + x,
           init'.refCount = init.refCount + (h + u + x),
           init'.isInitialized <=> init'.refCount > 0,
           LocksFit',
           \A t \in Threads : held'[t]["multi"] > 0 => init'.initType = "multi"
    PROVE  CountInv'
<1>1. /\ Cardinality(HeldInits) \in Nat /\ Cardinality(Undoing) \in Nat
      /\ Cardinality(TakenByCtx) \in Nat
  BY DebtsMeanInit
<1>2. init.refCount = Owed
  BY DEF CountInv
<1>3. init'.refCount = Owed'
  BY <1>1, <1>2 DEF Owed
<1> QED
  BY <1>3 DEF CountInv, LocksFit

(* Another thread's call is not disturbed,                                 *)
LEMMA CallsStep ==
    ASSUME Inv, NEW t \in Threads, NEW r \in CallRecs,
           call' = [call EXCEPT ![t] = r],
           \A u \in Threads : u # t => held'[u] = held[u],
           \A u \in Threads, c \in Contexts : u # t /\ refs[u][c] > 0 => refs'[u][c] > 0,
           r.ctx \in {NoCtx, call[t].ctx} \/ ~Busy(r.ctx),
           CallOK(t)'
    PROVE  (\A u \in Threads : CallOK(u)') /\ OneMaker'
<1>1. call \in [Threads -> CallRecs]
  BY Shapes DEF Inv
<1>2. ASSUME NEW u \in Threads, u # t PROVE CallOK(u)'
  <2>1. CallOK(u) /\ call'[u] = call[u] /\ held'[u] = held[u]
    BY <1>1, <1>2 DEF Inv
  <2>2. \A c \in Contexts : refs[u][c] > 0 => refs'[u][c] > 0
    BY <1>2
  <2>3. Holds(u) <=> Holds(u)'
    BY <2>1 DEF Holds
  <2> QED
    BY <2>1, <2>2, <2>3 DEF CallOK
<1>3. ASSUME NEW u \in Threads, NEW v \in Threads, call'[u].ctx = call'[v].ctx,
             call'[u].ctx # NoCtx
      PROVE  u = v
  <2>1. \A w \in Threads : call'[w] = IF w = t THEN r ELSE call[w]
    BY <1>1
  <2>2. \A w \in Threads, y \in Threads :
            call[w].ctx = call[y].ctx /\ call[w].ctx # NoCtx => w = y
    BY DEF Inv, OneMaker
  <2>3. r.ctx # NoCtx => \A w \in Threads : w # t => call[w].ctx # r.ctx
    BY <2>2 DEF Busy
  <2> QED
    BY <1>3, <2>1, <2>2, <2>3
<1> QED
  BY <1>2, <1>3 DEF OneMaker

(* nor a context it is not about.                                          *)
LEMMA CtxFrame ==
    ASSUME Inv, NEW t \in Threads, NEW r \in CallRecs, NEW c, NEW d \in Contexts,
           call' = [call EXCEPT ![t] = r],
           r.ctx \in {NoCtx, c}, call[t].ctx \in {NoCtx, c}, d # c,
           ctxs'[d] = ctxs[d], \A u \in Threads : refs'[u][d] = refs[u][d]
    PROVE  CtxOK(d)'
<1>1. call \in [Threads -> CallRecs]
  BY Shapes DEF Inv
<1>2. CtxOK(d)
  BY DEF Inv
<1>3. d # NoCtx
  BY NamesAssumption
<1>4. /\ call'[t].ctx # d /\ call[t].ctx # d
      /\ \A u \in Threads : u # t => call'[u] = call[u]
  BY <1>1, <1>3
<1>5. RefsTo(d)' = RefsTo(d)
  BY DEF RefsTo
<1>6. Busy(d)' <=> Busy(d)
  BY <1>4 DEF Busy
<1>7. \A u \in Threads : call'[u].ctx = d => call'[u] = call[u]
  BY <1>4
<1> QED
  BY <1>2, <1>5, <1>6, <1>7 DEF CtxOK, MakingOK

(* All of them stay as they are when the call is not about one.            *)
LEMMA CtxsUntouched ==
    ASSUME Inv, NEW t \in Threads, NEW r \in CallRecs,
           call' = [call EXCEPT ![t] = r], r.ctx = NoCtx, call[t].ctx = NoCtx,
           ctxs' = ctxs, refs' = refs
    PROVE  \A d \in Contexts : CtxOK(d)'
<1>1. \A d \in Contexts : d # NoCtx
  BY NamesAssumption
<1> QED
  BY <1>1, CtxFrame

(* A step of a call that has nothing to do with a context, or with what    *)
(* is owed.                                                                *)
LEMMA PlainStep ==
    ASSUME Inv, NEW t \in Threads, NEW r \in CallRecs,
           call' = [call EXCEPT ![t] = r], r.ctx = NoCtx, call[t].ctx = NoCtx,
           r.op # "uninit", call[t].op # "uninit",
           mutex' \in Threads \cup {Nobody},
           UNCHANGED <<init, locks, ctxs, held, refs, fault>>,
           CallOK(t)'
    PROVE  Inv'
<1>1. TypeOK /\ CountInv /\ fault = "" /\ call \in [Threads -> CallRecs]
  BY Shapes DEF Inv
<1>2. TypeOK'
  BY <1>1 DEF TypeOK, CallRecs
<1>3. HeldInits' = HeldInits /\ TakenByCtx' = TakenByCtx
  BY DEF HeldInits, TakenByCtx
<1>4. Undoing' = Undoing
  BY <1>1 DEF Undoing
<1>5. CountInv'
  BY <1>1, <1>3, <1>4 DEF CountInv, Owed
<1>6. (\A u \in Threads : CallOK(u)') /\ OneMaker'
  BY CallsStep
<1>7. \A d \in Contexts : CtxOK(d)'
  BY CtxsUntouched
<1> QED
  BY <1>1, <1>2, <1>5, <1>6, <1>7 DEF Inv

-----------------------------------------------------------------------------
(* The steps.                                                              *)

(* A thread without a call, and a call without a context, owe nothing.     *)
LEMMA IdleMeans ==
    ASSUME Inv, NEW t \in Threads, call[t].op \notin CtxOps
    PROVE  call[t].ctx = NoCtx
BY DEF Inv, CallOK

(* Who has a reference to a context has a context that is not being made   *)
(* or destroyed,                                                           *)
LEMMA RefMeans ==
    ASSUME Inv, NEW t \in Threads, NEW c \in Contexts, refs[t][c] > 0
    PROVE  /\ ~Busy(c) /\ IsFiniteSet(RefsTo(c))
           /\ Cardinality(RefsTo(c)) \in Nat /\ Cardinality(RefsTo(c)) > 0
           /\ ctxs[c].refCount = Cardinality(RefsTo(c))
           /\ ctxs[c].mem /\ ctxs[c].opensslCtx /\ ctxs[c].opensslInitTaken
           /\ init.isInitialized
<1>1. TypeOK /\ CountInv /\ CtxOK(c)
  BY DEF Inv
<1>2. IsFiniteSet(RefsTo(c)) /\ refs[t][c] # 0
  BY <1>1 DEF CtxOK
<1>3. Cardinality(RefsTo(c)) \in Nat /\ Cardinality(RefsTo(c)) # 0
  BY <1>1, <1>2, RefsCount
<1>4. ~Busy(c)
  BY <1>1, <1>2 DEF CtxOK
<1>5. ctxs[c].refCount = Cardinality(RefsTo(c)) /\ Cardinality(RefsTo(c)) > 0
  BY <1>1, <1>3, <1>4 DEF CtxOK
<1>6. ctxs[c].mem /\ ctxs[c].opensslCtx /\ ctxs[c].opensslInitTaken
  BY <1>1, <1>4, <1>5 DEF CtxOK
<1> QED
  BY <1>1, <1>2, <1>3, <1>4, <1>5, <1>6, DebtsMeanInit

(* and who may use OpenSSL finds it initialized.                           *)
LEMMA UsersMeanInit ==
    ASSUME Inv, NEW t \in Threads, Holds(t) \/ \E c \in Contexts : refs[t][c] > 0
    PROVE  init.isInitialized
<1>1. Holds(t) => init.isInitialized
  BY DebtsMeanInit DEF Inv
<1> QED
  BY <1>1, RefMeans

(* Calls begin,                                                            *)
LEMMA InitBegins ==
    ASSUME Inv, NEW t \in Threads,
           (\E type \in InitTypes : PmSockOpensslInit(t, type)) \/ EnterCrypto(t)
               \/ PmSockOpensslThreadCleanup(t) \/ UseOpenssl(t)
    PROVE  Inv'
<1>1. PICK op \in {"init", "conditional", "cleanup", "ssl"}, type \in InitTypes :
        /\ Idle(t)
        /\ call' = [call EXCEPT ![t] = [op |-> op, type |-> type, ctx |-> NoCtx]]
        /\ op = "init" => held[t][type] < MaxHeld
        /\ op = "conditional" => held[t]["conditional"] < MaxHeld
        /\ op = "ssl" => Holds(t) \/ \E c \in Contexts : refs[t][c] > 0
  <2>1. CASE \E type \in InitTypes : PmSockOpensslInit(t, type)
    BY <2>1 DEF PmSockOpensslInit, Calls
  <2>2. CASE EnterCrypto(t)
    BY <2>2 DEF EnterCrypto, Calls, Default, InitTypes
  <2>3. CASE PmSockOpensslThreadCleanup(t)
    BY <2>3 DEF PmSockOpensslThreadCleanup, Calls, InitTypes
  <2>4. CASE UseOpenssl(t)
    BY <2>4 DEF UseOpenssl, Calls, InitTypes
  <2> QED
    BY <2>1, <2>2, <2>3, <2>4
<1>2. UNCHANGED <<mutex, init, locks, ctxs, held, refs>>
  BY DEF PmSockOpensslInit, EnterCrypto, PmSockOpensslThreadCleanup, UseOpenssl
<1>3. TypeOK /\ CountInv /\ call \in [Threads -> CallRecs] /\ mutex \in Threads \cup {Nobody}
  BY Shapes DEF Inv
<1>4. fault' = fault
  <2>1. CASE UseOpenssl(t)
    <3>1. init.isInitialized
      BY <2>1, UsersMeanInit DEF UseOpenssl
    <3> QED
      BY <2>1, <3>1 DEF UseOpenssl, Fails
  <2>2. CASE ~UseOpenssl(t)
    BY <2>2 DEF PmSockOpensslInit, EnterCrypto, PmSockOpensslThreadCleanup
  <2> QED
    BY <2>1, <2>2
<1> DEFINE r == [op |-> op, type |-> type, ctx |-> NoCtx]
<1>5. r \in CallRecs /\ r.ctx = NoCtx /\ r.op # "uninit" /\ r.op = op /\ r.type = type
  BY DEF CallRecs, Ops
<1>6. call[t].ctx = NoCtx /\ call[t].op # "uninit"
  BY <1>1, IdleMeans DEF Idle, CtxOps
<1>7. CallOK(t)'
  <2>1. call'[t] = r
    BY <1>1, <1>3
  <2>2. Holds(t)' <=> Holds(t)
    BY <1>2 DEF Holds
  <2>3. op \notin CtxOps
    BY DEF CtxOps
  <2> QED
    BY <1>1, <1>2, <1>5, <2>1, <2>2, <2>3 DEF CallOK
<1> HIDE DEF r
<1> QED
  BY <1>1, <1>2, <1>3, <1>4, <1>5, <1>6, <1>7, PlainStep DEF r

(* OpenSSL was used,                                                       *)
LEMMA UseEnds ==
    ASSUME Inv, NEW t \in Threads, UsedOpenssl(t)
    PROVE  Inv'
<1>1. TypeOK /\ CountInv /\ call \in [Threads -> CallRecs] /\ mutex \in Threads \cup {Nobody}
  BY Shapes DEF Inv
<1>2. call[t].op = "ssl"
  BY DEF UsedOpenssl
<1>3. init.isInitialized
  <2>1. Holds(t) \/ \E c \in Contexts : refs[t][c] > 0
    BY <1>2 DEF Inv, CallOK
  <2> QED
    BY <2>1, UsersMeanInit
<1>4. fault' = fault
  <2>1. locks <=> Legacy /\ init.isInitialized /\ init.initType = "multi"
    BY DEF Inv, CountInv
  <2> QED
    BY <1>3, <2>1 DEF UsedOpenssl, Fails
<1>5. call' = [call EXCEPT ![t] = NoCall] /\ UNCHANGED <<mutex, init, locks, ctxs, held, refs>>
  BY DEF UsedOpenssl
<1>6. NoCall \in CallRecs /\ NoCall.op = "none" /\ NoCall.ctx = NoCtx
  BY DEF NoCall, CallRecs, Ops, InitTypes
<1>7. call[t].ctx = NoCtx
  BY <1>2, IdleMeans DEF CtxOps
<1>8. CallOK(t)'
  <2>1. call'[t] = NoCall
    BY <1>1, <1>5
  <2> QED
    BY <1>6, <2>1 DEF CallOK, CtxOps
<1> HIDE DEF NoCall
<1> QED
  BY <1>1, <1>2, <1>4, <1>5, <1>6, <1>7, <1>8, PlainStep

(* a thread cleaned up,                                                    *)
LEMMA CleanupEnds ==
    ASSUME Inv, NEW t \in Threads, WorkThreadCleanup(t)
    PROVE  Inv'
<1>1. call \in [Threads -> CallRecs]
  BY Shapes DEF Inv
<1>2. /\ call[t].op = "cleanup" /\ call' = [call EXCEPT ![t] = NoCall] /\ mutex' = Nobody
      /\ UNCHANGED <<init, locks, ctxs, held, refs, fault>>
  BY DEF WorkThreadCleanup, Unlocks, Returns
<1>3. NoCall \in CallRecs /\ NoCall.op = "none" /\ NoCall.ctx = NoCtx
  BY DEF NoCall, CallRecs, Ops, InitTypes
<1>4. call[t].ctx = NoCtx
  BY <1>2, IdleMeans DEF CtxOps
<1>5. CallOK(t)'
  <2>1. call'[t] = NoCall
    BY <1>1, <1>2
  <2> QED
    BY <1>3, <2>1 DEF CallOK, CtxOps
<1> QED
  BY <1>1, <1>2, <1>3, <1>4, <1>5, PlainStep

(* it took the mutex, or nothing happened.                                 *)
LEMMA LockTaken ==
    ASSUME Inv, (\E t \in Threads : Lock(t)) \/ UNCHANGED vars
    PROVE  Inv'
<1>1. UNCHANGED <<init, locks, ctxs, call, held, refs, fault>>
  BY DEF Lock, vars
<1>2. mutex' \in Threads \cup {Nobody}
  BY Shapes DEF Lock, vars, Inv
<1>3. TypeOK'
  BY <1>1, <1>2 DEF Inv, TypeOK
<1>4. HeldInits' = HeldInits /\ TakenByCtx' = TakenByCtx /\ Undoing' = Undoing
  BY <1>1 DEF HeldInits, TakenByCtx, Undoing
<1>5. CountInv'
  BY <1>1, <1>4 DEF Inv, CountInv, Owed
<1>6. (\A u \in Threads : CallOK(u)') /\ OneMaker'
  BY <1>1 DEF Inv, CallOK, Holds, OneMaker
<1>7. ASSUME NEW c \in Contexts PROVE CtxOK(c)'
  <2>1. RefsTo(c)' = RefsTo(c) /\ (Busy(c)' <=> Busy(c))
    BY <1>1 DEF RefsTo, Busy
  <2> QED
    BY <1>1, <2>1 DEF Inv, CtxOK, MakingOK
<1> QED
  BY <1>1, <1>3, <1>5, <1>6, <1>7 DEF Inv

(* An initialisation is about to be undone: the debt moves to the call.    *)
LEMMA UninitBegins ==
    ASSUME Inv, NEW t \in Threads, NEW kind \in HeldTypes, PmSockOpensslUninit(t, kind)
    PROVE  Inv'
<1> DEFINE r == [op |-> "uninit", type |-> "single", ctx |-> NoCtx]
<1>1. /\ held[t][kind] > 0 /\ held' = [held EXCEPT ![t][kind] = @ - 1]
      /\ call' = [call EXCEPT ![t] = r] /\ call[t].op = "none"
      /\ UNCHANGED <<mutex, init, locks, ctxs, refs, fault>>
  BY DEF PmSockOpensslUninit, Calls, Idle
<1>2. r \in CallRecs /\ r.op = "uninit" /\ r.ctx = NoCtx
  BY DEF CallRecs, Ops, InitTypes
<1> HIDE DEF r
<1>3. TypeOK /\ CountInv
  BY DEF Inv
<1>4. /\ call \in [Threads -> CallRecs] /\ ctxs \in [Contexts -> CtxRecs]
      /\ held \in [Threads -> [HeldTypes -> 0 .. MaxHeld]]
  BY <1>3, Shapes
<1>5. call[t].ctx = NoCtx
  BY <1>1, IdleMeans DEF CtxOps
<1>6. held' \in [Threads -> [HeldTypes -> 0 .. MaxHeld]]
  BY <1>1, <1>4, ConstantsAssumption
<1>7. TypeOK'
  <2>1. call' \in [Threads -> CallRecs]
    BY <1>1, <1>2, <1>4
  <2> QED
    BY <1>1, <1>3, <1>6, <2>1 DEF TypeOK, CallRecs
<1>8. CountInv'
  <2>1. IsFiniteSet(HeldInits') /\ Cardinality(HeldInits') = Cardinality(HeldInits) + (-1)
    <3>1. IsFiniteSet(HeldInits') /\ Cardinality(HeldInits') = Cardinality(HeldInits) - 1
      BY <1>1, <1>3, HeldShrinks DEF CountInv
    <3>2. Cardinality(HeldInits) \in Nat
      BY <1>3, DebtsMeanInit
    <3> QED
      BY <3>1, <3>2
  <2>2. IsFiniteSet(Undoing') /\ Cardinality(Undoing') = Cardinality(Undoing) + 1
    <3>1. /\ IsFiniteSet(Undoing')
          /\ Cardinality(Undoing') =
                 Cardinality(Undoing) + One(r.op = "uninit") - One(call[t].op = "uninit")
      BY <1>1, <1>3, <1>4, UndoingStep DEF CountInv
    <3>2. One(r.op = "uninit") = 1 /\ One(call[t].op = "uninit") = 0
      BY <1>1, <1>2 DEF One
    <3>3. Cardinality(Undoing) \in Nat
      BY <1>3, DebtsMeanInit
    <3> QED
      BY <3>1, <3>2, <3>3
  <2>3. /\ IsFiniteSet(TakenByCtx') /\ Cardinality(TakenByCtx') = Cardinality(TakenByCtx) + 0
    <3>1. TakenByCtx' = TakenByCtx /\ IsFiniteSet(TakenByCtx)
      BY <1>1, <1>3 DEF TakenByCtx, CountInv
    <3>2. Cardinality(TakenByCtx) \in Nat
      BY <1>3, DebtsMeanInit
    <3> QED
      BY <3>1, <3>2
  <2>4. init'.refCount = init.refCount + (-1 + 1 + 0)
    BY <1>1, <1>3, Shapes
  <2>5. (init'.isInitialized <=> init'.refCount > 0) /\ LocksFit'
    BY <1>1, <1>3 DEF CountInv, LocksFit
  <2>6. \A u \in Threads : held'[u]["multi"] > 0 => init'.initType = "multi"
    <3>1. ASSUME NEW u \in Threads, held'[u]["multi"] > 0 PROVE held[u]["multi"] > 0
      BY <1>1, <1>4, <3>1 DEF HeldTypes, InitTypes
    <3> QED
      BY <1>1, <1>3, <3>1 DEF CountInv
  <2> HIDE DEF HeldInits, Undoing, TakenByCtx
  <2> QED
    BY <1>3, <2>1, <2>2, <2>3, <2>4, <2>5, <2>6, CountStep
<1>9. (\A u \in Threads : CallOK(u)') /\ OneMaker'
  <2>1. CallOK(t)'
    <3>1. call'[t] = r
      BY <1>1, <1>4
    <3> QED
      BY <1>2, <3>1 DEF CallOK, CtxOps
  <2>2. \A u \in Threads : u # t => held'[u] = held[u]
    BY <1>1, <1>4
  <2> QED
    BY <1>1, <1>2, <2>1, <2>2, CallsStep
<1>10. \A d \in Contexts : CtxOK(d)'
  BY <1>1, <1>2, <1>5, CtxsUntouched
<1> QED
  BY <1>1, <1>7, <1>8, <1>9, <1>10 DEF Inv

(* As long as anybody still holds an initialisation its type is kept.      *)
LEMMA UninitKeepsType ==
    ASSUME TypeOK, CountInv, Uninit, held' = held,
           (\E t \in Threads : call[t].op = "uninit") \/ (\E c \in Contexts : ctxs[c].opensslInitTaken)
    PROVE  \A u \in Threads : held'[u]["multi"] > 0 => init'.initType = "multi"
<1>1. SUFFICES ASSUME NEW u \in Threads, held[u]["multi"] > 0
               PROVE  init'.initType = "multi"
  OBVIOUS
<1>2. Cardinality(HeldInits) > 0
  BY <1>1, HeldIsOwed DEF CountInv, HeldTypes, InitTypes
<1>3. /\ Cardinality(HeldInits) \in Nat /\ Cardinality(Undoing) \in Nat
      /\ Cardinality(TakenByCtx) \in Nat
  BY DebtsMeanInit
<1>4. Cardinality(Undoing) # 0 \/ Cardinality(TakenByCtx) # 0
  <2>1. Undoing # {} \/ TakenByCtx # {}
    BY DEF Undoing, TakenByCtx
  <2> QED
    BY <2>1, FS_EmptySet DEF CountInv
<1>5. init.refCount > 1
  BY <1>2, <1>3, <1>4 DEF CountInv, Owed
<1>6. init.isInitialized
  BY <1>1, DebtsMeanInit DEF Holds, HeldTypes, InitTypes
<1>7. init'.refCount = init.refCount - 1 /\ (init'.isInitialized <=> init'.refCount > 0)
  BY <1>6, UninitMeans
<1>8. init'.refCount > 0
  BY <1>5, <1>7, Shapes
<1>9. init'.initType = init.initType
  BY <1>6, <1>7, <1>8, UninitMeans
<1> QED
  BY <1>1, <1>9 DEF CountInv

(* An initialisation is undone.                                            *)
LEMMA UninitEnds ==
    ASSUME Inv, NEW t \in Threads, WorkUninit(t)
    PROVE  Inv'
<1>1. /\ call[t].op = "uninit" /\ call' = [call EXCEPT ![t] = NoCall] /\ mutex' = Nobody
      /\ Uninit /\ UNCHANGED <<ctxs, held, refs>>
  BY DEF WorkUninit, Unlocks, Returns
<1>2. NoCall \in CallRecs /\ NoCall.op = "none" /\ NoCall.ctx = NoCtx
  BY DEF NoCall, CallRecs, Ops, InitTypes
<1>3. TypeOK /\ CountInv
  BY DEF Inv
<1>4. call \in [Threads -> CallRecs] /\ init.refCount \in Nat
  BY <1>3, Shapes
<1>5. call[t].ctx = NoCtx
  BY <1>1, IdleMeans DEF CtxOps
<1>6. init.isInitialized
  BY <1>1, <1>3, DebtsMeanInit
<1>7. /\ init' \in InitRecs /\ locks' \in BOOLEAN /\ fault' = fault
      /\ init'.refCount = init.refCount - 1
      /\ init'.isInitialized <=> init'.refCount > 0
      /\ LocksFit'
  BY <1>1, <1>3, <1>6, UninitMeans
<1>8. TypeOK'
  <2>1. call' \in [Threads -> CallRecs]
    BY <1>1, <1>2, <1>4
  <2> QED
    BY <1>1, <1>3, <1>7, <2>1 DEF TypeOK, CallRecs, InitRecs
<1>9. CountInv'
  <2>1. /\ Cardinality(HeldInits) \in Nat /\ Cardinality(Undoing) \in Nat
        /\ Cardinality(TakenByCtx) \in Nat
    BY <1>3, DebtsMeanInit
  <2>2. IsFiniteSet(HeldInits') /\ Cardinality(HeldInits') = Cardinality(HeldInits) + 0
    <3>1. HeldInits' = HeldInits /\ IsFiniteSet(HeldInits)
      BY <1>1, <1>3 DEF HeldInits, CountInv
    <3> QED
      BY <2>1, <3>1
  <2>3. IsFiniteSet(TakenByCtx') /\ Cardinality(TakenByCtx') = Cardinality(TakenByCtx) + 0
    <3>1. TakenByCtx' = TakenByCtx /\ IsFiniteSet(TakenByCtx)
      BY <1>1, <1>3 DEF TakenByCtx, CountInv
    <3> QED
      BY <2>1, <3>1
  <2>4. IsFiniteSet(Undoing') /\ Cardinality(Undoing') = Cardinality(Undoing) + (-1)
    <3>1. /\ IsFiniteSet(Undoing')
          /\ Cardinality(Undoing') =
                 Cardinality(Undoing) + One(NoCall.op = "uninit") - One(call[t].op = "uninit")
      BY <1>1, <1>3, <1>4, UndoingStep DEF CountInv
    <3>2. One(NoCall.op = "uninit") = 0 /\ One(call[t].op = "uninit") = 1
      BY <1>1, <1>2 DEF One
    <3> QED
      BY <2>1, <3>1, <3>2
  <2>5. init'.refCount = init.refCount + (0 + (-1) + 0)
    BY <1>4, <1>7
  <2>6. \A u \in Threads : held'[u]["multi"] > 0 => init'.initType = "multi"
    BY <1>1, <1>3, UninitKeepsType
  <2> QED
    BY <1>3, <1>7, <2>2, <2>3, <2>4, <2>5, <2>6, CountStep
<1>10. (\A u \in Threads : CallOK(u)') /\ OneMaker'
  <2>1. CallOK(t)'
    <3>1. call'[t] = NoCall
      BY <1>1, <1>4
    <3> QED
      BY <1>2, <3>1 DEF CallOK, CtxOps
  <2> QED
    BY <1>1, <1>2, <2>1, CallsStep
<1>11. \A d \in Contexts : CtxOK(d)'
  BY <1>1, <1>2, <1>5, CtxsUntouched
<1> QED
  BY <1>7, <1>8, <1>9, <1>10, <1>11 DEF Inv

(* An initialisation is taken, or refused, or fails.                       *)
LEMMA InitEnds ==
    ASSUME Inv, NEW t \in Threads, NEW taken \in BOOLEAN,
           WorkInit(t, taken) \/ WorkConditional(t, taken)
    PROVE  Inv'
<1>1. TypeOK /\ CountInv
  BY DEF Inv
<1>2. /\ call \in [Threads -> CallRecs] /\ init.refCount \in Nat /\ init \in InitRecs
      /\ held \in [Threads -> [HeldTypes -> 0 .. MaxHeld]]
  BY <1>1, Shapes
<1>3. PICK k \in HeldTypes :
        /\ call[t].op \in {"init", "conditional"} /\ held[t][k] < MaxHeld
        /\ held' = [held EXCEPT ![t][k] = IF taken THEN @ + 1 ELSE @]
        /\ \/ InitAlreadyLocked(call[t].type, taken)
           \/ InitConditional(call[t].type, taken) /\ k = "conditional"
        /\ InitAlreadyLocked(call[t].type, taken) => call[t].type = k \/ k = "conditional"
  <2>1. CASE WorkInit(t, taken)
    <3>1. call[t].type \in InitTypes
      BY <1>2 DEF CallRecs
    <3>2. held[t][call[t].type] < MaxHeld
      BY <2>1 DEF WorkInit, Unlocks, Inv, CallOK
    <3> QED
      BY <2>1, <3>1, <3>2 DEF WorkInit, Unlocks, HeldTypes
  <2>2. CASE WorkConditional(t, taken)
    <3>1. held[t]["conditional"] < MaxHeld
      BY <2>2 DEF WorkConditional, Unlocks, Inv, CallOK
    <3> QED
      BY <2>2, <3>1 DEF WorkConditional, Unlocks, HeldTypes
  <2> QED
    BY <2>1, <2>2
<1>4. call' = [call EXCEPT ![t] = NoCall] /\ mutex' = Nobody /\ UNCHANGED <<ctxs, refs>>
  BY DEF WorkInit, WorkConditional, Unlocks, Returns
<1>5. NoCall \in CallRecs /\ NoCall.op = "none" /\ NoCall.ctx = NoCtx
  BY DEF NoCall, CallRecs, Ops, InitTypes
<1>6. call[t].ctx = NoCtx /\ call[t].type \in InitTypes /\ call[t].op # "uninit"
  BY <1>2, <1>3, IdleMeans DEF CtxOps, CallRecs
<1>7. /\ init' \in InitRecs /\ locks' \in BOOLEAN /\ fault' = fault
      /\ init'.refCount = init.refCount + One(taken)
      /\ init'.isInitialized <=> init'.refCount > 0
      /\ LocksFit'
      /\ init.initType = "multi" /\ init.isInitialized => init'.initType = "multi"
      /\ ~taken => init' = init
      /\ InitAlreadyLocked(call[t].type, taken) /\ taken /\ call[t].type = "multi"
             => init'.initType = "multi"
  BY <1>1, <1>3, <1>6, InitMeans
<1>8. held' \in [Threads -> [HeldTypes -> 0 .. MaxHeld]]
  BY <1>2, <1>3, ConstantsAssumption
<1>9. TypeOK'
  <2>1. call' \in [Threads -> CallRecs]
    BY <1>2, <1>4, <1>5
  <2> QED
    BY <1>1, <1>4, <1>7, <1>8, <2>1 DEF TypeOK, CallRecs, InitRecs
<1>10. CountInv'
  <2>1. /\ Cardinality(HeldInits) \in Nat /\ Cardinality(Undoing) \in Nat
        /\ Cardinality(TakenByCtx) \in Nat
    BY <1>1, DebtsMeanInit
  <2>2. /\ IsFiniteSet(HeldInits')
        /\ Cardinality(HeldInits') = Cardinality(HeldInits) + One(taken)
    <3>1. CASE taken
      <4>1. held' = [held EXCEPT ![t][k] = @ + 1]
        BY <1>3, <3>1
      <4>2. /\ IsFiniteSet(HeldInits')
            /\ Cardinality(HeldInits') = Cardinality(HeldInits) + 1
        BY <1>1, <1>3, <4>1, HeldGrows DEF CountInv
      <4> QED
        BY <3>1, <4>2 DEF One
    <3>2. CASE ~taken
      <4>1. held' = held
        BY <1>2, <1>3, <3>2
      <4>2. HeldInits' = HeldInits /\ IsFiniteSet(HeldInits)
        BY <1>1, <4>1 DEF HeldInits, CountInv
      <4> QED
        BY <2>1, <3>2, <4>2 DEF One
    <3> QED
      BY <3>1, <3>2
  <2>3. IsFiniteSet(TakenByCtx') /\ Cardinality(TakenByCtx') = Cardinality(TakenByCtx) + 0
    <3>1. TakenByCtx' = TakenByCtx /\ IsFiniteSet(TakenByCtx)
      BY <1>1, <1>4 DEF TakenByCtx, CountInv
    <3> QED
      BY <2>1, <3>1
  <2>4. IsFiniteSet(Undoing') /\ Cardinality(Undoing') = Cardinality(Undoing) + 0
    <3>1. /\ IsFiniteSet(Undoing')
          /\ Cardinality(Undoing') =
                 Cardinality(Undoing) + One(NoCall.op = "uninit") - One(call[t].op = "uninit")
      BY <1>1, <1>2, <1>4, UndoingStep DEF CountInv
    <3>2. One(NoCall.op = "uninit") = 0 /\ One(call[t].op = "uninit") = 0
      BY <1>5, <1>6 DEF One
    <3> QED
      BY <2>1, <3>1, <3>2
  <2>5. One(taken) \in Int /\ init'.refCount = init.refCount + (One(taken) + 0 + 0)
    BY <1>2, <1>7 DEF One
  <2>6. ASSUME NEW u \in Threads, held'[u]["multi"] > 0 PROVE init'.initType = "multi"
    <3>1. CASE held[u]["multi"] > 0
      <4>1. init.isInitialized
        BY <1>1, <3>1, DebtsMeanInit DEF Holds, HeldTypes, InitTypes
      <4> QED
        BY <1>1, <1>7, <3>1, <4>1 DEF CountInv
    <3>2. CASE ~(held[u]["multi"] > 0)
      <4>1. u = t /\ k = "multi" /\ taken
        BY <1>2, <1>3, <2>6, <3>2 DEF HeldTypes, InitTypes
      <4> QED
        BY <1>3, <1>7, <4>1
    <3> QED
      BY <3>1, <3>2
  <2> QED
    BY <1>1, <1>7, <2>2, <2>3, <2>4, <2>5, <2>6, CountStep
<1>11. (\A u \in Threads : CallOK(u)') /\ OneMaker'
  <2>1. CallOK(t)'
    <3>1. call'[t] = NoCall
      BY <1>2, <1>4
    <3> QED
      BY <1>5, <3>1 DEF CallOK, CtxOps
  <2>2. \A u \in Threads : u # t => held'[u] = held[u]
    BY <1>2, <1>3
  <2> QED
    BY <1>4, <1>5, <2>1, <2>2, CallsStep
<1>12. \A d \in Contexts : CtxOK(d)'
  BY <1>4, <1>5, <1>6, CtxsUntouched
<1> QED
  BY <1>7, <1>9, <1>10, <1>11, <1>12 DEF Inv

-----------------------------------------------------------------------------
(* The steps of contexts.                                                  *)

(* Whose steps leave what is held, and mostly the count, alone.            *)
LEMMA CtxCount ==
    ASSUME Inv, NEW t \in Threads, NEW r \in CallRecs,
           call' = [call EXCEPT ![t] = r], r.op # "uninit", call[t].op # "uninit",
           NEW c \in Contexts, NEW x, ctxs' = [ctxs EXCEPT ![c] = x],
           x.opensslInitTaken = ctxs[c].opensslInitTaken,
           UNCHANGED <<init, locks, held>>
    PROVE  CountInv'
<1>1. TypeOK /\ CountInv
  BY DEF Inv
<1>2. /\ call \in [Threads -> CallRecs] /\ ctxs \in [Contexts -> CtxRecs]
  BY <1>1, Shapes
<1>3. HeldInits' = HeldInits
  BY DEF HeldInits
<1>4. Undoing' = Undoing
  BY <1>2 DEF Undoing
<1>5. TakenByCtx' = TakenByCtx
  BY <1>2 DEF TakenByCtx
<1> QED
  BY <1>1, <1>3, <1>4, <1>5 DEF CountInv, Owed

(* A context nobody uses is made.                                          *)
LEMMA NewBegins ==
    ASSUME Inv, NEW t \in Threads, NEW c \in Contexts, PmSockSSLCtxNew(t, c)
    PROVE  Inv'
<1> DEFINE r == [op |-> "newCtx", type |-> Default, ctx |-> c]
           x == [FreeCtx EXCEPT !.mem = TRUE, !.refCount = 1]
<1>1. /\ call[t].op = "none" /\ call' = [call EXCEPT ![t] = r] /\ ~ctxs[c].mem
      /\ ctxs' = [ctxs EXCEPT ![c] = x]
      /\ UNCHANGED <<mutex, init, locks, held, refs, fault>>
  BY DEF PmSockSSLCtxNew, Calls, Idle
<1>2. r \in CallRecs /\ r.op = "newCtx" /\ r.ctx = c
  BY DEF CallRecs, Ops, InitTypes, Default
<1>3. /\ x \in CtxRecs /\ x.mem /\ x.refCount = 1 /\ x.opensslCtx = FALSE
      /\ x.opensslInitTaken = FALSE
  BY DEF FreeCtx, CtxRecs
<1> HIDE DEF r, x
<1>4. TypeOK /\ CtxOK(c) /\ fault = ""
  BY DEF Inv
<1>5. /\ call \in [Threads -> CallRecs] /\ ctxs \in [Contexts -> CtxRecs]
  BY <1>4, Shapes
<1>6. call[t].ctx = NoCtx /\ c # NoCtx
  BY <1>1, IdleMeans, NamesAssumption DEF CtxOps
<1>7. ~Busy(c)
  BY <1>1, <1>4 DEF CtxOK
<1>8. ctxs[c].opensslInitTaken = FALSE /\ \A u \in Threads : refs[u][c] = 0
  <2>1. /\ ctxs[c].opensslInitTaken = ctxs[c].mem /\ ctxs[c].refCount = Cardinality(RefsTo(c))
        /\ ~(ctxs[c].refCount > 0) /\ IsFiniteSet(RefsTo(c))
    BY <1>1, <1>4, <1>7 DEF CtxOK
  <2>2. Cardinality(RefsTo(c)) \in Nat /\ (Cardinality(RefsTo(c)) = 0 => \A u \in Threads : refs[u][c] = 0)
    BY <1>4, <2>1, RefsCount
  <2>3. ctxs[c].opensslInitTaken = FALSE
    BY <1>1, <1>5, <2>1 DEF CtxRecs
  <2> QED
    BY <2>1, <2>2, <2>3
<1>9. TypeOK'
  BY <1>1, <1>2, <1>3, <1>4, <1>5 DEF TypeOK, CallRecs, CtxRecs
<1>10. CountInv'
  BY <1>1, <1>2, <1>3, <1>8, CtxCount
<1>11. (\A u \in Threads : CallOK(u)') /\ OneMaker'
  <2>1. CallOK(t)'
    <3>1. call'[t] = r
      BY <1>1, <1>5
    <3> QED
      BY <1>2, <1>6, <3>1 DEF CallOK, CtxOps
  <2> QED
    BY <1>1, <1>2, <1>7, <2>1, CallsStep
<1>12. ASSUME NEW d \in Contexts, d # c PROVE CtxOK(d)'
  <2>1. ctxs'[d] = ctxs[d]
    BY <1>1, <1>5, <1>12
  <2> QED
    BY <1>1, <1>2, <1>6, <1>12, <2>1, CtxFrame
<1>13. CtxOK(c)'
  <2>1. RefsTo(c)' = RefsTo(c)
    BY <1>1 DEF RefsTo
  <2>2. call'[t] = r /\ \A u \in Threads : u # t => call'[u] = call[u]
    BY <1>1, <1>5
  <2>3. Busy(c)'
    BY <1>2, <2>2 DEF Busy
  <2>4. \A u \in Threads : call'[u].ctx = c => u = t
    BY <1>7, <2>2 DEF Busy
  <2>5. ctxs'[c] = x
    BY <1>1, <1>5
  <2>6. MakingOK(t, ctxs[c])'
    BY <1>2, <1>3, <2>2, <2>5 DEF MakingOK
  <2> QED
    BY <1>1, <1>3, <1>4, <1>8, <2>1, <2>3, <2>4, <2>5, <2>6 DEF CtxOK
<1> QED
  BY <1>1, <1>4, <1>9, <1>10, <1>11, <1>12, <1>13 DEF Inv

(* A reference is given on.                                                *)
LEMMA RefGiven ==
    ASSUME Inv, NEW t \in Threads, NEW u \in Threads, NEW c \in Contexts, PmSockSSLCtxRef(t, u, c)
    PROVE  Inv'
<1> DEFINE x == [ctxs[c] EXCEPT !.refCount = @ + 1]
<1>1. /\ refs[t][c] > 0 /\ refs[u][c] < MaxHeld /\ call[t].op = "none"
      /\ ctxs' = [ctxs EXCEPT ![c] = x]
      /\ refs' = [refs EXCEPT ![u][c] = @ + 1]
      /\ UNCHANGED <<mutex, init, locks, call, held>>
  BY DEF PmSockSSLCtxRef, Idle
<1>2. TypeOK
  BY DEF Inv
<1>3. /\ call \in [Threads -> CallRecs] /\ ctxs \in [Contexts -> CtxRecs]
      /\ refs \in [Threads -> [Contexts -> 0 .. MaxHeld]]
  BY <1>2, Shapes
<1>4. /\ x \in CtxRecs /\ x.refCount = ctxs[c].refCount + 1 /\ x.mem = ctxs[c].mem
      /\ x.opensslCtx = ctxs[c].opensslCtx /\ x.opensslInitTaken = ctxs[c].opensslInitTaken
  BY <1>3 DEF CtxRecs
<1> HIDE DEF x
<1>5. /\ ~Busy(c) /\ IsFiniteSet(RefsTo(c))
      /\ Cardinality(RefsTo(c)) \in Nat /\ Cardinality(RefsTo(c)) > 0
      /\ ctxs[c].refCount = Cardinality(RefsTo(c))
      /\ ctxs[c].mem /\ ctxs[c].opensslCtx /\ ctxs[c].opensslInitTaken
  BY <1>1, RefMeans
<1>6. fault' = "" /\ fault = ""
  BY <1>5 DEF PmSockSSLCtxRef, Fails, Inv
<1>7. refs' \in [Threads -> [Contexts -> 0 .. MaxHeld]]
  BY <1>1, <1>3, ConstantsAssumption
<1>8. TypeOK'
  BY <1>1, <1>2, <1>3, <1>4, <1>6, <1>7 DEF TypeOK, CtxRecs
<1>9. call' = [call EXCEPT ![t] = call[t]] /\ call[t] \in CallRecs /\ call[t].ctx = NoCtx
  BY <1>1, <1>3, IdleMeans DEF CtxOps
<1>10. CountInv'
  BY <1>1, <1>4, <1>9, CtxCount
<1>11. (\A v \in Threads : CallOK(v)') /\ OneMaker'
  <2>1. \A v \in Threads, d \in Contexts : refs[v][d] > 0 => refs'[v][d] > 0
    BY <1>1, <1>3, <1>7
  <2>2. CallOK(t)'
    <3>1. CallOK(t)
      BY DEF Inv
    <3> QED
      BY <1>1, <3>1 DEF CallOK, CtxOps
  <2>3. call[t].ctx \in {NoCtx, call[t].ctx}
    OBVIOUS
  <2> QED
    BY <1>1, <1>9, <2>1, <2>2, <2>3, CallsStep
<1>12. ASSUME NEW d \in Contexts, d # c PROVE CtxOK(d)'
  <2>1. ctxs'[d] = ctxs[d] /\ \A v \in Threads : refs'[v][d] = refs[v][d]
    BY <1>1, <1>3, <1>12
  <2> QED
    BY <1>9, <1>12, <2>1, CtxFrame
<1>13. CtxOK(c)'
  <2>1. IsFiniteSet(RefsTo(c)') /\ Cardinality(RefsTo(c)') = Cardinality(RefsTo(c)) + 1
    BY <1>1, <1>2, <1>5, RefsGrow
  <2>2. ~Busy(c)'
    BY <1>1, <1>5 DEF Busy
  <2>3. ctxs'[c] = x
    BY <1>1, <1>3
  <2>4. x.refCount = Cardinality(RefsTo(c)') /\ x.refCount > 0
    BY <1>4, <1>5, <2>1
  <2>5. x.mem /\ x.opensslCtx = x.mem /\ x.opensslInitTaken = x.mem
    BY <1>3, <1>4, <1>5 DEF CtxRecs
  <2> QED
    BY <2>1, <2>2, <2>3, <2>4, <2>5 DEF CtxOK
<1> QED
  BY <1>6, <1>8, <1>10, <1>11, <1>12, <1>13 DEF Inv

(* A reference is dropped; who drops the last one destroys the context.    *)
LEMMA RefDropped ==
    ASSUME Inv, NEW t \in Threads, NEW c \in Contexts, PmSockSSLCtxUnref(t, c)
    PROVE  Inv'
<1> DEFINE x == [ctxs[c] EXCEPT !.refCount = @ - 1]
           d == [NoCall EXCEPT !.op = "destroyCtx", !.ctx = c]
           r == IF ctxs[c].refCount = 1 THEN d ELSE call[t]
<1>1. TypeOK
  BY DEF Inv
<1>2. /\ call \in [Threads -> CallRecs] /\ ctxs \in [Contexts -> CtxRecs]
      /\ refs \in [Threads -> [Contexts -> 0 .. MaxHeld]]
  BY <1>1, Shapes
<1>3. /\ refs[t][c] > 0 /\ call[t].op = "none"
      /\ ctxs' = [ctxs EXCEPT ![c] = x]
      /\ refs' = [refs EXCEPT ![t][c] = @ - 1]
      /\ call' = IF ctxs[c].refCount = 1 THEN [call EXCEPT ![t] = d] ELSE call
      /\ UNCHANGED <<mutex, init, locks, held>>
  BY DEF PmSockSSLCtxUnref, Idle
<1>4. d \in CallRecs /\ d.op = "destroyCtx" /\ d.ctx = c
  BY DEF NoCall, CallRecs, Ops, InitTypes
<1> HIDE DEF d
<1>5. call[t] \in CallRecs /\ call[t].ctx = NoCtx /\ c # NoCtx
  BY <1>2, <1>3, IdleMeans, NamesAssumption DEF CtxOps
<1>6. /\ call' = [call EXCEPT ![t] = r] /\ r \in CallRecs /\ r.op # "uninit"
      /\ r.ctx \in {NoCtx, c}
  BY <1>2, <1>3, <1>4, <1>5
<1>7. /\ ~Busy(c) /\ IsFiniteSet(RefsTo(c))
      /\ Cardinality(RefsTo(c)) \in Nat /\ Cardinality(RefsTo(c)) > 0
      /\ ctxs[c].refCount = Cardinality(RefsTo(c))
      /\ ctxs[c].mem /\ ctxs[c].opensslCtx /\ ctxs[c].opensslInitTaken
  BY <1>3, RefMeans
<1>8. ctxs[c] \in CtxRecs /\ ctxs[c].refCount - 1 \in Nat
  BY <1>2, <1>7
<1>9. /\ x \in CtxRecs /\ x.refCount = ctxs[c].refCount - 1 /\ x.mem = ctxs[c].mem
      /\ x.opensslCtx = ctxs[c].opensslCtx /\ x.opensslInitTaken = ctxs[c].opensslInitTaken
  BY <1>8 DEF CtxRecs
<1>10. x.mem /\ x.opensslCtx = x.mem /\ x.opensslInitTaken = x.mem
  BY <1>7, <1>8, <1>9 DEF CtxRecs
<1> HIDE DEF x, r
<1>11. fault' = "" /\ fault = ""
  BY <1>7 DEF PmSockSSLCtxUnref, Fails, Inv
<1>12. refs' \in [Threads -> [Contexts -> 0 .. MaxHeld]]
  BY <1>2, <1>3, ConstantsAssumption
<1>13. TypeOK'
  <2>1. call' \in [Threads -> CallRecs] /\ ctxs' \in [Contexts -> CtxRecs]
    BY <1>2, <1>3, <1>6, <1>9
  <2> QED
    BY <1>1, <1>3, <1>11, <1>12, <2>1 DEF TypeOK, CtxRecs, CallRecs
<1>14. CountInv'
  BY <1>3, <1>6, <1>9, CtxCount
<1>15. (\A v \in Threads : CallOK(v)') /\ OneMaker'
  <2>1. \A v \in Threads, e \in Contexts : v # t /\ refs[v][e] > 0 => refs'[v][e] > 0
    BY <1>2, <1>3
  <2>2. CallOK(t)'
    <3>1. call'[t] = r
      BY <1>2, <1>6
    <3> QED
      BY <1>3, <1>4, <1>5, <3>1 DEF CallOK, CtxOps, r
  <2> QED
    BY <1>3, <1>6, <1>7, <2>1, <2>2, CallsStep
<1>16. ASSUME NEW e \in Contexts, e # c PROVE CtxOK(e)'
  <2>1. ctxs'[e] = ctxs[e] /\ \A v \in Threads : refs'[v][e] = refs[v][e]
    BY <1>2, <1>3, <1>16
  <2> QED
    BY <1>5, <1>6, <1>16, <2>1, CtxFrame
<1>17. CtxOK(c)'
  <2>1. IsFiniteSet(RefsTo(c)') /\ Cardinality(RefsTo(c)') = Cardinality(RefsTo(c)) - 1
    BY <1>1, <1>3, <1>7, RefsShrink
  <2>2. call'[t] = r /\ \A u \in Threads : u # t => call'[u] = call[u]
    BY <1>2, <1>6
  <2>3. ctxs'[c] = x /\ x.refCount = Cardinality(RefsTo(c)')
    BY <1>2, <1>3, <1>7, <1>9, <2>1
  <2>4. CASE ctxs[c].refCount = 1
    <3>1. r = d
      BY <2>4 DEF r
    <3>2. Busy(c)' /\ \A u \in Threads : call'[u].ctx = c => u = t
      BY <1>4, <1>7, <2>2, <3>1 DEF Busy
    <3>3. Cardinality(RefsTo(c)) = 1
      BY <1>7, <2>4
    <3>4. refs[t][c] \in 0 .. MaxHeld
      BY <1>2
    <3>5. \A u \in Threads : refs'[u][c] = 0
      <4>1. Cardinality(RefsTo(c)') = 0
        BY <2>1, <3>3
      <4>2. RefsTo(c)' = {}
        BY <2>1, <4>1, FS_EmptySet
      <4>3. ASSUME NEW u \in Threads, refs'[u][c] # 0 PROVE FALSE
        <5>1. refs'[u][c] \in 1 .. MaxHeld
          BY <1>12, <4>3, ConstantsAssumption
        <5>2. <<u, refs'[u][c]>> \in RefsTo(c)'
          BY <5>1 DEF RefsTo
        <5> QED
          BY <4>2, <5>2
      <4> QED
        BY <4>3
    <3>6. MakingOK(t, ctxs[c])'
      BY <1>4, <1>10, <2>2, <2>3, <3>1 DEF MakingOK
    <3> QED
      BY <1>10, <2>1, <2>3, <3>2, <3>5, <3>6 DEF CtxOK
  <2>5. CASE ctxs[c].refCount # 1
    <3>1. call' = call
      BY <1>3, <2>5
    <3>2. ~Busy(c)'
      BY <1>7, <3>1 DEF Busy
    <3>3. x.refCount > 0
      BY <1>7, <1>9, <2>5
    <3> QED
      BY <1>10, <2>1, <2>3, <3>2, <3>3 DEF CtxOK
  <2> QED
    BY <2>4, <2>5
<1> QED
  BY <1>11, <1>13, <1>14, <1>15, <1>16, <1>17 DEF Inv

(* What a thread that makes or destroys a context knows of it.             *)
LEMMA MakerMeans ==
    ASSUME Inv, NEW t \in Threads, call[t].op \in CtxOps
    PROVE  /\ call[t].ctx \in Contexts
           /\ CtxOK(call[t].ctx) /\ Busy(call[t].ctx)
           /\ ctxs[call[t].ctx] \in CtxRecs /\ ctxs[call[t].ctx].mem
           /\ \A u \in Threads : refs[u][call[t].ctx] = 0
           /\ MakingOK(t, ctxs[call[t].ctx])
           /\ \A u \in Threads : call[u].ctx = call[t].ctx => u = t
<1>1. call[t].ctx # NoCtx
  BY DEF Inv, CallOK
<1>2. call[t].ctx \in Contexts
  BY <1>1, Shapes DEF Inv, CallRecs
<1>3. CtxOK(call[t].ctx) /\ Busy(call[t].ctx)
  BY <1>2 DEF Inv, Busy
<1>4. ctxs[call[t].ctx] \in CtxRecs
  BY <1>2, Shapes DEF Inv
<1>5. \A u \in Threads : call[u].ctx = call[t].ctx => u = t
  BY <1>1 DEF Inv, OneMaker
<1> QED
  BY <1>2, <1>3, <1>4, <1>5 DEF CtxOK

(* A context nobody has a reference to or works at is free.                *)
LEMMA FreedCtx ==
    ASSUME Inv, NEW t \in Threads, call[t].op \in CtxOps,
           NEW c \in Contexts, c = call[t].ctx,
           call' = [call EXCEPT ![t] = NoCall],
           ctxs' = [ctxs EXCEPT ![c] = FreeCtx], refs' = refs
    PROVE  CtxOK(c)'
<1>1. /\ CtxOK(c) /\ \A u \in Threads : refs[u][c] = 0
      /\ \A u \in Threads : call[u].ctx = c => u = t
  BY MakerMeans
<1>2. c # NoCtx /\ NoCall.ctx = NoCtx
  BY NamesAssumption DEF NoCall
<1>3. /\ call \in [Threads -> CallRecs] /\ ctxs \in [Contexts -> CtxRecs]
  BY Shapes DEF Inv
<1>4. ctxs'[c] = FreeCtx
  BY <1>3
<1>5. \A u \in Threads : call'[u] = IF u = t THEN NoCall ELSE call[u]
  BY <1>3
<1>6. ~Busy(c)'
  BY <1>1, <1>2, <1>5 DEF Busy
<1>7. RefsTo(c)' = RefsTo(c) /\ IsFiniteSet(RefsTo(c))
  BY <1>1 DEF RefsTo, CtxOK
<1>8. Cardinality(RefsTo(c)') = 0
  BY <1>1, <1>7, RefsCount DEF Inv
<1>9. /\ ctxs'[c].mem = FALSE /\ ctxs'[c].refCount = 0 /\ ctxs'[c].opensslCtx = FALSE
      /\ ctxs'[c].opensslInitTaken = FALSE /\ ~(ctxs'[c].refCount > 0)
  BY <1>4 DEF FreeCtx
<1> QED
  BY <1>6, <1>7, <1>8, <1>9 DEF CtxOK

(* A context is destroyed, up to the initialisation it took.               *)
LEMMA Destroyed ==
    ASSUME Inv, NEW t \in Threads, DestroyContext(t)
    PROVE  Inv'
<1>1. TypeOK /\ CountInv /\ call[t].op = "destroyCtx" /\ call[t].op \in CtxOps
  BY DEF Inv, DestroyContext, CtxOps
<1>2. PICK c \in Contexts : c = call[t].ctx
  BY <1>1, MakerMeans
<1>3. /\ call \in [Threads -> CallRecs] /\ ctxs \in [Contexts -> CtxRecs]
  BY <1>1, Shapes
<1>4. /\ CtxOK(c) /\ ctxs[c] \in CtxRecs /\ ctxs[c].mem /\ c # NoCtx
      /\ \A u \in Threads : refs[u][c] = 0
      /\ ctxs[c].opensslCtx => ctxs[c].opensslInitTaken
      /\ \A u \in Threads : call[u].ctx = c => u = t
  BY <1>1, <1>2, MakerMeans, NamesAssumption DEF MakingOK
<1>5. /\ ctxs' = [ctxs EXCEPT ![c] =
              IF ctxs[c].opensslInitTaken THEN [ctxs[c] EXCEPT !.opensslCtx = FALSE] ELSE FreeCtx]
      /\ call' = [call EXCEPT ![t] =
              IF ctxs[c].opensslInitTaken THEN [call[t] EXCEPT !.op = "uninitCtx"] ELSE NoCall]
      /\ Fails(~ctxs[c].mem \/ (ctxs[c].opensslCtx /\ ~init.isInitialized), "context after free")
      /\ UNCHANGED <<mutex, init, locks, held, refs>>
  BY <1>2 DEF DestroyContext
<1>6. fault' = "" /\ fault = ""
  <2>1. ctxs[c].opensslCtx => init.isInitialized
    BY <1>1, <1>4, DebtsMeanInit
  <2> QED
    BY <1>4, <1>5, <2>1 DEF Fails, Inv
<1>7. CASE ctxs[c].opensslInitTaken
  <2> DEFINE x == [ctxs[c] EXCEPT !.opensslCtx = FALSE]
             r == [call[t] EXCEPT !.op = "uninitCtx"]
  <2>1. ctxs' = [ctxs EXCEPT ![c] = x] /\ call' = [call EXCEPT ![t] = r]
    BY <1>5, <1>7
  <2>2. /\ x \in CtxRecs /\ x.mem /\ x.opensslCtx = FALSE
        /\ x.opensslInitTaken = ctxs[c].opensslInitTaken
    BY <1>4 DEF CtxRecs
  <2>3. r \in CallRecs /\ r.op = "uninitCtx" /\ r.ctx = c
    BY <1>2, <1>3 DEF CallRecs, Ops
  <2> HIDE DEF x, r
  <2>4. TypeOK'
    <3>1. call' \in [Threads -> CallRecs] /\ ctxs' \in [Contexts -> CtxRecs]
      BY <1>3, <2>1, <2>2, <2>3
    <3> QED
      BY <1>1, <1>5, <1>6, <3>1 DEF TypeOK, CtxRecs, CallRecs
  <2>5. CountInv'
    BY <1>1, <1>5, <2>1, <2>2, <2>3, CtxCount
  <2>6. call'[t] = r /\ \A u \in Threads : u # t => call'[u] = call[u]
    BY <1>3, <2>1
  <2>7. (\A u \in Threads : CallOK(u)') /\ OneMaker'
    <3>1. CallOK(t)'
      BY <1>4, <2>3, <2>6 DEF CallOK, CtxOps
    <3> QED
      BY <1>2, <1>5, <2>1, <2>3, <3>1, CallsStep
  <2>8. ASSUME NEW d \in Contexts, d # c PROVE CtxOK(d)'
    <3>1. ctxs'[d] = ctxs[d] /\ \A u \in Threads : refs'[u][d] = refs[u][d]
      BY <1>3, <1>5, <2>1, <2>8
    <3>2. r.ctx \in {NoCtx, c} /\ call[t].ctx \in {NoCtx, c}
      BY <1>2, <2>3
    <3> QED
      BY <2>1, <2>3, <2>8, <3>1, <3>2, CtxFrame
  <2>9. CtxOK(c)'
    <3>1. RefsTo(c)' = RefsTo(c) /\ IsFiniteSet(RefsTo(c))
      BY <1>4, <1>5 DEF RefsTo, CtxOK
    <3>2. Busy(c)' /\ \A u \in Threads : call'[u].ctx = c => u = t
      BY <1>4, <2>3, <2>6 DEF Busy
    <3>3. ctxs'[c] = x
      BY <1>3, <2>1
    <3>4. MakingOK(t, ctxs[c])'
      BY <1>7, <2>2, <2>3, <2>6, <3>3 DEF MakingOK
    <3> QED
      BY <1>4, <1>5, <2>2, <3>1, <3>2, <3>3, <3>4 DEF CtxOK
  <2> QED
    BY <1>6, <2>4, <2>5, <2>7, <2>8, <2>9 DEF Inv
<1>8. CASE ~ctxs[c].opensslInitTaken
  <2>1. ctxs' = [ctxs EXCEPT ![c] = FreeCtx] /\ call' = [call EXCEPT ![t] = NoCall]
    BY <1>5, <1>8
  <2>2. FreeCtx \in CtxRecs /\ FreeCtx.opensslInitTaken = ctxs[c].opensslInitTaken
    BY <1>4, <1>8 DEF CtxRecs, FreeCtx
  <2>3. NoCall \in CallRecs /\ NoCall.op = "none" /\ NoCall.ctx = NoCtx
    BY DEF NoCall, CallRecs, Ops, InitTypes
  <2>4. TypeOK'
    <3>1. call' \in [Threads -> CallRecs] /\ ctxs' \in [Contexts -> CtxRecs]
      BY <1>3, <2>1, <2>2, <2>3
    <3> QED
      BY <1>1, <1>5, <1>6, <3>1 DEF TypeOK, CtxRecs, CallRecs
  <2>5. CountInv'
    <3> HIDE DEF NoCall, FreeCtx
    <3> QED
      BY <1>1, <1>5, <2>1, <2>2, <2>3, CtxCount
  <2>6. (\A u \in Threads : CallOK(u)') /\ OneMaker'
    <3>1. call'[t] = NoCall
      BY <1>3, <2>1
    <3>2. CallOK(t)'
      BY <2>3, <3>1 DEF CallOK, CtxOps
    <3> QED
      BY <1>5, <2>1, <2>3, <3>2, CallsStep
  <2>7. ASSUME NEW d \in Contexts, d # c PROVE CtxOK(d)'
    <3>1. ctxs'[d] = ctxs[d]
      BY <1>3, <2>1, <2>7
    <3> QED
      BY <1>2, <1>5, <2>1, <2>3, <2>7, <3>1, CtxFrame
  <2>8. CtxOK(c)'
    BY <1>1, <1>2, <1>5, <2>1, FreedCtx
  <2> QED
    BY <1>6, <2>4, <2>5, <2>6, <2>7, <2>8 DEF Inv
<1> QED
  BY <1>7, <1>8

(* The initialisation a context took is undone, and it is freed.           *)
LEMMA CtxUninitEnds ==
    ASSUME Inv, NEW t \in Threads, WorkUninitContext(t)
    PROVE  Inv'
<1>1. TypeOK /\ CountInv /\ call[t].op = "uninitCtx" /\ call[t].op \in CtxOps
  BY DEF Inv, WorkUninitContext, Unlocks, CtxOps
<1>2. PICK c \in Contexts : c = call[t].ctx
  BY <1>1, MakerMeans
<1>3. /\ call \in [Threads -> CallRecs] /\ ctxs \in [Contexts -> CtxRecs] /\ init.refCount \in Nat
  BY <1>1, Shapes
<1>4. ctxs[c].opensslInitTaken
  BY <1>1, <1>2, MakerMeans DEF MakingOK
<1>5. /\ Uninit /\ ctxs' = [ctxs EXCEPT ![c] = FreeCtx] /\ call' = [call EXCEPT ![t] = NoCall]
      /\ mutex' = Nobody /\ UNCHANGED <<held, refs>>
  BY <1>2 DEF WorkUninitContext, Unlocks, Returns
<1>6. NoCall \in CallRecs /\ NoCall.op = "none" /\ NoCall.ctx = NoCtx
  BY DEF NoCall, CallRecs, Ops, InitTypes
<1>7. FreeCtx \in CtxRecs /\ ~FreeCtx.opensslInitTaken
  BY DEF FreeCtx, CtxRecs
<1>8. /\ init' \in InitRecs /\ locks' \in BOOLEAN /\ fault' = fault
      /\ init'.refCount = init.refCount - 1
      /\ init'.isInitialized <=> init'.refCount > 0
      /\ LocksFit'
  <2>1. init.isInitialized
    BY <1>1, <1>4, DebtsMeanInit
  <2> QED
    BY <1>1, <1>5, <2>1, UninitMeans
<1>9. TypeOK'
  <2>1. call' \in [Threads -> CallRecs] /\ ctxs' \in [Contexts -> CtxRecs]
    BY <1>3, <1>5, <1>6, <1>7
  <2> QED
    BY <1>1, <1>5, <1>8, <2>1 DEF TypeOK, CallRecs, CtxRecs, InitRecs
<1>10. CountInv'
  <2>1. /\ Cardinality(HeldInits) \in Nat /\ Cardinality(Undoing) \in Nat
        /\ Cardinality(TakenByCtx) \in Nat
    BY <1>1, DebtsMeanInit
  <2>2. IsFiniteSet(HeldInits') /\ Cardinality(HeldInits') = Cardinality(HeldInits) + 0
    <3>1. HeldInits' = HeldInits /\ IsFiniteSet(HeldInits)
      BY <1>1, <1>5 DEF HeldInits, CountInv
    <3> QED
      BY <2>1, <3>1
  <2>3. IsFiniteSet(Undoing') /\ Cardinality(Undoing') = Cardinality(Undoing) + 0
    <3>1. Undoing' = Undoing /\ IsFiniteSet(Undoing)
      BY <1>1, <1>3, <1>5, <1>6 DEF Undoing, CountInv
    <3> QED
      BY <2>1, <3>1
  <2>4. /\ IsFiniteSet(TakenByCtx')
        /\ Cardinality(TakenByCtx') = Cardinality(TakenByCtx) + (-1)
    <3>1. /\ IsFiniteSet(TakenByCtx')
          /\ Cardinality(TakenByCtx') = Cardinality(TakenByCtx) +
                 One(FreeCtx.opensslInitTaken) - One(ctxs[c].opensslInitTaken)
      BY <1>1, <1>3, <1>5, TakenStep DEF CountInv
    <3>2. One(FreeCtx.opensslInitTaken) = 0 /\ One(ctxs[c].opensslInitTaken) = 1
      BY <1>4, <1>7 DEF One
    <3> QED
      BY <2>1, <3>1, <3>2
  <2>5. init'.refCount = init.refCount + (0 + 0 + (-1))
    BY <1>3, <1>8
  <2>6. \A u \in Threads : held'[u]["multi"] > 0 => init'.initType = "multi"
    BY <1>1, <1>4, <1>5, UninitKeepsType
  <2> QED
    BY <1>1, <1>8, <2>2, <2>3, <2>4, <2>5, <2>6, CountStep
<1>11. (\A u \in Threads : CallOK(u)') /\ OneMaker'
  <2>1. call'[t] = NoCall
    BY <1>3, <1>5
  <2>2. CallOK(t)'
    BY <1>6, <2>1 DEF CallOK, CtxOps
  <2> QED
    BY <1>5, <1>6, <2>2, CallsStep
<1>12. ASSUME NEW d \in Contexts, d # c PROVE CtxOK(d)'
  <2>1. ctxs'[d] = ctxs[d]
    BY <1>3, <1>5, <1>12
  <2> QED
    BY <1>2, <1>5, <1>6, <1>12, <2>1, CtxFrame
<1>13. CtxOK(c)'
  BY <1>1, <1>2, <1>5, FreedCtx
<1> QED
  BY <1>8, <1>9, <1>10, <1>11, <1>12, <1>13 DEF Inv

(* A context is ready, or is destroyed again because a step of making it   *)
(* failed.                                                                 *)
LEMMA NewEnds ==
    ASSUME Inv, NEW t \in Threads, NEW taken \in BOOLEAN, NEW made \in BOOLEAN,
           NEW configured \in BOOLEAN, WorkNewContext(t, taken, made, configured)
    PROVE  Inv'
<1>1. TypeOK /\ CountInv /\ call[t].op = "newCtx" /\ call[t].op \in CtxOps
  BY DEF Inv, WorkNewContext, Unlocks, CtxOps
<1>2. PICK c \in Contexts : c = call[t].ctx
  BY <1>1, MakerMeans
<1>3. /\ call \in [Threads -> CallRecs] /\ ctxs \in [Contexts -> CtxRecs] /\ init.refCount \in Nat
      /\ refs \in [Threads -> [Contexts -> 0 .. MaxHeld]]
  BY <1>1, Shapes
<1>4. /\ CtxOK(c) /\ ctxs[c] \in CtxRecs /\ ctxs[c].mem /\ c # NoCtx
      /\ \A u \in Threads : refs[u][c] = 0
      /\ ctxs[c].refCount = 1 /\ ~ctxs[c].opensslInitTaken
      /\ \A u \in Threads : call[u].ctx = c => u = t
  BY <1>1, <1>2, MakerMeans, NamesAssumption DEF MakingOK
<1> DEFINE x == [ctxs[c] EXCEPT !.opensslInitTaken = taken, !.opensslCtx = made]
           d == [call[t] EXCEPT !.op = "destroyCtx"]
           r == IF configured THEN NoCall ELSE d
<1>5. /\ InitConditional(call[t].type, taken) /\ mutex' = Nobody /\ held' = held
      /\ (configured => made) /\ (made => taken)
      /\ call' = [call EXCEPT ![t] = r]
      /\ IF configured THEN refs' = [refs EXCEPT ![t][c] = 1] ELSE refs' = refs
  BY <1>2, <1>3 DEF WorkNewContext, Unlocks, Returns
<1>6. ctxs' = [ctxs EXCEPT ![c] = x]
  <2>1. ctxs' = [ctxs EXCEPT ![c].opensslInitTaken = taken, ![c].opensslCtx = made]
    BY <1>2 DEF WorkNewContext
  <2> QED
    BY <1>3, <2>1
<1>7. /\ x \in CtxRecs /\ x.mem = TRUE /\ x.refCount = 1
      /\ x.opensslInitTaken = taken /\ x.opensslCtx = made
  BY <1>4 DEF CtxRecs
<1>8. d \in CallRecs /\ d.op = "destroyCtx" /\ d.ctx = c
  BY <1>2, <1>3 DEF CallRecs, Ops
<1>9. NoCall \in CallRecs /\ NoCall.op = "none" /\ NoCall.ctx = NoCtx
  BY DEF NoCall, CallRecs, Ops, InitTypes
<1> HIDE DEF x, d
<1>10. /\ r \in CallRecs /\ r.op # "uninit" /\ r.ctx \in {NoCtx, c} /\ call[t].type \in InitTypes
  BY <1>1, <1>3, <1>8, <1>9 DEF CallRecs
<1>11. (configured => r = NoCall) /\ (~configured => r = d)
  OBVIOUS
<1> HIDE DEF r
<1>12. /\ init' \in InitRecs /\ locks' \in BOOLEAN /\ fault' = fault
       /\ init'.refCount = init.refCount + One(taken)
       /\ init'.isInitialized <=> init'.refCount > 0
       /\ LocksFit'
       /\ init.initType = "multi" /\ init.isInitialized => init'.initType = "multi"
  BY <1>1, <1>5, <1>10, InitMeans
<1>13. refs' \in [Threads -> [Contexts -> 0 .. MaxHeld]]
  <2>1. CASE configured
    <3>1. refs' = [refs EXCEPT ![t][c] = 1] /\ 1 \in 0 .. MaxHeld
      BY <1>5, <2>1, ConstantsAssumption
    <3> QED
      BY <1>3, <3>1
  <2>2. CASE ~configured
    BY <1>3, <1>5, <2>2
  <2> QED
    BY <2>1, <2>2
<1>14. call'[t] = r /\ (\A u \in Threads : u # t => call'[u] = call[u]) /\ ctxs'[c] = x
  BY <1>3, <1>5, <1>6
<1>15. TypeOK'
  <2>1. call' \in [Threads -> CallRecs] /\ ctxs' \in [Contexts -> CtxRecs]
    BY <1>3, <1>5, <1>6, <1>7, <1>10
  <2> QED
    BY <1>1, <1>5, <1>12, <1>13, <2>1 DEF TypeOK, CallRecs, CtxRecs, InitRecs
<1>16. CountInv'
  <2>1. /\ Cardinality(HeldInits) \in Nat /\ Cardinality(Undoing) \in Nat
        /\ Cardinality(TakenByCtx) \in Nat
    BY <1>1, DebtsMeanInit
  <2>2. IsFiniteSet(HeldInits') /\ Cardinality(HeldInits') = Cardinality(HeldInits) + 0
    <3>1. HeldInits' = HeldInits /\ IsFiniteSet(HeldInits)
      BY <1>1, <1>5 DEF HeldInits, CountInv
    <3> QED
      BY <2>1, <3>1
  <2>3. IsFiniteSet(Undoing') /\ Cardinality(Undoing') = Cardinality(Undoing) + 0
    <3>1. Undoing' = Undoing /\ IsFiniteSet(Undoing)
      BY <1>1, <1>3, <1>5, <1>10 DEF Undoing, CountInv
    <3> QED
      BY <2>1, <3>1
  <2>4. /\ IsFiniteSet(TakenByCtx')
        /\ Cardinality(TakenByCtx') = Cardinality(TakenByCtx) + One(taken)
    <3>1. /\ IsFiniteSet(TakenByCtx')
          /\ Cardinality(TakenByCtx') = Cardinality(TakenByCtx) +
                 One(x.opensslInitTaken) - One(ctxs[c].opensslInitTaken)
      BY <1>1, <1>3, <1>6, TakenStep DEF CountInv
    <3>2. One(ctxs[c].opensslInitTaken) = 0 /\ One(taken) \in Nat
      BY <1>4 DEF One
    <3> QED
      BY <1>7, <2>1, <3>1, <3>2
  <2>5. One(taken) \in Int /\ init'.refCount = init.refCount + (0 + 0 + One(taken))
    BY <1>3, <1>12 DEF One
  <2>6. ASSUME NEW u \in Threads, held'[u]["multi"] > 0 PROVE init'.initType = "multi"
    <3>1. init.isInitialized
      BY <1>1, <1>5, <2>6, DebtsMeanInit DEF Holds, HeldTypes, InitTypes
    <3> QED
      BY <1>1, <1>5, <1>12, <2>6, <3>1 DEF CountInv
  <2> QED
    BY <1>1, <1>12, <2>2, <2>3, <2>4, <2>5, <2>6, CountStep
<1>17. (\A u \in Threads : CallOK(u)') /\ OneMaker'
  <2>1. CallOK(t)'
    BY <1>4, <1>8, <1>9, <1>11, <1>14 DEF CallOK, CtxOps
  <2>2. \A u \in Threads, e \in Contexts : refs[u][e] > 0 => refs'[u][e] > 0
    BY <1>3, <1>4, <1>5
  <2>3. r.ctx \in {NoCtx, call[t].ctx}
    BY <1>2, <1>10
  <2> QED
    BY <1>5, <1>10, <2>1, <2>2, <2>3, CallsStep
<1>18. ASSUME NEW e \in Contexts, e # c PROVE CtxOK(e)'
  <2>1. ctxs'[e] = ctxs[e] /\ \A u \in Threads : refs'[u][e] = refs[u][e]
    BY <1>3, <1>5, <1>6, <1>18
  <2>2. call[t].ctx \in {NoCtx, c}
    BY <1>2
  <2>3. call' = [call EXCEPT ![t] = r] /\ r \in CallRecs /\ r.ctx \in {NoCtx, c}
    BY <1>5, <1>10
  <2> QED
    BY <1>18, <2>1, <2>2, <2>3, CtxFrame
<1>19. CtxOK(c)'
  <2>1. CASE configured
    <3>1. refs' = [refs EXCEPT ![t][c] = @ + 1] /\ refs[t][c] < MaxHeld
      BY <1>3, <1>4, <1>5, <2>1, ConstantsAssumption
    <3>2. IsFiniteSet(RefsTo(c)) /\ Cardinality(RefsTo(c)) = 0
      BY <1>1, <1>4, RefsCount DEF CtxOK
    <3>3. IsFiniteSet(RefsTo(c)') /\ Cardinality(RefsTo(c)') = 1
      <4>1. /\ IsFiniteSet(RefsTo(c)') /\ Cardinality(RefsTo(c)') = Cardinality(RefsTo(c)) + 1
        BY <1>1, <3>1, <3>2, RefsGrow
      <4> QED
        BY <3>2, <4>1
    <3>4. ~Busy(c)'
      BY <1>4, <1>9, <1>11, <1>14, <2>1 DEF Busy
    <3>5. x.opensslInitTaken = x.mem /\ x.opensslCtx = x.mem /\ x.refCount > 0
      <4>1. taken = TRUE /\ made = TRUE
        BY <1>5, <2>1
      <4>2. x.refCount > 0
        BY <1>7
      <4> QED
        BY <1>7, <4>1, <4>2, Zenon
    <3> QED
      BY <1>7, <1>14, <3>3, <3>4, <3>5 DEF CtxOK
  <2>2. CASE ~configured
    <3>1. RefsTo(c)' = RefsTo(c) /\ IsFiniteSet(RefsTo(c)) /\ refs' = refs
      BY <1>4, <1>5, <2>2 DEF RefsTo, CtxOK
    <3>2. Busy(c)' /\ \A u \in Threads : call'[u].ctx = c => u = t
      BY <1>4, <1>8, <1>11, <1>14, <2>2 DEF Busy
    <3>3. MakingOK(t, ctxs[c])'
      BY <1>5, <1>7, <1>8, <1>11, <1>14, <2>2 DEF MakingOK
    <3> QED
      BY <1>4, <1>7, <1>14, <3>1, <3>2, <3>3 DEF CtxOK
  <2> QED
    BY <2>1, <2>2
<1> QED
  BY <1>12, <1>15, <1>16, <1>17, <1>18, <1>19 DEF Inv

-----------------------------------------------------------------------------
(* The theorems.                                                           *)

(* The initial states.                                                     *)
LEMMA InvInit == Init => Inv
<1> SUFFICES ASSUME Init PROVE Inv
  OBVIOUS
<1>1. /\ mutex = Nobody /\ init = NotInit /\ locks = FALSE /\ fault = ""
      /\ ctxs = [c \in Contexts |-> FreeCtx] /\ call = [t \in Threads |-> NoCall]
      /\ held = [t \in Threads |-> [k \in HeldTypes |-> 0]]
      /\ refs = [t \in Threads |-> [c \in Contexts |-> 0]]
  BY DEF Init
<1>2. TypeOK
  <2>1. /\ held \in [Threads -> [HeldTypes -> 0 .. MaxHeld]]
        /\ refs \in [Threads -> [Contexts -> 0 .. MaxHeld]]
    <3>1. 0 \in 0 .. MaxHeld
      BY ConstantsAssumption
    <3> QED
      BY <1>1, <3>1
  <2>2. NotInit \in InitRecs /\ FreeCtx \in CtxRecs /\ NoCall \in CallRecs
    BY DEF NotInit, FreeCtx, NoCall, InitRecs, CtxRecs, CallRecs, Ops, InitTypes
  <2> QED
    <3>1. /\ init \in InitRecs /\ ctxs \in [Contexts -> CtxRecs]
          /\ call \in [Threads -> CallRecs]
      BY <1>1, <2>2
    <3>2. mutex \in Threads \cup {Nobody} /\ locks \in BOOLEAN /\ fault = ""
      BY <1>1
    <3> QED
      BY <2>1, <3>1, <3>2 DEF TypeOK, InitRecs, CtxRecs, CallRecs
<1>3. /\ \A t \in Threads, k \in HeldTypes : held[t][k] = 0
      /\ \A t \in Threads, c \in Contexts : refs[t][c] = 0
      /\ \A t \in Threads : call[t] = NoCall
      /\ \A c \in Contexts : ctxs[c] = FreeCtx
  BY <1>1, Zenon
<1>4. NoCall.op = "none" /\ NoCall.ctx = NoCtx
  BY DEF NoCall
<1>5. /\ FreeCtx.mem = FALSE /\ FreeCtx.refCount = 0 /\ FreeCtx.opensslCtx = FALSE
      /\ FreeCtx.opensslInitTaken = FALSE
  BY DEF FreeCtx
<1>6. HeldInits = {} /\ Undoing = {} /\ TakenByCtx = {}
  <2>1. ASSUME NEW h \in HeldInits PROVE FALSE
    <3>1. PICK t \in Threads, k \in HeldTypes, n \in 1 .. MaxHeld : h = <<t, k, n>>
      BY DEF HeldInits
    <3>2. n <= held[t][k]
      BY <3>1 DEF HeldInits
    <3> QED
      BY <1>3, <3>2, ConstantsAssumption
  <2> QED
    BY <1>3, <1>4, <1>5, <2>1 DEF Undoing, TakenByCtx
<1>7. init.refCount = 0 /\ init.isInitialized = FALSE
  BY <1>1 DEF NotInit
<1>8. CountInv
  <2>1. IsFiniteSet({}) /\ Cardinality({}) = 0
    BY FS_EmptySet
  <2>2. init.refCount = Owed
    BY <1>6, <1>7, <2>1 DEF Owed
  <2>3. ASSUME NEW t \in Threads PROVE ~(held[t]["multi"] > 0)
    <3>1. held[t]["multi"] = 0
      BY <1>3 DEF HeldTypes, InitTypes
    <3> QED
      BY <3>1
  <2>4. ~(init.refCount > 0)
    BY <1>7
  <2> QED
    BY <1>1, <1>6, <1>7, <2>1, <2>2, <2>3, <2>4 DEF CountInv
<1>9. \A t \in Threads : CallOK(t)
  BY <1>1 DEF CallOK, NoCall, CtxOps
<1>10. OneMaker
  BY <1>1 DEF OneMaker, NoCall
<1>11. ASSUME NEW c \in Contexts PROVE CtxOK(c)
  <2>1. RefsTo(c) = {}
    <3>1. ASSUME NEW h \in RefsTo(c) PROVE FALSE
      <4>1. PICK t \in Threads, n \in 1 .. MaxHeld : h = <<t, n>>
        BY DEF RefsTo
      <4>2. n <= refs[t][c]
        BY <4>1 DEF RefsTo
      <4> QED
        BY <1>3, <4>2, ConstantsAssumption
    <3> QED
      BY <3>1
  <2>2. IsFiniteSet(RefsTo(c)) /\ Cardinality(RefsTo(c)) = 0
    BY <2>1, FS_EmptySet
  <2>3. ~Busy(c)
    BY <1>1, NamesAssumption DEF Busy, NoCall
  <2>4. /\ ctxs[c].mem = FALSE /\ ctxs[c].refCount = 0 /\ ~(ctxs[c].refCount > 0)
        /\ ctxs[c].opensslCtx = FALSE /\ ctxs[c].opensslInitTaken = FALSE
    BY <1>3, <1>5
  <2> QED
    BY <2>2, <2>3, <2>4 DEF CtxOK
<1> QED
  BY <1>1, <1>2, <1>8, <1>9, <1>10, <1>11 DEF Inv

(* Every step.                                                             *)
LEMMA InvStep == Inv /\ [Next]_vars => Inv'
<1> SUFFICES ASSUME Inv, [Next]_vars PROVE Inv'
  OBVIOUS
<1>1. CASE UNCHANGED vars
  BY <1>1, LockTaken
<1>2. ASSUME NEW t \in Threads, Work(t) PROVE Inv'
  BY <1>2, InitEnds, UninitEnds, CleanupEnds, NewEnds, CtxUninitEnds DEF Work
<1>3. ASSUME Next PROVE Inv'
  BY <1>2, <1>3, InitBegins, UninitBegins, UseEnds, NewBegins, RefGiven, RefDropped,
     Destroyed, LockTaken DEF Next
<1> QED
  BY <1>1, <1>3

(* So it always holds.                                                     *)
LEMMA InvAlways == Spec => []Inv
BY InvInit, InvStep, PTL DEF Spec

(* Every variable keeps its shape.                                         *)
THEOREM TypeAlwaysOK == Spec => []TypeOK
<1>1. Inv => TypeOK
  BY DEF Inv
<1> QED
  BY <1>1, InvAlways, PTL

(* However many threads initialize, undo, share and free, and whatever     *)
(* fails, OpenSSL is never used uninitialized, never taken down once too   *)
(* often, its locks are never installed twice, and no context is used      *)
(* after it was freed.                                                     *)
THEOREM AlwaysSafe == Spec => []SafeWhileUsed
<1>1. Inv => SafeWhileUsed
  BY DEF Inv, SafeWhileUsed
<1> QED
  BY <1>1, InvAlways, PTL

(* The count is what is owed, to the last failure, and OpenSSL is up and   *)
(* locked exactly as long as it has to be.                                 *)
THEOREM CountAlwaysOwed == Spec => []CountIsOwed
<1>1. Inv => CountIsOwed
  BY DEF Inv, CountInv, CountIsOwed
<1> QED
  BY <1>1, InvAlways, PTL

(* A context lives as long as it is referred to, made or destroyed.        *)
THEOREM ContextsAlwaysCounted == Spec => []ContextsCounted
<1>1. ASSUME Inv PROVE ContextsCounted
  <2>1. ASSUME NEW c \in Contexts
        PROVE  /\ ctxs[c].mem <=> (\E t \in Threads : refs[t][c] > 0) \/ Busy(c)
               /\ ~Busy(c) => ctxs[c].refCount = Cardinality(RefsTo(c))
               /\ ~Busy(c) => ctxs[c].opensslCtx = ctxs[c].mem
    <3>1. TypeOK /\ CtxOK(c) /\ IsFiniteSet(RefsTo(c))
      BY <1>1 DEF Inv, CtxOK
    <3>2. /\ Cardinality(RefsTo(c)) \in Nat
          /\ Cardinality(RefsTo(c)) = 0 <=> \A t \in Threads : refs[t][c] = 0
      BY <3>1, RefsCount
    <3>3. \A t \in Threads : refs[t][c] > 0 <=> refs[t][c] # 0
      BY <3>1, Shapes
    <3>4. Cardinality(RefsTo(c)) > 0 <=> \E t \in Threads : refs[t][c] > 0
      BY <3>2, <3>3
    <3> QED
      BY <3>1, <3>4 DEF CtxOK
  <2> QED
    BY <2>1 DEF ContextsCounted, Busy
<1> QED
  BY <1>1, InvAlways, PTL
=============================================================================
