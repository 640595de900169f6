---------------------------- MODULE PslOpensslInit ----------------------------
(***************************************************************************)
(* OpenSSL's initialisation, counted under a mutex                         *)
(* (src/src/psl_openssl_init.c), and the SSL contexts that take part in it *)
(* and are shared between threads by atomic reference counts               *)
(* (src/src/psl_ssl_context.c, psl_refcount.h).                            *)
(*                                                                         *)
(* A call that needs the mutex asks for it, takes it, and does its work    *)
(* and gives it back in one step.  OpenSSL is external; with an old one    *)
(* (Legacy) the library installs the locks OpenSSL runs with.  The         *)
(* application balances its calls; what must not happen is remembered in   *)
(* fault.                                                                  *)
(***************************************************************************)
EXTENDS Integers, FiniteSets

CONSTANTS
    Threads,        \* the threads of the application
    Contexts,       \* SSL contexts
    Legacy,         \* built with an OpenSSL before 1.1.0
    MaxHeld         \* bound on the initialisations, and the references to a
                    \* context, that one thread holds

ASSUME ConstantsAssumption == Legacy \in BOOLEAN /\ MaxHeld \in Nat \ {0}

VARIABLES
    mutex,      \* gInitState.mutex: the thread that holds it, or nobody
    init,       \* gInitState
    locks,      \* gInitState.threadSafety.isInitialized
    ctxs,       \* each PmSockSSLContext
    call,       \* what each thread is doing in the library
    held,       \* successful initialisations each thread has to undo, by type
    refs,       \* references to each context each thread owns
    fault       \* monitor: what went wrong, "" if nothing

vars == <<mutex, init, locks, ctxs, call, held, refs, fault>>

InitTypes == {"single", "multi"}
HeldTypes == InitTypes \cup {"conditional"}
Default   == "multi"        \* kPmSockOpensslInitType_DEFAULT

Nobody  == "nobody"
NoCtx   == "none"

ASSUME NamesAssumption == Nobody \notin Threads /\ NoCtx \notin Contexts

NoCall  == [op |-> "none", type |-> "single", ctx |-> NoCtx]
NotInit == [isInitialized |-> FALSE, initType |-> "single", refCount |-> 0]
FreeCtx == [mem |-> FALSE, refCount |-> 0, opensslCtx |-> FALSE, opensslInitTaken |-> FALSE]

(* init, uninit, cleanup and conditional wait for the mutex; the others    *)
(* are the steps of PmSockSSLCtxNew and ssl_context_destroy_internal.      *)
Ops == {"none", "init", "conditional", "uninit", "cleanup", "ssl",
        "newCtx", "destroyCtx", "uninitCtx"}

AtMutex == {"init", "conditional", "uninit", "cleanup", "newCtx", "uninitCtx"}

TypeOK ==
    /\ mutex \in Threads \cup {Nobody}
    /\ init \in [isInitialized : BOOLEAN, initType : InitTypes, refCount : Nat]
    /\ locks \in BOOLEAN
    /\ ctxs \in [Contexts -> [mem : BOOLEAN, refCount : Nat, opensslCtx : BOOLEAN,
                              opensslInitTaken : BOOLEAN]]
    /\ call \in [Threads -> [op : Ops, type : InitTypes, ctx : Contexts \cup {NoCtx}]]
    /\ held \in [Threads -> [HeldTypes -> 0 .. MaxHeld]]
    /\ refs \in [Threads -> [Contexts -> 0 .. MaxHeld]]
    /\ fault \in {"", "openssl used uninitialized", "uninitialized once too often",
                  "context after free", "locks initialized twice"}

Idle(t) == call[t].op = "none"

Fails(cond, what) == fault' = IF cond /\ fault = "" THEN what ELSE fault

-----------------------------------------------------------------------------
(* With the mutex held.                                                    *)

(* init_openssl_low and thread_safety_init; it may fail.                   *)
InitLow(type, ok) ==
    /\ init' = IF ok THEN [isInitialized |-> TRUE, initType |-> type, refCount |-> 1] ELSE init
    /\ locks' = (locks \/ (ok /\ Legacy /\ type = "multi"))
    /\ Fails(ok /\ Legacy /\ type = "multi" /\ locks, "locks initialized twice")

Counted == init' = [init EXCEPT !.refCount = @ + 1] /\ UNCHANGED <<locks, fault>>

(* init_openssl_already_locked: taken says what it answers.                *)
InitAlreadyLocked(type, taken) ==
    CASE ~init.isInitialized -> InitLow(type, taken)
      [] init.isInitialized /\ init.initType = "single" /\ type = "multi" ->
             ~taken /\ UNCHANGED <<init, locks, fault>>
      [] OTHER -> taken /\ Counted

(* psl_openssl_init_conditional                                            *)
InitConditional(type, taken) ==
    IF init.isInitialized THEN taken /\ Counted ELSE InitAlreadyLocked(type, taken)

(* PmSockOpensslUninit; uninit_openssl_low cleans the locks up.            *)

(* mutant: the last but one takes OpenSSL down                             *)
UninitEarly ==
    /\ init' = IF init.refCount <= 2 THEN NotInit ELSE [init EXCEPT !.refCount = @ - 1]
    /\ locks' = (locks /\ init.refCount > 2)
    /\ Fails(~init.isInitialized, "uninitialized once too often")

Uninit ==
    /\ init' = IF init.refCount <= 1 THEN NotInit ELSE [init EXCEPT !.refCount = @ - 1]
    /\ locks' = (locks /\ init.refCount > 1)
    /\ Fails(~init.isInitialized, "uninitialized once too often")

-----------------------------------------------------------------------------
(* The calls of the application.                                           *)

Calls(t, op, type, c) ==
    /\ Idle(t)
    /\ call' = [call EXCEPT ![t] = [op |-> op, type |-> type, ctx |-> c]]

Holds(t) == \E k \in HeldTypes : held[t][k] > 0

PmSockOpensslInit(t, type) ==
    /\ held[t][type] < MaxHeld
    /\ Calls(t, "init", type, NoCtx)
    /\ UNCHANGED <<mutex, init, locks, ctxs, held, refs, fault>>

(* The crypto mode of a channel, entered and left (crypto.c:676-698).      *)
EnterCrypto(t) ==
    /\ held[t]["conditional"] < MaxHeld
    /\ Calls(t, "conditional", Default, NoCtx)
    /\ UNCHANGED <<mutex, init, locks, ctxs, held, refs, fault>>

PmSockOpensslUninit(t, kind) ==
    /\ held[t][kind] > 0
    /\ Calls(t, "uninit", "single", NoCtx)
    /\ held' = [held EXCEPT ![t][kind] = @ - 1]
    /\ UNCHANGED <<mutex, init, locks, ctxs, refs, fault>>

PmSockOpensslThreadCleanup(t) ==
    /\ Calls(t, "cleanup", "single", NoCtx)
    /\ UNCHANGED <<mutex, init, locks, ctxs, held, refs, fault>>

(* A thread works with OpenSSL while it holds an initialisation or a       *)
(* context; with an old OpenSSL it takes and releases its locks meanwhile. *)
UseOpenssl(t) ==
    /\ Holds(t) \/ \E c \in Contexts : refs[t][c] > 0
    /\ Calls(t, "ssl", "single", NoCtx)
    /\ Fails(~init.isInitialized, "openssl used uninitialized")
    /\ UNCHANGED <<mutex, init, locks, ctxs, held, refs>>

UsedOpenssl(t) ==
    /\ call[t].op = "ssl"
    /\ call' = [call EXCEPT ![t] = NoCall]
    /\ Fails(~init.isInitialized \/ (Legacy /\ init.initType = "multi" /\ ~locks),
             "openssl used uninitialized")
    /\ UNCHANGED <<mutex, init, locks, ctxs, held, refs>>

-----------------------------------------------------------------------------
(* SSL contexts.                                                           *)

PmSockSSLCtxNew(t, c) ==
    /\ ~ctxs[c].mem
    /\ Calls(t, "newCtx", Default, c)
    /\ ctxs' = [ctxs EXCEPT ![c] = [FreeCtx EXCEPT !.mem = TRUE, !.refCount = 1]]
    /\ UNCHANGED <<mutex, init, locks, held, refs, fault>>

(* A thread gives another one a reference of its own.                      *)
PmSockSSLCtxRef(t, u, c) ==
    /\ Idle(t) /\ refs[t][c] > 0 /\ refs[u][c] < MaxHeld
    /\ ctxs' = [ctxs EXCEPT ![c].refCount = @ + 1]
    /\ refs' = [refs EXCEPT ![u][c] = @ + 1]
    /\ Fails(~ctxs[c].mem, "context after free")
    /\ UNCHANGED <<mutex, init, locks, call, held>>

(* mutant: whoever sees the count at 1 destroys, and the rest decrement    *)
PmSockSSLCtxUnrefNoDestroy(t, c) ==
    /\ Idle(t) /\ refs[t][c] > 0
    /\ refs' = [refs EXCEPT ![t][c] = @ - 1]
    /\ ctxs' = [ctxs EXCEPT ![c].refCount = @ - 1]
    /\ call' = IF ctxs[c].refCount <= 2
                 THEN [call EXCEPT ![t] = [NoCall EXCEPT !.op = "destroyCtx", !.ctx = c]]
                 ELSE call
    /\ Fails(~ctxs[c].mem, "context after free")
    /\ UNCHANGED <<mutex, init, locks, held>>

PmSockSSLCtxUnref(t, c) ==
    /\ Idle(t) /\ refs[t][c] > 0
    /\ refs' = [refs EXCEPT ![t][c] = @ - 1]
    /\ ctxs' = [ctxs EXCEPT ![c].refCount = @ - 1]
    /\ call' = IF ctxs[c].refCount = 1
                 THEN [call EXCEPT ![t] = [NoCall EXCEPT !.op = "destroyCtx", !.ctx = c]]
                 ELSE call
    /\ Fails(~ctxs[c].mem, "context after free")
    /\ UNCHANGED <<mutex, init, locks, held>>

(* ssl_context_destroy_internal up to its uninitialisation, and after it.  *)
DestroyContext(t) ==
    LET c == call[t].ctx
    IN /\ call[t].op = "destroyCtx"
       /\ ctxs' = [ctxs EXCEPT ![c] =
              IF @.opensslInitTaken THEN [@ EXCEPT !.opensslCtx = FALSE] ELSE FreeCtx]
       /\ call' = [call EXCEPT ![t] =
              IF ctxs[c].opensslInitTaken THEN [@ EXCEPT !.op = "uninitCtx"] ELSE NoCall]
       /\ Fails(~ctxs[c].mem \/ (ctxs[c].opensslCtx /\ ~init.isInitialized),
                "context after free")
       /\ UNCHANGED <<mutex, init, locks, held, refs>>

-----------------------------------------------------------------------------
(* Taking the mutex, and the work done with it.                            *)

Lock(t) ==
    /\ call[t].op \in AtMutex /\ mutex = Nobody
    /\ mutex' = t
    /\ UNCHANGED <<init, locks, ctxs, call, held, refs, fault>>

Unlocks(t, op) == mutex = t /\ call[t].op = op /\ mutex' = Nobody

Returns(t) == call' = [call EXCEPT ![t] = NoCall]

(* mutant: a refused initialisation returns with the mutex                 *)
WorkInitKeepsMutex(t, taken) ==
    /\ mutex = t /\ call[t].op = "init"
    /\ mutex' = IF taken THEN Nobody ELSE t
    /\ InitAlreadyLocked(call[t].type, taken)
    /\ held' = [held EXCEPT ![t][call[t].type] = IF taken THEN @ + 1 ELSE @]
    /\ Returns(t)
    /\ UNCHANGED <<ctxs, refs>>

WorkInit(t, taken) ==
    /\ Unlocks(t, "init")
    /\ InitAlreadyLocked(call[t].type, taken)
    /\ held' = [held EXCEPT ![t][call[t].type] = IF taken THEN @ + 1 ELSE @]
    /\ Returns(t)
    /\ UNCHANGED <<ctxs, refs>>

WorkConditional(t, taken) ==
    /\ Unlocks(t, "conditional")
    /\ InitConditional(call[t].type, taken)
    /\ held' = [held EXCEPT ![t]["conditional"] = IF taken THEN @ + 1 ELSE @]
    /\ Returns(t)
    /\ UNCHANGED <<ctxs, refs>>

WorkUninit(t) ==
    /\ Unlocks(t, "uninit") /\ Uninit /\ Returns(t)
    /\ UNCHANGED <<ctxs, held, refs>>

WorkThreadCleanup(t) ==
    /\ Unlocks(t, "cleanup") /\ Returns(t)
    /\ UNCHANGED <<init, locks, ctxs, held, refs, fault>>

(* The rest of PmSockSSLCtxNew; once initialized, OpenSSL may fail to make *)
(* the context or to configure it.                                         *)

(* mutant: a context that failed to initialize undoes it all the same      *)
WorkNewContextUnbalanced(t, taken, made, configured) ==
    LET c == call[t].ctx
    IN /\ Unlocks(t, "newCtx")
       /\ InitConditional(call[t].type, taken)
       /\ (configured => made) /\ (made => taken)
       /\ ctxs' = [ctxs EXCEPT ![c].opensslInitTaken = TRUE, ![c].opensslCtx = made]
       /\ IF configured
            THEN Returns(t) /\ refs' = [refs EXCEPT ![t][c] = 1]
            ELSE /\ call' = [call EXCEPT ![t].op = "destroyCtx"]
                 /\ UNCHANGED refs
       /\ UNCHANGED held

WorkNewContext(t, taken, made, configured) ==
    LET c == call[t].ctx
    IN /\ Unlocks(t, "newCtx")
       /\ InitConditional(call[t].type, taken)
       /\ (configured => made) /\ (made => taken)
       /\ ctxs' = [ctxs EXCEPT ![c].opensslInitTaken = taken, ![c].opensslCtx = made]
       /\ IF configured
            THEN Returns(t) /\ refs' = [refs EXCEPT ![t][c] = 1]
            ELSE /\ call' = [call EXCEPT ![t].op = "destroyCtx"]
                 /\ UNCHANGED refs
       /\ UNCHANGED held

WorkUninitContext(t) ==
    /\ Unlocks(t, "uninitCtx") /\ Uninit /\ Returns(t)
    /\ ctxs' = [ctxs EXCEPT ![call[t].ctx] = FreeCtx]
    /\ UNCHANGED <<held, refs>>

-----------------------------------------------------------------------------
Init ==
    /\ mutex = Nobody /\ init = NotInit /\ locks = FALSE
    /\ ctxs = [c \in Contexts |-> FreeCtx]
    /\ call = [t \in Threads |-> NoCall]
    /\ held = [t \in Threads |-> [k \in HeldTypes |-> 0]]
    /\ refs = [t \in Threads |-> [c \in Contexts |-> 0]]
    /\ fault = ""

(* A call that is under way goes on.                                       *)
Work(t) ==
    \/ \E taken \in BOOLEAN : WorkInit(t, taken)
    \/ \E taken \in BOOLEAN : WorkConditional(t, taken)
    \/ WorkUninit(t)
    \/ WorkThreadCleanup(t)
    \/ \E taken, made, configured \in BOOLEAN : WorkNewContext(t, taken, made, configured)
    \/ WorkUninitContext(t)

Next ==
    \E t \in Threads :
        \/ \E type \in InitTypes : PmSockOpensslInit(t, type)
        \/ EnterCrypto(t)
        \/ \E kind \in HeldTypes : PmSockOpensslUninit(t, kind)
        \/ PmSockOpensslThreadCleanup(t)
        \/ UseOpenssl(t)
        \/ UsedOpenssl(t)
        \/ \E c \in Contexts : PmSockSSLCtxNew(t, c)
        \/ \E u \in Threads, c \in Contexts : PmSockSSLCtxRef(t, u, c)
        \/ \E c \in Contexts : PmSockSSLCtxUnref(t, c)
        \/ DestroyContext(t)
        \/ Lock(t)
        \/ Work(t)

(* Threads run, and a mutex that is free often enough is taken at last.    *)
Fairness ==
    \A t \in Threads :
        WF_vars(UsedOpenssl(t)) /\ WF_vars(DestroyContext(t)) /\ SF_vars(Lock(t)) /\ WF_vars(Work(t))

Spec == Init /\ [][Next]_vars /\ Fairness

-----------------------------------------------------------------------------
(* Properties.                                                             *)

(* No thread runs in OpenSSL, and no context is freed, while OpenSSL is    *)
(* not initialized; it is not taken down more often than it was set up,    *)
(* and a context is not used once it was freed, in whatever order the      *)
(* threads call (psl_openssl_init.c:186-188, psl_ssl_context.c:213-232).   *)
SafeWhileUsed == fault = ""

(* The initialisations somebody has still to undo: those a thread holds,   *)
(* those it is just undoing, and those of contexts.                        *)
HeldInits ==
    {h \in Threads \X HeldTypes \X (1 .. MaxHeld) : h[3] <= held[h[1]][h[2]]}

Undoing == {t \in Threads : call[t].op = "uninit"}

TakenByCtx == {c \in Contexts : ctxs[c].opensslInitTaken}

Owed == Cardinality(HeldInits) + Cardinality(Undoing) + Cardinality(TakenByCtx)

(* The count is what callers, channels and contexts owe together, OpenSSL  *)
(* is initialized exactly if anybody owes, its locks are installed exactly *)
(* if it is and for threads, and who asked for threads got them, whatever  *)
(* fails in between (psl_openssl_init.c:242-303).                          *)
CountIsOwed ==
    /\ init.refCount = Owed
    /\ init.isInitialized <=> Owed > 0
    /\ locks <=> Legacy /\ init.isInitialized /\ init.initType = "multi"
    /\ (\E t \in Threads : held[t]["multi"] > 0) => init.initType = "multi"

(* The references of threads to a context.                                 *)
RefsTo(c) == {r \in Threads \X (1 .. MaxHeld) : r[2] <= refs[r[1]][c]}

(* A context lives exactly as long as a thread has a reference to it or is *)
(* making or destroying it.                                                *)
ContextsCounted ==
    \A c \in Contexts :
        /\ ctxs[c].mem <=> \/ \E t \in Threads : refs[t][c] > 0
                           \/ \E t \in Threads : call[t].ctx = c
        /\ (\A t \in Threads : call[t].ctx # c) =>
               /\ ctxs[c].refCount = Cardinality(RefsTo(c))
               /\ ctxs[c].opensslCtx = ctxs[c].mem

(* Every call returns, also those that are refused or fail.                *)
CallsReturn == \A t \in Threads : ~Idle(t) ~> Idle(t)

=============================================================================
