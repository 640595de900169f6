--------------------------- MODULE PslSslConnection ---------------------------
(***************************************************************************)
(* One SSL connection of a channel, from the verification of the peer      *)
(* during the handshake to the bytes it writes                             *)
(* (src/src/psl_channel_fsm_crypto.c, psl_io_buf.h).                       *)
(*                                                                         *)
(* OpenSSL is external: it meets any of the errors a certificate has, in   *)
(* any order, before it calls with success for that certificate, root      *)
(* first; and it accepts any part of what it is given to write.  When it   *)
(* must wait it keeps the record it made (held), and wants to be given the *)
(* same bytes again.  Bytes are numbered in the order they are written.    *)
(***************************************************************************)
EXTENDS PslHostname, SequencesExt

CONSTANTS
    Hosts,      \* the serverAddr of the channel
    Peers,      \* what a server can present: [names, errors, store]
    Capacity,   \* kMaxIOBufSize
    MaxWrite,   \* bound on one WRITE
    MaxBytes    \* bound on the bytes written in all

ASSUME SizesAssumption ==
    /\ Capacity \in Nat \ {0} /\ MaxWrite \in Nat \ {0} /\ MaxBytes \in Nat

VARIABLES
    stage,      \* where the connection is
    conf,       \* cryptoConf and the connection kind
    host,       \* userSettings.serverAddr
    peer,       \* what the server presented
    todo,       \* the errors of each certificate OpenSSL has still to report
    level,      \* the depth whose success OpenSSL reports next, -1 after the leaf
    verify,     \* sslInfo.pv, X509_STORE_CTX's error; and what the user let pass
    io,         \* io.out.ioState
    buf,        \* io.out.buf: its array and nextConsumeIndex_
    held,       \* the bytes of the record OpenSSL waits to send
    accepted,   \* how many bytes the user was told were written
    sent        \* the bytes OpenSSL has taken, in order

sslVars == <<stage, conf, host, peer, todo, level, verify>>
outVars == <<io, buf, held, accepted, sent>>
vars == <<stage, conf, host, peer, todo, level, verify, io, buf, held, accepted, sent>>

Depths == 0 .. 1            \* the leaf, and who issued it

CertErrors == {"getCrl", "expired"}     \* X509_V_ERR_UNABLE_TO_GET_CRL, any other

ASSUME PartiesAssumption ==
    /\ \A h \in Hosts : h.text \in Seq(Octets)
    /\ \A p \in Peers :
          /\ p.errors \in [Depths -> SUBSET CertErrors]
          /\ \A e \in p.names.san : e.name.text \in Seq(Octets)
          /\ \A c \in p.names.cn : c.name.text \in Seq(Octets)

FailCodes == {"none", "certVerify", "mismatch", "invalid"}

Stages == {"idle", "handshake", "verified", "ssl", "refused", "failed", "closed"}

Confs == [kind : {"client", "server"}, checkHostname : BOOLEAN,
          fallback : BOOLEAN, verifyCb : BOOLEAN]

(* Mode scope is entered with pv zeroed (memset).                          *)
NotVerified == [inProgress |-> FALSE, called |-> FALSE, failCode |-> "none",
                xerr |-> "ok", waived |-> {}]

NoConf   == [kind |-> "server", checkHostname |-> FALSE, fallback |-> FALSE, verifyCb |-> FALSE]
NoHost   == Name(<<>>)
NoPeer   == [names |-> [san |-> {}, cn |-> {}], errors |-> [d \in Depths |-> {}], store |-> {}]
NoBuf    == [garray |-> <<>>, nextConsumeIndex |-> 0]

(* The certificate at a depth, as the store knows it.                      *)
CertAt(d) == IF d = 0 THEN [subject |-> "peer", id |-> 1] ELSE [subject |-> "issuer", id |-> 2]

Problems == Depths \X (CertErrors \cup {"name"})

Verifications == [inProgress : BOOLEAN, called : BOOLEAN, failCode : FailCodes,
                  xerr : CertErrors \cup {"ok", "app"}, waived : SUBSET Problems]

Bytes == 1 .. MaxBytes      \* in the order they are written

TypeOK ==
    /\ stage \in Stages /\ conf \in Confs
    /\ host \in Hosts \cup {NoHost} /\ peer \in Peers \cup {NoPeer}
    /\ todo \in [Depths -> SUBSET CertErrors] /\ level \in -1 .. 1
    /\ verify \in Verifications
    /\ io \in {"idle", "want", "error"}
    /\ buf \in [garray : Seq(Bytes), nextConsumeIndex : Nat]
    /\ Len(buf.garray) <= Capacity /\ buf.nextConsumeIndex <= Len(buf.garray)
    /\ held \in Seq(Bytes)
    /\ accepted \in 0 .. MaxBytes /\ sent \in Seq(Bytes)

-----------------------------------------------------------------------------
(* Verification of the peer.  Its functions work on a record of ok, their  *)
(* preverify_ok, and verify; what is the problem the user may waive.       *)

(* crypto_call_user_peer_cert_verify_callback: what the user may answer.   *)

(* mutant: a refusal of the user's leaves no code                          *)
CallUserNoCode(x, what) ==
    IF ~conf.verifyCb
      THEN {x}
      ELSE {[ok |-> TRUE,
             verify |-> [x.verify EXCEPT !.failCode = "none", !.xerr = "ok",
                         !.waived = IF x.ok THEN @ ELSE @ \cup {what}]],
            [ok |-> FALSE,
             verify |-> [x.verify EXCEPT !.xerr = IF @ = "ok" THEN "app" ELSE @]]}

CallUser(x, what) ==
    IF ~conf.verifyCb
      THEN {x}
      ELSE {[ok |-> TRUE,
             verify |-> [x.verify EXCEPT !.failCode = "none", !.xerr = "ok",
                         !.waived = IF x.ok THEN @ ELSE @ \cup {what}]],
            [ok |-> FALSE,
             verify |-> [x.verify EXCEPT
                 !.failCode = IF @ = "none" THEN "certVerify" ELSE @,
                 !.xerr = IF @ = "ok" THEN "app" ELSE @]]}

(* crypto_resolve_peer_cert_error                                          *)
ResolveError(x, d, what) ==
    IF \/ x.verify.xerr = "getCrl"
       \/ conf.fallback /\ MatchCertInStore(CertAt(d), peer.store)
      THEN {[ok |-> TRUE, verify |-> [x.verify EXCEPT !.failCode = "none", !.xerr = "ok"]]}
      ELSE CallUser([x EXCEPT !.ok = FALSE], what)

(* mutant: the answer for the mismatch is not what the callback returns    *)
CheckHostnameOnly(x, d) ==
    IF ~(x.ok /\ d = 0 /\ conf.checkHostname) \/ VerifyHostname(host, peer.names) = "match"
      THEN {x}
      ELSE {[y EXCEPT !.ok = TRUE] :
                y \in ResolveError([ok |-> FALSE, verify |-> [x.verify EXCEPT
                          !.failCode = VerifyHostname(host, peer.names), !.xerr = "app"]],
                          d, <<d, "name">>)}

CheckHostname(x, d) ==
    IF ~(x.ok /\ d = 0 /\ conf.checkHostname) \/ VerifyHostname(host, peer.names) = "match"
      THEN {x}
      ELSE ResolveError([ok |-> FALSE, verify |-> [x.verify EXCEPT
                            !.failCode = VerifyHostname(host, peer.names), !.xerr = "app"]],
                        d, <<d, "name">>)

(* crypto_ssl_peer_verify_callback, called with err for a certificate, or  *)
(* with success ("ok"): what it may return.                                *)
PeerVerifyCallback(d, err) ==
    LET good == err = "ok"
        start == [ok |-> good,
                  verify |-> [verify EXCEPT
                      !.called = TRUE, !.failCode = IF good THEN "none" ELSE "certVerify",
                      !.xerr = IF good THEN @ ELSE err]]
        resolved == IF good THEN {start} ELSE ResolveError(start, d, <<d, err>>)
        checked  == UNION {CheckHostname(x, d) : x \in resolved}
        answered == UNION {IF good /\ x.ok THEN CallUser(x, <<d, err>>) ELSE {x} : x \in checked}
    IN  {[x EXCEPT !.verify.inProgress = x.ok /\ ~(d = 0 /\ good)] : x \in answered}

-----------------------------------------------------------------------------
(* The handshake.                                                          *)

(* PSL_CHAN_FSM_EVT_CONNECT or _ACCEPT in crypto mode, started.            *)
StartHandshake(c, h, p) ==
    /\ stage = "idle"
    /\ stage' = "handshake"
    /\ conf' = c /\ host' = h /\ peer' = p
    /\ todo' = p.errors
    /\ level' = IF c.kind = "client" THEN 1 ELSE -1
    /\ UNCHANGED <<verify, outVars>>

(* SSL_do_handshake calls back, and fails at once if that refuses.         *)
CallsBack(d, err) ==
    \E x \in PeerVerifyCallback(d, err) :
        /\ verify' = x.verify
        /\ stage' = IF x.ok THEN stage ELSE "refused"

ReportsError(d, err) ==
    /\ stage = "handshake" /\ d <= level /\ err \in todo[d]
    /\ CallsBack(d, err)
    /\ todo' = [todo EXCEPT ![d] = @ \ {err}]
    /\ UNCHANGED <<conf, host, peer, level, outVars>>

ReportsSuccess ==
    /\ stage = "handshake" /\ level >= 0 /\ todo[level] = {}
    /\ CallsBack(level, "ok")
    /\ level' = level - 1
    /\ UNCHANGED <<conf, host, peer, todo, outVars>>

(* Every certificate has been reported: no session is resumed.             *)
HandshakeDone ==
    /\ stage = "handshake" /\ level = -1
    /\ stage' = "verified"
    /\ UNCHANGED <<conf, host, peer, todo, level, verify, outVars>>

(* Anything else the handshake may fail of.                                *)
HandshakeFails ==
    /\ stage = "handshake" /\ stage' = "failed"
    /\ UNCHANGED <<conf, host, peer, todo, level, verify, outVars>>

(* In crypto-ssl nobody looks at what the peer presented any more.         *)
EnterSsl ==
    /\ stage = "verified" /\ stage' = "ssl"
    /\ conf' = NoConf /\ host' = NoHost /\ peer' = NoPeer
    /\ verify' = [NotVerified EXCEPT !.failCode = verify.failCode]
    /\ UNCHANGED <<todo, level, outVars>>

(* PSL_CHAN_FSM_EVT_GET_PEER_CERT_VERIFY_ERR: psl_v_err.                   *)
PeerCertVerifyErr ==
    IF stage \in {"verified", "ssl", "refused", "failed"} THEN verify.failCode ELSE "none"

-----------------------------------------------------------------------------
(* The output buffer.                                                      *)

Smaller(m, n) == IF m <= n THEN m ELSE n

(* psl_io_buf_reset_set_size with the bytes copied into it.                *)
ResetAndCopy(bytes) ==
    [garray |-> SubSeq(bytes, 1, Smaller(Len(bytes), Capacity)), nextConsumeIndex |-> 0]

(* psl_io_buf_get_data_ptr, psl_io_buf_get_data_size, psl_io_buf_is_empty  *)
Data(b) == SubSeq(b.garray, b.nextConsumeIndex + 1, Len(b.garray))

DataSize(b) == Len(b.garray) - b.nextConsumeIndex

IsEmpty(b) == DataSize(b) = 0

(* mutant: one byte too many                                               *)
ConsumeOneMore(b, n) == [b EXCEPT !.nextConsumeIndex = @ + n + 1]

Consume(b, n) == [b EXCEPT !.nextConsumeIndex = @ + n]

(* What SSL_write was given when it had to wait: pDeferredWriteCnt.        *)
DeferredCount(left) == Smaller(left, Capacity)

(* The records OpenSSL may keep of bytes it is given.                      *)
Records(bytes) == {SubSeq(bytes, 1, n) : n \in 1 .. Len(bytes)}

-----------------------------------------------------------------------------
(* Writing.                                                                *)

(* crypto_handle_WRITE of n bytes, of which SSL_write takes the first k.   *)

(* mutant: the user is not told of the bytes that were buffered            *)
WriteForgetsDeferred(n, k, ends) ==
    LET bytes == [i \in 1 .. n |-> accepted + i]
        rest  == SubSeq(bytes, k + 1, k + DeferredCount(n - k))
    IN  /\ stage = "ssl" /\ io = "idle" /\ accepted + n <= MaxBytes
        /\ k = n <=> ends = "idle"
        /\ io' = ends
        /\ sent' = sent \o SubSeq(bytes, 1, k)
        /\ accepted' = accepted + k
        /\ IF ends = "want"
             THEN buf' = ResetAndCopy(rest) /\ held' \in Records(rest)
             ELSE UNCHANGED <<buf, held>>
        /\ UNCHANGED sslVars

Write(n, k, ends) ==
    LET bytes == [i \in 1 .. n |-> accepted + i]
        rest  == SubSeq(bytes, k + 1, k + DeferredCount(n - k))
    IN  /\ stage = "ssl" /\ io = "idle" /\ accepted + n <= MaxBytes
        /\ k = n <=> ends = "idle"
        /\ io' = ends
        /\ sent' = sent \o SubSeq(bytes, 1, k)
        /\ accepted' = accepted + k + (IF ends = "want" THEN Len(rest) ELSE 0)
        /\ IF ends = "want"
             THEN buf' = ResetAndCopy(rest) /\ held' \in Records(rest)
             ELSE UNCHANGED <<buf, held>>
        /\ UNCHANGED sslVars

(* The deferred write step of crypto_process_deferred_ssl_io: OpenSSL      *)
(* sends the record it holds first, whatever it is given, or nothing.      *)
RetryWrite(k, ends) ==
    LET bytes == Data(buf)
        taken == IF k = 0 THEN <<>> ELSE held \o SubSeq(bytes, Len(held) + 1, k)
    IN  /\ stage = "ssl" /\ io = "want"
        /\ k = 0 \/ k >= Len(held)
        /\ k = Len(bytes) <=> ends = "idle"
        /\ io' = ends
        /\ sent' = sent \o taken
        /\ buf' = Consume(buf, k)
        /\ IF ends = "want" /\ k = 0
             THEN UNCHANGED held
           ELSE IF ends = "want"
             THEN held' \in Records(SubSeq(bytes, k + 1, Len(bytes)))
           ELSE held' = <<>>
        /\ UNCHANGED <<sslVars, accepted>>

(* G_IO_HUP or G_IO_NVAL on the socket.                                    *)
HangUp ==
    /\ stage = "ssl" /\ io # "error"
    /\ io' = "error" /\ held' = <<>>
    /\ UNCHANGED <<sslVars, buf, accepted, sent>>

(* The scope of the crypto mode is left: psl_io_buf_uninit.                *)
LeaveCrypto ==
    /\ stage \in {"handshake", "ssl", "refused", "failed"}
    /\ stage' = "closed"
    /\ conf' = NoConf /\ host' = NoHost /\ peer' = NoPeer /\ verify' = NotVerified
    /\ todo' = NoPeer.errors /\ level' = -1
    /\ io' = "idle" /\ buf' = NoBuf /\ held' = <<>> /\ accepted' = 0 /\ sent' = <<>>

-----------------------------------------------------------------------------
Init ==
    /\ stage = "idle" /\ conf = NoConf /\ host = NoHost /\ peer = NoPeer
    /\ todo = NoPeer.errors /\ level = -1 /\ verify = NotVerified
    /\ io = "idle" /\ buf = NoBuf /\ held = <<>> /\ accepted = 0 /\ sent = <<>>

Next ==
    \/ stage = "idle" /\ \E c \in Confs, h \in Hosts, p \in Peers : StartHandshake(c, h, p)
    \/ \E d \in Depths, err \in CertErrors : ReportsError(d, err)
    \/ ReportsSuccess
    \/ HandshakeDone
    \/ HandshakeFails
    \/ EnterSsl
    \/ \E n \in 1 .. MaxWrite : \E k \in 0 .. n, ends \in {"idle", "want", "error"} :
          Write(n, k, ends)
    \/ \E k \in 0 .. DataSize(buf), ends \in {"idle", "want", "error"} : RetryWrite(k, ends)
    \/ HangUp
    \/ LeaveCrypto

Spec == Init /\ [][Next]_vars

-----------------------------------------------------------------------------
(* Properties.                                                             *)

(* An error is let pass if the certificate it is about, at whatever depth, *)
(* is installed where that is enough, or if the user let it pass           *)
(* (psl_channel_fsm_crypto.c:2115-2176).                                   *)
LetPass(d, what) ==
    \/ conf.fallback /\ MatchCertInStore(CertAt(d), peer.store)
    \/ <<d, what>> \in verify.waived

(* A client's handshake is done only with a server that can be trusted:    *)
(* each error of its certificates is the missing CRL, or was let pass; and *)
(* if the host is to be checked, the certificate is for that host, or the  *)
(* mismatch was let pass (psl_channel_fsm_crypto.c:1985-2034).             *)
PeerIsTrusted ==
    stage = "verified" /\ conf.kind = "client" =>
        /\ \A d \in Depths : \A err \in peer.errors[d] : err = "getCrl" \/ LetPass(d, err)
        /\ conf.checkHostname => IsFor(peer.names, host) \/ LetPass(0, "name")

(* What palmsocket.h:503-512 promises of fallbackToInstalledLeaf: that it  *)
(* is the certificate of the peer, and no other, which must be installed   *)
(* for errors of its chain to be let pass.                                 *)
ExcusedOnlyByInstalledLeaf ==
    stage = "verified" /\ conf.kind = "client" =>
        \A d \in Depths : \A err \in peer.errors[d] :
            \/ err = "getCrl"
            \/ conf.fallback /\ MatchCertInStore(CertAt(0), peer.store)
            \/ <<d, err>> \in verify.waived

(* Whoever asks is told why a peer was refused, and nothing of errors that *)
(* were let pass (palmsocket.h:242-249); and without a callback of the     *)
(* user's a peer is refused only for one of these reasons.                 *)
VerdictIsTold ==
    /\ stage = "refused" => PeerCertVerifyErr # "none"
    /\ stage \in {"verified", "ssl"} => PeerCertVerifyErr = "none"
    /\ stage = "refused" /\ ~conf.verifyCb =>
           \/ \E d \in Depths : ~(peer.errors[d] \subseteq {"getCrl"}) /\ ~LetPass(d, "expired")
           \/ conf.checkHostname /\ ~IsFor(peer.names, host)

(* What OpenSSL took and what is still buffered is what the user was told  *)
(* was written, byte for byte and in order; a write that waits is retried  *)
(* with the bytes OpenSSL holds; and the buffer is empty when a WRITE may  *)
(* fill it (psl_channel_fsm_crypto.c:2519, psl_io_buf.h).                  *)
OutputInOrder ==
    /\ sent = [i \in 1 .. Len(sent) |-> i]
    /\ io # "error" => sent \o Data(buf) = [i \in 1 .. accepted |-> i]
    /\ io = "want" => held # <<>> /\ IsPrefix(held, Data(buf))
    /\ io = "idle" => IsEmpty(buf)

(* The octets of a certificate's name and of a host's are matched as       *)
(* labels, by every short name.                                            *)
Texts(alphabet, length) == UNION {[1 .. n -> alphabet] : n \in 0 .. length}

NamesMatchAsLabels ==
    stage = "idle" =>
        \A cn \in Texts({"a", "b", ".", "*"}, 6), hn \in Texts({"A", "."}, 6) :
            CheckCertHostNameMatch(cn, hn) <=> cn # <<>> /\ hn # <<>> /\ SameLabels(cn, hn)

=============================================================================
