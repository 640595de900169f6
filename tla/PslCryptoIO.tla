----------------------------- MODULE PslCryptoIO -----------------------------
(***************************************************************************)
(* The deferred SSL I/O of a channel in crypto mode                        *)
(* (src/src/psl_channel_fsm_crypto.c): what SSL_read and SSL_write leave   *)
(* behind when they cannot finish, and how crypto_process_deferred_ssl_io  *)
(* retries them.  A read that must wait is remembered in io.in, a write in *)
(* io.out with its bytes in io.buf; OpenSSL may want either direction of   *)
(* the socket for either of them.                                          *)
(*                                                                         *)
(* The module has no variables.  An operation is the set of the outcomes   *)
(* it can have, one for each answer OpenSSL (external) may give.  Byte     *)
(* counts are abstracted to "some" and "none": io.buf says that the 16K    *)
(* output buffer still holds bytes, io.pend that SSL_pending() > 0.        *)
(***************************************************************************)

IOStates == {"idle", "wantRead", "wantWrite", "error"}

(* PslChanFsmCryptoInput and PslChanFsmCryptoOutput: ioState, input pslErr *)
(* (only whether it is CLEAN_EOF), deferredByteAvailable, the output       *)
(* buffer; pend belongs to the SSL object.                                 *)
CryptoIO ==
    [in : IOStates, eof : BOOLEAN, byte : BOOLEAN,
     out : IOStates, buf : BOOLEAN, pend : BOOLEAN]

NoIO == [in |-> "idle", eof |-> FALSE, byte |-> FALSE,
         out |-> "idle", buf |-> FALSE, pend |-> FALSE]

Pending(s) == s \in {"wantRead", "wantWrite"}

Want == {"wantRead", "wantWrite"}

(* The events the socket is watched for to complete the deferred I/O.      *)
IOCondition(s) == CASE s = "wantRead"  -> {"IN"}
                    [] s = "wantWrite" -> {"OUT"}
                    [] OTHER           -> {}

DeferredCondition(io) == IOCondition(io.in) \cup IOCondition(io.out)

(* Buffered input that a READ returns without touching the socket.         *)
InputReady(io) == io.pend \/ io.byte

(* What CHECK_IO says of each direction of an established connection.      *)
InputHint(io) == IF Pending(io.in) THEN "notReady"
                 ELSE IF io.in = "error" /\ ~io.eof THEN "readyhup"
                 ELSE "ready"

OutputHint(io) == IF Pending(io.out) THEN "notReady"
                  ELSE IF io.out = "error" THEN "readyhup"
                  ELSE "ready"

-----------------------------------------------------------------------------
(* crypto_read_low for the one byte of a deferred read.  SSL_read does no  *)
(* I/O while SSL_pending() > 0, so it cannot want anything then.           *)
ReadDeferredByte(io) ==
         {[io EXCEPT !.byte = TRUE, !.in = "idle", !.pend = p] : p \in BOOLEAN}
    \cup {[io EXCEPT !.in = "error", !.eof = e] : e \in BOOLEAN}
    \cup (IF io.pend THEN {} ELSE {[io EXCEPT !.in = w] : w \in Want})

(* crypto_write_low for the bytes left in the output buffer, and the       *)
(* post-processing by its caller.  SSL_write may buffer input it meets.    *)
WriteDeferred(io) ==
    UNION {{[io EXCEPT !.out = "idle", !.buf = FALSE, !.pend = p],
            [io EXCEPT !.out = "wantRead",  !.pend = p],
            [io EXCEPT !.out = "wantWrite", !.pend = p],
            [io EXCEPT !.out = "error",     !.pend = p]} : p \in {io.pend, TRUE}}

(* The two steps of the loop of crypto_process_deferred_ssl_io, on a       *)
(* record of its locals: freshin and freshout say which deferred operation *)
(* has been looked at, hint which one was performed last.                  *)
(* MayProceedUnasked is a mutant: the reported conditions are ignored.     *)
MayProceedUnasked(x, revents, conds) ==
    x.hint # "none" \/ revents = {}

MayProceed(x, revents, conds) ==
    x.hint # "none" \/ revents = {} \/ revents \cap conds # {}

(* After a read the write is optimistically taken to wait for output only. *)
WriteStep(x, revents) ==
    IF x.freshout
      THEN {x}
    ELSE IF x.hint = "afterRead" /\ x.io.in # "error"
      THEN {[x EXCEPT !.freshout = TRUE, !.io.out = "wantWrite"]}
    ELSE IF ~MayProceed(x, revents, {"OUT", "HUP"})
      THEN {[x EXCEPT !.freshout = TRUE]}
    ELSE {[freshout |-> TRUE, freshin |-> ~Pending(x.io.in),
           hint |-> "afterWrite", io |-> y] : y \in WriteDeferred(x.io)}

ReadStep(x, revents) ==
    IF x.freshin
      THEN {x}
    ELSE IF x.io.pend
      THEN {[x EXCEPT !.freshin = TRUE, !.hint = "afterRead", !.io = y] :
                y \in ReadDeferredByte(x.io)}
    ELSE IF x.io.out = "wantRead"
      THEN {[x EXCEPT !.freshin = TRUE, !.io.in = "wantRead"]}
    ELSE IF ~MayProceed(x, revents, {"IN", "HUP"})
      THEN {[x EXCEPT !.freshin = TRUE]}
    ELSE {[freshin |-> TRUE, freshout |-> Pending(y.in) \/ ~Pending(y.out),
           hint |-> "afterRead", io |-> y] : y \in ReadDeferredByte(x.io)}

(* G_IO_HUP and G_IO_NVAL (both "HUP" here) end whatever still waits.      *)
HangUp(io, revents) ==
    IF "HUP" \notin revents
      THEN io
      ELSE [io EXCEPT !.in  = IF Pending(io.in) THEN "error" ELSE io.in,
                      !.eof = IF Pending(io.in) THEN FALSE ELSE io.eof,
                      !.out = "error"]

(* crypto_process_deferred_ssl_io without the final re-arming of the fd    *)
(* watch.  The loop looks at the write, the read, and once more at the     *)
(* write when the read made progress: it never runs longer, because the    *)
(* read step only leaves freshout FALSE when it has finished the read.     *)
ProcessDeferred(io, hint, revents) ==
    LET start == [freshin  |-> hint = "afterRead"  \/ ~Pending(io.in),
                  freshout |-> hint = "afterWrite" \/ ~Pending(io.out),
                  hint |-> hint, io |-> io]
    IN  {HangUp(z.io, revents) :
            z \in UNION {UNION {WriteStep(y, revents) : y \in ReadStep(x, revents)} :
                            x \in WriteStep(start, revents)}}

-----------------------------------------------------------------------------
(* crypto_handle_READ: the input states after a READ of at least one byte, *)
(* paired with whether the socket was tried, which makes the caller        *)
(* reconsider a deferred write.  exact is a READ of the one deferred byte. *)
ReadLow(io, deferAllowed) ==
         {[tried |-> FALSE, io |-> y] :
              y \in IF ~io.pend THEN {}
                    ELSE {[io EXCEPT !.pend = p] : p \in BOOLEAN}
                    \cup {[io EXCEPT !.in = "error", !.eof = e] : e \in BOOLEAN}}
    \cup {[tried |-> TRUE, io |-> y] :
              y \in {[io EXCEPT !.pend = p] : p \in BOOLEAN}
               \cup {[io EXCEPT !.pend = FALSE, !.in = "error", !.eof = e] : e \in BOOLEAN}
               \cup IF deferAllowed /\ ~io.pend
                      THEN {[io EXCEPT !.in = w] : w \in Want}
                      ELSE {[io EXCEPT !.pend = FALSE]}}

HandleREAD(io, exact) ==
    IF io.in = "error" \/ Pending(io.in)
      THEN {[tried |-> FALSE, io |-> io]}
    ELSE IF io.byte /\ exact
      THEN {[tried |-> FALSE, io |-> [io EXCEPT !.byte = FALSE]]}
    ELSE UNION {IF r.tried
                  THEN {[tried |-> TRUE, io |-> y] :
                            y \in ProcessDeferred(r.io, "afterRead", {})}
                  ELSE {r} :
                r \in ReadLow([io EXCEPT !.byte = FALSE], ~io.byte)}

(* crypto_handle_WRITE: what could not be written goes to the buffer.      *)
WriteLow(io) ==
    UNION {{[io EXCEPT !.pend = p],
            [io EXCEPT !.out = "wantRead",  !.buf = TRUE, !.pend = p],
            [io EXCEPT !.out = "wantWrite", !.buf = TRUE, !.pend = p],
            [io EXCEPT !.out = "error", !.pend = p]} : p \in {io.pend, TRUE}}

HandleWRITE(io) ==
    UNION {ProcessDeferred(y, "afterWrite", {}) : y \in WriteLow(io)}

-----------------------------------------------------------------------------
(* What must hold of the deferred state between any two events: a waiting  *)
(* write has bytes to write (psl_channel_fsm_crypto.c:2805), no bytes are  *)
(* left behind by a write nobody will retry, and a read waits only while   *)
(* the deferred byte is free to receive it (:2865).                        *)
DeferredOK(io) ==
    /\ Pending(io.out) => io.buf
    /\ io.buf => io.out # "idle"
    /\ Pending(io.in) => ~io.byte
=============================================================================
