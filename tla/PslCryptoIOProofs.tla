-------------------------- MODULE PslCryptoIOProofs --------------------------
(***************************************************************************)
(* What every outcome of the deferred I/O (PslCryptoIO) satisfies: it is   *)
(* well-typed, and the assertions of crypto_process_deferred_ssl_io hold   *)
(* of it if they held before.                                              *)
(***************************************************************************)
EXTENDS PslCryptoIO, TLAPS

(* The deferred I/O of which the assertions hold.                          *)
SoundIO == {io \in CryptoIO : DeferredOK(io)}

(* The locals of the loop: what is left to look at is pending, which are   *)
(* the assertions at its two branches (psl_channel_fsm_crypto.c:2766,2850).*)
Locals ==
    {x \in [freshin : BOOLEAN, freshout : BOOLEAN,
            hint : {"none", "afterRead", "afterWrite"}, io : SoundIO] :
        /\ ~x.freshin  => Pending(x.io.in)
        /\ ~x.freshout => Pending(x.io.out)}

(* The one byte of a deferred read keeps the deferred state sound, and a   *)
(* read that must wait leaves OpenSSL no input buffered.                   *)
LEMMA ReadDeferredByteSound ==
    ASSUME NEW io \in SoundIO, Pending(io.in), NEW y \in ReadDeferredByte(io)
    PROVE  /\ y \in SoundIO /\ y.out = io.out
           /\ Pending(y.in) => ~y.pend
           /\ io.byte => y.byte
<1>1. CASE \E p \in BOOLEAN : y = [io EXCEPT !.byte = TRUE, !.in = "idle", !.pend = p]
  BY <1>1 DEF SoundIO, CryptoIO, DeferredOK, Pending, IOStates
<1>2. CASE \E e \in BOOLEAN : y = [io EXCEPT !.in = "error", !.eof = e]
  <2>1. PICK e \in BOOLEAN : y = [io EXCEPT !.in = "error", !.eof = e]
    BY <1>2
  <2>2. y.in = "error" /\ y.byte = io.byte /\ y.out = io.out
    BY <2>1 DEF SoundIO, CryptoIO
  <2>3. y \in SoundIO
    BY <2>1 DEF SoundIO, CryptoIO, DeferredOK, Pending, IOStates
  <2> QED
    BY <2>2, <2>3 DEF Pending
<1>3. CASE ~io.pend /\ \E w \in Want : y = [io EXCEPT !.in = w]
  BY <1>3 DEF SoundIO, CryptoIO, DeferredOK, Pending, IOStates, Want
<1> QED
  BY <1>1, <1>2, <1>3 DEF ReadDeferredByte

(* So do the bytes of a deferred write.                                    *)
LEMMA WriteDeferredSound ==
    ASSUME NEW io \in SoundIO, Pending(io.out), NEW y \in WriteDeferred(io)
    PROVE  y \in SoundIO /\ y.in = io.in /\ y.byte = io.byte
<1>1. PICK p \in BOOLEAN :
          \/ y = [io EXCEPT !.out = "idle", !.buf = FALSE, !.pend = p]
          \/ \E s \in {"wantRead", "wantWrite", "error"} : y = [io EXCEPT !.out = s, !.pend = p]
  <2>1. io.pend \in BOOLEAN
    BY DEF SoundIO, CryptoIO
  <2> QED
    BY <2>1 DEF WriteDeferred
<1> QED
  BY <1>1 DEF SoundIO, CryptoIO, DeferredOK, Pending, IOStates

(* The write branch of the loop keeps its assertions.                      *)
LEMMA WriteStepSound ==
    ASSUME NEW x \in Locals, NEW revents, NEW y \in WriteStep(x, revents)
    PROVE  y \in Locals
<1>1. CASE x.freshout
  BY <1>1 DEF WriteStep
<1>2. CASE ~x.freshout /\ x.hint = "afterRead" /\ x.io.in # "error"
  <2>1. y = [x EXCEPT !.freshout = TRUE, !.io.out = "wantWrite"]
    BY <1>2 DEF WriteStep
  <2> QED
    BY <1>2, <2>1 DEF Locals, SoundIO, CryptoIO, DeferredOK, Pending, IOStates
<1>3. CASE /\ ~x.freshout /\ ~(x.hint = "afterRead" /\ x.io.in # "error")
           /\ ~MayProceed(x, revents, {"OUT", "HUP"})
  <2>1. y = [x EXCEPT !.freshout = TRUE]
    BY <1>3 DEF WriteStep
  <2> QED
    BY <2>1 DEF Locals
<1>4. CASE /\ ~x.freshout /\ ~(x.hint = "afterRead" /\ x.io.in # "error")
           /\ MayProceed(x, revents, {"OUT", "HUP"})
  <2>1. PICK z \in WriteDeferred(x.io) :
            y = [freshout |-> TRUE, freshin |-> ~Pending(x.io.in),
                 hint |-> "afterWrite", io |-> z]
    BY <1>4 DEF WriteStep
  <2>2. z \in SoundIO /\ z.in = x.io.in
    BY <1>4, WriteDeferredSound DEF Locals
  <2> QED
    BY <2>1, <2>2 DEF Locals, Pending
<1> QED
  BY <1>1, <1>2, <1>3, <1>4

(* The read branch keeps them, too.                                        *)
LEMMA ReadStepSound ==
    ASSUME NEW x \in Locals, NEW revents, NEW y \in ReadStep(x, revents)
    PROVE  y \in Locals
<1>1. CASE x.freshin
  BY <1>1 DEF ReadStep
<1>2. CASE ~x.freshin /\ x.io.pend
  <2>1. PICK z \in ReadDeferredByte(x.io) :
            y = [x EXCEPT !.freshin = TRUE, !.hint = "afterRead", !.io = z]
    BY <1>2 DEF ReadStep
  <2>2. z \in SoundIO /\ z.out = x.io.out
    BY <1>2, ReadDeferredByteSound DEF Locals
  <2> QED
    BY <2>1, <2>2 DEF Locals, Pending
<1>3. CASE ~x.freshin /\ ~x.io.pend /\ x.io.out = "wantRead"
  <2>1. y = [x EXCEPT !.freshin = TRUE, !.io.in = "wantRead"]
    BY <1>3 DEF ReadStep
  <2> QED
    BY <1>3, <2>1 DEF Locals, SoundIO, CryptoIO, DeferredOK, Pending, IOStates
<1>4. CASE /\ ~x.freshin /\ ~x.io.pend /\ x.io.out # "wantRead"
           /\ ~MayProceed(x, revents, {"IN", "HUP"})
  <2>1. y = [x EXCEPT !.freshin = TRUE]
    BY <1>4 DEF ReadStep
  <2> QED
    BY <2>1 DEF Locals
<1>5. CASE /\ ~x.freshin /\ ~x.io.pend /\ x.io.out # "wantRead"
           /\ MayProceed(x, revents, {"IN", "HUP"})
  <2>1. PICK z \in ReadDeferredByte(x.io) :
            y = [freshin |-> TRUE, freshout |-> Pending(z.in) \/ ~Pending(z.out),
                 hint |-> "afterRead", io |-> z]
    BY <1>5 DEF ReadStep
  <2>2. z \in SoundIO
    BY <1>5, ReadDeferredByteSound DEF Locals
  <2> QED
    BY <2>1, <2>2 DEF Locals, Pending
<1> QED
  BY <1>1, <1>2, <1>3, <1>4, <1>5

(* A hang-up ends what waits and leaves nothing that waits.                *)
LEMMA HangUpSound ==
    ASSUME NEW io \in SoundIO, NEW revents
    PROVE  HangUp(io, revents) \in SoundIO
  BY DEF HangUp, SoundIO, CryptoIO, DeferredOK, Pending, IOStates

(* No PSL_ASSERT of crypto_process_deferred_ssl_io on the deferred state   *)
(* fails, and the state it leaves is sound again, whatever OpenSSL answers *)
(* and whatever events the socket reports.                                 *)
THEOREM ProcessDeferredSound ==
    ASSUME NEW io \in SoundIO, NEW hint \in {"none", "afterRead", "afterWrite"},
           NEW revents, NEW z \in ProcessDeferred(io, hint, revents)
    PROVE  z \in SoundIO
<1> DEFINE start == [freshin  |-> hint = "afterRead"  \/ ~Pending(io.in),
                     freshout |-> hint = "afterWrite" \/ ~Pending(io.out),
                     hint |-> hint, io |-> io]
<1>1. start \in Locals
  BY DEF Locals, Pending
<1>2. PICK x \in WriteStep(start, revents) : \E y \in ReadStep(x, revents) :
          \E w \in WriteStep(y, revents) : z = HangUp(w.io, revents)
  BY DEF ProcessDeferred
<1>3. PICK y \in ReadStep(x, revents) :
          \E w \in WriteStep(y, revents) : z = HangUp(w.io, revents)
  BY <1>2
<1>4. PICK w \in WriteStep(y, revents) : z = HangUp(w.io, revents)
  BY <1>3
<1>5. w \in Locals
  <2> HIDE DEF start
  <2> QED
    BY <1>1, WriteStepSound, ReadStepSound
<1> QED
  BY <1>4, <1>5, HangUpSound DEF Locals

(* It defers no read of its own: an input that does not wait before does   *)
(* not wait after.                                                         *)
LEMMA ProcessDeferredKeepsInput ==
    ASSUME NEW io \in SoundIO, ~Pending(io.in),
           NEW hint \in {"none", "afterRead", "afterWrite"},
           NEW revents, NEW z \in ProcessDeferred(io, hint, revents)
    PROVE  ~Pending(z.in)
<1> DEFINE Idle == {x \in Locals : x.freshin /\ ~Pending(x.io.in)}
           start == [freshin  |-> hint = "afterRead"  \/ ~Pending(io.in),
                     freshout |-> hint = "afterWrite" \/ ~Pending(io.out),
                     hint |-> hint, io |-> io]
<1>1. start \in Idle
  BY DEF Locals, Pending
<1>2. ASSUME NEW x \in Idle, NEW y \in WriteStep(x, revents) PROVE y \in Idle
  <2>1. y \in Locals
    BY WriteStepSound
  <2>2. CASE y = x
    BY <2>2
  <2>3. CASE y = [x EXCEPT !.freshout = TRUE, !.io.out = "wantWrite"]
    BY <2>1, <2>3 DEF Locals, SoundIO, CryptoIO
  <2>4. CASE y = [x EXCEPT !.freshout = TRUE]
    BY <2>1, <2>4 DEF Locals
  <2>5. CASE /\ ~x.freshout
             /\ \E w \in WriteDeferred(x.io) :
                  y = [freshout |-> TRUE, freshin |-> ~Pending(x.io.in),
                       hint |-> "afterWrite", io |-> w]
    <3>1. PICK w \in WriteDeferred(x.io) :
              y = [freshout |-> TRUE, freshin |-> ~Pending(x.io.in),
                   hint |-> "afterWrite", io |-> w]
      BY <2>5
    <3>2. w.in = x.io.in
      BY <2>5, WriteDeferredSound DEF Locals
    <3> QED
      BY <2>1, <3>1, <3>2
  <2> QED
    BY <2>2, <2>3, <2>4, <2>5 DEF WriteStep
<1>3. ASSUME NEW x \in Idle, NEW y \in ReadStep(x, revents) PROVE y = x
  BY <1>3 DEF ReadStep
<1>4. PICK x \in WriteStep(start, revents) : \E y \in ReadStep(x, revents) :
          \E w \in WriteStep(y, revents) : z = HangUp(w.io, revents)
  BY DEF ProcessDeferred
<1>5. PICK w \in WriteStep(x, revents) : z = HangUp(w.io, revents)
  <2> HIDE DEF start, Idle
  <2> QED
    BY <1>1, <1>2, <1>3, <1>4
<1>6. w \in Idle
  <2> HIDE DEF start, Idle
  <2> QED
    BY <1>1, <1>2, <1>4, <1>5
<1> QED
  BY <1>5, <1>6 DEF HangUp, Locals, SoundIO, CryptoIO, Pending

(* So does the SSL_read of a READ, the deferred byte having been taken.    *)
LEMMA ReadLowSound ==
    ASSUME NEW io \in SoundIO, ~io.byte, NEW d \in BOOLEAN, NEW q \in ReadLow(io, d)
    PROVE  /\ q.tried \in BOOLEAN /\ q.io \in SoundIO
           /\ ~q.tried /\ ~Pending(io.in) => ~Pending(q.io.in)
<1> DEFINE Plain(y) == \/ \E p \in BOOLEAN : y = [io EXCEPT !.pend = p]
                       \/ \E e \in BOOLEAN : y = [io EXCEPT !.in = "error", !.eof = e]
           Other(y) == \/ \E e \in BOOLEAN : y = [io EXCEPT !.pend = FALSE, !.in = "error", !.eof = e]
                       \/ \E w \in Want : y = [io EXCEPT !.in = w]
<1>1. \/ \E y : q = [tried |-> FALSE, io |-> y] /\ Plain(y)
      \/ \E y : q = [tried |-> TRUE, io |-> y] /\ (Plain(y) \/ Other(y))
  <2>1. CASE /\ io.pend
             /\ q \in {[tried |-> FALSE, io |-> y] : y \in
                        {[io EXCEPT !.pend = p] : p \in BOOLEAN}
                        \cup {[io EXCEPT !.in = "error", !.eof = e] : e \in BOOLEAN}}
    BY <2>1
  <2>2. CASE q \in {[tried |-> TRUE, io |-> y] : y \in
                        {[io EXCEPT !.pend = p] : p \in BOOLEAN}
                        \cup {[io EXCEPT !.pend = FALSE, !.in = "error", !.eof = e] : e \in BOOLEAN}
                        \cup {[io EXCEPT !.in = w] : w \in Want}
                        \cup {[io EXCEPT !.pend = FALSE]}}
    BY <2>2
  <2> QED
    BY <2>1, <2>2 DEF ReadLow
<1>2. ASSUME NEW y, Plain(y) PROVE y \in SoundIO /\ (~Pending(io.in) => ~Pending(y.in))
  BY <1>2 DEF SoundIO, CryptoIO, DeferredOK, Pending, IOStates
<1>3. ASSUME NEW y, Other(y) PROVE y \in SoundIO
  BY <1>3 DEF SoundIO, CryptoIO, DeferredOK, Pending, IOStates, Want
<1> HIDE DEF Plain, Other
<1>4. CASE \E y : q = [tried |-> FALSE, io |-> y] /\ Plain(y)
  BY <1>4, <1>2
<1>5. CASE \E y : q = [tried |-> TRUE, io |-> y] /\ (Plain(y) \/ Other(y))
  BY <1>5, <1>2, <1>3
<1> QED
  BY <1>1, <1>4, <1>5

(* So does the SSL_write of a WRITE.                                       *)
LEMMA WriteLowSound ==
    ASSUME NEW io \in SoundIO, NEW y \in WriteLow(io)
    PROVE  y \in SoundIO /\ y.in = io.in
<1>1. PICK p \in BOOLEAN :
          \/ y = [io EXCEPT !.pend = p]
          \/ \E w \in Want : y = [io EXCEPT !.out = w, !.buf = TRUE, !.pend = p]
          \/ y = [io EXCEPT !.out = "error", !.pend = p]
  <2>1. io.pend \in BOOLEAN
    BY DEF SoundIO, CryptoIO
  <2> QED
    BY <2>1 DEF WriteLow, Want
<1> QED
  BY <1>1 DEF SoundIO, CryptoIO, DeferredOK, Pending, IOStates, Want

(* A READ leaves the deferred state sound, and defers nothing unless it    *)
(* has tried the socket.                                                   *)
THEOREM HandleREADSound ==
    ASSUME NEW io \in SoundIO, NEW exact \in BOOLEAN, NEW r \in HandleREAD(io, exact)
    PROVE  /\ r.tried \in BOOLEAN /\ r.io \in SoundIO
           /\ ~r.tried /\ ~Pending(io.in) => ~Pending(r.io.in)
<1>1. CASE io.in = "error" \/ Pending(io.in)
  <2>1. r = [tried |-> FALSE, io |-> io]
    BY <1>1 DEF HandleREAD
  <2> QED
    BY <2>1
<1>2. CASE ~(io.in = "error" \/ Pending(io.in)) /\ io.byte /\ exact
  <2>1. r = [tried |-> FALSE, io |-> [io EXCEPT !.byte = FALSE]]
    BY <1>2 DEF HandleREAD
  <2> QED
    BY <2>1 DEF SoundIO, CryptoIO, DeferredOK
<1>3. CASE ~(io.in = "error" \/ Pending(io.in)) /\ ~(io.byte /\ exact)
  <2> DEFINE jo == [io EXCEPT !.byte = FALSE]
  <2>1. jo \in SoundIO /\ jo.byte = FALSE /\ jo.in = io.in
    BY DEF SoundIO, CryptoIO, DeferredOK
  <2>2. PICK q \in ReadLow(jo, ~io.byte) :
            \/ q.tried /\ \E y \in ProcessDeferred(q.io, "afterRead", {}) :
                              r = [tried |-> TRUE, io |-> y]
            \/ ~q.tried /\ r = q
    BY <1>3 DEF HandleREAD
  <2>3. /\ q.tried \in BOOLEAN /\ q.io \in SoundIO
        /\ ~q.tried /\ ~Pending(io.in) => ~Pending(q.io.in)
    <3> HIDE DEF jo
    <3> QED
      BY <2>1, ReadLowSound
  <2>4. CASE q.tried
    <3>1. PICK y \in ProcessDeferred(q.io, "afterRead", {}) : r = [tried |-> TRUE, io |-> y]
      BY <2>2, <2>4
    <3>2. y \in SoundIO
      BY <2>3, ProcessDeferredSound
    <3> QED
      BY <3>1, <3>2
  <2>5. CASE ~q.tried
    BY <2>2, <2>3, <2>5
  <2> QED
    BY <2>3, <2>4, <2>5
<1> QED
  BY <1>1, <1>2, <1>3

(* A WRITE leaves the deferred state sound.                                *)
THEOREM HandleWRITESound ==
    ASSUME NEW io \in SoundIO, NEW z \in HandleWRITE(io)
    PROVE  z \in SoundIO
<1>1. PICK y \in WriteLow(io) : z \in ProcessDeferred(y, "afterWrite", {})
  BY DEF HandleWRITE
<1>2. y \in SoundIO
  BY WriteLowSound
<1> QED
  BY <1>1, <1>2, ProcessDeferredSound

-----------------------------------------------------------------------------
(* What the loop does not undo.                                            *)

(* An error of either direction stays, the deferred byte waits for its     *)
(* reader, and no write is deferred where none was.                        *)
Onward(y, z) ==
    /\ y.in = "error" => z.in = "error"
    /\ y.out = "error" => z.out = "error"
    /\ y.byte => z.byte
    /\ ~Pending(y.out) => ~Pending(z.out)

(* While a read waits for the socket OpenSSL has no input buffered: nobody *)
(* would be told of it.                                                    *)
Shown(y) == Pending(y.in) => ~y.pend

(* The relation holds along the loop.                                      *)
LEMMA OnwardTransitive ==
    ASSUME NEW x, NEW y, NEW z, Onward(x, y), Onward(y, z)
    PROVE  Onward(x, z)
  BY DEF Onward

(* A deferred operation looks only at what waits.                          *)
LEMMA DeferredOnward ==
    ASSUME NEW io \in SoundIO
    PROVE  /\ Pending(io.in) => \A y \in ReadDeferredByte(io) : Onward(io, y)
           /\ Pending(io.out) => \A y \in WriteDeferred(io) : Onward(io, y)
<1>1. ASSUME Pending(io.in), NEW y \in ReadDeferredByte(io) PROVE Onward(io, y)
  <2>1. y.out = io.out /\ (io.byte => y.byte)
    BY <1>1, ReadDeferredByteSound
  <2> QED
    BY <1>1, <2>1 DEF Onward, Pending
<1>2. ASSUME Pending(io.out), NEW y \in WriteDeferred(io) PROVE Onward(io, y)
  <2>1. y.in = io.in /\ y.byte = io.byte
    BY <1>2, WriteDeferredSound
  <2> QED
    BY <1>2, <2>1 DEF Onward, Pending
<1> QED
  BY <1>1, <1>2

(* Both steps of the loop go onward.                                       *)
LEMMA StepsOnward ==
    ASSUME NEW x \in Locals, NEW revents
    PROVE  /\ \A y \in WriteStep(x, revents) : Onward(x.io, y.io)
           /\ \A y \in ReadStep(x, revents) : Onward(x.io, y.io)
<1> USE DEF Locals
<1>1. x.io \in SoundIO
  OBVIOUS
<1>2. ASSUME NEW y \in WriteStep(x, revents) PROVE Onward(x.io, y.io)
  <2>1. CASE y.io = x.io
    BY <2>1 DEF Onward
  <2>2. CASE ~x.freshout /\ y = [x EXCEPT !.freshout = TRUE, !.io.out = "wantWrite"]
    BY <1>1, <2>2 DEF Onward, SoundIO, CryptoIO, Pending
  <2>3. CASE ~x.freshout /\ y.io \in WriteDeferred(x.io)
    BY <1>1, <2>3, DeferredOnward
  <2> QED
    BY <1>2, <2>1, <2>2, <2>3 DEF WriteStep
<1>3. ASSUME NEW y \in ReadStep(x, revents) PROVE Onward(x.io, y.io)
  <2>1. CASE y = x \/ y = [x EXCEPT !.freshin = TRUE]
    BY <2>1 DEF Onward
  <2>2. CASE ~x.freshin /\ y = [x EXCEPT !.freshin = TRUE, !.io.in = "wantRead"]
    BY <1>1, <2>2 DEF Onward, SoundIO, CryptoIO, Pending
  <2>3. CASE ~x.freshin /\ \E v \in ReadDeferredByte(x.io) : y.io = v
    BY <1>1, <2>3, DeferredOnward
  <2>4. CASE x.freshin
    BY <1>3, <2>1, <2>4 DEF ReadStep
  <2>5. CASE ~x.freshin /\ x.io.pend
    <3>1. PICK v \in ReadDeferredByte(x.io) :
              y = [x EXCEPT !.freshin = TRUE, !.hint = "afterRead", !.io = v]
      BY <1>3, <2>5 DEF ReadStep
    <3> QED
      BY <2>3, <2>5, <3>1
  <2>6. CASE ~x.freshin /\ ~x.io.pend
    BY <1>3, <2>1, <2>2, <2>3, <2>6 DEF ReadStep
  <2> QED
    BY <2>4, <2>5, <2>6
<1> QED
  BY <1>2, <1>3

(* The loop and the hang-up that may follow it go onward.                  *)
LEMMA ProcessDeferredOnward ==
    ASSUME NEW io \in SoundIO, NEW hint \in {"none", "afterRead", "afterWrite"},
           NEW revents, NEW z \in ProcessDeferred(io, hint, revents)
    PROVE  Onward(io, z)
<1> DEFINE start == [freshin  |-> hint = "afterRead"  \/ ~Pending(io.in),
                     freshout |-> hint = "afterWrite" \/ ~Pending(io.out),
                     hint |-> hint, io |-> io]
<1>1. start \in Locals /\ start.io = io
  BY DEF Locals, Pending
<1>2. PICK x \in WriteStep(start, revents) : \E y \in ReadStep(x, revents) :
          \E w \in WriteStep(y, revents) : z = HangUp(w.io, revents)
  BY DEF ProcessDeferred
<1>3. PICK y \in ReadStep(x, revents) :
          \E w \in WriteStep(y, revents) : z = HangUp(w.io, revents)
  BY <1>2
<1>4. PICK w \in WriteStep(y, revents) : z = HangUp(w.io, revents)
  BY <1>3
<1> HIDE DEF start
<1>5. x \in Locals /\ y \in Locals /\ w \in Locals
  BY <1>1, WriteStepSound, ReadStepSound
<1>6. Onward(io, x.io) /\ Onward(x.io, y.io) /\ Onward(y.io, w.io)
  BY <1>1, <1>5, StepsOnward
<1>7. Onward(w.io, z)
  BY <1>4, <1>5 DEF HangUp, Onward, Locals, SoundIO, CryptoIO, Pending
<1> QED
  BY <1>6, <1>7, OnwardTransitive

(* It leaves no buffered input behind a read that waits: what SSL_write    *)
(* met is offered to the read before the loop ends.                        *)
LEMMA ProcessDeferredShown ==
    ASSUME NEW io \in SoundIO, NEW hint \in {"none", "afterRead", "afterWrite"},
           hint = "afterRead" => Shown(io),
           NEW revents, NEW z \in ProcessDeferred(io, hint, revents)
    PROVE  Shown(z)
<1> DEFINE start == [freshin  |-> hint = "afterRead"  \/ ~Pending(io.in),
                     freshout |-> hint = "afterWrite" \/ ~Pending(io.out),
                     hint |-> hint, io |-> io]
           AfterWrite == {x \in Locals : x.freshout /\ (x.freshin => Shown(x.io))}
           AfterRead  == {x \in Locals : Shown(x.io) /\ (Pending(x.io.in) => x.freshout)}
<1>1. start \in Locals /\ (start.freshin => Shown(start.io))
  BY DEF Locals, Pending, Shown
<1>2. ASSUME NEW x \in Locals, x.freshin => Shown(x.io), NEW y \in WriteStep(x, revents)
      PROVE  y \in AfterWrite
  <2>1. y \in Locals
    BY WriteStepSound
  <2>2. CASE y = x /\ x.freshout
    BY <1>2, <2>2
  <2>3. CASE y = [x EXCEPT !.freshout = TRUE, !.io.out = "wantWrite"]
    BY <1>2, <2>1, <2>3 DEF Locals, SoundIO, CryptoIO, Shown
  <2>4. CASE y = [x EXCEPT !.freshout = TRUE]
    BY <1>2, <2>1, <2>4 DEF Locals
  <2>5. CASE /\ ~x.freshout
             /\ \E v \in WriteDeferred(x.io) :
                  y = [freshout |-> TRUE, freshin |-> ~Pending(x.io.in),
                       hint |-> "afterWrite", io |-> v]
    <3>1. PICK v \in WriteDeferred(x.io) :
              y = [freshout |-> TRUE, freshin |-> ~Pending(x.io.in),
                   hint |-> "afterWrite", io |-> v]
      BY <2>5
    <3>2. v.in = x.io.in
      BY <2>5, WriteDeferredSound DEF Locals
    <3> QED
      BY <2>1, <3>1, <3>2 DEF Shown
  <2> QED
    BY <2>2, <2>3, <2>4, <2>5 DEF WriteStep
<1>3. ASSUME NEW x \in AfterWrite, NEW y \in ReadStep(x, revents)
      PROVE  y \in AfterRead
  <2>1. y \in Locals
    BY ReadStepSound
  <2>2. CASE y = x /\ x.freshin
    BY <1>3, <2>2
  <2>3. CASE /\ ~x.freshin
             /\ \E v \in ReadDeferredByte(x.io) :
                  y = [x EXCEPT !.freshin = TRUE, !.hint = "afterRead", !.io = v]
    <3>1. PICK v \in ReadDeferredByte(x.io) :
              y = [x EXCEPT !.freshin = TRUE, !.hint = "afterRead", !.io = v]
      BY <2>3
    <3>2. ~Pending(v.in) \/ ~v.pend
      BY <2>3, <3>1, ReadDeferredByteSound DEF Locals
    <3>3. x.freshout /\ y.io = v /\ y.freshout = x.freshout
      BY <1>3, <3>1 DEF Locals
    <3> QED
      BY <2>1, <3>2, <3>3 DEF Shown
  <2>4. CASE ~x.io.pend /\ y = [x EXCEPT !.freshin = TRUE, !.io.in = "wantRead"]
    BY <1>3, <2>1, <2>4 DEF Shown, Locals, SoundIO, CryptoIO
  <2>5. CASE ~x.io.pend /\ y = [x EXCEPT !.freshin = TRUE]
    BY <1>3, <2>1, <2>5 DEF Shown, Locals
  <2>6. CASE ~x.freshin /\ \E v \in ReadDeferredByte(x.io) :
                y = [freshin |-> TRUE, freshout |-> Pending(v.in) \/ ~Pending(v.out),
                     hint |-> "afterRead", io |-> v]
    <3>1. PICK v \in ReadDeferredByte(x.io) :
                y = [freshin |-> TRUE, freshout |-> Pending(v.in) \/ ~Pending(v.out),
                     hint |-> "afterRead", io |-> v]
      BY <2>6
    <3>2. Pending(v.in) => ~v.pend
      BY <2>6, <3>1, ReadDeferredByteSound DEF Locals
    <3> QED
      BY <2>1, <3>1, <3>2 DEF Shown
  <2> QED
    BY <1>3, <2>2, <2>3, <2>4, <2>5, <2>6 DEF ReadStep
<1>4. ASSUME NEW x \in AfterRead, NEW y \in WriteStep(x, revents)
      PROVE  y \in Locals /\ Shown(y.io)
  <2>1. y \in Locals
    BY WriteStepSound
  <2>2. CASE x.freshout
    BY <1>4, <2>2 DEF WriteStep
  <2>3. CASE ~x.freshout
    <3>1. ~Pending(x.io.in)
      BY <2>3
    <3>2. y.io.in = x.io.in
      <4>1. CASE \E v \in WriteDeferred(x.io) : y.io = v
        BY <2>3, <4>1, WriteDeferredSound DEF Locals
      <4>2. CASE y = [x EXCEPT !.freshout = TRUE, !.io.out = "wantWrite"]
        BY <4>2 DEF Locals, SoundIO, CryptoIO
      <4>3. CASE y = [x EXCEPT !.freshout = TRUE]
        BY <4>3 DEF Locals
      <4> QED
        BY <1>4, <2>3, <4>1, <4>2, <4>3 DEF WriteStep
    <3> QED
      BY <2>1, <3>1, <3>2 DEF Shown
  <2> QED
    BY <2>2, <2>3
<1>5. PICK x \in WriteStep(start, revents) : \E y \in ReadStep(x, revents) :
          \E w \in WriteStep(y, revents) : z = HangUp(w.io, revents)
  BY DEF ProcessDeferred
<1>6. PICK y \in ReadStep(x, revents) :
          \E w \in WriteStep(y, revents) : z = HangUp(w.io, revents)
  BY <1>5
<1>7. PICK w \in WriteStep(y, revents) : z = HangUp(w.io, revents)
  BY <1>6
<1> HIDE DEF start, AfterWrite, AfterRead
<1>8. x \in AfterWrite
  BY <1>1, <1>2
<1>9. y \in AfterRead
  BY <1>3, <1>8
<1>10. w \in Locals /\ Shown(w.io)
  BY <1>4, <1>9
<1> QED
  BY <1>7, <1>10 DEF HangUp, Shown, Locals, SoundIO, CryptoIO, Pending

(* After a READ that succeeded or must wait, a deferred write is taken to  *)
(* wait for output; after one that failed it is tried.                     *)
LEMMA ProcessAfterRead ==
    ASSUME NEW io \in SoundIO, NEW z \in ProcessDeferred(io, "afterRead", {}), Pending(io.out)
    PROVE  Pending(z.out) \/ z.in = "error"
<1> DEFINE start == [freshin  |-> "afterRead" = "afterRead"  \/ ~Pending(io.in),
                     freshout |-> "afterRead" = "afterWrite" \/ ~Pending(io.out),
                     hint |-> "afterRead", io |-> io]
<1>1. CASE io.in = "error"
  BY <1>1, ProcessDeferredOnward DEF Onward
<1>2. CASE io.in # "error"
  <2>1. PICK x \in WriteStep(start, {}) : \E y \in ReadStep(x, {}) :
            \E w \in WriteStep(y, {}) : z = HangUp(w.io, {})
    BY DEF ProcessDeferred
  <2>2. x = [start EXCEPT !.freshout = TRUE, !.io.out = "wantWrite"]
    BY <1>2, <2>1 DEF WriteStep
  <2>3. x.freshin /\ x.freshout /\ x.io.out = "wantWrite"
    BY <2>2 DEF SoundIO, CryptoIO
  <2>4. z = x.io
    BY <2>1, <2>3 DEF ReadStep, WriteStep, HangUp
  <2> QED
    BY <2>3, <2>4 DEF Pending
<1> QED
  BY <1>1, <1>2

(* The SSL_read of a READ leaves the output alone, and the input as it was *)
(* unless it failed or must wait for the socket with nothing buffered.     *)
LEMMA ReadLowKeeps ==
    ASSUME NEW io \in SoundIO, NEW d \in BOOLEAN, NEW q \in ReadLow(io, d)
    PROVE  /\ q.io.out = io.out
           /\ ~q.tried => q.io.in \in {io.in, "error"}
           /\ q.io.in = io.in \/ ~Pending(q.io.in) \/ ~q.io.pend
<1> DEFINE Same(y)   == \E p \in BOOLEAN : y = [io EXCEPT !.pend = p]
           Failed(y) == \/ \E e \in BOOLEAN : y = [io EXCEPT !.in = "error", !.eof = e]
                        \/ \E e \in BOOLEAN :
                               y = [io EXCEPT !.pend = FALSE, !.in = "error", !.eof = e]
           Waits(y)  == ~io.pend /\ \E w \in Want : y = [io EXCEPT !.in = w]
<1>1. \/ \E y : q = [tried |-> FALSE, io |-> y] /\ (Same(y) \/ Failed(y))
      \/ \E y : q = [tried |-> TRUE, io |-> y] /\ (Same(y) \/ Failed(y) \/ Waits(y))
  <2>1. CASE q \in {[tried |-> FALSE, io |-> y] : y \in
                        {[io EXCEPT !.pend = p] : p \in BOOLEAN}
                        \cup {[io EXCEPT !.in = "error", !.eof = e] : e \in BOOLEAN}}
    BY <2>1
  <2>2. CASE q \in {[tried |-> TRUE, io |-> y] : y \in
                        {[io EXCEPT !.pend = p] : p \in BOOLEAN}
                        \cup {[io EXCEPT !.pend = FALSE, !.in = "error", !.eof = e] : e \in BOOLEAN}
                        \cup {[io EXCEPT !.pend = FALSE]}}
    BY <2>2
  <2>3. CASE /\ ~io.pend
             /\ q \in {[tried |-> TRUE, io |-> y] : y \in {[io EXCEPT !.in = w] : w \in Want}}
    BY <2>3
  <2> QED
    BY <2>1, <2>2, <2>3 DEF ReadLow
<1>2. ASSUME NEW y, Same(y) PROVE y.out = io.out /\ y.in = io.in
  BY <1>2 DEF SoundIO, CryptoIO
<1>3. ASSUME NEW y, Failed(y) PROVE y.out = io.out /\ y.in = "error"
  BY <1>3 DEF SoundIO, CryptoIO
<1>4. ASSUME NEW y, Waits(y) PROVE y.out = io.out /\ ~y.pend
  BY <1>4 DEF SoundIO, CryptoIO
<1> HIDE DEF Same, Failed, Waits
<1> QED
  BY <1>1, <1>2, <1>3, <1>4 DEF Pending

(* A READ undoes no error, defers no write, leaves no input unseen and, if *)
(* it did not try the socket, nothing that the socket is watched for.      *)
LEMMA HandleREADKeeps ==
    ASSUME NEW io \in SoundIO, Shown(io), NEW exact \in BOOLEAN, NEW r \in HandleREAD(io, exact)
    PROVE  /\ Shown(r.io)
           /\ io.in = "error" => r.io.in = "error"
           /\ io.out = "error" => r.io.out = "error"
           /\ ~Pending(io.out) => ~Pending(r.io.out)
           /\ ~r.tried => /\ r.io.out = io.out
                          /\ DeferredCondition(r.io) = DeferredCondition(io)
           /\ Pending(io.out) => Pending(r.io.out) \/ r.io.in = "error"
<1>1. CASE io.in = "error" \/ Pending(io.in)
  <2>1. r = [tried |-> FALSE, io |-> io]
    BY <1>1 DEF HandleREAD
  <2> QED
    BY <2>1
<1>2. CASE ~(io.in = "error" \/ Pending(io.in)) /\ io.byte /\ exact
  <2>1. r = [tried |-> FALSE, io |-> [io EXCEPT !.byte = FALSE]]
    BY <1>2 DEF HandleREAD
  <2>2. r.io.in = io.in /\ r.io.out = io.out /\ r.io.pend = io.pend /\ ~r.tried
    BY <2>1 DEF SoundIO, CryptoIO
  <2> QED
    BY <2>2 DEF Shown, DeferredCondition
<1>3. CASE ~(io.in = "error" \/ Pending(io.in)) /\ ~(io.byte /\ exact)
  <2> DEFINE jo == [io EXCEPT !.byte = FALSE]
  <2>1. jo \in SoundIO /\ jo.byte = FALSE /\ jo.in = io.in /\ jo.out = io.out
    BY DEF SoundIO, CryptoIO, DeferredOK
  <2>2. PICK q \in ReadLow(jo, ~io.byte) :
            \/ q.tried /\ \E y \in ProcessDeferred(q.io, "afterRead", {}) :
                              r = [tried |-> TRUE, io |-> y]
            \/ ~q.tried /\ r = q
    BY <1>3 DEF HandleREAD
  <2>3. /\ q.io \in SoundIO /\ q.io.out = io.out
        /\ ~q.tried => q.io.in \in {io.in, "error"}
        /\ Shown(q.io)
    <3> HIDE DEF jo
    <3>1. (~io.byte) \in BOOLEAN
      OBVIOUS
    <3>2. q.io \in SoundIO
      BY <2>1, <3>1, ReadLowSound
    <3>3. /\ q.io.out = jo.out
          /\ ~q.tried => q.io.in \in {jo.in, "error"}
          /\ q.io.in = jo.in \/ ~Pending(q.io.in) \/ ~q.io.pend
      BY <2>1, <3>1, ReadLowKeeps
    <3> QED
      BY <1>3, <2>1, <3>2, <3>3 DEF Shown
  <2>4. CASE q.tried
    <3>1. PICK y \in ProcessDeferred(q.io, "afterRead", {}) : r = [tried |-> TRUE, io |-> y]
      BY <2>2, <2>4
    <3>2. Onward(q.io, y) /\ Shown(y)
      BY <2>3, ProcessDeferredOnward, ProcessDeferredShown
    <3>3. Pending(io.out) => Pending(y.out) \/ y.in = "error"
      BY <2>3, ProcessAfterRead
    <3> QED
      BY <1>3, <2>3, <3>1, <3>2, <3>3 DEF Onward
  <2>5. CASE ~q.tried
    <3>1. r = q /\ r.io.out = io.out /\ r.io.in \in {io.in, "error"}
      BY <2>2, <2>3, <2>5
    <3>2. IOCondition(r.io.in) = IOCondition(io.in)
      <4>1. CASE r.io.in = io.in
        BY <4>1
      <4>2. CASE r.io.in = "error"
        <5>1. IOCondition("error") = {} /\ IOCondition("idle") = {}
          BY DEF IOCondition
        <5>2. io.in = "idle"
          BY <1>3 DEF SoundIO, CryptoIO, IOStates, Pending
        <5> QED
          BY <4>2, <5>1, <5>2
      <4> QED
        BY <3>1, <4>1, <4>2
    <3> QED
      BY <1>3, <2>3, <3>1, <3>2 DEF DeferredCondition
  <2> QED
    BY <2>2, <2>4, <2>5
<1> QED
  BY <1>1, <1>2, <1>3

(* A WRITE that is not refused undoes no error of the input and leaves no  *)
(* input unseen.                                                           *)
LEMMA HandleWRITEKeeps ==
    ASSUME NEW io \in SoundIO, io.out = "idle", NEW z \in HandleWRITE(io)
    PROVE  Shown(z) /\ (io.in = "error" => z.in = "error")
<1>1. PICK y \in WriteLow(io) : z \in ProcessDeferred(y, "afterWrite", {})
  BY DEF HandleWRITE
<1>2. y \in SoundIO /\ y.in = io.in
  BY WriteLowSound
<1>3. Onward(y, z) /\ Shown(z)
  BY <1>1, <1>2, ProcessDeferredOnward, ProcessDeferredShown
<1> QED
  BY <1>2, <1>3 DEF Onward
=============================================================================
