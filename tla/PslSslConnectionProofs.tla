------------------------ MODULE PslSslConnectionProofs ------------------------
(***************************************************************************)
(* The names of a certificate (PslHostname), the verification of the peer  *)
(* and the output buffer (PslSslConnection), for any hosts, servers and    *)
(* sizes.                                                                  *)
(*                                                                         *)
(* The walk over the name of a certificate and of a host against its       *)
(* description, for names of any length: a recursive function is what its  *)
(* equation says only if some function satisfies it.  Accepts is one that  *)
(* needs no recursion; so the walk exists, and, by induction on what is    *)
(* left of the certificate's name, it is Accepts.                          *)
(*                                                                         *)
(* The verification and the buffer share no variable but stage, so the     *)
(* invariant has a half for each.                                          *)
(***************************************************************************)
EXTENDS PslSslConnection, SequenceTheorems, WellFoundedInduction, TLAPS

(* The equation of the walk.                                               *)
Body(cn, hn, f, p) ==
    IF p.i > Len(cn) \/ p.j > Len(hn)
      THEN p.i > Len(cn) /\ p.j > Len(hn) /\ EnoughLabels(p)
    ELSE IF SameOctet(cn, hn, p)
      THEN f[PastOctet(cn, p)]
    ELSE WildcardAllowed(cn, hn, p) /\ f[PastWildcard(hn, p)]

(* From here on the names are the same text,                               *)
Rest(cn, hn, i, j) ==
    /\ Len(cn) - i = Len(hn) - j
    /\ \A k \in i .. Len(cn) : Upper(cn[k]) = Upper(hn[k - i + j])

(* and two labels more follow, of which label are behind;                  *)
TwoLabels(cn, i, label) ==
    \/ label >= 2
    \/ label = 1 /\ \E k \in i .. Len(cn) : cn[k] = "."
    \/ label = 0 /\ \E k, l \in i .. Len(cn) : k < l /\ cn[k] = "." /\ cn[l] = "."

(* or there is a wildcard at s, for the octets up to e.                    *)
StarAt(cn, hn, i, j, s, e) ==
    /\ s - i <= e - j
    /\ \A k \in i .. s - 1 : cn[k] # "." /\ Upper(cn[k]) = Upper(hn[k - i + j])
    /\ cn[s] = "*" /\ hn[s - i + j] # "*"
    /\ \A k \in s - i + j .. e : hn[k] # "."
    /\ s < Len(cn) /\ cn[s + 1] = "." /\ \E k \in s + 2 .. Len(cn) : cn[k] = "."
    /\ Rest(cn, hn, s + 1, e + 1)

ByWildcard(cn, hn, i, j) ==
    \E s \in i .. Len(cn), e \in j .. Len(hn) : StarAt(cn, hn, i, j, s, e)

Accepts(cn, hn, p) ==
    \/ Rest(cn, hn, p.i, p.j) /\ (p.wild => TwoLabels(cn, p.i, p.label))
    \/ p.label = 0 /\ ByWildcard(cn, hn, p.i, p.j)

-----------------------------------------------------------------------------
(* The least element of a set of naturals: induction, for what follows.    *)
LEMMA Least ==
    ASSUME NEW S, S \subseteq Nat, S # {}
    PROVE  \E n \in S : \A m \in S : n <= m
<1>1. PICK x \in S : \A y \in S : ~(<<y, x>> \in OpToRel(<, Nat))
  BY NatLessThanWellFounded, WFMin, Zenon
<1>2. \A y \in S : ~(y < x)
  BY <1>1 DEF OpToRel
<1> QED
  BY <1>2

(* A label has an end, and only one.                                       *)
EndsAt(hn, j, k) ==
    /\ k <= Len(hn) => hn[k] = "."
    /\ \A l \in j + 1 .. k - 1 : hn[l] # "."

(* The end of the label after j, as the walk looks for it, is where a      *)
(* label ends, and the only such place.                                    *)
LEMMA LabelEnds ==
    ASSUME NEW hn, Len(hn) \in Nat, NEW j \in 1 .. Len(hn)
    PROVE  /\ LabelEnd(hn, j) \in j + 1 .. Len(hn) + 1
           /\ EndsAt(hn, j, LabelEnd(hn, j))
           /\ \A k \in j + 1 .. Len(hn) + 1 : EndsAt(hn, j, k) => k = LabelEnd(hn, j)
<1> DEFINE S == {k \in j + 1 .. Len(hn) + 1 : k <= Len(hn) => hn[k] = "."}
<1>1. S \subseteq Nat /\ Len(hn) + 1 \in S
  OBVIOUS
<1>2. PICK n \in S : \A m \in S : n <= m
  BY <1>1, Least
<1>3. n \in j + 1 .. Len(hn) + 1 /\ (n <= Len(hn) => hn[n] = ".")
  OBVIOUS
<1>4. ASSUME NEW l \in j + 1 .. n - 1 PROVE hn[l] # "."
  <2>1. l \notin S
    BY <1>2, <1>3, <1>4
  <2> QED
    BY <1>3, <1>4, <2>1
<1>5. \E k \in j + 1 .. Len(hn) + 1 : EndsAt(hn, j, k)
  BY <1>3, <1>4 DEF EndsAt
<1>6. LabelEnd(hn, j) = CHOOSE k \in j + 1 .. Len(hn) + 1 : EndsAt(hn, j, k)
  BY DEF LabelEnd, EndsAt
<1>7. LabelEnd(hn, j) \in j + 1 .. Len(hn) + 1 /\ EndsAt(hn, j, LabelEnd(hn, j))
  BY <1>5, <1>6
<1>8. ASSUME NEW k \in j + 1 .. Len(hn) + 1, NEW l \in j + 1 .. Len(hn) + 1,
             EndsAt(hn, j, k), EndsAt(hn, j, l)
      PROVE  ~(k < l)
  BY <1>8 DEF EndsAt
<1>9. ASSUME NEW k \in j + 1 .. Len(hn) + 1, EndsAt(hn, j, k) PROVE k = LabelEnd(hn, j)
  <2>1. ~(k < LabelEnd(hn, j)) /\ ~(LabelEnd(hn, j) < k)
    BY <1>7, <1>8, <1>9
  <2> QED
    BY <1>7, <1>9, <2>1
<1> QED
  BY <1>7, <1>9

-----------------------------------------------------------------------------
(* Where the walk goes.                                                    *)

(* A place has a next one, one octet further, or where the label ends.     *)
LEMMA OctetMoves ==
    ASSUME NEW cn, NEW hn, Len(cn) \in Nat, Len(hn) \in Nat,
           NEW p \in Places(cn, hn), p.i <= Len(cn), p.j <= Len(hn)
    PROVE  /\ PastOctet(cn, p) \in Places(cn, hn)
           /\ PastOctet(cn, p).i = p.i + 1 /\ PastOctet(cn, p).j = p.j + 1
           /\ cn[p.i] = "." => PastOctet(cn, p).label = p.label + 1
           /\ cn[p.i] # "." => PastOctet(cn, p).label = p.label
           /\ PastOctet(cn, p).wild = p.wild
<1> DEFINE next == IF cn[p.i] = "." THEN p.label + 1 ELSE p.label
<1>1. /\ p \in [i : 1 .. Len(cn) + 1, j : 1 .. Len(hn) + 1, label : Nat, wild : BOOLEAN]
      /\ p.i + 1 \in 1 .. Len(cn) + 1 /\ p.j + 1 \in 1 .. Len(hn) + 1 /\ p.label \in Nat
  BY DEF Places
<1>2. /\ next \in Nat
      /\ cn[p.i] = "." => next = p.label + 1
      /\ cn[p.i] # "." => next = p.label
  BY <1>1
<1>3. PastOctet(cn, p) = [p EXCEPT !.i = p.i + 1, !.j = p.j + 1, !.label = next]
  BY <1>1 DEF PastOctet
<1> HIDE DEF next
<1> QED
  BY <1>1, <1>2, <1>3 DEF Places

(* A wildcard takes the walk one octet on in the certificate's name, and   *)
(* to the end of the label in the host's; the label stays.                 *)
LEMMA WildcardMoves ==
    ASSUME NEW cn, NEW hn, Len(cn) \in Nat, Len(hn) \in Nat,
           NEW p \in Places(cn, hn), p.i <= Len(cn), p.j <= Len(hn)
    PROVE  /\ PastWildcard(hn, p) \in Places(cn, hn)
           /\ PastWildcard(hn, p).i = p.i + 1
           /\ PastWildcard(hn, p).j = LabelEnd(hn, p.j)
           /\ PastWildcard(hn, p).label = p.label
           /\ PastWildcard(hn, p).wild
<1>1. /\ p \in [i : 1 .. Len(cn) + 1, j : 1 .. Len(hn) + 1, label : Nat, wild : BOOLEAN]
      /\ p.i + 1 \in 1 .. Len(cn) + 1 /\ p.j \in 1 .. Len(hn) /\ p.label \in Nat
  BY DEF Places
<1>2. LabelEnd(hn, p.j) \in p.j + 1 .. Len(hn) + 1
  BY <1>1, LabelEnds
<1>3. LabelEnd(hn, p.j) \in 1 .. Len(hn) + 1
  BY <1>1, <1>2
<1> QED
  BY <1>1, <1>3 DEF PastWildcard, Places

(* Capitals keep apart what the walk tells apart.                          *)
LEMMA Capitals ==
    ASSUME NEW o
    PROVE  (Upper(o) = Upper(".") <=> o = ".") /\ (Upper(o) = Upper("*") <=> o = "*")
BY DEF Upper

(* At the end of a name.                                                   *)
LEMMA AtEnd ==
    ASSUME NEW cn, NEW hn, Len(cn) \in Nat, Len(hn) \in Nat,
           NEW p \in Places(cn, hn), p.i > Len(cn) \/ p.j > Len(hn)
    PROVE  Accepts(cn, hn, p) <=> p.i > Len(cn) /\ p.j > Len(hn) /\ EnoughLabels(p)
<1>1. p.i \in 1 .. Len(cn) + 1 /\ p.j \in 1 .. Len(hn) + 1 /\ p.label \in Nat
  BY DEF Places
<1>2. ~ByWildcard(cn, hn, p.i, p.j)
  BY <1>1 DEF ByWildcard
<1>3. Rest(cn, hn, p.i, p.j) <=> p.i > Len(cn) /\ p.j > Len(hn)
  BY <1>1 DEF Rest
<1>4. p.i > Len(cn) => (TwoLabels(cn, p.i, p.label) <=> p.label >= 2)
  BY <1>1 DEF TwoLabels
<1> QED
  BY <1>2, <1>3, <1>4 DEF Accepts, EnoughLabels

(* Past an octet that is the same: the rest of the names,                  *)
LEMMA RestOnward ==
    ASSUME NEW cn, NEW hn, Len(cn) \in Nat, Len(hn) \in Nat,
           NEW i \in 1 .. Len(cn), NEW j \in 1 .. Len(hn), Upper(cn[i]) = Upper(hn[j])
    PROVE  Rest(cn, hn, i, j) <=> Rest(cn, hn, i + 1, j + 1)
<1>1. ASSUME NEW k \in i .. Len(cn)
      PROVE  k = i \/ (k \in i + 1 .. Len(cn) /\ k - (i + 1) + (j + 1) = k - i + j)
  OBVIOUS
<1>2. i - i + j = j /\ i \in i .. Len(cn)
  OBVIOUS
<1>3. ASSUME NEW k \in i + 1 .. Len(cn)
      PROVE  k \in i .. Len(cn) /\ k - (i + 1) + (j + 1) = k - i + j
  OBVIOUS
<1>4. Len(cn) - i = Len(hn) - j <=> Len(cn) - (i + 1) = Len(hn) - (j + 1)
  OBVIOUS
<1>5. ASSUME Rest(cn, hn, i, j) PROVE Rest(cn, hn, i + 1, j + 1)
  <2>1. ASSUME NEW k \in i + 1 .. Len(cn)
        PROVE  Upper(cn[k]) = Upper(hn[k - (i + 1) + (j + 1)])
    <3>1. k \in i .. Len(cn) /\ k - (i + 1) + (j + 1) = k - i + j
      BY <1>3
    <3>2. Upper(cn[k]) = Upper(hn[k - i + j])
      BY <1>5, <3>1 DEF Rest
    <3> QED
      BY <3>1, <3>2
  <2> QED
    BY <1>4, <1>5, <2>1 DEF Rest
<1>6. ASSUME Rest(cn, hn, i + 1, j + 1) PROVE Rest(cn, hn, i, j)
  <2>1. ASSUME NEW k \in i .. Len(cn) PROVE Upper(cn[k]) = Upper(hn[k - i + j])
    <3>1. CASE k = i
      BY <1>2, <3>1
    <3>2. CASE k \in i + 1 .. Len(cn) /\ k - (i + 1) + (j + 1) = k - i + j
      <4>1. Upper(cn[k]) = Upper(hn[k - (i + 1) + (j + 1)])
        BY <1>6, <3>2 DEF Rest
      <4> QED
        BY <3>2, <4>1
    <3> QED
      BY <1>1, <3>1, <3>2
  <2> QED
    BY <1>4, <1>6, <2>1 DEF Rest
<1> QED
  BY <1>5, <1>6

(* its labels,                                                             *)
LEMMA LabelsOnward ==
    ASSUME NEW cn, Len(cn) \in Nat, NEW i \in 1 .. Len(cn), NEW label \in Nat
    PROVE  /\ cn[i] = "." => (TwoLabels(cn, i, label) <=> TwoLabels(cn, i + 1, label + 1))
           /\ cn[i] # "." => (TwoLabels(cn, i, label) <=> TwoLabels(cn, i + 1, label))
<1>1. i .. Len(cn) = {i} \cup (i + 1 .. Len(cn)) /\ \A k \in i + 1 .. Len(cn) : i < k
  OBVIOUS
<1>2. ASSUME cn[i] = "." PROVE TwoLabels(cn, i, label) <=> TwoLabels(cn, i + 1, label + 1)
  BY <1>1, <1>2 DEF TwoLabels
<1>3. ASSUME cn[i] # "." PROVE TwoLabels(cn, i, label) <=> TwoLabels(cn, i + 1, label)
  BY <1>1, <1>3 DEF TwoLabels
<1> QED
  BY <1>2, <1>3

(* and its wildcard, which is not behind a dot.                            *)
LEMMA NotPastDot ==
    ASSUME NEW cn, NEW hn, Len(cn) \in Nat, Len(hn) \in Nat,
           NEW i \in 1 .. Len(cn), NEW j \in Nat, cn[i] = "."
    PROVE  ~ByWildcard(cn, hn, i, j)
<1> SUFFICES ASSUME NEW s \in i .. Len(cn), NEW e \in j .. Len(hn), StarAt(cn, hn, i, j, s, e)
             PROVE  FALSE
  BY DEF ByWildcard
<1>1. s # i
  BY DEF StarAt
<1>2. i \in i .. s - 1
  BY <1>1
<1> QED
  BY <1>2 DEF StarAt

(* A wildcard that is still to come comes as well after an octet that is   *)
(* the same, unless it is a dot.                                           *)
LEMMA WildcardOnward ==
    ASSUME NEW cn, NEW hn, Len(cn) \in Nat, Len(hn) \in Nat,
           NEW i \in 1 .. Len(cn), NEW j \in 1 .. Len(hn), Upper(cn[i]) = Upper(hn[j]),
           cn[i] # "."
    PROVE  ByWildcard(cn, hn, i, j) <=> ByWildcard(cn, hn, i + 1, j + 1)
<1>1. ASSUME NEW k \in Int PROVE k - (i + 1) + (j + 1) = k - i + j
  OBVIOUS
<1>2. ASSUME NEW s \in i .. Len(cn), NEW e \in j .. Len(hn), StarAt(cn, hn, i, j, s, e)
      PROVE  ByWildcard(cn, hn, i + 1, j + 1)
  <2>1. s # i
    <3> SUFFICES ASSUME s = i PROVE FALSE
      OBVIOUS
    <3>1. s - i + j = j
      OBVIOUS
    <3>2. cn[i] = "*" /\ hn[j] # "*"
      BY <1>2, <3>1 DEF StarAt
    <3> QED
      BY <3>2, Capitals
  <2>2. s - i <= e - j
    BY <1>2 DEF StarAt
  <2>3. /\ s \in i + 1 .. Len(cn) /\ e \in j + 1 .. Len(hn) /\ s - (i + 1) <= e - (j + 1)
        /\ s - (i + 1) + (j + 1) = s - i + j
    BY <2>1, <2>2
  <2>4. ASSUME NEW k \in i + 1 .. s - 1
        PROVE  cn[k] # "." /\ Upper(cn[k]) = Upper(hn[k - (i + 1) + (j + 1)])
    <3>1. k \in i .. s - 1 /\ k - (i + 1) + (j + 1) = k - i + j
      OBVIOUS
    <3>2. cn[k] # "." /\ Upper(cn[k]) = Upper(hn[k - i + j])
      BY <1>2, <3>1 DEF StarAt
    <3> QED
      BY <3>1, <3>2
  <2>5. StarAt(cn, hn, i + 1, j + 1, s, e)
    BY <1>2, <2>3, <2>4 DEF StarAt
  <2> QED
    BY <2>3, <2>5 DEF ByWildcard
<1>3. ASSUME NEW s \in i + 1 .. Len(cn), NEW e \in j + 1 .. Len(hn),
             StarAt(cn, hn, i + 1, j + 1, s, e)
      PROVE  ByWildcard(cn, hn, i, j)
  <2>1. s - (i + 1) <= e - (j + 1)
    BY <1>3 DEF StarAt
  <2>2. /\ s \in i .. Len(cn) /\ e \in j .. Len(hn) /\ s - i <= e - j
        /\ s - (i + 1) + (j + 1) = s - i + j
    BY <2>1
  <2>3. ASSUME NEW k \in i .. s - 1 PROVE cn[k] # "." /\ Upper(cn[k]) = Upper(hn[k - i + j])
    <3>1. CASE k = i
      <4>1. k - i + j = j
        BY <3>1
      <4> QED
        BY <3>1, <4>1
    <3>2. CASE k # i
      <4>1. k \in i + 1 .. s - 1 /\ k - (i + 1) + (j + 1) = k - i + j
        BY <3>2
      <4>2. cn[k] # "." /\ Upper(cn[k]) = Upper(hn[k - (i + 1) + (j + 1)])
        BY <1>3, <4>1 DEF StarAt
      <4> QED
        BY <4>1, <4>2
    <3> QED
      BY <3>1, <3>2
  <2>4. StarAt(cn, hn, i, j, s, e)
    BY <1>3, <2>2, <2>3 DEF StarAt
  <2> QED
    BY <2>2, <2>4 DEF ByWildcard
<1> QED
  BY <1>2, <1>3 DEF ByWildcard

(* The octets are the same: Accepts does not change, where the walk goes   *)
(* on past them.                                                           *)
LEMMA OnSameOctet ==
    ASSUME NEW cn, NEW hn, Len(cn) \in Nat, Len(hn) \in Nat,
           NEW p \in Places(cn, hn), p.i <= Len(cn), p.j <= Len(hn), SameOctet(cn, hn, p)
    PROVE  Accepts(cn, hn, p) <=> Accepts(cn, hn, PastOctet(cn, p))
<1>1. PICK i \in 1 .. Len(cn), j \in 1 .. Len(hn), label \in Nat :
        p.i = i /\ p.j = j /\ p.label = label
  BY DEF Places
<1>2. Upper(cn[i]) = Upper(hn[j])
  BY <1>1 DEF SameOctet
<1>3. /\ PastOctet(cn, p).i = i + 1 /\ PastOctet(cn, p).j = j + 1
      /\ PastOctet(cn, p).wild = p.wild
      /\ cn[i] = "." => PastOctet(cn, p).label = label + 1
      /\ cn[i] # "." => PastOctet(cn, p).label = label
  <2>1. /\ PastOctet(cn, p).i = p.i + 1 /\ PastOctet(cn, p).j = p.j + 1
        /\ PastOctet(cn, p).wild = p.wild
        /\ cn[p.i] = "." => PastOctet(cn, p).label = p.label + 1
        /\ cn[p.i] # "." => PastOctet(cn, p).label = p.label
    BY OctetMoves
  <2> QED
    BY <1>1, <2>1, Zenon
<1>4. Rest(cn, hn, i, j) <=> Rest(cn, hn, i + 1, j + 1)
  BY <1>2, RestOnward
<1>5. CASE cn[i] = "."
  <2>1. TwoLabels(cn, i, label) <=> TwoLabels(cn, i + 1, label + 1)
    BY <1>5, LabelsOnward
  <2>2. ~ByWildcard(cn, hn, i, j)
    BY <1>5, NotPastDot
  <2>3. PastOctet(cn, p).label = label + 1 /\ label + 1 # 0
    BY <1>3, <1>5
  <2> QED
    BY <1>1, <1>3, <1>4, <2>1, <2>2, <2>3, Zenon DEF Accepts
<1>6. CASE cn[i] # "."
  <2>1. TwoLabels(cn, i, label) <=> TwoLabels(cn, i + 1, label)
    BY <1>6, LabelsOnward
  <2>2. ByWildcard(cn, hn, i, j) <=> ByWildcard(cn, hn, i + 1, j + 1)
    BY <1>2, <1>6, WildcardOnward
  <2>3. PastOctet(cn, p).label = label
    BY <1>3, <1>6
  <2> QED
    BY <1>1, <1>3, <1>4, <2>1, <2>2, <2>3, Zenon DEF Accepts
<1> QED
  BY <1>5, <1>6

(* At another octet: a wildcard, that ends with the label.                 *)
LEMMA OnOtherOctet ==
    ASSUME NEW cn, NEW hn, Len(cn) \in Nat, Len(hn) \in Nat,
           NEW p \in Places(cn, hn), p.i <= Len(cn), p.j <= Len(hn), ~SameOctet(cn, hn, p)
    PROVE  Accepts(cn, hn, p)
             <=> WildcardAllowed(cn, hn, p) /\ Accepts(cn, hn, PastWildcard(hn, p))
<1>1. PICK i \in 1 .. Len(cn), j \in 1 .. Len(hn), label \in Nat :
        p.i = i /\ p.j = j /\ p.label = label
  BY DEF Places
<1>2. Upper(cn[i]) # Upper(hn[j])
  BY <1>1 DEF SameOctet
<1>3. PICK end \in j + 1 .. Len(hn) + 1 :
        /\ end = LabelEnd(hn, j)
        /\ EndsAt(hn, j, end)
        /\ \A k \in j + 1 .. Len(hn) + 1 : EndsAt(hn, j, k) => k = end
  BY LabelEnds
<1>4. /\ PastWildcard(hn, p).i = i + 1 /\ PastWildcard(hn, p).j = end
      /\ PastWildcard(hn, p).label = label /\ PastWildcard(hn, p).wild
  <2>1. /\ PastWildcard(hn, p).i = p.i + 1 /\ PastWildcard(hn, p).j = LabelEnd(hn, p.j)
        /\ PastWildcard(hn, p).label = p.label /\ PastWildcard(hn, p).wild
    BY WildcardMoves
  <2> QED
    BY <1>1, <1>3, <2>1, Zenon
<1>5. ~Rest(cn, hn, i, j)
  <2>1. i - i + j = j /\ i \in i .. Len(cn)
    OBVIOUS
  <2> QED
    BY <1>2, <2>1 DEF Rest
<1>6. WildcardAllowed(cn, hn, p)
        <=> cn[i] = "*" /\ label = 0 /\ i < Len(cn) /\ cn[i + 1] = "." /\ hn[j] # "."
  BY <1>1 DEF WildcardAllowed
<1>7. ASSUME label = 0, ByWildcard(cn, hn, i, j)
      PROVE  /\ WildcardAllowed(cn, hn, p)
             /\ Rest(cn, hn, i + 1, end) /\ TwoLabels(cn, i + 1, 0)
  <2>1. PICK s \in i .. Len(cn), e \in j .. Len(hn) : StarAt(cn, hn, i, j, s, e)
    BY <1>7 DEF ByWildcard
  <2>2. s = i
    <3> SUFFICES ASSUME s # i PROVE FALSE
      OBVIOUS
    <3>1. i \in i .. s - 1 /\ i - i + j = j
      OBVIOUS
    <3> QED
      BY <1>2, <2>1, <3>1 DEF StarAt
  <2>3. i - i + j = j
    OBVIOUS
  <2>4. /\ cn[i] = "*" /\ i < Len(cn) /\ cn[i + 1] = "."
        /\ \A k \in j .. e : hn[k] # "."
        /\ \E k \in i + 2 .. Len(cn) : cn[k] = "."
        /\ Rest(cn, hn, i + 1, e + 1)
    BY <2>1, <2>2, <2>3 DEF StarAt
  <2>5. j \in j .. e
    OBVIOUS
  <2>6. WildcardAllowed(cn, hn, p)
    BY <1>6, <1>7, <2>4, <2>5
  <2>7. hn[e + 1] = "."
    <3>1. i + 1 \in i + 1 .. Len(cn) /\ (i + 1) - (i + 1) + (e + 1) = e + 1
      BY <2>4
    <3>2. Upper(cn[i + 1]) = Upper(hn[e + 1])
      BY <2>4, <3>1 DEF Rest
    <3> QED
      BY <2>4, <3>2, Capitals
  <2>8. \A k \in j + 1 .. (e + 1) - 1 : k \in j .. e
    OBVIOUS
  <2>9. EndsAt(hn, j, e + 1)
    BY <2>4, <2>7, <2>8 DEF EndsAt
  <2>10. e + 1 = end
    <3>1. e + 1 \in j + 1 .. Len(hn) + 1
      OBVIOUS
    <3> QED
      BY <1>3, <2>9, <3>1
  <2>11. PICK l \in i + 2 .. Len(cn) : cn[l] = "."
    BY <2>4
  <2>12. i + 1 \in i + 1 .. Len(cn) /\ l \in i + 1 .. Len(cn) /\ i + 1 < l
    BY <2>4, <2>11
  <2>13. TwoLabels(cn, i + 1, 0)
    BY <2>4, <2>11, <2>12 DEF TwoLabels
  <2> QED
    BY <2>4, <2>6, <2>10, <2>13
<1>8. ASSUME WildcardAllowed(cn, hn, p)
      PROVE  ~ByWildcard(cn, hn, i + 1, end)
  <2>1. cn[i + 1] = "." /\ i + 1 \in 1 .. Len(cn) /\ end \in Nat
    BY <1>3, <1>6, <1>8
  <2> QED
    BY <2>1, NotPastDot
<1>9. ASSUME WildcardAllowed(cn, hn, p), Rest(cn, hn, i + 1, end), TwoLabels(cn, i + 1, label)
      PROVE  ByWildcard(cn, hn, i, j)
  <2>1. PICK e \in j .. Len(hn) : end = e + 1
    <3>1. end - 1 \in j .. Len(hn) /\ end = (end - 1) + 1
      BY <1>3
    <3> QED
      BY <3>1
  <2>2. cn[i] = "*" /\ label = 0 /\ i < Len(cn) /\ cn[i + 1] = "." /\ hn[j] # "."
    BY <1>6, <1>9
  <2>3. hn[j] # "*"
    BY <1>2, <2>2
  <2>4. i - i + j = j /\ i - i <= e - j /\ i \in i .. Len(cn)
    OBVIOUS
  <2>5. ASSUME NEW k \in i .. i - 1 PROVE FALSE
    OBVIOUS
  <2>6. ASSUME NEW k \in j .. e PROVE hn[k] # "."
    <3>1. k = j \/ k \in j + 1 .. end - 1
      BY <2>1
    <3> QED
      BY <1>3, <2>2, <3>1 DEF EndsAt
  <2>7. \E k \in i + 2 .. Len(cn) : cn[k] = "."
    <3>1. PICK k \in i + 1 .. Len(cn), l \in i + 1 .. Len(cn) : k < l /\ cn[l] = "."
      BY <1>9, <2>2 DEF TwoLabels
    <3>2. l \in i + 2 .. Len(cn)
      BY <3>1
    <3> QED
      BY <3>1, <3>2
  <2>8. StarAt(cn, hn, i, j, i, e)
    BY <1>9, <2>1, <2>2, <2>3, <2>4, <2>5, <2>6, <2>7 DEF StarAt
  <2> QED
    BY <2>4, <2>8 DEF ByWildcard
<1>10. WildcardAllowed(cn, hn, p) => label = 0
  BY <1>6
<1> QED
  BY <1>1, <1>4, <1>5, <1>7, <1>8, <1>9, <1>10, Zenon DEF Accepts

-----------------------------------------------------------------------------
(* Accepts satisfies the equation of the walk, so the walk does.           *)
LEMMA AcceptsSolves ==
    ASSUME NEW cn, NEW hn, Len(cn) \in Nat, Len(hn) \in Nat, NEW p \in Places(cn, hn),
           NEW f, \A q \in Places(cn, hn) : f[q] = Accepts(cn, hn, q)
    PROVE  Body(cn, hn, f, p) = Accepts(cn, hn, p)
<1>0. Accepts(cn, hn, p) \in BOOLEAN
  BY DEF Accepts
<1>1. p.i \in Int /\ p.j \in Int
  BY DEF Places
<1>2. CASE p.i > Len(cn) \/ p.j > Len(hn)
  BY <1>0, <1>2, AtEnd, Zenon DEF Body
<1>3. CASE ~(p.i > Len(cn) \/ p.j > Len(hn)) /\ SameOctet(cn, hn, p)
  <2>1. p.i <= Len(cn) /\ p.j <= Len(hn)
    BY <1>1, <1>3
  <2>2. f[PastOctet(cn, p)] = Accepts(cn, hn, PastOctet(cn, p))
    BY <2>1, OctetMoves, Zenon
  <2>3. Accepts(cn, hn, p) <=> Accepts(cn, hn, PastOctet(cn, p))
    BY <1>3, <2>1, OnSameOctet, Zenon
  <2>4. Accepts(cn, hn, PastOctet(cn, p)) \in BOOLEAN
    BY DEF Accepts
  <2> QED
    BY <1>0, <1>3, <2>2, <2>3, <2>4, Zenon DEF Body
<1>4. CASE ~(p.i > Len(cn) \/ p.j > Len(hn)) /\ ~SameOctet(cn, hn, p)
  <2>1. p.i <= Len(cn) /\ p.j <= Len(hn)
    BY <1>1, <1>4
  <2>2. f[PastWildcard(hn, p)] = Accepts(cn, hn, PastWildcard(hn, p))
    BY <2>1, WildcardMoves, Zenon
  <2>3. Accepts(cn, hn, p)
          <=> WildcardAllowed(cn, hn, p) /\ Accepts(cn, hn, PastWildcard(hn, p))
    BY <1>4, <2>1, OnOtherOctet, Zenon
  <2> QED
    BY <1>0, <1>4, <2>2, <2>3, Zenon DEF Body
<1> QED
  BY <1>2, <1>3, <1>4

(* So the walk, which is chosen among the solutions of its equation, is    *)
(* one: there is Accepts.                                                  *)
LEMMA WalkEquation ==
    ASSUME NEW cn, NEW hn, Len(cn) \in Nat, Len(hn) \in Nat
    PROVE  \A p \in Places(cn, hn) : Walk(cn, hn)[p] = Body(cn, hn, Walk(cn, hn), p)
<1> DEFINE accepts == [p \in Places(cn, hn) |-> Accepts(cn, hn, p)]
           E(f) == f = [p \in Places(cn, hn) |-> Body(cn, hn, f, p)]
<1>1. Walk(cn, hn) = CHOOSE f : E(f)
  BY Zenon DEF Walk, Body
<1>2. \A q \in Places(cn, hn) : accepts[q] = Accepts(cn, hn, q)
  OBVIOUS
<1>3. E(accepts)
  <2> HIDE DEF accepts
  <2>1. \A p \in Places(cn, hn) : Body(cn, hn, accepts, p) = Accepts(cn, hn, p)
    BY <1>2, AcceptsSolves
  <2>2. accepts = [p \in Places(cn, hn) |-> Accepts(cn, hn, p)]
    BY DEF accepts
  <2> QED
    BY <2>1, <2>2, Zenon
<1> HIDE DEF E
<1>4. E(CHOOSE f : E(f))
  BY <1>3, Zenon
<1>5. E(Walk(cn, hn))
  BY <1>1, <1>4
<1> QED
  BY <1>5, Zenon DEF E

(* Both are decided from the end of the certificate's name: they are one.  *)
LEMMA WalkAccepts ==
    ASSUME NEW cn, NEW hn, Len(cn) \in Nat, Len(hn) \in Nat, NEW p \in Places(cn, hn)
    PROVE  Walk(cn, hn)[p] = Accepts(cn, hn, p)
<1> DEFINE Good(q) == Walk(cn, hn)[q] = Accepts(cn, hn, q)
           Left(q) == Len(cn) + 1 - q.i
           S == {Left(q) : q \in {r \in Places(cn, hn) : ~Good(r)}}
<1>1. \A q \in Places(cn, hn) :
        Left(q) \in Nat /\ q.i \in 1 .. Len(cn) + 1 /\ q.j \in 1 .. Len(hn) + 1
  BY DEF Places
<1> HIDE DEF Good
<1>2. SUFFICES ASSUME S # {} PROVE FALSE
  <2>1. S = {} => Good(p)
    OBVIOUS
  <2> QED
    BY <1>2, <2>1 DEF Good
<1>3. S \subseteq Nat
  BY <1>1
<1>4. PICK n \in S : \A m \in S : n <= m
  BY <1>2, <1>3, Least
<1>5. PICK q \in Places(cn, hn) : ~Good(q) /\ n = Left(q)
  BY <1>4
<1>6. ASSUME NEW r \in Places(cn, hn), r.i = q.i + 1 PROVE Good(r)
  <2>1. ~(n <= Left(r))
    BY <1>1, <1>5, <1>6
  <2>2. ~Good(r) => Left(r) \in S
    OBVIOUS
  <2> HIDE DEF S, Left
  <2> QED
    BY <1>4, <2>1, <2>2
<1>7. Walk(cn, hn)[q] = Body(cn, hn, Walk(cn, hn), q)
  BY WalkEquation
<1>8. Body(cn, hn, Walk(cn, hn), q) = Accepts(cn, hn, q)
  <2> DEFINE accepts == [r \in Places(cn, hn) |-> Accepts(cn, hn, r)]
  <2>1. \A r \in Places(cn, hn) : accepts[r] = Accepts(cn, hn, r)
    OBVIOUS
  <2>2. Body(cn, hn, accepts, q) = Accepts(cn, hn, q)
    <3> HIDE DEF accepts
    <3> QED
      BY <2>1, AcceptsSolves
  <2>3. q.i <= Len(cn) /\ q.j <= Len(hn)
          => /\ Walk(cn, hn)[PastOctet(cn, q)] = accepts[PastOctet(cn, q)]
             /\ Walk(cn, hn)[PastWildcard(hn, q)] = accepts[PastWildcard(hn, q)]
    <3> SUFFICES ASSUME q.i <= Len(cn), q.j <= Len(hn)
                 PROVE  /\ Walk(cn, hn)[PastOctet(cn, q)] = accepts[PastOctet(cn, q)]
                        /\ Walk(cn, hn)[PastWildcard(hn, q)] = accepts[PastWildcard(hn, q)]
      OBVIOUS
    <3>1. PastOctet(cn, q) \in Places(cn, hn) /\ PastOctet(cn, q).i = q.i + 1
      BY OctetMoves
    <3>2. PastWildcard(hn, q) \in Places(cn, hn) /\ PastWildcard(hn, q).i = q.i + 1
      BY WildcardMoves
    <3>3. Good(PastOctet(cn, q)) /\ Good(PastWildcard(hn, q))
      BY <1>6, <3>1, <3>2
    <3> HIDE DEF accepts
    <3> QED
      BY <2>1, <3>1, <3>2, <3>3 DEF Good
  <2> HIDE DEF accepts
  <2>4. CASE q.i > Len(cn) \/ q.j > Len(hn)
    BY <2>2, <2>4, Zenon DEF Body
  <2>5. CASE ~(q.i > Len(cn) \/ q.j > Len(hn))
    <3>1. q.i <= Len(cn) /\ q.j <= Len(hn)
      BY <1>1, <2>5
    <3> QED
      BY <2>2, <2>3, <2>5, <3>1, Zenon DEF Body
  <2> QED
    BY <2>4, <2>5
<1> QED
  BY <1>5, <1>7, <1>8 DEF Good

-----------------------------------------------------------------------------
(* From the start, Accepts reads as the description does.                  *)
LEMMA SameTextIsRest ==
    ASSUME NEW cn \in Seq(Octets), NEW hn \in Seq(Octets)
    PROVE  SameText(cn, hn) <=> Rest(cn, hn, 1, 1)
<1>1. Len(cn) \in Nat /\ Len(hn) \in Nat
  OBVIOUS
<1>2. Len(cn) = Len(hn) <=> Len(cn) - 1 = Len(hn) - 1
  BY <1>1
<1>3. \A k \in 1 .. Len(cn) : k - 1 + 1 = k
  OBVIOUS
<1> QED
  BY <1>2, <1>3 DEF SameText, Rest

(* What comes before a wildcard, and what comes after it.                  *)
LEMMA SameBefore ==
    ASSUME NEW cn \in Seq(Octets), NEW hn \in Seq(Octets), NEW n \in 0 .. Len(cn), n <= Len(hn)
    PROVE  SameText(SubSeq(cn, 1, n), SubSeq(hn, 1, n))
             <=> \A k \in 1 .. n : Upper(cn[k]) = Upper(hn[k])
<1>1. Len(SubSeq(cn, 1, n)) = n /\ Len(SubSeq(hn, 1, n)) = n
  OBVIOUS
<1>2. \A k \in 1 .. n : SubSeq(cn, 1, n)[k] = cn[k] /\ SubSeq(hn, 1, n)[k] = hn[k]
  OBVIOUS
<1> QED
  BY <1>1, <1>2 DEF SameText

(* What follows the first n octets of a name.                              *)
LEMMA After ==
    ASSUME NEW s \in Seq(Octets), NEW n \in 1 .. Len(s)
    PROVE  /\ SubSeq(s, n + 1, Len(s)) \in Seq(Octets)
           /\ Len(SubSeq(s, n + 1, Len(s))) = Len(s) - n
           /\ \A k \in 1 .. Len(s) - n : SubSeq(s, n + 1, Len(s))[k] = s[n + k]
<1>1. SubSeq(s, n + 1, Len(s)) \in Seq(Octets)
  OBVIOUS
<1>2. Len(SubSeq(s, n + 1, Len(s))) = Len(s) - n
  OBVIOUS
<1>3. ASSUME NEW k \in 1 .. Len(s) - n PROVE SubSeq(s, n + 1, Len(s))[k] = s[n + k]
  OBVIOUS
<1> QED
  BY <1>1, <1>2, <1>3

(* The same text after two places is what Rest says octet by octet.        *)
LEMMA SameAfter ==
    ASSUME NEW cn \in Seq(Octets), NEW hn \in Seq(Octets),
           NEW m \in 1 .. Len(cn), NEW n \in 1 .. Len(hn)
    PROVE  SameText(SubSeq(cn, m + 1, Len(cn)), SubSeq(hn, n + 1, Len(hn)))
             <=> Rest(cn, hn, m + 1, n + 1)
<1> DEFINE c == SubSeq(cn, m + 1, Len(cn))
           h == SubSeq(hn, n + 1, Len(hn))
<1>1. /\ Len(c) = Len(cn) - m /\ Len(h) = Len(hn) - n
      /\ \A k \in 1 .. Len(cn) - m : c[k] = cn[m + k]
      /\ \A k \in 1 .. Len(hn) - n : h[k] = hn[n + k]
  BY After
<1>2. Len(cn) \in Nat /\ Len(hn) \in Nat
  OBVIOUS
<1> HIDE DEF c, h
<1>3. Len(c) = Len(h) <=> Len(cn) - (m + 1) = Len(hn) - (n + 1)
  BY <1>1, <1>2
<1>4. ASSUME SameText(c, h) PROVE Rest(cn, hn, m + 1, n + 1)
  <2>1. ASSUME NEW k \in m + 1 .. Len(cn)
        PROVE  Upper(cn[k]) = Upper(hn[k - (m + 1) + (n + 1)])
    <3>1. Len(c) = Len(h)
      BY <1>4 DEF SameText
    <3>2. PICK l \in 1 .. Len(cn) - m : l = k - m
      BY <1>2
    <3>3. l \in 1 .. Len(hn) - n /\ m + l = k /\ n + l = k - (m + 1) + (n + 1)
      BY <1>1, <1>2, <3>1, <3>2
    <3>4. Upper(c[l]) = Upper(h[l])
      BY <1>1, <1>4, <3>2 DEF SameText
    <3> QED
      BY <1>1, <3>2, <3>3, <3>4
  <2> QED
    BY <1>3, <1>4, <2>1 DEF Rest, SameText
<1>5. ASSUME Rest(cn, hn, m + 1, n + 1) PROVE SameText(c, h)
  <2>1. Len(c) = Len(h)
    BY <1>3, <1>5 DEF Rest
  <2>2. ASSUME NEW l \in 1 .. Len(c) PROVE Upper(c[l]) = Upper(h[l])
    <3>1. PICK k \in m + 1 .. Len(cn) : k = m + l
      BY <1>1, <1>2
    <3>2. /\ l \in 1 .. Len(cn) - m /\ l \in 1 .. Len(hn) - n
          /\ n + l = k - (m + 1) + (n + 1)
      BY <1>1, <1>2, <2>1, <3>1
    <3>3. Upper(cn[k]) = Upper(hn[k - (m + 1) + (n + 1)])
      BY <1>5 DEF Rest
    <3> QED
      BY <1>1, <3>1, <3>2, <3>3
  <2> QED
    BY <2>1, <2>2 DEF SameText
<1> QED
  BY <1>4, <1>5 DEF c, h

(* Two labels behind the wildcard.                                         *)
LEMMA LabelsAfter ==
    ASSUME NEW cn \in Seq(Octets), NEW m \in 1 .. Len(cn), NEW follows,
           follows = SubSeq(cn, m + 1, Len(cn))
    PROVE  follows # <<>> /\ follows[1] = "." /\ (\E i \in Dots(follows) : i > 1)
             <=> /\ m < Len(cn) /\ cn[m + 1] = "."
                 /\ \E k \in m + 2 .. Len(cn) : cn[k] = "."
<1>1. /\ follows \in Seq(Octets) /\ Len(follows) = Len(cn) - m
      /\ \A k \in 1 .. Len(cn) - m : follows[k] = cn[m + k]
  BY After
<1>2. Len(cn) \in Nat
  OBVIOUS
<1>3. follows # <<>> <=> m < Len(cn)
  <2>1. follows # <<>> <=> Len(follows) # 0
    BY <1>1, EmptySeq
  <2> QED
    BY <1>1, <1>2, <2>1
<1>4. m < Len(cn) => follows[1] = cn[m + 1]
  BY <1>1, <1>2
<1>5. ASSUME NEW i \in Dots(follows), i > 1 PROVE \E k \in m + 2 .. Len(cn) : cn[k] = "."
  <2>1. i \in 1 .. Len(cn) - m /\ follows[i] = "."
    BY <1>1, <1>5 DEF Dots
  <2>2. m + i \in m + 2 .. Len(cn) /\ cn[m + i] = "."
    BY <1>1, <1>2, <1>5, <2>1
  <2> QED
    BY <2>2
<1>6. ASSUME NEW k \in m + 2 .. Len(cn), cn[k] = "." PROVE \E i \in Dots(follows) : i > 1
  <2>1. PICK i \in 1 .. Len(cn) - m : m + i = k /\ i > 1
    <3>1. k - m \in 1 .. Len(cn) - m /\ m + (k - m) = k /\ k - m > 1
      BY <1>2
    <3> QED
      BY <3>1
  <2>2. follows[i] = "."
    BY <1>1, <1>6, <2>1
  <2>3. i \in Dots(follows)
    BY <1>1, <2>1, <2>2 DEF Dots
  <2> QED
    BY <2>1, <2>3
<1> QED
  BY <1>3, <1>4, <1>5, <1>6

(* The second half of SameLabels.                                          *)
Stands(cn, hn, star, end) ==
    /\ cn[star] = "*" /\ star <= end
    /\ SameText(SubSeq(cn, 1, star - 1), SubSeq(hn, 1, star - 1))
    /\ SameText(SubSeq(cn, star + 1, Len(cn)), SubSeq(hn, end + 1, Len(hn)))
    /\ \A i \in Dots(hn) : i > end
    /\ star < Len(cn) /\ cn[star + 1] = "." /\ \E k \in star + 2 .. Len(cn) : cn[k] = "."

(* SameLabels with the texts it compares taken apart.                      *)
LEMMA SameLabelsReads ==
    ASSUME NEW cn \in Seq(Octets), NEW hn \in Seq(Octets)
    PROVE  SameLabels(cn, hn)
             <=> \/ SameText(cn, hn)
                 \/ \E star \in 1 .. Len(cn), end \in 1 .. Len(hn) : Stands(cn, hn, star, end)
<1>1. DOMAIN cn = 1 .. Len(cn) /\ DOMAIN hn = 1 .. Len(hn)
  OBVIOUS
<1>2. ASSUME NEW star \in 1 .. Len(cn), NEW end \in 1 .. Len(hn)
      PROVE  Stands(cn, hn, star, end)
               <=> /\ cn[star] = "*" /\ star <= end
                   /\ LET follows == SubSeq(cn, star + 1, Len(cn))
                      IN /\ SameText(SubSeq(cn, 1, star - 1), SubSeq(hn, 1, star - 1))
                         /\ SameText(follows, SubSeq(hn, end + 1, Len(hn)))
                         /\ \A i \in Dots(hn) : i > end
                         /\ follows # <<>> /\ follows[1] = "."
                         /\ \E i \in Dots(follows) : i > 1
  <2> DEFINE follows == SubSeq(cn, star + 1, Len(cn))
  <2>1. follows # <<>> /\ follows[1] = "." /\ (\E i \in Dots(follows) : i > 1)
          <=> /\ star < Len(cn) /\ cn[star + 1] = "."
              /\ \E k \in star + 2 .. Len(cn) : cn[k] = "."
    BY LabelsAfter
  <2> QED
    BY <2>1, Zenon DEF Stands
<1> QED
  BY <1>1, <1>2, Zenon DEF SameLabels

(* Accepts from the start, read as SameLabels: the places of the star are  *)
(* the same, but that the walk takes a star for itself if the host has one *)
(* there.                                                                  *)
LEMMA StandsIsStar ==
    ASSUME NEW cn \in Seq(Octets), NEW hn \in Seq(Octets),
           NEW star \in 1 .. Len(cn), NEW end \in 1 .. Len(hn)
    PROVE  StarAt(cn, hn, 1, 1, star, end) <=> Stands(cn, hn, star, end) /\ hn[star] # "*"
<1>1. Len(cn) \in Nat /\ Len(hn) \in Nat
  OBVIOUS
<1>2. star - 1 <= end - 1 <=> star <= end
  OBVIOUS
<1>3. star - 1 + 1 = star /\ \A k \in 1 .. star - 1 : k - 1 + 1 = k
  OBVIOUS
<1>4. Rest(cn, hn, star + 1, end + 1)
        <=> SameText(SubSeq(cn, star + 1, Len(cn)), SubSeq(hn, end + 1, Len(hn)))
  BY SameAfter
<1>5. star <= end => (SameText(SubSeq(cn, 1, star - 1), SubSeq(hn, 1, star - 1))
                        <=> \A k \in 1 .. star - 1 : Upper(cn[k]) = Upper(hn[k]))
  <2> SUFFICES ASSUME star <= end
               PROVE  SameText(SubSeq(cn, 1, star - 1), SubSeq(hn, 1, star - 1))
                        <=> \A k \in 1 .. star - 1 : Upper(cn[k]) = Upper(hn[k])
    OBVIOUS
  <2>1. star - 1 \in 0 .. Len(cn) /\ star - 1 <= Len(hn)
    BY <1>1
  <2> QED
    BY <2>1, SameBefore
<1>6. ASSUME star <= end, \A k \in 1 .. star - 1 : Upper(cn[k]) = Upper(hn[k])
      PROVE  (\A i \in Dots(hn) : i > end)
               <=> /\ \A k \in 1 .. star - 1 : cn[k] # "."
                   /\ \A k \in star .. end : hn[k] # "."
  <2>1. (\A i \in Dots(hn) : i > end) <=> \A k \in 1 .. end : hn[k] # "."
    BY <1>1 DEF Dots
  <2>2. \A k \in 1 .. star - 1 : (cn[k] = "." <=> hn[k] = ".")
    BY <1>6, Capitals
  <2>3. \A k \in 1 .. end : k \in 1 .. star - 1 \/ k \in star .. end
    BY <1>6
  <2>4. 1 .. star - 1 \subseteq 1 .. end /\ star .. end \subseteq 1 .. end
    BY <1>6
  <2> QED
    BY <2>1, <2>2, <2>3, <2>4
<1>7. ASSUME StarAt(cn, hn, 1, 1, star, end)
      PROVE  Stands(cn, hn, star, end) /\ hn[star] # "*"
  <2>1. star <= end /\ \A k \in 1 .. star - 1 : cn[k] # "." /\ Upper(cn[k]) = Upper(hn[k])
    BY <1>2, <1>3, <1>7 DEF StarAt
  <2>2. hn[star] # "*" /\ \A k \in star .. end : hn[k] # "."
    BY <1>3, <1>7 DEF StarAt
  <2>3. \A i \in Dots(hn) : i > end
    BY <1>6, <2>1, <2>2
  <2> QED
    BY <1>4, <1>5, <1>7, <2>1, <2>2, <2>3 DEF StarAt, Stands
<1>8. ASSUME Stands(cn, hn, star, end), hn[star] # "*"
      PROVE  StarAt(cn, hn, 1, 1, star, end)
  <2>1. star <= end /\ \A k \in 1 .. star - 1 : Upper(cn[k]) = Upper(hn[k])
    BY <1>5, <1>8 DEF Stands
  <2>2. \A i \in Dots(hn) : i > end
    BY <1>8 DEF Stands
  <2>3. /\ \A k \in 1 .. star - 1 : cn[k] # "."
        /\ \A k \in star .. end : hn[k] # "."
    BY <1>6, <2>1, <2>2
  <2>4. \A k \in 1 .. star - 1 : cn[k] # "." /\ Upper(cn[k]) = Upper(hn[k - 1 + 1])
    BY <1>3, <2>1, <2>3
  <2>5. /\ star - 1 <= end - 1 /\ hn[star - 1 + 1] # "*"
        /\ \A k \in star - 1 + 1 .. end : hn[k] # "."
    BY <1>2, <1>3, <1>8, <2>1, <2>3
  <2> QED
    BY <1>4, <1>8, <2>4, <2>5 DEF StarAt, Stands
<1> QED
  BY <1>7, <1>8

-----------------------------------------------------------------------------
(* PmSockX509CheckCertHostNameMatch takes no host for another: a name of a *)
(* certificate that it accepts is the host's as the header describes it,   *)
(* for names of any length.                                                *)
THEOREM MatchIsDescribed ==
    ASSUME NEW cn \in Seq(Octets), NEW hn \in Seq(Octets), CheckCertHostNameMatch(cn, hn)
    PROVE  SameLabels(cn, hn)
<1>1. Len(cn) \in Nat /\ Len(hn) \in Nat
  OBVIOUS
<1>2. Start \in Places(cn, hn)
  BY <1>1 DEF Start, Places
<1>3. Accepts(cn, hn, Start)
  BY <1>1, <1>2, WalkAccepts DEF CheckCertHostNameMatch
<1>4. Rest(cn, hn, 1, 1) \/ ByWildcard(cn, hn, 1, 1)
  BY <1>3 DEF Accepts, Start
<1>5. CASE Rest(cn, hn, 1, 1)
  BY <1>5, SameTextIsRest, SameLabelsReads
<1>6. CASE ByWildcard(cn, hn, 1, 1)
  <2>1. PICK star \in 1 .. Len(cn), end \in 1 .. Len(hn) : StarAt(cn, hn, 1, 1, star, end)
    BY <1>6 DEF ByWildcard
  <2> QED
    BY <2>1, StandsIsStar, SameLabelsReads
<1> QED
  BY <1>4, <1>5, <1>6

(* And it refuses none that the header describes, when the host's name has *)
(* no star: the walk takes a star of the certificate literally where the   *)
(* host has one too.                                                       *)
THEOREM DescribedIsMatched ==
    ASSUME NEW cn \in Seq(Octets), NEW hn \in Seq(Octets), cn # <<>>, hn # <<>>,
           \A k \in 1 .. Len(hn) : hn[k] # "*", SameLabels(cn, hn)
    PROVE  CheckCertHostNameMatch(cn, hn)
<1>1. Len(cn) \in Nat /\ Len(hn) \in Nat
  OBVIOUS
<1>2. Start \in Places(cn, hn)
  BY <1>1 DEF Start, Places
<1>3. CASE SameText(cn, hn)
  <2>1. Rest(cn, hn, 1, 1)
    BY <1>3, SameTextIsRest
  <2>2. Accepts(cn, hn, Start)
    BY <2>1 DEF Accepts, Start
  <2> QED
    BY <1>1, <1>2, <2>2, WalkAccepts DEF CheckCertHostNameMatch
<1>4. ASSUME NEW star \in 1 .. Len(cn), NEW end \in 1 .. Len(hn), Stands(cn, hn, star, end)
      PROVE  CheckCertHostNameMatch(cn, hn)
  <2>1. star \in 1 .. Len(hn)
    BY <1>4 DEF Stands
  <2>2. StarAt(cn, hn, 1, 1, star, end)
    BY <1>4, <2>1, StandsIsStar
  <2>3. ByWildcard(cn, hn, 1, 1)
    BY <2>2 DEF ByWildcard
  <2>4. Accepts(cn, hn, Start)
    BY <2>3 DEF Accepts, Start
  <2> QED
    BY <1>1, <1>2, <2>4, WalkAccepts DEF CheckCertHostNameMatch
<1> QED
  BY <1>3, <1>4, SameLabelsReads

-----------------------------------------------------------------------------
(* The verification of the peer.                                           *)

(* The installed certificates excuse the one at depth d.                   *)
Installed(d) == conf.fallback /\ MatchCertInStore(CertAt(d), peer.store)

HostMatches == VerifyHostname(host, peer.names) = "match"

(* What the callback has answered so far: its code is none as long as      *)
(* nothing was refused, and a refusal without the user has a reason;       *)
VerdictInv ==
    /\ stage = "idle" => verify = NotVerified
    /\ stage \in {"handshake", "verified", "ssl"} => verify.failCode = "none"
    /\ stage = "refused" => verify.failCode # "none"
    /\ ~conf.verifyCb => verify.waived = {}
    /\ stage = "refused" /\ ~conf.verifyCb =>
           \/ \E d \in Depths : "expired" \in peer.errors[d] /\ ~Installed(d)
           \/ conf.checkHostname /\ ~HostMatches

(* and what OpenSSL need not report any more was excused.                  *)
ChainInv ==
    stage \in {"handshake", "verified"} =>
        /\ peer \in Peers /\ host \in Hosts
        /\ \A d \in Depths : todo[d] \subseteq peer.errors[d]
        /\ \A d \in Depths : \A err \in peer.errors[d] \ todo[d] :
              err = "getCrl" \/ LetPass(d, err)
        /\ conf.kind = "client" =>
              /\ \A d \in Depths : d > level => todo[d] = {}
              /\ level = -1 /\ conf.checkHostname => HostMatches \/ LetPass(0, "name")
        /\ stage = "verified" => level = -1

VerifyTypeOK ==
    /\ stage \in Stages /\ conf \in Confs
    /\ host \in Hosts \cup {NoHost} /\ peer \in Peers \cup {NoPeer}
    /\ todo \in [Depths -> SUBSET CertErrors] /\ level \in -1 .. 1
    /\ verify \in Verifications

VerifyInv == VerifyTypeOK /\ VerdictInv /\ ChainInv

-----------------------------------------------------------------------------
(* What the functions of the callback may answer.                          *)
Answers == [ok : BOOLEAN, verify : Verifications]

(* An answer that says why if it is a refusal.                             *)
Settled(x) == x \in Answers /\ (x.ok <=> x.verify.failCode = "none")

(* crypto_call_user_peer_cert_verify_callback: what it lets pass although  *)
(* it was a problem, the user has waived; without a callback nothing       *)
(* changes.                                                                *)
LEMMA CallUserAnswers ==
    ASSUME NEW x, Settled(x), NEW what, what \in Problems \/ x.ok, NEW y \in CallUser(x, what)
    PROVE  /\ Settled(y)
           /\ x.verify.waived \subseteq y.verify.waived
           /\ y.ok => x.ok \/ what \in y.verify.waived
           /\ ~conf.verifyCb => y = x
<1>1. /\ x \in Answers /\ x.verify \in Verifications
      /\ x.verify.waived \subseteq Problems /\ x.verify.failCode \in FailCodes
      /\ x.verify.xerr \in CertErrors \cup {"ok", "app"}
  BY DEF Settled, Answers, Verifications
<1>2. CASE ~conf.verifyCb
  BY <1>2 DEF CallUser
<1>3. CASE conf.verifyCb /\ y.ok
  <2>1. PICK waived \in SUBSET Problems :
          /\ y = [ok |-> TRUE, verify |-> [x.verify EXCEPT !.failCode = "none", !.xerr = "ok",
                                                           !.waived = waived]]
          /\ x.verify.waived \subseteq waived /\ (x.ok \/ what \in waived)
    <3> DEFINE waived == IF x.ok THEN x.verify.waived ELSE x.verify.waived \cup {what}
    <3>1. y = [ok |-> TRUE, verify |-> [x.verify EXCEPT !.failCode = "none", !.xerr = "ok",
                                                        !.waived = waived]]
      BY <1>1, <1>3 DEF CallUser, Verifications
    <3>2. /\ waived \in SUBSET Problems
          /\ x.verify.waived \subseteq waived /\ (x.ok \/ what \in waived)
      BY <1>1
    <3> QED
      BY <3>1, <3>2
  <2>2. [x.verify EXCEPT !.failCode = "none", !.xerr = "ok", !.waived = waived] \in Verifications
    BY <1>1 DEF Verifications, FailCodes
  <2>3. /\ y.verify = [x.verify EXCEPT !.failCode = "none", !.xerr = "ok", !.waived = waived]
        /\ y \in Answers
    BY <2>1, <2>2 DEF Answers
  <2>4. y.verify.failCode = "none" /\ y.verify.waived = waived
    BY <1>1, <2>3 DEF Verifications
  <2> QED
    BY <1>3, <2>1, <2>3, <2>4 DEF Settled
<1>4. CASE conf.verifyCb /\ ~y.ok
  <2>1. PICK code \in FailCodes, xerr \in CertErrors \cup {"ok", "app"} :
          /\ y = [ok |-> FALSE, verify |-> [x.verify EXCEPT !.failCode = code, !.xerr = xerr]]
          /\ code # "none"
    <3> DEFINE code == IF x.verify.failCode = "none" THEN "certVerify" ELSE x.verify.failCode
               xerr == IF x.verify.xerr = "ok" THEN "app" ELSE x.verify.xerr
    <3>1. y = [ok |-> FALSE, verify |-> [x.verify EXCEPT !.failCode = code, !.xerr = xerr]]
      BY <1>1, <1>4 DEF CallUser, Verifications
    <3>2. code \in FailCodes /\ code # "none" /\ xerr \in CertErrors \cup {"ok", "app"}
      BY <1>1 DEF FailCodes
    <3> QED
      BY <3>1, <3>2
  <2>2. [x.verify EXCEPT !.failCode = code, !.xerr = xerr] \in Verifications
    BY <1>1 DEF Verifications
  <2>3. y.verify = [x.verify EXCEPT !.failCode = code, !.xerr = xerr] /\ y \in Answers
    BY <2>1, <2>2 DEF Answers
  <2>4. y.verify.failCode = code /\ y.verify.waived = x.verify.waived
    BY <1>1, <2>3 DEF Verifications
  <2> QED
    BY <1>4, <2>1, <2>3, <2>4 DEF Settled
<1> QED
  BY <1>2, <1>3, <1>4

(* crypto_resolve_peer_cert_error lets a problem pass for three reasons    *)
(* only: the CRL is missing, the certificate is installed, the user waived *)
(* it.                                                                     *)
LEMMA ResolveErrorAnswers ==
    ASSUME NEW x \in Answers, x.verify.failCode # "none", NEW d \in Depths, NEW what \in Problems,
           NEW y \in ResolveError(x, d, what)
    PROVE  /\ Settled(y)
           /\ x.verify.waived \subseteq y.verify.waived
           /\ y.ok => x.verify.xerr = "getCrl" \/ Installed(d) \/ what \in y.verify.waived
           /\ ~conf.verifyCb => y.verify.waived = x.verify.waived
           /\ ~y.ok => x.verify.xerr # "getCrl" /\ ~Installed(d)
<1>1. x.verify \in Verifications
  BY DEF Answers
<1>2. CASE x.verify.xerr = "getCrl" \/ Installed(d)
  <2>1. y = [ok |-> TRUE, verify |-> [x.verify EXCEPT !.failCode = "none", !.xerr = "ok"]]
    BY <1>2 DEF ResolveError, Installed
  <2>2. [x.verify EXCEPT !.failCode = "none", !.xerr = "ok"] \in Verifications
    BY <1>1 DEF Verifications, FailCodes
  <2>3. /\ y.ok /\ y \in Answers
        /\ y.verify = [x.verify EXCEPT !.failCode = "none", !.xerr = "ok"]
    BY <2>1, <2>2 DEF Answers
  <2>4. y.verify.failCode = "none" /\ y.verify.waived = x.verify.waived
    BY <1>1, <2>3 DEF Verifications
  <2> QED
    BY <1>2, <2>3, <2>4 DEF Settled
<1>3. CASE ~(x.verify.xerr = "getCrl" \/ Installed(d))
  <2> DEFINE z == [x EXCEPT !.ok = FALSE]
  <2>1. y \in CallUser(z, what)
    BY <1>3 DEF ResolveError, Installed
  <2>2. z \in Answers /\ ~z.ok /\ z.verify = x.verify
    BY DEF Answers
  <2>3. Settled(z)
    BY <2>2 DEF Settled
  <2> HIDE DEF z
  <2>4. /\ Settled(y)
        /\ z.verify.waived \subseteq y.verify.waived
        /\ y.ok => z.ok \/ what \in y.verify.waived
        /\ ~conf.verifyCb => y = z
    BY <2>1, <2>3, CallUserAnswers
  <2> QED
    BY <1>3, <2>2, <2>4
<1> QED
  BY <1>2, <1>3

(* The check of the host's name never lets pass what was refused, and at   *)
(* the leaf lets a name pass only if it matches or was excused.            *)
LEMMA CheckHostnameAnswers ==
    ASSUME NEW x, Settled(x), NEW d \in Depths, NEW y \in CheckHostname(x, d)
    PROVE  /\ Settled(y)
           /\ x.verify.waived \subseteq y.verify.waived
           /\ y.ok => x.ok
           /\ y.ok /\ d = 0 /\ conf.checkHostname =>
                 HostMatches \/ Installed(0) \/ <<0, "name">> \in y.verify.waived
           /\ ~conf.verifyCb => y.verify.waived = x.verify.waived
           /\ ~y.ok => ~x.ok \/ (conf.checkHostname /\ ~HostMatches)
<1>1. x \in Answers /\ x.verify \in Verifications
  BY DEF Settled, Answers
<1>2. CASE ~(x.ok /\ d = 0 /\ conf.checkHostname) \/ HostMatches
  <2>1. y = x
    BY <1>2 DEF CheckHostname, HostMatches
  <2> QED
    BY <1>2, <2>1
<1>3. CASE (x.ok /\ d = 0 /\ conf.checkHostname) /\ ~HostMatches
  <2> DEFINE code == VerifyHostname(host, peer.names)
             z == [ok |-> FALSE, verify |-> [x.verify EXCEPT !.failCode = code, !.xerr = "app"]]
  <2>1. PICK what \in Problems : what = <<d, "name">>
    BY DEF Problems
  <2>2. y \in ResolveError(z, d, what)
    BY <1>3, <2>1 DEF CheckHostname, HostMatches
  <2>3. code \in {"invalid", "mismatch"}
    BY <1>3 DEF VerifyHostname, HostMatches
  <2> HIDE DEF code
  <2>4. [x.verify EXCEPT !.failCode = code, !.xerr = "app"] \in Verifications
    BY <1>1, <2>3 DEF Verifications, FailCodes
  <2>5. z \in Answers /\ z.verify = [x.verify EXCEPT !.failCode = code, !.xerr = "app"]
    BY <2>4 DEF Answers
  <2>6. /\ z.verify.failCode # "none" /\ z.verify.xerr = "app"
        /\ z.verify.waived = x.verify.waived
    BY <1>1, <2>3, <2>5 DEF Verifications
  <2> HIDE DEF z
  <2>7. /\ Settled(y)
        /\ z.verify.waived \subseteq y.verify.waived
        /\ y.ok => z.verify.xerr = "getCrl" \/ Installed(d) \/ what \in y.verify.waived
        /\ ~conf.verifyCb => y.verify.waived = z.verify.waived
    <3>1. z \in Answers /\ z.verify.failCode # "none"
      BY <2>5, <2>6
    <3> QED
      BY <2>2, <3>1, ResolveErrorAnswers
  <2> QED
    BY <1>3, <2>1, <2>6, <2>7
<1> QED
  BY <1>2, <1>3

(* The callback, called with an error or with success: what it lets pass   *)
(* is excused, and what it refuses without the user is not.                *)
LEMMA CallbackAnswers ==
    ASSUME verify \in Verifications, NEW d \in Depths, NEW err \in CertErrors \cup {"ok"},
           NEW y \in PeerVerifyCallback(d, err)
    PROVE  /\ Settled(y)
           /\ verify.waived \subseteq y.verify.waived
           /\ y.ok /\ err # "ok" =>
                 err = "getCrl" \/ Installed(d) \/ <<d, err>> \in y.verify.waived
           /\ y.ok /\ d = 0 /\ conf.checkHostname =>
                 HostMatches \/ Installed(0) \/ <<0, "name">> \in y.verify.waived
           /\ ~conf.verifyCb => y.verify.waived = verify.waived
           /\ ~conf.verifyCb /\ ~y.ok =>
                 \/ err \notin {"ok", "getCrl"} /\ ~Installed(d)
                 \/ conf.checkHostname /\ ~HostMatches
<1> DEFINE good == err = "ok"
           code == IF good THEN "none" ELSE "certVerify"
           xerr == IF good THEN verify.xerr ELSE err
           v == [verify EXCEPT !.called = TRUE, !.failCode = code, !.xerr = xerr]
           start == [ok |-> good, verify |-> v]
           resolved == IF good THEN {start} ELSE ResolveError(start, d, <<d, err>>)
           checked  == UNION {CheckHostname(x, d) : x \in resolved}
           answered == UNION {IF good /\ x.ok THEN CallUser(x, <<d, err>>) ELSE {x} : x \in checked}
<1>1. PeerVerifyCallback(d, err)
        = {[x EXCEPT !.verify.inProgress = x.ok /\ ~(d = 0 /\ good)] : x \in answered}
  BY Zenon DEF PeerVerifyCallback
<1>2. /\ code \in FailCodes /\ xerr \in CertErrors \cup {"ok", "app"}
      /\ code = "none" <=> good
      /\ ~good => xerr = err
  BY DEF FailCodes, Verifications
<1>3. v \in Verifications /\ v.failCode = code /\ v.xerr = xerr /\ v.waived = verify.waived
  <2> HIDE DEF code, xerr
  <2> QED
    BY <1>2 DEF Verifications
<1> HIDE DEF v, code, xerr
<1>4. Settled(start) /\ start.ok = good /\ start.verify = v
  BY <1>2, <1>3 DEF Settled, Answers
<1> HIDE DEF start
<1>5. PICK a, b, c :
        /\ a \in resolved
        /\ b \in CheckHostname(a, d)
        /\ c \in (IF good /\ b.ok THEN CallUser(b, <<d, err>>) ELSE {b})
        /\ y = [c EXCEPT !.verify.inProgress = c.ok /\ ~(d = 0 /\ good)]
  <2> HIDE DEF resolved
  <2> QED
    BY <1>1
<1>6. /\ Settled(a)
      /\ verify.waived \subseteq a.verify.waived
      /\ ~conf.verifyCb => a.verify.waived = verify.waived
      /\ a.ok /\ err # "ok" =>
            err = "getCrl" \/ Installed(d) \/ <<d, err>> \in a.verify.waived
      /\ ~a.ok => err \notin {"ok", "getCrl"} /\ ~Installed(d)
  <2>1. CASE good
    <3>1. a = start
      BY <1>5, <2>1
    <3> QED
      BY <1>3, <1>4, <2>1, <3>1
  <2>2. CASE ~good
    <3>1. PICK what \in Problems : what = <<d, err>>
      BY <2>2 DEF Problems
    <3>2. a \in ResolveError(start, d, what)
      BY <1>5, <2>2, <3>1
    <3>3. start \in Answers /\ start.verify.failCode # "none"
      BY <1>2, <1>3, <1>4, <2>2 DEF Settled
    <3>4. /\ Settled(a)
          /\ start.verify.waived \subseteq a.verify.waived
          /\ a.ok => start.verify.xerr = "getCrl" \/ Installed(d) \/ what \in a.verify.waived
          /\ ~conf.verifyCb => a.verify.waived = start.verify.waived
          /\ ~a.ok => start.verify.xerr # "getCrl" /\ ~Installed(d)
      BY <3>2, <3>3, ResolveErrorAnswers
    <3> QED
      BY <1>2, <1>3, <1>4, <2>2, <3>1, <3>4
  <2> QED
    BY <2>1, <2>2
<1> HIDE DEF resolved
<1>7. /\ Settled(b)
      /\ a.verify.waived \subseteq b.verify.waived
      /\ b.ok => a.ok
      /\ b.ok /\ d = 0 /\ conf.checkHostname =>
            HostMatches \/ Installed(0) \/ <<0, "name">> \in b.verify.waived
      /\ ~conf.verifyCb => b.verify.waived = a.verify.waived
      /\ ~b.ok => ~a.ok \/ (conf.checkHostname /\ ~HostMatches)
  BY <1>5, <1>6, CheckHostnameAnswers
<1>8. /\ Settled(c)
      /\ b.verify.waived \subseteq c.verify.waived
      /\ c.ok => b.ok
      /\ ~conf.verifyCb => c = b
  <2>1. CASE good /\ b.ok
    <3>1. PICK what : what = <<d, err>>
      OBVIOUS
    <3>2. c \in CallUser(b, what)
      BY <1>5, <2>1, <3>1
    <3> QED
      BY <1>7, <2>1, <3>2, CallUserAnswers
  <2>2. CASE ~(good /\ b.ok)
    <3>1. c = b
      BY <1>5, <2>2
    <3> QED
      BY <1>7, <3>1
  <2> QED
    BY <2>1, <2>2
<1>9. Settled(y) /\ y.ok = c.ok /\ y.verify.waived = c.verify.waived
  <2>1. PICK inProgress \in BOOLEAN : y = [c EXCEPT !.verify.inProgress = inProgress]
    BY <1>5
  <2>2. c \in Answers /\ c.verify \in Verifications
    BY <1>8 DEF Settled, Answers
  <2>3. y = [c EXCEPT !.verify = [c.verify EXCEPT !.inProgress = inProgress]]
    BY <2>1, <2>2 DEF Answers, Verifications
  <2>4. /\ [c.verify EXCEPT !.inProgress = inProgress] \in Verifications
        /\ [c.verify EXCEPT !.inProgress = inProgress].failCode = c.verify.failCode
        /\ [c.verify EXCEPT !.inProgress = inProgress].waived = c.verify.waived
    BY <2>2 DEF Verifications
  <2>5. y \in Answers /\ y.ok = c.ok /\ y.verify = [c.verify EXCEPT !.inProgress = inProgress]
    BY <2>2, <2>3, <2>4 DEF Answers
  <2> QED
    BY <1>8, <2>4, <2>5 DEF Settled
<1> QED
  BY <1>6, <1>7, <1>8, <1>9

-----------------------------------------------------------------------------
(* The verification, step by step.                                         *)

(* What the invariant looks at while neither the options nor the peer      *)
(* change.                                                                 *)
LEMMA SameParties ==
    ASSUME conf' = conf, host' = host, peer' = peer
    PROVE  /\ HostMatches' <=> HostMatches
           /\ \A d : Installed(d)' <=> Installed(d)
           /\ \A d, what : LetPass(d, what)' <=> Installed(d) \/ <<d, what>> \in verify'.waived
           /\ \A d, what : LetPass(d, what) <=> Installed(d) \/ <<d, what>> \in verify.waived
BY DEF HostMatches, Installed, LetPass

(* The callback inside the handshake: it goes on with no code, or is       *)
(* refused with one; what was let pass stays so, and this call's error or  *)
(* name is let pass if it goes on.                                         *)
LEMMA CallsBackStep ==
    ASSUME VerifyInv, stage = "handshake", conf' = conf, host' = host, peer' = peer,
           NEW d \in Depths, NEW err \in CertErrors \cup {"ok"}, CallsBack(d, err)
    PROVE  /\ verify' \in Verifications
           /\ \/ stage' = "handshake" /\ verify'.failCode = "none"
              \/ stage' = "refused" /\ verify'.failCode # "none"
           /\ \A e \in Depths : \A what : LetPass(e, what) => LetPass(e, what)'
           /\ stage' = "handshake" /\ err # "ok" => err = "getCrl" \/ LetPass(d, err)'
           /\ stage' = "handshake" /\ d = 0 /\ conf.checkHostname =>
                 HostMatches' \/ LetPass(0, "name")'
           /\ ~conf.verifyCb => verify'.waived = {}
           /\ stage' = "refused" /\ ~conf.verifyCb =>
                 \/ err \notin {"ok", "getCrl"} /\ ~Installed(d)'
                 \/ conf.checkHostname /\ ~HostMatches'
<1>1. verify \in Verifications /\ (~conf.verifyCb => verify.waived = {})
  BY DEF VerifyInv, VerifyTypeOK, VerdictInv
<1>2. PICK y \in PeerVerifyCallback(d, err) :
        verify' = y.verify /\ stage' = (IF y.ok THEN stage ELSE "refused")
  BY DEF CallsBack
<1>3. /\ Settled(y)
      /\ verify.waived \subseteq y.verify.waived
      /\ y.ok /\ err # "ok" =>
            err = "getCrl" \/ Installed(d) \/ <<d, err>> \in y.verify.waived
      /\ y.ok /\ d = 0 /\ conf.checkHostname =>
            HostMatches \/ Installed(0) \/ <<0, "name">> \in y.verify.waived
      /\ ~conf.verifyCb => y.verify.waived = verify.waived
      /\ ~conf.verifyCb /\ ~y.ok =>
            \/ err \notin {"ok", "getCrl"} /\ ~Installed(d)
            \/ conf.checkHostname /\ ~HostMatches
  BY <1>1, CallbackAnswers
<1>4. /\ y.ok => stage' = "handshake"
      /\ ~y.ok => stage' = "refused"
      /\ "handshake" # "refused"
  BY <1>2
<1>5. y.verify \in Verifications /\ (y.ok <=> y.verify.failCode = "none")
  BY <1>3 DEF Settled, Answers
<1> QED
  BY <1>1, <1>2, <1>3, <1>4, <1>5, SameParties, Zenon

(* PSL_CHAN_FSM_EVT_CONNECT and _ACCEPT.                                   *)
LEMMA StartHandshakeStep ==
    ASSUME VerifyInv, NEW c \in Confs, NEW h \in Hosts, NEW p \in Peers, StartHandshake(c, h, p)
    PROVE  VerifyInv'
<1>1. /\ stage' = "handshake" /\ conf' = c /\ host' = h /\ peer' = p /\ todo' = p.errors
      /\ level' = (IF c.kind = "client" THEN 1 ELSE -1) /\ verify' = verify
      /\ verify = NotVerified
  BY DEF StartHandshake, VerifyInv, VerdictInv
<1>2. /\ NotVerified \in Verifications /\ NotVerified.failCode = "none"
      /\ NotVerified.waived = {}
  BY DEF NotVerified, Verifications, FailCodes
<1>3. p.errors \in [Depths -> SUBSET CertErrors]
  BY PartiesAssumption
<1>4. VerifyTypeOK'
  BY <1>1, <1>2, <1>3 DEF VerifyTypeOK, Stages
<1>5. VerdictInv'
  BY <1>1, <1>2 DEF VerdictInv
<1>6. c.kind = "client" => level' = 1 /\ level' # -1 /\ \A d \in Depths : ~(d > level')
  BY <1>1 DEF Depths
<1>7. ChainInv'
  BY <1>1, <1>6 DEF ChainInv
<1> QED
  BY <1>4, <1>5, <1>7 DEF VerifyInv

(* OpenSSL calls back with an error,                                       *)
LEMMA ReportsErrorStep ==
    ASSUME VerifyInv, NEW d \in Depths, NEW err \in CertErrors, ReportsError(d, err)
    PROVE  VerifyInv'
<1>1. /\ stage = "handshake" /\ d <= level /\ err \in todo[d] /\ CallsBack(d, err)
      /\ todo' = [todo EXCEPT ![d] = @ \ {err}]
      /\ conf' = conf /\ host' = host /\ peer' = peer /\ level' = level
  BY DEF ReportsError
<1>2. /\ verify' \in Verifications
      /\ \/ stage' = "handshake" /\ verify'.failCode = "none"
         \/ stage' = "refused" /\ verify'.failCode # "none"
      /\ \A e \in Depths : \A what : LetPass(e, what) => LetPass(e, what)'
      /\ stage' = "handshake" /\ err # "ok" => err = "getCrl" \/ LetPass(d, err)'
      /\ ~conf.verifyCb => verify'.waived = {}
      /\ stage' = "refused" /\ ~conf.verifyCb =>
            \/ err \notin {"ok", "getCrl"} /\ ~Installed(d)'
            \/ conf.checkHostname /\ ~HostMatches'
  BY <1>1, CallsBackStep
<1>3. /\ conf \in Confs /\ host \in Hosts \cup {NoHost} /\ peer \in Peers \cup {NoPeer}
      /\ todo \in [Depths -> SUBSET CertErrors] /\ level \in -1 .. 1
  BY DEF VerifyInv, VerifyTypeOK
<1>4. /\ todo' \in [Depths -> SUBSET CertErrors]
      /\ \A e \in Depths : todo'[e] = (IF e = d THEN todo[e] \ {err} ELSE todo[e])
  BY <1>1, <1>3
<1>5. /\ peer \in Peers /\ host \in Hosts
      /\ \A e \in Depths : todo[e] \subseteq peer.errors[e]
      /\ \A e \in Depths : \A x \in peer.errors[e] \ todo[e] : x = "getCrl" \/ LetPass(e, x)
      /\ conf.kind = "client" =>
            /\ \A e \in Depths : e > level => todo[e] = {}
            /\ level = -1 /\ conf.checkHostname => HostMatches \/ LetPass(0, "name")
  BY <1>1 DEF VerifyInv, ChainInv
<1>6. VerifyTypeOK'
  BY <1>1, <1>2, <1>3, <1>4 DEF VerifyTypeOK, Stages
<1>7. VerdictInv'
  <2>1. err \notin {"ok", "getCrl"} => "expired" \in peer'.errors[d]
    BY <1>1, <1>5 DEF CertErrors
  <2> QED
    BY <1>1, <1>2, <2>1 DEF VerdictInv
<1>8. ASSUME stage' = "handshake" PROVE ChainInv'
  <2>1. ASSUME NEW e \in Depths, NEW x \in peer.errors[e] \ todo'[e]
        PROVE  x = "getCrl" \/ LetPass(e, x)'
    <3>1. CASE x \in todo[e]
      <4>1. e = d /\ x = err
        BY <1>4, <2>1, <3>1
      <4>2. err # "ok"
        BY DEF CertErrors
      <4> QED
        BY <1>2, <1>8, <4>1, <4>2
    <3>2. CASE x \notin todo[e]
      BY <1>2, <1>5, <2>1, <3>2
    <3> QED
      BY <3>1, <3>2
  <2>2. \A e \in Depths : todo'[e] \subseteq todo[e]
    BY <1>4
  <2>3. level # -1
    BY <1>1, <1>3 DEF Depths
  <2>4. \A e \in Depths : todo'[e] \subseteq peer.errors[e]
    BY <1>5, <2>2
  <2>5. conf.kind = "client" => \A e \in Depths : e > level => todo'[e] = {}
    BY <1>5, <2>2
  <2>6. stage' # "verified"
    BY <1>8
  <2> QED
    BY <1>1, <1>5, <2>1, <2>3, <2>4, <2>5, <2>6, Zenon DEF ChainInv
<1>9. stage' # "handshake" => ChainInv'
  BY <1>2 DEF ChainInv
<1> QED
  BY <1>6, <1>7, <1>8, <1>9 DEF VerifyInv

(* or with success, for a certificate of which nothing is left to report.  *)
LEMMA ReportsSuccessStep ==
    ASSUME VerifyInv, ReportsSuccess
    PROVE  VerifyInv'
<1>1. /\ stage = "handshake" /\ level >= 0 /\ todo[level] = {} /\ CallsBack(level, "ok")
      /\ level' = level - 1
      /\ conf' = conf /\ host' = host /\ peer' = peer /\ todo' = todo
  BY DEF ReportsSuccess
<1>2. /\ conf \in Confs /\ host \in Hosts \cup {NoHost} /\ peer \in Peers \cup {NoPeer}
      /\ todo \in [Depths -> SUBSET CertErrors] /\ level \in -1 .. 1
  BY DEF VerifyInv, VerifyTypeOK
<1>3. PICK d \in Depths : d = level
  BY <1>1, <1>2 DEF Depths
<1>4. /\ verify' \in Verifications
      /\ \/ stage' = "handshake" /\ verify'.failCode = "none"
         \/ stage' = "refused" /\ verify'.failCode # "none"
      /\ \A e \in Depths : \A what : LetPass(e, what) => LetPass(e, what)'
      /\ stage' = "handshake" /\ d = 0 /\ conf.checkHostname =>
            HostMatches' \/ LetPass(0, "name")'
      /\ ~conf.verifyCb => verify'.waived = {}
      /\ stage' = "refused" /\ ~conf.verifyCb => conf.checkHostname /\ ~HostMatches'
  BY <1>1, <1>3, CallsBackStep
<1>5. /\ peer \in Peers /\ host \in Hosts
      /\ \A e \in Depths : todo[e] \subseteq peer.errors[e]
      /\ \A e \in Depths : \A x \in peer.errors[e] \ todo[e] : x = "getCrl" \/ LetPass(e, x)
      /\ conf.kind = "client" => \A e \in Depths : e > level => todo[e] = {}
  BY <1>1 DEF VerifyInv, ChainInv
<1>6. VerifyTypeOK'
  <2>1. level' \in -1 .. 1
    BY <1>1, <1>2
  <2> QED
    BY <1>1, <1>2, <1>4, <2>1 DEF VerifyTypeOK, Stages
<1>7. VerdictInv'
  BY <1>1, <1>4 DEF VerdictInv
<1>8. ASSUME stage' = "handshake" PROVE ChainInv'
  <2>1. \A e \in Depths : e > level' => e > level \/ e = level
    BY <1>1, <1>2 DEF Depths
  <2>2. conf.kind = "client" => \A e \in Depths : e > level' => todo[e] = {}
    BY <1>1, <1>5, <2>1
  <2>3. level' = -1 => d = 0
    BY <1>1, <1>2, <1>3
  <2>4. \A e \in Depths : \A x \in peer.errors[e] \ todo[e] : x = "getCrl" \/ LetPass(e, x)'
    BY <1>4, <1>5
  <2>5. stage' # "verified"
    BY <1>8
  <2> QED
    BY <1>1, <1>4, <1>5, <1>8, <2>2, <2>3, <2>4, <2>5, Zenon DEF ChainInv
<1>9. stage' # "handshake" => ChainInv'
  BY <1>4 DEF ChainInv
<1> QED
  BY <1>6, <1>7, <1>8, <1>9 DEF VerifyInv

(* The handshake ends.                                                     *)
LEMMA HandshakeEndStep ==
    ASSUME VerifyInv, HandshakeDone \/ HandshakeFails
    PROVE  VerifyInv'
<1>1. /\ stage = "handshake"
      /\ (stage' = "verified" /\ level = -1) \/ stage' = "failed"
      /\ conf' = conf /\ host' = host /\ peer' = peer /\ todo' = todo /\ level' = level
      /\ verify' = verify
  BY DEF HandshakeDone, HandshakeFails
<1>2. \A d, what : LetPass(d, what)' <=> LetPass(d, what)
  BY <1>1, SameParties
<1>3. HostMatches' <=> HostMatches
  BY <1>1, SameParties
<1>4. VerifyTypeOK'
  BY <1>1 DEF VerifyInv, VerifyTypeOK, Stages
<1>5. VerdictInv'
  BY <1>1 DEF VerifyInv, VerdictInv
<1>6. /\ peer \in Peers /\ host \in Hosts
      /\ \A d \in Depths : todo[d] \subseteq peer.errors[d]
      /\ \A d \in Depths : \A err \in peer.errors[d] \ todo[d] :
            err = "getCrl" \/ LetPass(d, err)
      /\ conf.kind = "client" =>
            /\ \A d \in Depths : d > level => todo[d] = {}
            /\ level = -1 /\ conf.checkHostname => HostMatches \/ LetPass(0, "name")
  BY <1>1 DEF VerifyInv, ChainInv
<1>7. ChainInv'
  <2>1. CASE stage' = "verified"
    BY <1>1, <1>2, <1>3, <1>6, <2>1, Zenon DEF ChainInv
  <2>2. CASE stage' = "failed"
    BY <2>2 DEF ChainInv
  <2> QED
    BY <1>1, <2>1, <2>2
<1> QED
  BY <1>4, <1>5, <1>7 DEF VerifyInv

(* The crypto-ssl states are entered, or the scope of the mode is left.    *)
LEMMA EnterSslStep ==
    ASSUME VerifyInv, EnterSsl
    PROVE  VerifyInv'
<1>1. /\ stage = "verified" /\ stage' = "ssl"
      /\ conf' = NoConf /\ host' = NoHost /\ peer' = NoPeer
      /\ verify' = [NotVerified EXCEPT !.failCode = verify.failCode]
      /\ todo' = todo /\ level' = level
  BY DEF EnterSsl
<1>2. verify.failCode = "none"
  BY <1>1 DEF VerifyInv, VerdictInv
<1>3. verify' \in Verifications /\ verify'.failCode = "none" /\ verify'.waived = {}
  BY <1>1, <1>2 DEF NotVerified, Verifications, FailCodes
<1>4. VerifyTypeOK'
  BY <1>1, <1>3 DEF VerifyInv, VerifyTypeOK, Stages, NoConf, Confs
<1>5. VerdictInv'
  BY <1>1, <1>3 DEF VerdictInv
<1>6. ChainInv'
  BY <1>1 DEF ChainInv
<1> QED
  BY <1>4, <1>5, <1>6 DEF VerifyInv

(* Before the handshake and after the scope of the crypto mode is left,    *)
(* there is nothing to say of the peer.                                    *)
LEMMA ClosedInv ==
    ASSUME stage \in {"idle", "closed"}, conf = NoConf, host = NoHost, peer = NoPeer,
           verify = NotVerified, todo = NoPeer.errors, level = -1
    PROVE  VerifyInv
<1>1. verify \in Verifications /\ verify.failCode = "none" /\ verify.waived = {}
  BY DEF NotVerified, Verifications, FailCodes
<1>2. todo \in [Depths -> SUBSET CertErrors]
  BY DEF NoPeer
<1>3. VerifyTypeOK
  BY <1>1, <1>2 DEF VerifyTypeOK, Stages, NoConf, Confs
<1>4. VerdictInv
  BY <1>1 DEF VerdictInv
<1>5. ChainInv
  BY DEF ChainInv
<1> QED
  BY <1>3, <1>4, <1>5 DEF VerifyInv

(* Writing does not touch the verification.                                *)
LEMMA VerifyStutters ==
    ASSUME VerifyInv, UNCHANGED sslVars
    PROVE  VerifyInv'
<1>1. /\ stage' = stage /\ conf' = conf /\ host' = host /\ peer' = peer
      /\ todo' = todo /\ level' = level /\ verify' = verify
  BY DEF sslVars
<1> QED
  BY <1>1 DEF VerifyInv, VerifyTypeOK, VerdictInv, ChainInv, HostMatches, Installed, LetPass

(* Every step keeps the half of the verification.                          *)
LEMMA VerifyStep ==
    ASSUME VerifyInv, [Next]_vars
    PROVE  VerifyInv'
<1>1. ASSUME NEW c \in Confs, NEW h \in Hosts, NEW p \in Peers, StartHandshake(c, h, p)
      PROVE  VerifyInv'
  BY <1>1, StartHandshakeStep
<1>2. ASSUME NEW d \in Depths, NEW err \in CertErrors, ReportsError(d, err)
      PROVE  VerifyInv'
  BY <1>2, ReportsErrorStep
<1>3. CASE ReportsSuccess
  BY <1>3, ReportsSuccessStep
<1>4. CASE HandshakeDone \/ HandshakeFails
  BY <1>4, HandshakeEndStep
<1>5. CASE EnterSsl
  BY <1>5, EnterSslStep
<1>6. CASE LeaveCrypto
  <2>1. /\ stage' \in {"idle", "closed"} /\ conf' = NoConf /\ host' = NoHost /\ peer' = NoPeer
        /\ verify' = NotVerified /\ todo' = NoPeer.errors /\ level' = -1
    BY <1>6 DEF LeaveCrypto
  <2>2. VerifyTypeOK' /\ VerdictInv' /\ ChainInv'
    <3>1. verify' \in Verifications /\ verify'.failCode = "none" /\ verify'.waived = {}
      BY <2>1 DEF NotVerified, Verifications, FailCodes
    <3>2. todo' \in [Depths -> SUBSET CertErrors]
      BY <2>1 DEF NoPeer
    <3> QED
      BY <2>1, <3>1, <3>2 DEF VerifyTypeOK, VerdictInv, ChainInv, Stages, NoConf, Confs
  <2> QED
    BY <2>2 DEF VerifyInv
<1>7. CASE UNCHANGED sslVars
  BY <1>7, VerifyStutters
<1>8. /\ \A n, k, ends : Write(n, k, ends) => UNCHANGED sslVars
      /\ \A k, ends : RetryWrite(k, ends) => UNCHANGED sslVars
      /\ HangUp => UNCHANGED sslVars
      /\ UNCHANGED vars => UNCHANGED sslVars
  BY DEF Write, RetryWrite, HangUp, vars, sslVars
<1> QED
  BY <1>1, <1>2, <1>3, <1>4, <1>5, <1>6, <1>7, <1>8 DEF Next

-----------------------------------------------------------------------------
(* The output, byte by byte.                                               *)

(* s counts on from m.                                                     *)
Counts(s, m) == \A i \in 1 .. Len(s) : s[i] = m + i

(* A sequence counts on after another exactly when the two make one that   *)
(* counts.                                                                 *)
LEMMA CountsOn ==
    ASSUME NEW S, NEW s \in Seq(S), NEW t \in Seq(S), NEW n \in Nat
    PROVE  /\ s = [i \in 1 .. Len(s) |-> i] <=> Counts(s, 0)
           /\ s \o t = [i \in 1 .. n |-> i]
                <=> Len(s) + Len(t) = n /\ Counts(s, 0) /\ Counts(t, Len(s))
           /\ Counts(s, 0) /\ Counts(t, Len(s)) => Counts(s \o t, 0)
<1>1. /\ Len(s) \in Nat /\ Len(t) \in Nat /\ s \o t \in Seq(S)
      /\ Len(s \o t) = Len(s) + Len(t)
  OBVIOUS
<1>2. \A i \in 1 .. Len(s) : (s \o t)[i] = s[i]
  OBVIOUS
<1>3. ASSUME NEW i \in 1 .. Len(t)
      PROVE  Len(s) + i \in 1 .. Len(s) + Len(t) /\ (s \o t)[Len(s) + i] = t[i]
  BY <1>1
<1>4. ASSUME NEW r \in Seq(S), NEW m \in Nat
      PROVE  r = [i \in 1 .. m |-> i] <=> Len(r) = m /\ Counts(r, 0)
  <2>1. ASSUME r = [i \in 1 .. m |-> i] PROVE Len(r) = m /\ Counts(r, 0)
    BY <2>1 DEF Counts
  <2>2. ASSUME Len(r) = m, Counts(r, 0) PROVE r = [i \in 1 .. m |-> i]
    <3>1. DOMAIN r = 1 .. m /\ r = [i \in DOMAIN r |-> r[i]]
      BY <2>2
    <3>2. \A i \in 1 .. m : r[i] = i
      BY <2>2 DEF Counts
    <3> QED
      BY <3>1, <3>2
  <2> QED
    BY <2>1, <2>2
<1>5. Counts(s \o t, 0) => Counts(s, 0) /\ Counts(t, Len(s))
  <2> SUFFICES ASSUME Counts(s \o t, 0) PROVE Counts(s, 0) /\ Counts(t, Len(s))
    OBVIOUS
  <2>1. \A i \in 1 .. Len(s) + Len(t) : (s \o t)[i] = i
    BY <1>1 DEF Counts
  <2>2. ASSUME NEW i \in 1 .. Len(s) PROVE s[i] = i
    BY <1>1, <1>2, <2>1
  <2>3. ASSUME NEW i \in 1 .. Len(t) PROVE t[i] = Len(s) + i
    BY <1>1, <1>3, <2>1
  <2> QED
    BY <2>2, <2>3 DEF Counts
<1>6. Counts(s, 0) /\ Counts(t, Len(s)) => Counts(s \o t, 0)
  <2> SUFFICES ASSUME Counts(s, 0), Counts(t, Len(s)),
                      NEW i \in 1 .. Len(s) + Len(t)
               PROVE  (s \o t)[i] = i
    BY <1>1 DEF Counts
  <2>1. CASE i <= Len(s)
    <3>1. i \in 1 .. Len(s)
      BY <1>1, <2>1
    <3> QED
      BY <1>2, <3>1 DEF Counts
  <2>2. CASE i > Len(s)
    <3>1. PICK l \in 1 .. Len(t) : i = Len(s) + l
      <4>1. i - Len(s) \in 1 .. Len(t) /\ i = Len(s) + (i - Len(s))
        BY <1>1, <2>2
      <4> QED
        BY <4>1
    <3>2. (s \o t)[i] = t[l]
      BY <1>3, <3>1
    <3> QED
      BY <3>1, <3>2 DEF Counts
  <2> QED
    BY <1>1, <2>1, <2>2
<1> QED
  BY <1>1, <1>4, <1>5, <1>6

(* A part of a sequence.                                                   *)
LEMMA Cut ==
    ASSUME NEW S, NEW s \in Seq(S), NEW m \in 0 .. Len(s), NEW n \in m .. Len(s)
    PROVE  /\ SubSeq(s, m + 1, n) \in Seq(S)
           /\ Len(SubSeq(s, m + 1, n)) = n - m
           /\ \A i \in 1 .. n - m : SubSeq(s, m + 1, n)[i] = s[m + i]
<1>1. Len(s) \in Nat
  OBVIOUS
<1>2. /\ Len(SubSeq(s, m + 1, n)) = n - m
      /\ \A i \in 1 .. n - m : SubSeq(s, m + 1, n)[i] = s[m + i]
  BY <1>1
<1>3. SubSeq(s, m + 1, n) = [i \in 1 .. n - m |-> s[m + i]]
  BY <1>1
<1>4. \A i \in 1 .. n - m : s[m + i] \in S
  BY <1>1
<1>5. n - m \in Nat
  BY <1>1
<1> QED
  BY <1>2, <1>3, <1>4, <1>5

(* A prefix, octet by octet.                                               *)
LEMMA PrefixIs ==
    ASSUME NEW S, NEW s \in Seq(S), NEW t \in Seq(S)
    PROVE  IsPrefix(s, t) <=> Len(s) <= Len(t) /\ \A i \in 1 .. Len(s) : s[i] = t[i]
<1>1. Len(s) \in Nat /\ Len(t) \in Nat
  OBVIOUS
<1>2. ASSUME Len(s) <= Len(t)
      PROVE  SubSeq(s, 1, Len(s)) = SubSeq(t, 1, Len(s))
               <=> \A i \in 1 .. Len(s) : s[i] = t[i]
  <2>1. SubSeq(s, 1, Len(s)) = [i \in 1 .. Len(s) |-> s[i]]
    BY <1>1
  <2>2. SubSeq(t, 1, Len(s)) = [i \in 1 .. Len(s) |-> t[i]]
    BY <1>1, <1>2
  <2> QED
    BY <2>1, <2>2
<1> QED
  BY <1>2 DEF IsPrefix

(* The data of a buffer.                                                   *)
Buffers == [garray : Seq(Bytes), nextConsumeIndex : Nat]

(* psl_io_buf_get_data_ptr and _size: the data is the array from the index *)
(* of consumption on.                                                      *)
LEMMA DataIs ==
    ASSUME NEW b \in Buffers, b.nextConsumeIndex <= Len(b.garray)
    PROVE  /\ Data(b) \in Seq(Bytes)
           /\ DataSize(b) \in Nat /\ Len(Data(b)) = DataSize(b)
           /\ DataSize(b) = Len(b.garray) - b.nextConsumeIndex
           /\ \A i \in 1 .. DataSize(b) : Data(b)[i] = b.garray[b.nextConsumeIndex + i]
<1>1. PICK g \in Seq(Bytes), m \in Nat : b.garray = g /\ b.nextConsumeIndex = m
  BY DEF Buffers
<1>2. Len(g) \in Nat /\ m <= Len(g)
  BY <1>1
<1>3. m \in 0 .. Len(g) /\ Len(g) \in m .. Len(g)
  BY <1>2
<1>4. /\ SubSeq(g, m + 1, Len(g)) \in Seq(Bytes)
      /\ Len(SubSeq(g, m + 1, Len(g))) = Len(g) - m
      /\ \A i \in 1 .. Len(g) - m : SubSeq(g, m + 1, Len(g))[i] = g[m + i]
  BY <1>3, Cut
<1> QED
  BY <1>1, <1>2, <1>4 DEF Data, DataSize

(* The invariant of the output, in these terms.                            *)
OutputTypeOK ==
    /\ io \in {"idle", "want", "error"}
    /\ buf \in Buffers /\ Len(buf.garray) <= Capacity
    /\ buf.nextConsumeIndex <= Len(buf.garray)
    /\ held \in Seq(Bytes)
    /\ accepted \in 0 .. MaxBytes /\ sent \in Seq(Bytes)

OutputCounts ==
    /\ Counts(sent, 0)
    /\ io # "error" => Len(sent) + DataSize(buf) = accepted /\ Counts(Data(buf), Len(sent))
    /\ io = "want" => /\ Len(held) \in 1 .. DataSize(buf)
                      /\ \A i \in 1 .. Len(held) : held[i] = Data(buf)[i]
    /\ io = "idle" => DataSize(buf) = 0

OutputInv == OutputTypeOK /\ OutputCounts

(* OutputInOrder says that what was sent, and then the data of the buffer, *)
(* count from one.                                                         *)
LEMMA OutputReads ==
    ASSUME OutputTypeOK
    PROVE  OutputInOrder <=> OutputCounts
<1>1. /\ Data(buf) \in Seq(Bytes) /\ Len(Data(buf)) = DataSize(buf)
      /\ DataSize(buf) \in Nat
  BY DataIs DEF OutputTypeOK
<1>2. sent \in Seq(Bytes) /\ held \in Seq(Bytes) /\ accepted \in Nat
  BY SizesAssumption DEF OutputTypeOK
<1>3. /\ sent = [i \in 1 .. Len(sent) |-> i] <=> Counts(sent, 0)
      /\ sent \o Data(buf) = [i \in 1 .. accepted |-> i]
           <=> /\ Len(sent) + DataSize(buf) = accepted
               /\ Counts(sent, 0) /\ Counts(Data(buf), Len(sent))
  <2>1. PICK s \in Seq(Bytes), t \in Seq(Bytes), n \in Nat :
          s = sent /\ t = Data(buf) /\ n = accepted
    BY <1>1, <1>2
  <2>2. /\ s = [i \in 1 .. Len(s) |-> i] <=> Counts(s, 0)
        /\ s \o t = [i \in 1 .. n |-> i]
             <=> Len(s) + Len(t) = n /\ Counts(s, 0) /\ Counts(t, Len(s))
    BY CountsOn
  <2> QED
    BY <1>1, <2>1, <2>2
<1>4. held # <<>> /\ IsPrefix(held, Data(buf))
        <=> /\ Len(held) \in 1 .. DataSize(buf)
            /\ \A i \in 1 .. Len(held) : held[i] = Data(buf)[i]
  <2>1. held # <<>> <=> Len(held) \in Nat \ {0}
    BY <1>2, EmptySeq
  <2>2. IsPrefix(held, Data(buf))
          <=> Len(held) <= DataSize(buf) /\ \A i \in 1 .. Len(held) : held[i] = Data(buf)[i]
    BY <1>1, <1>2, PrefixIs
  <2> QED
    BY <1>1, <1>2, <2>1, <2>2
<1> QED
  BY <1>3, <1>4 DEF OutputInOrder, OutputCounts, IsEmpty

-----------------------------------------------------------------------------
(* The output, step by step.                                               *)

(* What is kept of bytes is a beginning of them.                           *)
LEMMA Beginning ==
    ASSUME NEW S, NEW s \in Seq(S), NEW n \in 0 .. Len(s)
    PROVE  /\ SubSeq(s, 1, n) \in Seq(S) /\ Len(SubSeq(s, 1, n)) = n
           /\ \A i \in 1 .. n : SubSeq(s, 1, n)[i] = s[i]
<1>1. 0 \in 0 .. Len(s) /\ 0 + 1 = 1 /\ n - 0 = n /\ \A i \in 1 .. n : 0 + i = i
  OBVIOUS
<1> QED
  BY <1>1, Cut

(* A record OpenSSL keeps begins what it was given, and is not empty.      *)
LEMMA RecordsBegin ==
    ASSUME NEW S, NEW t \in Seq(S), NEW h \in Records(t)
    PROVE  /\ h \in Seq(S) /\ Len(h) \in 1 .. Len(t)
           /\ \A i \in 1 .. Len(h) : h[i] = t[i]
<1>1. PICK n \in 1 .. Len(t) : h = SubSeq(t, 1, n)
  BY DEF Records
<1>2. n \in 0 .. Len(t)
  OBVIOUS
<1> QED
  BY <1>1, <1>2, Beginning

(* The bytes of a WRITE of n, m being written, of which k are taken: all,  *)
(* and what is buffered.                                                   *)
Written(m, n) == [i \in 1 .. n |-> m + i]

Deferred(m, n, k) == SubSeq(Written(m, n), k + 1, k + DeferredCount(n - k))

(* The bytes of a WRITE fall into those taken and those buffered, which    *)
(* count on from one another and from what was written before; the buffer  *)
(* takes some of them if any are left.                                     *)
LEMMA WriteSplits ==
    ASSUME NEW m \in 0 .. MaxBytes, NEW n \in Nat, m + n <= MaxBytes, NEW k \in 0 .. n
    PROVE  /\ SubSeq(Written(m, n), 1, k) \in Seq(Bytes)
           /\ Len(SubSeq(Written(m, n), 1, k)) = k
           /\ Counts(SubSeq(Written(m, n), 1, k), m)
           /\ Deferred(m, n, k) \in Seq(Bytes)
           /\ Len(Deferred(m, n, k)) \in 0 .. n - k /\ Len(Deferred(m, n, k)) <= Capacity
           /\ k # n => Len(Deferred(m, n, k)) # 0
           /\ Counts(Deferred(m, n, k), m + k)
<1> DEFINE bytes == Written(m, n)
           rest  == Deferred(m, n, k)
<1>0. rest = SubSeq(bytes, k + 1, k + DeferredCount(n - k))
  BY DEF Deferred
<1>1. MaxBytes \in Nat /\ Capacity \in Nat \ {0}
  BY SizesAssumption
<1>2. bytes \in Seq(Bytes) /\ Len(bytes) = n /\ \A i \in 1 .. n : bytes[i] = m + i
  BY <1>1 DEF Bytes, Written
<1> HIDE DEF bytes, rest
<1>3. PICK c \in 0 .. n - k : c = DeferredCount(n - k) /\ c <= Capacity /\ (k # n => c # 0)
  <2>1. /\ DeferredCount(n - k) \in 0 .. n - k /\ DeferredCount(n - k) <= Capacity
        /\ k # n => DeferredCount(n - k) # 0
    BY <1>1 DEF DeferredCount, Smaller
  <2> QED
    BY <2>1
<1>4. /\ SubSeq(bytes, 1, k) \in Seq(Bytes) /\ Len(SubSeq(bytes, 1, k)) = k
      /\ \A i \in 1 .. k : SubSeq(bytes, 1, k)[i] = bytes[i]
  <2>1. k \in 0 .. Len(bytes)
    BY <1>2
  <2> QED
    BY <1>2, <2>1, Beginning, Zenon
<1>5. k \in 0 .. Len(bytes) /\ k + c \in k .. Len(bytes) /\ (k + c) - k = c
  BY <1>2, <1>3
<1>6. /\ rest \in Seq(Bytes) /\ Len(rest) = c
      /\ \A i \in 1 .. c : rest[i] = bytes[k + i]
  <2>1. /\ SubSeq(bytes, k + 1, k + c) \in Seq(Bytes)
        /\ Len(SubSeq(bytes, k + 1, k + c)) = (k + c) - k
        /\ \A i \in 1 .. (k + c) - k : SubSeq(bytes, k + 1, k + c)[i] = bytes[k + i]
    BY <1>2, <1>5, Cut, Zenon
  <2>2. rest = SubSeq(bytes, k + 1, k + c)
    BY <1>0, <1>3
  <2> QED
    BY <1>5, <2>1, <2>2, Zenon
<1>7. \A i \in 1 .. k : SubSeq(bytes, 1, k)[i] = m + i
  BY <1>2, <1>4
<1>8. \A i \in 1 .. c : rest[i] = m + k + i
  <2>1. \A i \in 1 .. c : k + i \in 1 .. n /\ m + (k + i) = m + k + i
    BY <1>3
  <2> QED
    BY <1>2, <1>6, <2>1
<1> QED
  BY <1>2, <1>3, <1>4, <1>6, <1>7, <1>8 DEF Counts, bytes, rest

(* A fresh buffer holds the bytes that are copied into it.                 *)
LEMMA CopiedData ==
    ASSUME NEW bytes \in Seq(Bytes), Len(bytes) <= Capacity,
           NEW b, b = ResetAndCopy(bytes)
    PROVE  /\ b \in Buffers /\ Len(b.garray) <= Capacity
           /\ b.nextConsumeIndex = 0 /\ b.nextConsumeIndex <= Len(b.garray)
           /\ DataSize(b) = Len(bytes) /\ Len(Data(b)) = Len(bytes)
           /\ \A i \in 1 .. Len(bytes) : Data(b)[i] = bytes[i]
<1>1. Len(bytes) \in Nat /\ Smaller(Len(bytes), Capacity) = Len(bytes)
  BY DEF Smaller
<1>2. /\ b.garray = SubSeq(bytes, 1, Len(bytes)) /\ b.nextConsumeIndex = 0
      /\ b = [garray |-> SubSeq(bytes, 1, Len(bytes)), nextConsumeIndex |-> 0]
  BY <1>1 DEF ResetAndCopy
<1>3. /\ SubSeq(bytes, 1, Len(bytes)) \in Seq(Bytes)
      /\ Len(SubSeq(bytes, 1, Len(bytes))) = Len(bytes)
      /\ \A i \in 1 .. Len(bytes) : SubSeq(bytes, 1, Len(bytes))[i] = bytes[i]
  <2>1. Len(bytes) \in 0 .. Len(bytes)
    BY <1>1
  <2> QED
    BY <2>1, Beginning, Zenon
<1>4. b \in Buffers /\ b.nextConsumeIndex <= Len(b.garray)
  BY <1>1, <1>2, <1>3 DEF Buffers
<1>5. /\ DataSize(b) \in Nat /\ Len(Data(b)) = DataSize(b)
      /\ DataSize(b) = Len(b.garray) - b.nextConsumeIndex
      /\ \A i \in 1 .. DataSize(b) : Data(b)[i] = b.garray[b.nextConsumeIndex + i]
  BY <1>4, DataIs
<1>6. DataSize(b) = Len(bytes) /\ Len(b.garray) = Len(bytes)
  BY <1>1, <1>2, <1>3, <1>5
<1>7. ASSUME NEW i \in 1 .. Len(bytes) PROVE Data(b)[i] = bytes[i]
  <2>1. b.nextConsumeIndex + i = i
    BY <1>1, <1>2
  <2> QED
    BY <1>2, <1>3, <1>5, <1>6, <2>1, Zenon
<1> QED
  BY <1>1, <1>2, <1>4, <1>5, <1>6, <1>7

(* crypto_handle_WRITE: what is taken is sent, what is left goes into the  *)
(* buffer that was empty.                                                  *)
LEMMA WriteStep ==
    ASSUME OutputInv, NEW n \in 1 .. MaxWrite, NEW k \in 0 .. n,
           NEW ends \in {"idle", "want", "error"}, Write(n, k, ends)
    PROVE  OutputInv'
<1> DEFINE rest == Deferred(accepted, n, k)
           head == SubSeq(Written(accepted, n), 1, k)
<1>1. /\ io = "idle" /\ accepted + n <= MaxBytes
      /\ k = n <=> ends = "idle"
      /\ io' = ends
      /\ sent' = sent \o head
      /\ accepted' = accepted + k + (IF ends = "want" THEN Len(rest) ELSE 0)
      /\ ends = "want" => buf' = ResetAndCopy(rest) /\ held' \in Records(rest)
      /\ ends # "want" => buf' = buf /\ held' = held
  BY DEF Write, Deferred, Written
<1>2. /\ accepted \in 0 .. MaxBytes /\ sent \in Seq(Bytes)
      /\ held \in Seq(Bytes) /\ Len(sent) \in Nat
      /\ buf \in Buffers /\ Len(buf.garray) <= Capacity
      /\ buf.nextConsumeIndex <= Len(buf.garray)
  BY DEF OutputInv, OutputTypeOK
<1>3. Len(sent) = accepted /\ DataSize(buf) = 0 /\ Counts(sent, 0)
  BY <1>1, <1>2 DEF OutputInv, OutputCounts
<1>4. /\ rest \in Seq(Bytes) /\ head \in Seq(Bytes)
      /\ Len(head) = k /\ Counts(head, accepted)
      /\ Len(rest) \in 0 .. n - k /\ Len(rest) <= Capacity
      /\ k # n => Len(rest) # 0
      /\ Counts(rest, accepted + k)
  <2>1. PICK m \in 0 .. MaxBytes : m = accepted
    BY <1>2
  <2>2. n \in Nat /\ m + n <= MaxBytes
    BY <1>1, <2>1
  <2>3. /\ SubSeq(Written(m, n), 1, k) \in Seq(Bytes)
        /\ Len(SubSeq(Written(m, n), 1, k)) = k
        /\ Counts(SubSeq(Written(m, n), 1, k), m)
        /\ Deferred(m, n, k) \in Seq(Bytes)
        /\ Len(Deferred(m, n, k)) \in 0 .. n - k /\ Len(Deferred(m, n, k)) <= Capacity
        /\ k # n => Len(Deferred(m, n, k)) # 0
        /\ Counts(Deferred(m, n, k), m + k)
    BY <2>2, WriteSplits, Zenon
  <2> QED
    BY <2>1, <2>3
<1> HIDE DEF rest, head
<1>5. /\ sent' \in Seq(Bytes) /\ Len(sent') = accepted + k /\ Counts(sent', 0)
  <2>1. Counts(sent, 0) /\ Counts(head, Len(sent)) => Counts(sent \o head, 0)
    BY <1>2, <1>4, CountsOn, 0 \in Nat
  <2>2. sent \o head \in Seq(Bytes) /\ Len(sent \o head) = Len(sent) + Len(head)
    BY <1>2, <1>4, ConcatProperties
  <2> QED
    BY <1>1, <1>3, <1>4, <2>1, <2>2
<1>6. CASE ends = "want"
  <2>1. /\ buf' = ResetAndCopy(rest) /\ held' \in Records(rest)
        /\ accepted' = accepted + k + Len(rest) /\ k # n
    BY <1>1, <1>6
  <2>2. /\ buf' \in Buffers /\ Len(buf'.garray) <= Capacity
        /\ buf'.nextConsumeIndex <= Len(buf'.garray)
        /\ DataSize(buf') = Len(rest) /\ Len(Data(buf')) = Len(rest)
        /\ \A i \in 1 .. Len(rest) : Data(buf')[i] = rest[i]
    BY <1>4, <2>1, CopiedData
  <2>3. /\ held' \in Seq(Bytes) /\ Len(held') \in 1 .. Len(rest)
        /\ \A i \in 1 .. Len(held') : held'[i] = rest[i]
    BY <1>4, <2>1, RecordsBegin
  <2>4. accepted' \in 0 .. MaxBytes
    <3>1. /\ accepted \in Nat /\ n \in Nat /\ k \in Nat /\ MaxBytes \in Nat
          /\ Len(rest) \in Nat /\ Len(rest) <= n - k /\ accepted + n <= MaxBytes
      BY <1>1, <1>2, <1>4, SizesAssumption
    <3> QED
      BY <2>1, <3>1
  <2>5. \A i \in 1 .. Len(held') : i \in 1 .. Len(rest)
    BY <1>4, <2>3
  <2>6. Counts(Data(buf'), Len(sent'))
    BY <1>4, <1>5, <2>2 DEF Counts
  <2>7. OutputTypeOK'
    BY <1>1, <1>5, <2>2, <2>3, <2>4 DEF OutputTypeOK
  <2>8. OutputCounts'
    BY <1>1, <1>5, <1>6, <2>1, <2>2, <2>3, <2>5, <2>6 DEF OutputCounts
  <2> QED
    BY <2>7, <2>8 DEF OutputInv
<1>7. CASE ends # "want"
  <2>1. buf' = buf /\ held' = held /\ accepted' = accepted + k /\ io' # "want"
    BY <1>1, <1>2, <1>7
  <2>2. accepted' \in 0 .. MaxBytes
    BY <1>1, <1>2, <2>1, SizesAssumption
  <2>3. Counts(Data(buf'), Len(sent'))
    BY <1>2, <1>3, <2>1, DataIs DEF Counts
  <2>4. OutputTypeOK'
    BY <1>1, <1>2, <1>5, <2>1, <2>2 DEF OutputTypeOK
  <2>5. DataSize(buf') = 0 /\ Len(sent') + DataSize(buf') = accepted'
    BY <1>2, <1>3, <1>5, <2>1
  <2>6. OutputCounts'
    BY <1>5, <2>1, <2>3, <2>5 DEF OutputCounts
  <2> QED
    BY <2>4, <2>6 DEF OutputInv
<1> QED
  BY <1>6, <1>7

(* The deferred write: OpenSSL sends what it held, and maybe more.         *)
LEMMA RetryTakes ==
    ASSUME NEW bytes \in Seq(Bytes), NEW h \in Seq(Bytes), NEW k \in 0 .. Len(bytes),
           Len(h) <= Len(bytes), \A i \in 1 .. Len(h) : h[i] = bytes[i],
           k = 0 \/ k >= Len(h)
    PROVE  LET taken == IF k = 0 THEN <<>> ELSE h \o SubSeq(bytes, Len(h) + 1, k)
           IN  /\ taken \in Seq(Bytes) /\ Len(taken) = k
               /\ \A i \in 1 .. k : taken[i] = bytes[i]
<1> DEFINE more == SubSeq(bytes, Len(h) + 1, k)
<1>1. Len(bytes) \in Nat /\ Len(h) \in Nat
  OBVIOUS
<1>2. CASE k = 0
  <2>1. <<>> \in Seq(Bytes) /\ Len(<<>>) = 0
    BY EmptySeq
  <2> QED
    BY <1>2, <2>1
<1>3. CASE k # 0
  <2>1. Len(h) \in 0 .. Len(bytes) /\ k \in Len(h) .. Len(bytes)
    BY <1>1, <1>3
  <2>2. /\ more \in Seq(Bytes) /\ Len(more) = k - Len(h)
        /\ \A i \in 1 .. k - Len(h) : more[i] = bytes[Len(h) + i]
    BY <2>1, Cut, Zenon
  <2> HIDE DEF more
  <2>3. h \o more \in Seq(Bytes) /\ Len(h \o more) = Len(h) + Len(more)
    BY <2>2, ConcatProperties
  <2>4. Len(h \o more) = k
    BY <1>1, <2>2, <2>3
  <2>5. ASSUME NEW i \in 1 .. k PROVE (h \o more)[i] = bytes[i]
    <3>1. CASE i <= Len(h)
      <4>1. i \in 1 .. Len(h) /\ (h \o more)[i] = h[i]
        BY <1>1, <2>2, <3>1
      <4> QED
        BY <4>1
    <3>2. CASE ~(i <= Len(h))
      <4>1. PICK l \in 1 .. k - Len(h) : i = Len(h) + l
        <5>1. i - Len(h) \in 1 .. k - Len(h) /\ i = Len(h) + (i - Len(h))
          BY <1>1, <3>2
        <5> QED
          BY <5>1
      <4>2. (h \o more)[i] = more[l]
        BY <1>1, <2>2, <4>1
      <4> QED
        BY <2>2, <4>1, <4>2
    <3> QED
      BY <3>1, <3>2
  <2>6. /\ h \o more \in Seq(Bytes) /\ Len(h \o more) = k
        /\ \A i \in 1 .. k : (h \o more)[i] = bytes[i]
    BY <2>3, <2>4, <2>5
  <2> QED
    BY <1>3, <2>6, Zenon DEF more
<1> QED
  BY <1>2, <1>3

(* What is left of a buffer.                                               *)
LEMMA ConsumedData ==
    ASSUME NEW b \in Buffers, b.nextConsumeIndex <= Len(b.garray),
           NEW k \in 0 .. DataSize(b), NEW c, c = Consume(b, k)
    PROVE  /\ c \in Buffers /\ c.garray = b.garray /\ c.nextConsumeIndex <= Len(c.garray)
           /\ DataSize(c) = DataSize(b) - k /\ Len(Data(c)) = DataSize(b) - k
           /\ \A i \in 1 .. DataSize(b) - k : Data(c)[i] = Data(b)[k + i]
<1>1. PICK g \in Seq(Bytes), m \in Nat : b.garray = g /\ b.nextConsumeIndex = m
  BY DEF Buffers
<1>2. Len(g) \in Nat /\ m <= Len(g) /\ DataSize(b) = Len(g) - m
  BY <1>1 DEF DataSize
<1>3. c = [b EXCEPT !.nextConsumeIndex = m + k]
  BY <1>1 DEF Consume, Buffers
<1>4. m + k \in Nat /\ m + k <= Len(g)
  BY <1>2
<1>5. c \in Buffers /\ c.garray = g /\ c.nextConsumeIndex = m + k
  BY <1>1, <1>3, <1>4 DEF Buffers
<1>6. /\ DataSize(b) \in Nat
      /\ \A i \in 1 .. DataSize(b) : Data(b)[i] = g[m + i]
  BY <1>1, DataIs
<1>7. c.nextConsumeIndex <= Len(c.garray)
  BY <1>4, <1>5
<1>8. /\ Len(Data(c)) = DataSize(c) /\ DataSize(c) = Len(g) - (m + k)
      /\ \A i \in 1 .. DataSize(c) : Data(c)[i] = g[m + k + i]
  BY <1>5, <1>7, DataIs
<1>9. DataSize(c) = DataSize(b) - k
  BY <1>2, <1>8
<1>10. ASSUME NEW i \in 1 .. DataSize(b) - k PROVE Data(c)[i] = Data(b)[k + i]
  <2>1. k + i \in 1 .. DataSize(b) /\ m + k + i = m + (k + i)
    BY <1>6
  <2>2. Data(b)[k + i] = g[m + (k + i)] /\ Data(c)[i] = g[m + k + i]
    BY <1>6, <1>8, <1>9, <2>1
  <2> QED
    BY <2>1, <2>2
<1> QED
  BY <1>1, <1>5, <1>7, <1>8, <1>9, <1>10

(* The retry sends the record OpenSSL holds and more of the same bytes,    *)
(* and consumes as many as it took.                                        *)
LEMMA RetryWriteStep ==
    ASSUME OutputInv, NEW k \in 0 .. DataSize(buf), NEW ends \in {"idle", "want", "error"},
           RetryWrite(k, ends)
    PROVE  OutputInv'
<1> DEFINE bytes == Data(buf)
           taken == IF k = 0 THEN <<>> ELSE held \o SubSeq(bytes, Len(held) + 1, k)
<1>1. /\ io = "want" /\ (k = 0 \/ k >= Len(held))
      /\ k = Len(bytes) <=> ends = "idle"
      /\ io' = ends /\ sent' = sent \o taken /\ buf' = Consume(buf, k)
      /\ accepted' = accepted
  BY DEF RetryWrite
<1>2. /\ ends = "want" /\ k = 0 => held' = held
      /\ ends = "want" /\ k # 0 => held' \in Records(SubSeq(bytes, k + 1, Len(bytes)))
      /\ ends # "want" => held' = <<>>
  BY Zenon DEF RetryWrite
<1>3. /\ buf \in Buffers /\ Len(buf.garray) <= Capacity
      /\ buf.nextConsumeIndex <= Len(buf.garray)
      /\ held \in Seq(Bytes) /\ Len(held) \in Nat
      /\ sent \in Seq(Bytes) /\ Len(sent) \in Nat /\ accepted \in 0 .. MaxBytes
  BY DEF OutputInv, OutputTypeOK
<1>4. /\ bytes \in Seq(Bytes) /\ Len(bytes) = DataSize(buf) /\ DataSize(buf) \in Nat
  BY <1>3, DataIs
<1>5. /\ Counts(sent, 0)
      /\ Len(sent) + DataSize(buf) = accepted /\ Counts(bytes, Len(sent))
      /\ Len(held) <= DataSize(buf)
      /\ Len(held) \in 1 .. DataSize(buf)
      /\ \A i \in 1 .. Len(held) : held[i] = bytes[i]
  <2>1. io # "error"
    BY <1>1
  <2> QED
    BY <1>1, <1>4, <2>1 DEF OutputInv, OutputCounts
<1> HIDE DEF bytes
<1>6. taken \in Seq(Bytes) /\ Len(taken) = k /\ \A i \in 1 .. k : taken[i] = bytes[i]
  <2>1. PICK h \in Seq(Bytes) : h = held
    BY <1>3
  <2>2. LET t == IF k = 0 THEN <<>> ELSE h \o SubSeq(bytes, Len(h) + 1, k)
        IN  /\ t \in Seq(Bytes) /\ Len(t) = k
            /\ \A i \in 1 .. k : t[i] = bytes[i]
    <3>1. /\ k \in 0 .. Len(bytes) /\ Len(h) <= Len(bytes) /\ (k = 0 \/ k >= Len(h))
          /\ \A i \in 1 .. Len(h) : h[i] = bytes[i]
      BY <1>1, <1>4, <1>5, <2>1
    <3> QED
      BY <1>4, <3>1, RetryTakes, Zenon
  <2> QED
    BY <2>1, <2>2
<1> HIDE DEF taken
<1>7. /\ buf' \in Buffers /\ buf'.garray = buf.garray
      /\ buf'.nextConsumeIndex <= Len(buf'.garray)
      /\ DataSize(buf') = DataSize(buf) - k /\ Len(Data(buf')) = DataSize(buf) - k
      /\ \A i \in 1 .. DataSize(buf) - k : Data(buf')[i] = bytes[k + i]
  BY <1>1, <1>3, ConsumedData, Zenon DEF bytes
<1>8. sent' \in Seq(Bytes) /\ Len(sent') = Len(sent) + k /\ Counts(sent', 0)
  <2>1. Counts(taken, Len(sent))
    BY <1>4, <1>5, <1>6 DEF Counts
  <2>2. Counts(sent \o taken, 0)
    BY <1>3, <1>5, <1>6, <2>1, CountsOn, 0 \in Nat
  <2>3. sent \o taken \in Seq(Bytes) /\ Len(sent \o taken) = Len(sent) + Len(taken)
    BY <1>3, <1>6, ConcatProperties
  <2> QED
    BY <1>1, <1>6, <2>2, <2>3
<1>9. Len(sent') + DataSize(buf') = accepted'
  BY <1>1, <1>3, <1>4, <1>5, <1>7, <1>8
<1>10. Counts(Data(buf'), Len(sent'))
  <2>1. ASSUME NEW i \in 1 .. DataSize(buf) - k PROVE bytes[k + i] = Len(sent) + k + i
    <3>1. k + i \in 1 .. Len(bytes)
      BY <1>4
    <3>2. bytes[k + i] = Len(sent) + (k + i)
      BY <1>5, <3>1 DEF Counts
    <3> QED
      BY <1>3, <3>2
  <2> QED
    BY <1>7, <1>8, <2>1 DEF Counts
<1>11. /\ held' \in Seq(Bytes)
       /\ ends = "want" => /\ Len(held') \in 1 .. DataSize(buf')
                           /\ \A i \in 1 .. Len(held') : held'[i] = Data(buf')[i]
  <2>1. CASE ends = "want" /\ k = 0
    <3>1. held' = held /\ DataSize(buf') = DataSize(buf)
      BY <1>2, <1>4, <1>7, <2>1
    <3>2. ASSUME NEW i \in 1 .. Len(held) PROVE held[i] = Data(buf')[i]
      <4>1. i \in 1 .. DataSize(buf) - k /\ k + i = i
        BY <1>4, <1>5, <2>1
      <4> QED
        BY <1>5, <1>7, <4>1
    <3> QED
      BY <1>3, <1>5, <3>1, <3>2
  <2>2. CASE ends = "want" /\ k # 0
    <3> DEFINE left == SubSeq(bytes, k + 1, Len(bytes))
    <3>1. k \in 0 .. Len(bytes) /\ Len(bytes) \in k .. Len(bytes)
      BY <1>4
    <3>2. /\ left \in Seq(Bytes) /\ Len(left) = Len(bytes) - k
          /\ \A i \in 1 .. Len(bytes) - k : left[i] = bytes[k + i]
      BY <1>4, <3>1, Cut, Zenon
    <3>3. held' \in Records(left)
      BY <1>2, <2>2
    <3> HIDE DEF left
    <3>4. /\ held' \in Seq(Bytes) /\ Len(held') \in 1 .. Len(left)
          /\ \A i \in 1 .. Len(held') : held'[i] = left[i]
      BY <3>2, <3>3, RecordsBegin
    <3>5. Len(left) = DataSize(buf')
      BY <1>4, <1>7, <3>2
    <3>6. ASSUME NEW i \in 1 .. Len(held') PROVE held'[i] = Data(buf')[i]
      <4>1. i \in 1 .. Len(bytes) - k /\ i \in 1 .. DataSize(buf) - k
        BY <1>4, <3>2, <3>4
      <4> QED
        BY <1>7, <3>2, <3>4, <4>1
    <3> QED
      BY <3>4, <3>5, <3>6
  <2>3. CASE ends # "want"
    BY <1>2, <2>3, EmptySeq
  <2> QED
    BY <2>1, <2>2, <2>3
<1>12. ends = "idle" => DataSize(buf') = 0
  BY <1>1, <1>4, <1>7
<1>13. OutputTypeOK'
  BY <1>1, <1>3, <1>7, <1>8, <1>11 DEF OutputTypeOK
<1>14. OutputCounts'
  BY <1>1, <1>8, <1>9, <1>10, <1>11, <1>12 DEF OutputCounts
<1> QED
  BY <1>13, <1>14 DEF OutputInv

(* The socket hangs up, or the scope of the mode is left.                  *)
LEMMA HangUpStep ==
    ASSUME OutputInv, HangUp
    PROVE  OutputInv'
<1>1. /\ io' = "error" /\ held' = <<>>
      /\ buf' = buf /\ accepted' = accepted /\ sent' = sent
  BY DEF HangUp
<1>2. held' \in Seq(Bytes)
  BY <1>1, EmptySeq
<1>3. OutputTypeOK'
  BY <1>1, <1>2 DEF OutputInv, OutputTypeOK
<1>4. OutputCounts'
  BY <1>1 DEF OutputInv, OutputCounts, Counts
<1> QED
  BY <1>3, <1>4 DEF OutputInv

(* A buffer that was never set up holds nothing.                           *)
LEMMA NoOutput ==
    /\ NoBuf \in Buffers /\ Len(NoBuf.garray) <= Capacity
    /\ NoBuf.nextConsumeIndex <= Len(NoBuf.garray)
    /\ DataSize(NoBuf) = 0 /\ \A m : Counts(Data(NoBuf), m)
    /\ <<>> \in Seq(Bytes) /\ Len(<<>>) = 0 /\ Counts(<<>>, 0) /\ 0 \in 0 .. MaxBytes
<1>1. <<>> \in Seq(Bytes) /\ Len(<<>>) = 0
  BY EmptySeq
<1>2. NoBuf \in Buffers /\ NoBuf.garray = <<>> /\ NoBuf.nextConsumeIndex = 0
  BY <1>1 DEF NoBuf, Buffers
<1>3. Len(NoBuf.garray) <= Capacity /\ NoBuf.nextConsumeIndex <= Len(NoBuf.garray)
  BY <1>1, <1>2, SizesAssumption
<1>4. DataSize(NoBuf) = 0 /\ Len(Data(NoBuf)) = 0
  BY <1>1, <1>2, <1>3, DataIs
<1>5. \A m : Counts(Data(NoBuf), m)
  BY <1>4 DEF Counts
<1>6. Counts(<<>>, 0)
  BY <1>1 DEF Counts
<1>7. 0 \in 0 .. MaxBytes
  BY SizesAssumption
<1> QED
  BY <1>1, <1>2, <1>3, <1>4, <1>5, <1>6, <1>7

(* psl_io_buf_uninit: nothing is written, nothing is owed.                 *)
LEMMA LeaveOutputStep ==
    ASSUME LeaveCrypto
    PROVE  OutputInv'
<1>1. io' = "idle" /\ buf' = NoBuf /\ held' = <<>> /\ accepted' = 0 /\ sent' = <<>>
  BY DEF LeaveCrypto
<1>2. OutputTypeOK'
  BY <1>1, NoOutput DEF OutputTypeOK
<1>3. OutputCounts'
  <2>1. Len(sent') + DataSize(buf') = accepted'
    BY <1>1, NoOutput
  <2>2. DataSize(buf') = 0 /\ Counts(sent', 0) /\ Counts(Data(buf'), Len(sent'))
    BY <1>1, NoOutput
  <2>3. io' # "want"
    BY <1>1
  <2> QED
    BY <2>1, <2>2, <2>3 DEF OutputCounts
<1> QED
  BY <1>2, <1>3 DEF OutputInv

(* The verification does not touch the output.                             *)
LEMMA OutputStutters ==
    ASSUME OutputInv, UNCHANGED outVars
    PROVE  OutputInv'
<1>1. io' = io /\ buf' = buf /\ held' = held /\ accepted' = accepted /\ sent' = sent
  BY DEF outVars
<1> QED
  BY <1>1 DEF OutputInv, OutputTypeOK, OutputCounts, Counts

(* Every step keeps the half of the output.                                *)
LEMMA OutputStep ==
    ASSUME OutputInv, [Next]_vars
    PROVE  OutputInv'
<1>1. ASSUME NEW n \in 1 .. MaxWrite, NEW k \in 0 .. n, NEW ends \in {"idle", "want", "error"},
             Write(n, k, ends)
      PROVE  OutputInv'
  BY <1>1, WriteStep
<1>2. ASSUME NEW k \in 0 .. DataSize(buf), NEW ends \in {"idle", "want", "error"},
             RetryWrite(k, ends)
      PROVE  OutputInv'
  BY <1>2, RetryWriteStep
<1>3. CASE HangUp
  BY <1>3, HangUpStep
<1>4. CASE LeaveCrypto
  BY <1>4, LeaveOutputStep
<1>5. CASE UNCHANGED outVars
  BY <1>5, OutputStutters
<1>6. /\ \A c, h, p : StartHandshake(c, h, p) => UNCHANGED outVars
      /\ \A d, err : ReportsError(d, err) => UNCHANGED outVars
      /\ ReportsSuccess => UNCHANGED outVars
      /\ HandshakeDone \/ HandshakeFails \/ EnterSsl => UNCHANGED outVars
      /\ UNCHANGED vars => UNCHANGED outVars
  BY DEF StartHandshake, ReportsError, ReportsSuccess, HandshakeDone, HandshakeFails,
         EnterSsl, vars, outVars
<1> QED
  BY <1>1, <1>2, <1>3, <1>4, <1>5, <1>6 DEF Next

-----------------------------------------------------------------------------
(* The theorems.                                                           *)

(* Both halves hold in every state.                                        *)
LEMMA InvHolds == Spec => [](VerifyInv /\ OutputInv)
<1>1. Init => VerifyInv /\ OutputInv
  <2> SUFFICES ASSUME Init PROVE VerifyInv /\ OutputInv
    OBVIOUS
  <2>1. /\ stage = "idle" /\ conf = NoConf /\ host = NoHost /\ peer = NoPeer
        /\ todo = NoPeer.errors /\ level = -1 /\ verify = NotVerified
        /\ io = "idle" /\ buf = NoBuf /\ held = <<>> /\ accepted = 0 /\ sent = <<>>
    BY DEF Init
  <2>2. VerifyInv
    BY <2>1, ClosedInv
  <2>3. OutputTypeOK
    BY <2>1, NoOutput DEF OutputTypeOK
  <2>4. OutputCounts
    <3>1. Len(sent) + DataSize(buf) = accepted
      BY <2>1, NoOutput
    <3>2. DataSize(buf) = 0 /\ Counts(sent, 0) /\ Counts(Data(buf), Len(sent))
      BY <2>1, NoOutput
    <3>3. io # "want"
      BY <2>1
    <3> QED
      BY <3>1, <3>2, <3>3 DEF OutputCounts
  <2> QED
    BY <2>2, <2>3, <2>4 DEF OutputInv
<1>2. (VerifyInv /\ OutputInv) /\ [Next]_vars => (VerifyInv /\ OutputInv)'
  BY VerifyStep, OutputStep
<1> QED
  BY <1>1, <1>2, PTL DEF Spec

(* Type correctness: above all, the buffer never holds more than it may,   *)
(* and is never read past its end.                                         *)
THEOREM TypeAlwaysOK == Spec => []TypeOK
<1>1. VerifyInv /\ OutputInv => TypeOK
  BY DEF VerifyInv, VerifyTypeOK, OutputInv, OutputTypeOK, Buffers, TypeOK
<1> QED
  BY <1>1, InvHolds, PTL

(* What OpenSSL took and what is still buffered is what the user was told  *)
(* was written, in order, for any capacity and any writes                  *)
(* (crypto_handle_WRITE, crypto_process_deferred_ssl_io, psl_io_buf.h).    *)
THEOREM OutputAlwaysInOrder == Spec => []OutputInOrder
<1>1. OutputInv => OutputInOrder
  BY OutputReads DEF OutputInv
<1> QED
  BY <1>1, InvHolds, PTL

(* The host that the code matches is the host the certificate is for.      *)
LEMMA MatchIsFor ==
    ASSUME NEW h \in Hosts, NEW p \in Peers, VerifyHostname(h, p.names) = "match"
    PROVE  IsFor(p.names, h)
<1>1. /\ h.text \in Seq(Octets)
      /\ \A e \in p.names.san : e.name.text \in Seq(Octets)
      /\ \A c \in p.names.cn : c.name.text \in Seq(Octets)
  BY PartiesAssumption
<1> DEFINE Same(name) == IF IsIPAddr(h) THEN name.addr = h.addr
                                        ELSE SameLabels(name.text, h.text)
           relevant == {e \in p.names.san : Relevant(h, e)}
<1>2. ASSUME NEW name, name.text \in Seq(Octets), SameHost(h, name) PROVE Same(name)
  BY <1>1, <1>2, MatchIsDescribed DEF SameHost
<1>3. /\ h.text # <<>>
      /\ \/ InSubjAltName(h, p.names)
         \/ ~(\E e \in p.names.san : Relevant(h, e)) /\ InCommonName(h, p.names)
  BY DEF VerifyHostname
<1>4. CASE InSubjAltName(h, p.names)
  <2>1. PICK e \in p.names.san : Relevant(h, e) /\ SameHost(h, e.name)
    BY <1>4 DEF InSubjAltName
  <2>2. e \in relevant /\ Same(e.name)
    BY <1>1, <1>2, <2>1
  <2> QED
    BY <1>3, <2>2 DEF IsFor
<1>5. CASE relevant = {} /\ InCommonName(h, p.names)
  <2>1. PICK c \in p.names.cn : c.utf8 /\ SameHost(h, c.name)
    BY <1>5 DEF InCommonName
  <2>2. Same(c.name)
    BY <1>1, <1>2, <2>1
  <2> QED
    BY <1>3, <1>5, <2>1, <2>2 DEF IsFor
<1> QED
  BY <1>3, <1>4, <1>5

(* A client's handshake is done only with a peer whose every error was     *)
(* excused, and with the host that it asked for or one let pass            *)
(* (crypto_ssl_peer_verify_callback and the functions it calls).           *)
THEOREM PeerAlwaysTrusted == Spec => []PeerIsTrusted
<1>1. VerifyInv => PeerIsTrusted
  <2> SUFFICES ASSUME VerifyInv, stage = "verified", conf.kind = "client"
               PROVE  /\ \A d \in Depths : \A err \in peer.errors[d] :
                            err = "getCrl" \/ LetPass(d, err)
                      /\ conf.checkHostname => IsFor(peer.names, host) \/ LetPass(0, "name")
    BY DEF PeerIsTrusted
  <2>1. /\ peer \in Peers /\ host \in Hosts
        /\ \A d \in Depths : \A err \in peer.errors[d] \ todo[d] :
              err = "getCrl" \/ LetPass(d, err)
        /\ \A d \in Depths : d > level => todo[d] = {}
        /\ level = -1 /\ conf.checkHostname => HostMatches \/ LetPass(0, "name")
        /\ level = -1
    BY DEF VerifyInv, ChainInv
  <2>2. \A d \in Depths : todo[d] = {}
    BY <2>1 DEF Depths
  <2>3. HostMatches => IsFor(peer.names, host)
    BY <2>1, MatchIsFor DEF HostMatches
  <2> QED
    BY <2>1, <2>2, <2>3
<1> QED
  BY <1>1, InvHolds, PTL

(* The names that the run tries are matched as labels, as all names are    *)
(* (MatchIsDescribed, DescribedIsMatched).                                 *)
THEOREM NamesAlwaysMatchAsLabels == Spec => []NamesMatchAsLabels
<1>1. NamesMatchAsLabels
  <2> SUFFICES ASSUME NEW cn \in Texts({"a", "b", ".", "*"}, 6), NEW hn \in Texts({"A", "."}, 6)
               PROVE  CheckCertHostNameMatch(cn, hn)
                        <=> cn # <<>> /\ hn # <<>> /\ SameLabels(cn, hn)
    BY DEF NamesMatchAsLabels
  <2>1. /\ cn \in Seq(Octets) /\ hn \in Seq(Octets)
        /\ \A i \in 1 .. Len(hn) : hn[i] # "*"
    <3>1. PICK m \in 0 .. 6 : cn \in [1 .. m -> {"a", "b", ".", "*"}]
      BY DEF Texts
    <3>2. PICK n \in 0 .. 6 : hn \in [1 .. n -> {"A", "."}]
      BY DEF Texts
    <3>3. cn \in Seq(Octets)
      BY <3>1 DEF Octets
    <3>4. hn \in Seq(Octets) /\ Len(hn) = n
      BY <3>2 DEF Octets
    <3> QED
      BY <3>2, <3>3, <3>4
  <2>2. CheckCertHostNameMatch(cn, hn) => cn # <<>> /\ hn # <<>>
    BY DEF CheckCertHostNameMatch
  <2> QED
    BY <2>1, <2>2, MatchIsDescribed, DescribedIsMatched
<1> QED
  BY <1>1, PTL

(* The host that the certificate is for is one that the code matches, if   *)
(* no star is in its name.                                                 *)
LEMMA ForIsMatched ==
    ASSUME NEW h, h.text \in Seq(Octets), \A k \in 1 .. Len(h.text) : h.text[k] # "*",
           NEW names, \A e \in names.san : e.name.text \in Seq(Octets),
           \A c \in names.cn : c.name.text \in Seq(Octets),
           IsFor(names, h)
    PROVE  VerifyHostname(h, names) = "match"
<1> DEFINE Same(name) == IF IsIPAddr(h) THEN name.addr = h.addr
                                        ELSE SameLabels(name.text, h.text)
           relevant == {e \in names.san : Relevant(h, e)}
<1>1. /\ h.text # <<>>
      /\ IF relevant # {} THEN \E e \in relevant : Same(e.name)
                          ELSE \E c \in names.cn : c.utf8 /\ Same(c.name)
  BY Zenon DEF IsFor
<1>2. ASSUME NEW name, name.text \in Seq(Octets), Same(name) PROVE SameHost(h, name)
  <2>1. CASE IsIPAddr(h)
    BY <1>2, <2>1 DEF SameHost
  <2>2. CASE ~IsIPAddr(h)
    <3>1. SameLabels(name.text, h.text)
      BY <1>2, <2>2
    <3>2. name.text # <<>>
      <4> SUFFICES ASSUME name.text = <<>> PROVE FALSE
        OBVIOUS
      <4>1. Len(name.text) = 0 /\ Len(h.text) # 0
        BY <1>1, EmptySeq
      <4>2. SameText(name.text, h.text)
        <5>1. \/ SameText(name.text, h.text)
              \/ \E star \in 1 .. Len(name.text), end \in 1 .. Len(h.text) :
                    Stands(name.text, h.text, star, end)
          BY <1>2, <3>1, SameLabelsReads
        <5>2. 1 .. Len(name.text) = {}
          BY <4>1
        <5> QED
          BY <5>1, <5>2
      <4> QED
        BY <4>1, <4>2 DEF SameText
    <3> QED
      BY <1>1, <1>2, <2>2, <3>1, <3>2, DescribedIsMatched DEF SameHost
  <2> QED
    BY <2>1, <2>2
<1>3. CASE relevant # {}
  <2>1. PICK e \in relevant : Same(e.name)
    BY <1>1, <1>3
  <2>2. SameHost(h, e.name)
    BY <1>2, <2>1
  <2>3. InSubjAltName(h, names)
    BY <2>1, <2>2 DEF InSubjAltName
  <2> QED
    BY <1>1, <2>3 DEF VerifyHostname
<1>4. CASE relevant = {}
  <2>1. PICK c \in names.cn : c.utf8 /\ Same(c.name)
    BY <1>1, <1>4
  <2>2. SameHost(h, c.name)
    BY <1>2, <2>1
  <2>3. InCommonName(h, names)
    BY <2>1, <2>2 DEF InCommonName
  <2> QED
    BY <1>1, <1>4, <2>3 DEF VerifyHostname
<1> QED
  BY <1>3, <1>4

(* A refusal has a code for who asks, an acceptance has none, and without  *)
(* a callback of the user's a peer is refused only for an error that       *)
(* nothing excuses or for not being the host; unless a host's name has a   *)
(* star, which a certificate's star then has to match literally.           *)
THEOREM VerdictAlwaysTold ==
    ASSUME \A h \in Hosts : \A k \in 1 .. Len(h.text) : h.text[k] # "*"
    PROVE  Spec => []VerdictIsTold
<1>1. VerifyInv => VerdictIsTold
  <2> SUFFICES ASSUME VerifyInv PROVE VerdictIsTold
    OBVIOUS
  <2>1. stage = "refused" => PeerCertVerifyErr # "none"
    BY DEF VerifyInv, VerdictInv, PeerCertVerifyErr
  <2>2. stage \in {"verified", "ssl"} => PeerCertVerifyErr = "none"
    BY DEF VerifyInv, VerdictInv, PeerCertVerifyErr
  <2>3. ASSUME stage = "refused", ~conf.verifyCb
        PROVE  \/ \E d \in Depths :
                     ~(peer.errors[d] \subseteq {"getCrl"}) /\ ~LetPass(d, "expired")
               \/ conf.checkHostname /\ ~IsFor(peer.names, host)
    <3>1. /\ verify.waived = {}
          /\ \/ \E d \in Depths : "expired" \in peer.errors[d] /\ ~Installed(d)
             \/ conf.checkHostname /\ ~HostMatches
          /\ host \in Hosts \cup {NoHost} /\ peer \in Peers \cup {NoPeer}
      BY <2>3 DEF VerifyInv, VerdictInv, VerifyTypeOK
    <3>2. CASE \E d \in Depths : "expired" \in peer.errors[d] /\ ~Installed(d)
      <4>1. PICK d \in Depths : "expired" \in peer.errors[d] /\ ~Installed(d)
        BY <3>2
      <4>2. ~LetPass(d, "expired")
        BY <3>1, <4>1 DEF LetPass, Installed
      <4> QED
        BY <4>1, <4>2
    <3>3. CASE conf.checkHostname /\ ~HostMatches
      <4>1. host.text \in Seq(Octets) /\ \A k \in 1 .. Len(host.text) : host.text[k] # "*"
        <5>1. CASE host \in Hosts
          BY <5>1, PartiesAssumption
        <5>2. CASE host = NoHost
          <6>1. host.text = <<>>
            BY <5>2 DEF NoHost, Name
          <6> QED
            BY <6>1, EmptySeq
        <5> QED
          BY <3>1, <5>1, <5>2
      <4>2. /\ \A e \in peer.names.san : e.name.text \in Seq(Octets)
            /\ \A c \in peer.names.cn : c.name.text \in Seq(Octets)
        BY <3>1, PartiesAssumption DEF NoPeer
      <4>3. ~IsFor(peer.names, host)
        BY <3>3, <4>1, <4>2, ForIsMatched DEF HostMatches
      <4> QED
        BY <3>3, <4>3
    <3> QED
      BY <3>1, <3>2, <3>3
  <2> QED
    BY <2>1, <2>2, <2>3 DEF VerdictIsTold
<1> QED
  BY <1>1, InvHolds, PTL
=============================================================================
