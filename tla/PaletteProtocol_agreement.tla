---------------------- MODULE PaletteProtocol_agreement ----------------------
(* Two proofs for every value of the constants. A quiet system agrees: once    *)
(* all messages are handled, an active transaction of a ready session is the   *)
(* one the helper shows. And where palettes close after a selection and every  *)
(* envelope is sent, no palette stays without a transaction. The invariants    *)
(* say what each message in flight means: which Hello, Welcome, Show, report   *)
(* or notice still counts, and what the addon still waits for.                 *)
EXTENDS PaletteProtocol_proofs

USE ContextAssumption, BoundAssumption, AddonAssumption, HelperAssumption
    DEF ContextAssumption, BoundAssumption, AddonAssumption, HelperAssumption

(***************************************************************************)
(* What a queue of the addon holds.                                        *)
(***************************************************************************)

\* Behind the place k comes the notice that `o` is gone.
GoneIn(q, o, k) ==
  \E j \in DOMAIN q : j > k /\ q[j].kind = "OwnerGone" /\ q[j].from = o

\* A frame of `o` that ends the transaction t.
AnsweredIn(q, t, o) ==
  \E i \in DOMAIN q : /\ q[i].kind \in {"Selected", "Cancelled"}
                      /\ q[i].transaction = t /\ q[i].from = o

\* No Welcome to a call from f on.
WelcomesBelow(q, f) == \A i \in DOMAIN q : q[i].kind = "Welcome" => q[i].call < f

\* A Welcome to the call p comes from the helper `peer`, or the notice that its
\* helper is gone comes behind it.
TrueWelcomes(q, p, peer) ==
  \A i \in DOMAIN q :
    q[i].kind = "Welcome" /\ q[i].call = p => GoneIn(q, q[i].from, i) \/ q[i].from = peer

LEMMA TailPlaces ==
  ASSUME NEW S, NEW q \in Seq(S), q # <<>>
  PROVE  /\ 1 \in DOMAIN q /\ q[1] = Head(q)
         /\ \A i \in DOMAIN Tail(q) : i \in Nat /\ i + 1 \in DOMAIN q /\ Tail(q)[i] = q[i + 1]
         /\ \A i \in DOMAIN q : i # 1 => i - 1 \in DOMAIN Tail(q) /\ Tail(q)[i - 1] = q[i]
         /\ \A i \in DOMAIN q : i \in Nat /\ i # 0
OBVIOUS

LEMMA AppendPlaces ==
  ASSUME NEW S, NEW q \in Seq(S), NEW m
  PROVE  /\ Len(q) \in Nat /\ Append(q, m)[Len(q) + 1] = m
         /\ DOMAIN Append(q, m) = DOMAIN q \cup {Len(q) + 1}
         /\ \A i \in DOMAIN q : /\ Append(q, m)[i] = q[i]
                                /\ i \in Nat /\ i # 0 /\ i < Len(q) + 1
OBVIOUS

\* Taking the head of the addon's queue.
LEMMA AddonTail ==
  ASSUME NEW q \in Seq(ToAddon), q # <<>>
  PROVE  /\ \A o : \A k \in Nat : GoneIn(q, o, k + 1) => GoneIn(Tail(q), o, k)
         /\ \A o : GoneIn(q, o, 0) /\ ~(Head(q).kind = "OwnerGone" /\ Head(q).from = o)
                     => GoneIn(Tail(q), o, 0)
         /\ \A t, o : AnsweredIn(q, t, o) /\ ~(/\ Head(q).kind \in {"Selected", "Cancelled"}
                                               /\ Head(q).transaction = t /\ Head(q).from = o)
                        => AnsweredIn(Tail(q), t, o)
         /\ \A f : WelcomesBelow(q, f) => WelcomesBelow(Tail(q), f)
         /\ \A p, peer : TrueWelcomes(q, p, peer) => TrueWelcomes(Tail(q), p, peer)
<1> DEFINE r == Tail(q)
<1>1. /\ 1 \in DOMAIN q /\ q[1] = Head(q)
      /\ \A i \in DOMAIN r : i \in Nat /\ i + 1 \in DOMAIN q /\ r[i] = q[i + 1]
      /\ \A i \in DOMAIN q : i # 1 => i - 1 \in DOMAIN r /\ r[i - 1] = q[i]
      /\ \A i \in DOMAIN q : i \in Nat /\ i # 0
  BY TailPlaces
<1> HIDE DEF r
<1>2. \A o : \A k \in Nat : GoneIn(q, o, k + 1) => GoneIn(r, o, k)
  <2> SUFFICES ASSUME NEW o, NEW k \in Nat, GoneIn(q, o, k + 1) PROVE GoneIn(r, o, k)
    OBVIOUS
  <2>1. PICK j \in DOMAIN q : j > k + 1 /\ q[j].kind = "OwnerGone" /\ q[j].from = o
    BY DEF GoneIn
  <2>2. j - 1 \in DOMAIN r /\ r[j - 1] = q[j] /\ j - 1 > k
    BY <1>1, <2>1
  <2> QED
    BY <2>1, <2>2 DEF GoneIn
<1>3. ASSUME NEW o, GoneIn(q, o, 0), ~(Head(q).kind = "OwnerGone" /\ Head(q).from = o)
      PROVE  GoneIn(r, o, 0)
  <2>1. PICK j \in DOMAIN q : q[j].kind = "OwnerGone" /\ q[j].from = o
    BY <1>3 DEF GoneIn
  <2>2. j - 1 \in DOMAIN r /\ r[j - 1] = q[j] /\ j - 1 > 0
    BY <1>1, <1>3, <2>1
  <2> QED
    BY <2>1, <2>2 DEF GoneIn
<1>4. ASSUME NEW t, NEW o, AnsweredIn(q, t, o),
             ~(/\ Head(q).kind \in {"Selected", "Cancelled"}
               /\ Head(q).transaction = t /\ Head(q).from = o)
      PROVE  AnsweredIn(r, t, o)
  BY <1>1, <1>4 DEF AnsweredIn
<1>5. \A f : WelcomesBelow(q, f) => WelcomesBelow(r, f)
  BY <1>1 DEF WelcomesBelow
<1>6. ASSUME NEW p, NEW peer, TrueWelcomes(q, p, peer)
      PROVE  TrueWelcomes(r, p, peer)
  <2> SUFFICES ASSUME NEW i \in DOMAIN r, r[i].kind = "Welcome", r[i].call = p
               PROVE  GoneIn(r, r[i].from, i) \/ r[i].from = peer
    BY DEF TrueWelcomes
  <2>1. i \in Nat /\ i + 1 \in DOMAIN q /\ r[i] = q[i + 1]
    BY <1>1
  <2>2. GoneIn(q, q[i + 1].from, i + 1) \/ q[i + 1].from = peer
    BY <1>6, <2>1 DEF TrueWelcomes
  <2> QED
    BY <1>2, <2>1, <2>2
<1> QED
  BY <1>2, <1>3, <1>4, <1>5, <1>6 DEF r

\* A frame or notice more.
LEMMA AddonAppend ==
  ASSUME NEW q \in Seq(ToAddon), NEW m
  PROVE  /\ \A o, k : GoneIn(q, o, k) => GoneIn(Append(q, m), o, k)
         /\ m.kind = "OwnerGone" => \A k \in 0 .. Len(q) : GoneIn(Append(q, m), m.from, k)
         /\ \A t, o : AnsweredIn(q, t, o) => AnsweredIn(Append(q, m), t, o)
         /\ m.kind \in {"Selected", "Cancelled"}
              => AnsweredIn(Append(q, m), m.transaction, m.from)
         /\ \A f : WelcomesBelow(q, f) /\ (m.kind = "Welcome" => m.call < f)
                     => WelcomesBelow(Append(q, m), f)
         /\ \A p, peer : TrueWelcomes(q, p, peer)
                           /\ (m.kind = "Welcome" /\ m.call = p => m.from = peer)
                             => TrueWelcomes(Append(q, m), p, peer)
         /\ \A p, peer : TrueWelcomes(q, p, peer) /\ m.kind = "OwnerGone" /\ m.from = peer
                           => \A other : TrueWelcomes(Append(q, m), p, other)
<1> DEFINE r == Append(q, m)
           n == Len(q) + 1
<1>1. /\ n \in Nat /\ Len(q) \in Nat /\ n > Len(q) /\ r[n] = m
      /\ DOMAIN r = DOMAIN q \cup {n}
      /\ \A i \in DOMAIN q : r[i] = q[i] /\ i \in Nat /\ i # 0 /\ i < n
  BY AppendPlaces
<1> HIDE DEF r, n
<1>2. \A o, k : GoneIn(q, o, k) => GoneIn(r, o, k)
  BY <1>1 DEF GoneIn
<1>3. m.kind = "OwnerGone" => \A k \in 0 .. Len(q) : GoneIn(r, m.from, k)
  BY <1>1 DEF GoneIn
<1>4. /\ \A t, o : AnsweredIn(q, t, o) => AnsweredIn(r, t, o)
      /\ m.kind \in {"Selected", "Cancelled"} => AnsweredIn(r, m.transaction, m.from)
  BY <1>1 DEF AnsweredIn
<1>5. \A f : WelcomesBelow(q, f) /\ (m.kind = "Welcome" => m.call < f) => WelcomesBelow(r, f)
  BY <1>1 DEF WelcomesBelow
<1>6. ASSUME NEW p, NEW peer, TrueWelcomes(q, p, peer),
             m.kind = "Welcome" /\ m.call = p => m.from = peer
      PROVE  TrueWelcomes(r, p, peer)
  BY <1>1, <1>2, <1>6 DEF TrueWelcomes
<1>7. ASSUME NEW p, NEW peer, TrueWelcomes(q, p, peer), m.kind = "OwnerGone", m.from = peer
      PROVE  \A other : TrueWelcomes(r, p, other)
  <2>1. \A i \in DOMAIN q : GoneIn(r, m.from, i)
    BY <1>1, <1>3, <1>7
  <2> QED
    BY <1>1, <1>2, <1>7, <2>1 DEF TrueWelcomes
<1> QED
  BY <1>2, <1>3, <1>4, <1>5, <1>6, <1>7 DEF r

(***************************************************************************)
(* What a queue of the helper holds.                                       *)
(***************************************************************************)

\* Nothing but messages of these kinds from the addon n.
OnlyHears(q, n, kinds) ==
  \A i \in DOMAIN q : q[i].from = n /\ q[i].kind \in kinds

NoShowAfter(q, k) == \A j \in DOMAIN q : j > k => q[j].kind # "Show"

\* The last Show is for the transaction t and has the option's value.
SentIn(q, t, close) ==
  \E i \in DOMAIN q : /\ q[i].kind = "Show" /\ q[i].transaction = t
                      /\ q[i].closeAfterSelection = close /\ NoShowAfter(q, i)

\* No identifier from f on is called for, commanded in or hidden.
CallsBelow(q, f) ==
  \A i \in DOMAIN q :
    /\ q[i].kind = "Hello" => q[i].nonce < f
    /\ q[i].kind \in {"Command", "Hide"} => q[i].transaction < f

NoHideOf(q, t) == \A i \in DOMAIN q : q[i].kind = "Hide" => q[i].transaction # t

CommandsUpTo(q, t, n) ==
  \A i \in DOMAIN q : q[i].kind = "Command" /\ q[i].transaction = t => q[i].sequence <= n

\* Behind the Hello for the call p, which is the addon n's, come only its commands.
HelloIsLast(q, p, n) ==
  \A i \in DOMAIN q :
    q[i].kind = "Hello" /\ q[i].nonce = p =>
      /\ q[i].from = n
      /\ \A j \in DOMAIN q : j > i => q[j].from = n /\ q[j].kind = "Command"

\* What is true of a queue whatever its length stays true when its front goes.
LEMMA HelperCut ==
  ASSUME NEW q \in Seq(ToHelper), NEW r \in Seq(ToHelper), NEW k \in Nat,
         \A i \in DOMAIN r : i + k \in DOMAIN q /\ r[i] = q[i + k]
  PROVE  /\ \A n, kinds : OnlyHears(q, n, kinds) => OnlyHears(r, n, kinds)
         /\ NoShowAfter(q, 0) => NoShowAfter(r, 0)
         /\ \A f : CallsBelow(q, f) => CallsBelow(r, f)
         /\ \A t : NoHideOf(q, t) => NoHideOf(r, t)
         /\ \A t, n : CommandsUpTo(q, t, n) => CommandsUpTo(r, t, n)
         /\ \A p, n : HelloIsLast(q, p, n) => HelloIsLast(r, p, n)
<1>1. \A i \in DOMAIN r : i \in Nat /\ i + k \in DOMAIN q /\ r[i] = q[i + k] /\ (i > 0 => i + k > 0)
  OBVIOUS
<1>2. \A i, j \in DOMAIN r : j > i => j + k > i + k
  BY <1>1
<1>3. ASSUME NEW p, NEW n, HelloIsLast(q, p, n)
      PROVE  HelloIsLast(r, p, n)
  BY <1>1, <1>2, <1>3 DEF HelloIsLast
<1> QED
  BY <1>1, <1>3 DEF OnlyHears, NoShowAfter, CallsBelow, NoHideOf, CommandsUpTo

\* Taking the head.
LEMMA HelperTail ==
  ASSUME NEW q \in Seq(ToHelper), q # <<>>
  PROVE  /\ \A n, kinds : OnlyHears(q, n, kinds) =>
              OnlyHears(Tail(q), n, kinds) /\ Head(q).from = n /\ Head(q).kind \in kinds
         /\ NoShowAfter(q, 0) => NoShowAfter(Tail(q), 0) /\ Head(q).kind # "Show"
         /\ \A f : CallsBelow(q, f) =>
              CallsBelow(Tail(q), f) /\ (Head(q).kind = "Hello" => Head(q).nonce < f)
         /\ \A t : NoHideOf(q, t) =>
              NoHideOf(Tail(q), t) /\ ~(Head(q).kind = "Hide" /\ Head(q).transaction = t)
         /\ \A t, n : CommandsUpTo(q, t, n) =>
              /\ CommandsUpTo(Tail(q), t, n)
              /\ Head(q).kind = "Command" /\ Head(q).transaction = t => Head(q).sequence <= n
         /\ \A p, n : HelloIsLast(q, p, n) =>
              /\ HelloIsLast(Tail(q), p, n)
              /\ Head(q).kind = "Hello" /\ Head(q).nonce = p
                   => Head(q).from = n /\ OnlyHears(Tail(q), n, {"Command"})
         /\ \A t, close : SentIn(q, t, close) =>
              \/ SentIn(Tail(q), t, close)
              \/ /\ Head(q).kind = "Show" /\ Head(q).transaction = t
                 /\ Head(q).closeAfterSelection = close /\ NoShowAfter(Tail(q), 0)
<1> DEFINE r == Tail(q)
<1>1. /\ 1 \in DOMAIN q /\ q[1] = Head(q)
      /\ \A i \in DOMAIN r : i \in Nat /\ i + 1 \in DOMAIN q /\ r[i] = q[i + 1]
      /\ \A i \in DOMAIN q : i # 1 => i - 1 \in DOMAIN r /\ r[i - 1] = q[i]
      /\ \A i \in DOMAIN q : i \in Nat /\ i # 0
  BY TailPlaces
<1>2. /\ \A n, kinds : OnlyHears(q, n, kinds) => OnlyHears(r, n, kinds)
      /\ NoShowAfter(q, 0) => NoShowAfter(r, 0)
      /\ \A f : CallsBelow(q, f) => CallsBelow(r, f)
      /\ \A t : NoHideOf(q, t) => NoHideOf(r, t)
      /\ \A t, n : CommandsUpTo(q, t, n) => CommandsUpTo(r, t, n)
      /\ \A p, n : HelloIsLast(q, p, n) => HelloIsLast(r, p, n)
  <2>1. r \in Seq(ToHelper)
    OBVIOUS
  <2> QED
    BY <1>1, <2>1, HelperCut
<1> HIDE DEF r
<1>3. /\ \A n, kinds : OnlyHears(q, n, kinds) => Head(q).from = n /\ Head(q).kind \in kinds
      /\ NoShowAfter(q, 0) => Head(q).kind # "Show"
      /\ \A f : CallsBelow(q, f) => (Head(q).kind = "Hello" => Head(q).nonce < f)
      /\ \A t : NoHideOf(q, t) => ~(Head(q).kind = "Hide" /\ Head(q).transaction = t)
      /\ \A t, n : CommandsUpTo(q, t, n) =>
           (Head(q).kind = "Command" /\ Head(q).transaction = t => Head(q).sequence <= n)
  BY <1>1 DEF OnlyHears, NoShowAfter, CallsBelow, NoHideOf, CommandsUpTo
<1>4. ASSUME NEW p, NEW n, HelloIsLast(q, p, n), Head(q).kind = "Hello", Head(q).nonce = p
      PROVE  Head(q).from = n /\ OnlyHears(r, n, {"Command"})
  <2>1. Head(q).from = n /\ \A j \in DOMAIN q : j > 1 => q[j].from = n /\ q[j].kind = "Command"
    BY <1>1, <1>4 DEF HelloIsLast
  <2>2. \A i \in DOMAIN r : i + 1 > 1 /\ i + 1 \in DOMAIN q /\ r[i] = q[i + 1]
    <3>1. \A i \in DOMAIN r : i # 0
      BY DEF r
    <3> QED
      BY <1>1, <3>1
  <2> QED
    BY <2>1, <2>2 DEF OnlyHears
<1>5. ASSUME NEW t, NEW close, SentIn(q, t, close)
      PROVE  \/ SentIn(r, t, close)
             \/ /\ Head(q).kind = "Show" /\ Head(q).transaction = t
                /\ Head(q).closeAfterSelection = close /\ NoShowAfter(r, 0)
  <2>1. PICK i \in DOMAIN q : /\ q[i].kind = "Show" /\ q[i].transaction = t
                              /\ q[i].closeAfterSelection = close /\ NoShowAfter(q, i)
    BY <1>5 DEF SentIn
  <2>2. CASE i = 1
    <3>1. NoShowAfter(r, 0)
      BY <1>1, <2>1, <2>2 DEF NoShowAfter
    <3> QED
      BY <1>1, <2>1, <2>2, <3>1
  <2>3. CASE i # 1
    <3>1. i - 1 \in DOMAIN r /\ r[i - 1] = q[i]
      BY <1>1, <2>3
    <3>2. NoShowAfter(r, i - 1)
      <4> SUFFICES ASSUME NEW j \in DOMAIN r, j > i - 1 PROVE r[j].kind # "Show"
        BY DEF NoShowAfter
      <4>1. j + 1 \in DOMAIN q /\ r[j] = q[j + 1] /\ j + 1 > i
        BY <1>1
      <4> QED
        BY <2>1, <4>1 DEF NoShowAfter
    <3> QED
      BY <2>1, <3>1, <3>2 DEF SentIn
  <2> QED
    BY <2>2, <2>3
<1>6. \A p, n : HelloIsLast(q, p, n) =>
        (Head(q).kind = "Hello" /\ Head(q).nonce = p
           => Head(q).from = n /\ OnlyHears(r, n, {"Command"}))
  BY <1>4
<1>7. \A t, close : SentIn(q, t, close) =>
        \/ SentIn(r, t, close)
        \/ /\ Head(q).kind = "Show" /\ Head(q).transaction = t
           /\ Head(q).closeAfterSelection = close /\ NoShowAfter(r, 0)
  BY <1>5
<1> QED
  BY <1>2, <1>3, <1>6, <1>7 DEF r

\* A message more.
LEMMA HelperAppend ==
  ASSUME NEW q \in Seq(ToHelper), NEW m
  PROVE  /\ \A n, kinds : OnlyHears(q, n, kinds) /\ m.from = n /\ m.kind \in kinds
                            => OnlyHears(Append(q, m), n, kinds)
         /\ NoShowAfter(q, 0) /\ m.kind # "Show" => NoShowAfter(Append(q, m), 0)
         /\ \A f : CallsBelow(q, f) /\ (m.kind = "Hello" => m.nonce < f)
                     /\ (m.kind \in {"Command", "Hide"} => m.transaction < f)
                       => CallsBelow(Append(q, m), f)
         /\ \A t : NoHideOf(q, t) /\ (m.kind = "Hide" => m.transaction # t)
                     => NoHideOf(Append(q, m), t)
         /\ \A t, n : CommandsUpTo(q, t, n)
                        /\ (m.kind = "Command" /\ m.transaction = t => m.sequence <= n)
                          => CommandsUpTo(Append(q, m), t, n)
         /\ \A p, n : HelloIsLast(q, p, n) /\ m.kind = "Command" /\ m.from = n
                        => HelloIsLast(Append(q, m), p, n)
         /\ \A t, close : SentIn(q, t, close) /\ m.kind # "Show"
                            => SentIn(Append(q, m), t, close)
         /\ m.kind = "Show" => SentIn(Append(q, m), m.transaction, m.closeAfterSelection)
<1> DEFINE r == Append(q, m)
           n == Len(q) + 1
<1>1. /\ n \in Nat /\ n # 0 /\ r[n] = m
      /\ DOMAIN r = DOMAIN q \cup {n}
      /\ \A i \in DOMAIN q : r[i] = q[i] /\ i \in Nat /\ i # 0 /\ i < n
  BY AppendPlaces
<1> HIDE DEF r, n
<1>2. \A a, kinds : OnlyHears(q, a, kinds) /\ m.from = a /\ m.kind \in kinds
                      => OnlyHears(r, a, kinds)
  BY <1>1 DEF OnlyHears
<1>3. NoShowAfter(q, 0) /\ m.kind # "Show" => NoShowAfter(r, 0)
  BY <1>1 DEF NoShowAfter
<1>4. \A f : CallsBelow(q, f) /\ (m.kind = "Hello" => m.nonce < f)
               /\ (m.kind \in {"Command", "Hide"} => m.transaction < f)
                 => CallsBelow(r, f)
  BY <1>1 DEF CallsBelow
<1>5. \A t : NoHideOf(q, t) /\ (m.kind = "Hide" => m.transaction # t) => NoHideOf(r, t)
  BY <1>1 DEF NoHideOf
<1>6. \A t, a : CommandsUpTo(q, t, a)
                  /\ (m.kind = "Command" /\ m.transaction = t => m.sequence <= a)
                    => CommandsUpTo(r, t, a)
  BY <1>1 DEF CommandsUpTo
<1>7. \A p, a : HelloIsLast(q, p, a) /\ m.kind = "Command" /\ m.from = a
                  => HelloIsLast(r, p, a)
  BY <1>1 DEF HelloIsLast
<1>8. ASSUME NEW t, NEW close, SentIn(q, t, close), m.kind # "Show"
      PROVE  SentIn(r, t, close)
  <2>1. PICK i \in DOMAIN q : /\ q[i].kind = "Show" /\ q[i].transaction = t
                              /\ q[i].closeAfterSelection = close /\ NoShowAfter(q, i)
    BY <1>8 DEF SentIn
  <2>2. NoShowAfter(r, i)
    BY <1>1, <1>8, <2>1 DEF NoShowAfter
  <2> QED
    BY <1>1, <2>1, <2>2 DEF SentIn
<1>9. m.kind = "Show" => SentIn(r, m.transaction, m.closeAfterSelection)
  BY <1>1 DEF SentIn, NoShowAfter
<1> QED
  BY <1>2, <1>3, <1>4, <1>5, <1>6, <1>7, <1>8, <1>9 DEF r

\* No message names the identifier 0, nor one that is not drawn yet.
LEMMA NamesNothing ==
  ASSUME NEW q \in Seq(ToHelper), NEW r \in Seq(ToAddon)
  PROVE  /\ NoHideOf(q, 0) /\ \A n : CommandsUpTo(q, 0, n) /\ HelloIsLast(q, 0, n)
         /\ \A peer : TrueWelcomes(r, 0, peer)
         /\ \A p, peer : TrueWelcomes(r, p, 0) => TrueWelcomes(r, p, peer)
<1>1. \A i \in DOMAIN q : /\ q[i].kind = "Hello" => q[i].nonce # 0
                          /\ q[i].kind \in {"Command", "Hide"} => q[i].transaction # 0
  <2>1. \A m \in ToHelper : /\ m.kind = "Hello" => m.nonce \in Txns
                            /\ m.kind \in {"Command", "Hide"} => m.transaction \in Txns
    BY DEF ToHelper
  <2>2. \A i \in DOMAIN q : q[i] \in ToHelper
    OBVIOUS
  <2>3. 0 \notin Txns
    BY DEF Txns
  <2> QED
    BY <2>1, <2>2, <2>3
<1>2. \A i \in DOMAIN r : r[i].kind = "Welcome" => r[i].call # 0 /\ r[i].from # 0
  <2>1. \A m \in ToAddon : m.kind = "Welcome" => m.call \in Txns /\ m.from \in HelperNames
    BY DEF ToAddon
  <2>2. \A i \in DOMAIN r : r[i] \in ToAddon
    OBVIOUS
  <2>3. 0 \notin Txns /\ 0 \notin HelperNames
    BY DEF Txns, HelperNames
  <2> QED
    BY <2>1, <2>2, <2>3
<1> QED
  BY <1>1, <1>2 DEF NoHideOf, CommandsUpTo, HelloIsLast, TrueWelcomes

LEMMA FreshIsUnnamed ==
  ASSUME NEW q, NEW r, NEW f \in Nat, CallsBelow(q, f), WelcomesBelow(r, f)
  PROVE  /\ NoHideOf(q, f) /\ \A n : CommandsUpTo(q, f, n) /\ HelloIsLast(q, f, n)
         /\ \A peer : TrueWelcomes(r, f, peer)
BY DEF CallsBelow, WelcomesBelow, NoHideOf, CommandsUpTo, HelloIsLast, TrueWelcomes

\* The bound may rise.
LEMMA BelowMore ==
  ASSUME NEW q \in Seq(ToHelper), NEW r \in Seq(ToAddon), NEW f \in Nat,
         CallsBelow(q, f), WelcomesBelow(r, f)
  PROVE  CallsBelow(q, f + 1) /\ WelcomesBelow(r, f + 1)
<1>1. \A i \in DOMAIN q : /\ q[i].kind = "Hello" => q[i].nonce \in Nat
                          /\ q[i].kind \in {"Command", "Hide"} => q[i].transaction \in Nat
  <2>1. \A m \in ToHelper : /\ m.kind = "Hello" => m.nonce \in Txns
                            /\ m.kind \in {"Command", "Hide"} => m.transaction \in Txns
    BY DEF ToHelper
  <2>2. \A i \in DOMAIN q : q[i] \in ToHelper
    OBVIOUS
  <2> QED
    BY <2>1, <2>2 DEF Txns
<1>2. \A i \in DOMAIN r : r[i].kind = "Welcome" => r[i].call \in Nat
  <2>1. \A m \in ToAddon : m.kind = "Welcome" => m.call \in Txns
    BY DEF ToAddon
  <2>2. \A i \in DOMAIN r : r[i] \in ToAddon
    OBVIOUS
  <2> QED
    BY <2>1, <2>2 DEF Txns
<1> QED
  BY <1>1, <1>2 DEF CallsBelow, WelcomesBelow

LEMMA CommandsUpToMore ==
  ASSUME NEW q \in Seq(ToHelper), NEW t, NEW n \in Nat, CommandsUpTo(q, t, n)
  PROVE  CommandsUpTo(q, t, n + 1)
<1>1. \A i \in DOMAIN q : q[i].kind = "Command" => q[i].sequence \in Nat
  <2>1. \A m \in ToHelper : m.kind = "Command" => m.sequence \in CommandNumbers
    BY DEF ToHelper
  <2>2. \A i \in DOMAIN q : q[i] \in ToHelper
    OBVIOUS
  <2> QED
    BY <2>1, <2>2 DEF CommandNumbers
<1> QED
  BY <1>1 DEF CommandsUpTo

LEMMA HelloAppended ==
  ASSUME NEW q \in Seq(ToHelper), NEW f \in Nat, NEW n, CallsBelow(q, f)
  PROVE  HelloIsLast(Append(q, Hello(n, f)), f, n)
<1> DEFINE r == Append(q, Hello(n, f))
           k == Len(q) + 1
<1>1. /\ k \in Nat /\ r[k] = Hello(n, f) /\ DOMAIN r = DOMAIN q \cup {k}
      /\ \A i \in DOMAIN q : r[i] = q[i] /\ i \in Nat /\ i < k
  BY AppendPlaces
<1>2. Hello(n, f).from = n
  BY DEF Hello
<1> HIDE DEF r, k
<1>3. \A i \in DOMAIN r : r[i].kind = "Hello" /\ r[i].nonce = f => i = k
  BY <1>1 DEF CallsBelow
<1>4. \A j \in DOMAIN r : ~(j > k)
  BY <1>1
<1> QED
  BY <1>1, <1>2, <1>3, <1>4 DEF HelloIsLast, r

(***************************************************************************)
(* The inductive invariant.                                                *)
(***************************************************************************)

Ready == IsReady(addon.session)
Owner == addon.session.owner

\* The helper runs under the name `o` and has the addon for its peer.
Linked(o) ==
  helper.up /\ helper.name = o /\ helper.negotiated /\ helper.peerOwner = addon.name

\* The helper whose Welcome counts: it has the addon for its peer and keeps it.
HandshakePeer ==
  IF Linked(helper.name) /\ OnlyHears(toHelper, addon.name, {"Command"})
  THEN helper.name ELSE 0

\* Identifiers from `fresh` on are not in use.
Drawn ==
  /\ addon.transaction < fresh /\ addon.pendingCall < fresh
  /\ CallsBelow(toHelper, fresh) /\ WelcomesBelow(toAddon, fresh)

OnScreen ==
  /\ helper.visible /\ helper.transaction = addon.transaction
  /\ helper.closeAfterSelection = addon.closeAfterSelection
  /\ helper.validator.lastSequence <= addon.commandSequence
  /\ NoShowAfter(toHelper, 0)

\* The active transaction is on its way to the screen, on it, or on its way back.
Served ==
  \/ AnsweredIn(toAddon, addon.transaction, Owner)
  \/ SentIn(toHelper, addon.transaction, addon.closeAfterSelection)
  \/ OnScreen

Connected ==
  /\ Linked(Owner) /\ OnlyHears(toHelper, addon.name, {"Show", "Command", "Hide"})
  /\ Active => Served

\* A ready session has a living owner that serves it, or the addon will hear that
\* the owner is gone.
SessionIsTrue == Ready => addon.pendingCall = 0 /\ (GoneIn(toAddon, Owner, 0) \/ Connected)

InFlight ==
  /\ NoHideOf(toHelper, addon.transaction)
  /\ CommandsUpTo(toHelper, addon.transaction, addon.commandSequence)
  /\ HelloIsLast(toHelper, addon.pendingCall, addon.name)
  /\ TrueWelcomes(toAddon, addon.pendingCall, HandshakePeer)

AgreementInv == TypeInv /\ Drawn /\ InFlight /\ SessionIsTrue

\* What the agreement needs of the types.
LEMMA AgreementTypes ==
  ASSUME TypeInv
  PROVE  /\ fresh \in Nat /\ addon.transaction \in Nat /\ addon.pendingCall \in Nat
         /\ addon.commandSequence \in Nat /\ addon \in AddonRecords
         /\ helper \in HelperRecords
         /\ toHelper \in Seq(ToHelper) /\ toAddon \in Seq(ToAddon)
<1>1. /\ addon \in AddonRecords /\ helper \in HelperRecords
      /\ toHelper \in Seq(ToHelper) /\ toAddon \in Seq(ToAddon)
      /\ fresh \in 1 .. MaxTxn + 1
  BY DEF TypeInv, TypeOK
<1>2. /\ addon.transaction \in MaybeTxn /\ addon.pendingCall \in MaybeTxn
      /\ addon.commandSequence \in CommandNumbers
  BY <1>1 DEF AddonRecords
<1> QED
  BY <1>1, <1>2 DEF MaybeTxn, CommandNumbers

LEMMA AgreementInit ==
  ASSUME Init
  PROVE  AgreementInv
<1>1. TypeInv
  BY TypeInit
<1>2. /\ toHelper = <<>> /\ toAddon = <<>> /\ fresh = 1
      /\ addon.transaction = 0 /\ addon.pendingCall = 0
      /\ addon.session.state = "Disconnected"
  BY DEF Init, AddonInit, NewAddon, NewSession
<1>3. Drawn
  BY <1>2 DEF Drawn, CallsBelow, WelcomesBelow
<1>4. InFlight
  BY <1>1, <1>2, NamesNothing DEF InFlight, TypeInv, TypeOK
<1> QED
  BY <1>1, <1>2, <1>3, <1>4 DEF AgreementInv, SessionIsTrue, Ready, IsReady

(***************************************************************************)
(* What the invariant asks of the peer of the handshake.                   *)
(***************************************************************************)

\* A peer once found stays, and without one the notice is behind every Welcome.
LEMMA PeerStays ==
  ASSUME toHelper \in Seq(ToHelper), NEW r \in Seq(ToAddon), NEW p,
         TrueWelcomes(r, p, HandshakePeer),
         HandshakePeer # 0 => HandshakePeer' = HandshakePeer
  PROVE  TrueWelcomes(r, p, HandshakePeer')
<1>1. CASE HandshakePeer = 0
  BY <1>1, NamesNothing
<1>2. CASE HandshakePeer # 0
  BY <1>2
<1> QED
  BY <1>1, <1>2

LEMMA OnlyHearsMore ==
  ASSUME NEW q, NEW n, NEW few, NEW more, few \subseteq more, OnlyHears(q, n, few)
  PROVE  OnlyHears(q, n, more)
BY DEF OnlyHears

(***************************************************************************)
(* The shapes of the addon's steps, and the invariant through each.        *)
(***************************************************************************)

SameAddon == UNCHANGED helper /\ addon'.name = addon.name /\ addon'.session = addon.session

SameTransaction ==
  /\ addon'.transaction = addon.transaction
  /\ addon'.closeAfterSelection = addon.closeAfterSelection
  /\ addon'.commandSequence = addon.commandSequence

\* The addon hears nothing, or something that is no notice of a lost helper.
Hears ==
  /\ \A o : GoneIn(toAddon, o, 0) => GoneIn(toAddon', o, 0)
  /\ \A f : WelcomesBelow(toAddon, f) => WelcomesBelow(toAddon', f)
  /\ \A p, peer : TrueWelcomes(toAddon, p, peer) => TrueWelcomes(toAddon', p, peer)

KeepsAnswer ==
  Ready /\ Active /\ AnsweredIn(toAddon, addon.transaction, Owner)
    => AnsweredIn(toAddon', addon.transaction, Owner)

\* Nothing is said, except perhaps that the transaction is over.
SaysItIsOver ==
  /\ addon'.transaction = 0
  /\ \/ UNCHANGED toHelper
     \/ Ready /\ toHelper' = Append(toHelper, Hide(addon.name, addon.transaction))

AddonRests ==
  /\ SameAddon /\ Hears
  /\ fresh' \in {fresh, fresh + 1} /\ addon'.pendingCall \in {0, addon.pendingCall}
  /\ (SameTransaction /\ UNCHANGED toHelper /\ KeepsAnswer) \/ SaysItIsOver

AddonShows ==
  /\ SameAddon /\ Hears /\ Ready
  /\ fresh' = fresh + 1 /\ addon'.pendingCall = addon.pendingCall
  /\ addon'.transaction = fresh
  /\ toHelper' = Append(toHelper, Show(addon.name, fresh, addon'.closeAfterSelection))

\* A Hello the bus has not taken: the transaction begins, and the helper hears nothing.
AddonUnheard ==
  /\ SameAddon /\ ~Ready /\ UNCHANGED <<toAddon, toHelper>>
  /\ fresh' = fresh + 1 /\ addon'.pendingCall = 0 /\ addon'.transaction = fresh

AddonGreets ==
  /\ SameAddon /\ ~Ready /\ UNCHANGED toAddon
  /\ fresh' = fresh + 1 /\ addon'.pendingCall = fresh /\ addon'.transaction = fresh
  /\ toHelper' = Append(toHelper, Hello(addon.name, fresh))

AddonCommands ==
  /\ SameAddon /\ UNCHANGED <<toAddon, fresh>>
  /\ addon'.pendingCall = addon.pendingCall /\ addon'.transaction = addon.transaction
  /\ addon'.closeAfterSelection = addon.closeAfterSelection
  /\ addon.transaction # 0
  /\ addon'.commandSequence = addon.commandSequence + 1
  /\ \E what, text :
       toHelper' = Append(toHelper, Command(addon.name, addon.transaction,
                                            addon.commandSequence + 1, what, text))

AddonWelcomed ==
  /\ toAddon # <<>> /\ toAddon' = Tail(toAddon) /\ Head(toAddon).kind = "Welcome"
  /\ Head(toAddon).call = addon.pendingCall /\ addon.transaction = addon.pendingCall
  /\ UNCHANGED <<helper, fresh>> /\ addon'.name = addon.name /\ addon'.pendingCall = 0
  /\ addon.pendingCall # 0
  /\ addon'.session.owner = Head(toAddon).from
  /\ \/ /\ SameTransaction
        /\ toHelper' = Append(toHelper, Show(addon.name, addon.transaction,
                                             addon.closeAfterSelection))
     \/ /\ addon'.transaction = 0
        /\ \/ UNCHANGED toHelper
           \/ toHelper' = Append(toHelper, Hide(addon.name, addon.transaction))

AddonLosesOwner ==
  /\ toAddon # <<>> /\ toAddon' = Tail(toAddon) /\ Head(toAddon).kind = "OwnerGone"
  /\ UNCHANGED <<helper, fresh, toHelper>>
  /\ addon'.name = addon.name /\ addon'.pendingCall = 0
  /\ \/ /\ SameTransaction /\ addon'.session = addon.session
        /\ ~(Ready /\ Head(toAddon).from = Owner)
     \/ ~IsReady(addon'.session) /\ addon'.transaction = 0

AddonStartsAnew ==
  /\ toAddon' = <<>> /\ UNCHANGED <<helper, fresh>>
  /\ addon'.transaction = 0 /\ addon'.pendingCall = 0 /\ ~IsReady(addon'.session)
  /\ UNCHANGED toHelper \/ toHelper' = Append(toHelper, PeerGone(addon.name))

\* A system without a transaction and without a call has nothing in flight.
LEMMA NothingInFlight ==
  ASSUME TypeInv', addon'.transaction = 0
  PROVE  /\ NoHideOf(toHelper', addon'.transaction)
         /\ CommandsUpTo(toHelper', addon'.transaction, addon'.commandSequence)
BY NamesNothing DEF TypeInv, TypeOK

LEMMA NothingPending ==
  ASSUME TypeInv', addon'.pendingCall = 0
  PROVE  /\ HelloIsLast(toHelper', addon'.pendingCall, addon'.name)
         /\ TrueWelcomes(toAddon', addon'.pendingCall, HandshakePeer')
BY NamesNothing DEF TypeInv, TypeOK

\* A Hide disturbs no bound and no command.
LEMMA HideAppended ==
  ASSUME NEW q \in Seq(ToHelper), NEW n, NEW t
  PROVE  /\ \A f : CallsBelow(q, f) /\ t < f => CallsBelow(Append(q, Hide(n, t)), f)
         /\ \A kinds : OnlyHears(q, n, kinds) /\ "Hide" \in kinds
                         => OnlyHears(Append(q, Hide(n, t)), n, kinds)
<1> DEFINE m == Hide(n, t)
<1>1. m.kind = "Hide" /\ m.from = n /\ m.transaction = t
  BY DEF Hide
<1> HIDE DEF m
<1>2. /\ \A f : CallsBelow(q, f) /\ t < f => CallsBelow(Append(q, m), f)
      /\ \A kinds : OnlyHears(q, n, kinds) /\ "Hide" \in kinds
                      => OnlyHears(Append(q, m), n, kinds)
  BY <1>1, HelperAppend
<1> QED
  BY <1>2 DEF m

\* A Show disturbs no bound, no Hide and no command.
LEMMA ShowAppended ==
  ASSUME NEW q \in Seq(ToHelper), NEW n, NEW t, NEW close
  PROVE  /\ \A f : CallsBelow(q, f) => CallsBelow(Append(q, Show(n, t, close)), f)
         /\ \A u : NoHideOf(q, u) => NoHideOf(Append(q, Show(n, t, close)), u)
         /\ \A u, k : CommandsUpTo(q, u, k) => CommandsUpTo(Append(q, Show(n, t, close)), u, k)
         /\ \A kinds : OnlyHears(q, n, kinds) /\ "Show" \in kinds
                         => OnlyHears(Append(q, Show(n, t, close)), n, kinds)
         /\ SentIn(Append(q, Show(n, t, close)), t, close)
<1> DEFINE m == Show(n, t, close)
<1>1. m.kind = "Show" /\ m.from = n /\ m.transaction = t /\ m.closeAfterSelection = close
  BY DEF Show
<1> HIDE DEF m
<1>2. /\ \A f : CallsBelow(q, f) => CallsBelow(Append(q, m), f)
      /\ \A u : NoHideOf(q, u) => NoHideOf(Append(q, m), u)
      /\ \A u, k : CommandsUpTo(q, u, k) => CommandsUpTo(Append(q, m), u, k)
      /\ \A kinds : OnlyHears(q, n, kinds) /\ "Show" \in kinds
                      => OnlyHears(Append(q, m), n, kinds)
      /\ SentIn(Append(q, m), t, close)
  BY <1>1, HelperAppend
<1> QED
  BY <1>2 DEF m

\* The parts of the invariant, with the types they need.
LEMMA AgreementParts ==
  ASSUME AgreementInv
  PROVE  /\ TypeInv
         /\ fresh \in Nat /\ addon.transaction \in Nat /\ addon.pendingCall \in Nat
         /\ addon.commandSequence \in Nat
         /\ toHelper \in Seq(ToHelper) /\ toAddon \in Seq(ToAddon)
         /\ addon.transaction < fresh /\ addon.pendingCall < fresh
         /\ CallsBelow(toHelper, fresh) /\ WelcomesBelow(toAddon, fresh)
         /\ CallsBelow(toHelper, fresh + 1) /\ WelcomesBelow(toAddon, fresh + 1)
         /\ NoHideOf(toHelper, addon.transaction)
         /\ CommandsUpTo(toHelper, addon.transaction, addon.commandSequence)
         /\ HelloIsLast(toHelper, addon.pendingCall, addon.name)
         /\ TrueWelcomes(toAddon, addon.pendingCall, HandshakePeer)
         /\ Ready => addon.pendingCall = 0 /\ (GoneIn(toAddon, Owner, 0) \/ Connected)
BY AgreementTypes, BelowMore DEF AgreementInv, Drawn, InFlight, SessionIsTrue

LEMMA AddonRestsStep ==
  ASSUME AgreementInv, TypeInv', AddonRests
  PROVE  AgreementInv'
<1> USE AgreementParts
<1>1. /\ helper' = helper /\ addon'.name = addon.name /\ addon'.session = addon.session
      /\ fresh' \in {fresh, fresh + 1} /\ addon'.pendingCall \in {0, addon.pendingCall}
      /\ Hears
  BY DEF AddonRests, SameAddon
<1>2. CASE SameTransaction /\ UNCHANGED toHelper /\ KeepsAnswer
  <2>1. Drawn'
    BY <1>1, <1>2 DEF Drawn, Hears, SameTransaction
  <2>2. HandshakePeer' = HandshakePeer
    BY <1>1, <1>2 DEF HandshakePeer, Linked
  <2>3. InFlight'
    <3>1. CASE addon'.pendingCall = 0
      BY <1>2, <3>1, NothingPending DEF InFlight, SameTransaction
    <3>2. CASE addon'.pendingCall = addon.pendingCall
      BY <1>1, <1>2, <2>2, <3>2 DEF InFlight, SameTransaction, Hears
    <3> QED
      BY <1>1, <3>1, <3>2
  <2>4. SessionIsTrue'
    BY <1>1, <1>2 DEF SessionIsTrue, Ready, Owner, Connected, Linked, Served, OnScreen,
                      Active, SameTransaction, Hears, KeepsAnswer
  <2> QED
    BY <2>1, <2>3, <2>4 DEF AgreementInv
<1>3. CASE SaysItIsOver
  <2>1. CASE UNCHANGED toHelper
    <3>1. Drawn'
      BY <1>1, <1>3, <2>1 DEF Drawn, Hears, SaysItIsOver
    <3>2. HandshakePeer' = HandshakePeer
      BY <1>1, <2>1 DEF HandshakePeer, Linked
    <3>3. InFlight'
      <4>1. CASE addon'.pendingCall = 0
        BY <1>3, <4>1, NothingPending, NothingInFlight DEF InFlight, SaysItIsOver
      <4>2. CASE addon'.pendingCall = addon.pendingCall
        BY <1>1, <1>3, <2>1, <3>2, <4>2, NothingInFlight DEF InFlight, SaysItIsOver, Hears
      <4> QED
        BY <1>1, <4>1, <4>2
    <3>4. SessionIsTrue'
      BY <1>1, <1>3, <2>1 DEF SessionIsTrue, Ready, Owner, Connected, Linked, Active,
                              SaysItIsOver, Hears
    <3> QED
      BY <3>1, <3>3, <3>4 DEF AgreementInv
  <2>2. CASE Ready /\ toHelper' = Append(toHelper, Hide(addon.name, addon.transaction))
    <3>1. addon.pendingCall = 0 /\ addon'.pendingCall = 0
      BY <1>1, <2>2
    <3>2. Drawn'
      <4>1. CallsBelow(toHelper', fresh')
        BY <1>1, <2>2, HideAppended
      <4> QED
        BY <1>1, <1>3, <3>1, <4>1 DEF Drawn, Hears, SaysItIsOver
    <3>3. InFlight'
      BY <1>3, <3>1, NothingPending, NothingInFlight DEF InFlight, SaysItIsOver
    <3>4. SessionIsTrue'
      <4>1. \A kinds : OnlyHears(toHelper, addon.name, kinds) /\ "Hide" \in kinds
                         => OnlyHears(toHelper', addon.name, kinds)
        BY <2>2, HideAppended
      <4> QED
        BY <1>1, <1>3, <3>1, <4>1 DEF SessionIsTrue, Ready, Owner, Connected, Linked, Active,
                                      SaysItIsOver, Hears
    <3> QED
      BY <3>2, <3>3, <3>4 DEF AgreementInv
  <2> QED
    BY <1>3, <2>1, <2>2 DEF SaysItIsOver
<1> QED
  BY <1>2, <1>3 DEF AddonRests

LEMMA AddonShowsStep ==
  ASSUME AgreementInv, TypeInv', AddonShows
  PROVE  AgreementInv'
<1> USE AgreementParts
<1> DEFINE m == Show(addon.name, fresh, addon'.closeAfterSelection)
<1>1. /\ helper' = helper /\ addon'.name = addon.name /\ addon'.session = addon.session
      /\ fresh' = fresh + 1 /\ addon'.transaction = fresh
      /\ addon.pendingCall = 0 /\ addon'.pendingCall = 0
      /\ Hears /\ Ready /\ toHelper' = Append(toHelper, m)
  BY DEF AddonShows, SameAddon
<1>2. /\ CallsBelow(toHelper', fresh') /\ NoHideOf(toHelper', fresh)
      /\ CommandsUpTo(toHelper', fresh, addon'.commandSequence)
      /\ \A kinds : OnlyHears(toHelper, addon.name, kinds) /\ "Show" \in kinds
                      => OnlyHears(toHelper', addon.name, kinds)
      /\ SentIn(toHelper', fresh, addon'.closeAfterSelection)
  BY <1>1, ShowAppended, FreshIsUnnamed
<1> HIDE DEF m
<1>3. Drawn'
  BY <1>1, <1>2 DEF Drawn, Hears
<1>4. InFlight'
  BY <1>1, <1>2, NothingPending DEF InFlight
<1>5. SessionIsTrue'
  BY <1>1, <1>2 DEF SessionIsTrue, Ready, Owner, Connected, Linked, Served, Hears
<1> QED
  BY <1>3, <1>4, <1>5 DEF AgreementInv

LEMMA AddonGreetsStep ==
  ASSUME AgreementInv, TypeInv', AddonGreets
  PROVE  AgreementInv'
<1> USE AgreementParts
<1> DEFINE m == Hello(addon.name, fresh)
<1>1. /\ addon'.name = addon.name /\ addon'.session = addon.session /\ ~Ready
      /\ fresh' = fresh + 1 /\ addon'.transaction = fresh /\ addon'.pendingCall = fresh
      /\ toAddon' = toAddon /\ toHelper' = Append(toHelper, m)
  BY DEF AddonGreets, SameAddon
<1>2. m.kind = "Hello" /\ m.nonce = fresh
  BY DEF Hello
<1>3. HelloIsLast(toHelper', fresh, addon.name)
  BY <1>1, HelloAppended
<1> HIDE DEF m
<1>4. /\ NoHideOf(toHelper, fresh) /\ CommandsUpTo(toHelper, fresh, addon'.commandSequence)
      /\ TrueWelcomes(toAddon, fresh, HandshakePeer')
  BY FreshIsUnnamed
<1>5. /\ CallsBelow(toHelper', fresh') /\ NoHideOf(toHelper', fresh)
      /\ CommandsUpTo(toHelper', fresh, addon'.commandSequence)
  BY <1>1, <1>2, <1>4, HelperAppend
<1>6. Drawn'
  BY <1>1, <1>5 DEF Drawn
<1>7. InFlight'
  BY <1>1, <1>3, <1>4, <1>5 DEF InFlight
<1>8. SessionIsTrue'
  BY <1>1 DEF SessionIsTrue, Ready
<1> QED
  BY <1>6, <1>7, <1>8 DEF AgreementInv

LEMMA AddonUnheardStep ==
  ASSUME AgreementInv, TypeInv', AddonUnheard
  PROVE  AgreementInv'
<1> USE AgreementParts
<1>1. /\ addon'.name = addon.name /\ addon'.session = addon.session /\ ~Ready
      /\ fresh' = fresh + 1 /\ addon'.transaction = fresh /\ addon'.pendingCall = 0
      /\ toAddon' = toAddon /\ toHelper' = toHelper
  BY DEF AddonUnheard, SameAddon
<1>2. /\ NoHideOf(toHelper, fresh) /\ CommandsUpTo(toHelper, fresh, addon'.commandSequence)
  BY FreshIsUnnamed
<1>3. Drawn'
  BY <1>1 DEF Drawn
<1>4. InFlight'
  BY <1>1, <1>2, NothingPending DEF InFlight
<1>5. SessionIsTrue'
  BY <1>1 DEF SessionIsTrue, Ready
<1> QED
  BY <1>3, <1>4, <1>5 DEF AgreementInv

LEMMA AddonCommandsStep ==
  ASSUME AgreementInv, TypeInv', AddonCommands
  PROVE  AgreementInv'
<1> USE AgreementParts
<1>1. PICK what, text :
        toHelper' = Append(toHelper, Command(addon.name, addon.transaction,
                                             addon.commandSequence + 1, what, text))
  BY DEF AddonCommands
<1> DEFINE m == Command(addon.name, addon.transaction, addon.commandSequence + 1, what, text)
<1>2. /\ m.kind = "Command" /\ m.from = addon.name /\ m.transaction = addon.transaction
      /\ m.sequence = addon.commandSequence + 1
  BY DEF Command
<1>3. toHelper' = Append(toHelper, m)
  BY <1>1
<1> HIDE DEF m
<1>4. /\ helper' = helper /\ addon'.name = addon.name /\ addon'.session = addon.session
      /\ UNCHANGED <<toAddon, fresh>>
      /\ addon'.pendingCall = addon.pendingCall /\ addon'.transaction = addon.transaction
      /\ addon'.closeAfterSelection = addon.closeAfterSelection
      /\ addon.transaction # 0
      /\ addon'.commandSequence = addon.commandSequence + 1
  BY DEF AddonCommands, SameAddon
<1>5. CommandsUpTo(toHelper, addon.transaction, addon.commandSequence + 1)
  BY CommandsUpToMore
<1>6. /\ CallsBelow(toHelper', fresh) /\ NoHideOf(toHelper', addon.transaction)
      /\ CommandsUpTo(toHelper', addon.transaction, addon.commandSequence + 1)
      /\ HelloIsLast(toHelper', addon.pendingCall, addon.name)
      /\ \A kinds : OnlyHears(toHelper, addon.name, kinds) /\ "Command" \in kinds
                      => OnlyHears(toHelper', addon.name, kinds)
      /\ \A t, close : SentIn(toHelper, t, close) => SentIn(toHelper', t, close)
      /\ NoShowAfter(toHelper, 0) => NoShowAfter(toHelper', 0)
  <2>1. CallsBelow(toHelper', fresh) /\ NoHideOf(toHelper', addon.transaction)
    BY <1>2, <1>3, HelperAppend
  <2>2. CommandsUpTo(toHelper', addon.transaction, addon.commandSequence + 1)
    <3>1. m.sequence <= addon.commandSequence + 1
      BY <1>2
    <3> QED
      BY <1>2, <1>3, <1>5, <3>1, HelperAppend
  <2>3. /\ HelloIsLast(toHelper', addon.pendingCall, addon.name)
        /\ \A kinds : OnlyHears(toHelper, addon.name, kinds) /\ "Command" \in kinds
                        => OnlyHears(toHelper', addon.name, kinds)
    BY <1>2, <1>3, HelperAppend
  <2>4. /\ \A t, close : SentIn(toHelper, t, close) => SentIn(toHelper', t, close)
        /\ NoShowAfter(toHelper, 0) => NoShowAfter(toHelper', 0)
    BY <1>2, <1>3, HelperAppend
  <2> QED
    BY <2>1, <2>2, <2>3, <2>4
<1>7. Drawn'
  BY <1>4, <1>6 DEF Drawn
<1>8. InFlight'
  <2>1. HandshakePeer # 0 => HandshakePeer' = HandshakePeer
    BY <1>4, <1>6 DEF HandshakePeer, Linked
  <2>2. TrueWelcomes(toAddon, addon.pendingCall, HandshakePeer')
    BY <2>1, PeerStays
  <2> QED
    BY <1>4, <1>6, <2>2 DEF InFlight
<1>9. SessionIsTrue'
  <2>1. Served => Served'
    <3>1. helper \in HelperRecords
      BY DEF TypeInv, TypeOK
    <3>2. helper.validator.lastSequence \in Nat
      BY <3>1 DEF HelperRecords, Validators, CommandNumbers
    <3>3. OnScreen => OnScreen'
      BY <1>4, <1>6, <3>2 DEF OnScreen
    <3> QED
      BY <1>4, <1>6, <3>3 DEF Served, Owner
  <2> QED
    BY <1>4, <1>6, <2>1 DEF SessionIsTrue, Ready, Owner, Connected, Linked, Active
<1> QED
  BY <1>7, <1>8, <1>9 DEF AgreementInv

LEMMA AddonWelcomedStep ==
  ASSUME AgreementInv, TypeInv', AddonWelcomed
  PROVE  AgreementInv'
<1> USE AgreementParts
<1> DEFINE o == Head(toAddon).from
           m == Show(addon.name, addon.transaction, addon.closeAfterSelection)
           end == Hide(addon.name, addon.transaction)
<1>1. /\ toAddon # <<>> /\ toAddon' = Tail(toAddon)
      /\ Head(toAddon).kind = "Welcome" /\ Head(toAddon).call = addon.pendingCall
      /\ addon.transaction = addon.pendingCall /\ addon.pendingCall # 0
      /\ UNCHANGED <<helper, fresh>> /\ addon'.name = addon.name /\ addon'.pendingCall = 0
      /\ addon'.session.owner = o
  BY DEF AddonWelcomed
<1>2. \/ SameTransaction /\ toHelper' = Append(toHelper, m)
      \/ addon'.transaction = 0 /\ (UNCHANGED toHelper \/ toHelper' = Append(toHelper, end))
  BY DEF AddonWelcomed
<1>3. GoneIn(toAddon', o, 0) \/ (Linked(o) /\ OnlyHears(toHelper, addon.name, {"Command"}))
  <2>1. 1 \in DOMAIN toAddon /\ toAddon[1] = Head(toAddon)
    BY <1>1, TailPlaces
  <2>2. o # 0
    <3>1. Head(toAddon) \in ToAddon
      BY <1>1
    <3>2. o \in HelperNames
      BY <1>1, <3>1 DEF ToAddon
    <3> QED
      BY <3>2 DEF HelperNames
  <2>3. GoneIn(toAddon, o, 1) \/ o = HandshakePeer
    BY <1>1, <2>1 DEF TrueWelcomes
  <2>4. ASSUME GoneIn(toAddon, o, 0 + 1) PROVE GoneIn(toAddon', o, 0)
    BY <1>1, <2>4, AddonTail
  <2> QED
    BY <2>2, <2>3, <2>4 DEF HandshakePeer, Linked
<1>4. WelcomesBelow(toAddon', fresh)
  BY <1>1, AddonTail
<1> HIDE DEF o
<1>5. ASSUME OnlyHears(toHelper, addon.name, {"Command"})
      PROVE  OnlyHears(toHelper, addon.name, {"Show", "Command", "Hide"})
  BY <1>5, OnlyHearsMore
<1>6. CASE SameTransaction /\ toHelper' = Append(toHelper, m)
  <2>1. /\ CallsBelow(toHelper', fresh) /\ NoHideOf(toHelper', addon.transaction)
        /\ CommandsUpTo(toHelper', addon.transaction, addon.commandSequence)
        /\ \A kinds : OnlyHears(toHelper, addon.name, kinds) /\ "Show" \in kinds
                        => OnlyHears(toHelper', addon.name, kinds)
        /\ SentIn(toHelper', addon.transaction, addon.closeAfterSelection)
    BY <1>6, ShowAppended
  <2> HIDE DEF m
  <2>2. Drawn'
    BY <1>1, <1>4, <1>6, <2>1 DEF Drawn, SameTransaction
  <2>3. InFlight'
    BY <1>1, <1>6, <2>1, NothingPending DEF InFlight, SameTransaction
  <2>4. SessionIsTrue'
    BY <1>1, <1>3, <1>5, <1>6, <2>1
       DEF SessionIsTrue, Owner, Connected, Linked, Served, SameTransaction
  <2> QED
    BY <2>2, <2>3, <2>4 DEF AgreementInv
<1>7. CASE addon'.transaction = 0 /\ (UNCHANGED toHelper \/ toHelper' = Append(toHelper, end))
  <2>1. /\ CallsBelow(toHelper', fresh)
        /\ \A kinds : OnlyHears(toHelper, addon.name, kinds) /\ "Hide" \in kinds
                        => OnlyHears(toHelper', addon.name, kinds)
    BY <1>7, HideAppended
  <2> HIDE DEF end
  <2>2. Drawn'
    BY <1>1, <1>4, <1>7, <2>1 DEF Drawn
  <2>3. InFlight'
    BY <1>1, <1>7, NothingPending, NothingInFlight DEF InFlight
  <2>4. SessionIsTrue'
    BY <1>1, <1>3, <1>5, <1>7, <2>1 DEF SessionIsTrue, Owner, Connected, Linked, Active
  <2> QED
    BY <2>2, <2>3, <2>4 DEF AgreementInv
<1> QED
  BY <1>2, <1>6, <1>7

LEMMA AddonLosesOwnerStep ==
  ASSUME AgreementInv, TypeInv', AddonLosesOwner
  PROVE  AgreementInv'
<1> USE AgreementParts
<1>1. /\ toAddon # <<>> /\ toAddon' = Tail(toAddon) /\ Head(toAddon).kind = "OwnerGone"
      /\ UNCHANGED <<helper, fresh, toHelper>>
      /\ addon'.name = addon.name /\ addon'.pendingCall = 0
  BY DEF AddonLosesOwner
<1>2. /\ WelcomesBelow(toAddon', fresh)
      /\ \A o : GoneIn(toAddon, o, 0) /\ o # Head(toAddon).from => GoneIn(toAddon', o, 0)
      /\ \A t, o : AnsweredIn(toAddon, t, o) => AnsweredIn(toAddon', t, o)
  BY <1>1, AddonTail
<1>3. CASE /\ SameTransaction /\ addon'.session = addon.session
           /\ ~(Ready /\ Head(toAddon).from = Owner)
  <2>1. Drawn'
    BY <1>1, <1>2, <1>3 DEF Drawn, SameTransaction
  <2>2. InFlight'
    BY <1>1, <1>3, NothingPending DEF InFlight, SameTransaction
  <2>3. SessionIsTrue'
    BY <1>1, <1>2, <1>3 DEF SessionIsTrue, Ready, Owner, Connected, Linked, Served, OnScreen,
                            Active, SameTransaction
  <2> QED
    BY <2>1, <2>2, <2>3 DEF AgreementInv
<1>4. CASE ~IsReady(addon'.session) /\ addon'.transaction = 0
  <2>1. Drawn'
    BY <1>1, <1>2, <1>4 DEF Drawn
  <2>2. InFlight'
    BY <1>1, <1>4, NothingPending, NothingInFlight DEF InFlight
  <2>3. SessionIsTrue'
    BY <1>4 DEF SessionIsTrue, Ready
  <2> QED
    BY <2>1, <2>2, <2>3 DEF AgreementInv
<1> QED
  BY <1>3, <1>4 DEF AddonLosesOwner

LEMMA AddonStartsAnewStep ==
  ASSUME AgreementInv, TypeInv', AddonStartsAnew
  PROVE  AgreementInv'
<1> USE AgreementParts
<1>1. /\ toAddon' = <<>> /\ UNCHANGED <<helper, fresh>>
      /\ addon'.transaction = 0 /\ addon'.pendingCall = 0 /\ ~IsReady(addon'.session)
      /\ UNCHANGED toHelper \/ toHelper' = Append(toHelper, PeerGone(addon.name))
  BY DEF AddonStartsAnew
<1>2. PeerGone(addon.name).kind = "PeerGone"
  BY DEF PeerGone
<1>3. CallsBelow(toHelper', fresh)
  BY <1>1, <1>2, HelperAppend
<1>4. Drawn'
  BY <1>1, <1>3 DEF Drawn, WelcomesBelow
<1>5. InFlight'
  BY <1>1, NothingPending, NothingInFlight DEF InFlight
<1>6. SessionIsTrue'
  BY <1>1 DEF SessionIsTrue, Ready
<1> QED
  BY <1>4, <1>5, <1>6 DEF AgreementInv

(***************************************************************************)
(* Every step of the addon has one of the shapes.                          *)
(***************************************************************************)

AddonShape ==
  \/ AddonRests \/ AddonShows \/ AddonGreets \/ AddonUnheard \/ AddonCommands
  \/ AddonWelcomed \/ AddonLosesOwner \/ AddonStartsAnew

\* An addon like this one, but for its transaction.
Alike(a) == a \in AddonRecords /\ a.name = addon.name /\ a.session = addon.session

LEMMA IdleKeeps ==
  ASSUME NEW a \in AddonRecords
  PROVE  /\ Idle(a).transaction = 0 /\ Idle(a).name = a.name
         /\ Idle(a).session = a.session /\ Idle(a).pendingCall = a.pendingCall
BY DEF Idle, AddonRecords

LEMMA CancelIsOver ==
  ASSUME NEW a, NEW notify, Alike(a), a.transaction \in {0, addon.transaction},
         CancelFrom(a, notify)
  PROVE  /\ SaysItIsOver /\ addon'.pendingCall = a.pendingCall
         /\ addon'.name = addon.name /\ addon'.session = addon.session
<1>1. /\ addon'.transaction = 0 /\ addon'.pendingCall = a.pendingCall
      /\ addon'.name = addon.name /\ addon'.session = addon.session
  BY IdleKeeps DEF CancelFrom, Alike
<1>2. ASSUME MustHide(a, notify)
      PROVE  Ready /\ Hide(a.name, a.transaction) = Hide(addon.name, addon.transaction)
  BY <1>2 DEF MustHide, Alike, Ready
<1> QED
  BY <1>1, <1>2 DEF CancelFrom, SaysItIsOver

LEMMA SentOrOver ==
  ASSUME NEW a, NEW m, Alike(a), SendFrom(a, m)
  PROVE  \/ addon' = a /\ toHelper' = Append(toHelper, m)
         \/ /\ SaysItIsOver /\ addon'.pendingCall = a.pendingCall
            /\ addon'.name = addon.name /\ addon'.session = addon.session
BY IdleKeeps DEF SendFrom, Alike, SaysItIsOver

LEMMA HearsNothing ==
  ASSUME UNCHANGED toAddon
  PROVE  Hears /\ KeepsAnswer
BY DEF Hears, KeepsAnswer

LEMMA HearsHead ==
  ASSUME TypeInv, NEW kinds, Takes(kinds), "OwnerGone" \notin kinds
  PROVE  /\ Hears
         /\ ~(/\ Ready /\ Active
              /\ Head(toAddon).kind \in {"Selected", "Cancelled"}
              /\ Head(toAddon).transaction = addon.transaction
              /\ Head(toAddon).from = Owner) => KeepsAnswer
<1>1. toAddon \in Seq(ToAddon) /\ toAddon # <<>> /\ toAddon' = Tail(toAddon)
      /\ Head(toAddon).kind # "OwnerGone"
  BY DEF TypeInv, TypeOK, Takes
<1>2. Hears
  BY <1>1, AddonTail DEF Hears
<1>3. ASSUME ~(/\ Ready /\ Active
               /\ Head(toAddon).kind \in {"Selected", "Cancelled"}
               /\ Head(toAddon).transaction = addon.transaction
               /\ Head(toAddon).from = Owner)
      PROVE  KeepsAnswer
  BY <1>1, <1>3, AddonTail DEF KeepsAnswer
<1> QED
  BY <1>2, <1>3

LEMMA AddonAlike ==
  ASSUME TypeInv
  PROVE  /\ addon \in AddonRecords /\ Alike(addon)
         /\ Alike(Settled) /\ Settled.transaction = addon.transaction /\ Settled.pendingCall = 0
         /\ Settled.closeAfterSelection = addon.closeAfterSelection
         /\ Settled.commandSequence = addon.commandSequence
         /\ Alike(Terminal) /\ Terminal.transaction = 0
         /\ Terminal.pendingCall = addon.pendingCall
         /\ Terminal.closeAfterSelection = addon.closeAfterSelection
<1>1. addon \in AddonRecords
  BY DEF TypeInv, TypeOK
<1>2. /\ Alike(Settled) /\ Settled.transaction = addon.transaction /\ Settled.pendingCall = 0
      /\ Settled.closeAfterSelection = addon.closeAfterSelection
      /\ Settled.commandSequence = addon.commandSequence
  BY <1>1, SettledType DEF Settled, AddonRecords, Alike
<1>3. /\ Alike(Terminal) /\ Terminal.transaction = 0
      /\ Terminal.pendingCall = addon.pendingCall
      /\ Terminal.closeAfterSelection = addon.closeAfterSelection
  BY <1>1, Ranges DEF Terminal, AddonRecords, Alike
<1> QED
  BY <1>1, <1>2, <1>3 DEF Alike

LEMMA TriggerMoves ==
  ASSUME TypeInv, NEW c \in Contexts, Trigger(c), UNCHANGED helperVars
  PROVE  AddonShape
<1>1. fresh \in Txns /\ fresh' = fresh + 1 /\ helper' = helper
  BY DEF TypeInv, TypeOK, Trigger, Txns, Began, helperVars
<1>2. PICK close \in CloseSettings :
        LET a == [BeginTransaction(Idle(addon), c) EXCEPT !.origin = c,
                                                          !.closeAfterSelection = close]
        IN IF IsReady(a.session) THEN SendFrom(a, ShowOf(a)) ELSE Negotiate(a)
  BY DEF Trigger
<1> DEFINE a == [BeginTransaction(Idle(addon), c) EXCEPT !.origin = c,
                                                         !.closeAfterSelection = close]
<1>3. Alike(a) /\ a.transaction = fresh /\ a.pendingCall = addon.pendingCall
  <2>1. /\ Idle(addon) \in AddonRecords /\ Idle(addon).pendingCall = addon.pendingCall
        /\ Alike(Idle(addon))
    BY IdleType, IdleKeeps, AddonAlike DEF Alike
  <2>2. /\ BeginTransaction(Idle(addon), c) \in AddonRecords
        /\ BeginTransaction(Idle(addon), c).transaction = fresh
        /\ Alike(BeginTransaction(Idle(addon), c))
        /\ BeginTransaction(Idle(addon), c).pendingCall = addon.pendingCall
    BY <1>1, <2>1, BeginType DEF BeginTransaction, AddonRecords, Alike
  <2> HIDE DEF BeginTransaction
  <2> QED
    BY <2>2, close \in BOOLEAN, Ranges DEF AddonRecords, Alike
<1> HIDE DEF a
<1>4. Hears
  BY HearsNothing DEF Trigger
<1>5. CASE IsReady(a.session)
  <2>1. SendFrom(a, ShowOf(a)) /\ Ready
    BY <1>2, <1>3, <1>5 DEF a, Alike, Ready
  <2>2. CASE addon' = a /\ toHelper' = Append(toHelper, ShowOf(a))
    <3>1. ShowOf(a) = Show(addon.name, fresh, addon'.closeAfterSelection)
      BY <1>3, <2>2 DEF ShowOf, Alike
    <3> QED
      BY <1>1, <1>3, <1>4, <2>1, <2>2, <3>1 DEF AddonShape, AddonShows, SameAddon, Alike
  <2>3. CASE /\ SaysItIsOver /\ addon'.pendingCall = a.pendingCall
             /\ addon'.name = addon.name /\ addon'.session = addon.session
    BY <1>1, <1>3, <1>4, <2>3 DEF AddonShape, AddonRests, SameAddon
  <2> QED
    BY <1>3, <2>1, <2>2, <2>3, SentOrOver
<1>6. CASE ~IsReady(a.session)
  <2>1. PICK queued \in SendOutcomes :
          /\ addon' = [a EXCEPT !.pendingCall = IF queued THEN fresh ELSE 0]
          /\ toHelper' = IF queued THEN Append(toHelper, Hello(a.name, fresh)) ELSE toHelper
    BY <1>2, <1>6 DEF a, Negotiate
  <2>2. ~Ready /\ a.name = addon.name /\ a \in AddonRecords
    BY <1>3, <1>6 DEF Alike, Ready
  <2>3. /\ addon'.transaction = fresh
        /\ addon'.name = addon.name /\ addon'.session = addon.session
    BY <1>3, <2>1 DEF AddonRecords, Alike
  <2>4. CASE queued
    <3>1. addon'.pendingCall = fresh /\ toHelper' = Append(toHelper, Hello(addon.name, fresh))
      BY <2>1, <2>2, <2>4 DEF AddonRecords
    <3> QED
      BY <1>1, <2>2, <2>3, <3>1 DEF AddonShape, AddonGreets, SameAddon, Trigger
  <2>5. CASE ~queued
    <3>1. addon'.pendingCall = 0 /\ toHelper' = toHelper
      BY <2>1, <2>2, <2>5 DEF AddonRecords
    <3> QED
      BY <1>1, <2>2, <2>3, <3>1 DEF AddonShape, AddonUnheard, SameAddon, Trigger
  <2> QED
    BY <2>4, <2>5
<1> QED
  BY <1>5, <1>6

LEMMA ForwardMoves ==
  ASSUME TypeInv, NEW kind \in CommandKinds, NEW search \in Searches,
         Forward(kind, search), UNCHANGED helperVars
  PROVE  AddonShape
<1> DEFINE a == [addon EXCEPT !.commandSequence = @ + 1, !.search = search]
           text == IF kind = "SearchText" THEN search ELSE 0
           m == Command(a.name, a.transaction, a.commandSequence, kind, text)
<1>1. addon.commandSequence + 1 \in CommandNumbers
  BY DEF Forward, TypeInv, TypeOK, AddonRecords, CommandNumbers
<1>2. /\ Alike(a) /\ a.pendingCall = addon.pendingCall
      /\ a.transaction = addon.transaction
      /\ a.closeAfterSelection = addon.closeAfterSelection
      /\ a.commandSequence = addon.commandSequence + 1
  BY <1>1, AddonAlike DEF AddonRecords, Alike
<1>3. SendFrom(a, m)
  BY DEF Forward
<1>4. /\ addon.transaction # 0 /\ helper' = helper /\ UNCHANGED <<toAddon, fresh>>
  BY DEF Forward, Active, helperVars
<1> HIDE DEF a
<1>5. m = Command(addon.name, addon.transaction, addon.commandSequence + 1, kind, text)
  BY <1>2 DEF Alike
<1> HIDE DEF m, text
<1>6. CASE addon' = a /\ toHelper' = Append(toHelper, m)
  BY <1>2, <1>4, <1>5, <1>6 DEF AddonShape, AddonCommands, SameAddon, Alike
<1>7. CASE /\ SaysItIsOver /\ addon'.pendingCall = a.pendingCall
           /\ addon'.name = addon.name /\ addon'.session = addon.session
  BY <1>2, <1>4, <1>7, HearsNothing DEF AddonShape, AddonRests, SameAddon
<1> QED
  BY <1>2, <1>3, <1>6, <1>7, SentOrOver

LEMMA KeyShape ==
  ASSUME TypeInv, UNCHANGED helperVars,
         PressEscape \/ PressReturn \/ PressArrow \/ TypeCharacter \/ PressBackspace
  PROVE  AddonShape
<1>1. addon.search \in Searches
  BY DEF TypeInv, TypeOK, AddonRecords
<1>2. CASE PressEscape \/ PressReturn \/ PressArrow
  BY <1>1, <1>2, ForwardMoves DEF PressEscape, PressReturn, PressArrow, CommandKinds
<1>3. CASE TypeCharacter
  <2>1. addon.search + 1 \in Searches
    BY <1>3 DEF TypeCharacter, TypeInv, TypeOK, AddonRecords, Searches
  <2> QED
    BY <1>3, <2>1, ForwardMoves DEF TypeCharacter, CommandKinds
<1>4. CASE PressBackspace
  <2>1. (IF addon.search = 0 THEN 0 ELSE addon.search - 1) \in Searches
    BY DEF TypeInv, TypeOK, AddonRecords, Searches
  <2> QED
    BY <1>4, <2>1, ForwardMoves DEF PressBackspace, CommandKinds
<1> QED
  BY <1>2, <1>3, <1>4

LEMMA ClientMoves ==
  ASSUME TypeInv, ClientEvents
  PROVE  AddonShape
<1>1. PICK c \in Contexts : FocusIn(c) \/ FocusOut(c) \/ ResetOrSwitch(c) \/ Destroy(c)
  BY DEF ClientEvents
<1>2. UNCHANGED <<toAddon, fresh, helper>> /\ Hears /\ KeepsAnswer
  BY <1>1, HearsNothing
     DEF FocusIn, FocusOut, ResetOrSwitch, Destroy, ClientEvents, helperVars
<1>3. UNCHANGED <<addon, toHelper>> \/ CancelFrom(addon, TRUE)
  BY <1>1 DEF FocusIn, FocusOut, ResetOrSwitch, Destroy, Disturbed
<1>4. CASE UNCHANGED <<addon, toHelper>>
  BY <1>2, <1>4 DEF AddonShape, AddonRests, SameAddon, SameTransaction
<1>5. CASE CancelFrom(addon, TRUE)
  BY <1>2, <1>5, CancelIsOver, AddonAlike DEF AddonShape, AddonRests, SameAddon
<1> QED
  BY <1>3, <1>4, <1>5

LEMMA TimeoutMoves ==
  ASSUME TypeInv, Timeout
  PROVE  AddonShape
<1>1. UNCHANGED <<toAddon, fresh, helper>> /\ Hears /\ KeepsAnswer
  BY HearsNothing DEF Timeout, CallTimesOut, helperVars
<1>2. CASE addon' = Settled /\ UNCHANGED toHelper
  BY <1>1, <1>2, AddonAlike DEF AddonShape, AddonRests, SameAddon, SameTransaction, Alike
<1>3. CASE CancelFrom(Settled, FALSE)
  BY <1>1, <1>3, CancelIsOver, AddonAlike DEF AddonShape, AddonRests, SameAddon
<1> QED
  BY <1>2, <1>3 DEF Timeout, CallTimesOut

LEMMA ReplyMoves ==
  ASSUME TypeInv, ReceiveReply, UNCHANGED helperVars
  PROVE  AddonShape
<1> DEFINE reply == Head(toAddon)
<1>1. /\ reply \in ToAddon /\ reply.kind \in {"Welcome", "Refusal", "CallError"}
      /\ toAddon # <<>> /\ toAddon' = Tail(toAddon)
      /\ helper' = helper /\ fresh' = fresh
  BY TakesType DEF ReceiveReply, Takes, TypeInv, TypeOK, helperVars
<1>2. Hears /\ KeepsAnswer
  BY <1>1, HearsHead DEF ReceiveReply
<1>3. CASE UNCHANGED <<addon, toHelper>>
  BY <1>1, <1>2, <1>3 DEF AddonShape, AddonRests, SameAddon, SameTransaction
<1>4. CASE addon' = Settled /\ UNCHANGED toHelper
  BY <1>1, <1>2, <1>4, AddonAlike DEF AddonShape, AddonRests, SameAddon, SameTransaction, Alike
<1>5. CASE CancelFrom(Settled, reply.kind = "Refusal")
  BY <1>1, <1>2, <1>5, CancelIsOver, AddonAlike DEF AddonShape, AddonRests, SameAddon
<1>6. CASE reply.kind = "Welcome" /\ Negotiated(reply) /\ ~IgnoresReply(reply.call)
           /\ AnswersPending(reply.call)
  <2> DEFINE session == AcceptWelcome(Begin(addon.session, reply.from, reply.call),
                                      reply.from, reply)
             a == [Settled EXCEPT !.session = session]
  <2>1. session \in SessionRecords /\ session.owner = reply.from
    BY <1>1, <1>6, Ranges DEF ToAddon, AcceptWelcome, Begin, SessionRecords, SessionStates
  <2>2. /\ reply.call = addon.pendingCall /\ addon.pendingCall # 0
        /\ addon.transaction = addon.pendingCall
    BY <1>6, AddonAlike DEF AnswersPending, IgnoresReply
  <2>3. /\ a \in AddonRecords /\ a.name = addon.name /\ a.pendingCall = 0
        /\ a.transaction = addon.transaction /\ a.session = session
        /\ a.closeAfterSelection = addon.closeAfterSelection
        /\ a.commandSequence = addon.commandSequence
    <3>1. Settled \in AddonRecords /\ Settled.name = addon.name
      BY AddonAlike DEF Alike
    <3> QED
      BY <2>1, <3>1, AddonAlike DEF AddonRecords
  <2>4. SendFrom(a, ShowOf(a)) \/ CancelFrom(a, TRUE)
    BY <1>6 DEF Negotiated
  <2> HIDE DEF session, a
  <2>5. /\ Idle(a).transaction = 0 /\ Idle(a).name = addon.name
        /\ Idle(a).session = session /\ Idle(a).pendingCall = 0
    BY <2>3, IdleKeeps
  <2>6. CASE addon' = a /\ toHelper' = Append(toHelper, ShowOf(a))
    <3>1. ShowOf(a) = Show(addon.name, addon.transaction, addon.closeAfterSelection)
      BY <2>3 DEF ShowOf
    <3> QED
      BY <1>1, <1>6, <2>1, <2>2, <2>3, <2>6, <3>1
         DEF AddonShape, AddonWelcomed, SameTransaction
  <2>7. CASE /\ addon' = Idle(a)
             /\ UNCHANGED toHelper \/ toHelper' = Append(toHelper, Hide(a.name, a.transaction))
    BY <1>1, <1>6, <2>1, <2>2, <2>3, <2>5, <2>7 DEF AddonShape, AddonWelcomed
  <2> QED
    BY <2>4, <2>6, <2>7 DEF SendFrom, CancelFrom
<1> QED
  BY <1>3, <1>4, <1>5, <1>6 DEF ReceiveReply

\* After a commit the transaction is over, or a new one is shown.
LEMMA AfterCommitShape ==
  ASSUME TypeInv, AfterCommit, Ready, Hears, UNCHANGED helper,
         addon.closeAfterSelection \/ fresh <= MaxTxn
  PROVE  AddonShape
<1>1. CASE addon.closeAfterSelection
  <2>1. Finished.transaction = 0 /\ Finished.pendingCall = addon.pendingCall /\ Alike(Finished)
    BY AddonAlike, Ranges DEF Finished, AddonRecords, Alike
  <2>2. addon' = Finished /\ UNCHANGED <<toHelper, fresh>>
    BY <1>1 DEF AfterCommit
  <2> QED
    BY <2>1, <2>2 DEF AddonShape, AddonRests, SameAddon, SaysItIsOver, Alike
<1>2. CASE ~addon.closeAfterSelection /\ addon.origin \in focused
  <2> DEFINE a == BeginTransaction(Terminal, addon.origin)
  <2>1. fresh \in Txns /\ addon.origin \in Contexts
    BY <1>2 DEF TypeInv, TypeOK, Txns
  <2>2. Alike(a) /\ a.transaction = fresh /\ a.pendingCall = addon.pendingCall
    <3>1. Terminal \in AddonRecords
      BY AddonAlike DEF Alike
    <3> QED
      BY <2>1, <3>1, AddonAlike, BeginType DEF BeginTransaction, AddonRecords, Alike
  <2>3. fresh' = fresh + 1 /\ SendFrom(a, ShowOf(a))
    BY <1>2 DEF AfterCommit, Began
  <2> HIDE DEF a
  <2>4. CASE addon' = a /\ toHelper' = Append(toHelper, ShowOf(a))
    <3>1. ShowOf(a) = Show(addon.name, fresh, addon'.closeAfterSelection)
      BY <2>2, <2>4 DEF ShowOf, Alike
    <3> QED
      BY <2>2, <2>3, <2>4, <3>1 DEF AddonShape, AddonShows, SameAddon, Alike
  <2>5. CASE /\ SaysItIsOver /\ addon'.pendingCall = a.pendingCall
             /\ addon'.name = addon.name /\ addon'.session = addon.session
    BY <2>2, <2>3, <2>5 DEF AddonShape, AddonRests, SameAddon
  <2> QED
    BY <2>2, <2>3, <2>4, <2>5, SentOrOver
<1>3. CASE ~addon.closeAfterSelection /\ addon.origin \notin focused
  <2>1. CancelFrom(Terminal, TRUE) /\ fresh' = fresh
    BY <1>3 DEF AfterCommit
  <2> QED
    BY <2>1, CancelIsOver, AddonAlike DEF AddonShape, AddonRests, SameAddon
<1> QED
  BY <1>1, <1>2, <1>3

LEMMA SelectedMoves ==
  ASSUME TypeInv, ReceiveSelected, UNCHANGED helperVars
  PROVE  AddonShape
<1> DEFINE frame == Head(toAddon)
           result == SelectResult(frame.transaction, frame.sequence)
           committed == Accepts(addon.session, frame.from) /\ result = "Committed"
<1>1. helper' = helper
  BY DEF helperVars
<1>2. Hears
  BY HearsHead DEF ReceiveSelected
<1>3. CASE committed
  <2>1. /\ AfterCommit /\ (addon.closeAfterSelection \/ fresh <= MaxTxn)
        /\ Ready
    BY <1>3 DEF ReceiveSelected, Accepts, Ready
  <2> QED
    BY <1>1, <1>2, <2>1, AfterCommitShape
<1>4. CASE /\ ~Accepts(addon.session, frame.from)
              \/ result \in {"Inactive", "TransactionMismatch"}
           /\ UNCHANGED <<addon, toHelper, fresh>>
  <2>1. KeepsAnswer
    <3>1. ~Ready \/ ~Active \/ frame.transaction # addon.transaction \/ frame.from # Owner
      BY <1>4 DEF SelectResult, Accepts, Ready, Owner
    <3> QED
      BY <1>4, <3>1, HearsHead DEF ReceiveSelected
  <2> QED
    BY <1>1, <1>2, <1>4, <2>1 DEF AddonShape, AddonRests, SameAddon, SameTransaction
<1>5. CASE CancelFrom(Terminal, TRUE) /\ fresh' = fresh
  BY <1>1, <1>2, <1>5, CancelIsOver, AddonAlike DEF AddonShape, AddonRests, SameAddon
<1> QED
  BY <1>3, <1>4, <1>5 DEF ReceiveSelected

LEMMA NoticeShape ==
  ASSUME TypeInv, ReceiveCancelled \/ ReceiveOwnerGone, UNCHANGED helperVars
  PROVE  AddonShape
<1> DEFINE frame == Head(toAddon)
<1>1. helper' = helper /\ fresh' = fresh
  BY DEF ReceiveCancelled, ReceiveOwnerGone, helperVars
<1>2. CASE ReceiveCancelled
  <2>1. Hears
    BY <1>2, HearsHead DEF ReceiveCancelled
  <2>2. CASE Accepts(addon.session, frame.from) /\ EndsTransaction(frame.transaction)
    <3>1. CancelFrom(addon, FALSE)
      BY <1>2, <2>2 DEF ReceiveCancelled
    <3> QED
      BY <1>1, <2>1, <3>1, CancelIsOver, AddonAlike DEF AddonShape, AddonRests, SameAddon
  <2>3. CASE ~(Accepts(addon.session, frame.from) /\ EndsTransaction(frame.transaction))
    <3>1. UNCHANGED <<addon, toHelper>>
      BY <1>2, <2>3 DEF ReceiveCancelled
    <3>2. KeepsAnswer
      BY <1>2, <2>3, HearsHead DEF ReceiveCancelled, Accepts, EndsTransaction, Ready, Owner
    <3> QED
      BY <1>1, <2>1, <3>1, <3>2 DEF AddonShape, AddonRests, SameAddon, SameTransaction
  <2> QED
    BY <2>2, <2>3
<1>3. CASE ReceiveOwnerGone
  <2>1. /\ toAddon # <<>> /\ toAddon' = Tail(toAddon) /\ frame.kind = "OwnerGone"
        /\ UNCHANGED <<helper, fresh, toHelper>>
    BY <1>1, <1>3 DEF ReceiveOwnerGone, Takes
  <2>2. CASE Accepts(addon.session, frame.from)
    <3>1. addon' = WithoutOwner(frame.from)
      BY <1>3, <2>2 DEF ReceiveOwnerGone
    <3>2. Idle(addon) \in AddonRecords /\ Idle(addon).session = addon.session
          /\ Idle(addon).transaction = 0 /\ Idle(addon).name = addon.name
      BY IdleType, IdleKeeps, AddonAlike
    <3>3. OwnerLost(Idle(addon).session, frame.from) = NewSession
      BY <2>2, <3>2 DEF Accepts, OwnerLost
    <3>4. /\ addon'.name = addon.name /\ addon'.pendingCall = 0 /\ addon'.transaction = 0
          /\ addon'.session = NewSession
      <4>1. addon' = [Idle(addon) EXCEPT !.session = NewSession, !.pendingCall = 0]
        BY <3>1, <3>3 DEF WithoutOwner
      <4> QED
        BY <3>2, <4>1 DEF AddonRecords
    <3>5. ~IsReady(addon'.session)
      BY <3>4 DEF IsReady, NewSession
    <3> QED
      BY <2>1, <3>4, <3>5 DEF AddonShape, AddonLosesOwner
  <2>3. CASE ~Accepts(addon.session, frame.from)
    <3>1. addon' = Settled
      BY <1>3, <2>3 DEF ReceiveOwnerGone
    <3>2. ~(Ready /\ frame.from = Owner)
      BY <2>3 DEF Accepts, Ready, Owner
    <3> QED
      BY <2>1, <3>1, <3>2, AddonAlike DEF AddonShape, AddonLosesOwner, SameTransaction, Alike
  <2> QED
    BY <2>2, <2>3
<1> QED
  BY <1>2, <1>3

LEMMA RestartShape ==
  ASSUME RestartAddon
  PROVE  AddonShape
<1>1. /\ addon'.transaction = 0 /\ addon'.pendingCall = 0 /\ ~IsReady(addon'.session)
  BY DEF RestartAddon, NewAddon, NewSession, IsReady
<1> QED
  BY <1>1 DEF RestartAddon, BusUnchanged, AddonShape, AddonStartsAnew

LEMMA AddonShapeStep ==
  ASSUME AgreementInv, TypeInv', AddonShape
  PROVE  AgreementInv'
BY AddonRestsStep, AddonShowsStep, AddonGreetsStep, AddonUnheardStep, AddonCommandsStep,
   AddonWelcomedStep, AddonLosesOwnerStep, AddonStartsAnewStep DEF AddonShape

(***************************************************************************)
(* The steps of the helper and of the bus.                                 *)
(***************************************************************************)

\* Nothing comes into the helper's queue.
HelperReads ==
  /\ \A n, kinds : OnlyHears(toHelper, n, kinds) => OnlyHears(toHelper', n, kinds)
  /\ NoShowAfter(toHelper, 0) => NoShowAfter(toHelper', 0)
  /\ \A f : CallsBelow(toHelper, f) => CallsBelow(toHelper', f)
  /\ \A t : NoHideOf(toHelper, t) => NoHideOf(toHelper', t)
  /\ \A t, n : CommandsUpTo(toHelper, t, n) => CommandsUpTo(toHelper', t, n)
  /\ \A p, n : HelloIsLast(toHelper, p, n) => HelloIsLast(toHelper', p, n)

\* What such a step has to show.
LEMMA HelperReadsStep ==
  ASSUME AgreementInv, TypeInv', UNCHANGED <<addon, fresh>>, HelperReads,
         WelcomesBelow(toAddon', fresh),
         TrueWelcomes(toAddon', addon.pendingCall, HandshakePeer'),
         Ready => GoneIn(toAddon', Owner, 0) \/ Connected'
  PROVE  AgreementInv'
<1> USE AgreementParts
<1>1. Drawn'
  BY DEF Drawn, HelperReads
<1>2. InFlight'
  BY DEF InFlight, HelperReads
<1>3. SessionIsTrue'
  BY DEF SessionIsTrue, Ready, Owner
<1> QED
  BY <1>1, <1>2, <1>3 DEF AgreementInv

LEMMA TakesOne ==
  ASSUME TypeInv, NEW kind, TakesCall(kind)
  PROVE  /\ toHelper \in Seq(ToHelper) /\ toHelper # <<>> /\ toHelper' = Tail(toHelper)
         /\ Head(toHelper) \in ToHelper /\ Head(toHelper).kind = kind /\ helper.up
         /\ HelperReads
         /\ \A n, kinds : OnlyHears(toHelper, n, kinds)
                            => Head(toHelper).from = n /\ kind \in kinds
<1>1. toHelper \in Seq(ToHelper) /\ toHelper # <<>> /\ toHelper' = Tail(toHelper)
      /\ Head(toHelper) \in ToHelper /\ Head(toHelper).kind = kind /\ helper.up
  BY TakesCallType DEF TakesCall, TypeInv, TypeOK
<1>2. HelperReads
  BY <1>1, HelperTail DEF HelperReads
<1>3. \A n, kinds : OnlyHears(toHelper, n, kinds) => Head(toHelper).from = n /\ kind \in kinds
  BY <1>1, HelperTail
<1> QED
  BY <1>1, <1>2, <1>3

\* The helper and its peer stay who they are.
SameLink ==
  /\ helper'.up = helper.up /\ helper'.name = helper.name
  /\ helper'.negotiated = helper.negotiated /\ helper'.peerOwner = helper.peerOwner

\* What is on the screen stays, or the addon is told.
ScreenOrAnswer ==
  OnScreen => \/ OnScreen'
              \/ AnsweredIn(toAddon', addon.transaction, helper.name)

\* A step of the helper that takes no Hello and no Show.
LEMMA HelperGoesOnStep ==
  ASSUME AgreementInv, TypeInv', UNCHANGED <<addon, fresh>>, SameLink,
         \/ UNCHANGED toHelper
         \/ /\ toHelper # <<>> /\ toHelper' = Tail(toHelper)
            /\ Head(toHelper).kind # "Show",
         \/ UNCHANGED toAddon
         \/ \E m : /\ toAddon' = Append(toAddon, m)
                   /\ m.kind \in {"Selected", "Cancelled"},
         Ready /\ Active => ScreenOrAnswer
  PROVE  AgreementInv'
<1> USE AgreementParts
<1>1. HelperReads /\ \A t, close : SentIn(toHelper, t, close) => SentIn(toHelper', t, close)
  <2>1. CASE UNCHANGED toHelper
    BY <2>1 DEF HelperReads
  <2>2. CASE /\ toHelper # <<>> /\ toHelper' = Tail(toHelper)
             /\ Head(toHelper).kind # "Show"
    BY <2>2, HelperTail DEF HelperReads
  <2> QED
    BY <2>1, <2>2
<1>2. /\ WelcomesBelow(toAddon', fresh)
      /\ TrueWelcomes(toAddon', addon.pendingCall, HandshakePeer)
      /\ \A o : GoneIn(toAddon, o, 0) => GoneIn(toAddon', o, 0)
      /\ \A t, o : AnsweredIn(toAddon, t, o) => AnsweredIn(toAddon', t, o)
  <2>1. CASE UNCHANGED toAddon
    BY <2>1
  <2>2. ASSUME NEW m, toAddon' = Append(toAddon, m), m.kind \in {"Selected", "Cancelled"}
        PROVE  /\ WelcomesBelow(toAddon', fresh)
               /\ TrueWelcomes(toAddon', addon.pendingCall, HandshakePeer)
               /\ \A o : GoneIn(toAddon, o, 0) => GoneIn(toAddon', o, 0)
               /\ \A t, o : AnsweredIn(toAddon, t, o) => AnsweredIn(toAddon', t, o)
    BY <2>2, AddonAppend
  <2> QED
    BY <2>1, <2>2
<1>3. TrueWelcomes(toAddon', addon.pendingCall, HandshakePeer')
  <2>1. HandshakePeer # 0 => HandshakePeer' = HandshakePeer
    BY <1>1 DEF HelperReads, HandshakePeer, Linked, SameLink
  <2>2. toAddon' \in Seq(ToAddon)
    BY DEF TypeInv, TypeOK
  <2> QED
    BY <1>2, <2>1, <2>2, PeerStays
<1>4. Ready => GoneIn(toAddon', Owner, 0) \/ Connected'
  <2> SUFFICES ASSUME Ready, Connected PROVE Connected'
    BY <1>2
  <2>1. Linked(Owner)' /\ helper.name = Owner
    BY DEF Connected, Linked, SameLink, Owner
  <2>2. Active => Served'
    BY <1>1, <1>2, <2>1 DEF Connected, Served, ScreenOrAnswer, Owner
  <2> QED
    BY <1>1, <2>1, <2>2 DEF Connected, HelperReads, Owner, Active
<1> QED
  BY <1>1, <1>2, <1>3, <1>4, HelperReadsStep

LEMMA HelloAgrees ==
  ASSUME AgreementInv, TypeInv', ExchangeHello, UNCHANGED addonVars
  PROVE  AgreementInv'
<1> USE AgreementParts
<1> DEFINE hello == Head(toHelper)
           p == addon.pendingCall
<1>1. /\ toHelper \in Seq(ToHelper) /\ toHelper # <<>> /\ toHelper' = Tail(toHelper)
      /\ hello \in ToHelper /\ hello.kind = "Hello" /\ helper.up /\ HelperReads
      /\ \A n, kinds : OnlyHears(toHelper, n, kinds) => "Hello" \in kinds
  BY TakesOne DEF ExchangeHello
<1>2. UNCHANGED <<addon, fresh>>
  BY DEF addonVars
<1>3. HandshakePeer = 0 /\ ~Connected
  BY <1>1 DEF HandshakePeer, Connected
<1>4. hello.nonce < fresh
  BY <1>1, HelperTail
<1>5. \A peer : TrueWelcomes(toAddon, p, peer)
  BY <1>3, NamesNothing
<1>6. /\ WelcomesBelow(toAddon', fresh) /\ TrueWelcomes(toAddon', p, HandshakePeer')
      /\ \A o : GoneIn(toAddon, o, 0) => GoneIn(toAddon', o, 0)
  <2>1. CASE helper.compatible
    <3> DEFINE m == Welcome(helper.name, hello.nonce, hello.nonce)
    <3>1. /\ m.kind = "Welcome" /\ m.call = hello.nonce /\ m.from = helper.name
      BY DEF Welcome
    <3>2. toAddon' = Append(toAddon, m) /\ helper' = Rebound(helper, hello.from)
      BY <2>1 DEF ExchangeHello, Emits
    <3> HIDE DEF m
    <3>3. ASSUME hello.nonce = p PROVE HandshakePeer' = helper.name
      <4>1. hello.from = addon.name /\ OnlyHears(toHelper', addon.name, {"Command"})
        BY <1>1, <3>3, HelperTail
      <4>2. /\ helper'.up /\ helper'.name = helper.name /\ helper'.negotiated
            /\ helper'.peerOwner = hello.from
        <5>1. helper \in HelperRecords
          BY DEF TypeInv, TypeOK
        <5>2. /\ Reset(helper) \in HelperRecords /\ Reset(helper).up
              /\ Reset(helper).name = helper.name
          BY <1>1, <5>1, ResetType
        <5> QED
          BY <1>1, <3>2, <5>1, <5>2 DEF Rebound, HelperRecords
      <4> QED
        BY <1>2, <4>1, <4>2 DEF HandshakePeer, Linked
    <3> QED
      BY <1>4, <1>5, <3>1, <3>2, <3>3, AddonAppend
  <2>2. CASE ~helper.compatible
    <3>1. toAddon' = Append(toAddon, Refusal(hello.nonce))
      BY <2>2 DEF ExchangeHello, Emits
    <3>2. Refusal(hello.nonce).kind = "Refusal"
      BY DEF Refusal
    <3> QED
      BY <1>5, <3>1, <3>2, AddonAppend
  <2> QED
    BY <2>1, <2>2
<1> QED
  BY <1>1, <1>2, <1>3, <1>6, HelperReadsStep

LEMMA ShowAgrees ==
  ASSUME AgreementInv, TypeInv', ExchangeShow, UNCHANGED addonVars
  PROVE  AgreementInv'
<1> USE AgreementParts
<1> DEFINE show == Head(toHelper)
<1>1. /\ toHelper \in Seq(ToHelper) /\ toHelper # <<>> /\ toHelper' = Tail(toHelper)
      /\ show \in ToHelper /\ show.kind = "Show" /\ helper.up /\ HelperReads
      /\ \A n, kinds : OnlyHears(toHelper, n, kinds) => show.from = n /\ "Show" \in kinds
  BY TakesOne DEF ExchangeShow
<1>2. UNCHANGED <<addon, fresh, toAddon>>
  BY DEF ExchangeShow, addonVars
<1>3. HandshakePeer = 0
  BY <1>1 DEF HandshakePeer
<1>4. TrueWelcomes(toAddon', addon.pendingCall, HandshakePeer')
  BY <1>2, <1>3, NamesNothing
<1>5. ASSUME Connected PROVE Connected'
  <2>1. /\ show.from = addon.name /\ Linked(Owner)
        /\ OnlyHears(toHelper', addon.name, {"Show", "Command", "Hide"})
    BY <1>1, <1>5 DEF Connected, HelperReads
  <2>2. helper' = Shown(helper, show)
    BY <2>1 DEF ExchangeShow, FromPeer, Linked
  <2>3. /\ helper'.up = helper.up /\ helper'.name = helper.name
        /\ helper'.negotiated = helper.negotiated /\ helper'.peerOwner = helper.peerOwner
        /\ helper'.visible /\ helper'.transaction = show.transaction
        /\ helper'.closeAfterSelection = show.closeAfterSelection
        /\ helper'.validator = BeginSequence(show.transaction)
    BY <2>2 DEF Shown, TypeInv, TypeOK, HelperRecords
  <2>4. helper'.validator.lastSequence = 0
    BY <2>3 DEF BeginSequence
  <2>5. ASSUME Active PROVE Served'
    <3>1. CASE AnsweredIn(toAddon, addon.transaction, Owner)
      BY <1>2, <3>1 DEF Served, Owner
    <3>2. CASE SentIn(toHelper, addon.transaction, addon.closeAfterSelection)
      <4>1. \/ SentIn(toHelper', addon.transaction, addon.closeAfterSelection)
            \/ /\ show.transaction = addon.transaction
               /\ show.closeAfterSelection = addon.closeAfterSelection
               /\ NoShowAfter(toHelper', 0)
        BY <1>1, <3>2, HelperTail
      <4> QED
        BY <1>2, <2>3, <2>4, <4>1 DEF Served, OnScreen
    <3>3. CASE OnScreen
      BY <1>1, <3>3, HelperTail DEF OnScreen
    <3> QED
      BY <1>5, <2>5, <3>1, <3>2, <3>3 DEF Connected, Served
  <2> QED
    BY <1>2, <2>1, <2>3, <2>5 DEF Connected, Linked, Owner, Active
<1> QED
  BY <1>1, <1>2, <1>4, <1>5, HelperReadsStep

LEMMA HideAgrees ==
  ASSUME AgreementInv, TypeInv', ExchangeHide, UNCHANGED addonVars
  PROVE  AgreementInv'
<1> USE AgreementParts
<1> DEFINE call == Head(toHelper)
<1>1. /\ toHelper \in Seq(ToHelper) /\ toHelper # <<>> /\ toHelper' = Tail(toHelper)
      /\ call.kind = "Hide" /\ HelperReads
  BY TakesOne DEF ExchangeHide
<1>2. UNCHANGED <<addon, fresh, toAddon>>
  BY DEF ExchangeHide, addonVars
<1>3. SameLink
  BY DEF ExchangeHide, SameLink, Reset, Hidden, TypeInv, TypeOK, HelperRecords
<1>4. ScreenOrAnswer
  <2> SUFFICES ASSUME OnScreen PROVE OnScreen'
    BY DEF ScreenOrAnswer
  <2>1. call.transaction # addon.transaction
    BY <1>1, HelperTail
  <2>2. helper' = helper
    BY <2>1 DEF ExchangeHide, HidesPalette, OnScreen
  <2> QED
    BY <1>1, <1>2, <2>2 DEF OnScreen, HelperReads
<1> QED
  BY <1>1, <1>2, <1>3, <1>4, HelperGoesOnStep

LEMMA PeerGoneAgrees ==
  ASSUME AgreementInv, TypeInv', PeerDisconnected, UNCHANGED addonVars
  PROVE  AgreementInv'
<1> USE AgreementParts
<1>1. /\ HelperReads
      /\ \A n, kinds : OnlyHears(toHelper, n, kinds) => "PeerGone" \in kinds
  BY TakesOne DEF PeerDisconnected
<1>2. UNCHANGED <<addon, fresh, toAddon>>
  BY DEF PeerDisconnected, addonVars
<1>3. HandshakePeer = 0 /\ ~Connected
  BY <1>1 DEF HandshakePeer, Connected
<1>4. TrueWelcomes(toAddon', addon.pendingCall, HandshakePeer')
  BY <1>2, <1>3, NamesNothing
<1> QED
  BY <1>1, <1>2, <1>3, <1>4, HelperReadsStep

\* A choice of the helper answers the transaction on the screen.
LEMMA ChooseAnswers ==
  ASSUME TypeInv, NEW h \in HelperRecords, h.transaction = helper.transaction,
         h.name = helper.name, h.up = helper.up, h.negotiated = helper.negotiated,
         h.peerOwner = helper.peerOwner, ChooseFrom(h)
  PROVE  /\ SameLink
         /\ \/ UNCHANGED toAddon
            \/ \E m : /\ toAddon' = Append(toAddon, m)
                      /\ m.kind \in {"Selected", "Cancelled"}
         /\ Active => ScreenOrAnswer
<1> DEFINE done == [h EXCEPT !.transaction = 0, !.validator = NoSequence]
           m == Selected(h.name, h.transaction, h.query)
<1>1. /\ done \in HelperRecords /\ done.up = h.up /\ done.name = h.name
      /\ done.negotiated = h.negotiated /\ done.peerOwner = h.peerOwner
  BY Ranges DEF NoSequence, BeginSequence, HelperRecords, Validators
<1>2. \A g \in HelperRecords : /\ Hidden(g).up = g.up /\ Hidden(g).name = g.name
                               /\ Hidden(g).negotiated = g.negotiated
                               /\ Hidden(g).peerOwner = g.peerOwner
  BY DEF Hidden, HelperRecords
<1>3. helper' \in {h, done, Hidden(h), Hidden(done)}
  BY DEF ChooseFrom
<1> HIDE DEF done
<1>4. SameLink
  BY <1>1, <1>2, <1>3 DEF SameLink
<1>5. m.kind = "Selected" /\ m.transaction = helper.transaction /\ m.from = helper.name
  BY DEF Selected
<1>6. CASE h.transaction = 0
  BY <1>4, <1>6 DEF ChooseFrom, ScreenOrAnswer, OnScreen, Active
<1>7. CASE h.transaction # 0
  <2>1. toAddon' = Append(toAddon, m)
    BY <1>7 DEF ChooseFrom, Emits
  <2> HIDE DEF m
  <2>2. AnsweredIn(toAddon', helper.transaction, helper.name)
    BY <1>5, <2>1, AddonAppend DEF TypeInv, TypeOK
  <2> QED
    BY <1>4, <1>5, <2>1, <2>2 DEF ScreenOrAnswer, OnScreen
<1> QED
  BY <1>6, <1>7

LEMMA CommandAgrees ==
  ASSUME AgreementInv, TypeInv', ExchangeCommand, UNCHANGED addonVars
  PROVE  AgreementInv'
<1> USE AgreementParts
<1> DEFINE call == Head(toHelper)
           h == Counted(call)
<1>1. /\ toHelper \in Seq(ToHelper) /\ toHelper # <<>> /\ toHelper' = Tail(toHelper)
      /\ call \in ToHelper /\ call.kind = "Command" /\ HelperReads
  BY TakesOne DEF ExchangeCommand
<1>2. UNCHANGED <<addon, fresh>> /\ helper \in HelperRecords
  BY DEF addonVars, TypeInv, TypeOK
<1>3. CASE UNCHANGED <<helper, toAddon, chosen, escaped>>
  <2>1. SameLink /\ ScreenOrAnswer
    BY <1>1, <1>2, <1>3 DEF SameLink, ScreenOrAnswer, OnScreen, HelperReads
  <2> QED
    BY <1>1, <1>2, <1>3, <2>1, HelperGoesOnStep
<1>4. CASE Handles(call) /\ Handled(call)
  <2>1. call.sequence \in CommandNumbers /\ call.text \in Searches
    BY <1>1 DEF ToHelper
  <2>2. /\ h \in HelperRecords /\ h.transaction = helper.transaction
        /\ h.name = helper.name /\ h.up = helper.up /\ h.negotiated = helper.negotiated
        /\ h.peerOwner = helper.peerOwner /\ h.visible = helper.visible
        /\ h.closeAfterSelection = helper.closeAfterSelection
        /\ h.validator.lastSequence = call.sequence
    BY <1>2, <2>1 DEF Counted, HelperRecords, Validators
  <2>3. ASSUME OnScreen PROVE call.sequence <= addon.commandSequence
    <3>1. call.transaction = addon.transaction
      BY <1>4, <2>3 DEF Handles, OnScreen
    <3> QED
      BY <1>1, <3>1, HelperTail
  <2> HIDE DEF h
  <2>4. ASSUME /\ helper'.up = h.up /\ helper'.name = h.name
               /\ helper'.negotiated = h.negotiated /\ helper'.peerOwner = h.peerOwner
               /\ helper'.visible = h.visible /\ helper'.transaction = h.transaction
               /\ helper'.closeAfterSelection = h.closeAfterSelection
               /\ helper'.validator = h.validator,
               UNCHANGED toAddon
        PROVE  AgreementInv'
    <3>1. SameLink
      BY <2>2, <2>4 DEF SameLink
    <3>2. ScreenOrAnswer
      BY <1>1, <1>2, <2>2, <2>3, <2>4 DEF ScreenOrAnswer, OnScreen, HelperReads
    <3> QED
      BY <1>1, <1>2, <2>4, <3>1, <3>2, HelperGoesOnStep
  <2>5. CASE call.command = "SearchText"
    <3>1. helper' = [h EXCEPT !.query = call.text] /\ UNCHANGED toAddon
      BY <1>4, <2>5 DEF Handled, h
    <3> QED
      BY <2>2, <2>4, <3>1 DEF HelperRecords
  <2>6. CASE call.command = "Cancel"
    <3>1. CancelFromKeyboard(h)
      BY <1>4, <2>6 DEF Handled, h
    <3>2. CASE h.settingsPanel
      <4>1. helper' = [h EXCEPT !.settingsPanel = FALSE] /\ UNCHANGED toAddon
        BY <3>1, <3>2 DEF CancelFromKeyboard
      <4> QED
        BY <2>2, <2>4, <4>1 DEF HelperRecords
    <3>3. CASE ~h.settingsPanel
      <4> DEFINE m == Cancelled(h.name, h.transaction)
      <4>1. helper' = Reset(h) /\ toAddon' = Append(toAddon, m)
        BY <3>1, <3>3 DEF CancelFromKeyboard, Emits
      <4>2. m.kind = "Cancelled" /\ m.transaction = helper.transaction /\ m.from = helper.name
        BY <2>2 DEF Cancelled
      <4>3. SameLink
        BY <2>2, <4>1 DEF SameLink, Reset, Hidden, HelperRecords
      <4> HIDE DEF m
      <4>4. AnsweredIn(toAddon', helper.transaction, helper.name)
        BY <4>1, <4>2, AddonAppend
      <4>5. ScreenOrAnswer
        BY <4>4 DEF ScreenOrAnswer, OnScreen
      <4> QED
        BY <1>1, <1>2, <4>1, <4>2, <4>3, <4>5, HelperGoesOnStep
    <3> QED
      BY <3>2, <3>3
  <2>7. CASE call.command = "Select"
    <3>1. ChooseFrom(h) \/ (helper' = h /\ UNCHANGED toAddon)
      BY <1>4, <2>7 DEF Handled, h
    <3>2. CASE ChooseFrom(h)
      BY <1>1, <1>2, <2>2, <3>2, ChooseAnswers, HelperGoesOnStep
    <3>3. CASE helper' = h /\ UNCHANGED toAddon
      BY <2>4, <3>3
    <3> QED
      BY <3>1, <3>2, <3>3
  <2>8. CASE call.command \notin {"SearchText", "Cancel", "Select"}
    <3>1. helper' = h /\ UNCHANGED toAddon
      BY <1>4, <2>8 DEF Handled, h
    <3> QED
      BY <2>4, <3>1
  <2> QED
    BY <2>5, <2>6, <2>7, <2>8
<1> QED
  BY <1>3, <1>4 DEF ExchangeCommand

LEMMA ClickAgrees ==
  ASSUME AgreementInv, TypeInv', ClickEmoji \/ ClickSettings, UNCHANGED addonVars
  PROVE  AgreementInv'
<1>1. helper \in HelperRecords /\ UNCHANGED <<addon, fresh, toHelper>> /\ TypeInv
  BY AgreementParts DEF TypeInv, TypeOK, addonVars, ClickEmoji, ClickSettings
<1>2. CASE ClickEmoji
  BY <1>1, <1>2, ChooseAnswers, HelperGoesOnStep DEF ClickEmoji
<1>3. CASE ClickSettings
  <2>1. SameLink /\ ScreenOrAnswer /\ UNCHANGED toAddon
    BY <1>1, <1>3 DEF ClickSettings, SameLink, ScreenOrAnswer, OnScreen, HelperRecords
  <2> QED
    BY <1>1, <2>1, HelperGoesOnStep
<1> QED
  BY <1>2, <1>3

\* The error of a lost call is no answer to anything.
LEMMA ErrorAppended ==
  ASSUME TypeInv, NEW q \in Seq(ToAddon), NEW n \in 0 .. Len(toHelper)
  PROVE  /\ \A f : WelcomesBelow(q, f) => WelcomesBelow(q \o ErrorIfLost(n), f)
         /\ \A p, peer : TrueWelcomes(q, p, peer) => TrueWelcomes(q \o ErrorIfLost(n), p, peer)
         /\ \A o : GoneIn(q, o, 0) => GoneIn(q \o ErrorIfLost(n), o, 0)
<1> DEFINE m == CallError(addon.pendingCall)
<1>1. ErrorIfLost(n) = <<>> \/ ErrorIfLost(n) = <<m>>
  BY DEF ErrorIfLost
<1>2. m.kind = "CallError"
  BY DEF CallError
<1> HIDE DEF m
<1>3. CASE ErrorIfLost(n) = <<>>
  <2>1. q \o <<>> = q
    OBVIOUS
  <2> QED
    BY <1>3, <2>1
<1>4. CASE ErrorIfLost(n) = <<m>>
  <2>1. m \in ToAddon
    <3>1. ErrorIfLost(n) \in Seq(ToAddon)
      BY ErrorType
    <3>2. <<m>> \in Seq(ToAddon)
      BY <1>4, <3>1
    <3> QED
      BY <3>2
  <2>2. q \o <<m>> = Append(q, m)
    BY <2>1
  <2>3. /\ \A f : WelcomesBelow(q, f) => WelcomesBelow(Append(q, m), f)
        /\ \A p, peer : TrueWelcomes(q, p, peer) => TrueWelcomes(Append(q, m), p, peer)
        /\ \A o : GoneIn(q, o, 0) => GoneIn(Append(q, m), o, 0)
    BY <1>2, AddonAppend
  <2> QED
    BY <1>4, <2>2, <2>3
<1> QED
  BY <1>1, <1>3, <1>4

LEMMA BusAgrees ==
  ASSUME AgreementInv, TypeInv', StartHelper \/ StartFails \/ HelperDies
  PROVE  AgreementInv'
<1> USE AgreementParts
<1>1. UNCHANGED <<addon, fresh>>
  BY DEF StartHelper, StartFails, HelperDies, BusUnchanged
<1>2. CASE StartHelper \/ StartFails
  <2>1. HandshakePeer = 0 /\ ~Connected
    BY <1>2 DEF StartHelper, StartFails, HandshakePeer, Connected, Linked
  <2>2. TrueWelcomes(toAddon, addon.pendingCall, HandshakePeer')
    BY <2>1, NamesNothing
  <2>3. CASE StartHelper
    <3>1. UNCHANGED <<toHelper, toAddon>>
      BY <2>3 DEF StartHelper
    <3> QED
      BY <1>1, <2>1, <2>2, <3>1, HelperReadsStep DEF HelperReads
  <2>4. CASE StartFails
    <3>1. toHelper' = <<>> /\ toAddon' = toAddon \o ErrorIfLost(Len(toHelper))
      BY <2>4 DEF StartFails
    <3>2. HelperReads
      BY <3>1 DEF HelperReads, OnlyHears, NoShowAfter, CallsBelow, NoHideOf, CommandsUpTo,
                  HelloIsLast
    <3>3. Len(toHelper) \in 0 .. Len(toHelper)
      OBVIOUS
    <3> QED
      BY <1>1, <2>1, <2>2, <3>1, <3>2, <3>3, ErrorAppended, HelperReadsStep
  <2> QED
    BY <1>2, <2>3, <2>4
<1>3. CASE HelperDies
  <2>1. PICK routed \in 0 .. Len(toHelper) :
          /\ toHelper' = SubSeq(toHelper, routed + 1, Len(toHelper))
          /\ toAddon' = Append(toAddon, OwnerGone(helper.name)) \o ErrorIfLost(routed)
    BY <1>3 DEF HelperDies
  <2> DEFINE m == OwnerGone(helper.name)
             q == Append(toAddon, m)
  <2>2. m.kind = "OwnerGone" /\ m.from = helper.name /\ m \in ToAddon
    <3>1. helper.name \in HelperNames
      BY <1>3 DEF HelperDies, TypeInv, TypeOK, LiveName, HelperRecords, MaybeHelper,
                  HelperNames
    <3> QED
      BY <3>1 DEF OwnerGone, ToAddon
  <2>3. toAddon' = q \o ErrorIfLost(routed)
    BY <2>1
  <2> HIDE DEF m
  <2>4. q \in Seq(ToAddon)
    BY <2>2
  <2>5. /\ WelcomesBelow(q, fresh)
        /\ \A o : GoneIn(toAddon, o, 0) => GoneIn(q, o, 0)
        /\ GoneIn(q, helper.name, 0)
    BY <2>2, AddonAppend
  <2>6. TrueWelcomes(q, addon.pendingCall, HandshakePeer')
    <3>1. CASE HandshakePeer = 0
      <4>1. TrueWelcomes(toAddon, addon.pendingCall, HandshakePeer')
        BY <3>1, NamesNothing
      <4> QED
        BY <2>2, <4>1, AddonAppend
    <3>2. CASE HandshakePeer # 0
      <4>1. HandshakePeer = helper.name
        BY <3>2 DEF HandshakePeer
      <4> QED
        BY <2>2, <4>1, AddonAppend
    <3> QED
      BY <3>1, <3>2
  <2> HIDE DEF q
  <2>7. HelperReads
    <3>1. routed \in Nat
      OBVIOUS
    <3>2. /\ toHelper' \in Seq(ToHelper)
          /\ \A i \in DOMAIN toHelper' : /\ i + routed \in DOMAIN toHelper
                                         /\ toHelper'[i] = toHelper[i + routed]
      BY <2>1, <3>1, SubSeqProperties
    <3> QED
      BY <3>1, <3>2, HelperCut DEF HelperReads
  <2>8. /\ WelcomesBelow(toAddon', fresh)
        /\ TrueWelcomes(toAddon', addon.pendingCall, HandshakePeer')
        /\ \A o : GoneIn(q, o, 0) => GoneIn(toAddon', o, 0)
    BY <2>3, <2>4, <2>5, <2>6, ErrorAppended
  <2>9. Ready => GoneIn(toAddon', Owner, 0)
    BY <2>5, <2>8 DEF Connected, Linked
  <2> QED
    BY <1>1, <2>7, <2>8, <2>9, HelperReadsStep
<1> QED
  BY <1>2, <1>3

(***************************************************************************)
(* The theorem.                                                            *)
(***************************************************************************)

LEMMA AgreementStep ==
  ASSUME AgreementInv, [Next]_vars
  PROVE  AgreementInv'
<1>1. TypeInv /\ TypeInv'
  BY TypeStep DEF AgreementInv
<1>2. CASE AddonHears
  BY <1>1, <1>2, ReplyMoves, SelectedMoves, NoticeShape, AddonShapeStep DEF AddonHears
<1>3. CASE HelperHears
  BY <1>1, <1>3, HelloAgrees, ShowAgrees, CommandAgrees, HideAgrees, PeerGoneAgrees
     DEF HelperHears
<1>4. CASE Timeout
  BY <1>1, <1>4, TimeoutMoves, AddonShapeStep
<1>5. CASE User
  BY <1>1, <1>5, TriggerMoves, KeyShape, AddonShapeStep, ClickAgrees DEF User
<1>6. CASE ClientEvents
  BY <1>1, <1>6, ClientMoves, AddonShapeStep
<1>7. CASE StartHelper \/ StartFails \/ HelperDies
  BY <1>1, <1>7, BusAgrees
<1>8. CASE RestartAddon
  BY <1>1, <1>8, RestartShape, AddonShapeStep
<1>9. CASE UNCHANGED vars
  BY <1>1, <1>9
     DEF vars, addonVars, helperVars, AgreementInv, Drawn, InFlight, SessionIsTrue, Ready, Owner,
         Linked, HandshakePeer, Connected, Served, OnScreen, Active
<1> QED
  BY <1>2, <1>3, <1>4, <1>5, <1>6, <1>7, <1>8, <1>9 DEF Next

\* With nothing in flight the agreement is all that remains.
LEMMA AgreementWhenQuiet ==
  ASSUME AgreementInv
  PROVE  QuietAgreement
<1> SUFFICES ASSUME Quiet, Active, IsReady(addon.session)
             PROVE  Linked(Owner) /\ OnScreen
  BY DEF QuietAgreement, Linked, OnScreen, Owner
<1>1. \A o : ~GoneIn(toAddon, o, 0)
  BY DEF Quiet, GoneIn
<1>2. \A t, o : ~AnsweredIn(toAddon, t, o)
  BY DEF Quiet, AnsweredIn
<1>3. \A t, close : ~SentIn(toHelper, t, close)
  BY DEF Quiet, SentIn
<1> QED
  BY <1>1, <1>2, <1>3 DEF AgreementInv, SessionIsTrue, Ready, Connected, Served

\* Once all messages are handled, the active transaction of a ready session is on the
\* screen of its owner, with the option's value, and no command is ahead of the
\* addon's counter: whatever was lost, refused, restarted or crossed before.
THEOREM QuietSystemsAgree == Spec => []QuietAgreement
<1>1. Init => AgreementInv
  BY AgreementInit
<1>2. AgreementInv /\ [Next]_vars => AgreementInv'
  BY AgreementStep
<1>3. AgreementInv => QuietAgreement
  BY AgreementWhenQuiet
<1> QED
  BY <1>1, <1>2, <1>3, PTL DEF Spec

(***************************************************************************)
(* No palette without a transaction, where palettes close after a          *)
(* selection and every envelope is sent. What this needs of the queues.    *)
(***************************************************************************)

AlwaysCloses == CloseSettings = {TRUE} /\ SendOutcomes = {TRUE}

\* Every message of r is one of q.
Within(r, q) == \A i \in DOMAIN r : \E j \in DOMAIN q : r[i] = q[j]

NoHello(q) == \A i \in DOMAIN q : q[i].kind # "Hello"

ShowsClose(q) == \A i \in DOMAIN q : q[i].kind = "Show" => q[i].closeAfterSelection

\* No Show comes behind a Hello.
GreetFirst(q) ==
  \A i, j \in DOMAIN q : i < j /\ q[i].kind = "Hello" => q[j].kind # "Show"

ShowsBelow(q, f) == \A i \in DOMAIN q : q[i].kind = "Show" => q[i].transaction < f

NoShowOf(q, t) == \A i \in DOMAIN q : q[i].kind = "Show" => q[i].transaction # t

ShownOnce(q) ==
  \A i, j \in DOMAIN q : i < j /\ q[i].kind = "Show" /\ q[j].kind = "Show"
                           => q[i].transaction # q[j].transaction

\* Behind the place k comes what takes the transaction t of the addon n off the screen.
EndIn(q, k, n, t) ==
  \E j \in DOMAIN q : /\ j > k /\ q[j].from = n
                      /\ \/ q[j].kind \in {"Show", "PeerGone"}
                         \/ q[j].kind = "Hide" /\ q[j].transaction = t

Answer(m) == m.kind \in {"Selected", "Cancelled"}
AnswersBelow(r, f) == \A i \in DOMAIN r : Answer(r[i]) => r[i].transaction < f
NoAnswerOf(r, t) == \A i \in DOMAIN r : Answer(r[i]) => r[i].transaction # t

\* The notices are of helpers that are gone.
GoneOnly(r, name, up) ==
  \A i \in DOMAIN r : r[i].kind = "OwnerGone" => r[i].from <= name /\ (up => r[i].from # name)

\* What holds of each message, pair or place holds of what is left of a queue.
LEMMA OrphanCut ==
  ASSUME NEW q \in Seq(ToHelper), NEW r \in Seq(ToHelper), NEW k \in Nat,
         \A i \in DOMAIN r : i + k \in DOMAIN q /\ r[i] = q[i + k]
  PROVE  /\ NoHello(q) => NoHello(r)
         /\ ShowsClose(q) => ShowsClose(r)
         /\ GreetFirst(q) => GreetFirst(r)
         /\ \A f : ShowsBelow(q, f) => ShowsBelow(r, f)
         /\ \A t : NoShowOf(q, t) => NoShowOf(r, t)
         /\ ShownOnce(q) => ShownOnce(r)
<1>1. \A i \in DOMAIN r : i \in Nat /\ i + k \in DOMAIN q /\ r[i] = q[i + k]
  OBVIOUS
<1>2. \A i, j \in DOMAIN r : i < j => i + k < j + k
  BY <1>1
<1>3. GreetFirst(q) => GreetFirst(r)
  BY <1>1, <1>2 DEF GreetFirst
<1>4. ShownOnce(q) => ShownOnce(r)
  BY <1>1, <1>2 DEF ShownOnce
<1> QED
  BY <1>1, <1>3, <1>4 DEF NoHello, ShowsClose, ShowsBelow, NoShowOf

\* Taking the head.
LEMMA OrphanTail ==
  ASSUME NEW q \in Seq(ToHelper), q # <<>>
  PROVE  /\ NoHello(q) => NoHello(Tail(q)) /\ Head(q).kind # "Hello"
         /\ ShowsClose(q) => /\ ShowsClose(Tail(q))
                             /\ Head(q).kind = "Show" => Head(q).closeAfterSelection
         /\ GreetFirst(q) => /\ GreetFirst(Tail(q))
                             /\ Head(q).kind = "Hello" =>
                                  \A i \in DOMAIN Tail(q) : Tail(q)[i].kind # "Show"
         /\ \A f : ShowsBelow(q, f) => ShowsBelow(Tail(q), f)
         /\ \A t : NoShowOf(q, t) => NoShowOf(Tail(q), t)
         /\ ShownOnce(q) => /\ ShownOnce(Tail(q))
                            /\ Head(q).kind = "Show" => NoShowOf(Tail(q), Head(q).transaction)
         /\ \A k \in Nat : \A n, t : EndIn(q, k + 1, n, t) => EndIn(Tail(q), k, n, t)
         /\ \A n, t : EndIn(q, 0, n, t) =>
              \/ EndIn(Tail(q), 0, n, t)
              \/ /\ Head(q).from = n
                 /\ \/ Head(q).kind \in {"Show", "PeerGone"}
                    \/ Head(q).kind = "Hide" /\ Head(q).transaction = t
<1> DEFINE r == Tail(q)
<1>1. /\ 1 \in DOMAIN q /\ q[1] = Head(q)
      /\ \A i \in DOMAIN r : i \in Nat /\ i + 1 \in DOMAIN q /\ r[i] = q[i + 1]
      /\ \A i \in DOMAIN q : i # 1 => i - 1 \in DOMAIN r /\ r[i - 1] = q[i]
      /\ \A i \in DOMAIN q : i \in Nat /\ i # 0
  BY TailPlaces
<1>2. r \in Seq(ToHelper) /\ \A i \in DOMAIN r : i # 0
  OBVIOUS
<1>3. /\ NoHello(q) => NoHello(r)
      /\ ShowsClose(q) => ShowsClose(r)
      /\ GreetFirst(q) => GreetFirst(r)
      /\ \A f : ShowsBelow(q, f) => ShowsBelow(r, f)
      /\ \A t : NoShowOf(q, t) => NoShowOf(r, t)
      /\ ShownOnce(q) => ShownOnce(r)
  BY <1>1, <1>2, OrphanCut
<1> HIDE DEF r
<1>4. /\ NoHello(q) => Head(q).kind # "Hello"
      /\ ShowsClose(q) => (Head(q).kind = "Show" => Head(q).closeAfterSelection)
  BY <1>1 DEF NoHello, ShowsClose
<1>5. \A i \in DOMAIN r : 1 < i + 1 /\ i + 1 \in DOMAIN q /\ r[i] = q[i + 1]
  BY <1>1, <1>2
<1>6. GreetFirst(q) => (Head(q).kind = "Hello" => \A i \in DOMAIN r : r[i].kind # "Show")
  BY <1>1, <1>5 DEF GreetFirst
<1>7. ShownOnce(q) => (Head(q).kind = "Show" => NoShowOf(r, Head(q).transaction))
  BY <1>1, <1>5 DEF ShownOnce, NoShowOf
<1>8. ASSUME NEW k \in Nat, NEW n, NEW t, EndIn(q, k + 1, n, t)
      PROVE  EndIn(r, k, n, t)
  <2>1. PICK j \in DOMAIN q : /\ j > k + 1 /\ q[j].from = n
                              /\ \/ q[j].kind \in {"Show", "PeerGone"}
                                 \/ q[j].kind = "Hide" /\ q[j].transaction = t
    BY <1>8 DEF EndIn
  <2>2. j - 1 \in DOMAIN r /\ r[j - 1] = q[j] /\ j - 1 > k
    BY <1>1, <2>1
  <2> QED
    BY <2>1, <2>2 DEF EndIn
<1>9. ASSUME NEW n, NEW t, EndIn(q, 0, n, t)
      PROVE  \/ EndIn(r, 0, n, t)
             \/ /\ Head(q).from = n
                /\ \/ Head(q).kind \in {"Show", "PeerGone"}
                   \/ Head(q).kind = "Hide" /\ Head(q).transaction = t
  <2>1. PICK j \in DOMAIN q : /\ q[j].from = n
                              /\ \/ q[j].kind \in {"Show", "PeerGone"}
                                 \/ q[j].kind = "Hide" /\ q[j].transaction = t
    BY <1>9 DEF EndIn
  <2>2. CASE j = 1
    BY <1>1, <2>1, <2>2
  <2>3. CASE j # 1
    <3>1. j - 1 \in DOMAIN r /\ r[j - 1] = q[j] /\ j - 1 > 0
      BY <1>1, <2>3
    <3> QED
      BY <2>1, <3>1 DEF EndIn
  <2> QED
    BY <2>2, <2>3
<1>10. \A k \in Nat : \A n, t : EndIn(q, k + 1, n, t) => EndIn(r, k, n, t)
  BY <1>8
<1>11. \A n, t : EndIn(q, 0, n, t) =>
         \/ EndIn(r, 0, n, t)
         \/ /\ Head(q).from = n
            /\ \/ Head(q).kind \in {"Show", "PeerGone"}
               \/ Head(q).kind = "Hide" /\ Head(q).transaction = t
  BY <1>9
<1> QED
  BY <1>3, <1>4, <1>6, <1>7, <1>10, <1>11 DEF r

\* A message more.
LEMMA OrphanAppend ==
  ASSUME NEW q \in Seq(ToHelper), NEW m
  PROVE  /\ NoHello(q) /\ m.kind # "Hello" => NoHello(Append(q, m))
         /\ ShowsClose(q) /\ (m.kind = "Show" => m.closeAfterSelection)
              => ShowsClose(Append(q, m))
         /\ GreetFirst(q) /\ (m.kind # "Show" \/ NoHello(q)) => GreetFirst(Append(q, m))
         /\ \A f : ShowsBelow(q, f) /\ (m.kind = "Show" => m.transaction < f)
                     => ShowsBelow(Append(q, m), f)
         /\ \A t : NoShowOf(q, t) /\ (m.kind = "Show" => m.transaction # t)
                     => NoShowOf(Append(q, m), t)
         /\ ShownOnce(q) /\ (m.kind = "Show" => NoShowOf(q, m.transaction))
              => ShownOnce(Append(q, m))
         /\ \A k, n, t : EndIn(q, k, n, t) => EndIn(Append(q, m), k, n, t)
         /\ \A t : m.kind \in {"Show", "PeerGone"} \/ (m.kind = "Hide" /\ m.transaction = t)
              => \A k \in 0 .. Len(q) : EndIn(Append(q, m), k, m.from, t)
<1> DEFINE r == Append(q, m)
           z == Len(q) + 1
<1>1. /\ z \in Nat /\ Len(q) \in Nat /\ z > Len(q) /\ r[z] = m
      /\ DOMAIN r = DOMAIN q \cup {z}
      /\ \A i \in DOMAIN q : r[i] = q[i] /\ i \in Nat /\ i # 0 /\ i < z
  BY AppendPlaces
<1> HIDE DEF r, z
<1>2. /\ NoHello(q) /\ m.kind # "Hello" => NoHello(r)
      /\ ShowsClose(q) /\ (m.kind = "Show" => m.closeAfterSelection) => ShowsClose(r)
  BY <1>1 DEF NoHello, ShowsClose
<1>3. GreetFirst(q) /\ (m.kind # "Show" \/ NoHello(q)) => GreetFirst(r)
  BY <1>1 DEF GreetFirst, NoHello
<1>4. /\ \A f : ShowsBelow(q, f) /\ (m.kind = "Show" => m.transaction < f) => ShowsBelow(r, f)
      /\ \A t : NoShowOf(q, t) /\ (m.kind = "Show" => m.transaction # t) => NoShowOf(r, t)
  BY <1>1 DEF ShowsBelow, NoShowOf
<1>5. ShownOnce(q) /\ (m.kind = "Show" => NoShowOf(q, m.transaction)) => ShownOnce(r)
  BY <1>1 DEF ShownOnce, NoShowOf
<1>6. \A k, n, t : EndIn(q, k, n, t) => EndIn(r, k, n, t)
  BY <1>1 DEF EndIn
<1>7. \A t : m.kind \in {"Show", "PeerGone"} \/ (m.kind = "Hide" /\ m.transaction = t)
               => \A k \in 0 .. Len(q) : EndIn(r, k, m.from, t)
  BY <1>1 DEF EndIn
<1> QED
  BY <1>2, <1>3, <1>4, <1>5, <1>6, <1>7 DEF r

\* What the addon has yet to hear.
LEMMA AnswersWithin ==
  ASSUME NEW q, NEW r, Within(r, q)
  PROVE  /\ \A t, o : AnsweredIn(r, t, o) => AnsweredIn(q, t, o)
         /\ \A f : AnswersBelow(q, f) => AnswersBelow(r, f)
         /\ \A t : NoAnswerOf(q, t) => NoAnswerOf(r, t)
         /\ \A name, up : GoneOnly(q, name, up) => GoneOnly(r, name, up)
BY DEF Within, AnsweredIn, AnswersBelow, NoAnswerOf, GoneOnly

LEMMA WithinTail ==
  ASSUME NEW q \in Seq(ToAddon)
  PROVE  /\ Within(q, q) /\ Within(<<>>, q)
         /\ q # <<>> => Within(Tail(q), q)
<1>1. Within(q, q) /\ Within(<<>>, q)
  BY DEF Within
<1>2. q # <<>> => Within(Tail(q), q)
  BY TailPlaces DEF Within
<1> QED
  BY <1>1, <1>2

LEMMA AnswersAppend ==
  ASSUME NEW q \in Seq(ToAddon), NEW m
  PROVE  /\ \A f : AnswersBelow(q, f) /\ (Answer(m) => m.transaction < f)
                     => AnswersBelow(Append(q, m), f)
         /\ \A t : NoAnswerOf(q, t) /\ (Answer(m) => m.transaction # t)
                     => NoAnswerOf(Append(q, m), t)
         /\ \A t, o : AnsweredIn(Append(q, m), t, o)
                        => AnsweredIn(q, t, o) \/ (Answer(m) /\ m.transaction = t)
         /\ \A name, up : GoneOnly(q, name, up) /\ m.kind # "OwnerGone"
                            => GoneOnly(Append(q, m), name, up)
<1> DEFINE r == Append(q, m)
           n == Len(q) + 1
<1>1. /\ r[n] = m /\ DOMAIN r = DOMAIN q \cup {n} /\ \A i \in DOMAIN q : r[i] = q[i]
  BY AppendPlaces
<1> HIDE DEF r, n
<1> QED
  BY <1>1 DEF AnswersBelow, NoAnswerOf, AnsweredIn, GoneOnly, Answer, r

(***************************************************************************)
(* The inductive invariant.                                                *)
(***************************************************************************)

Closes ==
  /\ AlwaysCloses /\ addon.closeAfterSelection
  /\ helper.visible => helper.closeAfterSelection
  /\ ShowsClose(toHelper)

\* If the addon is the helper's peer, the helper is `o`.
PeerIsOf(o) == helper.negotiated /\ helper.peerOwner = addon.name => helper.name = o

\* Behind the last greeting of a session come only messages of that session.
Greeted ==
  /\ GreetFirst(toHelper)
  /\ Ready => NoHello(toHelper) /\ PeerIsOf(Owner)
  /\ \A i \in DOMAIN toAddon :
       toAddon[i].kind = "Welcome" /\ toAddon[i].call = addon.pendingCall
         => NoHello(toHelper) /\ PeerIsOf(toAddon[i].from)

Alive ==
  /\ GoneOnly(toAddon, helper.name, helper.up)
  /\ helper.negotiated => helper.up

\* A transaction is shown once and answered once.
Distinct ==
  /\ helper.transaction < fresh
  /\ ShowsBelow(toHelper, fresh) /\ AnswersBelow(toAddon, fresh)
  /\ ShownOnce(toHelper) /\ NoShowOf(toHelper, helper.transaction)

Unsent(t) ==
  helper.transaction # t /\ NoShowOf(toHelper, t) /\ NoAnswerOf(toAddon, t)

\* The transaction the addon waits for in its session.
Awaited(t) ==
  /\ Ready /\ t # 0 /\ t = addon.transaction /\ helper.peerOwner = addon.name
  /\ ~AnsweredIn(toAddon, t, Owner)

\* What the helper shows, or is to show behind the place k, is awaited or taken back.
Covered(k, t) == Awaited(t) \/ EndIn(toHelper, k, helper.peerOwner, t)

Screen ==
  helper.visible =>
    helper.negotiated /\ helper.transaction # 0 /\ Covered(0, helper.transaction)

Coming ==
  \A i \in DOMAIN toHelper :
    toHelper[i].kind = "Show" /\ FromPeer(toHelper[i]) => Covered(i, toHelper[i].transaction)

OrphanInv ==
  /\ AgreementInv
  /\ Closes /\ Greeted /\ Alive /\ Distinct
  /\ ~Ready /\ Active => Unsent(addon.transaction)
  /\ Screen /\ Coming

\* With nothing in flight nothing is awaited without a transaction.
LEMMA NothingAwaited ==
  ASSUME OrphanInv
  PROVE  NoOrphanPalette
BY DEF OrphanInv, NoOrphanPalette, Quiet, Active, Screen, Covered, Awaited, EndIn

\* No Show names the identifier 0.
LEMMA ShowsNameSome ==
  ASSUME NEW q \in Seq(ToHelper)
  PROVE  /\ NoShowOf(q, 0)
         /\ \A i \in DOMAIN q : q[i].kind = "Show" => q[i].transaction \in Txns
<1>1. \A m \in ToHelper : m.kind = "Show" => m.transaction \in Txns
  BY DEF ToHelper
<1>2. \A i \in DOMAIN q : q[i] \in ToHelper
  OBVIOUS
<1> QED
  BY <1>1, <1>2 DEF NoShowOf, Txns

\* Nor does one name an identifier not drawn yet; the bound may rise.
LEMMA BelowIsUnnamed ==
  ASSUME NEW q \in Seq(ToHelper), NEW r \in Seq(ToAddon), NEW f \in Nat,
         ShowsBelow(q, f), AnswersBelow(r, f)
  PROVE  /\ NoShowOf(q, f) /\ NoAnswerOf(r, f)
         /\ ShowsBelow(q, f + 1) /\ AnswersBelow(r, f + 1)
<1>1. \A i \in DOMAIN q : q[i].kind = "Show" => q[i].transaction \in Nat
  BY ShowsNameSome DEF Txns
<1>2. \A i \in DOMAIN r : Answer(r[i]) => r[i].transaction \in Nat
  <2>1. \A m \in ToAddon : Answer(m) => m.transaction \in Nat
    BY DEF ToAddon, Answer, Txns
  <2>2. \A i \in DOMAIN r : r[i] \in ToAddon
    OBVIOUS
  <2> QED
    BY <2>1, <2>2
<1> QED
  BY <1>1, <1>2 DEF ShowsBelow, AnswersBelow, NoShowOf, NoAnswerOf

LEMMA NoAnswerAnswers ==
  ASSUME NEW r, NEW t, NoAnswerOf(r, t)
  PROVE  \A o : ~AnsweredIn(r, t, o)
BY DEF NoAnswerOf, AnsweredIn, Answer

LEMMA OrphanParts ==
  ASSUME OrphanInv
  PROVE  /\ AgreementInv /\ TypeInv
         /\ fresh \in Nat /\ addon.transaction \in Nat /\ addon.pendingCall \in Nat
         /\ helper.transaction \in Nat /\ helper.name \in Nat
         /\ toHelper \in Seq(ToHelper) /\ toAddon \in Seq(ToAddon)
         /\ addon.transaction < fresh /\ addon.pendingCall < fresh
         /\ WelcomesBelow(toAddon, fresh)
         /\ HelloIsLast(toHelper, addon.pendingCall, addon.name)
         /\ Ready => addon.pendingCall = 0
         /\ Closes /\ Greeted /\ Alive /\ Distinct /\ Screen /\ Coming
         /\ ~Ready /\ Active => Unsent(addon.transaction)
<1>1. helper.transaction \in MaybeTxn /\ helper.name \in MaybeHelper
  BY AgreementParts DEF OrphanInv, TypeInv, TypeOK, HelperRecords
<1> QED
  BY <1>1, AgreementParts DEF OrphanInv, MaybeTxn, MaybeHelper

LEMMA OrphanInit ==
  ASSUME Init, AlwaysCloses
  PROVE  OrphanInv
<1>1. /\ AgreementInv /\ toHelper = <<>> /\ toAddon = <<>> /\ fresh = 1
      /\ addon.transaction = 0 /\ addon.closeAfterSelection /\ addon.session.state = "Disconnected"
  BY AgreementInit DEF Init, AddonInit, NewAddon, NewSession
<1>2. /\ helper.transaction = 0 /\ ~helper.negotiated /\ ~helper.visible
  BY DEF Init, HelperInit, NewHelper
<1>3. /\ ShowsClose(<<>>) /\ GreetFirst(<<>>) /\ ShownOnce(<<>>) /\ NoShowOf(<<>>, 0)
      /\ ShowsBelow(<<>>, 1) /\ AnswersBelow(<<>>, 1) /\ \A n, up : GoneOnly(<<>>, n, up)
  BY DEF ShowsClose, GreetFirst, ShownOnce, NoShowOf, ShowsBelow, AnswersBelow, GoneOnly
<1>4. Closes /\ Alive /\ Distinct
  BY <1>1, <1>2, <1>3 DEF Closes, Alive, Distinct
<1>5. Greeted /\ Coming /\ Screen
  BY <1>1, <1>2, <1>3 DEF Greeted, Coming, Screen, Ready, IsReady
<1> QED
  BY <1>1, <1>4, <1>5 DEF OrphanInv, Active

(***************************************************************************)
(* The addon's steps once more: what they leave to the helper.             *)
(***************************************************************************)

\* The helper does nothing, the addon only reads, and the option keeps its value.
Turn == UNCHANGED helper /\ addon'.closeAfterSelection /\ Within(toAddon', toAddon)

SameSession ==
  /\ addon'.name = addon.name /\ addon'.session = addon.session
  /\ fresh' = fresh /\ addon'.pendingCall \in {0, addon.pendingCall}

GoesOn ==
  /\ SameSession /\ addon'.transaction = addon.transaction
  /\ \/ UNCHANGED toHelper
     \/ \E m : m.kind = "Command" /\ toHelper' = Append(toHelper, m)

\* A transaction that ends was never shown, is already answered, or is taken back.
EndsIt ==
  /\ SameSession /\ addon'.transaction = 0
  /\ \/ /\ UNCHANGED toHelper
        /\ ~Ready \/ ~Active \/ AnsweredIn(toAddon, addon.transaction, Owner)
     \/ toHelper' = Append(toHelper, Hide(addon.name, addon.transaction))

Loses ==
  /\ toAddon # <<>> /\ Head(toAddon).kind = "OwnerGone"
  /\ UNCHANGED <<fresh, toHelper>> /\ addon'.name = addon.name /\ addon'.pendingCall = 0
  /\ Ready /\ Head(toAddon).from = Owner
  /\ ~IsReady(addon'.session) /\ addon'.transaction = 0

StartsAnew ==
  /\ toAddon' = <<>> /\ UNCHANGED fresh
  /\ addon'.transaction = 0 /\ addon'.pendingCall = 0 /\ ~IsReady(addon'.session)
  /\ toHelper' = IF helper.up /\ helper.peerOwner = addon.name
                 THEN Append(toHelper, PeerGone(addon.name)) ELSE toHelper

Opens == AddonShows /\ ~Active
Calls == AddonGreets
Welcomes == AddonWelcomed /\ (addon'.transaction # 0 => IsReady(addon'.session))

OrphanShape ==
  /\ Turn
  /\ GoesOn \/ EndsIt \/ Opens \/ Calls \/ Welcomes \/ Loses \/ StartsAnew

\* Nothing new for the helper: what was awaited must still be.
LEMMA CoveredKept ==
  ASSUME OrphanInv, UNCHANGED <<helper, toHelper>>,
         helper.negotiated => \A t : Awaited(t) => Awaited(t)'
  PROVE  Screen' /\ Coming'
<1>1. helper.negotiated => \A k, t : Covered(k, t) => Covered(k, t)'
  BY DEF Covered
<1>2. Screen'
  BY <1>1, OrphanParts DEF Screen
<1>3. Coming'
  <2> SUFFICES ASSUME NEW i \in DOMAIN toHelper, toHelper[i].kind = "Show", FromPeer(toHelper[i])
               PROVE  Covered(i, toHelper[i].transaction)'
    BY DEF Coming, FromPeer
  <2> QED
    BY <1>1, OrphanParts DEF Coming, FromPeer
<1> QED
  BY <1>2, <1>3

\* A message more for the helper: what was awaited still is, or is taken back by it.
LEMMA CoveredAppend ==
  ASSUME OrphanInv, UNCHANGED helper, NEW m, toHelper' = Append(toHelper, m),
         helper.negotiated => \A t : Awaited(t) =>
           \/ Awaited(t)'
           \/ /\ m.from = helper.peerOwner
              /\ m.kind \in {"Show", "PeerGone"} \/ (m.kind = "Hide" /\ m.transaction = t),
         m.kind = "Show" /\ FromPeer(m) => Awaited(m.transaction)'
  PROVE  Screen' /\ Coming'
<1>1. toHelper \in Seq(ToHelper) /\ Screen /\ Coming
  BY OrphanParts
<1>2. helper.negotiated => \A k \in 0 .. Len(toHelper) : \A t : Covered(k, t) => Covered(k, t)'
  <2> SUFFICES ASSUME helper.negotiated, NEW k \in 0 .. Len(toHelper), NEW t, Covered(k, t)
               PROVE  Awaited(t)' \/ EndIn(toHelper', k, helper.peerOwner, t)
    BY DEF Covered
  <2>1. CASE Awaited(t)
    BY <1>1, <2>1, OrphanAppend
  <2>2. CASE EndIn(toHelper, k, helper.peerOwner, t)
    BY <1>1, <2>2, OrphanAppend
  <2> QED
    BY <2>1, <2>2 DEF Covered
<1>3. /\ Len(toHelper) \in Nat /\ DOMAIN toHelper = 1 .. Len(toHelper)
      /\ DOMAIN toHelper' = DOMAIN toHelper \cup {Len(toHelper) + 1}
      /\ toHelper'[Len(toHelper) + 1] = m
      /\ \A i \in DOMAIN toHelper : toHelper'[i] = toHelper[i]
  BY <1>1, AppendPlaces
<1>4. Screen'
  <2>1. 0 \in 0 .. Len(toHelper)
    BY <1>3
  <2> QED
    BY <1>1, <1>2, <2>1 DEF Screen
<1>5. Coming'
  <2> SUFFICES ASSUME NEW i \in DOMAIN toHelper', NEW call, NEW t,
                      call = toHelper'[i], t = call.transaction,
                      call.kind = "Show", FromPeer(call)
               PROVE  Covered(i, t)'
    BY DEF Coming, FromPeer
  <2>1. CASE i = Len(toHelper) + 1
    BY <1>3, <2>1 DEF Covered
  <2>2. CASE i \in DOMAIN toHelper
    <3>1. Covered(i, t)
      BY <1>1, <1>3, <2>2 DEF Coming
    <3>2. i \in 0 .. Len(toHelper) /\ helper.negotiated
      BY <1>3, <2>2 DEF FromPeer
    <3> QED
      BY <1>2, <3>1, <3>2
  <2> QED
    BY <1>3, <2>1, <2>2
<1> QED
  BY <1>4, <1>5

\* A transaction that stays in its session stays awaited.
LEMMA AwaitedStays ==
  ASSUME SameSession, Turn, addon'.transaction = addon.transaction
  PROVE  \A t : Awaited(t) => Awaited(t)'
BY AnswersWithin DEF SameSession, Turn, Awaited, Ready, Owner

\* What every step of the addon keeps that draws no identifier and shows nothing.
LEMMA OrphanQuiet ==
  ASSUME OrphanInv, Turn, fresh' = fresh,
         \/ UNCHANGED toHelper
         \/ \E m : m.kind \notin {"Show", "Hello"} /\ toHelper' = Append(toHelper, m)
  PROVE  Closes' /\ Alive' /\ Distinct'
         /\ GreetFirst(toHelper') /\ (NoHello(toHelper) => NoHello(toHelper'))
         /\ \A t : Unsent(t) => Unsent(t)'
<1>1. /\ ShowsClose(toHelper) => ShowsClose(toHelper')
      /\ GreetFirst(toHelper) => GreetFirst(toHelper')
      /\ NoHello(toHelper) => NoHello(toHelper')
      /\ \A f : ShowsBelow(toHelper, f) => ShowsBelow(toHelper', f)
      /\ \A t : NoShowOf(toHelper, t) => NoShowOf(toHelper', t)
      /\ ShownOnce(toHelper) => ShownOnce(toHelper')
  BY OrphanParts, OrphanAppend
<1>2. /\ \A f : AnswersBelow(toAddon, f) => AnswersBelow(toAddon', f)
      /\ \A t : NoAnswerOf(toAddon, t) => NoAnswerOf(toAddon', t)
      /\ \A name, up : GoneOnly(toAddon, name, up) => GoneOnly(toAddon', name, up)
  BY AnswersWithin DEF Turn
<1>3. Closes' /\ Alive' /\ Distinct'
  BY <1>1, <1>2, OrphanParts DEF Closes, Alive, Distinct, Turn, AlwaysCloses
<1>4. GreetFirst(toHelper')
  BY <1>1, OrphanParts DEF Greeted
<1>5. \A t : Unsent(t) => Unsent(t)'
  BY <1>1, <1>2 DEF Unsent, Turn
<1> QED
  BY <1>1, <1>3, <1>4, <1>5

\* Nobody waits for a Welcome to the call 0.
LEMMA NoWelcomeToNone ==
  ASSUME NEW r \in Seq(ToAddon)
  PROVE  \A i \in DOMAIN r : ~(r[i].kind = "Welcome" /\ r[i].call = 0)
<1>1. \A m \in ToAddon : m.kind = "Welcome" => m.call # 0
  BY DEF ToAddon, Txns
<1>2. \A i \in DOMAIN r : r[i] \in ToAddon
  OBVIOUS
<1> QED
  BY <1>1, <1>2

\* The greetings of a session that goes on.
LEMMA GreetedStays ==
  ASSUME OrphanInv, TypeInv', Turn, SameSession, GreetFirst(toHelper'),
         NoHello(toHelper) => NoHello(toHelper')
  PROVE  Greeted'
<1>1. Greeted /\ \A i \in DOMAIN toAddon' : \E j \in DOMAIN toAddon : toAddon'[i] = toAddon[j]
  BY OrphanParts DEF Turn, Within
<1>2. \A o : PeerIsOf(o) => PeerIsOf(o)'
  BY DEF PeerIsOf, Turn, SameSession
<1>3. Ready' => NoHello(toHelper') /\ PeerIsOf(Owner)'
  BY <1>1, <1>2 DEF Greeted, Ready, Owner, SameSession
<1>4. ASSUME NEW i \in DOMAIN toAddon', NEW reply, reply = toAddon'[i],
             reply.kind = "Welcome", reply.call = addon'.pendingCall
      PROVE  NoHello(toHelper') /\ PeerIsOf(reply.from)'
  <2>1. addon'.pendingCall # 0
    BY <1>4, NoWelcomeToNone DEF TypeInv, TypeOK
  <2>2. addon'.pendingCall = addon.pendingCall
    BY <2>1 DEF SameSession
  <2> QED
    BY <1>1, <1>2, <1>4, <2>2 DEF Greeted
<1> QED
  BY <1>3, <1>4 DEF Greeted

LEMMA GoesOnStep ==
  ASSUME OrphanInv, AgreementInv', Turn, GoesOn
  PROVE  OrphanInv'
<1>1. TypeInv' /\ SameSession /\ fresh' = fresh /\ addon'.transaction = addon.transaction
  BY DEF AgreementInv, GoesOn, SameSession
<1>2. \/ UNCHANGED toHelper
      \/ \E m : m.kind = "Command" /\ toHelper' = Append(toHelper, m)
  BY DEF GoesOn
<1>3. /\ Closes' /\ Alive' /\ Distinct' /\ GreetFirst(toHelper')
      /\ NoHello(toHelper) => NoHello(toHelper')
      /\ \A t : Unsent(t) => Unsent(t)'
  BY <1>1, <1>2, OrphanQuiet
<1>4. Greeted'
  BY <1>1, <1>3, GreetedStays
<1>5. ~Ready' /\ Active' => Unsent(addon.transaction)'
  BY <1>1, <1>3, OrphanParts DEF Ready, Active, SameSession, Unsent
<1>6. \A t : Awaited(t) => Awaited(t)'
  BY <1>1, AwaitedStays
<1>7. Screen' /\ Coming'
  <2>1. CASE UNCHANGED toHelper
    BY <1>6, <2>1, CoveredKept DEF Turn
  <2>2. ASSUME NEW m, m.kind = "Command", toHelper' = Append(toHelper, m)
        PROVE  Screen' /\ Coming'
    BY <1>6, <2>2, CoveredAppend DEF Turn
  <2> QED
    BY <1>2, <2>1, <2>2
<1> QED
  BY <1>3, <1>4, <1>5, <1>7 DEF OrphanInv

LEMMA EndsItStep ==
  ASSUME OrphanInv, AgreementInv', Turn, EndsIt
  PROVE  OrphanInv'
<1>1. TypeInv' /\ SameSession /\ fresh' = fresh /\ addon'.transaction = 0
  BY DEF AgreementInv, EndsIt, SameSession
<1>2. \/ /\ UNCHANGED toHelper
         /\ ~Ready \/ ~Active \/ AnsweredIn(toAddon, addon.transaction, Owner)
      \/ \E m : /\ toHelper' = Append(toHelper, m) /\ m.kind = "Hide" /\ m.from = addon.name
                /\ m.transaction = addon.transaction
  BY DEF EndsIt, Hide
<1>3. /\ Closes' /\ Alive' /\ Distinct' /\ GreetFirst(toHelper')
      /\ NoHello(toHelper) => NoHello(toHelper')
  BY <1>1, <1>2, OrphanQuiet
<1>4. Greeted'
  BY <1>1, <1>3, GreetedStays
<1>5. ~Active'
  BY <1>1 DEF Active
<1>6. Screen' /\ Coming'
  <2>1. CASE /\ UNCHANGED toHelper
             /\ ~Ready \/ ~Active \/ AnsweredIn(toAddon, addon.transaction, Owner)
    BY <2>1, CoveredKept DEF Turn, Awaited, Active
  <2>2. ASSUME NEW m, toHelper' = Append(toHelper, m), m.kind = "Hide", m.from = addon.name,
               m.transaction = addon.transaction
        PROVE  Screen' /\ Coming'
    BY <2>2, CoveredAppend DEF Turn, Awaited
  <2> QED
    BY <1>2, <2>1, <2>2
<1> QED
  BY <1>3, <1>4, <1>5, <1>6 DEF OrphanInv

\* A Show of a transaction that nobody has seen yet.
LEMMA ShowDistinct ==
  ASSUME OrphanInv, Turn, NEW m, toHelper' = Append(toHelper, m), m.kind = "Show",
         m.closeAfterSelection, m.transaction < fresh', fresh' \in {fresh, fresh + 1},
         NoHello(toHelper), Unsent(m.transaction)
  PROVE  Closes' /\ Alive' /\ Distinct' /\ GreetFirst(toHelper') /\ NoHello(toHelper')
<1>1. /\ ShowsBelow(toHelper, fresh') /\ AnswersBelow(toAddon, fresh')
      /\ helper.transaction < fresh'
  BY OrphanParts, BelowIsUnnamed DEF Distinct
<1>2. /\ ShowsClose(toHelper') /\ GreetFirst(toHelper') /\ NoHello(toHelper')
      /\ ShowsBelow(toHelper', fresh') /\ ShownOnce(toHelper')
      /\ NoShowOf(toHelper', helper.transaction)
  BY <1>1, OrphanParts, OrphanAppend DEF Closes, Greeted, Distinct, Unsent
<1>3. /\ AnswersBelow(toAddon', fresh')
      /\ \A name, up : GoneOnly(toAddon, name, up) => GoneOnly(toAddon', name, up)
  BY <1>1, AnswersWithin DEF Turn
<1>4. Closes' /\ Alive'
  BY <1>2, <1>3, OrphanParts DEF Closes, Alive, Turn, AlwaysCloses
<1>5. Distinct'
  BY <1>1, <1>2, <1>3 DEF Distinct, Turn
<1> QED
  BY <1>2, <1>4, <1>5

LEMMA OpensStep ==
  ASSUME OrphanInv, AgreementInv', Turn, Opens
  PROVE  OrphanInv'
<1>1. /\ Ready /\ ~Active /\ fresh' = fresh + 1 /\ addon'.transaction = fresh
      /\ addon'.pendingCall = addon.pendingCall /\ addon.pendingCall = 0
      /\ addon'.name = addon.name /\ addon'.session = addon.session
      /\ TypeInv'
  BY OrphanParts DEF Opens, AddonShows, SameAddon, AgreementInv
<1>2. PICK m : /\ toHelper' = Append(toHelper, m) /\ m.kind = "Show" /\ m.from = addon.name
               /\ m.transaction = fresh /\ m.closeAfterSelection = addon'.closeAfterSelection
  BY DEF Opens, AddonShows, Show
<1>3. Unsent(fresh) /\ NoAnswerOf(toAddon', fresh) /\ fresh # 0
  BY OrphanParts, BelowIsUnnamed, AnswersWithin DEF Unsent, Distinct, Turn
<1>4. NoHello(toHelper) /\ PeerIsOf(Owner)
  BY <1>1, OrphanParts DEF Greeted
<1>5. fresh < fresh + 1 /\ fresh + 1 \in {fresh, fresh + 1}
  BY OrphanParts
<1>6. Unsent(m.transaction)
  BY <1>2, <1>3
<1>7. Closes' /\ Alive' /\ Distinct' /\ GreetFirst(toHelper') /\ NoHello(toHelper')
  BY <1>1, <1>2, <1>4, <1>5, <1>6, ShowDistinct DEF Turn
<1>8. Greeted' /\ Ready'
  <2>1. PeerIsOf(Owner)' /\ Ready'
    BY <1>1, <1>4 DEF PeerIsOf, Owner, Ready, Turn
  <2>2. addon'.pendingCall = 0 /\ toAddon' \in Seq(ToAddon)
    BY <1>1 DEF TypeInv, TypeOK
  <2> QED
    BY <1>7, <2>1, <2>2, NoWelcomeToNone DEF Greeted
<1>9. helper.peerOwner = addon.name => Awaited(m.transaction)'
  <2>1. \A o : ~AnsweredIn(toAddon', m.transaction, o)
    BY <1>2, <1>3, NoAnswerAnswers
  <2> QED
    BY <1>1, <1>2, <1>3, <1>8, <2>1 DEF Awaited, Turn
<1>10. Screen' /\ Coming'
  <2>1. m.kind = "Show" /\ FromPeer(m) => Awaited(m.transaction)'
    BY <1>2, <1>9 DEF FromPeer
  <2>2. \A t : ~Awaited(t)
    BY <1>1 DEF Awaited, Active
  <2> QED
    BY <1>2, <2>1, <2>2, CoveredAppend DEF Turn
<1> QED
  BY <1>7, <1>8, <1>10 DEF OrphanInv

LEMMA CallsStep ==
  ASSUME OrphanInv, AgreementInv', Turn, Calls
  PROVE  OrphanInv'
<1>1. /\ ~Ready /\ UNCHANGED toAddon /\ fresh' = fresh + 1 /\ addon'.pendingCall = fresh
      /\ addon'.transaction = fresh /\ addon'.name = addon.name
      /\ addon'.session = addon.session /\ TypeInv'
  BY DEF Calls, AddonGreets, SameAddon, AgreementInv
<1>2. PICK m : toHelper' = Append(toHelper, m) /\ m.kind = "Hello"
  BY DEF Calls, AddonGreets, Hello
<1>3. Unsent(fresh) /\ ShowsBelow(toHelper, fresh + 1) /\ AnswersBelow(toAddon, fresh + 1)
      /\ helper.transaction < fresh + 1
  BY OrphanParts, BelowIsUnnamed DEF Unsent, Distinct
<1>4. /\ ShowsClose(toHelper') /\ GreetFirst(toHelper') /\ ShowsBelow(toHelper', fresh')
      /\ ShownOnce(toHelper') /\ NoShowOf(toHelper', helper.transaction)
      /\ NoShowOf(toHelper', fresh)
  BY <1>1, <1>2, <1>3, OrphanParts, OrphanAppend DEF Closes, Greeted, Distinct, Unsent
<1>5. Closes' /\ Alive'
  BY <1>1, <1>4, OrphanParts DEF Closes, Alive, Turn, AlwaysCloses
<1>6. Distinct'
  BY <1>1, <1>3, <1>4 DEF Distinct, Turn
<1>7. ~Ready'
  BY <1>1 DEF Ready
<1>8. Greeted'
  <2>1. \A i \in DOMAIN toAddon : ~(toAddon[i].kind = "Welcome" /\ toAddon[i].call = fresh)
    BY OrphanParts DEF WelcomesBelow
  <2> QED
    BY <1>1, <1>4, <1>7, <2>1 DEF Greeted
<1>9. Unsent(addon.transaction)'
  BY <1>1, <1>3, <1>4 DEF Unsent, Turn
<1>10. Screen' /\ Coming'
  BY <1>1, <1>2, CoveredAppend DEF Awaited, Turn
<1> QED
  BY <1>5, <1>6, <1>8, <1>9, <1>10 DEF OrphanInv

LEMMA LosesStep ==
  ASSUME OrphanInv, AgreementInv', Turn, Loses
  PROVE  OrphanInv'
<1>1. /\ UNCHANGED <<fresh, toHelper>> /\ addon'.name = addon.name /\ addon'.pendingCall = 0
      /\ Ready /\ ~Ready' /\ addon'.transaction = 0 /\ TypeInv'
      /\ toAddon # <<>> /\ Head(toAddon).kind = "OwnerGone" /\ Head(toAddon).from = Owner
  BY DEF Loses, AgreementInv, Ready
<1>2. Closes' /\ Alive' /\ Distinct' /\ GreetFirst(toHelper')
  BY <1>1, OrphanQuiet
<1>3. Greeted'
  BY <1>1, <1>2, NoWelcomeToNone DEF Greeted, TypeInv, TypeOK
<1>4. \A t : ~(helper.negotiated /\ Awaited(t))
  <2>1. 1 \in DOMAIN toAddon /\ toAddon[1] = Head(toAddon)
    BY <1>1, OrphanParts, TailPlaces
  <2>2. helper.up => helper.name # Owner
    BY <1>1, <2>1, OrphanParts DEF Alive, GoneOnly
  <2>3. helper.negotiated /\ helper.peerOwner = addon.name => helper.up /\ helper.name = Owner
    BY <1>1, OrphanParts DEF Alive, Greeted, PeerIsOf
  <2> QED
    BY <2>2, <2>3 DEF Awaited
<1>5. Screen' /\ Coming'
  BY <1>1, <1>4, CoveredKept DEF Turn
<1> QED
  BY <1>1, <1>2, <1>3, <1>5 DEF OrphanInv, Active

LEMMA StartsAnewStep ==
  ASSUME OrphanInv, AgreementInv', Turn, StartsAnew
  PROVE  OrphanInv'
<1>1. /\ fresh' = fresh /\ toAddon' = <<>> /\ addon'.transaction = 0 /\ ~Ready'
  BY DEF StartsAnew, Ready
<1>2. \/ UNCHANGED toHelper /\ ~(helper.up /\ helper.peerOwner = addon.name)
      \/ \E m : /\ toHelper' = Append(toHelper, m) /\ m.kind = "PeerGone"
                /\ m.from = addon.name
  BY DEF StartsAnew, PeerGone
<1>3. Closes' /\ Alive' /\ Distinct' /\ GreetFirst(toHelper')
  BY <1>1, <1>2, OrphanQuiet
<1>4. Greeted'
  BY <1>1, <1>3 DEF Greeted
<1>5. Screen' /\ Coming'
  <2>1. CASE UNCHANGED toHelper /\ ~(helper.up /\ helper.peerOwner = addon.name)
    <3>1. helper.negotiated => \A t : ~Awaited(t)
      BY <2>1, OrphanParts DEF Alive, Awaited
    <3> QED
      BY <2>1, <3>1, CoveredKept DEF Turn
  <2>2. ASSUME NEW m, toHelper' = Append(toHelper, m), m.kind = "PeerGone", m.from = addon.name
        PROVE  Screen' /\ Coming'
    BY <2>2, CoveredAppend DEF Turn, Awaited
  <2> QED
    BY <1>2, <2>1, <2>2
<1> QED
  BY <1>1, <1>3, <1>4, <1>5 DEF OrphanInv, Active

LEMMA WelcomesStep ==
  ASSUME OrphanInv, AgreementInv', Turn, Welcomes
  PROVE  OrphanInv'
<1> DEFINE t == addon.transaction
<1>1. /\ toAddon # <<>> /\ Head(toAddon).kind = "Welcome" /\ Head(toAddon).call = addon.pendingCall
      /\ fresh' = fresh /\ addon'.name = addon.name /\ addon'.pendingCall = 0
      /\ addon.pendingCall # 0 /\ t # 0 /\ addon'.session.owner = Head(toAddon).from
      /\ ~Ready /\ TypeInv'
  BY OrphanParts DEF Welcomes, AddonWelcomed, AgreementInv
<1>2. NoHello(toHelper) /\ PeerIsOf(Head(toAddon).from)
  BY <1>1, OrphanParts, TailPlaces DEF Greeted
<1>3. Unsent(t) /\ t < fresh
  BY <1>1, OrphanParts DEF Active
<1>4. PeerIsOf(Owner)'
  BY <1>1, <1>2 DEF PeerIsOf, Owner, Turn
<1>5. ASSUME GreetFirst(toHelper'), NoHello(toHelper')
      PROVE  Greeted'
  BY <1>1, <1>4, <1>5, NoWelcomeToNone DEF Greeted, TypeInv, TypeOK
<1>6. \A u : ~Awaited(u)
  BY <1>1 DEF Awaited
<1>7. CASE /\ addon'.transaction = 0
           /\ \/ UNCHANGED toHelper
              \/ toHelper' = Append(toHelper, Hide(addon.name, addon.transaction))
  <2>1. \/ UNCHANGED toHelper
        \/ \E m : m.kind = "Hide" /\ toHelper' = Append(toHelper, m)
    BY <1>7 DEF Hide
  <2>2. Closes' /\ Alive' /\ Distinct' /\ GreetFirst(toHelper') /\ NoHello(toHelper')
    BY <1>1, <1>2, <2>1, OrphanQuiet
  <2>3. Screen' /\ Coming'
    BY <1>6, <2>1, CoveredKept, CoveredAppend DEF Turn
  <2> QED
    BY <1>5, <1>7, <2>2, <2>3 DEF OrphanInv, Active
<1>8. CASE /\ SameTransaction
           /\ toHelper' = Append(toHelper, Show(addon.name, addon.transaction,
                                                addon.closeAfterSelection))
  <2>1. PICK m : /\ toHelper' = Append(toHelper, m) /\ m.kind = "Show" /\ m.from = addon.name
                 /\ m.transaction = t /\ m.closeAfterSelection = addon.closeAfterSelection
    BY <1>8 DEF Show
  <2>2. Unsent(m.transaction) /\ m.closeAfterSelection /\ m.transaction < fresh'
    BY <1>1, <1>3, <2>1, OrphanParts DEF Closes
  <2>3. Closes' /\ Alive' /\ Distinct' /\ GreetFirst(toHelper') /\ NoHello(toHelper')
    BY <1>1, <1>2, <2>1, <2>2, ShowDistinct
  <2>4. Ready' /\ addon'.transaction = t
    BY <1>1, <1>8 DEF Welcomes, SameTransaction, Ready
  <2>5. helper.peerOwner = addon.name => Awaited(m.transaction)'
    <3>1. \A o : ~AnsweredIn(toAddon', m.transaction, o)
      BY <2>2, AnswersWithin, NoAnswerAnswers DEF Unsent, Turn
    <3> QED
      BY <1>1, <2>1, <2>4, <3>1 DEF Awaited, Turn
  <2>6. Screen' /\ Coming'
    BY <1>6, <2>1, <2>5, CoveredAppend DEF Turn, FromPeer
  <2> QED
    BY <1>5, <2>3, <2>4, <2>6 DEF OrphanInv
<1> QED
  BY <1>7, <1>8 DEF Welcomes, AddonWelcomed

LEMMA OrphanShapeStep ==
  ASSUME OrphanInv, AgreementInv', OrphanShape
  PROVE  OrphanInv'
BY GoesOnStep, EndsItStep, OpensStep, CallsStep, LosesStep, StartsAnewStep, WelcomesStep
   DEF OrphanShape

(***************************************************************************)
(* Every step of the addon leaves no more than that.                       *)
(***************************************************************************)

\* The addon's fields as a step that stays in the session leaves them.
Closing(a) ==
  /\ Alike(a) /\ a.closeAfterSelection /\ a.pendingCall \in {0, addon.pendingCall}

LEMMA ClosingFields ==
  ASSUME OrphanInv
  PROVE  /\ Closing(addon) /\ Closing(Settled) /\ Closing(Terminal) /\ Closing(Finished)
         /\ Settled.transaction = addon.transaction
         /\ Terminal.transaction = 0 /\ Finished.transaction = 0
<1>1. TypeInv /\ addon.closeAfterSelection
  BY OrphanParts DEF Closes
<1>2. /\ Closing(addon) /\ Closing(Settled) /\ Closing(Terminal)
      /\ Settled.transaction = addon.transaction /\ Terminal.transaction = 0
  BY <1>1, AddonAlike DEF Closing
<1>3. Closing(Finished) /\ Finished.transaction = 0
  <2>1. Terminal \in AddonRecords
    BY <1>1, AddonAlike DEF Alike
  <2> QED
    BY <1>2, <2>1, Ranges DEF Finished, AddonRecords, Closing, Alike
<1> QED
  BY <1>2, <1>3

LEMMA IdleCloses ==
  ASSUME NEW a, Closing(a)
  PROVE  /\ Idle(a).closeAfterSelection /\ Idle(a).transaction = 0 /\ Idle(a).name = addon.name
         /\ Idle(a).session = addon.session /\ Idle(a).pendingCall \in {0, addon.pendingCall}
<1>1. a \in AddonRecords
  BY DEF Closing, Alike
<1>2. Idle(a).closeAfterSelection
  BY <1>1 DEF Idle, AddonRecords, Closing
<1> QED
  BY <1>1, <1>2, IdleKeeps DEF Closing, Alike

LEMMA CancelEnds ==
  ASSUME OrphanInv, fresh' = fresh, NEW a, Closing(a), NEW notify, CancelFrom(a, notify),
         \/ notify /\ a.transaction = addon.transaction
         \/ ~Ready \/ ~Active \/ AnsweredIn(toAddon, addon.transaction, Owner),
         a.transaction \in {0, addon.transaction}
  PROVE  EndsIt /\ addon'.closeAfterSelection
<1>1. SendOutcomes = {TRUE}
  BY OrphanParts DEF Closes, AlwaysCloses
<1>2. addon' = Idle(a)
  BY DEF CancelFrom
<1>3. toHelper' = IF MustHide(a, notify) THEN Append(toHelper, Hide(a.name, a.transaction))
                                         ELSE toHelper
  BY <1>1 DEF CancelFrom
<1>4. a.name = addon.name /\ a.session = addon.session
  BY DEF Closing, Alike
<1>5. MustHide(a, notify) \/ ~Ready \/ ~Active \/ AnsweredIn(toAddon, addon.transaction, Owner)
  BY <1>4 DEF MustHide, Active, Ready
<1>6. MustHide(a, notify) => a.transaction = addon.transaction
  BY DEF MustHide
<1>7. SameSession /\ addon'.transaction = 0 /\ addon'.closeAfterSelection
  BY <1>2, IdleCloses DEF SameSession
<1>8. \/ /\ UNCHANGED toHelper
         /\ ~Ready \/ ~Active \/ AnsweredIn(toAddon, addon.transaction, Owner)
      \/ toHelper' = Append(toHelper, Hide(addon.name, addon.transaction))
  BY <1>3, <1>4, <1>5, <1>6
<1> QED
  BY <1>7, <1>8 DEF EndsIt

LEMMA HearsOrNot ==
  ASSUME OrphanInv, UNCHANGED toAddon \/ (toAddon # <<>> /\ toAddon' = Tail(toAddon))
                      \/ toAddon' = <<>>
  PROVE  Within(toAddon', toAddon)
BY OrphanParts, WithinTail

\* An addon that only changes what the helper does not see goes on.
LEMMA SilentGoesOn ==
  ASSUME OrphanInv, fresh' = fresh, UNCHANGED helper, Within(toAddon', toAddon),
         UNCHANGED toHelper, addon' = addon \/ addon' = Settled
  PROVE  OrphanShape
<1>1. /\ addon'.transaction = addon.transaction /\ addon'.closeAfterSelection
      /\ addon'.name = addon.name /\ addon'.session = addon.session
      /\ addon'.pendingCall \in {0, addon.pendingCall}
  BY ClosingFields DEF Closing, Alike
<1> QED
  BY <1>1 DEF OrphanShape, GoesOn, SameSession, Turn

LEMMA OrphanTrigger ==
  ASSUME OrphanInv, NEW c \in Contexts, Trigger(c), UNCHANGED helperVars
  PROVE  OrphanShape
<1>1. TypeInv /\ ~Active /\ helper' = helper /\ UNCHANGED toAddon /\ fresh' = fresh + 1
      /\ fresh \in Txns
  BY SMTT(60), OrphanParts DEF Trigger, helperVars, Began, TypeInv, TypeOK, Txns
<1>2. Within(toAddon', toAddon)
  BY <1>1, HearsOrNot
<1>3. CloseSettings = {TRUE} /\ SendOutcomes = {TRUE}
  BY OrphanParts DEF Closes, AlwaysCloses
<1> DEFINE a == [BeginTransaction(Idle(addon), c) EXCEPT !.origin = c,
                                                         !.closeAfterSelection = TRUE]
<1>4. IF IsReady(a.session) THEN SendFrom(a, ShowOf(a))
      ELSE /\ addon' = [a EXCEPT !.pendingCall = fresh]
           /\ toHelper' = Append(toHelper, Hello(a.name, fresh))
  <2>1. IF IsReady(a.session) THEN SendFrom(a, ShowOf(a)) ELSE Negotiate(a)
    BY <1>3 DEF Trigger
  <2> HIDE DEF a
  <2> QED
    BY <1>3, <2>1 DEF Negotiate
<1>5. Alike(a) /\ a.transaction = fresh /\ a.pendingCall = addon.pendingCall
      /\ a.closeAfterSelection
  <2>1. /\ Idle(addon) \in AddonRecords /\ Idle(addon).pendingCall = addon.pendingCall
        /\ Alike(Idle(addon))
    BY <1>1, IdleType, IdleKeeps, AddonAlike DEF Alike
  <2>2. /\ BeginTransaction(Idle(addon), c) \in AddonRecords
        /\ BeginTransaction(Idle(addon), c).transaction = fresh
        /\ Alike(BeginTransaction(Idle(addon), c))
        /\ BeginTransaction(Idle(addon), c).pendingCall = addon.pendingCall
    BY <1>1, <2>1, BeginType DEF BeginTransaction, AddonRecords, Alike
  <2> HIDE DEF BeginTransaction
  <2> QED
    BY <2>2, Ranges DEF AddonRecords, Alike
<1> HIDE DEF a
<1>6. CASE IsReady(a.session)
  <2>1. addon' = a /\ toHelper' = Append(toHelper, ShowOf(a)) /\ Ready
    BY <1>3, <1>4, <1>5, <1>6 DEF SendFrom, Alike, Ready
  <2>2. ShowOf(a) = Show(addon.name, fresh, addon'.closeAfterSelection)
    BY <1>5, <2>1 DEF ShowOf, Alike
  <2>3. Hears
    BY <1>1, HearsNothing
  <2> QED
    BY <1>1, <1>2, <1>5, <2>1, <2>2, <2>3
       DEF OrphanShape, Opens, AddonShows, SameAddon, Alike, Turn
<1>7. CASE ~IsReady(a.session)
  <2>1. addon' = [a EXCEPT !.pendingCall = fresh]
    BY <1>4, <1>7
  <2>2. toHelper' = Append(toHelper, Hello(addon.name, fresh)) /\ ~Ready
    BY <1>4, <1>5, <1>7 DEF Alike, Ready
  <2>3. /\ addon'.pendingCall = fresh /\ addon'.transaction = fresh
        /\ addon'.name = addon.name /\ addon'.session = addon.session
        /\ addon'.closeAfterSelection
    BY <1>5, <2>1 DEF AddonRecords, Alike
  <2> QED
    BY <1>1, <1>2, <2>2, <2>3 DEF OrphanShape, Calls, AddonGreets, SameAddon, Turn
<1> QED
  BY <1>6, <1>7

LEMMA OrphanForward ==
  ASSUME OrphanInv, NEW kind \in CommandKinds, NEW search \in Searches,
         Forward(kind, search), UNCHANGED helperVars
  PROVE  OrphanShape
<1> DEFINE a == [addon EXCEPT !.commandSequence = @ + 1, !.search = search]
           m == Command(a.name, a.transaction, a.commandSequence, kind,
                        IF kind = "SearchText" THEN search ELSE 0)
<1>1. TypeInv /\ SendOutcomes = {TRUE} /\ addon.closeAfterSelection
  BY OrphanParts DEF Closes, AlwaysCloses
<1>2. addon' = a /\ toHelper' = Append(toHelper, m)
  BY <1>1 DEF Forward, SendFrom
<1>3. /\ a.name = addon.name /\ a.session = addon.session /\ a.transaction = addon.transaction
      /\ a.closeAfterSelection = addon.closeAfterSelection
      /\ a.pendingCall = addon.pendingCall
  BY <1>1 DEF TypeInv, TypeOK, AddonRecords
<1>4. m.kind = "Command"
  BY DEF Command
<1>5. helper' = helper /\ fresh' = fresh /\ Within(toAddon', toAddon)
  BY HearsOrNot DEF Forward, helperVars
<1> HIDE DEF a, m
<1> QED
  BY <1>1, <1>2, <1>3, <1>4, <1>5 DEF OrphanShape, GoesOn, SameSession, Turn

LEMMA OrphanKey ==
  ASSUME OrphanInv, UNCHANGED helperVars,
         PressEscape \/ PressReturn \/ PressArrow \/ TypeCharacter \/ PressBackspace
  PROVE  OrphanShape
<1>1. addon.search \in Searches
  BY OrphanParts DEF TypeInv, TypeOK, AddonRecords
<1>2. CASE PressEscape \/ PressReturn \/ PressArrow
  BY <1>1, <1>2, OrphanForward DEF PressEscape, PressReturn, PressArrow, CommandKinds
<1>3. CASE TypeCharacter
  <2>1. addon.search + 1 \in Searches
    BY <1>1, <1>3 DEF TypeCharacter, Searches
  <2> QED
    BY <1>3, <2>1, OrphanForward DEF TypeCharacter, CommandKinds
<1>4. CASE PressBackspace
  <2>1. (IF addon.search = 0 THEN 0 ELSE addon.search - 1) \in Searches
    BY <1>1 DEF Searches
  <2> QED
    BY <1>4, <2>1, OrphanForward DEF PressBackspace, CommandKinds
<1> QED
  BY <1>2, <1>3, <1>4

LEMMA OrphanClient ==
  ASSUME OrphanInv, ClientEvents
  PROVE  OrphanShape
<1>1. PICK c \in Contexts : FocusIn(c) \/ FocusOut(c) \/ ResetOrSwitch(c) \/ Destroy(c)
  BY DEF ClientEvents
<1>2. UNCHANGED <<toAddon, fresh, helper>>
  BY <1>1 DEF FocusIn, FocusOut, ResetOrSwitch, Destroy, ClientEvents, helperVars
<1>3. UNCHANGED <<addon, toHelper>> \/ CancelFrom(addon, TRUE)
  BY <1>1 DEF FocusIn, FocusOut, ResetOrSwitch, Destroy, Disturbed
<1>4. Within(toAddon', toAddon)
  BY <1>2, HearsOrNot
<1>5. CASE UNCHANGED <<addon, toHelper>>
  BY <1>2, <1>4, <1>5, SilentGoesOn
<1>6. CASE CancelFrom(addon, TRUE)
  BY <1>2, <1>4, <1>6, CancelEnds, ClosingFields DEF OrphanShape, Turn
<1> QED
  BY <1>3, <1>5, <1>6

LEMMA OrphanTimeout ==
  ASSUME OrphanInv, Timeout
  PROVE  OrphanShape
<1>1. UNCHANGED <<toAddon, fresh, helper>> /\ addon.pendingCall # 0
  BY DEF Timeout, CallTimesOut, helperVars
<1>2. Within(toAddon', toAddon) /\ ~Ready
  BY <1>1, HearsOrNot, OrphanParts
<1>3. CASE addon' = Settled /\ UNCHANGED toHelper
  BY <1>1, <1>2, <1>3, SilentGoesOn
<1>4. CASE CancelFrom(Settled, FALSE)
  BY <1>1, <1>2, <1>4, CancelEnds, ClosingFields DEF OrphanShape, Turn
<1> QED
  BY <1>3, <1>4 DEF Timeout, CallTimesOut

LEMMA OrphanReply ==
  ASSUME OrphanInv, ReceiveReply, UNCHANGED helperVars
  PROVE  OrphanShape
<1> DEFINE reply == Head(toAddon)
<1>1. /\ reply \in ToAddon /\ toAddon # <<>> /\ toAddon' = Tail(toAddon)
      /\ helper' = helper /\ fresh' = fresh /\ TypeInv
  BY OrphanParts, TakesType DEF ReceiveReply, Takes, TypeInv, TypeOK, helperVars
<1>2. Within(toAddon', toAddon)
  BY <1>1, HearsOrNot
<1>3. CASE UNCHANGED <<addon, toHelper>>
  BY <1>1, <1>2, <1>3, SilentGoesOn
<1>4. CASE addon' = Settled /\ UNCHANGED toHelper
  BY <1>1, <1>2, <1>4, SilentGoesOn
<1>5. CASE CancelFrom(Settled, reply.kind = "Refusal") /\ AnswersPending(reply.call)
  <2>1. ~Ready
    BY <1>5, OrphanParts DEF AnswersPending
  <2> QED
    BY <1>1, <1>2, <1>5, <2>1, CancelEnds, ClosingFields DEF OrphanShape, Turn
<1>6. CASE reply.kind = "Welcome" /\ Negotiated(reply) /\ ~IgnoresReply(reply.call)
           /\ AnswersPending(reply.call)
  <2> DEFINE session == AcceptWelcome(Begin(addon.session, reply.from, reply.call),
                                      reply.from, reply)
             a == [Settled EXCEPT !.session = session]
  <2>1. session \in SessionRecords /\ session.owner = reply.from
    BY <1>1, <1>6, Ranges DEF ToAddon, AcceptWelcome, Begin, SessionRecords, SessionStates
  <2>2. /\ reply.call = addon.pendingCall /\ addon.pendingCall # 0
        /\ addon.transaction = addon.pendingCall
    BY <1>1, <1>6, AddonAlike DEF AnswersPending, IgnoresReply
  <2>3. /\ a \in AddonRecords /\ a.name = addon.name /\ a.pendingCall = 0
        /\ a.transaction = addon.transaction /\ a.session = session
        /\ a.closeAfterSelection = addon.closeAfterSelection
        /\ a.commandSequence = addon.commandSequence
    <3>1. Settled \in AddonRecords /\ Settled.name = addon.name
      BY <1>1, AddonAlike DEF Alike
    <3> QED
      BY <1>1, <2>1, <3>1, AddonAlike DEF AddonRecords
  <2>4. (IsReady(session) /\ SendFrom(a, ShowOf(a))) \/ CancelFrom(a, TRUE)
    BY <1>6 DEF Negotiated
  <2>5. addon.closeAfterSelection /\ SendOutcomes = {TRUE}
    BY OrphanParts DEF Closes, AlwaysCloses
  <2> HIDE DEF session, a
  <2>6. /\ Idle(a).transaction = 0 /\ Idle(a).name = addon.name
        /\ Idle(a).session = session /\ Idle(a).pendingCall = 0
        /\ Idle(a).closeAfterSelection
    BY <2>3, <2>5, IdleKeeps DEF Idle, AddonRecords
  <2>7. CASE addon' = a /\ toHelper' = Append(toHelper, ShowOf(a)) /\ IsReady(session)
    <3>1. ShowOf(a) = Show(addon.name, addon.transaction, addon.closeAfterSelection)
      BY <2>3 DEF ShowOf
    <3> QED
      BY <1>1, <1>2, <1>6, <2>1, <2>2, <2>3, <2>5, <2>7, <3>1
         DEF OrphanShape, Welcomes, AddonWelcomed, SameTransaction, Turn
  <2>8. CASE /\ addon' = Idle(a)
             /\ UNCHANGED toHelper \/ toHelper' = Append(toHelper, Hide(a.name, a.transaction))
    BY <1>1, <1>2, <1>6, <2>1, <2>2, <2>3, <2>6, <2>8
       DEF OrphanShape, Welcomes, AddonWelcomed, Turn
  <2> QED
    BY <2>4, <2>5, <2>7, <2>8 DEF SendFrom, CancelFrom
<1> QED
  BY <1>3, <1>4, <1>5, <1>6 DEF ReceiveReply

\* The frame that is read is one the addon has yet to hear.
LEMMA HeadAnswers ==
  ASSUME OrphanInv, toAddon # <<>>, Head(toAddon).kind \in {"Selected", "Cancelled"},
         Head(toAddon).transaction = addon.transaction, Head(toAddon).from = Owner
  PROVE  AnsweredIn(toAddon, addon.transaction, Owner)
BY OrphanParts, TailPlaces DEF AnsweredIn

LEMMA OrphanSelected ==
  ASSUME OrphanInv, ReceiveSelected, UNCHANGED helperVars
  PROVE  OrphanShape
<1> DEFINE frame == Head(toAddon)
           result == SelectResult(frame.transaction, frame.sequence)
           accepted == Accepts(addon.session, frame.from)
<1>1. /\ toAddon # <<>> /\ toAddon' = Tail(toAddon) /\ frame.kind = "Selected"
      /\ helper' = helper /\ addon.closeAfterSelection
  BY OrphanParts DEF ReceiveSelected, Takes, helperVars, Closes
<1>2. Within(toAddon', toAddon)
  BY <1>1, HearsOrNot
<1>3. accepted /\ result \notin {"Inactive", "TransactionMismatch"}
        => AnsweredIn(toAddon, addon.transaction, Owner)
  BY <1>1, HeadAnswers DEF SelectResult, Accepts, Owner
<1>4. CASE accepted /\ result = "Committed"
  <2>1. addon' = Finished /\ UNCHANGED <<toHelper, fresh>>
    BY <1>1, <1>4 DEF ReceiveSelected, AfterCommit
  <2> QED
    BY <1>1, <1>2, <1>3, <1>4, <2>1, ClosingFields
       DEF OrphanShape, EndsIt, SameSession, Closing, Alike, Turn
<1>5. CASE UNCHANGED <<addon, toHelper, fresh>>
  BY <1>1, <1>2, <1>5, SilentGoesOn
<1>6. CASE /\ accepted /\ result \notin {"Inactive", "TransactionMismatch"}
           /\ CancelFrom(Terminal, TRUE) /\ fresh' = fresh
  BY <1>1, <1>2, <1>3, <1>6, CancelEnds, ClosingFields DEF OrphanShape, Turn
<1> QED
  BY <1>4, <1>5, <1>6 DEF ReceiveSelected

LEMMA OrphanCancelled ==
  ASSUME OrphanInv, ReceiveCancelled, UNCHANGED helperVars
  PROVE  OrphanShape
<1> DEFINE frame == Head(toAddon)
           ends == Accepts(addon.session, frame.from) /\ EndsTransaction(frame.transaction)
<1>1. /\ toAddon # <<>> /\ toAddon' = Tail(toAddon) /\ frame.kind = "Cancelled"
      /\ helper' = helper /\ fresh' = fresh
  BY DEF ReceiveCancelled, Takes, helperVars
<1>2. Within(toAddon', toAddon)
  BY <1>1, HearsOrNot
<1>3. CASE ends
  <2>1. CancelFrom(addon, FALSE)
    BY <1>3 DEF ReceiveCancelled
  <2>2. AnsweredIn(toAddon, addon.transaction, Owner)
    BY <1>1, <1>3, HeadAnswers DEF Accepts, EndsTransaction, Owner
  <2> QED
    BY <1>1, <1>2, <2>1, <2>2, CancelEnds, ClosingFields DEF OrphanShape, Turn
<1>4. CASE ~ends
  <2>1. UNCHANGED <<addon, toHelper>>
    BY <1>4 DEF ReceiveCancelled
  <2> QED
    BY <1>1, <1>2, <2>1, SilentGoesOn
<1> QED
  BY <1>3, <1>4

LEMMA OrphanOwnerGone ==
  ASSUME OrphanInv, ReceiveOwnerGone, UNCHANGED helperVars
  PROVE  OrphanShape
<1> DEFINE owner == Head(toAddon).from
<1>1. /\ toAddon # <<>> /\ toAddon' = Tail(toAddon) /\ Head(toAddon).kind = "OwnerGone"
      /\ helper' = helper /\ fresh' = fresh /\ UNCHANGED toHelper
  BY DEF ReceiveOwnerGone, Takes, helperVars
<1>2. Within(toAddon', toAddon)
  BY <1>1, HearsOrNot
<1>3. CASE Accepts(addon.session, owner)
  <2>1. addon' = WithoutOwner(owner)
    BY <1>3 DEF ReceiveOwnerGone
  <2>2. /\ Idle(addon) \in AddonRecords /\ Idle(addon).session = addon.session
        /\ Idle(addon).transaction = 0 /\ Idle(addon).name = addon.name
        /\ Idle(addon).closeAfterSelection
    BY OrphanParts, IdleType, IdleKeeps, IdleCloses, ClosingFields, AddonAlike
  <2>3. addon' = [Idle(addon) EXCEPT !.session = NewSession, !.pendingCall = 0]
    BY <1>3, <2>1, <2>2 DEF Accepts, OwnerLost, WithoutOwner
  <2>4. /\ addon'.name = addon.name /\ addon'.pendingCall = 0 /\ addon'.transaction = 0
        /\ addon'.session = NewSession /\ addon'.closeAfterSelection
    BY <2>2, <2>3 DEF AddonRecords
  <2>5. ~IsReady(addon'.session) /\ Ready /\ owner = Owner
    BY <1>3, <2>4 DEF IsReady, NewSession, Accepts, Ready, Owner
  <2> QED
    BY <1>1, <1>2, <2>4, <2>5 DEF OrphanShape, Loses, Turn
<1>4. CASE ~Accepts(addon.session, owner)
  <2>1. addon' = Settled
    BY <1>4 DEF ReceiveOwnerGone
  <2> QED
    BY <1>1, <1>2, <2>1, SilentGoesOn
<1> QED
  BY <1>3, <1>4

LEMMA OrphanRestart ==
  ASSUME OrphanInv, RestartAddon
  PROVE  OrphanShape
<1>1. /\ addon'.transaction = 0 /\ addon'.pendingCall = 0 /\ ~IsReady(addon'.session)
      /\ addon'.closeAfterSelection
  BY DEF RestartAddon, NewAddon, NewSession, IsReady
<1>2. Within(toAddon', toAddon)
  BY HearsOrNot DEF RestartAddon
<1> QED
  BY <1>1, <1>2 DEF RestartAddon, BusUnchanged, OrphanShape, StartsAnew, Turn

(***************************************************************************)
(* The helper's steps: what it leaves on the screen.                       *)
(***************************************************************************)

\* The call m takes the transaction on the screen off it.
TakesOff(m) ==
  /\ m.from = helper.peerOwner
  /\ m.kind \in {"Show", "PeerGone"} \/ (m.kind = "Hide" /\ m.transaction = helper.transaction)

\* At most one call is read and at most one frame sent, and that answers the
\* transaction of the helper or nothing.
OneCall == UNCHANGED toHelper \/ (toHelper # <<>> /\ toHelper' = Tail(toHelper))
Refuses == \E m : m.kind = "Refusal" /\ toAddon' = Append(toAddon, m)
Answers ==
  \E m : /\ m.kind \in {"Selected", "Cancelled"} /\ m.transaction = helper.transaction
         /\ toAddon' = Append(toAddon, m)

\* The palette leaves the screen, or stays as nothing took it off.
LeavesScreen == ~helper'.visible /\ helper'.transaction \in {0, helper.transaction}
StaysOnScreen ==
  /\ helper'.visible = helper.visible /\ helper'.negotiated = helper.negotiated
  /\ helper'.transaction = helper.transaction
  /\ UNCHANGED toAddon \/ Refuses
  /\ UNCHANGED toHelper \/ ~helper.negotiated \/ ~TakesOff(Head(toHelper))

HelperTurn ==
  /\ UNCHANGED <<addon, fresh>> /\ OneCall
  /\ helper'.name = helper.name /\ helper'.up = helper.up
  /\ helper'.visible => helper'.closeAfterSelection
  /\ helper'.negotiated => helper.negotiated /\ helper'.peerOwner = helper.peerOwner
  /\ UNCHANGED toAddon \/ Refuses \/ Answers
  /\ LeavesScreen \/ StaysOnScreen

LEMMA OneCallLess ==
  ASSUME OrphanInv, OneCall
  PROVE  /\ NoHello(toHelper) => NoHello(toHelper')
         /\ ShowsClose(toHelper') /\ GreetFirst(toHelper') /\ ShowsBelow(toHelper', fresh)
         /\ \A t : NoShowOf(toHelper, t) => NoShowOf(toHelper', t)
         /\ ShownOnce(toHelper')
<1>1. /\ toHelper \in Seq(ToHelper) /\ ShowsClose(toHelper) /\ GreetFirst(toHelper)
      /\ ShowsBelow(toHelper, fresh) /\ ShownOnce(toHelper)
  BY OrphanParts DEF Closes, Greeted, Distinct
<1>2. CASE UNCHANGED toHelper
  BY <1>1, <1>2
<1>3. CASE toHelper # <<>> /\ toHelper' = Tail(toHelper)
  BY <1>1, <1>3, OrphanTail
<1> QED
  BY <1>2, <1>3 DEF OneCall

LEMMA OneFrameMore ==
  ASSUME OrphanInv, UNCHANGED toAddon \/ Refuses \/ Answers
  PROVE  /\ AnswersBelow(toAddon', fresh)
         /\ \A t : NoAnswerOf(toAddon, t) /\ helper.transaction # t => NoAnswerOf(toAddon', t)
         /\ \A t, o : AnsweredIn(toAddon', t, o)
                        => AnsweredIn(toAddon, t, o) \/ (Answers /\ t = helper.transaction)
         /\ \A name, up : GoneOnly(toAddon, name, up) => GoneOnly(toAddon', name, up)
         /\ \A i \in DOMAIN toAddon' : toAddon'[i].kind = "Welcome" =>
              i \in DOMAIN toAddon /\ toAddon'[i] = toAddon[i]
<1>1. /\ toAddon \in Seq(ToAddon) /\ AnswersBelow(toAddon, fresh) /\ helper.transaction < fresh
  BY OrphanParts DEF Distinct
<1>2. CASE UNCHANGED toAddon
  BY <1>1, <1>2
<1>3. ASSUME NEW m, toAddon' = Append(toAddon, m), m.kind \in {"Refusal", "Selected", "Cancelled"},
             Answer(m) => Answers /\ m.transaction = helper.transaction
      PROVE  /\ AnswersBelow(toAddon', fresh)
             /\ \A t : NoAnswerOf(toAddon, t) /\ helper.transaction # t => NoAnswerOf(toAddon', t)
             /\ \A t, o : AnsweredIn(toAddon', t, o)
                            => AnsweredIn(toAddon, t, o) \/ (Answers /\ t = helper.transaction)
             /\ \A name, up : GoneOnly(toAddon, name, up) => GoneOnly(toAddon', name, up)
             /\ \A i \in DOMAIN toAddon' : toAddon'[i].kind = "Welcome" =>
                  i \in DOMAIN toAddon /\ toAddon'[i] = toAddon[i]
  <2>1. \A i \in DOMAIN toAddon' : toAddon'[i].kind = "Welcome" =>
          i \in DOMAIN toAddon /\ toAddon'[i] = toAddon[i]
    BY <1>1, <1>3, AppendPlaces
  <2> QED
    BY <1>1, <1>3, <2>1, AnswersAppend
<1>4. CASE Refuses
  BY <1>3, <1>4 DEF Refuses, Answer
<1>5. CASE Answers
  BY <1>3, <1>5 DEF Answers, Answer
<1> QED
  BY <1>2, <1>4, <1>5

\* What the helper was to show it is still to show.
LEMMA ComingLess ==
  ASSUME OrphanInv, UNCHANGED addon, OneCall,
         helper'.negotiated => helper'.peerOwner = helper.peerOwner,
         helper'.negotiated => helper.negotiated,
         UNCHANGED toAddon \/ Refuses \/ Answers
  PROVE  /\ \A t : helper'.negotiated /\ t # helper.transaction /\ Awaited(t) => Awaited(t)'
         /\ Coming'
<1>1. \A t : helper'.negotiated /\ t # helper.transaction /\ Awaited(t) => Awaited(t)'
  BY OneFrameMore DEF Awaited, Ready, Owner
<1>2. ASSUME NEW i \in DOMAIN toHelper', NEW call, NEW t, call = toHelper'[i],
             t = call.transaction, call.kind = "Show", FromPeer(call)'
      PROVE  Covered(i, t)'
  <2>1. FromPeer(call) /\ helper'.negotiated /\ helper'.peerOwner = helper.peerOwner
    BY <1>2 DEF FromPeer
  <2>2. Coming /\ NoShowOf(toHelper, helper.transaction) /\ toHelper \in Seq(ToHelper)
    BY OrphanParts DEF Distinct
  <2>3. CASE UNCHANGED toHelper
    <3>1. Covered(i, t) /\ t # helper.transaction
      BY <1>2, <2>1, <2>2, <2>3 DEF Coming, NoShowOf
    <3> QED
      BY <1>1, <2>1, <2>3, <3>1 DEF Covered
  <2>4. CASE toHelper # <<>> /\ toHelper' = Tail(toHelper)
    <3>1. i \in Nat /\ i + 1 \in DOMAIN toHelper /\ call = toHelper[i + 1]
      BY <1>2, <2>2, <2>4, TailPlaces
    <3>2. Covered(i + 1, t) /\ t # helper.transaction
      BY <1>2, <2>1, <2>2, <3>1 DEF Coming, NoShowOf
    <3>3. EndIn(toHelper, i + 1, helper.peerOwner, t) => EndIn(toHelper', i, helper.peerOwner, t)
      BY <2>2, <2>4, <3>1, OrphanTail
    <3> QED
      BY <1>1, <2>1, <3>2, <3>3 DEF Covered
  <2> QED
    BY <2>3, <2>4 DEF OneCall
<1> QED
  BY <1>1, <1>2 DEF Coming

LEMMA HelperTurnStep ==
  ASSUME OrphanInv, AgreementInv', HelperTurn
  PROVE  OrphanInv'
<1>1. helper'.transaction \in {0, helper.transaction}
  BY DEF HelperTurn, LeavesScreen, StaysOnScreen
<1>2. /\ NoHello(toHelper) => NoHello(toHelper')
      /\ ShowsClose(toHelper') /\ GreetFirst(toHelper') /\ ShowsBelow(toHelper', fresh)
      /\ \A t : NoShowOf(toHelper, t) => NoShowOf(toHelper', t)
      /\ ShownOnce(toHelper')
  BY OneCallLess DEF HelperTurn
<1>3. /\ AnswersBelow(toAddon', fresh)
      /\ \A t : NoAnswerOf(toAddon, t) /\ helper.transaction # t => NoAnswerOf(toAddon', t)
      /\ \A t, o : AnsweredIn(toAddon', t, o)
                     => AnsweredIn(toAddon, t, o) \/ (Answers /\ t = helper.transaction)
      /\ \A name, up : GoneOnly(toAddon, name, up) => GoneOnly(toAddon', name, up)
      /\ \A i \in DOMAIN toAddon' : toAddon'[i].kind = "Welcome" =>
           i \in DOMAIN toAddon /\ toAddon'[i] = toAddon[i]
  BY OneFrameMore DEF HelperTurn
<1>4. Closes' /\ Alive'
  BY <1>2, <1>3, OrphanParts DEF Closes, Alive, HelperTurn, AlwaysCloses
<1>5. Distinct'
  <2>1. NoShowOf(toHelper', helper'.transaction) /\ helper'.transaction < fresh
    BY <1>1, <1>2, OrphanParts, ShowsNameSome DEF Distinct
  <2> QED
    BY <1>2, <1>3, <2>1 DEF Distinct, HelperTurn
<1>6. Greeted'
  <2>1. \A o : PeerIsOf(o) => PeerIsOf(o)'
    BY DEF PeerIsOf, HelperTurn
  <2>2. Ready' => NoHello(toHelper') /\ PeerIsOf(Owner)'
    BY <1>2, <2>1, OrphanParts DEF Greeted, Ready, Owner, HelperTurn
  <2>3. ASSUME NEW i \in DOMAIN toAddon', NEW reply, reply = toAddon'[i],
               reply.kind = "Welcome", reply.call = addon'.pendingCall
        PROVE  NoHello(toHelper') /\ PeerIsOf(reply.from)'
    BY <1>2, <1>3, <2>1, <2>3, OrphanParts DEF Greeted, HelperTurn
  <2> QED
    BY <1>2, <2>2, <2>3 DEF Greeted
<1>7. ~Ready' /\ Active' => Unsent(addon.transaction)'
  BY <1>1, <1>2, <1>3, OrphanParts DEF Ready, Active, Unsent, HelperTurn
<1>8. Coming'
  BY ComingLess DEF HelperTurn
<1>9. Screen'
  <2>1. CASE LeavesScreen
    BY <2>1 DEF LeavesScreen, Screen
  <2>2. CASE StaysOnScreen
    <3> SUFFICES ASSUME helper'.visible, NEW t, t = helper.transaction
                 PROVE  helper'.negotiated /\ t # 0 /\ Covered(0, t)'
      BY <2>2 DEF Screen, StaysOnScreen
    <3>1. helper.visible /\ helper.negotiated /\ helper'.negotiated
          /\ helper'.peerOwner = helper.peerOwner /\ t # 0 /\ Covered(0, t)
      BY <2>2, OrphanParts DEF StaysOnScreen, Screen, HelperTurn
    <3>2. Awaited(t) => Awaited(t)'
      <4>1. \A o : AnsweredIn(toAddon', t, o) => AnsweredIn(toAddon, t, o)
        <5>1. CASE UNCHANGED toAddon
          BY <5>1
        <5>2. ASSUME NEW m, m.kind = "Refusal", toAddon' = Append(toAddon, m)
              PROVE  \A o : AnsweredIn(toAddon', t, o) => AnsweredIn(toAddon, t, o)
          BY <5>2, OrphanParts, AnswersAppend DEF Answer
        <5> QED
          BY <2>2, <5>1, <5>2 DEF StaysOnScreen, Refuses
      <4> QED
        BY <3>1, <4>1 DEF Awaited, Ready, Owner, HelperTurn
    <3>3. EndIn(toHelper, 0, helper.peerOwner, t) => EndIn(toHelper', 0, helper.peerOwner, t)
      <4>1. CASE UNCHANGED toHelper
        BY <4>1
      <4>2. CASE toHelper # <<>> /\ toHelper' = Tail(toHelper) /\ ~TakesOff(Head(toHelper))
        BY <4>2, OrphanParts, OrphanTail DEF TakesOff
      <4> QED
        BY <2>2, <3>1, <4>1, <4>2 DEF StaysOnScreen, HelperTurn, OneCall
    <3> QED
      BY <3>1, <3>2, <3>3 DEF Covered
  <2> QED
    BY <2>1, <2>2 DEF HelperTurn
<1> QED
  BY <1>4, <1>5, <1>6, <1>7, <1>8, <1>9 DEF OrphanInv

LEMMA HiddenFields ==
  ASSUME NEW h \in HelperRecords
  PROVE  /\ ~Hidden(h).visible /\ Hidden(h).transaction = h.transaction
         /\ Hidden(h).name = h.name /\ Hidden(h).up = h.up
         /\ Hidden(h).negotiated = h.negotiated /\ Hidden(h).peerOwner = h.peerOwner
         /\ Hidden(h).closeAfterSelection = h.closeAfterSelection
         /\ ~Reset(h).visible /\ Reset(h).transaction = 0
         /\ Reset(h).name = h.name /\ Reset(h).up = h.up
         /\ Reset(h).negotiated = h.negotiated /\ Reset(h).peerOwner = h.peerOwner
         /\ Reset(h).closeAfterSelection = h.closeAfterSelection
BY DEF Hidden, Reset, HelperRecords

\* The helper as every step finds it.
LEMMA HelperFound ==
  ASSUME OrphanInv
  PROVE  helper \in HelperRecords /\ (helper.visible => helper.closeAfterSelection)
BY OrphanParts DEF TypeInv, TypeOK, Closes

LEMMA TakenCall ==
  ASSUME OrphanInv, NEW kind, TakesCall(kind)
  PROVE  /\ OneCall /\ toHelper # <<>> /\ toHelper' = Tail(toHelper)
         /\ Head(toHelper) \in ToHelper /\ Head(toHelper).kind = kind /\ helper.up
BY OrphanParts, TakesOne DEF OneCall

\* Steps after which the helper is as it was.
LEMMA HelperIdles ==
  ASSUME OrphanInv, UNCHANGED <<addon, fresh, helper>>, OneCall, UNCHANGED toAddon \/ Refuses,
         UNCHANGED toHelper \/ ~helper.negotiated \/ ~TakesOff(Head(toHelper))
  PROVE  HelperTurn
BY HelperFound DEF HelperTurn, StaysOnScreen

\* Steps that hide the palette.
LEMMA HelperHides ==
  ASSUME OrphanInv, UNCHANGED <<addon, fresh>>, OneCall,
         UNCHANGED toAddon \/ Answers,
         NEW h \in HelperRecords, h.name = helper.name, h.up = helper.up,
         h.negotiated = helper.negotiated, h.peerOwner = helper.peerOwner,
         h.transaction \in {0, helper.transaction},
         helper' = Hidden(h) \/ helper' = Reset(h)
  PROVE  HelperTurn
BY HiddenFields DEF HelperTurn, LeavesScreen

LEMMA OrphanHide ==
  ASSUME OrphanInv, ExchangeHide, UNCHANGED addonVars
  PROVE  HelperTurn
<1> DEFINE call == Head(toHelper)
<1>1. UNCHANGED <<addon, fresh, toAddon>> /\ OneCall /\ call.kind = "Hide"
  BY TakenCall DEF ExchangeHide, addonVars
<1>2. CASE HidesPalette(call)
  <2>1. helper' = Reset(helper)
    BY <1>2 DEF ExchangeHide
  <2> QED
    BY <1>1, <2>1, HelperFound, HelperHides
<1>3. CASE ~HidesPalette(call) /\ helper.transaction # 0
  <2>1. ~helper.negotiated \/ ~TakesOff(call)
    BY <1>1, <1>3 DEF HidesPalette, TakesOff, FromPeer
  <2> QED
    BY <1>1, <1>3, <2>1, HelperIdles DEF ExchangeHide
<1>4. CASE ~HidesPalette(call) /\ helper.transaction = 0
  <2>1. ~helper.visible /\ helper' = helper
    BY <1>4, OrphanParts DEF Screen, ExchangeHide
  <2> QED
    BY <1>1, <2>1, HelperFound DEF HelperTurn, LeavesScreen
<1> QED
  BY <1>2, <1>3, <1>4

LEMMA OrphanPeerGone ==
  ASSUME OrphanInv, PeerDisconnected, UNCHANGED addonVars
  PROVE  HelperTurn
<1> DEFINE call == Head(toHelper)
<1>1. UNCHANGED <<addon, fresh, toAddon>> /\ OneCall /\ call.kind = "PeerGone"
  BY TakenCall DEF PeerDisconnected, addonVars
<1>2. CASE call.from = helper.peerOwner
  <2>1. helper' = WithoutPeer
    BY <1>2 DEF PeerDisconnected
  <2>2. Reset(helper) \in HelperRecords
    BY HelperFound, ResetType
  <2>3. /\ ~helper'.visible /\ helper'.transaction = 0 /\ helper'.name = helper.name
        /\ helper'.up = helper.up /\ ~helper'.negotiated
    BY <2>1, <2>2, HelperFound, HiddenFields DEF WithoutPeer, HelperRecords
  <2> QED
    BY <1>1, <2>3 DEF HelperTurn, LeavesScreen
<1>3. CASE call.from # helper.peerOwner
  <2>1. helper' = helper /\ ~TakesOff(call)
    BY <1>3 DEF PeerDisconnected, TakesOff
  <2> QED
    BY <1>1, <2>1, HelperIdles
<1> QED
  BY <1>2, <1>3

\* A choice hides the palette, and answers what it showed.
LEMMA ChooseHides ==
  ASSUME OrphanInv, UNCHANGED <<addon, fresh>>, OneCall,
         NEW h \in HelperRecords, h.name = helper.name, h.up = helper.up,
         h.negotiated = helper.negotiated, h.peerOwner = helper.peerOwner,
         h.visible => h.closeAfterSelection, h.transaction = helper.transaction, ChooseFrom(h)
  PROVE  HelperTurn
<1> DEFINE done == [h EXCEPT !.transaction = 0, !.validator = NoSequence]
           after == IF h.transaction = 0 THEN h ELSE done
<1>1. /\ after \in HelperRecords /\ after.up = h.up /\ after.name = h.name
      /\ after.negotiated = h.negotiated /\ after.peerOwner = h.peerOwner
      /\ after.visible = h.visible /\ after.transaction = 0
  BY Ranges DEF NoSequence, BeginSequence, HelperRecords, Validators
<1>2. helper' = Hidden(after) \/ (helper' = after /\ ~h.visible)
  BY DEF ChooseFrom
<1>3. UNCHANGED toAddon \/ Answers
  BY DEF ChooseFrom, Emits, Selected, Answers
<1> HIDE DEF after
<1>4. CASE helper' = Hidden(after)
  BY <1>1, <1>3, <1>4, HelperHides
<1>5. CASE helper' = after /\ ~h.visible
  BY <1>1, <1>3, <1>5 DEF HelperTurn, LeavesScreen
<1> QED
  BY <1>2, <1>4, <1>5

LEMMA OrphanClick ==
  ASSUME OrphanInv, ClickEmoji \/ ClickSettings, UNCHANGED addonVars
  PROVE  HelperTurn
<1>1. UNCHANGED <<addon, fresh>> /\ UNCHANGED toHelper /\ OneCall
  BY DEF ClickEmoji, ClickSettings, addonVars, OneCall
<1>2. CASE ClickEmoji
  BY <1>1, <1>2, HelperFound, ChooseHides DEF ClickEmoji
<1>3. CASE ClickSettings
  BY <1>1, <1>3, HelperFound DEF ClickSettings, HelperTurn, StaysOnScreen, HelperRecords
<1> QED
  BY <1>2, <1>3

LEMMA OrphanCommand ==
  ASSUME OrphanInv, ExchangeCommand, UNCHANGED addonVars
  PROVE  HelperTurn
<1> DEFINE call == Head(toHelper)
           h == Counted(call)
<1>1. /\ UNCHANGED <<addon, fresh>> /\ OneCall /\ call \in ToHelper /\ call.kind = "Command"
      /\ ~TakesOff(call)
  BY TakenCall DEF ExchangeCommand, addonVars, TakesOff
<1>2. CASE UNCHANGED <<helper, toAddon, chosen, escaped>>
  BY <1>1, <1>2, HelperIdles
<1>3. CASE Handles(call) /\ Handled(call)
  <2>1. call.sequence \in CommandNumbers
    BY <1>1 DEF ToHelper
  <2>2. /\ h \in HelperRecords /\ h.transaction = helper.transaction
        /\ h.name = helper.name /\ h.up = helper.up /\ h.negotiated = helper.negotiated
        /\ h.peerOwner = helper.peerOwner /\ h.visible = helper.visible
        /\ h.visible => h.closeAfterSelection
    BY <2>1, HelperFound DEF Counted, HelperRecords, Validators
  <2> HIDE DEF h
  <2>3. ASSUME /\ helper'.up = h.up /\ helper'.name = h.name
               /\ helper'.negotiated = h.negotiated /\ helper'.peerOwner = h.peerOwner
               /\ helper'.visible = h.visible /\ helper'.transaction = h.transaction
               /\ helper'.closeAfterSelection = h.closeAfterSelection,
               UNCHANGED toAddon
        PROVE  HelperTurn
    BY <1>1, <2>2, <2>3 DEF HelperTurn, StaysOnScreen
  <2>4. CASE call.command = "SearchText"
    <3>1. helper' = [h EXCEPT !.query = call.text] /\ UNCHANGED toAddon
      BY <1>3, <2>4 DEF Handled, h
    <3> QED
      BY <2>2, <2>3, <3>1 DEF HelperRecords
  <2>5. CASE call.command = "Cancel"
    <3>1. CancelFromKeyboard(h)
      BY <1>3, <2>5 DEF Handled, h
    <3>2. CASE h.settingsPanel
      <4>1. helper' = [h EXCEPT !.settingsPanel = FALSE] /\ UNCHANGED toAddon
        BY <3>1, <3>2 DEF CancelFromKeyboard
      <4> QED
        BY <2>2, <2>3, <4>1 DEF HelperRecords
    <3>3. CASE ~h.settingsPanel
      <4>1. helper' = Reset(h) /\ toAddon' = Append(toAddon, Cancelled(h.name, h.transaction))
        BY <3>1, <3>3 DEF CancelFromKeyboard, Emits
      <4>2. Answers
        BY <2>2, <4>1 DEF Answers, Cancelled
      <4> QED
        BY <1>1, <2>2, <4>1, <4>2, HelperHides
    <3> QED
      BY <3>2, <3>3
  <2>6. CASE call.command = "Select"
    <3>1. ChooseFrom(h) \/ (helper' = h /\ UNCHANGED toAddon)
      BY <1>3, <2>6 DEF Handled, h
    <3>2. CASE ChooseFrom(h)
      BY <1>1, <2>2, <3>2, ChooseHides
    <3>3. CASE helper' = h /\ UNCHANGED toAddon
      BY <2>3, <3>3
    <3> QED
      BY <3>1, <3>2, <3>3
  <2>7. CASE call.command \notin {"SearchText", "Cancel", "Select"}
    <3>1. helper' = h /\ UNCHANGED toAddon
      BY <1>3, <2>7 DEF Handled, h
    <3> QED
      BY <2>3, <3>1
  <2> QED
    BY <2>4, <2>5, <2>6, <2>7
<1> QED
  BY <1>2, <1>3 DEF ExchangeCommand

LEMMA OrphanShow ==
  ASSUME OrphanInv, AgreementInv', ExchangeShow, UNCHANGED addonVars
  PROVE  OrphanInv'
<1> DEFINE show == Head(toHelper)
<1>1. /\ UNCHANGED <<addon, fresh, toAddon>> /\ OneCall /\ show.kind = "Show"
      /\ show \in ToHelper /\ toHelper # <<>> /\ toHelper' = Tail(toHelper)
  BY TakenCall DEF ExchangeShow, addonVars
<1>2. CASE ~FromPeer(show)
  <2>1. helper' = helper /\ (~helper.negotiated \/ ~TakesOff(show))
    BY <1>2 DEF ExchangeShow, FromPeer, TakesOff
  <2> QED
    BY <1>1, <2>1, HelperIdles, HelperTurnStep
<1>3. CASE FromPeer(show)
  <2>1. /\ helper'.transaction = show.transaction /\ helper'.visible
        /\ helper'.closeAfterSelection = show.closeAfterSelection
        /\ helper'.name = helper.name /\ helper'.up = helper.up
        /\ helper'.negotiated = helper.negotiated /\ helper'.peerOwner = helper.peerOwner
    <3>1. helper' = Shown(helper, show)
      BY <1>3 DEF ExchangeShow
    <3> HIDE DEF show
    <3> QED
      BY <3>1, HelperFound DEF Shown, HelperRecords
  <2>2. /\ 1 \in DOMAIN toHelper /\ toHelper[1] = show
        /\ toHelper \in Seq(ToHelper)
    BY <1>1, OrphanParts, TailPlaces
  <2>3. /\ show.closeAfterSelection /\ show.transaction < fresh /\ show.transaction # 0
        /\ NoShowOf(toHelper', show.transaction)
        /\ ~Ready /\ Active => show.transaction # addon.transaction
    <3>1. show.closeAfterSelection /\ show.transaction < fresh
      BY <1>1, <2>2, OrphanParts DEF Closes, ShowsClose, Distinct, ShowsBelow
    <3>2. show.transaction # 0
      BY <1>1, <2>2, ShowsNameSome DEF NoShowOf
    <3>3. NoShowOf(toHelper', show.transaction)
      BY <1>1, <2>2, OrphanParts, OrphanTail DEF Distinct
    <3>4. ~Ready /\ Active => show.transaction # addon.transaction
      BY <1>1, <2>2, OrphanParts DEF Unsent, NoShowOf
    <3> QED
      BY <3>1, <3>2, <3>3, <3>4
  <2> HIDE DEF show
  <2>4. /\ NoHello(toHelper) => NoHello(toHelper')
        /\ ShowsClose(toHelper') /\ GreetFirst(toHelper') /\ ShowsBelow(toHelper', fresh)
        /\ \A t : NoShowOf(toHelper, t) => NoShowOf(toHelper', t)
        /\ ShownOnce(toHelper')
    BY <1>1, OneCallLess
  <2>5. Closes' /\ Alive' /\ Distinct'
    BY <1>1, <2>1, <2>3, <2>4, OrphanParts DEF Closes, Alive, Distinct, AlwaysCloses
  <2>6. Greeted'
    <3>1. \A o : PeerIsOf(o) => PeerIsOf(o)'
      BY <1>1, <2>1 DEF PeerIsOf
    <3>2. Ready' => NoHello(toHelper') /\ PeerIsOf(Owner)'
      BY <1>1, <2>4, <3>1, OrphanParts DEF Greeted, Ready, Owner
    <3>3. ASSUME NEW i \in DOMAIN toAddon', NEW reply, reply = toAddon'[i],
                 reply.kind = "Welcome", reply.call = addon'.pendingCall
          PROVE  NoHello(toHelper') /\ PeerIsOf(reply.from)'
      BY <1>1, <2>4, <3>1, <3>3, OrphanParts DEF Greeted
    <3> QED
      BY <2>4, <3>2, <3>3 DEF Greeted
  <2>7. ~Ready' /\ Active' => Unsent(addon.transaction)'
    BY <1>1, <2>1, <2>3, <2>4, OrphanParts DEF Ready, Active, Unsent
  <2>8. Coming'
    BY <1>1, <2>1, ComingLess
  <2>9. Screen'
    <3> SUFFICES ASSUME NEW t, t = show.transaction
                 PROVE  helper'.negotiated /\ t # 0 /\ Covered(0, t)'
      BY <2>1 DEF Screen
    <3>1. Covered(1, t) /\ helper.negotiated
      BY <1>1, <1>3, <2>2, OrphanParts DEF Coming, FromPeer
    <3>2. Awaited(t) => Awaited(t)'
      BY <1>1, <2>1 DEF Awaited, Ready, Owner
    <3>3. EndIn(toHelper, 0 + 1, helper.peerOwner, t) => EndIn(toHelper', 0, helper.peerOwner, t)
      BY <1>1, <2>2, OrphanTail
    <3> QED
      BY <2>1, <2>3, <3>1, <3>2, <3>3 DEF Covered
  <2> QED
    BY <2>5, <2>6, <2>7, <2>8, <2>9 DEF OrphanInv
<1> QED
  BY <1>2, <1>3

LEMMA OrphanHello ==
  ASSUME OrphanInv, AgreementInv', ExchangeHello, UNCHANGED addonVars
  PROVE  OrphanInv'
<1> DEFINE hello == Head(toHelper)
<1>1. /\ UNCHANGED <<addon, fresh>> /\ OneCall /\ hello.kind = "Hello" /\ helper.up
      /\ toHelper # <<>> /\ toHelper' = Tail(toHelper) /\ toHelper \in Seq(ToHelper)
  BY OrphanParts, TakenCall DEF ExchangeHello, addonVars
<1>2. CASE ~helper.compatible
  <2>1. helper' = helper /\ Refuses /\ ~TakesOff(hello)
    BY <1>1, <1>2 DEF ExchangeHello, Emits, Refuses, Refusal, TakesOff
  <2> QED
    BY <1>1, <2>1, HelperIdles, HelperTurnStep
<1>3. CASE helper.compatible
  <2>1. helper' = Rebound(helper, hello.from)
        /\ toAddon' = Append(toAddon, Welcome(helper.name, hello.nonce, hello.nonce))
    BY <1>3 DEF ExchangeHello, Emits
  <2>2. PICK m : /\ toAddon' = Append(toAddon, m) /\ m.kind = "Welcome"
                 /\ m.from = helper.name /\ m.call = hello.nonce
    BY <2>1 DEF Welcome
  <2>3. /\ helper'.name = helper.name /\ helper'.up = helper.up
        /\ helper'.visible => helper'.closeAfterSelection
        /\ \/ ~helper'.visible /\ helper'.transaction = 0
           \/ /\ helper'.visible = helper.visible /\ helper'.transaction = helper.transaction
              /\ helper'.peerOwner = helper.peerOwner /\ helper'.negotiated
    <3>1. Reset(helper) \in HelperRecords
      BY HelperFound, ResetType
    <3> HIDE DEF hello
    <3>2. CASE helper.peerOwner = hello.from
      BY <2>1, <3>2, HelperFound DEF Rebound, HelperRecords
    <3>3. CASE helper.peerOwner # hello.from
      <4>1. helper' = [Reset(helper) EXCEPT !.peerOwner = hello.from, !.negotiated = TRUE]
        BY <2>1, <3>3 DEF Rebound
      <4> QED
        BY <3>1, <4>1, HelperFound, HiddenFields DEF HelperRecords
    <3> QED
      BY <3>2, <3>3
  <2>4. ~NoHello(toHelper) /\ \A i \in DOMAIN toHelper' : toHelper'[i].kind # "Show"
    <3>1. ~NoHello(toHelper)
      BY <1>1, TailPlaces DEF NoHello
    <3> QED
      BY <1>1, <3>1, OrphanParts, OrphanTail DEF Greeted
  <2>5. ~Ready
    BY <2>4, OrphanParts DEF Greeted
  <2>6. hello.nonce = addon.pendingCall => NoHello(toHelper')
    BY <1>1, OrphanParts, HelperTail DEF OnlyHears, NoHello
  <2> HIDE DEF hello
  <2>7. /\ ShowsClose(toHelper') /\ GreetFirst(toHelper') /\ ShowsBelow(toHelper', fresh)
        /\ \A t : NoShowOf(toHelper, t) => NoShowOf(toHelper', t)
        /\ ShownOnce(toHelper')
    BY <1>1, OneCallLess
  <2>8. /\ AnswersBelow(toAddon', fresh)
        /\ \A t : NoAnswerOf(toAddon, t) => NoAnswerOf(toAddon', t)
        /\ \A name, up : GoneOnly(toAddon, name, up) => GoneOnly(toAddon', name, up)
    BY <2>2, OrphanParts, AnswersAppend DEF Answer, Distinct
  <2>9. Closes' /\ Alive'
    BY <1>1, <2>3, <2>7, <2>8, OrphanParts DEF Closes, Alive, AlwaysCloses
  <2>10. Distinct'
    <3>1. helper'.transaction < fresh /\ NoShowOf(toHelper', helper'.transaction)
      BY <2>3, <2>4, OrphanParts DEF Distinct, NoShowOf
    <3> QED
      BY <1>1, <2>7, <2>8, <3>1 DEF Distinct
  <2>11. Greeted'
    <3>1. ~Ready'
      BY <1>1, <2>5 DEF Ready
    <3>2. ASSUME NEW i \in DOMAIN toAddon', NEW reply, reply = toAddon'[i],
                 reply.kind = "Welcome", reply.call = addon'.pendingCall
          PROVE  NoHello(toHelper') /\ PeerIsOf(reply.from)'
      <4>1. i \notin DOMAIN toAddon
        BY <1>1, <2>2, <2>4, <3>2, OrphanParts, AppendPlaces DEF Greeted
      <4>2. reply = m
        BY <2>2, <3>2, <4>1, OrphanParts, AppendPlaces
      <4> QED
        BY <1>1, <2>2, <2>3, <2>6, <3>2, <4>2 DEF PeerIsOf
    <3> QED
      BY <2>7, <3>1, <3>2 DEF Greeted
  <2>12. ~Ready' /\ Active' => Unsent(addon.transaction)'
    BY <1>1, <2>3, <2>5, <2>7, <2>8, OrphanParts DEF Ready, Active, Unsent
  <2>13. Coming'
    BY <2>4 DEF Coming
  <2>14. Screen'
    <3> SUFFICES ASSUME helper'.visible, NEW t, t = helper.transaction
                 PROVE  /\ helper'.negotiated /\ helper'.transaction = t /\ t # 0
                        /\ Covered(0, t)'
      BY DEF Screen
    <3>1. /\ helper.visible /\ helper'.transaction = t /\ helper'.negotiated
          /\ helper'.peerOwner = helper.peerOwner
      BY <2>3
    <3>2. t # 0 /\ EndIn(toHelper, 0, helper.peerOwner, t)
      BY <2>5, <3>1, OrphanParts DEF Screen, Covered, Awaited
    <3>3. EndIn(toHelper', 0, helper.peerOwner, t)
      BY <1>1, <3>2, OrphanTail DEF hello
    <3> QED
      BY <3>1, <3>2, <3>3 DEF Covered
  <2> QED
    BY <2>9, <2>10, <2>11, <2>12, <2>13, <2>14 DEF OrphanInv
<1> QED
  BY <1>2, <1>3

\* Without a helper there is nothing to take off the screen.
LEMMA NoHelperStep ==
  ASSUME OrphanInv, AgreementInv', UNCHANGED <<addon, fresh>>,
         NEW k \in Nat, toHelper' \in Seq(ToHelper),
         \A i \in DOMAIN toHelper' : i + k \in DOMAIN toHelper /\ toHelper'[i] = toHelper[i + k],
         ~helper'.visible, ~helper'.negotiated,
         helper'.transaction \in {0, helper.transaction},
         AnswersBelow(toAddon', fresh),
         \A t : NoAnswerOf(toAddon, t) => NoAnswerOf(toAddon', t),
         GoneOnly(toAddon', helper'.name, helper'.up),
         \A i \in DOMAIN toAddon' : toAddon'[i].kind = "Welcome" =>
              i \in DOMAIN toAddon /\ toAddon'[i] = toAddon[i]
  PROVE  OrphanInv'
<1>1. /\ NoHello(toHelper) => NoHello(toHelper')
      /\ ShowsClose(toHelper') /\ GreetFirst(toHelper') /\ ShowsBelow(toHelper', fresh)
      /\ \A t : NoShowOf(toHelper, t) => NoShowOf(toHelper', t)
      /\ ShownOnce(toHelper')
  BY OrphanParts, OrphanCut DEF Closes, Greeted, Distinct
<1>2. Closes' /\ Alive'
  BY <1>1, OrphanParts DEF Closes, Alive, AlwaysCloses
<1>3. Distinct'
  <2>1. helper'.transaction < fresh /\ NoShowOf(toHelper', helper'.transaction)
    BY <1>1, OrphanParts, ShowsNameSome DEF Distinct
  <2> QED
    BY <1>1, <2>1 DEF Distinct
<1>4. Greeted'
  <2>1. \A o : PeerIsOf(o)'
    BY DEF PeerIsOf
  <2>2. Ready' => NoHello(toHelper') /\ PeerIsOf(Owner)'
    BY <1>1, OrphanParts DEF Greeted, Ready, Owner, PeerIsOf
  <2>3. ASSUME NEW i \in DOMAIN toAddon', NEW reply, reply = toAddon'[i],
               reply.kind = "Welcome", reply.call = addon'.pendingCall
        PROVE  NoHello(toHelper') /\ PeerIsOf(reply.from)'
    BY <1>1, <2>1, <2>3, OrphanParts DEF Greeted
  <2> QED
    BY <1>1, <2>2, <2>3 DEF Greeted
<1>5. ~Ready' /\ Active' => Unsent(addon.transaction)'
  BY <1>1, OrphanParts DEF Ready, Active, Unsent
<1>6. Screen' /\ Coming'
  BY DEF Screen, Coming, FromPeer
<1> QED
  BY <1>2, <1>3, <1>4, <1>5, <1>6 DEF OrphanInv

\* The error of a lost call answers nothing and tells of nobody.
LEMMA ErrorTellsNothing ==
  ASSUME TypeInv, NEW q \in Seq(ToAddon), NEW n \in 0 .. Len(toHelper)
  PROVE  /\ \A f : AnswersBelow(q, f) => AnswersBelow(q \o ErrorIfLost(n), f)
         /\ \A t : NoAnswerOf(q, t) => NoAnswerOf(q \o ErrorIfLost(n), t)
         /\ \A name, up : GoneOnly(q, name, up) => GoneOnly(q \o ErrorIfLost(n), name, up)
         /\ \A i \in DOMAIN (q \o ErrorIfLost(n)) :
              (q \o ErrorIfLost(n))[i].kind = "Welcome" =>
                i \in DOMAIN q /\ (q \o ErrorIfLost(n))[i] = q[i]
<1> DEFINE m == CallError(addon.pendingCall)
<1>1. ErrorIfLost(n) = <<>> \/ ErrorIfLost(n) = <<m>>
  BY DEF ErrorIfLost
<1>2. m.kind = "CallError"
  BY DEF CallError
<1> HIDE DEF m
<1>3. CASE ErrorIfLost(n) = <<>>
  <2>1. q \o <<>> = q
    OBVIOUS
  <2> QED
    BY <1>3, <2>1
<1>4. CASE ErrorIfLost(n) = <<m>>
  <2>1. m \in ToAddon
    <3>1. ErrorIfLost(n) \in Seq(ToAddon)
      BY ErrorType
    <3>2. <<m>> \in Seq(ToAddon)
      BY <1>4, <3>1
    <3> QED
      BY <3>2
  <2>2. q \o <<m>> = Append(q, m)
    BY <2>1
  <2>3. /\ \A f : AnswersBelow(q, f) => AnswersBelow(Append(q, m), f)
        /\ \A t : NoAnswerOf(q, t) => NoAnswerOf(Append(q, m), t)
        /\ \A name, up : GoneOnly(q, name, up) => GoneOnly(Append(q, m), name, up)
    BY <1>2, AnswersAppend DEF Answer
  <2>4. \A i \in DOMAIN Append(q, m) : Append(q, m)[i].kind = "Welcome" =>
          i \in DOMAIN q /\ Append(q, m)[i] = q[i]
    BY <1>2, AppendPlaces
  <2> QED
    BY <1>4, <2>2, <2>3, <2>4
<1> QED
  BY <1>1, <1>3, <1>4

LEMMA GoneMore ==
  ASSUME NEW q \in Seq(ToAddon), NEW n \in Nat, NEW up, GoneOnly(q, n, up)
  PROVE  GoneOnly(q, n + 1, TRUE) /\ GoneOnly(q, n, FALSE)
<1>1. \A m \in ToAddon : m.kind = "OwnerGone" => m.from \in Nat
  BY DEF ToAddon, HelperNames
<1>2. \A i \in DOMAIN q : q[i] \in ToAddon
  OBVIOUS
<1> QED
  BY <1>1, <1>2 DEF GoneOnly

LEMMA OrphanBus ==
  ASSUME OrphanInv, AgreementInv', StartHelper \/ StartFails \/ HelperDies
  PROVE  OrphanInv'
<1>1. /\ UNCHANGED <<addon, fresh>> /\ TypeInv /\ toHelper \in Seq(ToHelper)
      /\ toAddon \in Seq(ToAddon) /\ helper.name \in Nat
      /\ AnswersBelow(toAddon, fresh) /\ GoneOnly(toAddon, helper.name, helper.up)
  BY OrphanParts DEF StartHelper, StartFails, HelperDies, BusUnchanged, Distinct, Alive
<1>2. toHelper' \in Seq(ToHelper)
  BY DEF AgreementInv, TypeInv, TypeOK
<1>3. CASE StartHelper
  <2>1. /\ UNCHANGED <<toHelper, toAddon>> /\ ~helper'.visible /\ ~helper'.negotiated
        /\ helper'.transaction = 0
        /\ helper'.name = helper.name + 1 /\ helper'.up = TRUE
    BY <1>3 DEF StartHelper, NewHelper
  <2>2. GoneOnly(toAddon', helper'.name, helper'.up)
    BY <1>1, <2>1, GoneMore
  <2>3. \A i \in DOMAIN toHelper' : i + 0 \in DOMAIN toHelper /\ toHelper'[i] = toHelper[i + 0]
    BY <1>1, <2>1
  <2>4. /\ 0 \in Nat /\ UNCHANGED <<addon, fresh>> /\ AnswersBelow(toAddon', fresh)
        /\ \A t : NoAnswerOf(toAddon, t) => NoAnswerOf(toAddon', t)
        /\ \A i \in DOMAIN toAddon' : toAddon'[i].kind = "Welcome" =>
             i \in DOMAIN toAddon /\ toAddon'[i] = toAddon[i]
    BY <1>1, <2>1
  <2>5. helper'.transaction \in {0, helper.transaction}
    BY <2>1
  <2> QED
    BY <1>2, <2>1, <2>2, <2>3, <2>4, <2>5, NoHelperStep
<1>4. CASE StartFails
  <2>1. /\ toHelper' = <<>> /\ toAddon' = toAddon \o ErrorIfLost(Len(toHelper))
        /\ helper' = helper /\ ~helper.up
    BY <1>4 DEF StartFails
  <2>2. Len(toHelper) \in 0 .. Len(toHelper)
    BY <1>1
  <2>3. /\ AnswersBelow(toAddon', fresh)
        /\ \A t : NoAnswerOf(toAddon, t) => NoAnswerOf(toAddon', t)
        /\ GoneOnly(toAddon', helper.name, helper.up)
        /\ \A i \in DOMAIN toAddon' : toAddon'[i].kind = "Welcome" =>
             i \in DOMAIN toAddon /\ toAddon'[i] = toAddon[i]
    BY <1>1, <2>1, <2>2, ErrorTellsNothing
  <2>4. ~helper.negotiated /\ ~helper.visible
    BY <2>1, OrphanParts DEF Alive, Screen
  <2>5. \A i \in DOMAIN toHelper' : i + 0 \in DOMAIN toHelper /\ toHelper'[i] = toHelper[i + 0]
    BY <2>1
  <2>6. /\ helper'.transaction = helper.transaction /\ ~helper'.visible
        /\ ~helper'.negotiated
        /\ GoneOnly(toAddon', helper'.name, helper'.up)
    BY <2>1, <2>3, <2>4
  <2>7. 0 \in Nat /\ UNCHANGED <<addon, fresh>>
    BY <1>1
  <2> QED
    BY <1>2, <2>3, <2>5, <2>6, <2>7, NoHelperStep
<1>5. CASE HelperDies
  <2>1. PICK routed \in 0 .. Len(toHelper) :
          /\ toHelper' = SubSeq(toHelper, routed + 1, Len(toHelper))
          /\ toAddon' = Append(toAddon, OwnerGone(helper.name)) \o ErrorIfLost(routed)
    BY <1>5 DEF HelperDies
  <2> DEFINE m == OwnerGone(helper.name)
             q == Append(toAddon, m)
  <2>2. m.kind = "OwnerGone" /\ m.from = helper.name /\ m \in ToAddon
    <3>1. helper.name \in HelperNames
      BY <1>1, <1>5 DEF HelperDies, TypeInv, TypeOK, LiveName, HelperRecords, MaybeHelper,
                        HelperNames
    <3> QED
      BY <3>1 DEF OwnerGone, ToAddon
  <2>3. toAddon' = q \o ErrorIfLost(routed)
    BY <2>1
  <2> HIDE DEF m
  <2>4. /\ q \in Seq(ToAddon)
        /\ AnswersBelow(q, fresh) /\ \A t : NoAnswerOf(toAddon, t) => NoAnswerOf(q, t)
    BY <1>1, <2>2, AnswersAppend DEF Answer
  <2>5. /\ \A i \in DOMAIN q : q[i].kind = "Welcome" => i \in DOMAIN toAddon /\ q[i] = toAddon[i]
        /\ GoneOnly(q, helper.name, FALSE)
    <3>1. GoneOnly(toAddon, helper.name, FALSE)
      BY <1>1, GoneMore
    <3> QED
      BY <1>1, <2>2, <3>1, AppendPlaces DEF GoneOnly
  <2> HIDE DEF q
  <2>6. /\ AnswersBelow(toAddon', fresh)
        /\ \A t : NoAnswerOf(toAddon, t) => NoAnswerOf(toAddon', t)
        /\ GoneOnly(toAddon', helper.name, FALSE)
        /\ \A i \in DOMAIN toAddon' : toAddon'[i].kind = "Welcome" =>
             i \in DOMAIN toAddon /\ toAddon'[i] = toAddon[i]
    <3>1. \A i \in DOMAIN toAddon' : toAddon'[i].kind = "Welcome" =>
            i \in DOMAIN q /\ toAddon'[i] = q[i]
      BY <1>1, <2>3, <2>4, ErrorTellsNothing
    <3> QED
      BY <1>1, <2>3, <2>4, <2>5, <3>1, ErrorTellsNothing
  <2>7. /\ helper'.name = helper.name /\ helper'.up = FALSE /\ ~helper'.visible
        /\ ~helper'.negotiated /\ helper'.transaction = 0
    BY <1>5 DEF HelperDies, NewHelper
  <2>8. routed \in Nat /\ \A i \in DOMAIN toHelper' :
          i + routed \in DOMAIN toHelper /\ toHelper'[i] = toHelper[i + routed]
    BY <1>1, <2>1, SubSeqProperties
  <2> QED
    BY <1>1, <1>2, <2>6, <2>7, <2>8, NoHelperStep
<1> QED
  BY <1>3, <1>4, <1>5

LEMMA OrphanStep ==
  ASSUME OrphanInv, [Next]_vars
  PROVE  OrphanInv'
<1>1. AgreementInv'
  BY OrphanParts, AgreementStep
<1>2. CASE AddonHears
  BY <1>1, <1>2, OrphanReply, OrphanSelected, OrphanCancelled, OrphanOwnerGone,
     OrphanShapeStep DEF AddonHears
<1>3. CASE HelperHears
  BY <1>1, <1>3, OrphanHello, OrphanShow, OrphanCommand, OrphanHide, OrphanPeerGone,
     HelperTurnStep DEF HelperHears
<1>4. CASE Timeout
  BY <1>1, <1>4, OrphanTimeout, OrphanShapeStep
<1>5. CASE User
  BY <1>1, <1>5, OrphanTrigger, OrphanKey, OrphanShapeStep, OrphanClick, HelperTurnStep DEF User
<1>6. CASE ClientEvents
  BY <1>1, <1>6, OrphanClient, OrphanShapeStep
<1>7. CASE StartHelper \/ StartFails \/ HelperDies
  BY <1>1, <1>7, OrphanBus
<1>8. CASE RestartAddon
  BY <1>1, <1>8, OrphanRestart, OrphanShapeStep
<1>9. CASE UNCHANGED vars
  <2>1. UNCHANGED <<addon, fresh, helper, toHelper, toAddon>>
    BY <1>9 DEF vars, addonVars, helperVars
  <2>2. HelperTurn
    BY <2>1, HelperIdles DEF OneCall
  <2> QED
    BY <1>1, <2>2, HelperTurnStep
<1> QED
  BY <1>2, <1>3, <1>4, <1>5, <1>6, <1>7, <1>8, <1>9 DEF Next

\* Where palettes close after a selection and every envelope is sent, no palette stays on
\* the screen without a transaction of the addon: not after a timeout, a crash on either
\* side, a selection that crosses a change of focus, or a restart of Fcitx5.
THEOREM ClosingLeavesNoPalette == Spec /\ AlwaysCloses => []NoOrphanPalette
<1>1. Init /\ AlwaysCloses => OrphanInv
  BY OrphanInit
<1>2. OrphanInv /\ [Next]_vars => OrphanInv'
  BY OrphanStep
<1>3. OrphanInv => NoOrphanPalette
  BY NothingAwaited
<1> QED
  BY <1>1, <1>2, <1>3, PTL DEF Spec
=============================================================================
