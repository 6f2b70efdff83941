-------------------------- MODULE EventStreamProofs -------------------------
(***************************************************************************)
(* For every set of clients, every MAXLEN and every number of events and   *)
(* broken connections: a client that comes back with Last-Event-ID misses  *)
(* only what was trimmed and receives nothing twice, and no response goes  *)
(* on after a terminal event.                                              *)
(*                                                                         *)
(* What a client has received and what is on its wire say too little to be *)
(* inductive: the argument is about where the relay stands.  Its cursor is *)
(* the last event the client has or will have; the batch it still holds is *)
(* the unbroken run of events that follow the cursor, up to trimmed ones;  *)
(* so yielding the next of the batch leaves no gap, and losing the wire    *)
(* moves the position back to the last event received.                     *)
(***************************************************************************)
EXTENDS EventStream, SequenceTheorems, TLAPS

-----------------------------------------------------------------------------
(* One client: pub and lost stand for the stream, r for its relay, w for   *)
(* its wire and g for what it has received.                                *)

Rising(s) == \A i, j \in DOMAIN s : i < j => s[i] < s[j]

LastOf(s) == IF s = <<>> THEN 0 ELSE s[Len(s)]

\* The last event the client has or, while it is connected, will have.
Position(r, g) == IF r.at = "none" THEN LastOf(g) ELSE r.cursor

Held(w, g, i) == (\E j \in DOMAIN g : g[j] = i) \/ (\E j \in DOMAIN w : w[j] = i)

Typed(pub, lost, r, w, g) ==
    /\ pub \in Seq(Types)
    /\ lost \in 0..Len(pub)
    /\ r \in Relay
    /\ w \in Seq(1..Len(pub))
    /\ g \in Seq(1..Len(pub))

Ordered(w, g) ==
    /\ Rising(g)
    /\ Rising(w)
    /\ \A i \in DOMAIN g, j \in DOMAIN w : g[i] < w[j]

\* Where the relay stands, and that nothing up to there is missing.
Delivered(n, lost, r, w, g) ==
    /\ r.at = "none" => w = <<>>
    /\ r.at # "none" => r.cursor = IF w = <<>> THEN LastOf(g) ELSE w[Len(w)]
    /\ r.cursor <= n
    /\ \A i \in 1..n : i <= Position(r, g) => Held(w, g, i) \/ i <= lost

\* What the relay has read and not yielded.
Pending(n, lost, r) ==
    /\ r.at # "open" => r.batch = <<>>
    /\ \A k \in DOMAIN r.batch : /\ r.batch[k] = r.batch[1] + (k - 1)
                                 /\ r.cursor < r.batch[k]
                                 /\ r.batch[k] <= n
    /\ r.batch # <<>> =>
         \A i \in 1..n : r.cursor < i /\ i < r.batch[1] => i <= lost

Ending(pub, lost, r, w) ==
    /\ \A i \in DOMAIN w :
          pub[w[i]] \in TerminalTypes => i = Len(w) /\ r.at = "ended"
    /\ r.at = "open" => \A i \in 1..Len(pub) :
          r.from < i /\ i <= r.cursor => pub[i] \notin TerminalTypes \/ i <= lost

Follows(pub, lost, r, w, g) ==
    /\ Typed(pub, lost, r, w, g)
    /\ Ordered(w, g)
    /\ Delivered(Len(pub), lost, r, w, g)
    /\ Pending(Len(pub), lost, r)
    /\ Ending(pub, lost, r, w)

\* The inductive invariant.
FollowInv ==
    /\ published \in Seq(Types)
    /\ gone \in 0..Len(published)
    /\ relay \in [Clients -> Relay]
    /\ wire \in [Clients -> Seq(Ids)]
    /\ client \in [Clients -> Client]
    /\ \A c \in Clients : Follows(published, gone, relay[c], wire[c], client[c].got)
-----------------------------------------------------------------------------
\* A stream that grows and is trimmed leaves a client where it was.
LEMMA GrowKeeps ==
  ASSUME NEW pub, NEW lost, NEW r, NEW w, NEW g, Follows(pub, lost, r, w, g),
         NEW more \in Seq(Types), NEW less \in 0..Len(more),
         Len(pub) <= Len(more), lost <= less,
         \A i \in 1..Len(pub) : more[i] = pub[i]
  PROVE  Follows(more, less, r, w, g)
<1>1. Typed(pub, lost, r, w, g) BY DEF Follows
<1>2. Len(pub) \in Nat /\ Len(more) \in Nat /\ 1..Len(pub) \subseteq 1..Len(more)
  BY <1>1 DEF Typed
<1>3. w \in Seq(1..Len(more)) /\ g \in Seq(1..Len(more))
  BY <1>1, <1>2, SeqMonotonic DEF Typed
<1>4. Typed(more, less, r, w, g) BY <1>1, <1>3 DEF Typed
<1>5. Delivered(Len(more), less, r, w, g)
  <2>1. Delivered(Len(pub), lost, r, w, g) BY DEF Follows
  <2>2. LastOf(g) \in 0..Len(pub) BY <1>1, <1>2 DEF Typed, LastOf
  <2>3. r.cursor \in Nat /\ r.cursor <= Len(pub) BY <1>1, <2>1 DEF Typed, Delivered, Relay
  <2>4. Position(r, g) \in 0..Len(pub) BY <2>2, <2>3, <1>2 DEF Position
  <2>5. ASSUME NEW i \in 1..Len(more), i <= Position(r, g)
        PROVE  Held(w, g, i) \/ i <= less
    <3>1. i \in 1..Len(pub) BY <2>4, <2>5, <1>2
    <3>2. Held(w, g, i) \/ i <= lost BY <3>1, <2>5, <2>1 DEF Delivered
    <3> QED BY <3>1, <3>2, <1>1, <1>2 DEF Typed
  <2> QED BY <2>1, <2>3, <2>5, <1>2 DEF Delivered
<1>6. Pending(Len(more), less, r)
  <2>1. Pending(Len(pub), lost, r) BY DEF Follows
  <2>2. r.batch \in Seq(Nat) /\ r.cursor \in Nat BY <1>1 DEF Typed, Relay
  <2>3. ASSUME r.batch # <<>>, NEW i \in 1..Len(more), r.cursor < i, i < r.batch[1]
        PROVE  i <= less
    <3>1. 1 \in DOMAIN r.batch BY <2>2, <2>3
    <3>2. r.batch[1] <= Len(pub) /\ r.batch[1] \in Nat BY <3>1, <2>1, <2>2 DEF Pending
    <3>3. i \in 1..Len(pub) BY <3>2, <2>3, <1>2
    <3>4. i <= lost BY <3>3, <2>1, <2>3 DEF Pending
    <3> QED BY <3>4, <1>1, <1>2 DEF Typed
  <2>4. ASSUME NEW k \in DOMAIN r.batch
        PROVE  /\ r.batch[k] = r.batch[1] + (k - 1)
               /\ r.cursor < r.batch[k]
               /\ r.batch[k] <= Len(more)
    <3>1. r.batch[k] \in Nat BY <2>2
    <3> QED BY <3>1, <2>1, <1>2 DEF Pending
  <2> QED BY <2>1, <2>3, <2>4 DEF Pending
<1>7. Ending(more, less, r, w)
  <2>1. Ending(pub, lost, r, w) BY DEF Follows
  <2>2. ASSUME NEW i \in DOMAIN w, more[w[i]] \in TerminalTypes
        PROVE  i = Len(w) /\ r.at = "ended"
    <3>1. w[i] \in 1..Len(pub) BY <1>1 DEF Typed
    <3> QED BY <3>1, <2>1, <2>2 DEF Ending
  <2>3. ASSUME r.at = "open", NEW i \in 1..Len(more), r.from < i, i <= r.cursor
        PROVE  more[i] \notin TerminalTypes \/ i <= less
    <3>1. r.cursor \in Nat /\ r.cursor <= Len(pub)
      BY <1>1 DEF Typed, Follows, Delivered, Relay
    <3>2. i \in 1..Len(pub) BY <3>1, <2>3, <1>2
    <3>3. pub[i] \notin TerminalTypes \/ i <= lost BY <3>2, <2>1, <2>3 DEF Ending
    <3> QED BY <3>2, <3>3, <1>1, <1>2 DEF Typed
  <2> QED BY <2>2, <2>3 DEF Ending
<1> QED BY <1>4, <1>5, <1>6, <1>7 DEF Follows

\* A client starts where it left off.
LEMMA ConnectKeeps ==
  ASSUME NEW pub, NEW lost, NEW r, NEW w, NEW g, Follows(pub, lost, r, w, g),
         r.at = "none", NEW q \in Relay,
         q.at = "open", q.cursor = LastOf(g), q.from = LastOf(g), q.batch = <<>>
  PROVE  Follows(pub, lost, q, w, g)
<1>1. Typed(pub, lost, q, w, g) BY DEF Follows, Typed
<1>2. w = <<>> BY DEF Follows, Delivered
<1>3. LastOf(g) \in 0..Len(pub) BY <1>1 DEF Typed, LastOf
<1>4. Delivered(Len(pub), lost, q, w, g)
  <2>1. Position(q, g) = Position(r, g) BY DEF Position
  <2> QED BY <1>1, <1>2, <1>3, <2>1 DEF Follows, Delivered, Typed
<1>5. Pending(Len(pub), lost, q) BY DEF Pending
<1>6. Ending(pub, lost, q, w) BY <1>1, <1>2, <1>3 DEF Ending, Typed
<1> QED BY <1>1, <1>4, <1>5, <1>6 DEF Follows

\* A closed connection loses what was on the wire, and no more.
LEMMA CloseKeeps ==
  ASSUME NEW pub, NEW lost, NEW r, NEW w, NEW g, Follows(pub, lost, r, w, g),
         r.at # "none"
  PROVE  Follows(pub, lost, NoRelay, <<>>, g)
<1>1. Typed(pub, lost, r, w, g) BY DEF Follows
<1>2. Typed(pub, lost, NoRelay, <<>>, g)
  <2>1. <<>> \in Seq(1..Len(pub)) /\ <<>> \in Seq(Nat) BY EmptySeq
  <2> QED BY <1>1, <2>1 DEF Typed, NoRelay, Relay
<1>3. Ordered(<<>>, g) BY DEF Follows, Ordered, Rising
<1>4. Delivered(Len(pub), lost, NoRelay, <<>>, g)
  <2>1. NoRelay.at = "none" /\ NoRelay.cursor = 0 BY DEF NoRelay
  <2>2. ASSUME NEW i \in 1..Len(pub), i <= LastOf(g)
        PROVE  Held(<<>>, g, i) \/ i <= lost
    <3>1. g # <<>> /\ LastOf(g) = g[Len(g)] /\ Len(g) \in DOMAIN g
      BY <1>1, <2>2 DEF Typed, LastOf
    <3>2. g[Len(g)] \in Nat /\ r.cursor \in Nat BY <1>1, <3>1 DEF Typed, Relay
    <3>3. w # <<>> => LastOf(g) < w[Len(w)]
      BY <1>1, <3>1 DEF Follows, Ordered, Typed
    <3>4. w # <<>> => w[Len(w)] \in Nat BY <1>1 DEF Typed
    <3>5. LastOf(g) <= r.cursor
      BY <3>1, <3>2, <3>3, <3>4 DEF Follows, Delivered
    <3>6. i <= Position(r, g) BY <3>1, <3>2, <3>5, <2>2 DEF Position
    <3>7. Held(w, g, i) \/ i <= lost BY <3>6 DEF Follows, Delivered
    <3>8. ASSUME NEW j \in DOMAIN w, w[j] = i PROVE FALSE
      <4>1. g[Len(g)] < w[j] BY <3>1, <3>8 DEF Follows, Ordered
      <4> QED BY <4>1, <3>1, <3>2, <3>8, <2>2
    <3> QED BY <3>7, <3>8 DEF Held
  <2> QED BY <2>1, <2>2, <1>1 DEF Delivered, Position, Typed
<1>5. Pending(Len(pub), lost, NoRelay) BY DEF Pending, NoRelay
<1>6. Ending(pub, lost, NoRelay, <<>>) BY DEF Ending, NoRelay
<1> QED BY <1>2, <1>3, <1>4, <1>5, <1>6 DEF Follows

\* What the relay reads follows its cursor, up to trimmed events.
LEMMA ReadKeeps ==
  ASSUME NEW pub, NEW lost, NEW r, NEW w, NEW g, Follows(pub, lost, r, w, g),
         r.at = "open", NEW first \in Nat,
         first = (IF r.cursor > lost THEN r.cursor ELSE lost),
         NEW q \in Relay,
         q.at = "open", q.cursor = r.cursor, q.from = r.from,
         q.batch = [k \in 1..(Len(pub) - first) |-> first + k]
  PROVE  Follows(pub, lost, q, w, g)
<1>1. Typed(pub, lost, q, w, g) BY DEF Follows, Typed
<1>2. Delivered(Len(pub), lost, q, w, g)
  <2>1. Position(q, g) = Position(r, g) BY DEF Position
  <2> QED BY <2>1 DEF Follows, Delivered
<1>3. Pending(Len(pub), lost, q)
  <2>1. /\ Len(pub) \in Nat /\ lost \in Nat /\ r.cursor \in Nat
        /\ lost <= Len(pub) /\ r.cursor <= Len(pub)
        /\ r.cursor <= first
    BY DEF Follows, Typed, Delivered, Relay
  <2>2. ASSUME NEW k \in DOMAIN q.batch
        PROVE  /\ k \in 1..(Len(pub) - first)
               /\ q.batch[k] = first + k
               /\ q.batch[1] = first + 1
    <3>1. k \in 1..(Len(pub) - first) BY <2>2
    <3>2. 1 \in 1..(Len(pub) - first) BY <3>1, <2>1
    <3> QED BY <3>1, <3>2
  <2>3. ASSUME NEW k \in DOMAIN q.batch
        PROVE  /\ q.batch[k] = q.batch[1] + (k - 1)
               /\ q.cursor < q.batch[k]
               /\ q.batch[k] <= Len(pub)
    BY <2>1, <2>2, <2>3
  <2>4. ASSUME q.batch # <<>>, NEW i \in 1..Len(pub), r.cursor < i, i < q.batch[1]
        PROVE  i <= lost
    <3>1. 1 \in DOMAIN q.batch BY <2>4 DEF Relay
    <3>2. q.batch[1] = first + 1 BY <3>1, <2>2
    <3> QED BY <3>2, <2>1, <2>4
  <2> QED BY <2>3, <2>4 DEF Pending
<1>4. Ending(pub, lost, q, w) BY DEF Follows, Ending
<1> QED BY <1>1, <1>2, <1>3, <1>4 DEF Follows

\* One more element at the end, and one less at the front.
LEMMA AppendFacts ==
  ASSUME NEW S, NEW s \in Seq(S), NEW e \in S
  PROVE  /\ Append(s, e) \in Seq(S)
         /\ Append(s, e) # <<>>
         /\ Len(Append(s, e)) = Len(s) + 1
         /\ DOMAIN Append(s, e) = 1..(Len(s) + 1)
         /\ \A i \in DOMAIN s : Append(s, e)[i] = s[i]
         /\ Append(s, e)[Len(s) + 1] = e
<1>1. DOMAIN s = 1..Len(s) BY LenProperties
<1>2. Append(s, e) \in Seq(S) BY AppendProperties
<1>3. DOMAIN Append(s, e) = 1..Len(Append(s, e)) BY <1>2, LenProperties
<1> QED BY <1>1, <1>2, <1>3, AppendProperties

LEMMA TailFacts ==
  ASSUME NEW S, NEW s \in Seq(S), s # <<>>
  PROVE  /\ Len(s) \in Nat \ {0}
         /\ Tail(s) \in Seq(S)
         /\ Len(Tail(s)) = Len(s) - 1
         /\ DOMAIN Tail(s) = 1..(Len(s) - 1)
         /\ \A i \in DOMAIN Tail(s) : i + 1 \in DOMAIN s /\ Tail(s)[i] = s[i + 1]
<1>1. DOMAIN s = 1..Len(s) /\ Len(s) \in Nat \ {0} BY LenProperties, EmptySeq
<1>2. Tail(s) \in Seq(S) /\ Len(Tail(s)) = Len(s) - 1 BY HeadTailProperties
<1>3. DOMAIN Tail(s) = 1..(Len(s) - 1) BY <1>2, LenProperties
<1>4. ASSUME NEW i \in 1..(Len(s) - 1)
      PROVE  i + 1 \in DOMAIN s /\ Tail(s)[i] = s[i + 1]
  <2>1. i + 1 \in 1..Len(s) BY <1>1
  <2> QED BY <2>1, <1>1, <1>2, HeadTailProperties
<1> QED BY <1>1, <1>2, <1>3, <1>4

\* The next entry of the batch leaves no gap, and a terminal one is the last.
LEMMA YieldKeeps ==
  ASSUME NEW pub, NEW lost, NEW r, NEW w, NEW g, Follows(pub, lost, r, w, g),
         r.at = "open", r.batch # <<>>, NEW id, id = Head(r.batch),
         NEW over \in BOOLEAN, over = (pub[id] \in TerminalTypes),
         NEW q \in Relay, q.cursor = id, q.from = r.from,
         q.batch = (IF over THEN <<>> ELSE Tail(r.batch)),
         q.at = (IF over THEN "ended" ELSE "open")
  PROVE  /\ Append(w, id) \in Seq(1..Len(pub))
         /\ Follows(pub, lost, q, Append(w, id), g)
<1> DEFINE v == Append(w, id)
           n == Len(pub)
<1>1. Typed(pub, lost, r, w, g) BY DEF Follows
<1>2. /\ n \in Nat /\ lost \in Nat /\ r.cursor \in Nat /\ r.from \in Nat
      /\ r.batch \in Seq(Nat)
      /\ w \in Seq(1..n) /\ g \in Seq(1..n)
      /\ Len(w) \in Nat /\ DOMAIN w = 1..Len(w)
  BY <1>1 DEF Typed, Relay
<1>3. /\ 1 \in DOMAIN r.batch /\ id = r.batch[1] /\ id \in Nat
  BY <1>2
<1>4. r.cursor < id /\ id <= n BY <1>3 DEF Follows, Pending
<1>5. id \in 1..n BY <1>2, <1>3, <1>4
<1>6. /\ v \in Seq(1..n) /\ v # <<>> /\ Len(v) = Len(w) + 1
      /\ DOMAIN v = 1..(Len(w) + 1)
      /\ \A i \in DOMAIN w : v[i] = w[i]
      /\ v[Len(w) + 1] = id
  <2>1. w \in Seq(1..n) BY <1>2
  <2> QED BY ONLY <2>1, <1>5, AppendFacts
<1> HIDE DEF v
<1>7. Typed(pub, lost, q, v, g) BY <1>1, <1>6 DEF Typed
<1>8. /\ \A i \in DOMAIN w : w[i] \in Nat /\ w[i] <= r.cursor
      /\ \A i \in DOMAIN g : g[i] \in Nat /\ g[i] <= r.cursor
  <2>1. Ordered(w, g) BY DEF Follows
  <2>2. r.cursor = IF w = <<>> THEN LastOf(g) ELSE w[Len(w)] BY DEF Follows, Delivered
  <2>3. ASSUME NEW i \in DOMAIN w PROVE w[i] \in Nat /\ w[i] <= r.cursor
    <3>1. w # <<>> /\ Len(w) \in DOMAIN w BY <1>2
    <3>2. w[i] \in Nat /\ w[Len(w)] \in Nat BY <1>2, <3>1
    <3>3. i = Len(w) \/ i < Len(w) BY <1>2
    <3>4. i < Len(w) => w[i] < w[Len(w)] BY <2>1, <3>1 DEF Ordered, Rising
    <3> QED BY <2>2, <3>1, <3>2, <3>3, <3>4
  <2>4. ASSUME NEW i \in DOMAIN g PROVE g[i] \in Nat /\ g[i] <= r.cursor
    <3>1. g # <<>> /\ Len(g) \in DOMAIN g BY <1>2
    <3>2. g[i] \in Nat /\ g[Len(g)] \in Nat BY <1>2, <3>1
    <3>3. CASE w = <<>>
      <4>1. i = Len(g) \/ i < Len(g) BY <1>2
      <4>2. i < Len(g) => g[i] < g[Len(g)] BY <2>1, <3>1 DEF Ordered, Rising
      <4>3. LastOf(g) = g[Len(g)] BY <3>1 DEF LastOf
      <4> QED BY <2>2, <3>2, <3>3, <4>1, <4>2, <4>3
    <3>4. CASE w # <<>>
      <4>1. Len(w) \in DOMAIN w /\ w[Len(w)] \in Nat BY <1>2, <3>4
      <4>2. g[i] < w[Len(w)] BY <2>1, <4>1 DEF Ordered
      <4> QED BY <2>2, <3>2, <3>4, <4>1, <4>2
    <3> QED BY <3>3, <3>4
  <2> QED BY <2>3, <2>4
<1>9. Ordered(v, g)
  <2>1. Ordered(w, g) BY DEF Follows
  <2>2. ASSUME NEW i \in DOMAIN v, NEW j \in DOMAIN v, i < j PROVE v[i] < v[j]
    <3>0. i \in 1..Len(w) BY ONLY <1>2, <1>6, i \in DOMAIN v, j \in DOMAIN v, i < j
    <3>1. i \in DOMAIN w /\ v[i] = w[i] BY <3>0, <1>2, <1>6
    <3>2. CASE j = Len(w) + 1
      BY <3>1, <3>2, <1>2, <1>3, <1>4, <1>6, <1>8
    <3>3. CASE j # Len(w) + 1
      <4>0. j \in 1..Len(w) BY <1>2, <1>6, <3>3
      <4>1. j \in DOMAIN w /\ v[j] = w[j] BY <4>0, <1>2, <1>6
      <4> QED BY <3>1, <4>1, <2>1, <2>2 DEF Ordered, Rising
    <3> QED BY <3>2, <3>3
  <2>3. ASSUME NEW i \in DOMAIN g, NEW j \in DOMAIN v PROVE g[i] < v[j]
    <3>1. CASE j = Len(w) + 1
      BY <3>1, <1>2, <1>3, <1>4, <1>6, <1>8
    <3>2. CASE j # Len(w) + 1
      <4>0. j \in 1..Len(w) BY <1>2, <1>6, <3>2
      <4>1. j \in DOMAIN w /\ v[j] = w[j] BY <4>0, <1>2, <1>6
      <4> QED BY <4>1, <2>1 DEF Ordered
    <3> QED BY <3>1, <3>2
  <2> QED BY <2>1, <2>2, <2>3 DEF Ordered, Rising
<1>10. Delivered(n, lost, q, v, g)
  <2>1. Position(q, g) = id /\ Position(r, g) = r.cursor BY DEF Position
  <2>2. v[Len(v)] = id BY <1>2, <1>6
  <2>3. ASSUME NEW i \in 1..n, i <= id PROVE Held(v, g, i) \/ i <= lost
    <3>1. CASE i <= r.cursor
      <4>1. Held(w, g, i) \/ i <= lost BY <2>1, <3>1 DEF Follows, Delivered
      <4>2. Held(w, g, i) => Held(v, g, i)
        <5>1. ASSUME NEW j \in DOMAIN w, w[j] = i PROVE j \in DOMAIN v /\ v[j] = i
          BY <5>1, <1>2, <1>6
        <5> QED BY <5>1 DEF Held
      <4> QED BY <4>1, <4>2
    <3>2. CASE r.cursor < i /\ i < id
      BY <3>2, <1>3 DEF Follows, Pending
    <3>3. CASE i = id
      <4>1. Len(w) + 1 \in DOMAIN v /\ v[Len(w) + 1] = i BY <1>2, <1>6, <3>3
      <4> QED BY <4>1 DEF Held
    <3> QED BY <3>1, <3>2, <3>3, <2>3, <1>2, <1>3
  <2> QED BY <2>1, <2>2, <2>3, <1>4, <1>6 DEF Delivered
<1>11. Pending(n, lost, q)
  <2>1. CASE over BY <2>1 DEF Pending
  <2>2. CASE ~over
    <3> DEFINE t == Tail(r.batch)
    <3>1. /\ t \in Seq(Nat) /\ Len(r.batch) \in Nat \ {0}
          /\ DOMAIN t = 1..(Len(r.batch) - 1)
          /\ \A k \in DOMAIN t : k + 1 \in DOMAIN r.batch /\ t[k] = r.batch[k + 1]
      BY <1>2, TailFacts
    <3>0. /\ \A k \in DOMAIN t : k \in Nat /\ k >= 1 /\ 1 \in DOMAIN t
          /\ t # <<>> => 1 \in DOMAIN t
      BY <3>1
    <3>2. q.batch = t /\ q.at = "open" BY <2>2
    <3> HIDE DEF t
    <3>3. ASSUME NEW k \in DOMAIN t
          PROVE  /\ t[k] = id + k
                 /\ t[k] <= n
                 /\ t[1] = id + 1
      <4>1. k + 1 \in DOMAIN r.batch /\ t[k] = r.batch[k + 1] BY <3>1
      <4>2. 1 + 1 \in DOMAIN r.batch /\ t[1] = r.batch[1 + 1] BY <3>0, <3>1
      <4>3. r.batch[k + 1] = id + ((k + 1) - 1) /\ r.batch[k + 1] <= n
        BY <4>1, <1>3 DEF Follows, Pending
      <4>4. r.batch[1 + 1] = id + ((1 + 1) - 1)
        BY <4>2, <1>3 DEF Follows, Pending
      <4> QED BY <4>1, <4>2, <4>3, <4>4, <1>3, <3>0
    <3>6. ASSUME NEW k \in DOMAIN q.batch
          PROVE  /\ q.batch[k] = q.batch[1] + (k - 1)
                 /\ q.cursor < q.batch[k]
                 /\ q.batch[k] <= n
      <4>1. k \in DOMAIN t /\ k \in Nat /\ k >= 1 BY <3>0, <3>2, <3>6
      <4>2. t[k] = id + k /\ t[k] <= n /\ t[1] = id + 1 BY <4>1, <3>3
      <4>3. id \in Nat BY <1>3
      <4>4. q.batch = t BY <3>2
      <4> QED BY ONLY <4>1, <4>2, <4>3, <4>4, q.cursor = id
    <3>7. ASSUME q.batch # <<>>, NEW i \in 1..n, q.cursor < i, i < q.batch[1]
          PROVE  i <= lost
      <4>1. t[1] = id + 1 BY <3>0, <3>2, <3>3, <3>7
      <4>2. id \in Nat BY <1>3
      <4>3. q.batch = t BY <3>2
      <4>4. i \in Nat BY <1>2
      <4> QED BY ONLY <4>1, <4>2, <4>3, <4>4, q.cursor = id, q.cursor < i, i < q.batch[1]
    <3> QED BY <3>2, <3>6, <3>7 DEF Pending
  <2> QED BY <2>1, <2>2
<1>12. Ending(pub, lost, q, v)
  <2>1. Ending(pub, lost, r, w) BY DEF Follows
  <2>2. \A i \in DOMAIN w : pub[w[i]] \notin TerminalTypes
    BY <2>1 DEF Ending
  <2>3. ASSUME NEW i \in DOMAIN v, pub[v[i]] \in TerminalTypes
        PROVE  i = Len(v) /\ q.at = "ended"
    <3>1. i # Len(w) + 1 => i \in DOMAIN w /\ v[i] = w[i] BY <1>2, <1>6
    <3>2. i = Len(w) + 1 BY <3>1, <2>2, <2>3
    <3>3. over BY <3>2, <2>3, <1>6
    <3> QED BY <3>2, <3>3, <1>6
  <2>4. ASSUME q.at = "open", NEW i \in 1..n, q.from < i, i <= q.cursor
        PROVE  pub[i] \notin TerminalTypes \/ i <= lost
    <3>1. ~over BY <2>4
    <3>2. CASE i = id BY <3>1, <3>2
    <3>3. CASE r.cursor < i /\ i < id BY <3>3, <1>3 DEF Follows, Pending
    <3>4. CASE i <= r.cursor BY <3>4, <2>1, <2>4 DEF Ending
    <3> QED BY <3>2, <3>3, <3>4, <2>4, <1>2, <1>3
  <2> QED BY <2>3, <2>4 DEF Ending
<1> QED BY <1>6, <1>7, <1>9, <1>10, <1>11, <1>12 DEF Follows, v

\* What is received leaves the wire, and the two together are as before.
LEMMA ReceiveKeeps ==
  ASSUME NEW pub, NEW lost, NEW r, NEW w, NEW g, Follows(pub, lost, r, w, g),
         w # <<>>, NEW x, x = Tail(w), NEW h, h = Append(g, Head(w))
  PROVE  /\ h \in Seq(1..Len(pub))
         /\ x \in Seq(1..Len(pub))
         /\ Follows(pub, lost, r, x, h)
<1> DEFINE n == Len(pub)
<1>1. Typed(pub, lost, r, w, g) BY DEF Follows
<1>2. /\ n \in Nat /\ w \in Seq(1..n) /\ g \in Seq(1..n)
      /\ Len(g) \in Nat /\ DOMAIN g = 1..Len(g) /\ DOMAIN w = 1..Len(w)
  BY <1>1 DEF Typed
<1>3. Head(w) = w[1] /\ w[1] \in 1..n /\ 1 \in DOMAIN w BY <1>2
<1>4. /\ Len(w) \in Nat \ {0}
      /\ x \in Seq(1..n)
      /\ Len(x) = Len(w) - 1
      /\ DOMAIN x = 1..(Len(w) - 1)
      /\ \A i \in DOMAIN x : i + 1 \in DOMAIN w /\ x[i] = w[i + 1]
  <2>1. w \in Seq(1..n) BY <1>2
  <2> QED BY ONLY <2>1, w # <<>>, x = Tail(w), TailFacts
<1>5. /\ h \in Seq(1..n) /\ h # <<>>
      /\ Len(h) = Len(g) + 1
      /\ DOMAIN h = 1..(Len(g) + 1)
      /\ \A i \in DOMAIN g : h[i] = g[i]
      /\ h[Len(g) + 1] = w[1]
  <2>1. g \in Seq(1..n) BY <1>2
  <2>2. h = Append(g, w[1]) /\ w[1] \in 1..n BY <1>3
  <2> QED BY ONLY <2>1, <2>2, AppendFacts
<1>6. Typed(pub, lost, r, x, h) BY <1>1, <1>4, <1>5 DEF Typed
<1>7. Ordered(w, g) BY DEF Follows
<1>8. /\ \A i \in DOMAIN x : i \in Nat /\ i >= 1
      /\ \A i \in DOMAIN h : i = Len(g) + 1 \/ (i \in DOMAIN g /\ i < Len(g) + 1)
      /\ \A i \in DOMAIN h : i \in Nat /\ i <= Len(g) + 1
  BY <1>2, <1>4, <1>5
<1>9. Ordered(x, h)
  <2>1. ASSUME NEW i \in DOMAIN x, NEW j \in DOMAIN x, i < j PROVE x[i] < x[j]
    <3>1. i + 1 < j + 1 BY <1>8, <2>1
    <3> QED BY <3>1, <1>4, <1>7 DEF Ordered, Rising
  <2>2. ASSUME NEW i \in DOMAIN h, NEW j \in DOMAIN h, i < j PROVE h[i] < h[j]
    <3>1. i \in DOMAIN g /\ h[i] = g[i] BY <1>8, <1>5, <1>2, <2>2
    <3>2. CASE j = Len(g) + 1
      BY <3>1, <3>2, <1>3, <1>5, <1>7 DEF Ordered
    <3>3. CASE j \in DOMAIN g
      BY <3>1, <3>3, <1>5, <1>7, <2>2 DEF Ordered, Rising
    <3> QED BY <3>2, <3>3, <1>8
  <2>3. ASSUME NEW i \in DOMAIN h, NEW j \in DOMAIN x PROVE h[i] < x[j]
    <3>1. j + 1 \in DOMAIN w /\ x[j] = w[j + 1] /\ 1 < j + 1 BY <1>4, <1>8
    <3>2. CASE i = Len(g) + 1
      BY <3>1, <3>2, <1>3, <1>5, <1>7 DEF Ordered, Rising
    <3>3. CASE i \in DOMAIN g
      BY <3>1, <3>3, <1>5, <1>7 DEF Ordered
    <3> QED BY <3>2, <3>3, <1>8
  <2> QED BY <2>1, <2>2, <2>3 DEF Ordered, Rising
<1>10. r.at # "none" /\ r.cursor = w[Len(w)] BY DEF Follows, Delivered
<1>11. Delivered(n, lost, r, x, h)
  <2>1. r.cursor = IF x = <<>> THEN LastOf(h) ELSE x[Len(x)]
    <3>1. CASE x = <<>>
      <4>1. Len(w) = 1 BY <3>1, <1>4
      <4>2. LastOf(h) = w[1] BY <1>5 DEF LastOf
      <4> QED BY <3>1, <4>1, <4>2, <1>10
    <3>2. CASE x # <<>>
      <4>1. Len(x) \in DOMAIN x /\ Len(x) + 1 = Len(w) BY <3>2, <1>4
      <4> QED BY <3>2, <4>1, <1>4, <1>10
    <3> QED BY <3>1, <3>2
  <2>2. ASSUME NEW i \in 1..n, Held(w, g, i) PROVE Held(x, h, i)
    <3>1. CASE \E j \in DOMAIN g : g[j] = i
      <4>1. PICK j \in DOMAIN g : g[j] = i BY <3>1
      <4>2. j \in DOMAIN h /\ h[j] = i BY <4>1, <1>2, <1>5
      <4> QED BY <4>2 DEF Held
    <3>2. CASE \E j \in DOMAIN w : w[j] = i
      <4>1. PICK j \in DOMAIN w : w[j] = i BY <3>2
      <4>2. CASE j = 1
        <5>1. Len(g) + 1 \in DOMAIN h /\ h[Len(g) + 1] = i BY <4>1, <4>2, <1>2, <1>5
        <5> QED BY <5>1 DEF Held
      <4>3. CASE j # 1
        <5>1. j - 1 \in DOMAIN x /\ (j - 1) + 1 = j BY <4>3, <1>2, <1>4
        <5>2. x[j - 1] = i BY <4>1, <5>1, <1>4
        <5> QED BY <5>1, <5>2 DEF Held
      <4> QED BY <4>2, <4>3
    <3> QED BY <3>1, <3>2, <2>2 DEF Held
  <2>3. Position(r, h) = Position(r, g) BY <1>10 DEF Position
  <2> QED BY <2>1, <2>2, <2>3, <1>10 DEF Follows, Delivered
<1>12. Ending(pub, lost, r, x)
  <2>1. Ending(pub, lost, r, w) BY DEF Follows
  <2>2. ASSUME NEW i \in DOMAIN x, pub[x[i]] \in TerminalTypes
        PROVE  i = Len(x) /\ r.at = "ended"
    <3>1. i + 1 \in DOMAIN w /\ x[i] = w[i + 1] BY <1>4
    <3>2. i + 1 = Len(w) /\ r.at = "ended" BY <3>1, <2>1, <2>2 DEF Ending
    <3> QED BY <3>2, <1>4, <1>8
  <2> QED BY <2>1, <2>2 DEF Ending
<1> QED BY <1>4, <1>5, <1>6, <1>9, <1>11, <1>12 DEF Follows

NoGap(seen, n, lost) ==
    /\ \A i, j \in DOMAIN seen : i < j => seen[i] < seen[j]
    /\ \A i \in 1..n : seen # <<>> /\ i < seen[Len(seen)] =>
          i \in {seen[j] : j \in DOMAIN seen} \/ i <= lost

\* What a client sees is what it has received and what is on its wire.
LEMMA SeenFacts ==
  ASSUME NEW pub, NEW lost, NEW r, NEW w, NEW g, Follows(pub, lost, r, w, g),
         NEW seen, seen = g \o w
  PROVE  NoGap(seen, Len(pub), lost)
<1> DEFINE n == Len(pub)
<1>1. /\ w \in Seq(1..n) /\ g \in Seq(1..n) /\ n \in Nat
      /\ Len(w) \in Nat /\ Len(g) \in Nat
      /\ DOMAIN w = 1..Len(w) /\ DOMAIN g = 1..Len(g)
  BY DEF Follows, Typed
<1>2. /\ seen \in Seq(1..n)
      /\ Len(seen) = Len(g) + Len(w)
      /\ DOMAIN seen = 1..(Len(g) + Len(w))
      /\ \A i \in 1..(Len(g) + Len(w)) :
            seen[i] = IF i <= Len(g) THEN g[i] ELSE w[i - Len(g)]
  <2>1. w \in Seq(1..n) /\ g \in Seq(1..n) BY <1>1
  <2>2. /\ seen \in Seq(1..n)
        /\ Len(seen) = Len(g) + Len(w)
        /\ \A i \in 1..(Len(g) + Len(w)) :
              seen[i] = IF i <= Len(g) THEN g[i] ELSE w[i - Len(g)]
    BY ONLY <2>1, seen = g \o w, ConcatProperties
  <2>3. DOMAIN seen = 1..Len(seen) BY ONLY <2>2, LenProperties
  <2> QED BY ONLY <2>2, <2>3
<1>3. Ordered(w, g) BY DEF Follows
<1>4. \A i \in DOMAIN g : i \in DOMAIN seen /\ seen[i] = g[i] /\ i <= Len(g)
  BY <1>1, <1>2
<1>5. \A i \in DOMAIN w : Len(g) + i \in DOMAIN seen /\ seen[Len(g) + i] = w[i]
  <2>1. ASSUME NEW i \in DOMAIN w
        PROVE  /\ Len(g) + i \in 1..(Len(g) + Len(w)) /\ ~(Len(g) + i <= Len(g))
               /\ (Len(g) + i) - Len(g) = i
    BY <1>1
  <2> QED BY <2>1, <1>2
<1>6. \A i \in DOMAIN seen : \/ i \in DOMAIN g
                             \/ i \notin DOMAIN g /\ (i - Len(g)) \in DOMAIN w
                                  /\ Len(g) + (i - Len(g)) = i
  BY <1>1, <1>2
<1>7. \A i \in DOMAIN seen : i \in Nat BY <1>1, <1>2
<1>8. ASSUME NEW i \in DOMAIN seen, NEW j \in DOMAIN seen, i < j
      PROVE  seen[i] < seen[j]
  <2>1. CASE i \in DOMAIN g /\ j \in DOMAIN g
    BY <2>1, <1>3, <1>4, <1>8 DEF Ordered, Rising
  <2>2. CASE i \in DOMAIN g /\ j \notin DOMAIN g
    <3>1. (j - Len(g)) \in DOMAIN w /\ seen[j] = w[j - Len(g)] BY <2>2, <1>5, <1>6
    <3> QED BY <3>1, <2>2, <1>3, <1>4 DEF Ordered
  <2>3. CASE i \notin DOMAIN g
    <3>1. j \notin DOMAIN g BY <2>3, <1>1, <1>2, <1>8
    <3>2. /\ (i - Len(g)) \in DOMAIN w /\ seen[i] = w[i - Len(g)]
          /\ (j - Len(g)) \in DOMAIN w /\ seen[j] = w[j - Len(g)]
      BY <2>3, <3>1, <1>5, <1>6
    <3>3. i - Len(g) < j - Len(g) BY <1>1, <1>7, <1>8
    <3> QED BY <3>2, <3>3, <1>3 DEF Ordered, Rising
  <2> QED BY <2>1, <2>2, <2>3
<1>9. ASSUME NEW i \in 1..n, seen # <<>>, i < seen[Len(seen)]
      PROVE  i \in {seen[j] : j \in DOMAIN seen} \/ i <= lost
  <2>1. r.cursor \in Nat /\ seen[Len(seen)] \in Nat
    BY <1>1, <1>2, <1>9 DEF Follows, Typed, Relay
  <2>2. seen[Len(seen)] = Position(r, g)
    <3>1. CASE w # <<>>
      <4>1. Len(w) \in DOMAIN w /\ Len(seen) = Len(g) + Len(w) BY <3>1, <1>1, <1>2
      <4>2. seen[Len(seen)] = w[Len(w)] BY <4>1, <1>5
      <4> QED BY <4>2, <3>1 DEF Follows, Delivered, Position
    <3>2. CASE w = <<>>
      <4>1. Len(w) = 0 BY <3>2
      <4>2. Len(seen) = Len(g) /\ Len(g) # 0 /\ g # <<>> BY <4>1, <1>1, <1>2, <1>9
      <4>3. seen[Len(seen)] = g[Len(g)] BY <4>2, <1>1, <1>4
      <4>4. LastOf(g) = g[Len(g)] BY <4>2 DEF LastOf
      <4> QED BY <4>3, <4>4, <3>2 DEF Follows, Delivered, Position
    <3> QED BY <3>1, <3>2
  <2>3. i <= Position(r, g) BY <2>1, <2>2, <1>9
  <2>4. Held(w, g, i) \/ i <= lost BY <2>3 DEF Follows, Delivered
  <2> QED BY <2>4, <1>4, <1>5 DEF Held
<1> QED BY <1>8, <1>9 DEF NoGap

-----------------------------------------------------------------------------
(* All clients.                                                            *)

\* A step of one client c that leaves the stream alone.
LEMMA ClientStep ==
  ASSUME FollowInv, NEW c \in Clients, UNCHANGED <<published, gone>>,
         NEW q \in Relay, NEW x \in Seq(1..Len(published)), NEW k \in Client,
         relay' = [relay EXCEPT ![c] = q],
         wire' = [wire EXCEPT ![c] = x],
         client' = [client EXCEPT ![c] = k],
         Follows(published, gone, q, x, k.got)
  PROVE  FollowInv'
<1>1. relay' \in [Clients -> Relay] /\ relay'[c] = q BY DEF FollowInv
<1>2. wire' \in [Clients -> Seq(1..Len(published))] /\ wire'[c] = x
  BY DEF FollowInv, Ids
<1>3. client' \in [Clients -> Client] /\ client'[c] = k BY DEF FollowInv
<1>4. ASSUME NEW d \in Clients
      PROVE  Follows(published', gone', relay'[d], wire'[d], client'[d].got)
  <2>1. CASE d = c BY <2>1, <1>1, <1>2, <1>3
  <2>2. CASE d # c
    <3>1. relay'[d] = relay[d] /\ wire'[d] = wire[d] /\ client'[d] = client[d]
      BY <2>2 DEF FollowInv
    <3> QED BY <3>1 DEF FollowInv
  <2> QED BY <2>1, <2>2
<1>5. published' \in Seq(Types) /\ gone' \in 0..Len(published') BY DEF FollowInv
<1> QED BY <1>1, <1>2, <1>3, <1>4, <1>5 DEF FollowInv, Ids

\* Such a step that changes the relay only.
LEMMA RelayStep ==
  ASSUME FollowInv, NEW c \in Clients, UNCHANGED <<published, gone, wire, client>>,
         NEW q \in Relay,
         relay' = [relay EXCEPT ![c] = q],
         Follows(published, gone, q, wire[c], client[c].got)
  PROVE  FollowInv'
<1>1. /\ wire[c] \in Seq(1..Len(published)) /\ client[c] \in Client
      /\ wire' = [wire EXCEPT ![c] = wire[c]]
      /\ client' = [client EXCEPT ![c] = client[c]]
      /\ UNCHANGED <<published, gone>>
  BY DEF FollowInv, Ids
<1> QED BY <1>1, ClientStep

\* A step of the stream that leaves the clients alone.
LEMMA StreamStep ==
  ASSUME FollowInv, UNCHANGED <<relay, wire, client>>,
         published' \in Seq(Types), gone' \in 0..Len(published'),
         Len(published) <= Len(published'), gone <= gone',
         \A i \in 1..Len(published) : published'[i] = published[i]
  PROVE  FollowInv'
<1>1. \A c \in Clients : Follows(published', gone', relay[c], wire[c], client[c].got)
  BY GrowKeeps DEF FollowInv
<1>2. wire' \in [Clients -> Seq(1..Len(published'))]
  <2>1. \A c \in Clients : wire[c] \in Seq(1..Len(published'))
    BY <1>1 DEF Follows, Typed
  <2> QED BY <2>1 DEF FollowInv
<1> QED BY <1>1, <1>2 DEF FollowInv, Ids

LEMMA FollowInit == Init => FollowInv
<1> SUFFICES ASSUME Init PROVE FollowInv OBVIOUS
<1>1. /\ published \in Seq(Types) /\ Len(published) = 0
      /\ gone \in 0..Len(published)
  BY EmptySeq DEF Init
<1>2. NoRelay \in Relay BY EmptySeq DEF NoRelay, Relay
<1>3. \A S : <<>> \in Seq(S) BY EmptySeq
<1>4. [got |-> <<>>, drops |-> 0] \in Client
  BY <1>3, EventStreamAssumption DEF Client
<1>5. Follows(published, gone, NoRelay, <<>>, <<>>)
  <2>1. Typed(published, gone, NoRelay, <<>>, <<>>) BY <1>1, <1>2, <1>3 DEF Typed
  <2>2. Ordered(<<>>, <<>>) BY DEF Ordered, Rising
  <2>3. NoRelay.at = "none" /\ NoRelay.cursor = 0 /\ NoRelay.batch = <<>> BY DEF NoRelay
  <2>4. Delivered(Len(published), gone, NoRelay, <<>>, <<>>)
    BY <2>3, <1>1 DEF Delivered
  <2>5. Pending(Len(published), gone, NoRelay) BY <2>3 DEF Pending
  <2>6. Ending(published, gone, NoRelay, <<>>) BY <2>3 DEF Ending
  <2> QED BY <2>1, <2>2, <2>4, <2>5, <2>6 DEF Follows
<1>6. /\ relay \in [Clients -> Relay] /\ \A c \in Clients : relay[c] = NoRelay
      /\ wire \in [Clients -> Seq(1..Len(published))] /\ \A c \in Clients : wire[c] = <<>>
      /\ client \in [Clients -> Client]
      /\ \A c \in Clients : client[c].got = <<>>
  BY <1>2, <1>3, <1>4 DEF Init
<1> QED BY <1>1, <1>5, <1>6 DEF FollowInv, Ids

\* Every action keeps the invariant.
LEMMA FollowNext == FollowInv /\ [Next]_vars => FollowInv'
<1> SUFFICES ASSUME FollowInv, [Next]_vars PROVE FollowInv' OBVIOUS
<1>1. /\ Len(published) \in Nat /\ gone \in Nat /\ gone <= Len(published)
      /\ published \in Seq(Types)
  BY DEF FollowInv
<1>2. ASSUME NEW c \in Clients
      PROVE  /\ relay[c] \in Relay /\ wire[c] \in Seq(1..Len(published))
             /\ client[c] \in Client
             /\ Follows(published, gone, relay[c], wire[c], client[c].got)
             /\ Typed(published, gone, relay[c], wire[c], client[c].got)
  BY DEF FollowInv, Ids, Follows
<1>3. ASSUME NEW c \in Clients
      PROVE  /\ [relay EXCEPT ![c] = relay[c]] = relay
             /\ [wire EXCEPT ![c] = wire[c]] = wire
             /\ [client EXCEPT ![c] = client[c]] = client
  BY DEF FollowInv
<1>4. CASE Publish
  <2>1. PICK type \in Types : published' = Append(published, type) BY <1>4 DEF Publish
  <2>2. /\ published' \in Seq(Types) /\ Len(published') = Len(published) + 1
        /\ \A i \in 1..Len(published) : published'[i] = published[i]
    BY ONLY <1>1, <2>1, AppendProperties
  <2>3. gone' \in 0..Len(published') /\ gone <= gone'
    <3>1. Trims(Len(published) + 1) BY <1>4 DEF Publish
    <3> QED BY ONLY <3>1, <1>1, <2>2, EventStreamAssumption DEF Trims
  <2> QED BY <1>1, <1>4, <2>2, <2>3, StreamStep DEF Publish
<1>5. CASE Expire
  BY <1>1, <1>5, StreamStep DEF Expire
<1>6. ASSUME NEW c \in Clients, Connect(c) PROVE FollowInv'
  <2> DEFINE at == LastEventId(c)
             q == [at |-> "open", cursor |-> at, batch |-> <<>>, from |-> at]
  <2>1. at = LastOf(client[c].got) BY DEF LastEventId, LastOf, Last
  <2>2. at \in Nat BY <1>2, <2>1 DEF Typed, LastOf
  <2>3. q \in Relay BY <2>2, EmptySeq DEF Relay
  <2>4. Follows(published, gone, q, wire[c], client[c].got)
    <3>1. relay[c].at = "none" BY <1>6 DEF Connect
    <3>2. q.at = "open" /\ q.cursor = LastOf(client[c].got)
            /\ q.from = LastOf(client[c].got) /\ q.batch = <<>>
      BY <2>1
    <3> HIDE DEF q
    <3> QED BY <3>1, <3>2, <2>3, <1>2, ConnectKeeps
  <2>5. /\ relay' = [relay EXCEPT ![c] = q]
        /\ UNCHANGED <<published, gone, wire, client>>
    BY <1>6 DEF Connect
  <2> HIDE DEF q
  <2> QED BY <2>3, <2>4, <2>5, RelayStep
<1>7. ASSUME NEW c \in Clients, Read(c) PROVE FollowInv'
  <2> DEFINE first == IF relay[c].cursor > gone THEN relay[c].cursor ELSE gone
             q == [relay[c] EXCEPT !.batch = After(relay[c].cursor)]
             b == [k \in 1..(Len(published) - first) |-> first + k]
  <2>1. first \in Nat /\ first <= Len(published)
    BY <1>1, <1>2 DEF Relay, Follows, Delivered
  <2>2. After(relay[c].cursor) = b BY DEF After
  <2>3. b \in Seq(Nat)
    <3>1. Len(published) - first \in Nat BY <1>1, <2>1
    <3>2. \A k \in 1..(Len(published) - first) : first + k \in Nat BY <2>1
    <3> QED BY <3>1, <3>2
  <2>4. /\ q \in Relay /\ q.at = "open" /\ q.cursor = relay[c].cursor
        /\ q.from = relay[c].from /\ q.batch = b
    <3>1. relay[c].at = "open" BY <1>7 DEF Read
    <3> QED BY <3>1, <2>2, <2>3, <1>2 DEF Relay
  <2>5. relay[c].at = "open" /\ relay' = [relay EXCEPT ![c] = q]
          /\ UNCHANGED <<published, gone, wire, client>>
    BY <1>7 DEF Read
  <2>6. Follows(published, gone, q, wire[c], client[c].got)
    <3> HIDE DEF q
    <3> QED BY <2>1, <2>4, <2>5, <1>2, ReadKeeps
  <2> HIDE DEF q
  <2> QED BY <2>4, <2>5, <2>6, RelayStep
<1>8. ASSUME NEW c \in Clients, Yield(c) PROVE FollowInv'
  <2> DEFINE id == Head(relay[c].batch)
             over == Terminal(id)
             q == [relay[c] EXCEPT !.cursor = id,
                                   !.batch = IF over THEN <<>> ELSE Tail(relay[c].batch),
                                   !.at = IF over THEN "ended" ELSE "open"]
             x == Append(wire[c], id)
  <2>1. /\ relay[c].at = "open" /\ relay[c].batch # <<>>
        /\ wire' = [wire EXCEPT ![c] = x]
        /\ relay' = [relay EXCEPT ![c] = q]
        /\ UNCHANGED <<published, gone, client>>
    BY <1>8 DEF Yield
  <2>2. relay[c].batch \in Seq(Nat) BY <1>2 DEF Relay
  <2>3. id \in Nat /\ Tail(relay[c].batch) \in Seq(Nat) /\ <<>> \in Seq(Nat)
    BY ONLY <2>1, <2>2, HeadTailProperties, EmptySeq
  <2>4. over \in BOOLEAN /\ over = (published[id] \in TerminalTypes) BY DEF Terminal
  <2> HIDE DEF over
  <2>5. /\ q \in Relay /\ q.cursor = id /\ q.from = relay[c].from
        /\ q.batch = (IF over THEN <<>> ELSE Tail(relay[c].batch))
        /\ q.at = (IF over THEN "ended" ELSE "open")
    BY <2>3, <1>2 DEF Relay
  <2> HIDE DEF q
  <2>6. x \in Seq(1..Len(published)) /\ Follows(published, gone, q, x, client[c].got)
    BY <2>1, <2>4, <2>5, <1>2, YieldKeeps
  <2> HIDE DEF x
  <2> QED BY <1>2, <1>3, <2>1, <2>5, <2>6, ClientStep
<1>9. ASSUME NEW c \in Clients, Receive(c) PROVE FollowInv'
  <2> DEFINE x == Tail(wire[c])
             h == Append(client[c].got, Head(wire[c]))
             k == [client[c] EXCEPT !.got = h]
  <2>1. /\ wire[c] # <<>>
        /\ client' = [client EXCEPT ![c] = k]
        /\ wire' = [wire EXCEPT ![c] = x]
        /\ UNCHANGED <<published, gone, relay>>
    BY <1>9 DEF Receive
  <2>2. /\ h \in Seq(1..Len(published)) /\ x \in Seq(1..Len(published))
        /\ Follows(published, gone, relay[c], x, h)
    BY <2>1, <1>2, ReceiveKeeps
  <2> HIDE DEF x, h
  <2>3. h \in Seq(Nat)
    <3>1. 1..Len(published) \subseteq Nat BY <1>1
    <3> QED BY <3>1, <2>2, SeqMonotonic
  <2>4. k \in Client /\ k.got = h BY <2>3, <1>2 DEF Client
  <2> HIDE DEF k
  <2> QED BY <1>2, <1>3, <2>1, <2>2, <2>4, ClientStep
<1>10. ASSUME NEW c \in Clients, Close(c) PROVE FollowInv'
  <2>1. /\ relay[c].at # "none" /\ wire[c] = <<>>
        /\ relay' = [relay EXCEPT ![c] = NoRelay]
        /\ UNCHANGED <<published, gone, wire, client>>
    BY <1>10 DEF Close
  <2>2. Follows(published, gone, NoRelay, wire[c], client[c].got)
    BY <2>1, <1>2, CloseKeeps
  <2>3. NoRelay \in Relay BY EmptySeq DEF NoRelay, Relay
  <2> QED BY <2>1, <2>2, <2>3, RelayStep
<1>11. ASSUME NEW c \in Clients, Drop(c) PROVE FollowInv'
  <2> DEFINE k == [client[c] EXCEPT !.drops = client[c].drops + 1]
  <2>1. /\ relay[c].at # "none" /\ client[c].drops < MaxDrops
        /\ relay' = [relay EXCEPT ![c] = NoRelay]
        /\ wire' = [wire EXCEPT ![c] = <<>>]
        /\ client' = [client EXCEPT ![c] = k]
        /\ UNCHANGED <<published, gone>>
    BY <1>11 DEF Drop
  <2>2. k \in Client /\ k.got = client[c].got
    <3>1. client[c].drops + 1 \in 0..MaxDrops
      <4>1. client[c].drops \in 0..MaxDrops BY <1>2 DEF Client
      <4> QED BY <4>1, <2>1, EventStreamAssumption
    <3> QED BY <3>1, <1>2 DEF Client
  <2>3. Follows(published, gone, NoRelay, <<>>, client[c].got)
    BY <2>1, <1>2, CloseKeeps
  <2>4. NoRelay \in Relay /\ <<>> \in Seq(1..Len(published))
    BY EmptySeq DEF NoRelay, Relay
  <2> HIDE DEF k
  <2> QED BY <1>2, <1>3, <2>1, <2>2, <2>3, <2>4, ClientStep
<1>12. CASE UNCHANGED vars
  BY <1>12 DEF vars, FollowInv, Ids
<1> QED BY <1>4, <1>5, <1>6, <1>7, <1>8, <1>9, <1>10, <1>11, <1>12 DEF Next

\* The invariant says what the property says.
LEMMA FollowImplies == FollowInv => StreamInv
<1> SUFFICES ASSUME FollowInv PROVE StreamInv OBVIOUS
<1>1. TypeOK BY DEF FollowInv, TypeOK
<1>2. NoGapsNoReplays
  <2> SUFFICES ASSUME NEW c \in Clients, NEW seen, seen = client[c].got \o wire[c]
               PROVE  /\ \A i, j \in DOMAIN seen : i < j => seen[i] < seen[j]
                      /\ \A i \in Ids : seen # <<>> /\ i < Last(seen) =>
                            i \in {seen[j] : j \in DOMAIN seen} \/ i <= gone
    BY DEF NoGapsNoReplays
  <2>1. Follows(published, gone, relay[c], wire[c], client[c].got) BY DEF FollowInv
  <2>2. NoGap(seen, Len(published), gone) BY <2>1, SeenFacts
  <2> QED BY <2>2 DEF NoGap, Last, Ids
<1>3. EndsWithTerminal
  BY DEF FollowInv, Follows, Ending, EndsWithTerminal, Terminal, Ids
<1> QED BY <1>1, <1>2, <1>3 DEF StreamInv

\* Over all its connections a client receives the events in order, none twice, and
\* misses only what MAXLEN or the TTL took; no response goes on after a terminal
\* event (api/sse.py, RedisEventBus).
THEOREM StreamIsFollowed == Spec => []StreamInv
<1>1. Spec => []FollowInv
  BY FollowInit, FollowNext, PTL DEF Spec
<1> QED BY <1>1, FollowImplies, PTL
=============================================================================
