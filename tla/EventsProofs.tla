---------------------------- MODULE EventsProofs ----------------------------
(***************************************************************************)
(* What holds of the events for any number of listeners and events, in     *)
(* every cast.  A queue that is exclusive belongs to a listener with a     *)
(* connection; what goes through it does so in the order of publication;   *)
(* and it is bound by all its topics before its listener waits.  So what a *)
(* listener hears was due to it, and it misses nothing.                    *)
(***************************************************************************)
EXTENDS Events, FiniteSetTheorems, SequenceTheorems, TLAPS

\* When each event was published.
Pos == [e \in Publications |-> When(e)]

\* An event is published once, by one who has sent it.
HistInv ==
  \A i \in 1 .. Len(published) : Pos[published[i]] = i /\ sender[published[i]] = "sent"

\* A queue of one listener is that of a listener with a connection, and the other
\* way round; the queues of everyone are those that were there before.  Only a cut
\* leaves a listener without its connection.
OwnInv ==
  /\ \A q \in QueueNames :
       /\ owner[q] \in Listeners =>
            /\ owner[q] \in Listening /\ Declares(owner[q]) /\ QueueOf(owner[q]) = q
            /\ connected[owner[q]]
       /\ owner[q] = "everyone" <=> q \in Lasting
       /\ owner[q] = Nobody => queue[q] = << >>
  /\ \A l \in Listening :
       /\ connected[l] => ~Idle(l) /\ (Declares(l) => owner[QueueOf(l)] = l)
       /\ ~Idle(l) /\ ~connected[l] => OneShot(l) /\ listener[l] = "listening"
       /\ listener[l] = "binding" => Declares(l)
       /\ ~Idle(l) /\ ~Declares(l) => QueueOf(l) \in Lasting
       /\ listener[l] # "listening" => buffer[l] = << >>

\* What waits and what was heard is in the order of publication.
Rising(q, p) == \A i, j \in 1 .. Len(q) : i < j => p[q[i]] < p[q[j]]
Before(S, T, p) == \A x \in S : \A y \in T : p[x] < p[y]
Known(S, p) == \A x \in S : p[x] > 0
LineInv ==
  /\ \A q \in QueueNames : Rising(queue[q], Pos) /\ Known(ToSet(queue[q]), Pos)
  /\ \A l \in Listening :
       /\ Rising(heard[l], Pos) /\ Rising(buffer[l], Pos)
       /\ Before(ToSet(heard[l]), ToSet(buffer[l]), Pos)
       /\ Before(ToSet(heard[l]) \cup ToSet(buffer[l]), ToSet(queue[QueueOf(l)]), Pos)
       /\ Known(ToSet(heard[l]) \cup ToSet(buffer[l]), Pos)

\* What was delivered to a listener was due to it, as is what is in its queue; what
\* is in a queue of everyone was sent there; and no two have the same.
Got(l) == ToSet(heard[l]) \cup ToSet(buffer[l])
Due(l, e) == MeantFor(l, e) /\ (Declares(l) => Pos[e] > since[l])
DueInv ==
  /\ \A l \in Listening : \A e \in Got(l) : Due(l, e)
  /\ \A q \in QueueNames : \A e \in ToSet(queue[q]) :
       /\ \A l \in Listening : owner[q] = l => Due(l, e)
       /\ q \in Lasting => Direct(e) /\ Event(e).queue = q
  /\ \A k, l \in Listening : k # l /\ QueueOf(k) = QueueOf(l) => Got(k) \cap Got(l) = {}

\* A listener has all it waits for in its queue and its buffer; one that was cut
\* off or has ended has the first of it, or nothing.
Awaited(l, e) == Declares(l) /\ MeantFor(l, e) /\ Pos[e] > ready[l]
MissesNone(l) ==
  /\ listener[l] = "listening" /\ Declares(l) => bound[l] = Len(TopicsOf(l))
  /\ OneShot(l) /\ ~Idle(l) => heard[l] = << >>
  /\ listener[l] = "ended" => OneShot(l) /\ heard[l] # << >>
  /\ \A e \in Sending : Awaited(l, e) =>
       /\ Waiting(l) => e \in Got(l) \cup ToSet(queue[QueueOf(l)])
       /\ ~Idle(l) /\ ~connected[l] /\ buffer[l] # << >> => Pos[Head(buffer[l])] <= Pos[e]
       /\ listener[l] = "ended" => Pos[Head(heard[l])] <= Pos[e]
MissInv == \A l \in Listening : MissesNone(l)

IInv == TypeOK /\ HistInv /\ OwnInv /\ LineInv /\ DueInv /\ MissInv

-----------------------------------------------------------------------------
(***************************************************************************)
(* Sequences of events                                                     *)
(***************************************************************************)

\* What is in a sequence that grows at its end or shrinks at its front.
LEMMA Ends ==
  ASSUME NEW q \in Seq(Publications), NEW e \in Publications
  PROVE  /\ ToSet(q) \subseteq Publications /\ ToSet(<< >>) = {}
         /\ Append(q, e) \in Seq(Publications) /\ Append(q, e) # << >>
         /\ ToSet(Append(q, e)) = ToSet(q) \cup {e}
<1>1. ToSet(q) \subseteq Publications /\ ToSet(<< >>) = {}
  BY DEF ToSet
<1>2. /\ Append(q, e) \in Seq(Publications) /\ Append(q, e) # << >>
      /\ Append(q, e)[Len(q) + 1] = e /\ \A i \in DOMAIN q : Append(q, e)[i] = q[i]
      /\ DOMAIN Append(q, e) = (DOMAIN q) \cup {Len(q) + 1}
  BY AppendProperties
<1>3. ToSet(Append(q, e)) = ToSet(q) \cup {e}
  BY <1>2 DEF ToSet
<1> QED
  BY <1>1, <1>2, <1>3

LEMMA AtFront ==
  ASSUME NEW q \in Seq(Publications), q # << >>
  PROVE  /\ Head(q) \in Publications /\ Tail(q) \in Seq(Publications)
         /\ Head(q) = q[1] /\ 1 \in 1 .. Len(q) /\ Len(q) \in Nat /\ Len(Tail(q)) = Len(q) - 1
         /\ \A i \in 1 .. Len(Tail(q)) : i + 1 \in 1 .. Len(q) /\ Tail(q)[i] = q[i + 1]
         /\ Head(q) \in ToSet(q) /\ ToSet(q) = {Head(q)} \cup ToSet(Tail(q))
<1>1. /\ Head(q) \in Publications /\ Tail(q) \in Seq(Publications)
      /\ Head(q) = q[1] /\ 1 \in 1 .. Len(q) /\ Len(q) \in Nat /\ Len(Tail(q)) = Len(q) - 1
      /\ \A i \in 1 .. Len(Tail(q)) : i + 1 \in 1 .. Len(q) /\ Tail(q)[i] = q[i + 1]
  <2>1. Len(q) \in Nat \ {0} /\ Head(q) = q[1]
    BY EmptySeq
  <2>2. /\ Head(q) \in Publications /\ Tail(q) \in Seq(Publications) /\ Len(Tail(q)) = Len(q) - 1
        /\ \A i \in 1 .. Len(Tail(q)) : Tail(q)[i] = q[i + 1]
    BY HeadTailProperties
  <2> QED
    BY <2>1, <2>2
<1>2. DOMAIN q = 1 .. Len(q) /\ DOMAIN Tail(q) = 1 .. Len(Tail(q))
  BY <1>1
<1>3. Head(q) \in ToSet(q)
  BY <1>1, <1>2 DEF ToSet
<1>4. ASSUME NEW x \in ToSet(q) PROVE x = Head(q) \/ x \in ToSet(Tail(q))
  <2>1. PICK i \in 1 .. Len(q) : q[i] = x
    BY <1>2, <1>4 DEF ToSet
  <2>2. CASE i = 1
    BY <1>1, <2>1, <2>2
  <2>3. CASE i # 1
    <3>1. i - 1 \in 1 .. Len(Tail(q)) /\ Tail(q)[i - 1] = x
      BY <1>1, <2>1, <2>3
    <3> QED
      BY <1>2, <3>1 DEF ToSet
  <2> QED
    BY <2>2, <2>3
<1>5. ASSUME NEW x \in ToSet(Tail(q)) PROVE x \in ToSet(q)
  BY <1>1, <1>2, <1>5 DEF ToSet
<1> QED
  BY <1>1, <1>3, <1>4, <1>5

\* Two orders that agree on what is compared.
LEMMA OrderSame ==
  ASSUME NEW S, NEW T, NEW p, NEW r, \A x \in S \cup T : r[x] = p[x]
  PROVE  /\ Before(S, T, p) => Before(S, T, r)
         /\ Known(S, p) => Known(S, r)
BY DEF Before, Known

\* The order of what is in it.
LEMMA RisingEnds ==
  ASSUME NEW q \in Seq(Publications), NEW e \in Publications, NEW p \in [Publications -> Nat],
         Rising(q, p)
  PROVE  /\ Rising(<< >>, p)
         /\ Before(ToSet(q), {e}, p) => Rising(Append(q, e), p)
<1>1. Rising(<< >>, p)
  BY DEF Rising
<1>2. ASSUME Before(ToSet(q), {e}, p) PROVE Rising(Append(q, e), p)
  <2>1. /\ Len(q) \in Nat /\ Len(Append(q, e)) = Len(q) + 1 /\ Append(q, e)[Len(q) + 1] = e
        /\ \A i \in 1 .. Len(q) : Append(q, e)[i] = q[i] /\ p[q[i]] < p[e]
    BY <1>2, AppendProperties DEF Before, ToSet
  <2> DEFINE r == Append(q, e)
  <2>2. ASSUME NEW i \in 1 .. Len(r), NEW j \in 1 .. Len(r), i < j PROVE p[r[i]] < p[r[j]]
    <3>1. i \in 1 .. Len(q) /\ r[i] = q[i] /\ p[q[i]] < p[e]
      BY <2>1, <2>2
    <3>2. CASE j = Len(q) + 1
      BY <2>1, <3>1, <3>2
    <3>3. CASE j # Len(q) + 1
      <4>1. j \in 1 .. Len(q) /\ r[j] = q[j]
        BY <2>1, <2>2, <3>3
      <4>2. p[q[i]] < p[q[j]]
        BY <2>2, <3>1, <4>1 DEF Rising
      <4> QED
        BY <3>1, <4>1, <4>2
    <3> QED
      BY <3>2, <3>3
  <2> HIDE DEF r
  <2>3. Rising(r, p)
    BY <2>2 DEF Rising
  <2> QED
    BY <2>3 DEF r
<1> QED
  BY <1>1, <1>2

LEMMA RisingFront ==
  ASSUME NEW q \in Seq(Publications), NEW p \in [Publications -> Nat], Rising(q, p), q # << >>
  PROVE  Rising(Tail(q), p) /\ Before({Head(q)}, ToSet(Tail(q)), p)
<1>0. /\ Head(q) = q[1] /\ 1 \in 1 .. Len(q) /\ Len(q) \in Nat /\ Len(Tail(q)) = Len(q) - 1
      /\ \A i \in 1 .. Len(Tail(q)) : i + 1 \in 1 .. Len(q) /\ Tail(q)[i] = q[i + 1]
      /\ DOMAIN Tail(q) = 1 .. Len(Tail(q))
  BY AtFront
<1>1. Rising(Tail(q), p)
  BY <1>0 DEF Rising
<1>2. ASSUME NEW x \in ToSet(Tail(q)) PROVE p[Head(q)] < p[x]
  <2>1. PICK i \in 1 .. Len(Tail(q)) : Tail(q)[i] = x
    BY <1>0, <1>2 DEF ToSet
  <2>2. i + 1 \in 1 .. Len(q) /\ q[i + 1] = x /\ 1 \in 1 .. Len(q) /\ 1 < i + 1 /\ Head(q) = q[1]
    BY <1>0, <2>1
  <2> QED
    BY <2>2 DEF Rising
<1> QED
  BY <1>1, <1>2 DEF Before

-----------------------------------------------------------------------------
(***************************************************************************)
(* Casts and histories                                                     *)
(***************************************************************************)

\* A listener has four topics at most.
LEMMA TopicsBound ==
  ASSUME cast \in DOMAIN Casts, NEW l \in Listening
  PROVE  Len(TopicsOf(l)) \in 0 .. 4
<1> DEFINE topics == Option(l).topics
<1>1. topics \in [1 .. 4 -> SUBSET Keys]
  BY EventsAssumption DEF EventsAssumption, Listening, Option, ListenerOptions
<1>2. Given(topics) \in 0 .. 4
  <2> DEFINE S == {i \in DOMAIN topics : \A j \in 1 .. i : topics[j] # {}}
  <2>1. IsFiniteSet(1 .. 4) /\ Cardinality(1 .. 4) = 4
    <3>1. \A n \in Nat : IsFiniteSet(1 .. n) /\ Cardinality(1 .. n) = IF 1 > n THEN 0 ELSE n - 1 + 1
      BY FS_Interval
    <3>2. \A n \in Nat : IsFiniteSet(1 .. n) /\ Cardinality(1 .. n) = n
      BY <3>1
    <3> QED
      BY <3>2
  <2>2. S \subseteq 1 .. 4 /\ Given(topics) = Cardinality(S)
    BY <1>1 DEF Given
  <2> HIDE DEF S
  <2>3. IsFiniteSet(S) /\ Cardinality(S) <= 4 /\ Cardinality(S) \in Nat
    BY <2>1, <2>2, FS_Subset, FS_CardinalityType
  <2> QED
    BY <2>2, <2>3
<1>3. Len(SubSeq(topics, 1, Given(topics))) = Given(topics)
  <2>1. \A i \in 1 .. Given(topics) : topics[i] \in SUBSET Keys
    BY <1>1, <1>2
  <2>2. Len(SubSeq(topics, 1, Given(topics))) = IF 1 <= Given(topics) THEN Given(topics) - 1 + 1 ELSE 0
    BY <1>2, <2>1, SubSeqProperties
  <2> QED
    BY <1>2, <2>2
<1>4. Len(Bindings(topics, Keys)) \in 0 .. 4
  <2>1. Len(<<Keys>>) = 1
    OBVIOUS
  <2> QED
    BY <1>2, <1>3, <2>1 DEF Bindings
<1> QED
  BY <1>4 DEF TopicsOf

\* The programs of a cast are listeners, and have a queue there may be.
LEMMA CastFacts ==
  ASSUME TypeOK
  PROVE  /\ Listening \subseteq Listeners /\ Sending \subseteq Publications
         /\ Lasting \subseteq QueueNames
         /\ \A l \in Listening : QueueOf(l) \in QueueNames /\ Len(TopicsOf(l)) \in 0 .. 4
         /\ \A l \in Listening : OneShot(l) => Declares(l)
         /\ Nobody \notin Listeners /\ "everyone" \notin Listeners /\ Nobody # "everyone"
<1>1. /\ Listening \subseteq Listeners /\ Sending \subseteq Publications /\ Lasting \subseteq QueueNames
      /\ Nobody \notin Listeners /\ "everyone" \notin Listeners /\ Nobody # "everyone"
  BY EventsAssumption DEF EventsAssumption, TypeOK, Listening, Sending, Lasting, QueueNames
<1>2. ASSUME NEW l \in Listening PROVE QueueOf(l) \in QueueNames
  <2>1. Option(l).queue \in Names \cup {NotGiven}
    BY EventsAssumption DEF EventsAssumption, TypeOK, Listening, Option, ListenerOptions
  <2> QED
    BY <1>1, <2>1 DEF QueueOf, QueueNames
<1> QED
  BY <1>1, <1>2, TopicsBound DEF OneShot, Declares, TypeOK

\* What the cast says of a listener or an event does not change.
LEMMA CastStays ==
  ASSUME UNCHANGED cast
  PROVE  /\ Listening' = Listening /\ Sending' = Sending /\ Lasting' = Lasting
         /\ \A l : /\ QueueOf(l)' = QueueOf(l) /\ (Declares(l)' <=> Declares(l))
                   /\ (OneShot(l)' <=> OneShot(l)) /\ TopicsOf(l)' = TopicsOf(l)
         /\ \A e : (Direct(e)' <=> Direct(e)) /\ Event(e)' = Event(e)
         /\ \A l, e : MeantFor(l, e)' <=> MeantFor(l, e)
  BY DEF Listening, Sending, Lasting, QueueOf, Declares, OneShot, TopicsOf, Direct, Event, Option,
     MeantFor, Matched, ExchangeOf

\* What matches the topics that are bound matches all topics.
LEMMA MatchedByAll ==
  ASSUME NEW l, NEW e, NEW n \in Nat, Len(TopicsOf(l)) \in Nat, n <= Len(TopicsOf(l)), Matched(l, n, e)
  PROVE  Matched(l, Len(TopicsOf(l)), e)
<1> DEFINE s == TopicsOf(l)
<1>1. PICK i \in DOMAIN SubSeq(s, 1, n) : Event(e).key \in SubSeq(s, 1, n)[i]
  BY DEF Matched, Matches
<1>2. i \in 1 .. n /\ SubSeq(s, 1, n)[i] = s[i]
  BY <1>1
<1>3. i \in DOMAIN SubSeq(s, 1, Len(s)) /\ SubSeq(s, 1, Len(s))[i] = s[i]
  BY <1>2
<1> QED
  BY <1>1, <1>2, <1>3 DEF Matched, Matches

\* An event that was published is where its history says.
LEMMA PosFacts ==
  ASSUME TypeOK
  PROVE  /\ Pos \in [Publications -> 0 .. Len(published)] /\ Pos \in [Publications -> Nat]
         /\ \A e \in Publications : Pos[e] = When(e)
         /\ \A e \in Publications : Pos[e] > 0 => Pos[e] \in DOMAIN published /\ published[Pos[e]] = e
         /\ \A i \in DOMAIN published : Pos[published[i]] > 0
<1> SUFFICES ASSUME NEW e \in Publications
             PROVE  /\ When(e) \in 0 .. Len(published)
                    /\ When(e) > 0 => When(e) \in DOMAIN published /\ published[When(e)] = e
                    /\ \A i \in DOMAIN published : published[i] = e => When(e) > 0
  BY DEF Pos, TypeOK
<1>1. published \in Seq(Publications) /\ DOMAIN published = 1 .. Len(published) /\ Len(published) \in Nat
  BY DEF TypeOK
<1>2. CASE \E i \in DOMAIN published : published[i] = e
  <2>1. When(e) \in DOMAIN published /\ published[When(e)] = e
    BY <1>2 DEF When
  <2> QED
    BY <1>1, <2>1
<1>3. CASE ~\E i \in DOMAIN published : published[i] = e
  BY <1>1, <1>3 DEF When
<1> QED
  BY <1>2, <1>3

\* A publication has the last place, and the others keep theirs.
LEMMA PublishPos ==
  ASSUME TypeOK, TypeOK', HistInv, NEW e \in Publications, sender[e] # "sent",
         published' = Append(published, e)
  PROVE  Pos' = [Pos EXCEPT ![e] = Len(published) + 1]
<1>1. /\ published \in Seq(Publications) /\ Len(published) \in Nat
      /\ Len(published') = Len(published) + 1 /\ published'[Len(published) + 1] = e
      /\ DOMAIN published = 1 .. Len(published) /\ DOMAIN published' = 1 .. Len(published) + 1
      /\ \A i \in 1 .. Len(published) : published'[i] = published[i]
  BY AppendProperties DEF TypeOK
<1>2. ASSUME NEW x \in Publications
      PROVE  When(x)' = IF x = e THEN Len(published) + 1 ELSE When(x)
  <2>1. CASE \E i \in DOMAIN published' : published'[i] = x
    <3>1. When(x)' \in DOMAIN published' /\ published'[When(x)'] = x
      BY <2>1 DEF When
    <3>2. CASE x = e
      BY <1>1, <3>1, <3>2 DEF HistInv
    <3>3. CASE x # e
      <4>1. When(x)' \in DOMAIN published /\ published[When(x)'] = x
        BY <1>1, <3>1, <3>3
      <4> QED
        BY <1>1, <3>3, <4>1, PosFacts DEF HistInv
    <3> QED
      BY <3>2, <3>3
  <2>2. CASE ~\E i \in DOMAIN published' : published'[i] = x
    BY <1>1, <2>2 DEF When
  <2> QED
    BY <2>1, <2>2
<1> QED
  BY <1>2 DEF Pos

\* Without a publication everything keeps its place.
LEMMA PosStays == ASSUME UNCHANGED published PROVE Pos' = Pos
<1>1. \A e \in Publications : When(e)' = When(e)
  BY DEF When
<1> QED
  BY <1>1 DEF Pos

\* The invariant holds at the start.
LEMMA InitIInv == Init => IInv
<1> SUFFICES ASSUME Init PROVE IInv
  OBVIOUS
<1> USE DEF Init
<1>1. TypeOK
  <2>1. Lasting \subseteq QueueNames /\ Listening \subseteq Listeners
    BY EventsAssumption DEF EventsAssumption, Lasting, Listening, QueueNames
  <2>2. \A l \in Listening : Len(TopicsOf(l)) >= 0
    <3> SUFFICES ASSUME NEW l \in Listening PROVE Len(TopicsOf(l)) >= 0
      OBVIOUS
    <3> QED
      BY TopicsBound
  <2>3. Len(<< >>) = 0 /\ << >> \in Seq(Publications)
    OBVIOUS
  <2> QED
    BY <2>1, <2>2, <2>3 DEF TypeOK
<1>2. HistInv /\ LineInv /\ DueInv
  BY CastFacts, <1>1 DEF HistInv, LineInv, DueInv, Rising, Before, Known, Got, ToSet
<1>3. OwnInv
  BY CastFacts, <1>1 DEF OwnInv, Idle
<1>4. MissInv
  BY CastFacts, <1>1 DEF MissInv, MissesNone, Idle, Waiting
<1> QED
  BY <1>1, <1>2, <1>3, <1>4 DEF IInv

-----------------------------------------------------------------------------
(***************************************************************************)
(* What the steps of a listener have in common                             *)
(***************************************************************************)

\* Events stay where they are or are lost with a queue or a buffer.
Fades ==
  /\ UNCHANGED <<cast, published, since, heard>>
  /\ \A q \in QueueNames : \/ owner'[q] = owner[q] /\ queue'[q] = queue[q]
                           \/ owner'[q] = Nobody /\ queue'[q] = << >>
  /\ \A l \in Listening : buffer'[l] = buffer[l] \/ buffer'[l] = << >>

LEMMA FadesInOrder == ASSUME IInv, Fades PROVE LineInv' /\ DueInv'
<1> USE DEF IInv, Fades
<1>1. /\ Pos' = Pos /\ Listening' = Listening /\ Lasting' = Lasting
      /\ \A l : QueueOf(l)' = QueueOf(l) /\ (Declares(l)' <=> Declares(l))
      /\ \A e : (Direct(e)' <=> Direct(e)) /\ Event(e)' = Event(e)
      /\ \A l, e : Due(l, e)' <=> Due(l, e)
  BY PosStays, CastStays DEF Due
<1>2. ToSet(<< >>) = {} /\ Rising(<< >>, Pos) /\ Nobody \notin Listeners
  BY CastFacts DEF ToSet, Rising
<1>3. \A q \in QueueNames : ToSet(queue'[q]) \subseteq ToSet(queue[q]) /\ Rising(queue'[q], Pos)
  BY <1>2 DEF LineInv
<1>4. \A l \in Listening : ToSet(buffer'[l]) \subseteq ToSet(buffer[l]) /\ Rising(buffer'[l], Pos)
  BY <1>2 DEF LineInv
<1>5. \A l \in Listening : QueueOf(l) \in QueueNames
  BY CastFacts
<1>6. LineInv'
  BY <1>1, <1>3, <1>4, <1>5 DEF LineInv, Before, Known
<1>7. \A l \in Listening : Got(l)' \subseteq Got(l)
  BY <1>4 DEF Got
<1>8. DueInv'
  <2>1. \A l \in Listening : \A e \in Got(l)' : Due(l, e)
    BY <1>7 DEF DueInv
  <2>2. \A q \in QueueNames : \A e \in ToSet(queue'[q]) :
          /\ \A k \in Listening : owner'[q] = k => Due(k, e)
          /\ q \in Lasting => Direct(e) /\ Event(e).queue = q
    BY <1>2, <1>3 DEF DueInv
  <2>3. \A k, l \in Listening : k # l /\ QueueOf(k) = QueueOf(l) => Got(k)' \cap Got(l)' = {}
    BY <1>7 DEF DueInv
  <2> QED
    BY <1>1, <2>1, <2>2, <2>3 DEF DueInv
<1> QED
  BY <1>6, <1>8

\* What a listener gets of its connection and its queue when another does a step.
LEMMA MissesElsewhere ==
  ASSUME IInv, UNCHANGED <<cast, published>>, NEW l \in Listening,
         /\ listener'[l] = listener[l] /\ bound'[l] = bound[l] /\ connected'[l] = connected[l]
         /\ heard'[l] = heard[l] /\ buffer'[l] = buffer[l] /\ ready'[l] = ready[l],
         owner[QueueOf(l)] = l => queue'[QueueOf(l)] = queue[QueueOf(l)]
  PROVE  MissesNone(l)'
<1> USE DEF IInv
<1>1. /\ Pos' = Pos /\ Sending' = Sending /\ QueueOf(l)' = QueueOf(l)
      /\ (Declares(l)' <=> Declares(l)) /\ (OneShot(l)' <=> OneShot(l)) /\ TopicsOf(l)' = TopicsOf(l)
      /\ \A e : Awaited(l, e)' <=> Awaited(l, e)
  BY PosStays, CastStays DEF Awaited
<1>2. Waiting(l) /\ Declares(l) => queue'[QueueOf(l)] = queue[QueueOf(l)]
  BY DEF Waiting, OwnInv
<1>3. (Waiting(l)' <=> Waiting(l)) /\ (Idle(l)' <=> Idle(l)) /\ Got(l)' = Got(l)
  BY DEF Waiting, Idle, Got
<1>4. \A e : Awaited(l, e) => Declares(l)
  BY DEF Awaited
<1> QED
  BY <1>1, <1>2, <1>3, <1>4 DEF MissInv, MissesNone

\* A listener that loses its connection loses the queue that was its own, and no
\* other listener does.
LEMMA Disconnected ==
  ASSUME TypeOK, OwnInv, NEW l \in Listening, Disconnect(l)
  PROVE  /\ connected' = [connected EXCEPT ![l] = FALSE]
         /\ owner' \in [QueueNames -> Listeners \cup {"everyone", Nobody}]
         /\ queue' \in [QueueNames -> Seq(Publications)]
         /\ \A q \in QueueNames : IF owner[q] = l THEN owner'[q] = Nobody /\ queue'[q] = << >>
                                  ELSE owner'[q] = owner[q] /\ queue'[q] = queue[q]
<1>1. l \in Listeners /\ QueueOf(l) \in QueueNames /\ << >> \in Seq(Publications)
  BY CastFacts
<1>2. \A q \in QueueNames : owner[q] = l => QueueOf(l) = q
  BY <1>1 DEF OwnInv
<1>3. CASE owner[QueueOf(l)] = l
  <2>1. /\ owner' = [owner EXCEPT ![QueueOf(l)] = Nobody] /\ queue' = [queue EXCEPT ![QueueOf(l)] = << >>]
        /\ connected' = [connected EXCEPT ![l] = FALSE]
    BY <1>3 DEF Disconnect
  <2> QED
    BY <1>1, <1>2, <1>3, <2>1 DEF TypeOK
<1>4. CASE owner[QueueOf(l)] # l
  <2>1. UNCHANGED <<owner, queue>> /\ connected' = [connected EXCEPT ![l] = FALSE]
    BY <1>4 DEF Disconnect
  <2>2. \A q \in QueueNames : owner[q] # l
    BY <1>2, <1>4
  <2> QED
    BY <2>1, <2>2 DEF TypeOK
<1> QED
  BY <1>3, <1>4

\* It is cut off, or has come to its end.
LEMMA DisconnectOwns ==
  ASSUME TypeOK, TypeOK', OwnInv, NEW l \in Listening, Disconnect(l), UNCHANGED cast,
         \A k \in Listening \ {l} : listener'[k] = listener[k] /\ buffer'[k] = buffer[k],
         \/ listener'[l] \in {"off", "ended", "failed"} /\ buffer'[l] = << >>
         \/ OneShot(l) /\ listener'[l] = "listening"
  PROVE  OwnInv'
<1>1. /\ Listening' = Listening /\ Lasting' = Lasting
      /\ \A k : QueueOf(k)' = QueueOf(k) /\ (Declares(k)' <=> Declares(k)) /\ (OneShot(k)' <=> OneShot(k))
  BY CastStays
<1>2. /\ l \in Listeners /\ Listening \subseteq Listeners /\ \A k \in Listening : QueueOf(k) \in QueueNames
      /\ Nobody \notin Listeners /\ "everyone" \notin Listeners
      /\ OneShot(l) => Declares(l)
  BY CastFacts
<1>3. /\ connected' = [connected EXCEPT ![l] = FALSE]
      /\ \A q \in QueueNames : IF owner[q] = l THEN owner'[q] = Nobody /\ queue'[q] = << >>
                               ELSE owner'[q] = owner[q] /\ queue'[q] = queue[q]
  BY Disconnected
<1>4. connected'[l] = FALSE /\ \A k \in Listeners \ {l} : connected'[k] = connected[k]
  BY <1>2, <1>3 DEF TypeOK
<1>5. ASSUME NEW q \in QueueNames
      PROVE  /\ owner'[q] \in Listeners =>
                  /\ owner'[q] \in Listening /\ Declares(owner'[q]) /\ QueueOf(owner'[q]) = q
                  /\ connected'[owner'[q]]
             /\ owner'[q] = "everyone" <=> q \in Lasting
             /\ owner'[q] = Nobody => queue'[q] = << >>
  <2>1. CASE owner[q] = l
    <3>1. owner'[q] = Nobody /\ queue'[q] = << >> /\ owner[q] # "everyone"
      BY <1>2, <1>3, <2>1
    <3>2. Nobody # "everyone"
      BY CastFacts
    <3> QED
      BY <1>2, <3>1, <3>2 DEF OwnInv
  <2>2. CASE owner[q] # l
    <3>1. owner'[q] = owner[q] /\ queue'[q] = queue[q]
      BY <1>3, <2>2
    <3> QED
      BY <1>2, <1>4, <2>2, <3>1 DEF OwnInv
  <2> QED
    BY <2>1, <2>2
<1>6. ASSUME NEW k \in Listening
      PROVE  /\ connected'[k] => ~Idle(k)' /\ (Declares(k) => owner'[QueueOf(k)] = k)
             /\ ~Idle(k)' /\ ~connected'[k] => OneShot(k) /\ listener'[k] = "listening"
             /\ listener'[k] = "binding" => Declares(k)
             /\ ~Idle(k)' /\ ~Declares(k) => QueueOf(k) \in Lasting
             /\ listener'[k] # "listening" => buffer'[k] = << >>
  <2>1. CASE k = l
    BY <1>2, <1>4, <2>1 DEF Idle
  <2>2. CASE k # l
    BY <1>2, <1>3, <1>4, <2>2 DEF Idle, OwnInv
  <2> QED
    BY <2>1, <2>2
<1> QED
  BY <1>1, <1>5, <1>6 DEF OwnInv

-----------------------------------------------------------------------------
(***************************************************************************)
(* The steps of a listener                                                 *)
(***************************************************************************)

\* A step after which every queue is as it was, with the same owner.
LEMMA StaysOwned ==
  ASSUME TypeOK, OwnInv, NEW l \in Listening, UNCHANGED <<cast, owner, queue, connected>>,
         \A k \in Listening \ {l} : listener'[k] = listener[k] /\ buffer'[k] = buffer[k],
         (Idle(l)' <=> Idle(l)), ~Idle(l) => connected[l],
         listener'[l] = "binding" => Declares(l), listener'[l] # "listening" => buffer'[l] = << >>
  PROVE  OwnInv'
<1>1. /\ Listening' = Listening /\ Lasting' = Lasting
      /\ \A k : QueueOf(k)' = QueueOf(k) /\ (Declares(k)' <=> Declares(k)) /\ (OneShot(k)' <=> OneShot(k))
  BY CastStays
<1>2. \A k \in Listening : Idle(k)' <=> Idle(k)
  BY DEF Idle
<1> QED
  BY <1>1, <1>2 DEF OwnInv

LEMMA NameTakenStep == ASSUME IInv, NEW l \in Listening, NameTaken(l) PROVE IInv'
<1> USE DEF IInv, NameTaken, Goto, eventVars
<1>1. l \in Listeners /\ listener' = [listener EXCEPT ![l] = "failed"] /\ Idle(l) /\ Idle(l)'
  BY CastFacts DEF Idle, TypeOK
<1>2. TypeOK'
  BY <1>1, CastFacts, CastStays DEF TypeOK
<1>3. HistInv'
  BY PosStays DEF HistInv
<1>4. OwnInv'
  <2>1. \A k \in Listening \ {l} : listener'[k] = listener[k] /\ buffer'[k] = buffer[k]
    BY <1>1, CastFacts DEF TypeOK
  <2>2. listener[l] # "listening" /\ listener'[l] = "failed"
    BY <1>1 DEF Idle, TypeOK
  <2>3. buffer'[l] = << >>
    BY <2>2 DEF OwnInv
  <2> QED
    BY <1>1, <2>1, <2>2, <2>3, StaysOwned
<1>5. LineInv' /\ DueInv'
  BY FadesInOrder DEF Fades
<1>6. MissInv'
  <2> SUFFICES ASSUME NEW k \in Listening PROVE MissesNone(k)'
    BY CastStays DEF MissInv
  <2>1. CASE k = l
    <3>1. listener'[l] = "failed"
      BY <1>1 DEF TypeOK
    <3> QED
      BY <2>1, <3>1 DEF MissesNone, Idle, Waiting
  <2>2. CASE k # l
    BY <1>1, <2>2, CastFacts, MissesElsewhere DEF TypeOK
  <2> QED
    BY <2>1, <2>2
<1> QED
  BY <1>2, <1>3, <1>4, <1>5, <1>6

LEMMA BindStep == ASSUME IInv, NEW l \in Listening, Bind(l) PROVE IInv'
<1> USE DEF IInv, Bind, eventVars
<1>1. l \in Listeners /\ Len(TopicsOf(l)) \in 0 .. 4
  BY CastFacts
<1>2. TypeOK'
  <2>1. bound[l] + 1 \in 0 .. 4 /\ bound[l] + 1 <= Len(TopicsOf(l)) /\ bound' = [bound EXCEPT ![l] = bound[l] + 1]
    <3> DEFINE n == Len(TopicsOf(l))
    <3>1. bound[l] \in 0 .. 4 /\ n \in 0 .. 4
      BY <1>1 DEF TypeOK
    <3>2. bound[l] < n /\ bound' = [bound EXCEPT ![l] = bound[l] + 1]
      OBVIOUS
    <3> HIDE DEF n
    <3>3. bound[l] + 1 \in 0 .. 4 /\ bound[l] + 1 <= n
      BY <3>1, <3>2
    <3> QED
      BY <3>2, <3>3 DEF n
  <2>2. \A k \in Listening : bound'[k] <= Len(TopicsOf(k))
    BY <2>1, CastFacts DEF TypeOK
  <2> QED
    BY <1>1, <2>1, <2>2, CastStays DEF TypeOK
<1>3. HistInv'
  BY PosStays DEF HistInv
<1>4. OwnInv'
  <2>1. connected[l] /\ Declares(l) /\ buffer[l] = << >>
    BY DEF OwnInv, Idle
  <2> QED
    BY <2>1, StaysOwned DEF Idle
<1>5. LineInv' /\ DueInv'
  BY FadesInOrder DEF Fades
<1>6. MissInv'
  <2> SUFFICES ASSUME NEW k \in Listening PROVE MissesNone(k)'
    BY CastStays DEF MissInv
  <2>1. CASE k = l
    <3>1. connected[l] /\ (OneShot(l)' <=> OneShot(l)) /\ (OneShot(l) => heard[l] = << >>)
      BY CastStays DEF OwnInv, Idle, MissInv, MissesNone
    <3> QED
      BY <2>1, <3>1 DEF MissesNone, Idle, Waiting
  <2>2. CASE k # l
    BY <1>1, <2>2, CastFacts, MissesElsewhere DEF TypeOK
  <2> QED
    BY <2>1, <2>2
<1> QED
  BY <1>2, <1>3, <1>4, <1>5, <1>6

\* From now on all topics are bound.
LEMMA ConsumeStep == ASSUME IInv, NEW l \in Listening, Consume(l) PROVE IInv'
<1> USE DEF IInv, Consume, Goto, eventVars
<1>1. l \in Listeners /\ listener'[l] = "listening" /\ ready'[l] = Len(published)
      /\ Len(published) \in Nat
  BY CastFacts DEF TypeOK
<1>2. TypeOK'
  BY <1>1, CastFacts, CastStays DEF TypeOK
<1>3. HistInv'
  BY PosStays DEF HistInv
<1>4. OwnInv'
  <2>1. connected[l] /\ Declares(l)
    BY DEF OwnInv, Idle
  <2>2. \A k \in Listening \ {l} : listener'[k] = listener[k] /\ buffer'[k] = buffer[k]
    BY CastFacts DEF TypeOK
  <2> QED
    BY <1>1, <2>1, <2>2, StaysOwned DEF Idle
<1>5. LineInv' /\ DueInv'
  BY FadesInOrder DEF Fades
<1>6. MissInv'
  <2> SUFFICES ASSUME NEW k \in Listening PROVE MissesNone(k)'
    BY CastStays DEF MissInv
  <2>1. CASE k = l
    <3>1. /\ connected[l] /\ (OneShot(l)' <=> OneShot(l)) /\ (OneShot(l) => heard[l] = << >>)
          /\ TopicsOf(l)' = TopicsOf(l)
      BY CastStays DEF OwnInv, Idle, MissInv, MissesNone
    <3>2. \A e \in Sending : ~Awaited(l, e)'
      <4>1. \A e \in Sending : Pos'[e] = Pos[e] /\ Pos[e] \in 0 .. Len(published)
        BY PosStays, PosFacts, CastFacts
      <4> QED
        BY <1>1, <4>1 DEF Awaited
    <3>3. Sending' = Sending /\ bound'[l] = bound[l]
      BY CastStays
    <3> QED
      BY <1>1, <2>1, <3>1, <3>2, <3>3 DEF MissesNone, Idle
  <2>2. CASE k # l
    BY <1>1, <2>2, CastFacts, MissesElsewhere DEF TypeOK
  <2> QED
    BY <2>1, <2>2
<1> QED
  BY <1>2, <1>3, <1>4, <1>5, <1>6

\* A step that ends a connection, but for what it means to the listener itself.
LEMMA DisconnectStep ==
  ASSUME IInv, NEW l \in Listening, Disconnect(l),
         UNCHANGED <<cast, published, sender, since, bound, ready>>,
         heard' \in [Listeners -> Seq(Publications)], buffer' \in [Listeners -> Seq(Publications)],
         \A k \in Listening \ {l} : /\ listener'[k] = listener[k] /\ buffer'[k] = buffer[k]
                                    /\ heard'[k] = heard[k],
         listener' \in [Listeners -> {"off", "binding", "listening", "ended", "failed"}],
         \/ listener'[l] \in {"off", "ended", "failed"} /\ buffer'[l] = << >>
         \/ OneShot(l) /\ listener'[l] = "listening"
  PROVE  /\ TypeOK' /\ HistInv' /\ OwnInv'
         /\ \A k \in Listening \ {l} : MissesNone(k)'
<1> USE DEF IInv
<1>1. /\ connected' = [connected EXCEPT ![l] = FALSE]
      /\ owner' \in [QueueNames -> Listeners \cup {"everyone", Nobody}]
      /\ queue' \in [QueueNames -> Seq(Publications)]
      /\ \A q \in QueueNames : IF owner[q] = l THEN owner'[q] = Nobody /\ queue'[q] = << >>
                               ELSE owner'[q] = owner[q] /\ queue'[q] = queue[q]
  BY Disconnected
<1>2. TypeOK'
  BY <1>1, CastStays DEF TypeOK
<1>3. HistInv'
  BY PosStays DEF HistInv
<1>4. OwnInv'
  BY <1>2, DisconnectOwns
<1>5. ASSUME NEW k \in Listening \ {l} PROVE MissesNone(k)'
  <2>1. k \in Listeners /\ k \in Listening /\ QueueOf(k) \in QueueNames /\ connected'[k] = connected[k]
    BY <1>1, CastFacts DEF TypeOK
  <2>2. owner[QueueOf(k)] = k => queue'[QueueOf(k)] = queue[QueueOf(k)]
    BY <1>1, <2>1
  <2> QED
    BY <2>1, <2>2, MissesElsewhere
<1> QED
  BY <1>2, <1>3, <1>4, <1>5

\* What it does to the queues.
LEMMA DisconnectFades ==
  ASSUME IInv, NEW l \in Listening, Disconnect(l), UNCHANGED <<cast, published, since, heard>>,
         \A k \in Listening : buffer'[k] = buffer[k] \/ buffer'[k] = << >>
  PROVE  LineInv' /\ DueInv'
<1>1. Fades
  BY Disconnected DEF Fades, IInv
<1> QED
  BY <1>1, FadesInOrder

LEMMA BindFailsStep == ASSUME IInv, NEW l \in Listening, BindFails(l) PROVE IInv'
<1> USE DEF BindFails, Goto, eventVars
<1>1. /\ l \in Listeners /\ Listening \subseteq Listeners /\ listener'[l] = "failed" /\ buffer[l] = << >>
      /\ listener' \in [Listeners -> {"off", "binding", "listening", "ended", "failed"}]
      /\ heard \in [Listeners -> Seq(Publications)] /\ buffer \in [Listeners -> Seq(Publications)]
      /\ \A k \in Listening \ {l} : listener'[k] = listener[k]
  BY CastFacts DEF IInv, TypeOK, OwnInv
<1>2. TypeOK' /\ HistInv' /\ OwnInv' /\ \A k \in Listening \ {l} : MissesNone(k)'
  BY <1>1, DisconnectStep
<1>3. LineInv' /\ DueInv'
  BY DisconnectFades
<1>4. MissesNone(l)'
  BY <1>1 DEF MissesNone, Idle, Waiting
<1> QED
  BY <1>2, <1>3, <1>4, CastStays DEF IInv, MissInv

LEMMA InterruptStep == ASSUME IInv, NEW l \in Listening, Interrupt(l) PROVE IInv'
<1> USE DEF Interrupt, Goto, eventVars
<1>1. /\ l \in Listeners /\ Listening \subseteq Listeners /\ listener'[l] = "off" /\ buffer'[l] = << >>
      /\ listener' \in [Listeners -> {"off", "binding", "listening", "ended", "failed"}]
      /\ heard \in [Listeners -> Seq(Publications)] /\ buffer' \in [Listeners -> Seq(Publications)]
      /\ \A k \in Listening \ {l} : listener'[k] = listener[k] /\ buffer'[k] = buffer[k]
  <2>1. << >> \in Seq(Publications)
    OBVIOUS
  <2> QED
    BY <2>1, CastFacts DEF IInv, TypeOK
<1>2. TypeOK' /\ HistInv' /\ OwnInv' /\ \A k \in Listening \ {l} : MissesNone(k)'
  BY <1>1, DisconnectStep
<1>3. LineInv' /\ DueInv'
  BY <1>1, DisconnectFades
<1>4. MissesNone(l)'
  BY <1>1 DEF MissesNone, Idle, Waiting
<1> QED
  BY <1>2, <1>3, <1>4, CastStays DEF IInv, MissInv

\* The first event that waits for a listener with all its topics bound is the first
\* of those it may hear.
LEMMA FirstIsNext ==
  ASSUME IInv, NEW l \in Listening, OneShot(l), listener[l] = "listening", buffer[l] # << >>,
         NEW e \in Sending, Awaited(l, e)
  PROVE  Pos[Head(buffer[l])] <= Pos[e]
<1> USE DEF IInv
<1>1. /\ buffer[l] \in Seq(Publications) /\ Pos \in [Publications -> Nat]
      /\ QueueOf(l) \in QueueNames /\ e \in Publications /\ l \in Listeners
  BY PosFacts, CastFacts DEF TypeOK
<1>2. /\ Head(buffer[l]) \in Publications /\ Head(buffer[l]) \in ToSet(buffer[l])
      /\ ToSet(buffer[l]) = {Head(buffer[l])} \cup ToSet(Tail(buffer[l]))
  BY <1>1, AtFront
<1>3. CASE connected[l]
  <2>1. e \in ToSet(buffer[l]) \cup ToSet(queue[QueueOf(l)])
    <3>1. heard[l] = << >> /\ e \in Got(l) \cup ToSet(queue[QueueOf(l)])
      BY <1>3 DEF MissInv, MissesNone, Idle, Waiting
    <3> QED
      BY <3>1 DEF Got, ToSet
  <2>2. CASE e \in ToSet(queue[QueueOf(l)])
    <3>1. Before(ToSet(heard[l]) \cup ToSet(buffer[l]), ToSet(queue[QueueOf(l)]), Pos)
      BY DEF LineInv
    <3>2. Pos[Head(buffer[l])] < Pos[e]
      BY <1>2, <2>2, <3>1 DEF Before
    <3> QED
      BY <1>1, <1>2, <3>2
  <2>3. CASE e \in ToSet(Tail(buffer[l]))
    <3>1. Rising(buffer[l], Pos) /\ Pos \in [Publications -> Nat]
      BY <1>1 DEF LineInv
    <3>2. Before({Head(buffer[l])}, ToSet(Tail(buffer[l])), Pos)
      BY <1>1, <3>1, RisingFront
    <3> QED
      BY <1>1, <1>2, <2>3, <3>2 DEF Before
  <2> QED
    BY <1>1, <1>2, <2>1, <2>2, <2>3
<1>4. CASE ~connected[l]
  BY <1>4 DEF MissInv, MissesNone, Idle
<1> QED
  BY <1>3, <1>4

LEMMA CutStep == ASSUME IInv, NEW l \in Listening, Cut(l) PROVE IInv'
<1> USE DEF Cut, eventVars
<1>1. /\ l \in Listeners /\ Listening \subseteq Listeners /\ listener[l] = "listening" /\ OneShot(l)
      /\ listener \in [Listeners -> {"off", "binding", "listening", "ended", "failed"}]
      /\ heard \in [Listeners -> Seq(Publications)] /\ buffer' \in [Listeners -> Seq(Publications)]
      /\ \A k \in Listening \ {l} : buffer'[k] = buffer[k]
      /\ buffer'[l] = buffer[l] \/ buffer'[l] = << >>
  <2>1. << >> \in Seq(Publications) /\ l \in Listeners /\ Listening \subseteq Listeners
    BY CastFacts DEF IInv
  <2>2. CASE buffer' = buffer
    BY <2>1, <2>2 DEF IInv, TypeOK
  <2>3. CASE buffer' = [buffer EXCEPT ![l] = << >>]
    BY <2>1, <2>3 DEF IInv, TypeOK
  <2> QED
    BY <2>2, <2>3
<1>2. TypeOK' /\ HistInv' /\ OwnInv' /\ \A k \in Listening \ {l} : MissesNone(k)'
  BY <1>1, DisconnectStep
<1>3. LineInv' /\ DueInv'
  BY <1>1, DisconnectFades
<1>4. MissesNone(l)'
  <2>1. /\ Pos' = Pos /\ Sending' = Sending /\ TopicsOf(l)' = TopicsOf(l) /\ (Declares(l)' <=> Declares(l))
        /\ \A e : Awaited(l, e)' <=> Awaited(l, e)
    BY PosStays, CastStays DEF Awaited
  <2>2. connected'[l] = FALSE
    BY <1>1, Disconnected DEF IInv, TypeOK
  <2>3. MissesNone(l)
    BY DEF IInv, MissInv
  <2>4. ASSUME NEW e \in Sending, Awaited(l, e), buffer'[l] # << >> PROVE Pos[Head(buffer'[l])] <= Pos[e]
    BY <1>1, <2>4, FirstIsNext
  <2> QED
    BY <1>1, <2>1, <2>2, <2>3, <2>4 DEF MissesNone, Idle, Waiting
<1> QED
  BY <1>2, <1>3, <1>4, CastStays DEF IInv, MissInv

\* The event at the front of the buffer is heard, the others may be lost.
LEMMA ListenInOrder ==
  ASSUME IInv, NEW l \in Listening, Listen(l),
         buffer'[l] = Tail(buffer[l]) \/ buffer'[l] = << >>,
         \A k \in Listening \ {l} : buffer'[k] = buffer[k],
         \A q \in QueueNames : \/ owner'[q] = owner[q] /\ queue'[q] = queue[q]
                               \/ owner'[q] = Nobody /\ queue'[q] = << >>
  PROVE  /\ LineInv' /\ DueInv'
         /\ heard'[l] = Append(heard[l], Head(buffer[l]))
         /\ heard' \in [Listeners -> Seq(Publications)]
         /\ \A k \in Listening \ {l} : heard'[k] = heard[k]
<1> DEFINE b == buffer[l]
           x == Head(b)
<1> USE DEF IInv
<1>1. /\ l \in Listeners /\ Listening \subseteq Listeners /\ b \in Seq(Publications) /\ b # << >>
      /\ heard[l] \in Seq(Publications) /\ Pos \in [Publications -> Nat]
      /\ UNCHANGED <<cast, published, since>>
      /\ \A k \in Listening : QueueOf(k) \in QueueNames
  BY CastFacts, PosFacts DEF Listen, eventVars, TypeOK
<1>2. /\ x \in Publications /\ x \in ToSet(b) /\ ToSet(b) = {x} \cup ToSet(Tail(b)) /\ Tail(b) \in Seq(Publications)
  BY <1>1, AtFront
<1>3. /\ Pos' = Pos /\ Listening' = Listening /\ Lasting' = Lasting
      /\ \A k : QueueOf(k)' = QueueOf(k) /\ (Declares(k)' <=> Declares(k))
      /\ \A e : (Direct(e)' <=> Direct(e)) /\ Event(e)' = Event(e)
      /\ \A k, e : Due(k, e)' <=> Due(k, e)
  BY <1>1, PosStays, CastStays DEF Due
<1>4. /\ heard' = [heard EXCEPT ![l] = Append(heard[l], x)] /\ Append(heard[l], x) \in Seq(Publications)
      /\ ToSet(Append(heard[l], x)) = ToSet(heard[l]) \cup {x}
  BY <1>1, <1>2, Ends DEF Listen
<1>5. /\ heard'[l] = Append(heard[l], x) /\ heard' \in [Listeners -> Seq(Publications)]
      /\ \A k \in Listening \ {l} : heard'[k] = heard[k]
  BY <1>1, <1>4 DEF TypeOK
<1>6. ToSet(<< >>) = {} /\ Rising(<< >>, Pos)
  BY DEF ToSet, Rising
<1>7. \A q \in QueueNames : ToSet(queue'[q]) \subseteq ToSet(queue[q]) /\ Rising(queue'[q], Pos)
  BY <1>6 DEF LineInv
<1>8. /\ Rising(heard[l], Pos) /\ Rising(b, Pos) /\ Before(ToSet(heard[l]), ToSet(b), Pos)
      /\ Before(ToSet(heard[l]) \cup ToSet(b), ToSet(queue[QueueOf(l)]), Pos)
      /\ Known(ToSet(heard[l]) \cup ToSet(b), Pos)
  BY DEF LineInv
<1>9. ToSet(buffer'[l]) \subseteq ToSet(Tail(b)) /\ Rising(buffer'[l], Pos) /\ Before({x}, ToSet(Tail(b)), Pos)
  BY <1>1, <1>6, <1>8, RisingFront
<1>10. Rising(heard'[l], Pos)
  <2>1. Before(ToSet(heard[l]), {x}, Pos)
    BY <1>2, <1>8 DEF Before
  <2> QED
    BY <1>1, <1>2, <1>5, <1>8, <2>1, RisingEnds
<1>11. LineInv'
  <2>1. ASSUME NEW k \in Listening
        PROVE  /\ Rising(heard'[k], Pos) /\ Rising(buffer'[k], Pos)
               /\ Before(ToSet(heard'[k]), ToSet(buffer'[k]), Pos)
               /\ Before(ToSet(heard'[k]) \cup ToSet(buffer'[k]), ToSet(queue'[QueueOf(k)]), Pos)
               /\ Known(ToSet(heard'[k]) \cup ToSet(buffer'[k]), Pos)
    <3>1. CASE k = l
      <4>1. ToSet(heard'[l]) = ToSet(heard[l]) \cup {x}
        BY <1>4, <1>5
      <4>2. Before(ToSet(heard'[l]), ToSet(buffer'[l]), Pos)
        BY <1>2, <1>8, <1>9, <4>1 DEF Before
      <4>3. Before(ToSet(heard'[l]) \cup ToSet(buffer'[l]), ToSet(queue'[QueueOf(l)]), Pos)
        BY <1>1, <1>2, <1>7, <1>8, <1>9, <4>1 DEF Before
      <4>4. Known(ToSet(heard'[l]) \cup ToSet(buffer'[l]), Pos)
        BY <1>2, <1>8, <1>9, <4>1 DEF Known
      <4> QED
        BY <3>1, <1>9, <1>10, <4>2, <4>3, <4>4
    <3>2. CASE k # l
      <4>1. heard'[k] = heard[k] /\ buffer'[k] = buffer[k]
        BY <1>5, <3>2
      <4> QED
        BY <4>1, <1>1, <1>7 DEF LineInv, Before
    <3> QED
      BY <3>1, <3>2
  <2>2. \A q \in QueueNames : Known(ToSet(queue'[q]), Pos)
    BY <1>7 DEF LineInv, Known
  <2> QED
    BY <1>3, <1>7, <2>1, <2>2 DEF LineInv
<1>12. \A k \in Listening : Got(k)' \subseteq Got(k)
  BY <1>2, <1>4, <1>5, <1>9 DEF Got
<1>13. DueInv'
  <2>1. \A k \in Listening : \A e \in Got(k)' : Due(k, e)
    BY <1>12 DEF DueInv
  <2>2. \A q \in QueueNames : \A e \in ToSet(queue'[q]) :
          /\ \A k \in Listening : owner'[q] = k => Due(k, e)
          /\ q \in Lasting => Direct(e) /\ Event(e).queue = q
    BY <1>6, <1>7 DEF DueInv
  <2>3. \A j, k \in Listening : j # k /\ QueueOf(j) = QueueOf(k) => Got(j)' \cap Got(k)' = {}
    BY <1>12 DEF DueInv
  <2> QED
    BY <1>3, <2>1, <2>2, <2>3 DEF DueInv
<1> QED
  BY <1>5, <1>11, <1>13

LEMMA HearFirstStep == ASSUME IInv, NEW l \in Listening, HearFirst(l) PROVE IInv'
<1> USE DEF HearFirst, Listen, Goto, eventVars
<1>1. /\ l \in Listeners /\ Listening \subseteq Listeners /\ listener'[l] = "ended" /\ buffer'[l] = << >>
      /\ listener' \in [Listeners -> {"off", "binding", "listening", "ended", "failed"}]
      /\ buffer' \in [Listeners -> Seq(Publications)]
      /\ \A k \in Listening \ {l} : listener'[k] = listener[k] /\ buffer'[k] = buffer[k]
      /\ heard[l] = << >> /\ buffer[l] # << >> /\ buffer[l] \in Seq(Publications)
  <2>1. << >> \in Seq(Publications)
    OBVIOUS
  <2>2. heard[l] = << >>
    BY DEF IInv, MissInv, MissesNone, Idle
  <2> QED
    BY <2>1, <2>2, CastFacts DEF IInv, TypeOK
<1>2. \A q \in QueueNames : \/ owner'[q] = owner[q] /\ queue'[q] = queue[q]
                            \/ owner'[q] = Nobody /\ queue'[q] = << >>
  <2>1. \A q \in QueueNames : IF owner[q] = l THEN owner'[q] = Nobody /\ queue'[q] = << >>
                              ELSE owner'[q] = owner[q] /\ queue'[q] = queue[q]
    BY Disconnected DEF IInv
  <2> QED
    BY <2>1
<1>3. /\ LineInv' /\ DueInv' /\ heard'[l] = Append(heard[l], Head(buffer[l]))
      /\ heard' \in [Listeners -> Seq(Publications)]
      /\ \A k \in Listening \ {l} : heard'[k] = heard[k]
  BY <1>1, <1>2, ListenInOrder
<1>4. TypeOK' /\ HistInv' /\ OwnInv' /\ \A k \in Listening \ {l} : MissesNone(k)'
  BY <1>1, <1>3, DisconnectStep
<1>5. MissesNone(l)'
  <2>1. heard'[l] # << >> /\ Head(heard'[l]) = Head(buffer[l])
    <3>1. Head(buffer[l]) \in Publications /\ << >> \in Seq(Publications)
      BY <1>1, AtFront
    <3> QED
      BY <1>1, <1>3, <3>1, HeadTailAppend, AppendProperties
  <2>2. \A e \in Sending : Awaited(l, e) => Pos[Head(buffer[l])] <= Pos[e]
    BY <1>1, FirstIsNext
  <2>3. /\ Pos' = Pos /\ Sending' = Sending /\ (OneShot(l)' <=> OneShot(l))
        /\ \A e : Awaited(l, e)' <=> Awaited(l, e)
    BY PosStays, CastStays DEF Awaited
  <2> QED
    BY <1>1, <2>1, <2>2, <2>3 DEF MissesNone, Idle, Waiting
<1> QED
  BY <1>3, <1>4, <1>5, CastStays DEF IInv, MissInv

LEMMA HearAllStep == ASSUME IInv, NEW l \in Listening, HearAll(l) PROVE IInv'
<1> USE DEF HearAll, Listen, eventVars
<1> DEFINE b == buffer[l]
<1>1. /\ l \in Listeners /\ Listening \subseteq Listeners /\ b # << >> /\ b \in Seq(Publications)
      /\ heard[l] \in Seq(Publications)
  BY CastFacts DEF IInv, TypeOK
<1>2. Head(b) \in Publications /\ Tail(b) \in Seq(Publications) /\ ToSet(b) = {Head(b)} \cup ToSet(Tail(b))
  BY <1>1, AtFront
<1>3. /\ buffer'[l] = Tail(b) /\ buffer' \in [Listeners -> Seq(Publications)]
      /\ \A k \in Listening \ {l} : buffer'[k] = buffer[k]
  BY <1>1, <1>2 DEF IInv, TypeOK
<1>4. /\ LineInv' /\ DueInv' /\ heard'[l] = Append(heard[l], Head(b))
      /\ heard' \in [Listeners -> Seq(Publications)]
      /\ \A k \in Listening \ {l} : heard'[k] = heard[k]
  <2>1. Listen(l) /\ UNCHANGED <<owner, queue>>
    OBVIOUS
  <2> QED
    BY <1>3, <2>1, ListenInOrder
<1>5. TypeOK' /\ HistInv'
  BY <1>3, <1>4, CastStays, PosStays DEF IInv, TypeOK, HistInv
<1>6. OwnInv'
  <2>1. listener[l] = "listening" /\ (~Idle(l) => connected[l])
    BY DEF IInv, OwnInv, Idle
  <2>2. Idle(l)' <=> Idle(l)
    BY DEF Idle
  <2> QED
    BY <1>3, <2>1, <2>2, StaysOwned DEF IInv
<1>7. MissInv'
  <2> SUFFICES ASSUME NEW k \in Listening PROVE MissesNone(k)'
    BY CastStays DEF MissInv
  <2>1. CASE k = l
    <3>1. Got(l)' = Got(l)
      <4>1. ToSet(heard'[l]) = ToSet(heard[l]) \cup {Head(b)}
        BY <1>1, <1>2, <1>4, Ends
      <4> QED
        BY <1>2, <1>3, <4>1 DEF Got
    <3>2. /\ Sending' = Sending /\ (OneShot(l)' <=> OneShot(l)) /\ TopicsOf(l)' = TopicsOf(l)
          /\ (Declares(l)' <=> Declares(l)) /\ QueueOf(l)' = QueueOf(l)
          /\ \A e : Awaited(l, e)' <=> Awaited(l, e)
      BY PosStays, CastStays DEF Awaited
    <3>3. MissesNone(l) /\ connected[l]
      BY DEF IInv, MissInv, OwnInv, Idle
    <3> QED
      BY <2>1, <3>1, <3>2, <3>3 DEF MissesNone, Idle, Waiting
  <2>2. CASE k # l
    BY <1>1, <1>3, <1>4, <2>2, MissesElsewhere
  <2> QED
    BY <2>1, <2>2
<1> QED
  BY <1>4, <1>5, <1>6, <1>7 DEF IInv

\* What the broker hands over goes from the front of the queue to the end of the
\* buffer, and was due.
LEMMA DeliverStep == ASSUME IInv, NEW l \in Listening, Deliver(l) PROVE IInv'
<1> DEFINE Q == QueueOf(l)
           x == Head(queue[Q])
           b == buffer[l]
<1> USE DEF IInv
<1>1. /\ l \in Listeners /\ Listening \subseteq Listeners /\ Q \in QueueNames
      /\ queue[Q] \in Seq(Publications) /\ queue[Q] # << >> /\ b \in Seq(Publications)
      /\ Pos \in [Publications -> Nat] /\ listener[l] = "listening" /\ connected[l]
      /\ \A k \in Listening : QueueOf(k) \in QueueNames
      /\ Nobody \notin Listeners /\ "everyone" \notin Listeners
      /\ UNCHANGED <<cast, owner, listener, bound, connected, heard, since, ready, sender, published>>
  BY CastFacts, PosFacts DEF Deliver, eventVars, TypeOK
<1>2. /\ x \in Publications /\ Tail(queue[Q]) \in Seq(Publications)
      /\ x \in ToSet(queue[Q]) /\ ToSet(queue[Q]) = {x} \cup ToSet(Tail(queue[Q]))
  BY <1>1, AtFront
<1>3. /\ queue'[Q] = Tail(queue[Q]) /\ \A q \in QueueNames \ {Q} : queue'[q] = queue[q]
      /\ queue' \in [QueueNames -> Seq(Publications)]
  BY <1>1, <1>2 DEF Deliver, TypeOK
<1>4. /\ buffer'[l] = Append(b, x) /\ \A k \in Listening \ {l} : buffer'[k] = buffer[k]
      /\ buffer' \in [Listeners -> Seq(Publications)] /\ ToSet(Append(b, x)) = ToSet(b) \cup {x}
  <2>1. buffer' = [buffer EXCEPT ![l] = Append(b, x)]
    BY DEF Deliver
  <2>2. Append(b, x) \in Seq(Publications) /\ ToSet(Append(b, x)) = ToSet(b) \cup {x}
    BY <1>1, <1>2, Ends
  <2> QED
    BY <1>1, <2>1, <2>2 DEF TypeOK
<1>5. /\ Pos' = Pos /\ Listening' = Listening /\ Lasting' = Lasting /\ Sending' = Sending
      /\ \A k : /\ QueueOf(k)' = QueueOf(k) /\ (Declares(k)' <=> Declares(k))
                /\ (OneShot(k)' <=> OneShot(k)) /\ TopicsOf(k)' = TopicsOf(k)
      /\ \A e : (Direct(e)' <=> Direct(e)) /\ Event(e)' = Event(e)
      /\ \A k, e : (Due(k, e)' <=> Due(k, e)) /\ (Awaited(k, e)' <=> Awaited(k, e))
  BY <1>1, PosStays, CastStays DEF Due, Awaited
<1>6. TypeOK' /\ HistInv'
  BY <1>1, <1>3, <1>4, <1>5 DEF TypeOK, HistInv
<1>7. OwnInv'
  <2>1. \A q \in QueueNames : queue[q] = << >> => queue'[q] = << >>
    BY <1>1, <1>3
  <2>2. \A k \in Listening : Idle(k)' <=> Idle(k)
    BY <1>1 DEF Idle
  <2>3. \A k \in Listening : listener[k] # "listening" => buffer'[k] = << >>
    BY <1>1, <1>4 DEF OwnInv
  <2> QED
    BY <1>1, <1>5, <2>1, <2>2, <2>3 DEF OwnInv
<1>8. /\ Rising(queue[Q], Pos) /\ Rising(b, Pos)
      /\ Before(ToSet(heard[l]), ToSet(b), Pos)
      /\ Before(ToSet(heard[l]) \cup ToSet(b), ToSet(queue[Q]), Pos)
      /\ Known(ToSet(heard[l]) \cup ToSet(b), Pos) /\ Known(ToSet(queue[Q]), Pos)
  BY <1>1 DEF LineInv
<1>9. Rising(Tail(queue[Q]), Pos) /\ Before({x}, ToSet(Tail(queue[Q])), Pos)
  BY <1>1, <1>8, RisingFront
<1>10. Rising(Append(b, x), Pos)
  <2>1. Before(ToSet(b), {x}, Pos)
    BY <1>2, <1>8 DEF Before
  <2> QED
    BY <1>1, <1>2, <1>8, <2>1, RisingEnds
<1>11. \A q \in QueueNames : ToSet(queue'[q]) \subseteq ToSet(queue[q])
  BY <1>2, <1>3
<1>12. LineInv'
  <2>1. ASSUME NEW k \in Listening
        PROVE  /\ Rising(heard[k], Pos) /\ Rising(buffer'[k], Pos)
               /\ Before(ToSet(heard[k]), ToSet(buffer'[k]), Pos)
               /\ Before(ToSet(heard[k]) \cup ToSet(buffer'[k]), ToSet(queue'[QueueOf(k)]), Pos)
               /\ Known(ToSet(heard[k]) \cup ToSet(buffer'[k]), Pos)
    <3>1. CASE k = l
      <4>1. Before(ToSet(heard[l]), ToSet(buffer'[l]), Pos)
        BY <1>2, <1>4, <1>8 DEF Before
      <4>2. Before(ToSet(heard[l]) \cup ToSet(buffer'[l]), ToSet(queue'[Q]), Pos)
        BY <1>2, <1>3, <1>4, <1>8, <1>9 DEF Before
      <4>3. Known(ToSet(heard[l]) \cup ToSet(buffer'[l]), Pos)
        BY <1>2, <1>4, <1>8 DEF Known
      <4> QED
        BY <3>1, <1>4, <1>10, <4>1, <4>2, <4>3 DEF LineInv
    <3>2. CASE k # l
      BY <1>1, <1>4, <1>11, <3>2 DEF LineInv, Before
    <3> QED
      BY <3>1, <3>2
  <2>2. \A q \in QueueNames : Rising(queue'[q], Pos) /\ Known(ToSet(queue'[q]), Pos)
    BY <1>3, <1>9, <1>11 DEF LineInv, Known
  <2> QED
    BY <1>1, <1>5, <2>1, <2>2 DEF LineInv
<1>13. DueInv'
  <2>1. Got(l)' = Got(l) \cup {x} /\ \A k \in Listening \ {l} : Got(k)' = Got(k)
    BY <1>1, <1>4 DEF Got
  <2>2. Due(l, x)
    <3>1. CASE Declares(l)
      <4>1. owner[Q] = l
        BY <1>1, <3>1 DEF OwnInv
      <4> QED
        BY <1>1, <1>2, <4>1 DEF DueInv
    <3>2. CASE ~Declares(l)
      <4>1. Direct(x) /\ Event(x).queue = Q
        BY <1>1, <1>2, <3>2 DEF DueInv, OwnInv, Idle
      <4> QED
        BY <3>2, <4>1 DEF Due, MeantFor
    <3> QED
      BY <3>1, <3>2
  <2>3. \A k \in Listening : \A e \in Got(k)' : Due(k, e)
    BY <2>1, <2>2 DEF DueInv
  <2>4. \A q \in QueueNames : \A e \in ToSet(queue'[q]) :
          /\ \A k \in Listening : owner[q] = k => Due(k, e)
          /\ q \in Lasting => Direct(e) /\ Event(e).queue = q
    BY <1>11 DEF DueInv
  <2>5. ASSUME NEW k \in Listening, k # l, QueueOf(k) = Q PROVE x \notin Got(k)
    <3>1. Before(Got(k), ToSet(queue[Q]), Pos)
      BY <2>5 DEF LineInv, Got
    <3>2. ~(Pos[x] < Pos[x])
      BY <1>1, <1>2
    <3> QED
      BY <1>2, <3>1, <3>2 DEF Before
  <2>6. \A j, k \in Listening : j # k /\ QueueOf(j) = QueueOf(k) => Got(j)' \cap Got(k)' = {}
    BY <2>1, <2>5 DEF DueInv
  <2> QED
    BY <1>1, <1>5, <2>3, <2>4, <2>6 DEF DueInv
<1>14. MissInv'
  <2> SUFFICES ASSUME NEW k \in Listening PROVE MissesNone(k)'
    BY <1>5 DEF MissInv
  <2>1. CASE k = l
    <3>1. Got(l)' \cup ToSet(queue'[Q]) = Got(l) \cup ToSet(queue[Q])
      BY <1>1, <1>2, <1>3, <1>4 DEF Got
    <3>2. MissesNone(l)
      BY DEF MissInv
    <3> QED
      BY <1>1, <1>5, <2>1, <3>1, <3>2 DEF MissesNone, Idle, Waiting
  <2>2. CASE k # l
    <3>1. owner[QueueOf(k)] = k => QueueOf(k) # Q
      BY <1>1, <2>2 DEF OwnInv, Idle
    <3> QED
      BY <1>1, <1>3, <1>4, <2>2, <3>1, MissesElsewhere
  <2> QED
    BY <2>1, <2>2
<1> QED
  BY <1>6, <1>7, <1>12, <1>13, <1>14

-----------------------------------------------------------------------------
(***************************************************************************)
(* A listener that is started                                              *)
(***************************************************************************)

\* It has heard nothing; its queue is empty when it is its own.
LEMMA ConnectStep ==
  ASSUME IInv, NEW l \in Listening, Idle(l), Connect(l), UNCHANGED queue,
         \/ /\ Declares(l) /\ listener' = [listener EXCEPT ![l] = "binding"]
            /\ owner[QueueOf(l)] = Nobody /\ owner' = [owner EXCEPT ![QueueOf(l)] = l]
         \/ /\ ~Declares(l) /\ listener' = [listener EXCEPT ![l] = "listening"]
            /\ owner[QueueOf(l)] = "everyone" /\ UNCHANGED owner
  PROVE  IInv'
<1> DEFINE Q == QueueOf(l)
<1> USE DEF IInv
<1>1. /\ l \in Listeners /\ Listening \subseteq Listeners /\ Q \in QueueNames
      /\ \A k \in Listening : QueueOf(k) \in QueueNames
      /\ Nobody \notin Listeners /\ "everyone" \notin Listeners /\ Nobody # "everyone"
      /\ OneShot(l) => Declares(l)
      /\ Len(published) \in Nat /\ UNCHANGED <<cast, buffer, sender, published>>
  BY CastFacts DEF Connect, eventVars, TypeOK
<1>2. /\ connected'[l] = TRUE /\ heard'[l] = << >> /\ since'[l] = Len(published) /\ ready'[l] = Len(published)
      /\ \A k \in Listening \ {l} : /\ connected'[k] = connected[k] /\ heard'[k] = heard[k]
                                    /\ since'[k] = since[k] /\ ready'[k] = ready[k]
                                    /\ listener'[k] = listener[k] /\ bound'[k] = bound[k]
  BY <1>1 DEF Connect, TypeOK
<1>3. /\ ~connected[l] /\ listener[l] # "listening" /\ buffer[l] = << >> /\ ToSet(<< >>) = {}
      /\ Rising(<< >>, Pos)
  BY DEF OwnInv, Idle, ToSet, Rising
<1>4. \A q \in QueueNames : owner[q] # l
  BY <1>1, <1>3 DEF OwnInv
<1>5. \A q \in QueueNames : /\ owner'[q] = owner[q] \/ (q = Q /\ owner'[q] = l /\ queue[q] = << >> /\ Declares(l))
                            /\ owner[q] = "everyone" <=> owner'[q] = "everyone"
                            /\ owner'[q] = Nobody => owner[q] = Nobody
  <2>1. CASE Declares(l) /\ owner[Q] = Nobody /\ owner' = [owner EXCEPT ![Q] = l]
    BY <1>1, <2>1 DEF OwnInv, TypeOK
  <2>2. CASE UNCHANGED owner
    BY <2>2
  <2> QED
    BY <2>1, <2>2
<1>6. /\ Pos' = Pos /\ Listening' = Listening /\ Lasting' = Lasting /\ Sending' = Sending
      /\ \A k : /\ QueueOf(k)' = QueueOf(k) /\ (Declares(k)' <=> Declares(k))
                /\ (OneShot(k)' <=> OneShot(k)) /\ TopicsOf(k)' = TopicsOf(k)
      /\ \A e : (Direct(e)' <=> Direct(e)) /\ Event(e)' = Event(e)
      /\ \A k \in Listening \ {l} : \A e : Due(k, e)' <=> Due(k, e)
  BY <1>1, <1>2, PosStays, CastStays DEF Due
<1>7. TypeOK'
  <2>1. /\ heard' \in [Listeners -> Seq(Publications)] /\ connected' \in [Listeners -> BOOLEAN]
        /\ bound' \in [Listeners -> 0 .. 4]
        /\ since' \in [Listeners -> 0 .. Len(published)] /\ ready' \in [Listeners -> 0 .. Len(published)]
    <3>1. << >> \in Seq(Publications) /\ 0 \in 0 .. 4 /\ Len(published) \in 0 .. Len(published)
      BY <1>1
    <3> QED
      BY <3>1 DEF Connect, TypeOK
  <2>2. \A k \in Listening : bound'[k] <= Len(TopicsOf(k))
    <3>1. bound'[l] = 0 /\ Len(TopicsOf(l)) \in 0 .. 4
      BY <1>1, CastFacts DEF Connect, TypeOK
    <3>2. \A k \in Listening \ {l} : bound'[k] <= Len(TopicsOf(k))
      BY <1>2 DEF TypeOK
    <3> QED
      BY <3>1, <3>2
  <2>3. /\ owner' \in [QueueNames -> Listeners \cup {"everyone", Nobody}]
        /\ listener' \in [Listeners -> {"off", "binding", "listening", "ended", "failed"}]
    <3>1. owner \in [QueueNames -> Listeners \cup {"everyone", Nobody}]
      BY DEF TypeOK
    <3>2. /\ owner' = owner \/ owner' = [owner EXCEPT ![Q] = l]
          /\ listener' = [listener EXCEPT ![l] = "binding"] \/ listener' = [listener EXCEPT ![l] = "listening"]
      OBVIOUS
    <3>3. owner' \in [QueueNames -> Listeners \cup {"everyone", Nobody}]
      BY <1>1, <3>1, <3>2
    <3>4. listener' \in [Listeners -> {"off", "binding", "listening", "ended", "failed"}]
      BY <1>1, <3>2 DEF TypeOK
    <3> QED
      BY <3>3, <3>4
  <2> QED
    BY <1>1, <1>6, <2>1, <2>2, <2>3 DEF TypeOK
<1>8. HistInv'
  BY <1>1, <1>6 DEF HistInv
<1>9. OwnInv'
  <2>1. ASSUME NEW q \in QueueNames
        PROVE  /\ owner'[q] \in Listeners =>
                    /\ owner'[q] \in Listening /\ Declares(owner'[q]) /\ QueueOf(owner'[q]) = q
                    /\ connected'[owner'[q]]
               /\ owner'[q] = "everyone" <=> q \in Lasting
               /\ owner'[q] = Nobody => queue[q] = << >>
    <3>1. CASE owner'[q] = l
      BY <1>1, <1>2, <1>4, <1>5, <3>1 DEF OwnInv
    <3>2. CASE owner'[q] # l
      BY <1>1, <1>2, <1>4, <1>5, <3>2 DEF OwnInv
    <3> QED
      BY <3>1, <3>2
  <2>2. ASSUME NEW k \in Listening
        PROVE  /\ connected'[k] => ~Idle(k)' /\ (Declares(k) => owner'[QueueOf(k)] = k)
               /\ ~Idle(k)' /\ ~connected'[k] => OneShot(k) /\ listener'[k] = "listening"
               /\ listener'[k] = "binding" => Declares(k)
               /\ ~Idle(k)' /\ ~Declares(k) => QueueOf(k) \in Lasting
               /\ listener'[k] # "listening" => buffer[k] = << >>
    <3>1. CASE k = l
      BY <1>1, <1>2, <1>3, <3>1 DEF OwnInv, Idle, TypeOK
    <3>2. CASE k # l
      <4>1. owner[QueueOf(k)] = k => owner'[QueueOf(k)] = k
        BY <1>1, <1>5
      <4> QED
        BY <1>2, <3>2, <4>1 DEF OwnInv, Idle
    <3> QED
      BY <3>1, <3>2
  <2> QED
    BY <1>1, <1>6, <2>1, <2>2 DEF OwnInv
<1>10. LineInv'
  <2>1. ASSUME NEW k \in Listening
        PROVE  /\ Rising(heard'[k], Pos) /\ Rising(buffer[k], Pos)
               /\ Before(ToSet(heard'[k]), ToSet(buffer[k]), Pos)
               /\ Before(ToSet(heard'[k]) \cup ToSet(buffer[k]), ToSet(queue[QueueOf(k)]), Pos)
               /\ Known(ToSet(heard'[k]) \cup ToSet(buffer[k]), Pos)
    <3>1. CASE k = l
      BY <1>2, <1>3, <3>1 DEF Before, Known
    <3>2. CASE k # l
      BY <1>2, <3>2 DEF LineInv
    <3> QED
      BY <3>1, <3>2
  <2> QED
    BY <1>1, <1>6, <2>1 DEF LineInv
<1>11. DueInv'
  <2>1. Got(l)' = {} /\ \A k \in Listening \ {l} : Got(k)' = Got(k)
    BY <1>1, <1>2, <1>3 DEF Got
  <2>2. \A k \in Listening : \A e \in Got(k)' : Due(k, e)'
    BY <1>6, <2>1 DEF DueInv
  <2>3. \A q \in QueueNames : \A e \in ToSet(queue[q]) :
          /\ \A k \in Listening : owner'[q] = k => Due(k, e)'
          /\ q \in Lasting => Direct(e) /\ Event(e).queue = q
    <3> SUFFICES ASSUME NEW q \in QueueNames, NEW e \in ToSet(queue[q]), NEW k \in Listening, owner'[q] = k
                 PROVE  Due(k, e)'
      BY DEF DueInv
    <3>1. owner[q] = k /\ k # l
      BY <1>3, <1>4, <1>5
    <3>2. Due(k, e)
      BY <3>1 DEF DueInv
    <3> QED
      BY <1>6, <3>1, <3>2
  <2>4. \A j, k \in Listening : j # k /\ QueueOf(j) = QueueOf(k) => Got(j)' \cap Got(k)' = {}
    BY <2>1 DEF DueInv
  <2> QED
    BY <1>1, <1>6, <2>2, <2>3, <2>4 DEF DueInv
<1>12. MissInv'
  <2> SUFFICES ASSUME NEW k \in Listening PROVE MissesNone(k)'
    BY <1>6 DEF MissInv
  <2>1. CASE k = l
    <3>1. \A e \in Sending : ~Awaited(l, e)'
      <4>1. \A e \in Sending : Pos[e] \in 0 .. Len(published)
        BY PosFacts, CastFacts
      <4> QED
        BY <1>1, <1>2, <1>6, <4>1 DEF Awaited
    <3>2. /\ listener'[l] \in {"binding", "listening"}
          /\ listener'[l] = "listening" => ~Declares(l)
      BY <1>1 DEF TypeOK
    <3> QED
      BY <1>2, <1>6, <2>1, <3>1, <3>2 DEF MissesNone, Idle
  <2>2. CASE k # l
    BY <1>1, <1>2, <2>2, MissesElsewhere
  <2> QED
    BY <2>1, <2>2
<1> QED
  BY <1>7, <1>8, <1>9, <1>10, <1>11, <1>12

LEMMA DeclareStep == ASSUME IInv, NEW l \in Listening, Declare(l) PROVE IInv'
<1>1. /\ Idle(l) /\ Declares(l) /\ Connect(l) /\ UNCHANGED queue
      /\ owner[QueueOf(l)] = Nobody /\ owner' = [owner EXCEPT ![QueueOf(l)] = l]
      /\ listener' = [listener EXCEPT ![l] = "binding"]
  BY DEF Declare, CanDeclare, Exclusive, Goto
<1> QED
  BY <1>1, ConnectStep

LEMMA ConsumeLastingStep == ASSUME IInv, NEW l \in Listening, ConsumeLasting(l) PROVE IInv'
<1>1. /\ Idle(l) /\ ~Declares(l) /\ Connect(l) /\ UNCHANGED <<owner, queue>>
      /\ owner[QueueOf(l)] = "everyone" /\ listener' = [listener EXCEPT ![l] = "listening"]
  BY DEF ConsumeLasting, Goto
<1> QED
  BY <1>1, ConnectStep

-----------------------------------------------------------------------------
(***************************************************************************)
(* The steps of a producer                                                 *)
(***************************************************************************)

\* The queues that get an event are there, and are those of the listeners that it is
\* meant for and that wait.
LEMMA TargetsDue ==
  ASSUME IInv, NEW e \in Sending
  PROVE  /\ \A q \in Targets(e) \cap QueueNames :
              /\ owner[q] # Nobody
              /\ \A l \in Listening : owner[q] = l => MeantFor(l, e)
              /\ q \in Lasting => Direct(e) /\ Event(e).queue = q
         /\ \A l \in Listening : Waiting(l) /\ Declares(l) /\ MeantFor(l, e) => QueueOf(l) \in Targets(e)
<1> USE DEF IInv
<1>1. /\ Listening \subseteq Listeners /\ Nobody \notin Listeners /\ "everyone" \notin Listeners
      /\ \A l \in Listening : QueueOf(l) \in QueueNames /\ Len(TopicsOf(l)) \in 0 .. 4
  BY CastFacts
<1>2. ASSUME NEW q \in QueueNames, q \in Targets(e)
      PROVE  /\ owner[q] # Nobody
             /\ \A l \in Listening : owner[q] = l => MeantFor(l, e)
             /\ q \in Lasting => Direct(e) /\ Event(e).queue = q
  <2>1. CASE Direct(e)
    <3>1. q = Event(e).queue /\ owner[q] # Nobody
      BY <1>2, <2>1 DEF Targets
    <3>2. \A l \in Listening : owner[q] = l => QueueOf(l) = q
      BY <1>1, <1>2 DEF OwnInv
    <3> QED
      BY <2>1, <3>1, <3>2 DEF MeantFor
  <2>2. CASE ~Direct(e)
    <3>1. PICK k \in Listening : /\ q = QueueOf(k) /\ connected[k] /\ Declares(k)
                                /\ Matched(k, bound[k], e)
      BY <1>2, <2>2 DEF Targets
    <3>2. owner[q] = k
      BY <3>1 DEF OwnInv
    <3>3. bound[k] \in 0 .. 4 /\ bound[k] <= Len(TopicsOf(k))
      BY <1>1 DEF TypeOK
    <3>4. Matched(k, Len(TopicsOf(k)), e)
      BY <1>1, <3>1, <3>3, MatchedByAll
    <3>5. MeantFor(k, e)
      BY <3>1, <3>4 DEF MeantFor
    <3>6. q \notin Lasting
      BY <1>1, <1>2, <3>2 DEF OwnInv
    <3> QED
      BY <1>1, <3>2, <3>5, <3>6
  <2> QED
    BY <2>1, <2>2
<1>3. ASSUME NEW l \in Listening, Waiting(l), Declares(l), MeantFor(l, e) PROVE QueueOf(l) \in Targets(e)
  <2>1. owner[QueueOf(l)] = l /\ connected[l] /\ listener[l] = "listening" /\ bound[l] = Len(TopicsOf(l))
    BY <1>3 DEF Waiting, OwnInv, MissInv, MissesNone
  <2>2. CASE Direct(e)
    BY <1>1, <1>3, <2>1, <2>2 DEF Targets, MeantFor, Matched
  <2>3. CASE ~Direct(e)
    <3>1. Matched(l, bound[l], e)
      BY <1>3, <2>1, <2>3 DEF MeantFor
    <3> QED
      BY <1>3, <2>1, <2>3, <3>1 DEF Targets
  <2> QED
    BY <2>2, <2>3
<1> QED
  BY <1>2, <1>3

\* An order depends on the places of what it orders.
LEMMA RisingSame ==
  ASSUME NEW q \in Seq(Publications), NEW p, NEW r, \A x \in ToSet(q) : r[x] = p[x], Rising(q, p)
  PROVE  Rising(q, r)
<1>1. \A i \in 1 .. Len(q) : q[i] \in ToSet(q)
  BY DEF ToSet
<1> QED
  BY <1>1 DEF Rising

\* The event comes behind all the others, wherever it goes.
LEMMA PublishStep == ASSUME IInv, NEW e \in Sending, Publish(e) PROVE IInv'
<1> DEFINE n == Len(published)
<1> USE DEF IInv
<1>1. /\ e \in Publications /\ Listening \subseteq Listeners /\ Sending \subseteq Publications
      /\ \A l \in Listening : QueueOf(l) \in QueueNames
      /\ n \in Nat /\ published \in Seq(Publications)
      /\ \A l \in Listening : since[l] \in 0 .. n /\ ready[l] \in 0 .. n
      /\ \A q \in QueueNames : queue[q] \in Seq(Publications)
      /\ \A l \in Listening : heard[l] \in Seq(Publications) /\ buffer[l] \in Seq(Publications)
  BY CastFacts DEF TypeOK
<1>2. /\ sender[e] = "ready" /\ sender' = [sender EXCEPT ![e] = "sent"] /\ published' = Append(published, e)
      /\ queue' = [q \in QueueNames |-> IF q \in Targets(e) THEN Append(queue[q], e) ELSE queue[q]]
      /\ UNCHANGED <<cast, owner, listener, bound, connected, buffer, heard, since, ready>>
  BY DEF Publish, programVars
<1>3. /\ Append(published, e) \in Seq(Publications) /\ Len(published') = n + 1 /\ published'[n + 1] = e
      /\ \A i \in 1 .. n : published'[i] = published[i]
  BY <1>1, <1>2, AppendProperties
<1>4. /\ Listening' = Listening /\ Lasting' = Lasting /\ Sending' = Sending
      /\ \A k : /\ QueueOf(k)' = QueueOf(k) /\ (Declares(k)' <=> Declares(k))
               /\ (OneShot(k)' <=> OneShot(k)) /\ TopicsOf(k)' = TopicsOf(k)
      /\ \A x : (Direct(x)' <=> Direct(x)) /\ Event(x)' = Event(x)
      /\ \A k, x : MeantFor(k, x)' <=> MeantFor(k, x)
  BY <1>2, CastStays
<1>5. \A q \in QueueNames :
        /\ queue'[q] \in Seq(Publications)
        /\ ToSet(queue'[q]) = ToSet(queue[q]) \cup (IF q \in Targets(e) THEN {e} ELSE {})
  <2> SUFFICES ASSUME NEW q \in QueueNames
               PROVE  /\ queue'[q] \in Seq(Publications)
                      /\ ToSet(queue'[q]) = ToSet(queue[q]) \cup (IF q \in Targets(e) THEN {e} ELSE {})
    OBVIOUS
  <2>1. CASE q \in Targets(e)
    BY <1>1, <1>2, <2>1, Ends
  <2>2. CASE q \notin Targets(e)
    BY <1>1, <1>2, <2>2
  <2> QED
    BY <2>1, <2>2
<1>6. TypeOK'
  <2>1. queue' \in [QueueNames -> Seq(Publications)]
    BY <1>2, <1>5
  <2>2. sender' \in [Publications -> {"ready", "sent", "failed"}]
    BY <1>2 DEF TypeOK
  <2>3. since' \in [Listeners -> 0 .. Len(published')] /\ ready' \in [Listeners -> 0 .. Len(published')]
    BY <1>1, <1>2, <1>3 DEF TypeOK
  <2> QED
    BY <1>2, <1>3, <1>4, <2>1, <2>2, <2>3 DEF TypeOK
<1>7. /\ Pos' = [Pos EXCEPT ![e] = n + 1] /\ Pos \in [Publications -> 0 .. n] /\ Pos[e] = 0
  <2>1. Pos[e] = 0
    <3>1. Pos[e] \in 0 .. n /\ (Pos[e] > 0 => Pos[e] \in 1 .. n /\ published[Pos[e]] = e)
      BY <1>1, PosFacts
    <3>2. Pos[e] > 0 => sender[e] = "sent"
      BY <3>1 DEF HistInv
    <3> QED
      BY <1>1, <1>2, <3>1, <3>2
  <2> QED
    BY <1>1, <1>2, <1>6, <2>1, PublishPos, PosFacts
<1>8. /\ Pos'[e] = n + 1 /\ Pos' \in [Publications -> Nat]
      /\ \A x \in Publications : Pos[x] \in 0 .. n
      /\ \A x \in Publications : x # e => Pos'[x] = Pos[x]
  BY <1>1, <1>7
<1>9. /\ \A x \in Publications : Pos[x] > 0 => Pos'[x] = Pos[x] /\ Pos'[x] < Pos'[e] /\ x # e
      /\ \A q \in QueueNames : \A x \in ToSet(queue[q]) : x \in Publications /\ Pos[x] > 0
      /\ \A l \in Listening : \A x \in ToSet(heard[l]) \cup ToSet(buffer[l]) : x \in Publications /\ Pos[x] > 0
  <2>1. \A x \in Publications : Pos[x] > 0 => Pos'[x] = Pos[x] /\ Pos'[x] < Pos'[e] /\ x # e
    BY <1>1, <1>7, <1>8
  <2>2. \A q \in QueueNames : \A x \in ToSet(queue[q]) : x \in Publications /\ Pos[x] > 0
    BY <1>1, Ends DEF LineInv, Known
  <2>3. \A l \in Listening : \A x \in ToSet(heard[l]) \cup ToSet(buffer[l]) : x \in Publications /\ Pos[x] > 0
    BY <1>1, Ends DEF LineInv, Known
  <2> QED
    BY <2>1, <2>2, <2>3
<1>10. HistInv'
  <2> SUFFICES ASSUME NEW i \in 1 .. n + 1 PROVE Pos'[published'[i]] = i /\ sender'[published'[i]] = "sent"
    BY <1>3 DEF HistInv
  <2>1. CASE i = n + 1
    BY <1>1, <1>2, <1>3, <1>8, <2>1 DEF TypeOK
  <2>2. CASE i # n + 1
    <3>1. i \in 1 .. n /\ published'[i] = published[i] /\ published[i] \in Publications
      BY <1>1, <1>3, <2>2
    <3>2. Pos[published[i]] = i /\ sender[published[i]] = "sent"
      BY <3>1 DEF HistInv
    <3> QED
      BY <1>1, <1>2, <1>9, <3>1, <3>2 DEF TypeOK
  <2> QED
    BY <2>1, <2>2
<1>11. OwnInv'
  <2>1. \A q \in QueueNames : owner[q] = Nobody => queue'[q] = queue[q]
    BY <1>2, TargetsDue
  <2> QED
    BY <1>2, <1>4, <2>1 DEF OwnInv, Idle
<1>12. LineInv'
  <2>1. ASSUME NEW q \in QueueNames PROVE Rising(queue'[q], Pos') /\ Known(ToSet(queue'[q]), Pos')
    <3>1. Rising(queue[q], Pos')
      BY <1>1, <1>9, RisingSame DEF LineInv
    <3>2. Before(ToSet(queue[q]), {e}, Pos')
      BY <1>9 DEF Before
    <3>3. Rising(Append(queue[q], e), Pos')
      BY <1>1, <1>8, <3>1, <3>2, RisingEnds
    <3>4. Known(ToSet(queue'[q]), Pos')
      <4>1. \A x \in ToSet(queue[q]) : Pos'[x] = Pos[x] /\ Pos[x] > 0
        BY <1>9
      <4>2. \A x \in ToSet(queue'[q]) : x \in ToSet(queue[q]) \/ x = e
        BY <1>5
      <4>3. Pos'[e] > 0
        BY <1>1, <1>8
      <4>4. \A x \in ToSet(queue'[q]) : Pos'[x] > 0
        BY <4>1, <4>2, <4>3
      <4> QED
        BY <4>4 DEF Known
    <3> QED
      BY <1>2, <3>1, <3>3, <3>4
  <2>2. ASSUME NEW l \in Listening
        PROVE  /\ Rising(heard[l], Pos') /\ Rising(buffer[l], Pos')
               /\ Before(ToSet(heard[l]), ToSet(buffer[l]), Pos')
               /\ Before(ToSet(heard[l]) \cup ToSet(buffer[l]), ToSet(queue'[QueueOf(l)]), Pos')
               /\ Known(ToSet(heard[l]) \cup ToSet(buffer[l]), Pos')
    <3> DEFINE H == ToSet(heard[l])
               B == ToSet(buffer[l])
               Q == ToSet(queue[QueueOf(l)])
    <3>q. QueueOf(l) \in QueueNames /\ heard[l] \in Seq(Publications) /\ buffer[l] \in Seq(Publications)
      BY <1>1, CastFacts DEF TypeOK
    <3>a. \A x \in H \cup B : x \in Publications /\ Pos'[x] = Pos[x] /\ Pos'[x] < Pos'[e]
      BY <1>9
    <3>b. \A x \in Q : Pos'[x] = Pos[x]
      BY <1>9, <3>q
    <3>c. /\ Rising(heard[l], Pos) /\ Rising(buffer[l], Pos)
          /\ Before(H, B, Pos) /\ Before(H \cup B, Q, Pos)
      BY DEF LineInv
    <3>1. Rising(heard[l], Pos') /\ Rising(buffer[l], Pos')
      <4>1. /\ \A x \in ToSet(heard[l]) : Pos'[x] = Pos[x]
            /\ \A x \in ToSet(buffer[l]) : Pos'[x] = Pos[x]
        BY <3>a
      <4> HIDE DEF H, B, Q
      <4>2. Rising(heard[l], Pos')
        BY <3>q, <3>c, <4>1, RisingSame
      <4>3. Rising(buffer[l], Pos')
        BY <3>q, <3>c, <4>1, RisingSame
      <4> QED
        BY <4>2, <4>3
    <3>2. Before(H, B, Pos')
      BY <3>a, <3>c, OrderSame
    <3>3. Before(H \cup B, ToSet(queue'[QueueOf(l)]), Pos')
      <4>1. Before(H \cup B, Q, Pos')
        BY <3>a, <3>b, <3>c, OrderSame
      <4>2. \A y \in ToSet(queue'[QueueOf(l)]) : y \in Q \/ y = e
        BY <1>5, <3>q
      <4> HIDE DEF H, B, Q
      <4> QED
        BY <3>a, <4>1, <4>2 DEF Before
    <3>4. Known(ToSet(heard[l]) \cup ToSet(buffer[l]), Pos')
      BY <1>9 DEF Known
    <3> QED
      BY <3>1, <3>2, <3>3, <3>4
  <2> QED
    BY <1>2, <1>4, <2>1, <2>2 DEF LineInv
<1>13. DueInv'
  <2>1. \A l \in Listening : Got(l)' = Got(l)
    BY <1>2 DEF Got
  <2>2. \A l \in Listening : \A x \in Publications : Pos[x] > 0 => (Due(l, x)' <=> Due(l, x))
    BY <1>2, <1>4, <1>9 DEF Due
  <2>3. \A l \in Listening : \A x \in Got(l) : Due(l, x)'
    BY <1>9, <2>2 DEF DueInv, Got
  <2>4. \A l \in Listening : MeantFor(l, e) => Due(l, e)'
    BY <1>1, <1>2, <1>4, <1>8 DEF Due
  <2>5. \A q \in QueueNames : \A x \in ToSet(queue'[q]) :
          /\ \A k \in Listening : owner[q] = k => Due(k, x)'
          /\ q \in Lasting => Direct(x) /\ Event(x).queue = q
    <3> SUFFICES ASSUME NEW q \in QueueNames, NEW x \in ToSet(queue'[q])
                 PROVE  /\ \A k \in Listening : owner[q] = k => Due(k, x)'
                        /\ q \in Lasting => Direct(x) /\ Event(x).queue = q
      OBVIOUS
    <3>1. CASE x \in ToSet(queue[q])
      BY <1>9, <2>2, <3>1 DEF DueInv
    <3>2. CASE x = e /\ q \in Targets(e)
      BY <2>4, <3>2, TargetsDue
    <3> QED
      BY <1>5, <3>1, <3>2
  <2> QED
    BY <1>2, <1>4, <2>1, <2>3, <2>5 DEF DueInv
<1>14. MissInv'
  <2> SUFFICES ASSUME NEW l \in Listening PROVE MissesNone(l)'
    BY <1>4 DEF MissInv
  <2>1. MissesNone(l)
    BY DEF MissInv
  <2>2. ASSUME NEW x \in Sending, Awaited(l, x)'
        PROVE  /\ Waiting(l) => x \in Got(l) \cup ToSet(queue'[QueueOf(l)])
               /\ ~Idle(l) /\ ~connected[l] /\ buffer[l] # << >> => Pos'[Head(buffer[l])] <= Pos'[x]
               /\ listener[l] = "ended" => Pos'[Head(heard[l])] <= Pos'[x]
    <3>0. x \in Publications
      BY <1>1
    <3>1. \A q \in Seq(Publications) : q # << >> => Head(q) \in ToSet(q)
      BY AtFront
    <3>2. /\ buffer[l] # << >> => Head(buffer[l]) \in Publications /\ Pos[Head(buffer[l])] > 0
          /\ heard[l] # << >> => Head(heard[l]) \in Publications /\ Pos[Head(heard[l])] > 0
      BY <1>1, <1>9, <3>1
    <3>3. CASE x = e
      <4>1. Declares(l) /\ MeantFor(l, e)
        BY <1>4, <2>2, <3>3 DEF Awaited
      <4>2. Waiting(l) => QueueOf(l) \in Targets(e)
        BY <4>1, TargetsDue
      <4>3. \A y \in Publications : Pos[y] > 0 => Pos'[y] <= Pos'[e]
        BY <1>8, <1>9
      <4> QED
        BY <1>1, <1>5, <2>1, <3>2, <3>3, <4>2, <4>3 DEF MissesNone
    <3>4. CASE x # e
      <4>1. Awaited(l, x)
        BY <1>2, <1>4, <1>8, <2>2, <3>0, <3>4 DEF Awaited
      <4>2. Pos'[x] = Pos[x]
        BY <1>8, <3>0, <3>4
      <4>3. \A y \in Publications : Pos[y] > 0 => Pos'[y] = Pos[y]
        BY <1>9
      <4> QED
        BY <1>1, <1>5, <2>1, <3>2, <4>1, <4>2, <4>3 DEF MissesNone
    <3> QED
      BY <3>3, <3>4
  <2>3. (Waiting(l)' <=> Waiting(l)) /\ (Idle(l)' <=> Idle(l)) /\ Got(l)' = Got(l)
    BY <1>2 DEF Waiting, Idle, Got
  <2> QED
    BY <1>2, <1>4, <2>1, <2>2, <2>3 DEF MissesNone
<1> QED
  BY <1>6, <1>10, <1>11, <1>12, <1>13, <1>14

\* What has no effect on the queues and the listeners has none on the invariant.
LEMMA QuietStep ==
  ASSUME IInv, UNCHANGED <<cast, owner, queue, programVars, published>>,
         sender' \in [Publications -> {"ready", "sent", "failed"}],
         \A e \in Publications : sender[e] = "sent" => sender'[e] = "sent"
  PROVE  IInv'
<1> USE DEF IInv, programVars
<1>1. TypeOK'
  BY CastStays DEF TypeOK
<1>2. HistInv'
  <2>1. \A i \in 1 .. Len(published) : published[i] \in Publications
    BY DEF TypeOK
  <2> QED
    BY <2>1, PosStays DEF HistInv
<1>3. OwnInv'
  BY CastStays DEF OwnInv, Idle
<1>4. LineInv' /\ DueInv'
  BY FadesInOrder DEF Fades
<1>5. MissInv'
  BY MissesElsewhere, CastStays DEF MissInv
<1> QED
  BY <1>1, <1>2, <1>3, <1>4, <1>5

LEMMA PublishFailsStep == ASSUME IInv, NEW e \in Sending, PublishFails(e) PROVE IInv'
<1>1. e \in Publications /\ sender \in [Publications -> {"ready", "sent", "failed"}]
  BY CastFacts DEF IInv, TypeOK
<1>2. sender[e] = "ready" /\ sender' = [sender EXCEPT ![e] = "failed"]
      /\ UNCHANGED <<cast, owner, queue, programVars, published>>
  BY DEF PublishFails
<1> QED
  BY <1>1, <1>2, QuietStep

-----------------------------------------------------------------------------
LEMMA NextIInv == IInv /\ [Next]_vars => IInv'
<1> SUFFICES ASSUME IInv, [Next]_vars PROVE IInv'
  OBVIOUS
<1>1. CASE UNCHANGED vars
  BY <1>1, QuietStep DEF vars, programVars, IInv, TypeOK
<1>2. ASSUME NEW l \in Listening,
             \/ Declare(l) \/ NameTaken(l) \/ Bind(l) \/ BindFails(l) \/ Consume(l)
             \/ ConsumeLasting(l) \/ Hear(l) \/ Interrupt(l) \/ Cut(l)
      PROVE  IInv'
  BY <1>2, DeclareStep, NameTakenStep, BindStep, BindFailsStep, ConsumeStep, ConsumeLastingStep,
     DeliverStep, HearAllStep, HearFirstStep, InterruptStep, CutStep DEF Hear
<1>3. ASSUME NEW e \in Sending, Publish(e) \/ PublishFails(e) PROVE IInv'
  BY <1>3, PublishStep, PublishFailsStep
<1> QED
  BY <1>1, <1>2, <1>3 DEF Next

LEMMA Invariance == Spec => []IInv
  BY InitIInv, NextIInv, PTL DEF Spec

\* Every variable keeps its type, in every cast.
THEOREM TypeCorrect == Spec => []TypeOK
<1>1. IInv => TypeOK
  BY DEF IInv
<1> QED
  BY <1>1, Invariance, PTL

\* What a listener hears was meant for it, published while it had its queue, and comes
\* in the order of publication; no two listeners of one queue hear the same.
THEOREM OnlyTheDueIsHeard == Spec => []HeardWasDue
<1>1. ASSUME IInv PROVE HeardWasDue
  <2> SUFFICES ASSUME NEW l \in Listening
               PROVE  /\ \A i \in DOMAIN heard[l] :
                           /\ MeantFor(l, heard[l][i])
                           /\ Declares(l) => When(heard[l][i]) > since[l]
                           /\ \A j \in 1 .. i - 1 : When(heard[l][j]) < When(heard[l][i])
                      /\ \A k \in Listening \ {l} :
                           QueueOf(k) = QueueOf(l) => ToSet(heard[k]) \cap ToSet(heard[l]) = {}
    BY DEF HeardWasDue
  <2>1. heard[l] \in Seq(Publications) /\ DOMAIN heard[l] = 1 .. Len(heard[l]) /\ Len(heard[l]) \in Nat
    BY <1>1, CastFacts DEF IInv, TypeOK
  <2>2. \A i \in DOMAIN heard[l] : heard[l][i] \in Publications /\ heard[l][i] \in Got(l)
    BY <2>1 DEF Got, ToSet
  <2>3. \A e \in Publications : Pos[e] = When(e)
    BY <1>1, PosFacts DEF IInv
  <2>4. \A i \in DOMAIN heard[l] : Due(l, heard[l][i])
    BY <1>1, <2>2 DEF IInv, DueInv
  <2>5. Rising(heard[l], Pos)
    BY <1>1 DEF IInv, LineInv
  <2>6. ASSUME NEW i \in DOMAIN heard[l], NEW j \in 1 .. i - 1 PROVE Pos[heard[l][j]] < Pos[heard[l][i]]
    <3>1. i \in 1 .. Len(heard[l]) /\ j \in 1 .. Len(heard[l]) /\ j < i
      BY <2>1
    <3> QED
      BY <2>5, <3>1 DEF Rising
  <2>7. \A i \in DOMAIN heard[l] : \A j \in 1 .. i - 1 : j \in DOMAIN heard[l]
    BY <2>1
  <2>8. \A i \in DOMAIN heard[l] : \A j \in 1 .. i - 1 : When(heard[l][j]) < When(heard[l][i])
    BY <2>2, <2>3, <2>6, <2>7
  <2>9. ASSUME NEW k \in Listening \ {l}, QueueOf(k) = QueueOf(l)
        PROVE  ToSet(heard[k]) \cap ToSet(heard[l]) = {}
    <3>1. Got(k) \cap Got(l) = {}
      BY <1>1, <2>9 DEF IInv, DueInv
    <3> QED
      BY <3>1 DEF Got
  <2> QED
    BY <2>2, <2>3, <2>4, <2>8, <2>9 DEF Due
<1> QED
  BY <1>1, Invariance, PTL

\* What is in one sequence after another.
LEMMA Concatenated ==
  ASSUME NEW a \in Seq(Publications), NEW b \in Seq(Publications)
  PROVE  a \o b \in Seq(Publications) /\ ToSet(a \o b) = ToSet(a) \cup ToSet(b)
<1>1. a \o b \in Seq(Publications)
  BY ConcatProperties
<1>2. /\ Len(a \o b) = Len(a) + Len(b) /\ Len(a) \in Nat /\ Len(b) \in Nat
      /\ \A i \in 1 .. Len(a) + Len(b) : (a \o b)[i] = IF i <= Len(a) THEN a[i] ELSE b[i - Len(a)]
  BY ConcatProperties, LenProperties
<1>3. DOMAIN a = 1 .. Len(a) /\ DOMAIN b = 1 .. Len(b) /\ DOMAIN (a \o b) = 1 .. Len(a) + Len(b)
  BY <1>1, <1>2, LenProperties
<1>4. ASSUME NEW x \in ToSet(a \o b) PROVE x \in ToSet(a) \cup ToSet(b)
  <2>1. PICK i \in 1 .. Len(a) + Len(b) : (a \o b)[i] = x
    BY <1>3, <1>4 DEF ToSet
  <2>2. CASE i <= Len(a)
    BY <1>2, <1>3, <2>1, <2>2 DEF ToSet
  <2>3. CASE ~(i <= Len(a))
    <3>1. i - Len(a) \in 1 .. Len(b) /\ b[i - Len(a)] = x
      BY <1>2, <2>1, <2>3
    <3> QED
      BY <1>3, <3>1 DEF ToSet
  <2> QED
    BY <2>2, <2>3
<1>5. ASSUME NEW x \in ToSet(a) PROVE x \in ToSet(a \o b)
  <2>1. PICK i \in 1 .. Len(a) : a[i] = x
    BY <1>3, <1>5 DEF ToSet
  <2>2. i \in 1 .. Len(a) + Len(b) /\ (a \o b)[i] = x
    BY <1>2, <2>1
  <2> QED
    BY <1>3, <2>2 DEF ToSet
<1>6. ASSUME NEW x \in ToSet(b) PROVE x \in ToSet(a \o b)
  <2>1. PICK i \in 1 .. Len(b) : b[i] = x
    BY <1>3, <1>6 DEF ToSet
  <2>2. i + Len(a) \in 1 .. Len(a) + Len(b) /\ (a \o b)[i + Len(a)] = x
    BY <1>2, <2>1
  <2> QED
    BY <1>3, <2>2 DEF ToSet
<1> QED
  BY <1>1, <1>4, <1>5, <1>6

\* An event meant for a listener that waits is in its queue, on its way or heard; one
\* that has ended has heard the first.
THEOREM NothingIsMissed == Spec => []NothingMissed
<1>1. ASSUME IInv PROVE NothingMissed
  <2> SUFFICES ASSUME NEW l \in Listening, NEW e \in Sending,
                      Declares(l), MeantFor(l, e), When(e) > ready[l]
               PROVE  /\ Waiting(l) => e \in ToSet(queue[QueueOf(l)] \o buffer[l] \o heard[l])
                      /\ listener[l] = "ended" => When(Head(heard[l])) <= When(e)
    BY DEF NothingMissed
  <2>1. /\ e \in Publications /\ queue[QueueOf(l)] \in Seq(Publications)
        /\ buffer[l] \in Seq(Publications) /\ heard[l] \in Seq(Publications)
    BY <1>1, CastFacts DEF IInv, TypeOK
  <2>2. \A x \in Publications : Pos[x] = When(x)
    BY <1>1, PosFacts DEF IInv
  <2>3. Awaited(l, e)
    BY <2>1, <2>2 DEF Awaited
  <2>4. ToSet(queue[QueueOf(l)] \o buffer[l] \o heard[l]) = Got(l) \cup ToSet(queue[QueueOf(l)])
    <3>1. /\ queue[QueueOf(l)] \o buffer[l] \in Seq(Publications)
          /\ ToSet(queue[QueueOf(l)] \o buffer[l]) = ToSet(queue[QueueOf(l)]) \cup ToSet(buffer[l])
      BY <2>1, Concatenated
    <3>2. ToSet((queue[QueueOf(l)] \o buffer[l]) \o heard[l])
            = ToSet(queue[QueueOf(l)] \o buffer[l]) \cup ToSet(heard[l])
      BY <2>1, <3>1, Concatenated
    <3> QED
      BY <3>1, <3>2 DEF Got
  <2>5. ASSUME listener[l] = "ended" PROVE When(Head(heard[l])) <= When(e)
    <3>1. heard[l] # << >> /\ Pos[Head(heard[l])] <= Pos[e]
      BY <1>1, <2>3, <2>5 DEF IInv, MissInv, MissesNone
    <3>2. Head(heard[l]) \in Publications
      BY <2>1, <3>1, AtFront
    <3> QED
      BY <2>1, <2>2, <3>1, <3>2
  <2> QED
    BY <1>1, <2>3, <2>4, <2>5 DEF IInv, MissInv, MissesNone
<1> QED
  BY <1>1, Invariance, PTL
=============================================================================
