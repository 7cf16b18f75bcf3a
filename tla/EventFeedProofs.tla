-------------------------- MODULE EventFeedProofs --------------------------
(***************************************************************************)
(* Proofs about EventFeed for every number of pages, connections, verdicts *)
(* and restarts.                                                           *)
(***************************************************************************)
EXTENDS EventFeed, TLAPS

-----------------------------------------------------------------------------
(* What Append and Tail do to an index.                                     *)
LEMMA AppendFacts ==
  ASSUME NEW S, NEW s \in Seq(S), NEW x \in S
  PROVE  /\ Append(s, x) \in Seq(S) /\ Len(s) \in Nat
         /\ DOMAIN s = 1..Len(s) /\ DOMAIN Append(s, x) = 1..(Len(s) + 1)
         /\ \A i \in 1..Len(s) : Append(s, x)[i] = s[i]
         /\ Append(s, x)[Len(s) + 1] = x
OBVIOUS

LEMMA TailFacts ==
  ASSUME NEW S, NEW s \in Seq(S), s # <<>>
  PROVE  /\ Tail(s) \in Seq(S) /\ Len(s) \in Nat \ {0} /\ Head(s) = s[1]
         /\ DOMAIN s = 1..Len(s) /\ DOMAIN Tail(s) = 1..(Len(s) - 1)
         /\ \A i \in 1..(Len(s) - 1) : Tail(s)[i] = s[i + 1]
OBVIOUS

LEMMA WiderSeq ==
  ASSUME NEW S, NEW T, S \subseteq T, NEW s \in Seq(S)
  PROVE  s \in Seq(T)
OBVIOUS

-----------------------------------------------------------------------------
(* Type correctness.                                                        *)
LEMMA TypeInit == FeedInit => FeedTypeOK
BY BoundAssumption DEF FeedInit, FeedTypeOK, Ids

(* The ids there are only become more.                                      *)
LEMMA MoreIds ==
  ASSUME FeedTypeOK, NEW row \in {"server", "run"}, events' = Append(events, row)
  PROVE  /\ events' \in Seq({"server", "run"})
         /\ Len(events') = Len(events) + 1 /\ Len(events) \in Nat
         /\ \A e \in Ids : e \in Ids' /\ events'[e] = events[e]
         /\ Len(events) + 1 \in Ids' /\ events'[Len(events) + 1] = row
         /\ \A s \in Seq(Ids) : s \in Seq(Ids')
         /\ \A n \in 0..Len(events) : n \in 0..Len(events')
         /\ Ids \subseteq Ids'
<1>1. /\ events' \in Seq({"server", "run"}) /\ Len(events) \in Nat
      /\ Len(events') = Len(events) + 1
      /\ \A e \in 1..Len(events) : events'[e] = events[e]
      /\ events'[Len(events) + 1] = row
  BY AppendFacts DEF FeedTypeOK
<1>2. Ids \subseteq Ids'
  BY <1>1 DEF Ids
<1> QED
  BY <1>1, <1>2, WiderSeq DEF Ids

LEMMA TypeStep == FeedTypeOK /\ [FeedNext]_feedVars => FeedTypeOK'
<1> SUFFICES ASSUME FeedTypeOK, [FeedNext]_feedVars PROVE FeedTypeOK'
  OBVIOUS
<1>n. Len(events) \in Nat
  BY DEF FeedTypeOK
<1>1. ASSUME ServerEmit PROVE FeedTypeOK'
  <2>1. events' = Append(events, "server") /\ pushing' = Len(events) + 1
    BY <1>1 DEF ServerEmit
  <2>2. /\ queue' = queue /\ subscribers' = subscribers /\ stream' = stream
        /\ history' = history /\ answer' = answer /\ shown' = shown
        /\ joined' = joined /\ overwritten' = overwritten
        /\ serverRestarts' = serverRestarts
    BY <1>1 DEF ServerEmit, page
  <2> QED
    BY <2>1, <2>2, MoreIds DEF FeedTypeOK
<1>2. ASSUME RunEmit PROVE FeedTypeOK'
  <2>1. events' = Append(events, "run") /\ pushing' = pushing
    BY <1>2 DEF RunEmit
  <2>2. /\ queue' = queue /\ subscribers' = subscribers /\ stream' = stream
        /\ history' = history /\ answer' = answer /\ shown' = shown
        /\ joined' = joined /\ overwritten' = overwritten
        /\ serverRestarts' = serverRestarts
    BY <1>2 DEF RunEmit, page
  <2> QED
    BY <2>1, <2>2, MoreIds DEF FeedTypeOK
<1>3. ASSUME Push PROVE FeedTypeOK'
  <2>1. pushing \in Ids
    BY <1>3 DEF Push, FeedTypeOK
  <2>2. \A c \in Connections : Append(queue[c], pushing) \in Seq(Ids)
    BY <2>1, AppendFacts DEF FeedTypeOK
  <2> QED
    BY <1>3, <2>2 DEF Push, FeedTypeOK, page, Ids
<1>4. ASSUME NEW d \in Dashboards, NEW c \in Connections, Subscribe(d, c) PROVE FeedTypeOK'
  BY <1>4, <1>n DEF Subscribe, FeedTypeOK, Ids
<1>5. ASSUME NEW c \in Connections, Unsubscribe(c) PROVE FeedTypeOK'
  BY <1>5 DEF Unsubscribe, FeedTypeOK, page, Ids
<1>6. ASSUME NEW d \in Dashboards, AnswerHistory(d) PROVE FeedTypeOK'
  BY <1>6, <1>n DEF AnswerHistory, FeedTypeOK, Ids
<1>7. ASSUME NEW d \in Dashboards, Deliver(d) PROVE FeedTypeOK'
  <2>1. stream[d] \in Connections /\ queue[stream[d]] # <<>>
    BY <1>7 DEF Deliver, FeedTypeOK
  <2>2. queue[stream[d]] \in Seq(Ids)
    BY <2>1 DEF FeedTypeOK
  <2>3. Tail(queue[stream[d]]) \in Seq(Ids) /\ Head(queue[stream[d]]) \in Ids
    BY <2>1, <2>2
  <2>4. Append(shown[d], Head(queue[stream[d]])) \in Seq(Ids)
    BY <2>3, AppendFacts DEF FeedTypeOK
  <2>5. queue' \in [Connections -> Seq(Ids)] /\ shown' \in [Dashboards -> Seq(Ids)]
    BY <1>7, <2>3, <2>4 DEF Deliver, FeedTypeOK
  <2> QED
    BY <1>7, <2>5 DEF Deliver, FeedTypeOK, Ids
<1>8. ASSUME NEW d \in Dashboards, ShowHistory(d) PROVE FeedTypeOK'
  <2>1. answer[d] \in Nat /\ 1..answer[d] \subseteq Ids
    BY <1>n DEF FeedTypeOK, Ids
  <2>2. [i \in 1..answer[d] |-> i] \in Seq(Ids)
    BY <2>1
  <2>3. Shows(d) \subseteq Ids
    <3>1. shown[d] \in Seq(Ids)
      BY DEF FeedTypeOK
    <3> QED
      BY <3>1 DEF Shows
  <2> QED
    BY <1>8, <1>n, <2>2, <2>3 DEF ShowHistory, FeedTypeOK, Ids
<1>9. ASSUME NEW d \in Dashboards, LoseHistory(d) PROVE FeedTypeOK'
  BY <1>9, <1>n DEF LoseHistory, FeedTypeOK, Ids
<1>10. ASSUME NEW d \in Dashboards, Break(d) PROVE FeedTypeOK'
  BY <1>10 DEF Break, FeedTypeOK, Ids
<1>11. ASSUME NEW d \in Dashboards, Reload(d) PROVE FeedTypeOK'
  <2>1. <<>> \in Seq(Ids)
    OBVIOUS
  <2> QED
    BY <1>11, <1>n, <2>1 DEF Reload, FeedTypeOK, Ids
<1>12. ASSUME ServerRestart PROVE FeedTypeOK'
  <2>1. <<>> \in Seq(Ids)
    OBVIOUS
  <2> QED
    BY <1>12, <2>1, BoundAssumption DEF ServerRestart, FeedTypeOK, Ids
<1>13. CASE UNCHANGED feedVars
  BY <1>13 DEF feedVars, page, FeedTypeOK, Ids
<1> QED
  BY <1>1, <1>2, <1>3, <1>4, <1>5, <1>6, <1>7, <1>8, <1>9, <1>10, <1>11, <1>12, <1>13 DEF FeedNext

(* Type correctness for every value of the constants.                       *)
THEOREM TypeCorrect == FeedSpec => []FeedTypeOK
BY TypeInit, TypeStep, PTL DEF FeedSpec

-----------------------------------------------------------------------------
(* Sequences of ids: what they hold, and in what order.                     *)
Elems(s) == { s[i] : i \in DOMAIN s }
Increasing(s) == \A i, j \in DOMAIN s : i < j => s[i] < s[j]

\* What the queue q still brings to the list s is there or comes after it.
Fits(q, s) == \A x \in Elems(q) : x \in Elems(s) \/ \A e \in Elems(s) : e < x

LEMMA ElemsOfEmpty == Elems(<<>>) = {} /\ Increasing(<<>>)
BY DEF Elems, Increasing

LEMMA ElemsOfAppend ==
  ASSUME NEW s \in Seq(Nat), NEW x \in Nat
  PROVE  /\ Elems(Append(s, x)) = Elems(s) \union {x}
         /\ Increasing(s) /\ (\A e \in Elems(s) : e < x) => Increasing(Append(s, x))
<1>1. /\ Len(s) \in Nat /\ DOMAIN s = 1..Len(s)
      /\ DOMAIN Append(s, x) = 1..(Len(s) + 1)
      /\ \A i \in 1..Len(s) : Append(s, x)[i] = s[i]
      /\ Append(s, x)[Len(s) + 1] = x
  BY AppendFacts
<1>2. Elems(Append(s, x)) \subseteq Elems(s) \union {x}
  BY <1>1 DEF Elems
<1>3. \A i \in DOMAIN s : i \in DOMAIN Append(s, x) /\ Append(s, x)[i] = s[i]
  BY <1>1
<1>4. Elems(s) \subseteq Elems(Append(s, x))
  BY <1>3 DEF Elems
<1>5. Len(s) + 1 \in DOMAIN Append(s, x) /\ Append(s, x)[Len(s) + 1] = x
  BY <1>1
<1>6. x \in Elems(Append(s, x))
  BY <1>5 DEF Elems
<1>7. ASSUME Increasing(s), \A e \in Elems(s) : e < x PROVE Increasing(Append(s, x))
  <2> SUFFICES ASSUME NEW i \in DOMAIN Append(s, x), NEW j \in DOMAIN Append(s, x), i < j
               PROVE  Append(s, x)[i] < Append(s, x)[j]
    BY DEF Increasing
  <2>1. i \in DOMAIN s /\ Append(s, x)[i] = s[i] /\ s[i] \in Elems(s)
    BY <1>1 DEF Elems
  <2>2. CASE j \in DOMAIN s
    BY <1>1, <1>7, <2>1, <2>2 DEF Increasing
  <2>3. CASE j = Len(s) + 1
    BY <1>1, <1>7, <2>1, <2>3
  <2> QED
    BY <1>1, <2>2, <2>3
<1> QED
  BY <1>2, <1>4, <1>6, <1>7

LEMMA ElemsOfTail ==
  ASSUME NEW s \in Seq(Nat), s # <<>>
  PROVE  /\ Elems(s) = {Head(s)} \union Elems(Tail(s)) /\ Head(s) \in Nat
         /\ Increasing(s) => Increasing(Tail(s)) /\ \A e \in Elems(Tail(s)) : Head(s) < e
<1>1. /\ Len(s) \in Nat \ {0} /\ Head(s) = s[1] /\ Tail(s) \in Seq(Nat)
      /\ DOMAIN s = 1..Len(s) /\ DOMAIN Tail(s) = 1..(Len(s) - 1)
      /\ \A i \in 1..(Len(s) - 1) : Tail(s)[i] = s[i + 1]
  BY TailFacts
<1>2. Elems(Tail(s)) \subseteq Elems(s)
  BY <1>1 DEF Elems
<1>3. ASSUME NEW x \in Elems(s) PROVE x = Head(s) \/ x \in Elems(Tail(s))
  <2>1. PICK i \in 1..Len(s) : x = s[i]
    BY <1>1 DEF Elems
  <2>2. CASE i = 1
    BY <1>1, <2>1, <2>2
  <2>3. CASE i # 1
    <3>1. i - 1 \in DOMAIN Tail(s) /\ Tail(s)[i - 1] = s[i]
      BY <1>1, <2>3
    <3> QED
      BY <2>1, <3>1 DEF Elems
  <2> QED
    BY <2>2, <2>3
<1>4. Head(s) \in Elems(s) /\ Head(s) \in Nat
  BY <1>1 DEF Elems
<1>5. ASSUME Increasing(s)
      PROVE  Increasing(Tail(s)) /\ \A e \in Elems(Tail(s)) : Head(s) < e
  <2>1. \A i \in DOMAIN Tail(s) :
          i + 1 \in DOMAIN s /\ i \in Nat /\ Tail(s)[i] = s[i + 1]
    BY <1>1
  <2>2. \A i, j \in DOMAIN s : i < j => s[i] < s[j]
    BY <1>5 DEF Increasing
  <2>3. \A i, j \in DOMAIN Tail(s) : i < j => Tail(s)[i] < Tail(s)[j]
    BY <2>1, <2>2
  <2>4. \A i \in DOMAIN Tail(s) : s[1] < Tail(s)[i]
    BY <1>1, <2>1, <2>2
  <2> QED
    BY <1>1, <2>3, <2>4 DEF Increasing, Elems
<1> QED
  BY <1>2, <1>3, <1>4, <1>5

LEMMA ElemsOfCount ==
  ASSUME NEW n \in Nat
  PROVE  /\ Elems([i \in 1..n |-> i]) = 1..n
         /\ Increasing([i \in 1..n |-> i])
BY DEF Elems, Increasing

-----------------------------------------------------------------------------
(* The inductive invariant.  Server: a queue without a subscriber is empty; *)
(* a queue holds, in order, rows the server's log appended and has pushed.  *)
(* Connected: a page's connection has a queue, and it is its own.           *)
(* Pages: lists are in order, and so they stay whatever the queues bring.   *)
Server ==
  /\ \A c \in Connections : c \notin subscribers => queue[c] = <<>>
  /\ pushing # 0 => pushing = Len(events) /\ events[pushing] = "server"
  /\ \A c \in Connections :
       /\ Increasing(queue[c])
       /\ \A x \in Elems(queue[c]) :
            events[x] = "server" /\ (pushing # 0 => x < pushing)

Connected ==
  /\ \A d \in Dashboards : stream[d] # None => stream[d] \in subscribers
  /\ \A d, e \in Dashboards : stream[d] # None /\ stream[d] = stream[e] => d = e

Pages ==
  \A d \in Dashboards :
    Increasing(shown[d]) /\ (stream[d] # None => Fits(queue[stream[d]], shown[d]))

IInv == FeedTypeOK /\ Server /\ Connected /\ Pages /\ StreamIsLossless

(* The rows of a state of the feed are natural numbers, as are all ids.     *)
LEMMA NatSeqs ==
  ASSUME FeedTypeOK
  PROVE  /\ Ids \subseteq Nat /\ Len(events) \in Nat
         /\ \A c \in Connections : queue[c] \in Seq(Ids) /\ queue[c] \in Seq(Nat)
         /\ \A d \in Dashboards : shown[d] \in Seq(Ids) /\ shown[d] \in Seq(Nat)
         /\ \A c \in Connections : Elems(queue[c]) \subseteq Ids
         /\ \A d \in Dashboards : Elems(shown[d]) \subseteq Ids
<1>1. Ids \subseteq Nat /\ Len(events) \in Nat
  BY DEF FeedTypeOK, Ids
<1>2. ASSUME NEW s \in Seq(Ids) PROVE s \in Seq(Nat) /\ Elems(s) \subseteq Ids
  <2>1. \A i \in DOMAIN s : s[i] \in Ids
    OBVIOUS
  <2> QED
    BY <1>1, <2>1, WiderSeq DEF Elems
<1> QED
  BY <1>1, <1>2 DEF FeedTypeOK

LEMMA IInit == FeedInit => IInv
<1> SUFFICES ASSUME FeedInit PROVE IInv
  OBVIOUS
<1>1. FeedTypeOK
  BY TypeInit
<1>2. Server
  BY ElemsOfEmpty DEF FeedInit, Server
<1>3. Connected /\ Pages /\ StreamIsLossless
  BY ElemsOfEmpty DEF FeedInit, Connected, Pages, StreamIsLossless
<1> QED
  BY <1>1, <1>2, <1>3 DEF IInv

-----------------------------------------------------------------------------
(* The server's part, action by action.                                     *)
LEMMA ServerStep == IInv /\ [FeedNext]_feedVars => Server'
<1> SUFFICES ASSUME IInv, [FeedNext]_feedVars PROVE Server'
  OBVIOUS
<1> USE DEF IInv
<1>t. FeedTypeOK'
  BY TypeStep
<1>s. Server /\ FeedTypeOK
  OBVIOUS
<1>n. /\ Ids \subseteq Nat /\ Len(events) \in Nat
      /\ \A c \in Connections : Elems(queue[c]) \subseteq Ids /\ queue[c] \in Seq(Nat)
  BY NatSeqs
<1> HIDE DEF IInv
<1>1. ASSUME ServerEmit PROVE Server'
  <2>1. pushing = 0 /\ pushing' = Len(events) + 1 /\ subscribers' = subscribers
        /\ queue' = queue /\ events' = Append(events, "server")
    BY <1>1 DEF ServerEmit, LoopFree
  <2>2. /\ Len(events') = Len(events) + 1 /\ events'[Len(events) + 1] = "server"
        /\ \A e \in Ids : events'[e] = events[e]
    BY <1>s, <2>1, MoreIds
  <2>3. ASSUME NEW c \in Connections, NEW x \in Elems(queue[c])
        PROVE  events'[x] = "server" /\ x < Len(events) + 1
    <3>1. x \in Ids /\ events[x] = "server"
      BY <1>n, <1>s DEF Server
    <3> QED
      BY <1>n, <2>2, <3>1 DEF Ids
  <2> QED
    BY <1>s, <2>1, <2>2, <2>3 DEF Server
<1>2. ASSUME Push PROVE Server'
  <2>1. /\ pushing # 0 /\ pushing' = 0 /\ subscribers' = subscribers /\ events' = events
        /\ \A c \in Connections :
             queue'[c] = IF c \in subscribers THEN Append(queue[c], pushing) ELSE queue[c]
    BY <1>2 DEF Push
  <2>2. pushing \in Nat /\ events[pushing] = "server"
    BY <1>n, <1>s, <2>1 DEF Server
  <2>3. ASSUME NEW c \in Connections
        PROVE  /\ Increasing(queue'[c])
               /\ \A x \in Elems(queue'[c]) : events[x] = "server"
    <3>1. \A x \in Elems(queue[c]) : events[x] = "server" /\ x < pushing
      BY <1>s, <2>1 DEF Server
    <3>2. Increasing(queue[c]) /\ queue[c] \in Seq(Nat)
      BY <1>n, <1>s DEF Server
    <3> QED
      BY <2>1, <2>2, <3>1, <3>2, ElemsOfAppend
  <2> QED
    BY <1>s, <2>1, <2>3 DEF Server
<1>3. ASSUME RunEmit PROVE Server'
  <2>1. pushing = 0 /\ pushing' = 0 /\ subscribers' = subscribers
        /\ queue' = queue /\ events' = Append(events, "run")
    BY <1>3 DEF RunEmit, LoopFree
  <2>2. \A e \in Ids : events'[e] = events[e]
    BY <1>s, <2>1, MoreIds
  <2> QED
    BY <1>n, <1>s, <2>1, <2>2 DEF Server
<1>4. ASSUME NEW d \in Dashboards, NEW c \in Connections, Subscribe(d, c) PROVE Server'
  <2>1. events' = events /\ pushing' = pushing /\ queue' = queue
        /\ subscribers' = subscribers \union {c}
    BY <1>4 DEF Subscribe
  <2> QED
    BY <1>s, <2>1 DEF Server
<1>5. ASSUME NEW c \in Connections, Unsubscribe(c) PROVE Server'
  <2>1. events' = events /\ pushing' = pushing /\ subscribers' = subscribers \ {c}
    BY <1>5 DEF Unsubscribe
  <2>2. \A b \in Connections : queue'[b] = IF b = c THEN <<>> ELSE queue[b]
    BY <1>5, <1>s DEF Unsubscribe, FeedTypeOK
  <2> QED
    BY <1>s, <2>1, <2>2, ElemsOfEmpty DEF Server
<1>6. ASSUME NEW d \in Dashboards, Deliver(d) PROVE Server'
  <2>1. events' = events /\ pushing' = pushing /\ subscribers' = subscribers
    BY <1>6 DEF Deliver
  <2>2. stream[d] \in Connections /\ queue[stream[d]] # <<>>
    BY <1>6, <1>s DEF Deliver, FeedTypeOK
  <2>3. \A b \in Connections :
          queue'[b] = IF b = stream[d] THEN Tail(queue[b]) ELSE queue[b]
    BY <1>6, <1>s DEF Deliver, FeedTypeOK
  <2>4. stream[d] \in subscribers
    BY <1>s, <2>2 DEF Server
  <2>5. ASSUME NEW b \in Connections
        PROVE  /\ Increasing(queue'[b]) /\ Elems(queue'[b]) \subseteq Elems(queue[b])
               /\ b \notin subscribers => queue'[b] = <<>>
    <3>1. Increasing(queue[b]) /\ queue[b] \in Seq(Nat)
      BY <1>n, <1>s DEF Server
    <3>2. CASE b = stream[d]
      BY <2>2, <2>3, <2>4, <3>1, <3>2, ElemsOfTail
    <3>3. CASE b # stream[d]
      BY <1>s, <2>3, <3>1, <3>3 DEF Server
    <3> QED
      BY <3>2, <3>3
  <2> QED
    BY <1>s, <2>1, <2>5 DEF Server
<1>7. ASSUME UNCHANGED <<events, pushing, subscribers, queue>> PROVE Server'
  BY <1>s, <1>7 DEF Server
<1>8. ASSUME ServerRestart PROVE Server'
  <2>1. events' = events /\ pushing' = 0
        /\ \A c \in Connections : queue'[c] = <<>>
    BY <1>8 DEF ServerRestart
  <2> QED
    BY <2>1, ElemsOfEmpty DEF Server
<1>9. ASSUME NEW d \in Dashboards,
             AnswerHistory(d) \/ ShowHistory(d) \/ LoseHistory(d) \/ Break(d) \/ Reload(d)
      PROVE  UNCHANGED <<events, pushing, subscribers, queue>>
  BY <1>9 DEF AnswerHistory, ShowHistory, LoseHistory, Break, Reload
<1>10. CASE UNCHANGED feedVars
  BY <1>7, <1>10 DEF feedVars
<1> QED
  BY <1>1, <1>2, <1>3, <1>4, <1>5, <1>6, <1>7, <1>8, <1>9, <1>10 DEF FeedNext

-----------------------------------------------------------------------------
(* Whose connection is whose.                                               *)
LEMMA ConnectedStep == IInv /\ [FeedNext]_feedVars => Connected'
<1> SUFFICES ASSUME IInv, [FeedNext]_feedVars PROVE Connected'
  OBVIOUS
<1>s. Connected /\ FeedTypeOK
  BY DEF IInv
<1>1. ASSUME NEW d \in Dashboards, NEW c \in Connections, Subscribe(d, c)
      PROVE  Connected'
  <2>1. c \notin subscribers /\ subscribers' = subscribers \union {c}
    BY <1>1 DEF Subscribe
  <2>2. \A e \in Dashboards : stream'[e] = IF e = d THEN c ELSE stream[e]
    BY <1>1, <1>s DEF Subscribe, FeedTypeOK
  <2>3. \A e \in Dashboards : stream[e] # c
    BY <1>s, <2>1, NoneAssumption DEF Connected
  <2> QED
    BY <1>s, <2>1, <2>2, <2>3 DEF Connected
<1>2. ASSUME NEW c \in Connections, Unsubscribe(c) PROVE Connected'
  BY <1>2, <1>s DEF Unsubscribe, page, Connected
<1>3. ASSUME NEW d \in Dashboards, Break(d) \/ Reload(d) PROVE Connected'
  <2>1. subscribers' = subscribers
        /\ \A e \in Dashboards : stream'[e] = IF e = d THEN None ELSE stream[e]
    BY <1>3, <1>s DEF Break, Reload, FeedTypeOK
  <2> QED
    BY <1>s, <2>1 DEF Connected
<1>4. ASSUME ServerRestart PROVE Connected'
  BY <1>4 DEF ServerRestart, Connected
<1>5. ASSUME UNCHANGED <<subscribers, stream>> PROVE Connected'
  BY <1>5, <1>s DEF Connected
<1>6. ASSUME ServerEmit \/ Push \/ RunEmit \/ UNCHANGED feedVars
      PROVE  UNCHANGED <<subscribers, stream>>
  BY <1>6 DEF ServerEmit, Push, RunEmit, feedVars, page
<1>7. ASSUME NEW d \in Dashboards,
             AnswerHistory(d) \/ Deliver(d) \/ ShowHistory(d) \/ LoseHistory(d)
      PROVE  UNCHANGED <<subscribers, stream>>
  BY <1>7 DEF AnswerHistory, Deliver, ShowHistory, LoseHistory
<1> QED
  BY <1>1, <1>2, <1>3, <1>4, <1>5, <1>6, <1>7 DEF FeedNext

-----------------------------------------------------------------------------
(* What a delivery does to one queue and one list.                          *)
LEMMA DeliverFits ==
  ASSUME NEW q \in Seq(Nat), NEW s \in Seq(Nat), q # <<>>,
         Increasing(q), Increasing(s), Fits(q, s), Head(q) \notin Elems(s)
  PROVE  /\ Increasing(Append(s, Head(q)))
         /\ Fits(Tail(q), Append(s, Head(q)))
<1>1. /\ Elems(q) = {Head(q)} \union Elems(Tail(q)) /\ Head(q) \in Nat
      /\ \A e \in Elems(Tail(q)) : Head(q) < e
  BY ElemsOfTail
<1>2. \A e \in Elems(s) : e < Head(q)
  BY <1>1 DEF Fits
<1>3. Elems(Append(s, Head(q))) = Elems(s) \union {Head(q)}
      /\ Increasing(Append(s, Head(q)))
  BY <1>1, <1>2, ElemsOfAppend
<1>4. \A x \in Elems(Tail(q)) : x \in Elems(s) \/ \A e \in Elems(s) : e < x
  BY <1>1 DEF Fits
<1> QED
  BY <1>1, <1>3, <1>4 DEF Fits

LEMMA DeliverSame ==
  ASSUME NEW q \in Seq(Nat), NEW s \in Seq(Nat), q # <<>>, Fits(q, s)
  PROVE  Fits(Tail(q), s)
BY ElemsOfTail DEF Fits

(* The pages' part: lists stay in order.                                    *)
LEMMA PagesStep == IInv /\ [FeedNext]_feedVars => Pages'
<1> SUFFICES ASSUME IInv, [FeedNext]_feedVars PROVE Pages'
  OBVIOUS
<1>s. FeedTypeOK /\ Server /\ Connected /\ Pages
  BY DEF IInv
<1>n. /\ Ids \subseteq Nat /\ Len(events) \in Nat
      /\ \A c \in Connections : Elems(queue[c]) \subseteq Ids /\ queue[c] \in Seq(Nat)
      /\ \A d \in Dashboards : Elems(shown[d]) \subseteq Ids /\ shown[d] \in Seq(Nat)
  BY <1>s, NatSeqs
<1>1. ASSUME Push PROVE Pages'
  <2>1. /\ pushing \in Ids /\ shown' = shown /\ stream' = stream
        /\ \A c \in Connections :
             queue'[c] = IF c \in subscribers THEN Append(queue[c], pushing) ELSE queue[c]
    BY <1>1, <1>s DEF Push, page, FeedTypeOK
  <2>2. pushing = Len(events)
    BY <1>1, <1>s DEF Push, Server
  <2>3. ASSUME NEW d \in Dashboards, stream[d] # None
        PROVE  Fits(queue'[stream[d]], shown[d])
    <3>1. stream[d] \in Connections /\ Fits(queue[stream[d]], shown[d])
      BY <1>s, <2>3 DEF FeedTypeOK, Pages
    <3>2. pushing \in Elems(shown[d]) \/ \A e \in Elems(shown[d]) : e < pushing
      <4>1. \A e \in Ids : e < pushing \/ e = pushing
        BY <1>n, <2>2 DEF Ids
      <4> QED
        BY <1>n, <4>1
    <3>3. Elems(Append(queue[stream[d]], pushing))
            = Elems(queue[stream[d]]) \union {pushing}
      BY <1>n, <2>1, <3>1, ElemsOfAppend
    <3>4. Fits(Append(queue[stream[d]], pushing), shown[d])
      BY <3>1, <3>2, <3>3 DEF Fits
    <3> QED
      BY <2>1, <3>1, <3>4
  <2> QED
    BY <1>s, <2>1, <2>3 DEF Pages
<1>2. ASSUME NEW d \in Dashboards, NEW c \in Connections, Subscribe(d, c)
      PROVE  Pages'
  <2>1. c \notin subscribers /\ queue' = queue /\ shown' = shown
        /\ \A e \in Dashboards : stream'[e] = IF e = d THEN c ELSE stream[e]
    BY <1>2, <1>s DEF Subscribe, FeedTypeOK
  <2>2. Elems(queue[c]) = {}
    BY <1>s, <2>1, ElemsOfEmpty DEF Server
  <2>3. Fits(queue[c], shown[d])
    BY <2>2 DEF Fits
  <2> QED
    BY <1>s, <2>1, <2>3 DEF Pages
<1>3. ASSUME NEW c \in Connections, Unsubscribe(c) PROVE Pages'
  <2>1. shown' = shown /\ stream' = stream /\ \A d \in Dashboards : stream[d] # c
    BY <1>3 DEF Unsubscribe, page
  <2>2. \A b \in Connections : b # c => queue'[b] = queue[b]
    BY <1>3, <1>s DEF Unsubscribe, FeedTypeOK
  <2>3. \A d \in Dashboards : stream[d] # None => stream[d] \in Connections
    BY <1>s DEF FeedTypeOK
  <2> QED
    BY <1>s, <2>1, <2>2, <2>3 DEF Pages
<1>4. ASSUME NEW d \in Dashboards, Deliver(d) PROVE Pages'
  <2> DEFINE c == stream[d]
             q == queue[c]
             s == shown[d]
  <2>1. c \in Connections /\ c # None /\ q # <<>> /\ stream' = stream
    BY <1>4, <1>s, NoneAssumption DEF Deliver, FeedTypeOK
  <2>2. \A b \in Connections : queue'[b] = IF b = c THEN Tail(q) ELSE queue[b]
    BY <1>4, <1>s DEF Deliver, FeedTypeOK
  <2>3. \A e \in Dashboards :
          shown'[e] = IF e = d /\ Head(q) \notin Elems(s)
                      THEN Append(s, Head(q)) ELSE shown[e]
    BY <1>4, <1>s DEF Deliver, FeedTypeOK, Shows, Elems
  <2>4. q \in Seq(Nat) /\ s \in Seq(Nat) /\ Increasing(q) /\ Increasing(s) /\ Fits(q, s)
    BY <1>n, <1>s, <2>1 DEF Server, Pages
  <2>5. Increasing(shown'[d]) /\ Fits(Tail(q), shown'[d])
    <3> HIDE DEF q, s
    <3>1. CASE Head(q) \in Elems(s)
      BY <2>1, <2>3, <2>4, <3>1, DeliverSame DEF s
    <3>2. CASE Head(q) \notin Elems(s)
      BY <2>1, <2>3, <2>4, <3>2, DeliverFits
    <3> QED
      BY <3>1, <3>2
  <2>6. ASSUME NEW e \in Dashboards, e # d
        PROVE  /\ Increasing(shown'[e])
               /\ stream[e] # None => Fits(queue'[stream[e]], shown'[e])
    <3>1. stream[e] # None => stream[e] # c /\ stream[e] \in Connections
      BY <1>s, <2>1, <2>6 DEF Connected, FeedTypeOK
    <3> QED
      BY <1>s, <2>2, <2>3, <2>6, <3>1 DEF Pages
  <2> QED
    BY <2>1, <2>2, <2>5, <2>6 DEF Pages
<1>5. ASSUME NEW d \in Dashboards, ShowHistory(d) PROVE Pages'
  <2>1. /\ stream' = stream /\ queue' = queue /\ answer[d] \in Nat
        /\ \A e \in Dashboards :
             shown'[e] = IF e = d THEN [i \in 1..answer[d] |-> i] ELSE shown[e]
    BY <1>5, <1>s DEF ShowHistory, FeedTypeOK
  <2>2. Elems(shown'[d]) = 1..answer[d] /\ Increasing(shown'[d])
    BY <2>1, ElemsOfCount
  <2>3. stream[d] # None => Fits(queue[stream[d]], shown'[d])
    <3>1. \A x \in Ids : x \in 1..answer[d] \/ \A e \in 1..answer[d] : e < x
      BY <1>n, <2>1 DEF Ids
    <3>2. stream[d] # None => Elems(queue[stream[d]]) \subseteq Ids
      BY <1>n, <1>s DEF FeedTypeOK
    <3> QED
      BY <2>2, <3>1, <3>2 DEF Fits
  <2> QED
    BY <1>s, <2>1, <2>2, <2>3 DEF Pages
<1>6. ASSUME NEW d \in Dashboards, Break(d) PROVE Pages'
  <2>1. shown' = shown /\ queue' = queue
        /\ \A e \in Dashboards : stream'[e] = IF e = d THEN None ELSE stream[e]
    BY <1>6, <1>s DEF Break, FeedTypeOK
  <2> QED
    BY <1>s, <2>1 DEF Pages
<1>7. ASSUME NEW d \in Dashboards, Reload(d) PROVE Pages'
  <2>1. /\ queue' = queue
        /\ \A e \in Dashboards : stream'[e] = IF e = d THEN None ELSE stream[e]
        /\ \A e \in Dashboards : shown'[e] = IF e = d THEN <<>> ELSE shown[e]
    BY <1>7, <1>s DEF Reload, FeedTypeOK
  <2> QED
    BY <1>s, <2>1, ElemsOfEmpty DEF Pages
<1>8. ASSUME ServerRestart PROVE Pages'
  <2>1. shown' = shown /\ \A d \in Dashboards : stream'[d] = None
    BY <1>8 DEF ServerRestart
  <2> QED
    BY <1>s, <2>1 DEF Pages
<1>9. ASSUME UNCHANGED <<queue, stream, shown>> PROVE Pages'
  BY <1>9, <1>s DEF Pages
<1>10. ASSUME ServerEmit \/ RunEmit \/ UNCHANGED feedVars
       PROVE  UNCHANGED <<queue, stream, shown>>
  BY <1>10 DEF ServerEmit, RunEmit, feedVars, page
<1>11. ASSUME NEW d \in Dashboards, AnswerHistory(d) \/ LoseHistory(d)
       PROVE  UNCHANGED <<queue, stream, shown>>
  BY <1>11 DEF AnswerHistory, LoseHistory
<1> QED
  BY <1>1, <1>2, <1>3, <1>4, <1>5, <1>6, <1>7, <1>8, <1>9, <1>10, <1>11 DEF FeedNext

-----------------------------------------------------------------------------
(* What comes to a page that is connected.                                  *)
Lossless(d) ==
  stream[d] # None =>
    \A e \in (joined[d] + 1)..Len(events) :
      events[e] = "server" => e \in Coming(d) \union overwritten[d]

LEMMA LosslessStep == IInv /\ [FeedNext]_feedVars => StreamIsLossless'
<1> SUFFICES ASSUME IInv, [FeedNext]_feedVars, NEW d \in Dashboards PROVE Lossless(d)'
  BY DEF StreamIsLossless, Lossless
<1>s. FeedTypeOK /\ Server /\ Connected /\ Pages /\ Lossless(d)
  BY DEF IInv, StreamIsLossless, Lossless
<1>n. /\ Ids \subseteq Nat /\ Len(events) \in Nat /\ joined[d] \in 0..Len(events)
      /\ \A c \in Connections : Elems(queue[c]) \subseteq Ids /\ queue[c] \in Seq(Nat)
      /\ Elems(shown[d]) \subseteq Ids /\ shown[d] \in Seq(Nat)
  BY <1>s, NatSeqs DEF FeedTypeOK
<1>c. /\ Coming(d) = Elems(shown[d]) \union Elems(queue[stream[d]]) \union {pushing}
      /\ Coming(d)' = Elems(shown'[d]) \union Elems(queue'[stream'[d]]) \union {pushing'}
      /\ Shows(d) = Elems(shown[d])
      /\ stream[d] # None => stream[d] \in Connections
  BY <1>s DEF Coming, Shows, Queued, Elems, FeedTypeOK
\* A row is appended: by the server's log, which goes on to push it, or by a run.
<1>1. ASSUME NEW row \in {"server", "run"}, events' = Append(events, row), pushing = 0,
             pushing' = IF row = "server" THEN Len(events) + 1 ELSE 0,
             queue' = queue, UNCHANGED page
      PROVE  Lossless(d)'
  <2>1. /\ Len(events') = Len(events) + 1 /\ events'[Len(events) + 1] = row
        /\ \A e \in Ids : events'[e] = events[e]
    BY <1>1, <1>s, MoreIds
  <2>2. stream' = stream /\ joined' = joined /\ shown' = shown /\ overwritten' = overwritten
    BY <1>1 DEF page
  <2>3. SUFFICES ASSUME stream[d] # None,
                        NEW e \in (joined[d] + 1)..(Len(events) + 1), events'[e] = "server"
                 PROVE  e \in Coming(d)' \union overwritten[d]
    BY <2>1, <2>2 DEF Lossless
  <2>4. CASE e = Len(events) + 1
    BY <1>1, <1>c, <2>1, <2>3, <2>4
  <2>5. CASE e # Len(events) + 1
    <3>1. e \in Ids /\ e \in (joined[d] + 1)..Len(events)
      BY <1>n, <2>3, <2>5 DEF Ids
    <3>2. e \in Coming(d) \union overwritten[d] /\ e # 0
      BY <1>n, <1>s, <2>1, <2>3, <3>1 DEF Lossless, Ids
    <3> QED
      BY <1>1, <1>c, <2>2, <3>2
  <2> QED
    BY <2>4, <2>5
\* Nothing is appended, and what was coming still is, or was overwritten.
<1>2. ASSUME UNCHANGED <<events, stream, joined>>,
             stream[d] # None =>
               (Coming(d) \union overwritten[d]) \ {0}
                 \subseteq Coming(d)' \union overwritten'[d]
      PROVE  Lossless(d)'
  <2>1. \A e \in (joined[d] + 1)..Len(events) : e # 0
    BY <1>n
  <2> QED
    BY <1>2, <1>s, <2>1 DEF Lossless
<1>3. ASSUME ServerEmit \/ RunEmit PROVE Lossless(d)'
  BY <1>1, <1>3 DEF ServerEmit, RunEmit, LoopFree
<1>4. ASSUME Push PROVE Lossless(d)'
  <2>1. UNCHANGED <<events, page>> /\ pushing' = 0 /\ pushing \in Nat
        /\ \A c \in Connections :
             queue'[c] = IF c \in subscribers THEN Append(queue[c], pushing) ELSE queue[c]
    BY <1>4, <1>n, <1>s DEF Push, FeedTypeOK
  <2>2. stream[d] # None => stream[d] \in Connections /\ stream[d] \in subscribers
    BY <1>c, <1>s DEF Connected
  <2>3. stream[d] # None =>
          Elems(queue'[stream[d]]) = Elems(queue[stream[d]]) \union {pushing}
    BY <1>n, <2>1, <2>2, ElemsOfAppend
  <2>4. stream[d] # None => Coming(d) \subseteq Coming(d)'
    BY <1>c, <2>1, <2>3 DEF page
  <2> QED
    BY <1>2, <2>1, <2>4 DEF page
<1>5. ASSUME NEW b \in Dashboards, NEW c \in Connections, Subscribe(b, c)
      PROVE  Lossless(d)'
  <2>1. /\ events' = events /\ queue' = queue /\ pushing' = pushing /\ shown' = shown
        /\ stream' = [stream EXCEPT ![b] = c]
        /\ joined' = [joined EXCEPT ![b] = Len(events)]
        /\ overwritten' = [overwritten EXCEPT ![b] = {}]
    BY <1>5 DEF Subscribe
  <2>2. CASE b = d
    <3>1. joined'[d] = Len(events)
      BY <1>s, <2>1, <2>2 DEF FeedTypeOK
    <3>2. (Len(events) + 1)..Len(events) = {}
      BY <1>n
    <3> QED
      BY <2>1, <3>1, <3>2 DEF Lossless
  <2>3. CASE b # d
    <3>1. stream'[d] = stream[d] /\ joined'[d] = joined[d] /\ overwritten'[d] = overwritten[d]
      BY <1>s, <2>1, <2>3 DEF FeedTypeOK
    <3> QED
      BY <1>c, <1>s, <2>1, <3>1 DEF Lossless
  <2> QED
    BY <2>2, <2>3
<1>6. ASSUME NEW c \in Connections, Unsubscribe(c) PROVE Lossless(d)'
  <2>1. UNCHANGED <<events, pushing, page>> /\ stream[d] # c
        /\ \A b \in Connections : b # c => queue'[b] = queue[b]
    BY <1>6, <1>s DEF Unsubscribe, FeedTypeOK
  <2>2. stream[d] # None => Coming(d)' = Coming(d)
    BY <1>c, <2>1 DEF page
  <2> QED
    BY <1>2, <2>1, <2>2 DEF page
<1>7. ASSUME NEW b \in Dashboards, Deliver(b) PROVE Lossless(d)'
  <2>1. UNCHANGED <<events, pushing, stream, joined, overwritten>>
    BY <1>7 DEF Deliver
  <2>2. /\ stream[b] \in Connections /\ stream[b] # None /\ queue[stream[b]] # <<>>
        /\ \A c \in Connections :
             queue'[c] = IF c = stream[b] THEN Tail(queue[c]) ELSE queue[c]
        /\ \A e \in Dashboards :
             shown'[e] = IF e = b /\ Head(queue[stream[b]]) \notin Elems(shown[b])
                         THEN Append(shown[b], Head(queue[stream[b]])) ELSE shown[e]
    BY <1>7, <1>s, NoneAssumption DEF Deliver, FeedTypeOK, Shows, Elems
  <2>3. CASE b = d
    <3> DEFINE q == queue[stream[d]]
               s == shown[d]
    <3>1. q \in Seq(Nat) /\ q # <<>> /\ s \in Seq(Nat)
      BY <1>n, <2>2, <2>3
    <3>2. shown'[d] = IF Head(q) \notin Elems(s) THEN Append(s, Head(q)) ELSE s
      BY <2>2, <2>3
    <3>3. queue'[stream[d]] = Tail(q)
      BY <2>2, <2>3
    <3>4. Coming(d) = Elems(s) \union Elems(q) \union {pushing}
      BY <1>c
    <3> HIDE DEF q, s
    <3>5. Elems(q) = {Head(q)} \union Elems(Tail(q)) /\ Head(q) \in Nat
      BY <3>1, ElemsOfTail
    <3>6. Elems(shown'[d]) = Elems(s) \union {Head(q)}
      BY <3>1, <3>2, <3>5, ElemsOfAppend
    <3>7. Coming(d)' = Coming(d)
      BY <1>c, <2>1, <3>3, <3>4, <3>5, <3>6
    <3> QED
      BY <1>2, <2>1, <3>7
  <2>4. CASE b # d
    <3>1. stream[d] # None => stream[d] # stream[b] /\ stream[d] \in Connections
      BY <1>c, <1>s, <2>2, <2>4 DEF Connected
    <3>2. shown'[d] = shown[d] /\ (stream[d] # None => queue'[stream[d]] = queue[stream[d]])
      BY <2>2, <2>4, <3>1
    <3>3. stream[d] # None => Coming(d)' = Coming(d)
      BY <1>c, <2>1, <3>2
    <3> QED
      BY <1>2, <2>1, <3>3
  <2> QED
    BY <2>3, <2>4
<1>8. ASSUME NEW b \in Dashboards,
             \/ AnswerHistory(b) \/ LoseHistory(b)
             \/ b # d /\ (ShowHistory(b) \/ Break(b) \/ Reload(b))
      PROVE  Lossless(d)'
  <2>1. UNCHANGED <<events, pushing, queue, joined>>
    BY <1>8 DEF AnswerHistory, ShowHistory, LoseHistory, Break, Reload
  <2>2. stream'[d] = stream[d] /\ shown'[d] = shown[d] /\ overwritten'[d] = overwritten[d]
    BY <1>8, <1>s DEF AnswerHistory, ShowHistory, LoseHistory, Break, Reload, FeedTypeOK
  <2> QED
    BY <1>c, <1>s, <2>1, <2>2 DEF Lossless
<1>9. ASSUME ShowHistory(d) PROVE Lossless(d)'
  <2>1. UNCHANGED <<events, pushing, queue, stream, joined>>
    BY <1>9 DEF ShowHistory
  <2>2. /\ answer[d] \in Nat /\ shown'[d] = [i \in 1..answer[d] |-> i]
        /\ overwritten'[d] = overwritten[d] \union (Shows(d) \ 1..answer[d])
    BY <1>9, <1>s DEF ShowHistory, FeedTypeOK
  <2>3. Elems(shown'[d]) = 1..answer[d]
    BY <2>2, ElemsOfCount
  <2>4. Elems(shown[d]) \subseteq Elems(shown'[d]) \union overwritten'[d]
    BY <1>c, <2>2, <2>3
  <2>5. Coming(d) \union overwritten[d] \subseteq Coming(d)' \union overwritten'[d]
    BY <1>c, <2>1, <2>2, <2>4
  <2> QED
    BY <1>2, <2>1, <2>5
<1>10. ASSUME Break(d) \/ Reload(d) \/ ServerRestart PROVE Lossless(d)'
  <2>1. stream'[d] = None
    BY <1>10, <1>s DEF Break, Reload, ServerRestart, FeedTypeOK
  <2> QED
    BY <2>1 DEF Lossless
<1>11. ASSUME UNCHANGED feedVars PROVE Lossless(d)'
  BY <1>11, <1>c, <1>s DEF feedVars, page, Lossless
<1> QED
  BY <1>3, <1>4, <1>5, <1>6, <1>7, <1>8, <1>9, <1>10, <1>11 DEF FeedNext

-----------------------------------------------------------------------------
LEMMA Inductive == FeedSpec => []IInv
<1>1. IInv /\ [FeedNext]_feedVars => IInv'
  BY TypeStep, ServerStep, ConnectedStep, PagesStep, LosslessStep DEF IInv
<1> QED
  BY IInit, <1>1, PTL DEF FeedSpec

(* Every page's list is in the order of the audit log, without repetitions, *)
(* for any number of pages, connections, verdicts and restarts.             *)
THEOREM ListsInOrder == FeedSpec => []ShownInOrder
<1>1. IInv => ShownInOrder
  BY DEF IInv, Pages, Increasing, ShownInOrder
<1> QED
  BY <1>1, Inductive, PTL

(* A page that stays connected loses nothing of what the server's own log   *)
(* appends between commit, queue and list, but to a late history.           *)
THEOREM FeedIsLossless == FeedSpec => []StreamIsLossless
<1>1. IInv => StreamIsLossless
  BY DEF IInv
<1> QED
  BY <1>1, Inductive, PTL
=============================================================================
