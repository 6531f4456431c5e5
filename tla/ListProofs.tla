----------------------------- MODULE ListProofs -----------------------------
(***************************************************************************)
(* Two lists that change while others hold places in them: the pending     *)
(* replies of discovery with their timer, for any requests, any timeout    *)
(* and any bound of the clock, and the channels of a feed with the slice   *)
(* of the Send in progress, for any channels, senders and capacity.        *)
(*                                                                         *)
(* UnderTimer is inductive with the list's soundness and with what         *)
(* nextTimeout points to: the head of the list, or, when the list is       *)
(* empty, a request that has been answered and cannot come back.  The      *)
(* promises of a feed follow from where a channel is listed (Listed) and   *)
(* from what the two halves of f.sendCases have been sent (Halves).        *)
(***************************************************************************)
EXTENDS Replies, Feed, WellFoundedInduction, TLAPS
-----------------------------------------------------------------------------

\* Sequences and their first element.
LEMMA SeqFacts ==
  ASSUME NEW S, NEW s \in Seq(S)
  PROVE /\ Len(s) \in Nat /\ DOMAIN s = 1 .. Len(s)
        /\ \A i \in DOMAIN s : s[i] \in S
        /\ s = <<>> <=> Len(s) = 0
        /\ s # <<>> => Head(s) = s[1] /\ 1 \in DOMAIN s /\ Head(s) \in S
  OBVIOUS

\* A sequence with one more element.
LEMMA AppendFacts ==
  ASSUME NEW S, NEW s \in Seq(S), NEW e \in S
  PROVE /\ Append(s, e) \in Seq(S) /\ Append(s, e) # <<>> /\ Len(Append(s, e)) = Len(s) + 1
        /\ Append(s, e)[Len(s) + 1] = e
        /\ \A i \in 1 .. Len(s) : Append(s, e)[i] = s[i]
  OBVIOUS

\* The list without its i-th element.
LEMMA WithoutFacts ==
  ASSUME NEW S, NEW s \in Seq(S), NEW i \in 1 .. Len(s)
  PROVE /\ Without(s, i) \in Seq(S)
        /\ Len(Without(s, i)) = Len(s) - 1
        /\ \A j \in 1 .. Len(s) - 1 : Without(s, i)[j] = IF j < i THEN s[j] ELSE s[j + 1]
  <1> DEFINE a == SubSeq(s, 1, i - 1)
             b == SubSeq(s, i + 1, Len(s))
  <1>1. a \in Seq(S) /\ Len(a) = i - 1 /\ \A j \in 1 .. i - 1 : a[j] = s[j]
    OBVIOUS
  <1>2. b \in Seq(S) /\ Len(b) = Len(s) - i /\ \A j \in 1 .. Len(s) - i : b[j] = s[i + j]
    OBVIOUS
  <1>3. Without(s, i) = a \o b
    BY Zenon DEF Without
  <1> HIDE DEF a, b
  <1>4. a \o b \in Seq(S) /\ Len(a \o b) = Len(s) - 1
    <2>1. Len(s) \in Nat /\ i \in Nat
      OBVIOUS
    <2>2. a \in Seq(S) /\ b \in Seq(S)
      BY Zenon, <1>1, <1>2
    <2>3. a \o b \in Seq(S) /\ Len(a \o b) = Len(a) + Len(b)
      BY <2>2
    <2>4. QED
      BY <1>1, <1>2, <2>1, <2>3
  <1>5. ASSUME NEW j \in 1 .. Len(s) - 1 PROVE (a \o b)[j] = IF j < i THEN s[j] ELSE s[j + 1]
    BY <1>1, <1>2
  <1> QED
    BY Zenon, <1>3, <1>4, <1>5

\* Every set of natural numbers that is not empty has a least element.
LEMMA LeastElement ==
  ASSUME NEW T \in SUBSET Nat, T # {}
  PROVE \E x \in T : \A y \in T : x <= y
  <1>1. PICK x \in T : \A y \in T : ~(<<y, x>> \in OpToRel(<, Nat))
    BY NatLessThanWellFounded, WFMin, Zenon
  <1>2. \A y \in T : ~(y < x)
    BY <1>1, Zenon DEF OpToRel
  <1> QED
    BY <1>2

RepliesTypes ==
    /\ plist \in Seq(Request)
    /\ deadline \in [Request -> Nat]
    /\ received \in [Request -> Nat]
    /\ outcome \in [Request -> {"open", "nil", "timeout", "closed"}]
    /\ nextTimeout \in Request \cup {NoRequest}
    /\ udpTimer \in Nat /\ udpTick \in Nat /\ udpNow \in Nat \ {0}
    /\ udpLoop \in {"run", "closing", "ended"}

\* The list holds every unanswered request once, with its deadline set.
ListSound ==
    /\ \A i \in DOMAIN plist : outcome[plist[i]] = "open" /\ deadline[plist[i]] > 0
    /\ \A i, j \in DOMAIN plist : plist[i] = plist[j] => i = j

\* resetTimeout runs after every change of the list, so the pointer is its
\* head; with an empty list it names no request that could be added.
PointerSound ==
    /\ udpLoop # "ended" /\ plist # <<>> => nextTimeout = Head(plist)
    /\ plist = <<>> /\ nextTimeout \in Request => outcome[nextTimeout] # "open"

RepliesInv == RepliesTypes /\ ListSound /\ PointerSound /\ UnderTimer

\* Nothing is pending.
LEMMA RepliesInitInv == RepliesInit => RepliesInv
  <1> SUFFICES ASSUME RepliesInit PROVE RepliesInv
    BY Zenon
  <1>1. RepliesTypes
    BY DEF RepliesInit, RepliesTypes
  <1>2. ListSound
    BY DEF RepliesInit, ListSound
  <1>3. PointerSound
    BY RepliesConstants, Zenon DEF RepliesInit, PointerSound
  <1>4. UnderTimer
    BY Zenon DEF RepliesInit, UnderTimer
  <1> QED
    BY <1>1, <1>2, <1>3, <1>4, Zenon DEF RepliesInv

\* resetTimeout leaves a timer for the head of a list whose head is not the
\* pointer, and keeps the one there is otherwise.
LEMMA ResetTimeoutSound ==
  ASSUME NEW list \in Seq(Request), NEW dl \in [Request -> Nat], NEW next \in Request \cup {NoRequest},
         RepliesTypes, ResetTimeout(list, dl, next),
         list # <<>> => dl[Head(list)] > 0,
         list # <<>> /\ next = Head(list) => udpTick # 0 \/ (udpTimer # 0 /\ udpTimer <= dl[Head(list)])
  PROVE /\ nextTimeout' \in Request \cup {NoRequest} /\ udpTimer' \in Nat
        /\ list # <<>> => /\ nextTimeout' = Head(list)
                          /\ udpTick # 0 \/ (udpTimer' # 0 /\ udpTimer' <= dl[Head(list)])
        /\ list = <<>> => nextTimeout' = next
  <1>1. list # <<>> => Head(list) \in Request
    OBVIOUS
  <1>2. udpTimer \in Nat
    BY Zenon DEF RepliesTypes
  <1>3. CASE list = <<>> \/ next = Head(list)
    BY <1>2, <1>3, Zenon DEF ResetTimeout
  <1>4. CASE ~(list = <<>> \/ next = Head(list))
    <2>1. dl[Head(list)] \in Nat
      BY Zenon, <1>1, <1>4
    <2> QED
      BY <1>1, <1>4, <2>1 DEF ResetTimeout
  <1> QED
    BY Zenon, <1>3, <1>4

\* The list and the answers after one of the pending requests has been
\* answered.
LEMMA AnsweredSound ==
  ASSUME RepliesInv, NEW i \in DOMAIN plist, plist' = Without(plist, i),
         outcome' \in [Request -> {"open", "nil", "timeout", "closed"}], outcome'[plist[i]] # "open",
         \A r \in Request : r # plist[i] => outcome'[r] = outcome[r],
         deadline' = deadline
  PROVE /\ plist' \in Seq(Request) /\ ListSound'
        /\ plist' # <<>> => Head(plist') = (IF i = 1 THEN plist[2] ELSE Head(plist)) /\ (i = 1 => plist[2] # Head(plist))
        /\ plist' = <<>> => i = 1 /\ Len(plist) = 1
  <1>1. plist \in Seq(Request) /\ i \in 1 .. Len(plist) /\ DOMAIN plist = 1 .. Len(plist) /\ Len(plist) \in Nat
    BY SeqFacts, Zenon DEF RepliesInv, RepliesTypes
  <1>2. /\ plist' \in Seq(Request) /\ Len(plist') = Len(plist) - 1
        /\ \A j \in 1 .. Len(plist) - 1 : plist'[j] = IF j < i THEN plist[j] ELSE plist[j + 1]
    BY Zenon, <1>1, WithoutFacts
  <1>3. DOMAIN plist' = 1 .. Len(plist) - 1 /\ (plist' = <<>> <=> Len(plist') = 0)
    BY Zenon, <1>2, SeqFacts
  <1>4. ListSound'
    <2>1. ASSUME NEW j \in DOMAIN plist' PROVE outcome'[plist'[j]] = "open" /\ deadline'[plist'[j]] > 0
      <3>0. j \in 1 .. Len(plist) - 1
        BY Zenon, <1>3
      <3>1. PICK k \in DOMAIN plist : k # i /\ plist'[j] = plist[k]
        <4>1. CASE j < i
          <5>1. j \in DOMAIN plist /\ j # i /\ plist'[j] = plist[j]
            BY <1>1, <1>2, <3>0, <4>1
          <5> QED
            BY Zenon, <5>1
        <4>2. CASE ~(j < i)
          <5>1. j + 1 \in DOMAIN plist /\ j + 1 # i /\ plist'[j] = plist[j + 1]
            BY <1>1, <1>2, <3>0, <4>2
          <5> QED
            BY Zenon, <5>1
        <4> QED
          BY Zenon, <4>1, <4>2
      <3>2. plist[k] \in Request /\ plist[k] # plist[i] /\ outcome[plist[k]] = "open" /\ deadline[plist[k]] > 0
        BY <3>1, <1>1, SeqFacts, Zenon DEF RepliesInv, ListSound
      <3> QED
        BY Zenon, <3>1, <3>2
    <2>2. ASSUME NEW j \in DOMAIN plist', NEW k \in DOMAIN plist', plist'[j] = plist'[k] PROVE j = k
      <3>1. \A m, n \in 1 .. Len(plist) : plist[m] = plist[n] => m = n
        BY <1>1, Zenon DEF RepliesInv, ListSound
      <3>2. j \in 1 .. Len(plist) - 1 /\ k \in 1 .. Len(plist) - 1
        BY Zenon, <1>3
      <3> DEFINE old(n) == IF n < i THEN n ELSE n + 1
      <3>3. old(j) \in 1 .. Len(plist) /\ old(k) \in 1 .. Len(plist)
        BY <1>1, <3>2
      <3>4. plist[old(j)] = plist[old(k)]
        BY Zenon, <1>2, <2>2, <3>2
      <3>5. old(j) = old(k)
        BY Zenon, <3>1, <3>3, <3>4
      <3> QED
        BY <1>1, <3>2, <3>5
    <2> QED
      BY <2>1, <2>2, Zenon DEF ListSound
  <1>5. plist' # <<>> => Head(plist') = plist'[1] /\ Len(plist) > 1
    BY <1>1, <1>2, <1>3, SeqFacts
  <1>6. Head(plist) = plist[1]
    <2>1. plist # <<>>
      BY <1>1, SeqFacts
    <2> QED
      BY Zenon, <1>1, <2>1, SeqFacts
  <1>7. plist' = <<>> => Len(plist) = 1
    <2>1. plist' = <<>> => Len(plist') = 0
      BY Zenon, <1>3
    <2>2. Len(plist) \in Nat /\ Len(plist') = Len(plist) - 1
      BY Zenon, <1>1, <1>2
    <2> QED
      BY <2>1, <2>2
  <1>8. Len(plist) > 1 => plist[2] # plist[1]
    BY <1>1 DEF RepliesInv, ListSound
  <1> QED
    BY <1>1, <1>2, <1>4, <1>5, <1>6, <1>7, <1>8

\* A new request has the latest deadline.
LEMMA AddPendingInv == ASSUME RepliesInv, NEW r \in Request, AddPending(r) PROVE RepliesInv'
  <1>1. plist \in Seq(Request) /\ Len(plist) \in Nat /\ DOMAIN plist = 1 .. Len(plist)
    BY SeqFacts, Zenon DEF RepliesInv, RepliesTypes
  <1>2. \A i \in DOMAIN plist : plist[i] \in Request /\ plist[i] # r
    BY <1>1, SeqFacts, Zenon DEF AddPending, Pending
  <1>3. plist # <<>> => Head(plist) \in Request /\ Head(plist) = plist[1] /\ 1 \in DOMAIN plist
    BY Zenon, <1>1, SeqFacts
  <1>4. CASE outcome' # outcome
    <2>1. /\ outcome' = [outcome EXCEPT ![r] = "closed"]
          /\ plist' = plist /\ deadline' = deadline /\ nextTimeout' = nextTimeout /\ udpTimer' = udpTimer
          /\ received' = received /\ udpTick' = udpTick /\ udpNow' = udpNow /\ udpLoop' = udpLoop
      BY <1>4, Zenon DEF AddPending
    <2>2. /\ outcome' \in [Request -> {"open", "nil", "timeout", "closed"}]
          /\ outcome'[r] = "closed" /\ \A q \in Request : q # r => outcome'[q] = outcome[q]
      BY <2>1, Zenon DEF RepliesInv, RepliesTypes
    <2>3. RepliesTypes'
      BY <2>1, <2>2, Zenon DEF RepliesInv, RepliesTypes
    <2>4. ListSound'
      BY <1>2, <2>1, <2>2, Zenon DEF RepliesInv, ListSound
    <2>5. PointerSound'
      BY <2>1, <2>2, Zenon DEF RepliesInv, PointerSound
    <2>6. UnderTimer'
      BY <2>1, Zenon DEF RepliesInv, UnderTimer
    <2> QED
      BY <2>3, <2>4, <2>5, <2>6, Zenon DEF RepliesInv
  <1>5. CASE outcome' = outcome
    <2>1. /\ plist' = Append(plist, r) /\ udpLoop # "ended"
          /\ deadline' = [deadline EXCEPT ![r] = udpNow + RespTimeout]
          /\ ResetTimeout(plist', deadline', nextTimeout)
          /\ received' = received /\ udpTick' = udpTick /\ udpNow' = udpNow /\ udpLoop' = udpLoop
          /\ outcome[r] = "open"
      BY <1>5, Zenon DEF AddPending, RepliesInv, RepliesTypes
    <2>2. /\ plist' \in Seq(Request) /\ plist' # <<>> /\ Len(plist') = Len(plist) + 1
          /\ plist'[Len(plist) + 1] = r /\ \A i \in 1 .. Len(plist) : plist'[i] = plist[i]
      BY <1>1, <2>1, AppendFacts
    <2>3. DOMAIN plist' = 1 .. Len(plist) + 1 /\ Head(plist') = plist'[1] /\ Head(plist') \in Request
      BY Zenon, <2>2, SeqFacts
    <2>4. Head(plist') = IF plist = <<>> THEN r ELSE Head(plist)
      BY <1>1, <1>3, <2>2, <2>3, SeqFacts
    <2>5. deadline' \in [Request -> Nat] /\ deadline'[r] > 0 /\ \A q \in Request : q # r => deadline'[q] = deadline[q]
      BY <2>1, RepliesConstants DEF RepliesInv, RepliesTypes
    <2>6. ListSound'
      <3>1. ASSUME NEW i \in DOMAIN plist' PROVE outcome'[plist'[i]] = "open" /\ deadline'[plist'[i]] > 0
        <4>1. CASE i = Len(plist) + 1
          BY Zenon, <1>5, <2>1, <2>2, <2>5, <4>1
        <4>2. CASE i \in 1 .. Len(plist)
          <5>1. i \in DOMAIN plist /\ plist'[i] = plist[i]
            BY Zenon, <1>1, <2>2, <4>2
          <5>2. outcome[plist[i]] = "open" /\ deadline[plist[i]] > 0 /\ plist[i] \in Request /\ plist[i] # r
            BY <1>2, <5>1, Zenon DEF RepliesInv, ListSound
          <5> QED
            BY Zenon, <1>5, <2>5, <5>1, <5>2
        <4> QED
          BY <1>1, <2>3, <4>1, <4>2
      <3>2. ASSUME NEW i \in DOMAIN plist', NEW j \in DOMAIN plist', plist'[i] = plist'[j] PROVE i = j
        <4>1. \A m, n \in 1 .. Len(plist) : plist[m] = plist[n] => m = n
          BY <1>1, Zenon DEF RepliesInv, ListSound
        <4> QED
          BY <1>1, <1>2, <2>2, <2>3, <3>2, <4>1
      <3> QED
        BY <3>1, <3>2, Zenon DEF ListSound
    <2>7. deadline'[Head(plist')] > 0
      BY <2>3, <2>6, <1>1 DEF ListSound
    <2>8. nextTimeout = Head(plist') => udpTick # 0 \/ (udpTimer # 0 /\ udpTimer <= deadline'[Head(plist')])
      <3>1. CASE plist = <<>>
        BY <2>1, <2>4, <3>1, Zenon DEF RepliesInv, PointerSound
      <3>2. CASE plist # <<>>
        <4>1. Head(plist') = Head(plist) /\ deadline'[Head(plist)] = deadline[Head(plist)]
          BY Zenon, <1>2, <1>3, <2>4, <2>5, <3>2
        <4> QED
          BY <2>1, <3>2, <4>1, Zenon DEF RepliesInv, UnderTimer
      <3> QED
        BY Zenon, <3>1, <3>2
    <2>9. RepliesTypes
      BY Zenon DEF RepliesInv
    <2>10. /\ nextTimeout' \in Request \cup {NoRequest} /\ udpTimer' \in Nat
           /\ nextTimeout' = Head(plist')
           /\ udpTick # 0 \/ (udpTimer' # 0 /\ udpTimer' <= deadline'[Head(plist')])
      <3>1. nextTimeout \in Request \cup {NoRequest}
        BY <2>9, Zenon DEF RepliesTypes
      <3> QED
        BY Zenon, <2>1, <2>2, <2>5, <2>7, <2>8, <2>9, <3>1, ResetTimeoutSound
    <2>11. RepliesTypes'
      BY <1>5, <2>1, <2>2, <2>5, <2>9, <2>10, Zenon DEF RepliesTypes
    <2>12. PointerSound' /\ UnderTimer'
      BY <2>1, <2>2, <2>10, Zenon DEF PointerSound, UnderTimer
    <2> QED
      BY <2>6, <2>11, <2>12, Zenon DEF RepliesInv
  <1> QED
    BY Zenon, <1>4, <1>5

\* A packet takes one request at most out of the list.
LEMMA GotReplyInv == ASSUME RepliesInv, NEW packet \in Packets, GotReply(packet) PROVE RepliesInv'
  <1> USE RepliesConstants DEF RepliesInv
  <1> DEFINE got(r) == received[r] + packet.n
             done == {i \in DOMAIN plist : Matches(plist[i], packet) /\ Callback(plist[i], packet, got(plist[i]))}
             last == IF done = {} THEN Len(plist) ELSE CHOOSE i \in done : \A j \in done : i <= j
             called == {plist[i] : i \in {j \in 1 .. last : Matches(plist[j], packet)}}
  <1>1. /\ udpLoop # "ended"
        /\ received' = [r \in Request |-> IF r \in called /\ r \notin {plist[i] : i \in done} THEN got(r) ELSE received[r]]
        /\ plist' = IF done = {} THEN plist ELSE Without(plist, last)
        /\ outcome' = IF done = {} THEN outcome ELSE [outcome EXCEPT ![plist[last]] = "nil"]
        /\ ResetTimeout(plist', deadline, nextTimeout)
        /\ UNCHANGED <<deadline, udpTick, udpNow, udpLoop>>
    BY Zenon DEF GotReply
  <1>2. plist \in Seq(Request) /\ Len(plist) \in Nat /\ DOMAIN plist = 1 .. Len(plist)
    BY DEF RepliesTypes
  <1>3. done # {} => last \in DOMAIN plist
    <2> HAVE done # {}
    <2>1. done \in SUBSET Nat
      BY <1>2
    <2>2. \E i \in done : \A j \in done : i <= j
      BY Zenon, <2>1, LeastElement
    <2> QED
      BY Zenon, <2>2
  <1>4. packet.n \in Nat
    BY DEF Packets
  <1> HIDE DEF done, last, called
  <1>5. received' \in [Request -> Nat]
    BY <1>1, <1>4 DEF RepliesTypes
  <1>6. plist # <<>> => Head(plist) = plist[1] /\ 1 \in DOMAIN plist /\ Head(plist) \in Request
    BY <1>2
  <1>7. CASE done = {}
    <2>1. plist' = plist /\ outcome' = outcome
      BY Zenon, <1>1, <1>7
    <2>2. plist # <<>> => deadline[Head(plist)] > 0
      BY <1>6, Zenon DEF ListSound
    <2>3. plist # <<>> /\ nextTimeout = Head(plist) => udpTick # 0 \/ (udpTimer # 0 /\ udpTimer <= deadline[Head(plist)])
      BY <1>1, Zenon DEF UnderTimer
    <2>4. ResetTimeout(plist, deadline, nextTimeout)
      BY Zenon, <1>1, <2>1
    <2>5. nextTimeout' = nextTimeout /\ udpTimer' = udpTimer
      BY <1>1, <1>6, <2>4, Zenon DEF ResetTimeout, PointerSound
    <2> QED
      BY <1>1, <1>5, <2>1, <2>5, Zenon DEF RepliesTypes, ListSound, PointerSound, UnderTimer
  <1>8. CASE done # {}
    <2>1. plist' = Without(plist, last) /\ outcome' = [outcome EXCEPT ![plist[last]] = "nil"] /\ last \in DOMAIN plist
      BY Zenon, <1>1, <1>3, <1>8
    <2>2. plist[last] \in Request
      BY <1>2, <2>1
    <2>3. /\ outcome' \in [Request -> {"open", "nil", "timeout", "closed"}] /\ outcome'[plist[last]] = "nil"
          /\ \A r \in Request : r # plist[last] => outcome'[r] = outcome[r]
      BY <2>1, <2>2, Zenon DEF RepliesTypes
    <2>4. /\ plist' \in Seq(Request) /\ ListSound'
          /\ plist' # <<>> => Head(plist') = (IF last = 1 THEN plist[2] ELSE Head(plist)) /\ (last = 1 => plist[2] # Head(plist))
          /\ plist' = <<>> => last = 1 /\ Len(plist) = 1
      BY Zenon, <1>1, <2>1, <2>3, AnsweredSound
    <2>5. plist # <<>> /\ nextTimeout = Head(plist)
      BY <1>1, <1>2, <2>1 DEF PointerSound
    <2>6. plist' # <<>> => Head(plist') = plist'[1] /\ 1 \in DOMAIN plist'
      BY <2>4
    <2>7. plist' # <<>> => deadline[Head(plist')] > 0
      BY <1>1, <2>4, <2>6, Zenon DEF ListSound
    <2>8. plist' # <<>> /\ nextTimeout = Head(plist') => udpTick # 0 \/ (udpTimer # 0 /\ udpTimer <= deadline[Head(plist')])
      BY <1>1, <2>4, <2>5, Zenon DEF UnderTimer
    <2>9. /\ nextTimeout' \in Request \cup {NoRequest} /\ udpTimer' \in Nat
          /\ plist' # <<>> => /\ nextTimeout' = Head(plist')
                              /\ udpTick # 0 \/ (udpTimer' # 0 /\ udpTimer' <= deadline[Head(plist')])
          /\ plist' = <<>> => nextTimeout' = nextTimeout
      BY <1>1, <2>4, <2>7, <2>8, ResetTimeoutSound, Zenon DEF RepliesTypes
    <2>10. plist' = <<>> => nextTimeout' = plist[last]
      BY Zenon, <1>6, <2>4, <2>5, <2>9
    <2> QED
      BY <1>1, <1>5, <2>3, <2>4, <2>9, <2>10, Zenon DEF RepliesTypes, PointerSound, UnderTimer
  <1> QED
    BY Zenon, <1>7, <1>8

\* The timer has fired: the first request that is late is answered.
LEMMA TimeoutInv == ASSUME RepliesInv, Timeout PROVE RepliesInv'
  <1> USE RepliesConstants DEF RepliesInv
  <1> DEFINE gone == TimedOut(udpTick)
  <1>1. /\ udpLoop # "ended" /\ udpTick # 0 /\ udpTick' = 0
        /\ plist' = IF gone = {} THEN plist ELSE Without(plist, CHOOSE i \in gone : TRUE)
        /\ outcome' = [r \in Request |-> IF \E i \in gone : plist[i] = r THEN "timeout" ELSE outcome[r]]
        /\ ResetTimeout(plist', deadline, NoRequest)
        /\ UNCHANGED <<deadline, received, udpNow, udpLoop>>
    BY Zenon DEF Timeout
  <1>2. plist \in Seq(Request) /\ Len(plist) \in Nat /\ DOMAIN plist = 1 .. Len(plist)
    BY DEF RepliesTypes
  <1>3. plist' \in Seq(Request) /\ ListSound' /\ outcome' \in [Request -> {"open", "nil", "timeout", "closed"}]
    <2>1. CASE gone = {}
      <3>1. plist' = plist /\ outcome' = outcome
        BY <1>1, <2>1, Zenon DEF RepliesTypes
      <3> QED
        BY <1>1, <3>1, Zenon DEF RepliesTypes, ListSound
    <2>2. CASE gone # {}
      <3>1. PICK i \in gone : plist' = Without(plist, i)
        BY Zenon, <1>1, <2>2
      <3>2. gone \subseteq DOMAIN plist /\ \A j \in gone : j = i
        <4>1. ASSUME NEW j \in gone, NEW k \in gone, j < k PROVE FALSE
          <5>1. j \in 1 .. k - 1 /\ plist[j] \in Request
            BY <1>2, <4>1, SeqFacts DEF TimedOut
          <5>2. deadline[plist[j]] \in Nat /\ udpTick \in Nat /\ deadline[plist[j]] <= udpTick
            BY <5>1, Zenon DEF TimedOut, RepliesTypes
          <5>3. deadline[plist[j]] > udpTick
            BY <5>1, Zenon DEF TimedOut
          <5> QED
            BY <5>2, <5>3
        <4> QED
          BY <1>2, <4>1 DEF TimedOut
      <3>3. plist[i] \in Request
        BY <1>2, <3>2
      <3> HIDE DEF gone
      <3>4. /\ outcome' \in [Request -> {"open", "nil", "timeout", "closed"}] /\ outcome'[plist[i]] = "timeout"
            /\ \A r \in Request : r # plist[i] => outcome'[r] = outcome[r]
        BY <1>1, <3>2, <3>3, Zenon DEF RepliesTypes
      <3> QED
        BY Zenon, <1>1, <3>1, <3>2, <3>4, AnsweredSound
    <2> QED
      BY Zenon, <2>1, <2>2
  <1>4. plist' # <<>> => Head(plist') = plist'[1] /\ 1 \in DOMAIN plist' /\ Head(plist') \in Request
    BY <1>3
  <1>5. /\ plist' # <<>> => nextTimeout' = Head(plist') /\ udpTimer' = deadline[Head(plist')]
        /\ plist' = <<>> => nextTimeout' = NoRequest /\ udpTimer' = udpTimer
    BY <1>1, <1>4, Zenon DEF ResetTimeout
  <1>6. plist' # <<>> => deadline[Head(plist')] > 0 /\ deadline[Head(plist')] \in Nat
    BY <1>1, <1>3, <1>4, Zenon DEF ListSound, RepliesTypes
  <1> HIDE DEF gone
  <1>7. RepliesTypes'
    <2>1. nextTimeout' \in Request \cup {NoRequest} /\ udpTimer' \in Nat
      BY <1>4, <1>5, <1>6, Zenon DEF RepliesTypes
    <2> QED
      BY <1>1, <1>3, <2>1, Zenon DEF RepliesTypes
  <1>8. PointerSound' /\ UnderTimer'
    BY <1>1, <1>5, <1>6 DEF PointerSound, UnderTimer
  <1> QED
    BY Zenon, <1>3, <1>7, <1>8

\* The loop ends.
LEMMA ClosedInv == ASSUME RepliesInv, Closed PROVE RepliesInv'
  <1> USE RepliesConstants DEF RepliesInv
  <1>1. outcome' \in [Request -> {"open", "nil", "timeout", "closed"}]
    BY Zenon DEF Closed, RepliesTypes
  <1>2. nextTimeout \in Request => outcome'[nextTimeout] # "open"
    <2>1. CASE plist = <<>>
      BY <2>1, Zenon DEF Closed, PointerSound, RepliesTypes, Pending
    <2>2. CASE plist # <<>>
      <3>1. nextTimeout = plist[1] /\ 1 \in 1 .. Len(plist)
        BY <2>2 DEF Closed, PointerSound, RepliesTypes
      <3> QED
        BY <3>1 DEF Closed, Pending
    <2> QED
      BY Zenon, <2>1, <2>2
  <1> QED
    BY <1>1, <1>2 DEF Closed, RepliesTypes, ListSound, PointerSound, UnderTimer

\* Every step keeps the invariant.
LEMMA RepliesNextInv == RepliesInv /\ [RepliesNext]_udpVars => RepliesInv'
  <1> SUFFICES ASSUME RepliesInv, [RepliesNext]_udpVars PROVE RepliesInv'
    BY Zenon
  <1>1. CASE CloseUdp
    BY <1>1, Zenon DEF CloseUdp, RepliesInv, RepliesTypes, ListSound, PointerSound, UnderTimer
  <1>2. CASE UdpClock
    BY <1>2 DEF UdpClock, RepliesInv, RepliesTypes, ListSound, PointerSound, UnderTimer
  <1>3. CASE TimerFires
    BY <1>3, Zenon DEF TimerFires, RepliesInv, RepliesTypes, ListSound, PointerSound, UnderTimer
  <1>4. CASE UNCHANGED udpVars
    BY <1>4, Zenon DEF udpVars, RepliesInv, RepliesTypes, ListSound, PointerSound, UnderTimer
  <1> QED
    BY <1>1, <1>2, <1>3, <1>4, AddPendingInv, GotReplyInv, TimeoutInv, ClosedInv, Zenon DEF RepliesNext

\* A request that waits is under a timer, for any set of requests, any
\* timeout and any order of packets, ticks and the end of the table.
THEOREM UnderTimerCorrect == RepliesSpec => []UnderTimer
  <1>1. RepliesSpec => []RepliesInv
    BY RepliesInitInv, RepliesNextInv, PTL DEF RepliesSpec
  <1>2. QED
    BY <1>1, PTL DEF RepliesInv

-----------------------------------------------------------------------------
\* No member twice.
Once(list) == \A i, j \in 1 .. Len(list) : list[i] = list[j] => i = j

\* cases.delete takes out one place.
LEMMA DeleteFacts ==
  ASSUME NEW S, NEW s \in Seq(S), NEW i \in 1 .. Len(s)
  PROVE /\ delete(s, i) \in Seq(S)
        /\ Len(delete(s, i)) = Len(s) - 1
        /\ \A j \in 1 .. Len(s) - 1 : delete(s, i)[j] = IF j < i THEN s[j] ELSE s[j + 1]
  <1>1. delete(s, i) = Without(s, i)
    BY Zenon DEF delete, Without
  <1> QED
    BY <1>1, WithoutFacts, Zenon

\* A list that lost one of its places: what is still in it, and where the
\* places below n have gone when the slice of that length shrinks with it.
Deleted(S, d, s, i) ==
    /\ d \in Seq(S) /\ Len(d) = Len(s) - 1 /\ Once(d)
    /\ \A e \in S : find(d, e) # {} <=> find(s, e) # {} /\ e # s[i]
    /\ \A n \in Nat : n <= Len(s) =>
         /\ ShrunkTo(i, n) \in Nat /\ ShrunkTo(i, n) <= Len(s) - 1
         /\ \A j \in 1 .. Len(s) - 1 : \E k \in 1 .. Len(s) :
              d[j] = s[k] /\ (j <= ShrunkTo(i, n) <=> k <= n)

\* cases.delete leaves such a list.
LEMMA DeleteKeeps ==
  ASSUME NEW S, NEW s \in Seq(S), NEW i \in 1 .. Len(s), Once(s)
  PROVE Deleted(S, delete(s, i), s, i)
  <1> DEFINE d == delete(s, i)
  <1>1. d \in Seq(S) /\ Len(d) = Len(s) - 1 /\ Len(s) \in Nat
        /\ \A j \in 1 .. Len(s) - 1 : d[j] = IF j < i THEN s[j] ELSE s[j + 1]
    BY DeleteFacts, SeqFacts, Zenon
  <1> HIDE DEF d
  <1>2. Once(d)
    BY <1>1 DEF Once
  <1>3. ASSUME NEW e \in S PROVE find(d, e) # {} <=> find(s, e) # {} /\ e # s[i]
    <2>1. ASSUME NEW j \in 1 .. Len(d), d[j] = e PROVE find(s, e) # {} /\ e # s[i]
      <3> DEFINE k == IF j < i THEN j ELSE j + 1
      <3>1. k \in 1 .. Len(s) /\ k # i /\ s[k] = e
        BY <1>1, <2>1
      <3> QED
        BY <3>1 DEF find, Once
    <2>2. ASSUME NEW k \in 1 .. Len(s), s[k] = e, e # s[i] PROVE find(d, e) # {}
      <3> DEFINE j == IF k < i THEN k ELSE k - 1
      <3>1. j \in 1 .. Len(d) /\ d[j] = e
        BY <1>1, <2>2
      <3> QED
        BY <3>1 DEF find
    <2> QED
      BY <2>1, <2>2 DEF find
  <1>4. ASSUME NEW n \in Nat, n <= Len(s)
        PROVE /\ ShrunkTo(i, n) \in Nat /\ ShrunkTo(i, n) <= Len(s) - 1
              /\ \A j \in 1 .. Len(s) - 1 : \E k \in 1 .. Len(s) :
                   d[j] = s[k] /\ (j <= ShrunkTo(i, n) <=> k <= n)
    <2>1. ShrunkTo(i, n) \in Nat /\ ShrunkTo(i, n) <= Len(s) - 1
      BY <1>1, <1>4 DEF ShrunkTo
    <2>2. ASSUME NEW j \in 1 .. Len(s) - 1
          PROVE \E k \in 1 .. Len(s) : d[j] = s[k] /\ (j <= ShrunkTo(i, n) <=> k <= n)
      <3> DEFINE k == IF j < i THEN j ELSE j + 1
      <3>1. k \in 1 .. Len(s) /\ d[j] = s[k] /\ (j <= ShrunkTo(i, n) <=> k <= n)
        BY <1>1, <1>4 DEF ShrunkTo
      <3> QED
        BY <3>1, Zenon
    <2> QED
      BY <2>1, <2>2, Zenon
  <1> QED
    BY <1>1, <1>2, <1>3, <1>4, Zenon DEF d, Deleted

\* cases.deactivate: the list keeps its members, and all of the first n
\* but the one at i are among the first n - 1.
Deactivated(S, d, s, i, n) ==
    /\ d \in Seq(S) /\ Len(d) = Len(s) /\ Once(d)
    /\ \A e \in S : find(d, e) # {} <=> find(s, e) # {}
    /\ \A j \in 1 .. Len(s) : \E k \in 1 .. Len(s) :
         d[j] = s[k] /\ (j <= n - 1 <=> k <= n /\ k # i)

\* cases.deactivate leaves such a list.
LEMMA DeactivateKeeps ==
  ASSUME NEW S, NEW s \in Seq(S), NEW n \in 1 .. Len(s), NEW i \in 1 .. n, Once(s)
  PROVE Deactivated(S, Deactivate(s, i, n), s, i, n)
  <1> DEFINE d == Deactivate(s, i, n)
             m(j) == IF j = n THEN i ELSE IF j = i THEN n ELSE j
  <1>1. Len(s) \in Nat /\ n \in 1 .. Len(s) /\ i \in 1 .. Len(s) /\ i <= n
    BY SeqFacts
  <1>2. d \in Seq(S) /\ Len(d) = Len(s)
    BY <1>1 DEF Deactivate
  <1>3. \A j \in 1 .. Len(s) : d[j] = s[m(j)] /\ m(j) \in 1 .. Len(s) /\ m(m(j)) = j
                               /\ (j <= n - 1 <=> m(j) <= n /\ m(j) # i)
    BY <1>1 DEF Deactivate
  <1> HIDE DEF d, m
  <1>4. Once(d)
    BY <1>1, <1>2, <1>3 DEF Once
  <1>5. ASSUME NEW e \in S PROVE find(d, e) # {} <=> find(s, e) # {}
    BY <1>2, <1>3 DEF find
  <1> QED
    BY <1>2, <1>3, <1>4, <1>5, Zenon DEF d, Deactivated

\* A list that takes up another one, with no member in common.
Joined(S, d, s, t) ==
    /\ d \in Seq(S) /\ Once(d)
    /\ \A e \in S : find(d, e) # {} <=> find(s, e) # {} \/ find(t, e) # {}

\* append(f.sendCases, f.inbox...) makes such a list.
LEMMA JoinKeeps ==
  ASSUME NEW S, NEW s \in Seq(S), NEW t \in Seq(S), Once(s), Once(t),
         \A e \in S : find(t, e) # {} => find(s, e) = {}
  PROVE Joined(S, s \o t, s, t)
  <1> DEFINE d == s \o t
  <1>1. d \in Seq(S) /\ Len(d) = Len(s) + Len(t) /\ Len(s) \in Nat /\ Len(t) \in Nat
    OBVIOUS
  <1>2. /\ \A j \in 1 .. Len(s) : d[j] = s[j]
        /\ \A j \in 1 .. Len(t) : d[Len(s) + j] = t[j]
    OBVIOUS
  <1>3. /\ \A j \in 1 .. Len(s) : s[j] \in S /\ find(s, s[j]) # {}
        /\ \A j \in 1 .. Len(t) : t[j] \in S /\ find(t, t[j]) # {}
    BY SeqFacts DEF find
  <1> HIDE DEF d
  <1>4. \A j \in 1 .. Len(d) : j \in 1 .. Len(s) \/ \E l \in 1 .. Len(t) : j = Len(s) + l
    <2> SUFFICES ASSUME NEW j \in 1 .. Len(d), j \notin 1 .. Len(s) PROVE \E l \in 1 .. Len(t) : j = Len(s) + l
      OBVIOUS
    <2>1. j - Len(s) \in 1 .. Len(t) /\ j = Len(s) + (j - Len(s))
      BY <1>1
    <2> QED
      BY <2>1, Zenon
  <1>5. \A j \in 1 .. Len(s), l \in 1 .. Len(t) : s[j] # t[l]
    BY <1>3, Zenon
  <1>6. Once(d)
    <2> SUFFICES ASSUME NEW j \in 1 .. Len(d), NEW l \in 1 .. Len(d), d[j] = d[l] PROVE j = l
      BY Zenon DEF Once
    <2>1. CASE j \in 1 .. Len(s) /\ l \in 1 .. Len(s)
      BY <1>2, <2>1, Zenon DEF Once
    <2>2. CASE j \in 1 .. Len(s) /\ l \notin 1 .. Len(s)
      <3>1. PICK y \in 1 .. Len(t) : l = Len(s) + y
        BY <1>4, <2>2, Zenon
      <3>2. d[j] = s[j] /\ d[l] = t[y]
        BY <1>2, <2>2, <3>1, Zenon
      <3> QED
        BY <1>5, <2>2, <3>2, Zenon
    <2>3. CASE j \notin 1 .. Len(s) /\ l \in 1 .. Len(s)
      <3>1. PICK x \in 1 .. Len(t) : j = Len(s) + x
        BY <1>4, <2>3, Zenon
      <3>2. d[j] = t[x] /\ d[l] = s[l]
        BY <1>2, <2>3, <3>1, Zenon
      <3> QED
        BY <1>5, <2>3, <3>2, Zenon
    <2>4. CASE j \notin 1 .. Len(s) /\ l \notin 1 .. Len(s)
      <3>1. PICK x \in 1 .. Len(t) : j = Len(s) + x
        BY <1>4, <2>4, Zenon
      <3>2. PICK y \in 1 .. Len(t) : l = Len(s) + y
        BY <1>4, <2>4, Zenon
      <3>3. d[j] = t[x] /\ d[l] = t[y]
        BY <1>2, <3>1, <3>2, Zenon
      <3> QED
        BY <3>1, <3>2, <3>3, Zenon DEF Once
    <2> QED
      BY <2>1, <2>2, <2>3, <2>4, Zenon
  <1>7. ASSUME NEW e \in S PROVE find(d, e) # {} <=> find(s, e) # {} \/ find(t, e) # {}
    <2>1. \A j \in 1 .. Len(s) : j \in 1 .. Len(d)
      BY <1>1
    <2>2. \A j \in 1 .. Len(t) : Len(s) + j \in 1 .. Len(d)
      BY <1>1
    <2>3. ASSUME NEW j \in 1 .. Len(s), s[j] = e PROVE find(d, e) # {}
      BY <1>2, <2>1, <2>3 DEF find
    <2>4. ASSUME NEW j \in 1 .. Len(t), t[j] = e PROVE find(d, e) # {}
      <3>1. Len(s) + j \in 1 .. Len(d) /\ d[Len(s) + j] = e
        BY <1>2, <2>2, <2>4
      <3> QED
        BY <3>1, Zenon DEF find
    <2>5. ASSUME NEW j \in 1 .. Len(d), d[j] = e PROVE find(s, e) # {} \/ find(t, e) # {}
      <3>1. CASE j \in 1 .. Len(s)
        BY <1>2, <2>5, <3>1, Zenon DEF find
      <3>2. CASE j \notin 1 .. Len(s)
        <4>1. PICK l \in 1 .. Len(t) : j = Len(s) + l
          BY <1>4, <3>2, Zenon
        <4> QED
          BY <1>2, <2>5, <4>1, Zenon DEF find
      <3> QED
        BY <3>1, <3>2, Zenon
    <2> QED
      BY <2>3, <2>4, <2>5, Zenon DEF find
  <1> QED
    BY <1>1, <1>6, <1>7, Zenon DEF d, Joined

\* A new subscriber at the end of a list.
Added(S, d, s, e) ==
    /\ d \in Seq(S) /\ Once(d)
    /\ \A x \in S : find(d, x) # {} <=> find(s, x) # {} \/ x = e

\* append(f.inbox, cas) makes such a list.
LEMMA AppendKeeps ==
  ASSUME NEW S, NEW s \in Seq(S), NEW e \in S, Once(s), find(s, e) = {}
  PROVE Added(S, Append(s, e), s, e)
  <1> DEFINE d == Append(s, e)
  <1>1. d \in Seq(S) /\ Len(d) = Len(s) + 1 /\ d[Len(s) + 1] = e /\ Len(s) \in Nat
        /\ \A i \in 1 .. Len(s) : d[i] = s[i]
    OBVIOUS
  <1> HIDE DEF d
  <1>2. \A i \in 1 .. Len(s) : s[i] # e
    BY Zenon DEF find
  <1>3. Once(d)
    BY <1>1, <1>2 DEF Once
  <1>4. ASSUME NEW x \in S PROVE find(d, x) # {} <=> find(s, x) # {} \/ x = e
    <2>1. 1 .. Len(d) = (1 .. Len(s)) \cup {Len(s) + 1}
      BY <1>1
    <2> QED
      BY <1>1, <2>1, Zenon DEF find
  <1> QED
    BY <1>1, <1>3, <1>4, Zenon DEF d, Added

\* Two values of s that t has the other way round.
Crossed(h, s, t, i, j) ==
    \E k, l \in DOMAIN h[t] : k < l /\ h[t][k] = h[s][j] /\ h[t][l] = h[s][i]

\* SameOrder, of any record of what was sent on the channels.
InOrder(h) ==
    \A s, t \in Listener : \A i, j \in DOMAIN h[s] :
      i < j => h[s][i] # h[s][j] /\ ~Crossed(h, s, t, i, j)

\* One more value on one channel.
Sent(h, x, p) == [h EXCEPT ![x] = Append(@, p)]

\* What is then on the channels.
SentOn(g, h, x, p) ==
    /\ g \in [Listener -> Seq(FeedSender)]
    /\ \A s \in Listener : s # x => g[s] = h[s]
    /\ g[x] = Append(h[x], p)
    /\ \A s \in Listener, q \in FeedSender : q # p \/ s # x => find(g[s], q) = find(h[s], q)
    /\ find(g[x], p) = find(h[x], p) \cup {Len(g[x])}

\* What a delivery changes of the values on the channels.
LEMMA SentFacts ==
  ASSUME NEW h \in [Listener -> Seq(FeedSender)], NEW x \in Listener, NEW p \in FeedSender
  PROVE SentOn(Sent(h, x, p), h, x, p)
  <1> DEFINE g == Sent(h, x, p)
  <1>1. h[x] \in Seq(FeedSender) /\ Append(h[x], p) \in Seq(FeedSender)
    BY AppendFacts, Zenon
  <1>2. g \in [Listener -> Seq(FeedSender)] /\ g[x] = Append(h[x], p)
        /\ \A s \in Listener : s # x => g[s] = h[s]
    BY <1>1, Zenon DEF Sent
  <1> HIDE DEF g
  <1> DEFINE b == h[x]
             d == Append(b, p)
  <1>3. d \in Seq(FeedSender) /\ Len(d) = Len(b) + 1 /\ d[Len(b) + 1] = p /\ Len(b) \in Nat
        /\ \A i \in 1 .. Len(b) : d[i] = b[i]
    BY <1>1
  <1> HIDE DEF d, b
  <1>4. \A q \in FeedSender : q # p => find(d, q) = find(b, q)
    BY <1>3 DEF find
  <1>5. find(d, p) = find(b, p) \cup {Len(d)}
    BY <1>3 DEF find
  <1>6. g[x] = d /\ h[x] = b
    BY <1>2, Zenon DEF d, b
  <1>7. find(g[x], p) = find(h[x], p) \cup {Len(g[x])}
    BY <1>5, <1>6, Zenon
  <1>8. ASSUME NEW s \in Listener, NEW q \in FeedSender, q # p \/ s # x
        PROVE find(g[s], q) = find(h[s], q)
    BY <1>2, <1>4, <1>6, <1>8, Zenon
  <1> QED
    BY <1>2, <1>7, <1>8, Zenon DEF g, SentOn

\* A value that has only been the last one, and is new on this channel, may
\* be sent on it.
LEMMA SentInOrder ==
  ASSUME NEW h \in [Listener -> Seq(FeedSender)], NEW x \in Listener, NEW p \in FeedSender,
         InOrder(h), find(h[x], p) = {},
         \A s \in Listener : \A k \in find(h[s], p) : k = Len(h[s])
  PROVE InOrder(Sent(h, x, p))
  <1> DEFINE g == Sent(h, x, p)
  <1>1. \A u \in Listener : Len(h[u]) \in Nat /\ DOMAIN h[u] = 1 .. Len(h[u])
    BY SeqFacts
  <1>2. /\ g \in [Listener -> Seq(FeedSender)] /\ g[x] = Append(h[x], p)
        /\ \A u \in Listener : u # x => g[u] = h[u]
    BY SentFacts, Zenon DEF SentOn
  <1> HIDE DEF g
  <1>3. ASSUME NEW u \in Listener, NEW k \in DOMAIN g[u]
        PROVE \/ k \in DOMAIN h[u] /\ g[u][k] = h[u][k]
              \/ u = x /\ k = Len(h[x]) + 1 /\ g[u][k] = p
    <2>1. CASE u # x
      BY <1>2, <2>1, Zenon
    <2>2. CASE u = x
      <3>1. h[x] \in Seq(FeedSender)
        OBVIOUS
      <3>2. DOMAIN g[x] = 1 .. Len(h[x]) + 1
        BY <1>2, <3>1, AppendFacts, SeqFacts
      <3>3. k \in 1 .. Len(h[x]) \/ k = Len(h[x]) + 1
        BY <1>1, <2>2, <3>2
      <3>4. g[x][Len(h[x]) + 1] = p /\ \A i \in 1 .. Len(h[x]) : g[x][i] = h[x][i]
        <4>1. Append(h[x], p)[Len(h[x]) + 1] = p /\ \A i \in 1 .. Len(h[x]) : Append(h[x], p)[i] = h[x][i]
          BY <3>1, AppendFacts
        <4> QED
          BY <1>2, <4>1, Zenon
      <3> QED
        BY <1>1, <2>2, <3>3, <3>4, Zenon
    <2> QED
      BY <2>1, <2>2, Zenon
  <1>4. ASSUME NEW u \in Listener, NEW k \in DOMAIN g[u], NEW l \in DOMAIN g[u], k < l
        PROVE k \in DOMAIN h[u] /\ g[u][k] = h[u][k]
    <2>1. g[u] \in Seq(FeedSender) /\ h[u] \in Seq(FeedSender)
      BY <1>2, Zenon
    <2>2. k \in Nat /\ l \in Nat /\ Len(h[u]) \in Nat /\ DOMAIN h[u] = 1 .. Len(h[u])
      BY <1>1, <2>1, SeqFacts
    <2>3. \/ l \in DOMAIN h[u]
          \/ u = x /\ l = Len(h[x]) + 1
      BY <1>3, Zenon
    <2>4. ~(u = x /\ k = Len(h[x]) + 1)
      BY <1>4, <2>2, <2>3
    <2> QED
      BY <1>3, <2>4, Zenon
  <1>5. ASSUME NEW s \in Listener, NEW i \in DOMAIN g[s], NEW j \in DOMAIN g[s], i < j
        PROVE g[s][i] # g[s][j]
    <2>1. i \in DOMAIN h[s] /\ g[s][i] = h[s][i]
      BY <1>4, <1>5, Zenon
    <2>2. CASE j \in DOMAIN h[s] /\ g[s][j] = h[s][j]
      BY <1>5, <2>1, <2>2, Zenon DEF InOrder
    <2>3. CASE s = x /\ g[s][j] = p
      BY <1>1, <2>1, <2>3, Zenon DEF find
    <2> QED
      BY <1>3, <2>2, <2>3, Zenon
  <1>6. ASSUME NEW s \in Listener, NEW t \in Listener, NEW i \in DOMAIN g[s], NEW j \in DOMAIN g[s], i < j
        PROVE ~Crossed(g, s, t, i, j)
    <2> SUFFICES ASSUME NEW k \in DOMAIN g[t], NEW l \in DOMAIN g[t], k < l,
                        g[t][k] = g[s][j], g[t][l] = g[s][i]
                 PROVE FALSE
      BY Zenon DEF Crossed
    <2>1. i \in DOMAIN h[s] /\ g[s][i] = h[s][i]
      BY <1>4, <1>6, Zenon
    <2>2. k \in DOMAIN h[t] /\ g[t][k] = h[t][k]
      BY <1>4, <1>6, Zenon
    <2>3. ASSUME NEW u \in Listener, NEW m \in DOMAIN h[u], h[u][m] = p
          PROVE m = Len(h[u]) /\ u # x
      <3>1. m \in find(h[u], p)
        BY <1>1, <2>3, Zenon DEF find
      <3> QED
        BY <3>1, Zenon
    <2>4. CASE g[t][l] = p
      <3>1. i = Len(h[s]) /\ s # x
        BY <1>6, <2>1, <2>3, <2>4, Zenon
      <3>2. j \in 1 .. Len(h[s]) /\ Len(h[s]) \in Nat
        BY <1>1, <1>3, <3>1, Zenon
      <3> QED
        BY <1>6, <3>1, <3>2
    <2>5. CASE g[s][j] = p
      <3>1. k = Len(h[t]) /\ t # x
        BY <1>6, <2>2, <2>3, <2>5, Zenon
      <3>2. l \in 1 .. Len(h[t]) /\ Len(h[t]) \in Nat
        BY <1>1, <1>3, <3>1, Zenon
      <3> QED
        BY <1>6, <3>1, <3>2
    <2>6. CASE g[t][l] # p /\ g[s][j] # p
      <3>1. /\ j \in DOMAIN h[s] /\ g[s][j] = h[s][j]
            /\ l \in DOMAIN h[t] /\ g[t][l] = h[t][l]
        BY <1>3, <2>6, Zenon
      <3>2. ~Crossed(h, s, t, i, j)
        BY <1>6, <2>1, <3>1, Zenon DEF InOrder
      <3>3. h[t][k] = h[s][j] /\ h[t][l] = h[s][i]
        BY <1>6, <2>1, <2>2, <3>1, Zenon
      <3> QED
        BY <1>6, <2>2, <3>1, <3>2, <3>3, Zenon DEF Crossed
    <2> QED
      BY <2>4, <2>5, <2>6, Zenon
  <1> QED
    <2> SUFFICES ASSUME NEW s \in Listener, NEW t \in Listener,
                        NEW i \in DOMAIN g[s], NEW j \in DOMAIN g[s], i < j
                 PROVE g[s][i] # g[s][j] /\ ~Crossed(g, s, t, i, j)
      BY Zenon DEF InOrder, g
    <2> QED
      BY <1>5, <1>6, Zenon
-----------------------------------------------------------------------------
\* The types of a feed.
FeedTypes ==
    /\ inbox \in Seq(Listener) /\ sendCases \in Seq(Listener)
    /\ active \in Nat /\ at \in Nat
    /\ sendLock \in FeedSender \cup {NoSender}
    /\ sending \in [FeedSender -> {"idle", "try", "select", "done"}]
    /\ sub \in [Listener -> {"out", "in", "removing", "left"}]
    /\ unread \in [Listener -> Nat]
    /\ heard \in [Listener -> Seq(FeedSender)]

\* A channel is in one of the two lists, once, from Subscribe until remove
\* has done its work; nothing has been sent on it while it is in the inbox.
Listed ==
    /\ Once(inbox) /\ Once(sendCases)
    /\ \A s \in Listener :
         /\ find(inbox, s) # {} => sub[s] = "in" /\ heard[s] = <<>> /\ find(sendCases, s) = {}
         /\ find(sendCases, s) # {} => sub[s] \in {"in", "removing"}
         /\ sub[s] = "out" => heard[s] = <<>>
         /\ sub[s] \in {"in", "removing"} => find(inbox, s) # {} \/ find(sendCases, s) # {}

\* Who is in the loop of Send holds the lock.
Locked ==
    /\ \A p \in FeedSender : sending[p] \in {"try", "select"} <=> sendLock = p
    /\ \A p \in FeedSender : sending[p] = "try" => at # 0
    /\ active <= Len(sendCases)
    /\ sendLock = NoSender => active = 0

\* The channels in `cases' are those the Send in progress has still to serve,
\* and its value is the last one on every other.
Halves ==
    /\ \A p \in FeedSender : sending[p] = "idle" => \A s \in Listener : find(heard[s], p) = {}
    /\ sendLock # NoSender =>
         /\ \A i \in 1 .. Len(sendCases) : i <= active <=> find(heard[sendCases[i]], sendLock) = {}
         /\ \A s \in Listener : \A k \in find(heard[s], sendLock) : k = Len(heard[s])

FeedInv == FeedTypes /\ Listed /\ Locked /\ Halves /\ InOrder(heard)

\* A new feed satisfies the invariant.
LEMMA FeedInitInv == FeedInit => FeedInv
  <1> SUFFICES ASSUME FeedInit PROVE FeedInv
    OBVIOUS
  <1>1. inbox = <<>> /\ sendCases = <<>> /\ active = 0 /\ sendLock = NoSender /\ at = 0
        /\ sending = [p \in FeedSender |-> "idle"] /\ sub = [s \in Listener |-> "out"]
        /\ unread = [s \in Listener |-> 0] /\ heard = [s \in Listener |-> <<>>]
    BY Zenon DEF FeedInit
  <1>2. <<>> \in Seq(Listener) /\ <<>> \in Seq(FeedSender) /\ Once(<<>>) /\ 0 \in Nat /\ 0 <= Len(<<>>)
        /\ \A e : find(<<>>, e) = {}
    BY DEF Once, find
  <1>3. FeedTypes
    BY <1>1, <1>2 DEF FeedTypes
  <1>4. Listed
    BY <1>1, <1>2 DEF Listed
  <1>5. Locked
    BY <1>1, <1>2, FeedAssumption DEF Locked
  <1>6. Halves
    BY <1>1, <1>2 DEF Halves
  <1>7. InOrder(heard)
    BY <1>1 DEF InOrder
  <1> QED
    BY <1>3, <1>4, <1>5, <1>6, <1>7, Zenon DEF FeedInv

\* A delivery, by TrySend or by Select.
LEMMA DeliverInv ==
  ASSUME FeedInv, NEW p \in FeedSender, sendLock = p, NEW i \in 1 .. active, DeliverTo(p, i),
         UNCHANGED <<inbox, sub, sendLock>>,
         \A q \in FeedSender : sending'[q] = "idle" => sending[q] = "idle"
  PROVE /\ sendCases' \in Seq(Listener) /\ active' \in Nat /\ active' <= Len(sendCases')
        /\ unread' \in [Listener -> Nat] /\ heard' \in [Listener -> Seq(FeedSender)]
        /\ Listed' /\ Halves' /\ InOrder(heard)'
  <1> DEFINE x == sendCases[i]
  <1>1. /\ sendCases \in Seq(Listener) /\ Len(sendCases) \in Nat /\ active \in Nat
        /\ active <= Len(sendCases) /\ i \in 1 .. Len(sendCases) /\ active \in 1 .. Len(sendCases)
        /\ heard \in [Listener -> Seq(FeedSender)] /\ unread \in [Listener -> Nat]
        /\ x \in Listener /\ find(sendCases, x) # {}
    <2>1. sendCases \in Seq(Listener) /\ active \in Nat /\ active <= Len(sendCases)
          /\ heard \in [Listener -> Seq(FeedSender)] /\ unread \in [Listener -> Nat]
      BY Zenon DEF FeedInv, FeedTypes, Locked
    <2>2. Len(sendCases) \in Nat /\ i \in 1 .. Len(sendCases) /\ active \in 1 .. Len(sendCases)
      BY <2>1
    <2>3. x \in Listener
      BY <2>1, <2>2
    <2> QED
      BY <2>1, <2>2, <2>3, Zenon DEF find
  <1>2. /\ unread' = [unread EXCEPT ![x] = @ + 1] /\ heard' = Sent(heard, x, p)
        /\ sendCases' = Deactivate(sendCases, i, active) /\ active' = active - 1
    BY Zenon DEF DeliverTo, Sent
  <1>3. Listed /\ Locked /\ Halves /\ InOrder(heard) /\ FeedTypes
    BY Zenon DEF FeedInv
  <1> HIDE DEF x
  <1>4. /\ sendCases' \in Seq(Listener) /\ Len(sendCases') = Len(sendCases) /\ Once(sendCases')
        /\ \A e \in Listener : find(sendCases', e) # {} <=> find(sendCases, e) # {}
        /\ \A j \in 1 .. Len(sendCases) : \E k \in 1 .. Len(sendCases) :
             sendCases'[j] = sendCases[k] /\ (j <= active - 1 <=> k <= active /\ k # i)
    <2>1. Once(sendCases)
      BY <1>3, Zenon DEF Listed
    <2>2. Deactivated(Listener, sendCases', sendCases, i, active)
      BY <1>1, <1>2, <2>1, DeactivateKeeps, Zenon
    <2> QED
      BY <2>2, Zenon DEF Deactivated
  <1>5. /\ heard' \in [Listener -> Seq(FeedSender)]
        /\ \A s \in Listener : s # x => heard'[s] = heard[s]
        /\ \A s \in Listener, q \in FeedSender : q # p \/ s # x => find(heard'[s], q) = find(heard[s], q)
        /\ find(heard'[x], p) = find(heard[x], p) \cup {Len(heard'[x])}
    <2>1. SentOn(heard', heard, x, p)
      BY <1>1, <1>2, SentFacts, Zenon
    <2> QED
      BY <2>1, Zenon DEF SentOn
  <1>6. p # NoSender
    BY FeedAssumption, Zenon
  <1>7. /\ \A j \in 1 .. Len(sendCases) : j <= active <=> find(heard[sendCases[j]], p) = {}
        /\ \A s \in Listener : \A k \in find(heard[s], p) : k = Len(heard[s])
        /\ \A q \in FeedSender : sending[q] = "idle" => \A s \in Listener : find(heard[s], q) = {}
    BY <1>3, <1>6, Zenon DEF Halves
  <1>8. find(heard[x], p) = {}
    <2>1. i <= active
      BY <1>1
    <2> QED
      BY <1>1, <1>7, <2>1, Zenon DEF x
  <1>9. active' \in Nat /\ active' <= Len(sendCases') /\ unread' \in [Listener -> Nat]
    <2>1. active' \in Nat /\ active' <= Len(sendCases')
      BY <1>1, <1>2, <1>4
    <2>2. unread[x] + 1 \in Nat
      BY <1>1
    <2> QED
      BY <1>1, <1>2, <2>1, <2>2, Zenon
  <1>10. InOrder(heard)'
    <2>1. InOrder(Sent(heard, x, p))
      BY <1>1, <1>3, <1>7, <1>8, SentInOrder, Zenon
    <2> QED
      BY <1>2, <2>1, Zenon
  <1>11. Listed'
    BY <1>1, <1>3, <1>4, <1>5, Zenon DEF Listed
  <1>12. Halves'
    <2>1. ASSUME NEW q \in FeedSender, sending'[q] = "idle", NEW s \in Listener
          PROVE find(heard'[s], q) = {}
      <3>1. sending[q] = "idle" /\ q # p
        BY <1>3, <2>1, Zenon DEF Locked
      <3> QED
        BY <1>5, <1>7, <3>1, Zenon
    <2>2. ASSUME NEW j \in 1 .. Len(sendCases')
          PROVE j <= active' <=> find(heard'[sendCases'[j]], p) = {}
      <3>1. PICK k \in 1 .. Len(sendCases) :
               sendCases'[j] = sendCases[k] /\ (j <= active - 1 <=> k <= active /\ k # i)
        BY <1>4, Zenon
      <3>2. sendCases[k] \in Listener
        BY <1>1
      <3>3. CASE k = i
        BY <1>2, <1>5, <3>1, <3>3, Zenon DEF x
      <3>4. CASE k # i
        <4>1. sendCases[k] # x
          BY <1>1, <1>3, <3>4, Zenon DEF Listed, Once, x
        <4> QED
          BY <1>2, <1>5, <1>7, <3>1, <3>2, <3>4, <4>1, Zenon
      <3> QED
        BY <3>3, <3>4, Zenon
    <2>3. ASSUME NEW s \in Listener, NEW k \in find(heard'[s], p) PROVE k = Len(heard'[s])
      BY <1>5, <1>7, <1>8, Zenon
    <2>4. sendLock' = p
      BY Zenon
    <2> QED
      BY <2>1, <2>2, <2>3, <2>4, Zenon DEF Halves
  <1> QED
    BY <1>4, <1>5, <1>9, <1>10, <1>11, <1>12, Zenon

\* Subscribe: the channel was in neither list, and nothing was sent on it.
LEMMA SubscribeInv ==
  ASSUME FeedInv, NEW s \in Listener, Subscribe(s)
  PROVE FeedInv'
  <1>1. FeedTypes /\ Listed /\ Locked /\ Halves /\ InOrder(heard)
    BY Zenon DEF FeedInv
  <1>2. /\ sub[s] = "out" /\ sub' = [sub EXCEPT ![s] = "in"] /\ inbox' = Append(inbox, s)
        /\ sendCases' = sendCases /\ active' = active /\ sendLock' = sendLock /\ sending' = sending
        /\ at' = at /\ unread' = unread /\ heard' = heard
    BY Zenon DEF Subscribe
  <1>3. find(inbox, s) = {} /\ find(sendCases, s) = {} /\ heard[s] = <<>> /\ Once(inbox)
    BY <1>1, <1>2 DEF Listed
  <1>4. inbox \in Seq(Listener) /\ sub \in [Listener -> {"out", "in", "removing", "left"}]
    BY <1>1, Zenon DEF FeedTypes
  <1>5. Added(Listener, inbox', inbox, s)
    BY <1>2, <1>3, <1>4, AppendKeeps, Zenon
  <1>6. sub' \in [Listener -> {"out", "in", "removing", "left"}] /\ sub'[s] = "in"
        /\ \A t \in Listener : t # s => sub'[t] = sub[t]
    BY <1>2, <1>4
  <1>7. FeedTypes'
    BY <1>1, <1>2, <1>5, <1>6, Zenon DEF FeedTypes, Added
  <1>8. Listed'
    BY <1>1, <1>2, <1>3, <1>5, <1>6 DEF Listed, Added
  <1>9. Locked' /\ Halves' /\ InOrder(heard)'
    BY <1>1, <1>2, Zenon DEF Locked, Halves
  <1> QED
    BY <1>7, <1>8, <1>9, Zenon DEF FeedInv

\* remove, up to its select.
LEMMA UnsubscribeInv ==
  ASSUME FeedInv, NEW s \in Listener, Unsubscribe(s)
  PROVE FeedInv'
  <1>1. FeedTypes /\ Listed /\ Locked /\ Halves /\ InOrder(heard)
    BY Zenon DEF FeedInv
  <1>2. /\ sub[s] = "in"
        /\ sendCases' = sendCases /\ active' = active /\ sendLock' = sendLock /\ sending' = sending
        /\ at' = at /\ unread' = unread /\ heard' = heard
    BY Zenon DEF Unsubscribe
  <1>3. inbox \in Seq(Listener) /\ sub \in [Listener -> {"out", "in", "removing", "left"}] /\ Once(inbox)
    BY <1>1, Zenon DEF FeedTypes, Listed
  <1>4. FeedTypes' /\ Listed'
    <2>1. CASE find(inbox, s) # {}
      <3>1. PICK i \in find(inbox, s) : sub' = [sub EXCEPT ![s] = "left"] /\ inbox' = delete(inbox, i)
        BY <2>1, Zenon DEF Unsubscribe
      <3>2. i \in 1 .. Len(inbox) /\ inbox[i] = s
        BY <3>1, Zenon DEF find
      <3>3. Deleted(Listener, inbox', inbox, i)
        BY <1>3, <3>1, <3>2, DeleteKeeps, Zenon
      <3>4. sub' \in [Listener -> {"out", "in", "removing", "left"}] /\ sub'[s] = "left"
            /\ \A t \in Listener : t # s => sub'[t] = sub[t]
        BY <1>3, <3>1
      <3>5. inbox' \in Seq(Listener) /\ Once(inbox')
            /\ \A e \in Listener : find(inbox', e) # {} <=> find(inbox, e) # {} /\ e # s
        BY <3>2, <3>3, Zenon DEF Deleted
      <3>6. FeedTypes'
        BY <1>1, <1>2, <3>4, <3>5, Zenon DEF FeedTypes
      <3>7. Listed'
        BY <1>1, <1>2, <2>1, <3>4, <3>5 DEF Listed
      <3> QED
        BY <3>6, <3>7, Zenon
    <2>2. CASE find(inbox, s) = {}
      <3>1. sub' = [sub EXCEPT ![s] = "removing"] /\ inbox' = inbox
        BY <2>2, Zenon DEF Unsubscribe
      <3>2. sub' \in [Listener -> {"out", "in", "removing", "left"}] /\ sub'[s] = "removing"
            /\ \A t \in Listener : t # s => sub'[t] = sub[t]
        BY <1>3, <3>1
      <3>3. FeedTypes'
        BY <1>1, <1>2, <3>1, <3>2, Zenon DEF FeedTypes
      <3>4. Listed'
        BY <1>1, <1>2, <2>2, <3>1, <3>2 DEF Listed
      <3> QED
        BY <3>3, <3>4, Zenon
    <2> QED
      BY <2>1, <2>2, Zenon
  <1>5. Locked' /\ Halves' /\ InOrder(heard)'
    BY <1>1, <1>2, Zenon DEF Locked, Halves
  <1> QED
    BY <1>4, <1>5, Zenon DEF FeedInv

\* A subscriber reads.
LEMMA ReceiveInv ==
  ASSUME FeedInv, NEW s \in Listener, Receive(s)
  PROVE FeedInv'
  <1>1. FeedTypes /\ Listed /\ Locked /\ Halves /\ InOrder(heard)
    BY Zenon DEF FeedInv
  <1>2. /\ unread[s] > 0 /\ unread' = [unread EXCEPT ![s] = @ - 1]
        /\ inbox' = inbox /\ sub' = sub
        /\ sendCases' = sendCases /\ active' = active /\ sendLock' = sendLock /\ sending' = sending
        /\ at' = at /\ heard' = heard
    BY Zenon DEF Receive
  <1>3. unread' \in [Listener -> Nat]
    BY <1>1, <1>2 DEF FeedTypes
  <1>4. FeedTypes'
    BY <1>1, <1>2, <1>3, Zenon DEF FeedTypes
  <1>5. Listed' /\ Locked' /\ Halves' /\ InOrder(heard)'
    BY <1>1, <1>2, Zenon DEF Listed, Locked, Halves
  <1> QED
    BY <1>4, <1>5, Zenon DEF FeedInv

\* What remove and Send share: the channel s leaves f.sendCases, and the
\* slice of the Send in progress, if there is one, shrinks with it.
LEMMA LeaveInv ==
  ASSUME FeedInv, NEW s \in Listener, sub[s] = "removing",
         sub' = [sub EXCEPT ![s] = "left"],
         NEW i \in find(sendCases, s), sendCases' = delete(sendCases, i),
         UNCHANGED <<inbox, unread, heard>>
  PROVE /\ sendCases' \in Seq(Listener) /\ Len(sendCases') \in Nat
        /\ sub' \in [Listener -> {"out", "in", "removing", "left"}]
        /\ Listed'
        /\ ShrunkTo(i, active) \in Nat /\ ShrunkTo(i, active) <= Len(sendCases')
        /\ \A j \in 1 .. Len(sendCases') : \E k \in 1 .. Len(sendCases) :
             sendCases'[j] = sendCases[k] /\ (j <= ShrunkTo(i, active) <=> k <= active)
  <1>1. FeedTypes /\ Listed /\ Locked
    BY Zenon DEF FeedInv
  <1>2. i \in 1 .. Len(sendCases) /\ sendCases[i] = s
    BY Zenon DEF find
  <1>3. sendCases \in Seq(Listener) /\ Once(sendCases) /\ active \in Nat /\ active <= Len(sendCases)
        /\ sub \in [Listener -> {"out", "in", "removing", "left"}]
    BY <1>1, Zenon DEF FeedTypes, Listed, Locked
  <1>4. Deleted(Listener, sendCases', sendCases, i)
    BY <1>2, <1>3, DeleteKeeps, Zenon
  <1>5. sub' \in [Listener -> {"out", "in", "removing", "left"}] /\ sub'[s] = "left"
        /\ \A t \in Listener : t # s => sub'[t] = sub[t]
    BY <1>3
  <1>6. sendCases' \in Seq(Listener) /\ Len(sendCases') = Len(sendCases) - 1 /\ Once(sendCases')
        /\ \A e \in Listener : find(sendCases', e) # {} <=> find(sendCases, e) # {} /\ e # s
    BY <1>2, <1>4, Zenon DEF Deleted
  <1>7. Listed'
    <2>1. inbox' = inbox /\ heard' = heard
      BY Zenon
    <2>2. find(sendCases, s) # {}
      BY Zenon
    <2> QED
      BY <1>1, <1>5, <1>6, <2>1, <2>2 DEF Listed
  <1>8. Len(sendCases') \in Nat
    BY <1>6
  <1>9. /\ ShrunkTo(i, active) \in Nat /\ ShrunkTo(i, active) <= Len(sendCases) - 1
        /\ \A j \in 1 .. Len(sendCases) - 1 : \E k \in 1 .. Len(sendCases) :
             sendCases'[j] = sendCases[k] /\ (j <= ShrunkTo(i, active) <=> k <= active)
    BY <1>3, <1>4, Zenon DEF Deleted
  <1> QED
    BY <1>5, <1>6, <1>7, <1>8, <1>9, Zenon

\* remove, with the lock in hand: no slice of a Send is in use.
LEMMA RemoveNowInv ==
  ASSUME FeedInv, NEW s \in Listener, RemoveNow(s)
  PROVE FeedInv'
  <1>1. FeedTypes /\ Listed /\ Locked /\ Halves /\ InOrder(heard)
    BY Zenon DEF FeedInv
  <1>2. /\ sub[s] = "removing" /\ sendLock = NoSender /\ sub' = [sub EXCEPT ![s] = "left"]
        /\ inbox' = inbox /\ active' = active /\ sendLock' = sendLock /\ sending' = sending
        /\ at' = at /\ unread' = unread /\ heard' = heard
    BY Zenon DEF RemoveNow
  <1>3. PICK i \in find(sendCases, s) : sendCases' = delete(sendCases, i)
    BY Zenon DEF RemoveNow
  <1>4. /\ sendCases' \in Seq(Listener) /\ Len(sendCases') \in Nat /\ Listed'
        /\ sub' \in [Listener -> {"out", "in", "removing", "left"}]
    BY <1>2, <1>3, LeaveInv, Zenon
  <1>5. FeedTypes'
    BY <1>1, <1>2, <1>4, Zenon DEF FeedTypes
  <1>6. active = 0 /\ 0 <= Len(sendCases')
    BY <1>1, <1>2, <1>4 DEF Locked
  <1>7. Locked' /\ Halves' /\ InOrder(heard)'
    BY <1>1, <1>2, <1>6, Zenon DEF Locked, Halves
  <1> QED
    BY <1>4, <1>5, <1>7, Zenon DEF FeedInv

\* Send takes the lock and the inbox: its value is on no channel yet.
LEMMA TakeSendLockInv ==
  ASSUME FeedInv, NEW p \in FeedSender, TakeSendLock(p)
  PROVE FeedInv'
  <1>1. FeedTypes /\ Listed /\ Locked /\ Halves /\ InOrder(heard)
    BY Zenon DEF FeedInv
  <1>2. /\ sending[p] = "idle" /\ sendLock = NoSender /\ sendLock' = p
        /\ sendCases' = sendCases \o inbox /\ inbox' = <<>> /\ active' = Len(sendCases')
        /\ sending' = [sending EXCEPT ![p] = "try"] /\ at' = 1
        /\ sub' = sub /\ unread' = unread /\ heard' = heard
    BY Zenon DEF TakeSendLock
  <1>3. /\ inbox \in Seq(Listener) /\ sendCases \in Seq(Listener) /\ Once(inbox) /\ Once(sendCases)
        /\ \A e \in Listener : find(inbox, e) # {} => find(sendCases, e) = {}
        /\ sending \in [FeedSender -> {"idle", "try", "select", "done"}]
    BY <1>1, Zenon DEF FeedTypes, Listed
  <1>4. Joined(Listener, sendCases', sendCases, inbox)
    BY <1>2, <1>3, JoinKeeps, Zenon
  <1>5. /\ sendCases' \in Seq(Listener) /\ Once(sendCases')
        /\ \A e \in Listener : find(sendCases', e) # {} <=> find(sendCases, e) # {} \/ find(inbox, e) # {}
    BY <1>4, Zenon DEF Joined
  <1>6. /\ inbox' \in Seq(Listener) /\ Once(inbox') /\ \A e \in Listener : find(inbox', e) = {}
    BY <1>2 DEF Once, find
  <1>7. /\ sending' \in [FeedSender -> {"idle", "try", "select", "done"}] /\ sending'[p] = "try"
        /\ \A q \in FeedSender : q # p => sending'[q] = sending[q]
    BY <1>2, <1>3
  <1>8. active' \in Nat /\ active' <= Len(sendCases') /\ at' \in Nat /\ at' # 0
    BY <1>2, <1>5
  <1>9. FeedTypes'
    BY <1>1, <1>2, <1>5, <1>6, <1>7, <1>8, Zenon DEF FeedTypes
  <1>10. Listed'
    BY <1>1, <1>2, <1>5, <1>6 DEF Listed
  <1>11. p # NoSender
    BY FeedAssumption, Zenon
  <1>12. Locked'
    <2>1. \A q \in FeedSender : sending[q] \notin {"try", "select"}
      BY <1>1, <1>2, FeedAssumption, Zenon DEF Locked
    <2> QED
      BY <1>2, <1>7, <1>8, <1>11, <2>1 DEF Locked
  <1>13. Halves'
    <2>1. \A q \in FeedSender : sending'[q] = "idle" => \A s \in Listener : find(heard'[s], q) = {}
      BY <1>1, <1>2, <1>7 DEF Halves
    <2>2. \A s \in Listener : find(heard'[s], p) = {}
      BY <1>1, <1>2, Zenon DEF Halves
    <2>3. \A i \in 1 .. Len(sendCases') : sendCases'[i] \in Listener /\ i <= active'
      BY <1>2, <1>5
    <2> QED
      BY <1>2, <2>1, <2>2, <2>3, Zenon DEF Halves
  <1>14. InOrder(heard)'
    BY <1>1, <1>2, Zenon
  <1> QED
    BY <1>9, <1>10, <1>12, <1>13, <1>14, Zenon DEF FeedInv

\* Select chooses a channel with room.
LEMMA SelectSendInv ==
  ASSUME FeedInv, NEW p \in FeedSender, SelectSend(p)
  PROVE FeedInv'
  <1>1. FeedTypes /\ Locked
    BY Zenon DEF FeedInv
  <1>2. /\ sending[p] = "select" /\ sending' = [sending EXCEPT ![p] = "try"] /\ at' = 1
        /\ inbox' = inbox /\ sendLock' = sendLock /\ sub' = sub
    BY Zenon DEF SelectSend
  <1>3. PICK i \in 1 .. active : DeliverTo(p, i)
    BY Zenon DEF SelectSend
  <1>4. sendLock = p /\ sending \in [FeedSender -> {"idle", "try", "select", "done"}]
    BY <1>1, <1>2 DEF Locked, FeedTypes
  <1>5. /\ sending' \in [FeedSender -> {"idle", "try", "select", "done"}] /\ sending'[p] = "try"
        /\ \A q \in FeedSender : q # p => sending'[q] = sending[q]
    BY <1>2, <1>4
  <1>6. \A q \in FeedSender : sending'[q] = "idle" => sending[q] = "idle"
    BY <1>5
  <1>7. /\ sendCases' \in Seq(Listener) /\ active' \in Nat /\ active' <= Len(sendCases')
        /\ unread' \in [Listener -> Nat] /\ heard' \in [Listener -> Seq(FeedSender)]
        /\ Listed' /\ Halves' /\ InOrder(heard)'
    BY <1>2, <1>3, <1>4, <1>6, DeliverInv, Zenon
  <1>8. at' \in Nat /\ at' # 0
    BY <1>2
  <1>9. FeedTypes'
    BY <1>1, <1>2, <1>5, <1>7, <1>8, Zenon DEF FeedTypes
  <1>10. Locked'
    BY <1>1, <1>2, <1>4, <1>5, <1>7, <1>8, FeedAssumption DEF Locked
  <1> QED
    BY <1>7, <1>9, <1>10, Zenon DEF FeedInv

\* Select chooses removeSub.
LEMMA SelectRemoveInv ==
  ASSUME FeedInv, NEW p \in FeedSender, SelectRemove(p)
  PROVE FeedInv'
  <1>1. FeedTypes /\ Listed /\ Locked /\ Halves /\ InOrder(heard)
    BY Zenon DEF FeedInv
  <1>2. /\ sending[p] = "select" /\ sending' = [sending EXCEPT ![p] = "try"] /\ at' = 1
        /\ inbox' = inbox /\ sendLock' = sendLock /\ unread' = unread /\ heard' = heard
    BY Zenon DEF SelectRemove
  <1>3. PICK s \in Listener : /\ sub[s] = "removing" /\ sub' = [sub EXCEPT ![s] = "left"]
                              /\ \E i \in find(sendCases, s) :
                                   sendCases' = delete(sendCases, i) /\ active' = ShrunkTo(i, active)
    BY Zenon DEF SelectRemove
  <1>4. PICK i \in find(sendCases, s) : sendCases' = delete(sendCases, i) /\ active' = ShrunkTo(i, active)
    BY <1>3, Zenon
  <1>5. sendLock = p /\ sending \in [FeedSender -> {"idle", "try", "select", "done"}] /\ p # NoSender
    BY <1>1, <1>2, FeedAssumption DEF Locked, FeedTypes
  <1>6. /\ sending' \in [FeedSender -> {"idle", "try", "select", "done"}] /\ sending'[p] = "try"
        /\ \A q \in FeedSender : q # p => sending'[q] = sending[q]
    BY <1>2, <1>5
  <1>7. /\ sendCases' \in Seq(Listener) /\ sub' \in [Listener -> {"out", "in", "removing", "left"}] /\ Listed'
        /\ active' \in Nat /\ active' <= Len(sendCases')
        /\ \A j \in 1 .. Len(sendCases') : \E k \in 1 .. Len(sendCases) :
             sendCases'[j] = sendCases[k] /\ (j <= active' <=> k <= active)
    BY <1>2, <1>3, <1>4, LeaveInv, Zenon
  <1>8. at' \in Nat /\ at' # 0
    BY <1>2
  <1>9. FeedTypes'
    BY <1>1, <1>2, <1>6, <1>7, <1>8, Zenon DEF FeedTypes
  <1>10. Locked'
    BY <1>1, <1>2, <1>5, <1>6, <1>7, <1>8 DEF Locked
  <1>11. Halves'
    <2>1. \A q \in FeedSender : sending'[q] = "idle" => \A t \in Listener : find(heard'[t], q) = {}
      BY <1>1, <1>2, <1>6 DEF Halves
    <2>2. ASSUME NEW j \in 1 .. Len(sendCases')
          PROVE j <= active' <=> find(heard'[sendCases'[j]], sendLock') = {}
      <3>1. PICK k \in 1 .. Len(sendCases) : sendCases'[j] = sendCases[k] /\ (j <= active' <=> k <= active)
        BY <1>7, Zenon
      <3>2. k <= active <=> find(heard[sendCases[k]], sendLock) = {}
        BY <1>1, <1>5, Zenon DEF Halves
      <3> QED
        BY <1>2, <3>1, <3>2, Zenon
    <2>3. \A t \in Listener : \A k \in find(heard'[t], sendLock') : k = Len(heard'[t])
      BY <1>1, <1>2, <1>5, Zenon DEF Halves
    <2> QED
      BY <2>1, <2>2, <2>3, Zenon DEF Halves
  <1>12. InOrder(heard)'
    BY <1>1, <1>2, Zenon
  <1> QED
    BY <1>7, <1>9, <1>10, <1>11, <1>12, Zenon DEF FeedInv

\* One turn of the loop over TrySend, or its end.
LEMMA TrySendInv ==
  ASSUME FeedInv, NEW p \in FeedSender, TrySend(p)
  PROVE FeedInv'
  <1>1. FeedTypes /\ Listed /\ Locked /\ Halves /\ InOrder(heard)
    BY Zenon DEF FeedInv
  <1>2. sending[p] = "try" /\ inbox' = inbox /\ sub' = sub
    BY Zenon DEF TrySend
  <1>3. sendLock = p /\ sending \in [FeedSender -> {"idle", "try", "select", "done"}] /\ p # NoSender
        /\ at \in Nat /\ at # 0 /\ active \in Nat
    BY <1>1, <1>2, FeedAssumption DEF Locked, FeedTypes
  <1>4. CASE at <= active /\ DeliverTo(p, at) /\ UNCHANGED <<at, sending, sendLock>>
    <2>1. at' = at /\ sending' = sending /\ sendLock' = sendLock
      BY <1>4, Zenon
    <2>2. at \in 1 .. active
      BY <1>3, <1>4
    <2>3. /\ sendCases' \in Seq(Listener) /\ active' \in Nat /\ active' <= Len(sendCases')
          /\ unread' \in [Listener -> Nat] /\ heard' \in [Listener -> Seq(FeedSender)]
          /\ Listed' /\ Halves' /\ InOrder(heard)'
      BY <1>2, <1>3, <1>4, <2>1, <2>2, DeliverInv, Zenon
    <2>4. FeedTypes'
      BY <1>1, <1>2, <2>1, <2>3, Zenon DEF FeedTypes
    <2>5. Locked'
      BY <1>1, <1>3, <2>1, <2>3, Zenon DEF Locked
    <2> QED
      BY <2>3, <2>4, <2>5, Zenon DEF FeedInv
  <1>5. CASE at' = at + 1 /\ UNCHANGED <<unread, heard, sendCases, active, sending, sendLock>>
    <2>1. /\ unread' = unread /\ heard' = heard /\ sendCases' = sendCases /\ active' = active
          /\ sending' = sending /\ sendLock' = sendLock
      BY <1>5, Zenon
    <2>2. at' \in Nat /\ at' # 0
      BY <1>3, <1>5
    <2>3. FeedTypes'
      BY <1>1, <1>2, <2>1, <2>2, Zenon DEF FeedTypes
    <2>4. Listed' /\ Locked' /\ Halves' /\ InOrder(heard)'
      BY <1>1, <1>2, <2>1, <2>2, Zenon DEF Listed, Locked, Halves
    <2> QED
      BY <2>3, <2>4, Zenon DEF FeedInv
  <1>6. CASE /\ IF active = 0
                THEN sendLock' = NoSender /\ sending' = [sending EXCEPT ![p] = "done"]
                ELSE sending' = [sending EXCEPT ![p] = "select"] /\ UNCHANGED sendLock
             /\ UNCHANGED <<at, unread, heard, sendCases, active>>
    <2>1. /\ at' = at /\ unread' = unread /\ heard' = heard /\ sendCases' = sendCases /\ active' = active
      BY <1>6, Zenon
    <2>2. /\ sending' \in [FeedSender -> {"idle", "try", "select", "done"}]
          /\ \A q \in FeedSender : q # p => sending'[q] = sending[q]
          /\ \/ sendLock' = NoSender /\ sending'[p] = "done" /\ active = 0
             \/ sendLock' = p /\ sending'[p] = "select"
      BY <1>3, <1>6
    <2>3. FeedTypes'
      BY <1>1, <1>2, <1>3, <2>1, <2>2, Zenon DEF FeedTypes
    <2>4. Listed' /\ InOrder(heard)'
      BY <1>1, <1>2, <2>1, Zenon DEF Listed
    <2>5. Locked'
      BY <1>1, <1>3, <2>1, <2>2, FeedAssumption DEF Locked
    <2>6. Halves'
      BY <1>1, <1>3, <2>1, <2>2 DEF Halves
    <2> QED
      BY <2>3, <2>4, <2>5, <2>6, Zenon DEF FeedInv
  <1> QED
    BY <1>4, <1>5, <1>6, Zenon DEF TrySend

\* Every step keeps the invariant.
LEMMA FeedNextInv == FeedInv /\ [FeedNext]_feedVars => FeedInv'
  <1> SUFFICES ASSUME FeedInv, [FeedNext]_feedVars PROVE FeedInv'
    OBVIOUS
  <1>1. CASE UNCHANGED feedVars
    BY <1>1, Zenon DEF feedVars, FeedInv, FeedTypes, Listed, Locked, Halves
  <1>2. CASE \E s \in Listener : Subscribe(s) \/ Unsubscribe(s) \/ RemoveNow(s) \/ Receive(s)
    BY <1>2, SubscribeInv, UnsubscribeInv, RemoveNowInv, ReceiveInv, Zenon
  <1>3. CASE \E p \in FeedSender : SendStep(p)
    BY <1>3, TakeSendLockInv, TrySendInv, SelectSendInv, SelectRemoveInv, Zenon DEF SendStep
  <1> QED
    BY <1>1, <1>2, <1>3, Zenon DEF FeedNext

\* A Send that returns has an empty slice `cases', so every channel listed is
\* in the other half.
LEMMA DoneServes ==
  ASSUME FeedInv, [FeedNext]_feedVars, NEW p \in FeedSender,
         sending[p] # "done", sending'[p] = "done",
         NEW s \in Listener, sub[s] = "in", find(inbox, s) = {}
  PROVE find(heard[s], p) # {}
  <1>1. FeedTypes /\ Listed /\ Locked /\ Halves
    BY Zenon DEF FeedInv
  <1>2. sending \in [FeedSender -> {"idle", "try", "select", "done"}] /\ sendCases \in Seq(Listener)
    BY <1>1, Zenon DEF FeedTypes
  <1>3. TrySend(p) /\ active = 0
    <2>1. sending' # sending
      BY Zenon
    <2>2. PICK q \in FeedSender : SendStep(q)
      BY <2>1, Zenon DEF FeedNext, feedVars, Subscribe, Unsubscribe, RemoveNow, Receive
    <2>3. ~TakeSendLock(q) /\ ~SelectSend(q) /\ ~SelectRemove(q)
      BY <1>2 DEF TakeSendLock, SelectSend, SelectRemove
    <2>4. TrySend(q)
      BY <2>2, <2>3, Zenon DEF SendStep
    <2>5. IF active = 0 THEN sending' = [sending EXCEPT ![q] = "done"]
                        ELSE sending' = [sending EXCEPT ![q] = "select"]
      BY <2>1, <2>4, Zenon DEF TrySend
    <2>6. q = p /\ active = 0
      BY <1>2, <2>5
    <2> QED
      BY <2>4, <2>6, Zenon
  <1>4. sendLock = p /\ p # NoSender
    BY <1>1, <1>3, FeedAssumption DEF TrySend, Locked
  <1>5. find(sendCases, s) # {}
    BY <1>1 DEF Listed
  <1>6. PICK i \in 1 .. Len(sendCases) : sendCases[i] = s
    BY <1>5, Zenon DEF find
  <1>7. ~(i <= active)
    BY <1>3, <1>6
  <1> QED
    BY <1>1, <1>4, <1>6, <1>7, Zenon DEF Halves

\* A channel that has been removed is in no list, so no delivery is to it.
LEMMA LeftHearsNothing ==
  ASSUME FeedInv, [FeedNext]_feedVars, NEW s \in Listener, sub[s] = "left"
  PROVE heard'[s] = heard[s]
  <1>1. FeedTypes /\ Listed /\ Locked
    BY Zenon DEF FeedInv
  <1>2. /\ sendCases \in Seq(Listener) /\ heard \in [Listener -> Seq(FeedSender)]
        /\ active \in Nat /\ active <= Len(sendCases) /\ at \in Nat
    BY <1>1, Zenon DEF FeedTypes, Locked
  <1>3. ASSUME NEW p \in FeedSender, NEW i \in 1 .. active, DeliverTo(p, i) PROVE heard'[s] = heard[s]
    <2>1. i \in 1 .. Len(sendCases) /\ sendCases[i] \in Listener
      BY <1>2
    <2>2. sub[sendCases[i]] \in {"in", "removing"}
      BY <1>1, <2>1, Zenon DEF Listed, find
    <2>3. sendCases[i] # s
      BY <2>2
    <2>4. heard' = [heard EXCEPT ![sendCases[i]] = Append(@, p)]
      BY <1>3, Zenon DEF DeliverTo
    <2> QED
      BY <1>2, <2>3, <2>4, Zenon
  <1>4. ASSUME NEW p \in FeedSender, TrySend(p) PROVE heard'[s] = heard[s]
    <2>1. at # 0
      BY <1>1, <1>4, Zenon DEF TrySend, Locked
    <2>2. CASE at <= active /\ DeliverTo(p, at)
      BY <1>2, <1>3, <2>1, <2>2
    <2> QED
      BY <1>4, <2>2, Zenon DEF TrySend
  <1>5. ASSUME NEW p \in FeedSender, SendStep(p) PROVE heard'[s] = heard[s]
    <2>1. CASE TakeSendLock(p)
      BY <2>1, Zenon DEF TakeSendLock
    <2>2. CASE SelectSend(p)
      BY <1>3, <2>2, Zenon DEF SelectSend
    <2>3. CASE SelectRemove(p)
      BY <2>3, Zenon DEF SelectRemove
    <2> QED
      BY <1>4, <1>5, <2>1, <2>2, <2>3, Zenon DEF SendStep
  <1>6. CASE UNCHANGED feedVars
    BY <1>6, Zenon DEF feedVars
  <1>7. CASE \E t \in Listener : Subscribe(t) \/ Unsubscribe(t) \/ RemoveNow(t) \/ Receive(t)
    BY <1>7, Zenon DEF Subscribe, Unsubscribe, RemoveNow, Receive
  <1> QED
    BY <1>5, <1>6, <1>7, Zenon DEF FeedNext

(***************************************************************************)
(* Feed.Send and Feed.remove, for any channels, senders and capacity: all  *)
(* channels see the values in one order and none twice, a Send that        *)
(* returns has delivered to whoever was subscribed when it began and is    *)
(* still, and nothing is sent on a channel once Unsubscribe has returned.  *)
(***************************************************************************)
THEOREM FeedSafe == FeedSpec => []SameOrder /\ AllServed /\ SilentAfterLeave
  <1>1. FeedInv => SameOrder
    BY Zenon DEF FeedInv, InOrder, Crossed, SameOrder
  <1>2. FeedInv /\ [FeedNext]_feedVars =>
          [\A p \in FeedSender : sending[p] # "done" /\ sending'[p] = "done"
             => \A s \in Listener : sub[s] = "in" /\ find(inbox, s) = {} => find(heard[s], p) # {}]_feedVars
    BY DoneServes, Zenon
  <1>3. FeedInv /\ [FeedNext]_feedVars =>
          [\A s \in Listener : sub[s] = "left" => heard'[s] = heard[s]]_feedVars
    BY LeftHearsNothing, Zenon
  <1> QED
    BY <1>1, <1>2, <1>3, FeedInitInv, FeedNextInv, PTL DEF FeedSpec, AllServed, SilentAfterLeave
=============================================================================
