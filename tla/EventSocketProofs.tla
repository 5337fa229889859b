-------------------------- MODULE EventSocketProofs --------------------------
(***************************************************************************)
(* Theorems about EventSocket, for every number of subscribers and events  *)
(* and every size of the buffer.                                           *)
(***************************************************************************)
EXTENDS EventSocket, TLAPS

\* What a send and a receive do to a channel within its bound.
LEMMA ChannelTyped ==
    ASSUME NEW c \in Seq(Line \cup {Wake}), Len(c) <= Buffer
    PROVE /\ \A x \in Line \cup {Wake} : Append(c, x) \in Seq(Line \cup {Wake}) /\ Append(c, x) # <<>>
          /\ \A x \in Line \cup {Wake} : Len(c) < Buffer => Len(Append(c, x)) <= Buffer
          /\ c # <<>> => /\ Head(c) \in Line \cup {Wake}
                         /\ Tail(c) \in Seq(Line \cup {Wake})
                         /\ Len(Tail(c)) < Buffer
          /\ c = <<>> => Len(c) < Buffer
BY BufferAssumption, SMTT(30)

\* What they do to a list of coordination events.
LEMMA ListTyped ==
    ASSUME NEW c \in Seq(Line)
    PROVE /\ \A x \in Line : Append(c, x) \in Seq(Line)
          /\ c # <<>> => Head(c) \in Line /\ Tail(c) \in Seq(Line)
OBVIOUS

LEMMA TypeKept == TypeOK /\ [Next]_vars => TypeOK'
<1> SUFFICES ASSUME TypeOK, [Next]_vars PROVE TypeOK'
  OBVIOUS
<1> USE DEF TypeOK, publisher, reader
<1>1. CASE Publish
  BY <1>1, LineAssumption DEF Publish, Unlocked, Line, TypeSocket, TypeChannels, TypeReaders
<1>2. CASE CloseAll
  <2>1. TypeSocket'
    BY <1>2 DEF CloseAll, TypeSocket
  <2>2. TypeChannels'
    BY <1>2 DEF CloseAll, TypeChannels
  <2>3. TypeReaders'
    BY <1>2 DEF CloseAll, TypeReaders
  <2>4. QED
    BY <2>1, <2>2, <2>3
<1>3. ASSUME NEW s \in Sub, Add(s) PROVE TypeOK'
  <2>1. TypeSocket'
    BY <1>3 DEF Add, Unlocked, TypeSocket
  <2>2. TypeChannels'
    BY <1>3 DEF Add, Unlocked, TypeChannels
  <2>3. TypeReaders'
    BY <1>3 DEF Add, Unlocked, TypeReaders, TypeSocket
  <2>4. QED
    BY <2>1, <2>2, <2>3
<1>4. ASSUME NEW s \in Sub, Remove(s) PROVE TypeOK'
  <2>1. TypeSocket'
    BY <1>4 DEF Remove, Unlocked, TypeSocket
  <2>2. TypeChannels'
    BY <1>4 DEF Remove, Unlocked, TypeChannels
  <2>3. TypeReaders'
    BY <1>4 DEF Remove, Unlocked, TypeReaders
  <2>4. QED
    BY <2>1, <2>2, <2>3
<1>5. ASSUME NEW s \in Sub, Offer(s) PROVE TypeOK'
  <2>1. TypeSocket'
    BY <1>5 DEF Offer, Served, TypeSocket
  <2>2. TypeChannels'
    BY <1>5, ChannelTyped, LineAssumption DEF Offer, Served, TypeChannels, Wake, TypeSocket
  <2>3. TypeReaders'
    BY <1>5 DEF Offer, TypeReaders
  <2>4. QED
    BY <2>1, <2>2, <2>3
<1>6. ASSUME NEW s \in Sub, Prioritise(s) PROVE TypeOK'
  <2>1. TypeSocket'
    BY <1>6 DEF Prioritise, TypeSocket
  <2>2. TypeChannels'
    BY <1>6, ListTyped, LineAssumption DEF Prioritise, TypeChannels, TypeSocket
  <2>3. TypeReaders'
    BY <1>6 DEF Prioritise, TypeReaders
  <2>4. QED
    BY <2>1, <2>2, <2>3
<1>7. ASSUME NEW s \in Sub, TryWake(s) PROVE TypeOK'
  <2>1. TypeSocket'
    BY <1>7 DEF TryWake, Served, TypeSocket
  <2>2. TypeChannels'
    <3>1. CASE Len(ch[s]) < Buffer
      <4>1. /\ Append(ch[s], Wake) \in Seq(Line \cup {Wake})
            /\ Len(Append(ch[s], Wake)) <= Buffer
        BY <3>1, ChannelTyped DEF TypeChannels
      <4>2. ch' = [ch EXCEPT ![s] = Append(@, Wake)]
        BY <1>7, <3>1 DEF TryWake
      <4>3. QED
        BY <1>7, <4>1, <4>2 DEF TryWake, TypeChannels
    <3>2. CASE ~(Len(ch[s]) < Buffer)
      BY <1>7, <3>2 DEF TryWake, TypeChannels
    <3>3. QED
      BY <3>1, <3>2
  <2>3. TypeReaders'
    BY <1>7 DEF TryWake, TypeReaders
  <2>4. QED
    BY <2>1, <2>2, <2>3
<1>8. ASSUME NEW s \in Sub, DropOldest(s) PROVE TypeOK'
  <2>1. TypeSocket'
    BY <1>8 DEF DropOldest, TypeSocket
  <2>2. TypeChannels'
    BY <1>8, ChannelTyped, BufferAssumption DEF DropOldest, TypeChannels, Wake
  <2>3. TypeReaders'
    BY <1>8 DEF DropOldest, TypeReaders
  <2>4. QED
    BY <2>1, <2>2, <2>3
<1>9. ASSUME NEW s \in Sub, ForceWake(s) PROVE TypeOK'
  <2>1. TypeSocket'
    BY <1>9 DEF ForceWake, Served, TypeSocket
  <2>2. TypeChannels'
    BY <1>9, ChannelTyped DEF ForceWake, Served, TypeChannels, Wake
  <2>3. TypeReaders'
    BY <1>9 DEF ForceWake, TypeReaders
  <2>4. QED
    BY <2>1, <2>2, <2>3
<1>10. ASSUME NEW s \in Sub, Check(s) PROVE TypeOK'
  <2>1. TypeSocket'
    BY <1>10 DEF Check, TypeSocket
  <2>2. TypeChannels'
    BY <1>10, ListTyped DEF Check, TypeChannels
  <2>3. TypeReaders'
    <3>1. CASE priority[s] = <<>>
      BY <1>10, <3>1 DEF Check, TypeReaders
    <3>2. CASE priority[s] # <<>>
      <4>1. Head(priority[s]) \in Line /\ Head(priority[s]) # 0
        BY <3>2, ListTyped, LineAssumption DEF TypeChannels, Line
      <4>2. QED
        BY <1>10, <3>2, <4>1 DEF Check, TypeReaders
    <3>3. QED
      BY <3>1, <3>2
  <2>4. QED
    BY <2>1, <2>2, <2>3
<1>11. ASSUME NEW s \in Sub, Receive(s) PROVE TypeOK'
  <2>1. TypeSocket'
    BY <1>11 DEF Receive, TypeSocket
  <2>2. TypeChannels'
    <3>1. ch[s] \in Seq(Line \cup {Wake}) /\ Len(ch[s]) <= Buffer /\ ch[s] # <<>>
      BY <1>11 DEF Receive, TypeChannels
    <3>2. Tail(ch[s]) \in Seq(Line \cup {Wake}) /\ Len(Tail(ch[s])) < Buffer
      BY <3>1, ChannelTyped
    <3>3. Len(Tail(ch[s])) <= Buffer
      BY <3>2, BufferAssumption
    <3>4. QED
      BY <1>11, <3>2, <3>3 DEF Receive, TypeChannels
  <2>3. TypeReaders'
    <3>1. CASE Head(ch[s]) = Wake
      BY <1>11, <3>1 DEF Receive, TypeReaders
    <3>2. CASE Head(ch[s]) # Wake
      <4>1. Head(ch[s]) \in Line /\ Head(ch[s]) # 0
        BY <1>11, <3>2, ChannelTyped DEF Receive, TypeChannels, Wake
      <4>2. QED
        BY <1>11, <3>2, <4>1 DEF Receive, TypeReaders
    <3>3. QED
      BY <3>1, <3>2
  <2>4. QED
    BY <2>1, <2>2, <2>3
<1>12. ASSUME NEW s \in Sub, ReceiveClosed(s) PROVE TypeOK'
  <2>1. TypeSocket'
    BY <1>12 DEF ReceiveClosed, TypeSocket
  <2>2. TypeChannels'
    BY <1>12 DEF ReceiveClosed, TypeChannels
  <2>3. TypeReaders'
    BY <1>12 DEF ReceiveClosed, TypeReaders
  <2>4. QED
    BY <2>1, <2>2, <2>3
<1>13. ASSUME NEW s \in Sub, Write(s) PROVE TypeOK'
  <2>1. TypeSocket'
    BY <1>13 DEF Write, TypeSocket
  <2>2. TypeChannels'
    BY <1>13, ListTyped DEF Write, TypeChannels, TypeReaders
  <2>3. TypeReaders'
    BY <1>13, ListTyped DEF Write, TypeReaders
  <2>4. QED
    BY <2>1, <2>2, <2>3
<1>14. ASSUME NEW s \in Sub, WriteFails(s) PROVE TypeOK'
  <2>1. TypeSocket'
    BY <1>14 DEF WriteFails, TypeSocket
  <2>2. TypeChannels'
    BY <1>14 DEF WriteFails, TypeChannels
  <2>3. TypeReaders'
    BY <1>14 DEF WriteFails, TypeReaders
  <2>4. QED
    BY <2>1, <2>2, <2>3
<1>15. CASE UNCHANGED vars
  BY <1>15 DEF vars, TypeSocket, TypeChannels, TypeReaders
<1>16. QED
  BY <1>1, <1>2, <1>3, <1>4, <1>5, <1>6, <1>7, <1>8, <1>9, <1>10, <1>11, <1>12, <1>13,
     <1>14, <1>15
  DEF Next, Visit, Read

\* Every variable keeps its type: no channel holds more than the buffer.
THEOREM SocketTyped == Spec => []TypeOK
<1>1. Init => TypeOK
  <2>1. <<>> \in Seq(Line) /\ <<>> \in Seq(Line \cup {Wake}) /\ Len(<<>>) = 0
    OBVIOUS
  <2>2. Init => TypeSocket
    <3>1. Init => closed \in BOOLEAN /\ stage \in {"try", "drop", "force"}
      BY DEF Init
    <3>2. Init => /\ subs \in SUBSET Sub /\ todo \in SUBSET Sub
                  /\ published \in 0..MaxLines
      BY LineAssumption DEF Init
    <3>3. Init => event \in Line \cup {0} /\ waking \in Sub \cup {NoSub}
      BY DEF Init
    <3>4. QED
      BY <3>1, <3>2, <3>3 DEF TypeSocket
  <2>3. Init => TypeChannels
    <3>1. ASSUME Init
          PROVE /\ ch \in [Sub -> Seq(Line \cup {Wake})]
                /\ \A s \in Sub : Len(ch[s]) <= Buffer
                /\ priority \in [Sub -> Seq(Line)]
      BY <2>1, <3>1, BufferAssumption DEF Init
    <3>2. Init => chClosed \in [Sub -> BOOLEAN]
      BY DEF Init
    <3>3. QED
      BY <3>1, <3>2 DEF TypeChannels
  <2>4. Init => TypeReaders
    BY <2>1, LineAssumption DEF Init, TypeReaders
  <2>5. QED
    BY <2>2, <2>3, <2>4 DEF TypeOK
<1>2. QED
  BY <1>1, TypeKept, PTL DEF Spec

\* SendsOnlyToOpen rests on the mutex: while it is free nobody is to be
\* visited, and what is registered is open.
OpenInv ==
    /\ event = 0 => todo = {}
    /\ todo \subseteq subs
    /\ \A s \in subs : ~chClosed[s] /\ at[s] \notin {"none", "done"}
    /\ \A s \in Sub : at[s] = "none" => ~chClosed[s]

LEMMA OpenKept == TypeOK /\ OpenInv /\ [Next]_vars => OpenInv'
<1> SUFFICES ASSUME TypeOK, OpenInv, [Next]_vars PROVE OpenInv'
  OBVIOUS
<1> USE DEF TypeOK, TypeSocket, TypeChannels, TypeReaders, OpenInv, publisher, reader
<1>1. CASE Publish
  BY <1>1 DEF Publish, Unlocked
<1>2. CASE CloseAll
  BY <1>2 DEF CloseAll, Unlocked
<1>3. ASSUME NEW s \in Sub, Add(s) PROVE OpenInv'
  BY <1>3 DEF Add, Unlocked
<1>4. ASSUME NEW s \in Sub, Remove(s) PROVE OpenInv'
  BY <1>4 DEF Remove, Unlocked
<1>5. ASSUME NEW s \in Sub, Offer(s) PROVE OpenInv'
  BY <1>5 DEF Offer, Served
<1>6. ASSUME NEW s \in Sub, Prioritise(s) PROVE OpenInv'
  BY <1>6 DEF Prioritise
<1>7. ASSUME NEW s \in Sub, TryWake(s) PROVE OpenInv'
  BY <1>7 DEF TryWake, Served
<1>8. ASSUME NEW s \in Sub, DropOldest(s) PROVE OpenInv'
  BY <1>8 DEF DropOldest
<1>9. ASSUME NEW s \in Sub, ForceWake(s) PROVE OpenInv'
  BY <1>9 DEF ForceWake, Served
<1>10. ASSUME NEW s \in Sub, Check(s) PROVE OpenInv'
  BY <1>10 DEF Check
<1>11. ASSUME NEW s \in Sub, Receive(s) PROVE OpenInv'
  BY <1>11 DEF Receive
<1>12. ASSUME NEW s \in Sub, ReceiveClosed(s) PROVE OpenInv'
  BY <1>12 DEF ReceiveClosed
<1>13. ASSUME NEW s \in Sub, Write(s) PROVE OpenInv'
  BY <1>13 DEF Write
<1>14. ASSUME NEW s \in Sub, WriteFails(s) PROVE OpenInv'
  BY <1>14 DEF WriteFails
<1>15. CASE UNCHANGED vars
  BY <1>15 DEF vars
<1>16. QED
  BY <1>1, <1>2, <1>3, <1>4, <1>5, <1>6, <1>7, <1>8, <1>9, <1>10, <1>11, <1>12, <1>13,
     <1>14, <1>15
  DEF Next, Visit, Read

\* Publish never sends on a closed channel.
THEOREM NeverSendsOnClosed == Spec => []SendsOnlyToOpen
<1>1. Init => OpenInv
  BY DEF Init, OpenInv
<1>2. OpenInv => SendsOnlyToOpen
  BY DEF OpenInv, SendsOnlyToOpen
<1>3. QED
  BY <1>1, <1>2, OpenKept, SocketTyped, PTL DEF Spec

LEMMA RoomKept == TypeOK /\ WakeHasRoom /\ [Next]_vars => WakeHasRoom'
<1> SUFFICES ASSUME TypeOK, WakeHasRoom, [Next]_vars PROVE WakeHasRoom'
  OBVIOUS
<1> USE DEF TypeOK, TypeSocket, TypeChannels, TypeReaders, WakeHasRoom, publisher, reader
<1>1. CASE Publish
  BY <1>1 DEF Publish, Unlocked
<1>2. CASE CloseAll
  BY <1>2 DEF CloseAll, Unlocked
<1>3. ASSUME NEW s \in Sub, Add(s) PROVE WakeHasRoom'
  BY <1>3 DEF Add, Unlocked
<1>4. ASSUME NEW s \in Sub, Remove(s) PROVE WakeHasRoom'
  BY <1>4 DEF Remove, Unlocked
<1>5. ASSUME NEW s \in Sub, Offer(s) PROVE WakeHasRoom'
  BY <1>5 DEF Offer, Served
<1>6. ASSUME NEW s \in Sub, Prioritise(s) PROVE WakeHasRoom'
  BY <1>6 DEF Prioritise
<1>7. ASSUME NEW s \in Sub, TryWake(s) PROVE WakeHasRoom'
  BY <1>7 DEF TryWake, Served
<1>8. ASSUME NEW s \in Sub, DropOldest(s) PROVE WakeHasRoom'
  BY <1>8, ChannelTyped DEF DropOldest
<1>9. ASSUME NEW s \in Sub, ForceWake(s) PROVE WakeHasRoom'
  BY <1>9 DEF ForceWake, Served
<1>10. ASSUME NEW s \in Sub, Check(s) PROVE WakeHasRoom'
  BY <1>10 DEF Check
<1>11. ASSUME NEW s \in Sub, Receive(s) PROVE WakeHasRoom'
  BY <1>11, ChannelTyped DEF Receive
<1>12. ASSUME NEW s \in Sub, ReceiveClosed(s) PROVE WakeHasRoom'
  BY <1>12 DEF ReceiveClosed
<1>13. ASSUME NEW s \in Sub, Write(s) PROVE WakeHasRoom'
  BY <1>13 DEF Write
<1>14. ASSUME NEW s \in Sub, WriteFails(s) PROVE WakeHasRoom'
  BY <1>14 DEF WriteFails
<1>15. CASE UNCHANGED vars
  BY <1>15 DEF vars
<1>16. QED
  BY <1>1, <1>2, <1>3, <1>4, <1>5, <1>6, <1>7, <1>8, <1>9, <1>10, <1>11, <1>12, <1>13,
     <1>14, <1>15
  DEF Next, Visit, Read

\* The send that forces a wake always finds room: Publish cannot block with
\* the mutex held, whatever the subscribers do.
THEOREM WakeNeverBlocks == Spec => []WakeHasRoom
<1>1. Init => WakeHasRoom
  BY DEF Init, WakeHasRoom
<1>2. QED
  BY <1>1, RoomKept, SocketTyped, PTL DEF Spec

LEMMA WakeKept == TypeOK /\ NoLostWakeup /\ [Next]_vars => NoLostWakeup'
<1> SUFFICES ASSUME TypeOK, NoLostWakeup, [Next]_vars PROVE NoLostWakeup'
  OBVIOUS
<1> USE DEF TypeOK, TypeSocket, TypeChannels, TypeReaders, NoLostWakeup, Wake, publisher, reader
<1>1. CASE Publish
  BY <1>1 DEF Publish, Unlocked
<1>2. CASE CloseAll
  BY <1>2 DEF CloseAll, Unlocked
<1>3. ASSUME NEW s \in Sub, Add(s) PROVE NoLostWakeup'
  BY <1>3 DEF Add, Unlocked
<1>4. ASSUME NEW s \in Sub, Remove(s) PROVE NoLostWakeup'
  BY <1>4 DEF Remove, Unlocked
<1>5. ASSUME NEW s \in Sub, Offer(s) PROVE NoLostWakeup'
  BY <1>5, ChannelTyped, SubAssumption DEF Offer, Served
<1>6. ASSUME NEW s \in Sub, Prioritise(s) PROVE NoLostWakeup'
  BY <1>6, SubAssumption DEF Prioritise
<1>7. ASSUME NEW s \in Sub, TryWake(s) PROVE NoLostWakeup'
  <2>1. CASE Len(ch[s]) < Buffer
    <3>1. ch'[s] # <<>> /\ \A t \in Sub \ {s} : ch'[t] = ch[t]
      BY <1>7, <2>1, ChannelTyped DEF TryWake
    <3>2. QED
      BY <1>7, <2>1, <3>1 DEF TryWake
  <2>2. CASE ~(Len(ch[s]) < Buffer)
    BY <1>7, <2>2 DEF TryWake
  <2>3. QED
    BY <2>1, <2>2
<1>8. ASSUME NEW s \in Sub, DropOldest(s) PROVE NoLostWakeup'
  BY <1>8 DEF DropOldest
<1>9. ASSUME NEW s \in Sub, ForceWake(s) PROVE NoLostWakeup'
  BY <1>9, ChannelTyped DEF ForceWake, Served
<1>10. ASSUME NEW s \in Sub, Check(s) PROVE NoLostWakeup'
  BY <1>10 DEF Check
<1>11. ASSUME NEW s \in Sub, Receive(s) PROVE NoLostWakeup'
  BY <1>11 DEF Receive
<1>12. ASSUME NEW s \in Sub, ReceiveClosed(s) PROVE NoLostWakeup'
  BY <1>12 DEF ReceiveClosed
<1>13. ASSUME NEW s \in Sub, Write(s) PROVE NoLostWakeup'
  BY <1>13 DEF Write
<1>14. ASSUME NEW s \in Sub, WriteFails(s) PROVE NoLostWakeup'
  BY <1>14 DEF WriteFails
<1>15. CASE UNCHANGED vars
  BY <1>15 DEF vars
<1>16. QED
  BY <1>1, <1>2, <1>3, <1>4, <1>5, <1>6, <1>7, <1>8, <1>9, <1>10, <1>11, <1>12, <1>13,
     <1>14, <1>15
  DEF Next, Visit, Read

\* No reader sleeps on while coordination events wait for it.
THEOREM WakeupNeverLost == Spec => []NoLostWakeup
<1>1. Init => NoLostWakeup
  BY DEF Init, NoLostWakeup
<1>2. QED
  BY <1>1, WakeKept, SocketTyped, PTL DEF Spec


-----------------------------------------------------------------------------
(* What a subscriber is sent, and in which order.                          *)

\* The members of a sequence after a send and before a receive.
LEMMA Members ==
    ASSUME NEW S, NEW c \in Seq(S)
    PROVE /\ \A x : Range(Append(c, x)) = Range(c) \cup {x}
          /\ c # <<>> => Range(c) = {Head(c)} \cup Range(Tail(c))
          /\ Range(c) \subseteq S
<1>1. ASSUME NEW x PROVE Range(Append(c, x)) = Range(c) \cup {x}
  <2>1. DOMAIN Append(c, x) = 1..(Len(c) + 1) /\ DOMAIN c = 1..Len(c) /\ Len(c) \in Nat
    OBVIOUS
  <2>2. \A j \in 1..Len(c) : Append(c, x)[j] = c[j]
    OBVIOUS
  <2>3. Append(c, x)[Len(c) + 1] = x
    OBVIOUS
  <2>4. Range(Append(c, x)) \subseteq Range(c) \cup {x}
    BY <2>1, <2>2, <2>3 DEF Range
  <2>5. \A y \in Range(c) : y \in Range(Append(c, x))
    BY <2>1, <2>2 DEF Range
  <2>6. x \in Range(Append(c, x))
    BY <2>1, <2>3 DEF Range
  <2>7. QED
    BY <2>4, <2>5, <2>6
<1>2. ASSUME c # <<>> PROVE Range(c) = {Head(c)} \cup Range(Tail(c))
  <2>1. /\ DOMAIN Tail(c) = 1..(Len(c) - 1) /\ DOMAIN c = 1..Len(c)
        /\ Len(c) \in Nat /\ Len(c) >= 1 /\ Head(c) = c[1]
    BY <1>2
  <2>2. \A j \in 1..(Len(c) - 1) : Tail(c)[j] = c[j + 1]
    BY <1>2
  <2>3. \A y \in Range(Tail(c)) : y \in Range(c)
    <3>1. ASSUME NEW j \in 1..(Len(c) - 1) PROVE Tail(c)[j] \in Range(c)
      <4>1. j + 1 \in DOMAIN c /\ Tail(c)[j] = c[j + 1]
        BY <2>1, <2>2
      <4>2. QED
        BY <4>1 DEF Range
    <3>2. QED
      BY <3>1, <2>1 DEF Range
  <2>4. Head(c) \in Range(c)
    BY <2>1 DEF Range
  <2>5. \A j \in 1..Len(c) : c[j] \in {Head(c)} \cup Range(Tail(c))
    <3>1. ASSUME NEW j \in 1..Len(c), j # 1 PROVE c[j] \in Range(Tail(c))
      <4>1. j - 1 \in DOMAIN Tail(c) /\ Tail(c)[j - 1] = c[j]
        BY <2>1, <2>2, <3>1
      <4>2. QED
        BY <4>1 DEF Range
    <3>2. QED
      BY <3>1, <2>1
  <2>6. QED
    BY <2>1, <2>3, <2>4, <2>5 DEF Range
<1>3. Range(c) \subseteq S
  BY DEF Range
<1>4. QED
  BY <1>1, <1>2, <1>3

\* e has reached the list of s, or its reader, or its peer.
Kept(s, e) ==
    \/ e \in Range(priority[s]) \cup Range(delivered[s])
    \/ e = holding[s] /\ at[s] \in {"write", "exit"}

\* CoordinationKept, with the reason why an event is not forgotten between
\* its place in the list of s and the end of the visit to s.
KeptInv ==
    /\ event # 0 => event = published
    /\ waking # NoSub => waking \in todo /\ Kept(waking, event)
    /\ \A s \in subs : \A e \in Coord :
           joined[s] < e /\ e <= published => Kept(s, e) \/ (e = event /\ s \in todo)

\* No action forgets what a subscriber was given, until it is removed.
LEMMA KeptStays ==
    ASSUME TypeOK, [Next]_vars, NEW s \in Sub, NEW e \in Line, Kept(s, e),
           event # 0 \/ s \in subs'
    PROVE Kept(s, e)'
<1> USE DEF TypeOK, TypeSocket, TypeChannels, TypeReaders, publisher, reader, Kept
<1>1. ASSUME UNCHANGED <<priority, delivered, holding>>,
             at[s] \in {"write", "exit"} => at'[s] \in {"write", "exit"}
      PROVE Kept(s, e)'
  BY <1>1
<1>2. CASE Publish \/ CloseAll \/ UNCHANGED vars
  BY <1>2, <1>1 DEF Publish, CloseAll, vars
<1>3. ASSUME NEW t \in Sub, Add(t) PROVE Kept(s, e)'
  BY <1>3 DEF Add
<1>4. ASSUME NEW t \in Sub, Remove(t) PROVE Kept(s, e)'
  BY <1>4 DEF Remove, Unlocked
<1>5. ASSUME NEW t \in Sub, Prioritise(t) PROVE Kept(s, e)'
  <2>1. Range(priority[t]) \subseteq Range(Append(priority[t], event))
    BY Members
  <2>2. QED
    BY <1>5, <2>1 DEF Prioritise
<1>6. ASSUME NEW t \in Sub, Offer(t) \/ TryWake(t) \/ DropOldest(t) \/ ForceWake(t) PROVE Kept(s, e)'
  BY <1>1, <1>6 DEF Offer, TryWake, DropOldest, ForceWake
<1>7. ASSUME NEW t \in Sub, Check(t) PROVE Kept(s, e)'
  <2>1. CASE t # s \/ priority[t] = <<>>
    BY <1>7, <2>1 DEF Check
  <2>2. CASE t = s /\ priority[s] # <<>>
    <3>1. Range(priority[s]) = {Head(priority[s])} \cup Range(Tail(priority[s]))
      BY <2>2, Members
    <3>2. /\ holding'[s] = Head(priority[s]) /\ priority'[s] = Tail(priority[s])
          /\ at'[s] = "write" /\ delivered' = delivered
      BY <1>7, <2>2 DEF Check
    <3>3. at[s] = "check"
      BY <1>7, <2>2 DEF Check
    <3>4. QED
      BY <3>1, <3>2, <3>3
  <2>3. QED
    BY <2>1, <2>2
<1>8. ASSUME NEW t \in Sub, Receive(t) \/ ReceiveClosed(t) \/ WriteFails(t) PROVE Kept(s, e)'
  BY <1>8 DEF Receive, ReceiveClosed, WriteFails
<1>9. ASSUME NEW t \in Sub, Write(t) PROVE Kept(s, e)'
  <2>1. Range(Append(delivered[t], holding[t])) = Range(delivered[t]) \cup {holding[t]}
    BY Members
  <2>2. QED
    BY <1>9, <2>1 DEF Write
<1>10. QED
  BY <1>2, <1>3, <1>4, <1>5, <1>6, <1>7, <1>8, <1>9 DEF Next, Visit, Read


LEMMA KeptInvKept == TypeOK /\ OpenInv /\ KeptInv /\ [Next]_vars => KeptInv'
<1> SUFFICES ASSUME TypeOK, OpenInv, KeptInv, [Next]_vars PROVE KeptInv'
  OBVIOUS
<1> USE DEF TypeOK, TypeSocket, OpenInv, KeptInv, publisher, reader
<1> HIDE DEF Kept
<1>0. /\ \A s \in Sub, e \in Line : Kept(s, e) /\ (event # 0 \/ s \in subs') => Kept(s, e)'
      /\ Coord \subseteq Line /\ 0 \notin Line
      /\ waking # NoSub => event # 0
  BY KeptStays, LineAssumption DEF Line
\* Steps that leave the publisher alone.
<1>1. ASSUME UNCHANGED <<published, event, todo, waking>>, subs' \subseteq subs, joined' = joined
      PROVE KeptInv'
  <2>1. waking' # NoSub => waking' \in todo' /\ Kept(waking, event)'
    <3>1. waking # NoSub => waking \in Sub /\ event \in Line
      BY <1>0
    <3>2. QED
      BY <1>0, <1>1, <3>1
  <2>2. QED
    BY <1>0, <1>1, <2>1
<1>2. CASE UNCHANGED vars
  BY <1>1, <1>2 DEF vars
<1>3. CASE Publish
  <2>1. event = 0 /\ todo = {} /\ published' = published + 1 /\ UNCHANGED <<subs, waking, joined>>
    BY <1>3 DEF Publish, Unlocked
  <2>2. waking = NoSub
    BY <2>1, <1>0
  <2>3. ASSUME NEW s \in subs', NEW e \in Coord, joined'[s] < e, e <= published'
        PROVE Kept(s, e)' \/ (e = event' /\ s \in todo')
    <3>1. event' = published + 1 /\ todo' = subs
      BY <1>3, <2>3, <2>1 DEF Publish
    <3>2. e = published + 1 \/ e <= published
      BY <2>1, <2>3, <1>0, LineAssumption DEF Line
    <3>3. CASE e <= published
      <4>1. Kept(s, e)
        BY <3>3, <2>1, <2>3
      <4>2. QED
        BY <1>0, <4>1, <2>3, <2>1
    <3>4. QED
      BY <3>1, <3>2, <3>3, <2>1, <2>3
  <2>4. event' # 0 => event' = published'
    BY <1>3, <2>1 DEF Publish
  <2>5. QED
    BY <2>1, <2>2, <2>3, <2>4
<1>4. CASE CloseAll
  BY <1>1, <1>4 DEF CloseAll
<1>5. ASSUME NEW s \in Sub, Add(s) PROVE KeptInv'
  <2>1. CASE closed
    BY <1>1, <1>5, <2>1 DEF Add
  <2>2. CASE ~closed
    <3>1. /\ event = 0 /\ todo = {} /\ UNCHANGED <<published, event, todo, waking>>
          /\ subs' = subs \cup {s} /\ joined' = [joined EXCEPT ![s] = published]
      BY <1>5, <2>2 DEF Add, Unlocked
    <3>2. joined \in [Sub -> 0..MaxLines]
      BY DEF TypeReaders
    <3>3. ASSUME NEW t \in subs', NEW e \in Coord, joined'[t] < e, e <= published'
          PROVE Kept(t, e)'
      <4>1. t # s
        BY <3>1, <3>2, <3>3, <1>0, LineAssumption DEF Line
      <4>2. t \in subs /\ joined'[t] = joined[t]
        BY <3>1, <3>2, <3>3, <4>1
      <4>3. QED
        BY <3>1, <3>3, <4>2, <1>0
    <3>4. QED
      BY <3>1, <3>3, <1>0
  <2>3. QED
    BY <2>1, <2>2
<1>6. ASSUME NEW s \in Sub, Remove(s) PROVE KeptInv'
  BY <1>1, <1>6 DEF Remove
\* The visit to s ends with its event in the list of s, or none to keep.
<1>7. ASSUME NEW s \in todo, Served(s), UNCHANGED <<subs, published, joined>>,
             waking \in {NoSub, s}, waking' = NoSub,
             event \in Coord => Kept(s, event)
      PROVE KeptInv'
  <2>1. s \in Sub /\ event # 0
    OBVIOUS
  <2>2. event' # 0 => event' = published'
    BY <1>7 DEF Served
  <2>3. ASSUME NEW t \in subs', NEW e \in Coord, joined'[t] < e, e <= published'
        PROVE Kept(t, e)' \/ (e = event' /\ t \in todo')
    <3>1. CASE Kept(t, e)
      BY <3>1, <1>0, <1>7, <2>3, <2>1
    <3>2. CASE e = event /\ t \in todo
      <4>1. CASE t = s
        BY <3>2, <4>1, <1>0, <1>7, <2>1
      <4>2. CASE t # s
        BY <3>2, <4>2, <1>7 DEF Served
      <4>3. QED
        BY <4>1, <4>2
    <3>3. QED
      BY <3>1, <3>2, <1>7, <2>3
  <2>4. QED
    BY <2>2, <2>3, <1>7
<1>8. ASSUME NEW s \in Sub, Offer(s) PROVE KeptInv'
  BY <1>7, <1>8 DEF Offer
<1>9. ASSUME NEW s \in Sub, Prioritise(s) PROVE KeptInv'
  <2>1. /\ UNCHANGED <<subs, published, event, todo, joined>> /\ waking' = s /\ s \in todo
        /\ priority' = [priority EXCEPT ![s] = Append(@, event)]
    BY <1>9 DEF Prioritise
  <2>2. Kept(s, event)'
    <3>1. event \in Range(Append(priority[s], event))
      BY Members DEF TypeChannels
    <3>2. event' \in Range(priority'[s])
      BY <2>1, <3>1 DEF TypeChannels
    <3>3. QED
      BY <3>2 DEF Kept
  <2>3. event # 0
    BY <2>1
  <2>4. QED
    BY <2>1, <2>2, <2>3, <1>0
<1>10. ASSUME NEW s \in Sub, TryWake(s) PROVE KeptInv'
  <2>1. CASE Len(ch[s]) < Buffer
    BY <1>7, <1>10, <2>1, SubAssumption DEF TryWake
  <2>2. CASE ~(Len(ch[s]) < Buffer)
    BY <1>1, <1>10, <2>2 DEF TryWake
  <2>3. QED
    BY <2>1, <2>2
<1>11. ASSUME NEW s \in Sub, DropOldest(s) PROVE KeptInv'
  BY <1>1, <1>11 DEF DropOldest
<1>12. ASSUME NEW s \in Sub, ForceWake(s) PROVE KeptInv'
  BY <1>7, <1>12, SubAssumption DEF ForceWake
<1>13. ASSUME NEW s \in Sub, Read(s) PROVE KeptInv'
  BY <1>1, <1>13 DEF Read, Check, Receive, ReceiveClosed, Write
<1>14. ASSUME NEW s \in Sub, WriteFails(s) PROVE KeptInv'
  BY <1>1, <1>14 DEF WriteFails
<1>15. QED
  BY <1>2, <1>3, <1>4, <1>5, <1>6, <1>8, <1>9, <1>10, <1>11, <1>12, <1>13, <1>14
  DEF Next, Visit

\* No coordination event is dropped: each one published since a subscriber was
\* added is in its list, being written or written, or about to be put there by
\* the Publish in progress (Publish, enqueuePriority and next).
THEOREM CoordinationIsKept == Spec => []CoordinationKept
<1>1. Init => KeptInv /\ OpenInv
  BY DEF Init, KeptInv, OpenInv
<1>2. KeptInv => CoordinationKept
  BY DEF KeptInv, Kept, CoordinationKept
<1>3. QED
  BY <1>1, <1>2, KeptInvKept, OpenKept, SocketTyped, PTL DEF Spec


-----------------------------------------------------------------------------
(* The order in which a subscriber sees events.                            *)

\* x comes before y, if both are ordinary or both are coordination events.
Precedes(x, y) == x # Wake /\ y # Wake /\ (x \in Coord <=> y \in Coord) => x < y

\* A sequence each class of whose events is in the order of publication.
Ordered(c) == \A j, k \in 1..Len(c) : j < k => Precedes(c[j], c[k])

\* What the reader of s has in hand.
InHand(s) == IF at[s] = "write" THEN {holding[s]} ELSE {}

\* What s has still to be sent, from its list and from its channel.
Ahead(s) == Range(priority[s]) \cup Range(ch[s])

\* Everything s was given, written or not.
Given(s) == Range(delivered[s]) \cup InHand(s) \cup Ahead(s)

\* The order is kept from the publisher to the peer: within a class, what is
\* written precedes what is in hand, that precedes what waits, each queue is in
\* order, the two queues share no class, and the event being published comes
\* after all that.
OrderOf(s) ==
    /\ Ordered(delivered[s]) /\ Ordered(priority[s]) /\ Ordered(ch[s])
    /\ \A x \in Range(delivered[s]) : \A y \in InHand(s) \cup Ahead(s) : Precedes(x, y)
    /\ \A x \in InHand(s) : \A y \in Ahead(s) : Precedes(x, y)
    /\ Range(priority[s]) \subseteq Coord
    /\ Range(ch[s]) \cap Coord = {}
    /\ \A x \in Given(s) : x <= published
    /\ s \in todo /\ s # waking => \A x \in Given(s) : x < event

OrderInv == \A s \in Sub : OrderOf(s)

LEMMA OrderedLemma ==
    ASSUME NEW S, NEW c \in Seq(S)
    PROVE /\ \A x : Ordered(c) /\ (\A y \in Range(c) : Precedes(y, x)) => Ordered(Append(c, x))
          /\ c # <<>> /\ Ordered(c) => /\ Ordered(Tail(c))
                                       /\ \A y \in Range(Tail(c)) : Precedes(Head(c), y)
<1> USE DEF Ordered
<1>1. ASSUME NEW x, Ordered(c), \A y \in Range(c) : Precedes(y, x) PROVE Ordered(Append(c, x))
  <2>1. Len(c) \in Nat /\ Len(Append(c, x)) = Len(c) + 1 /\ DOMAIN c = 1..Len(c)
    OBVIOUS
  <2>2. \A j \in 1..Len(c) : Append(c, x)[j] = c[j] /\ c[j] \in Range(c)
    BY <2>1 DEF Range
  <2>3. Append(c, x)[Len(c) + 1] = x
    OBVIOUS
  <2>4. ASSUME NEW j \in 1..(Len(c) + 1), NEW k \in 1..(Len(c) + 1), j < k
        PROVE Precedes(Append(c, x)[j], Append(c, x)[k])
    <3>1. j \in 1..Len(c)
      BY <2>1, <2>4
    <3>2. CASE k \in 1..Len(c)
      BY <1>1, <2>2, <2>4, <3>1, <3>2
    <3>3. CASE k = Len(c) + 1
      BY <1>1, <2>2, <2>3, <3>1, <3>3
    <3>4. QED
      BY <2>1, <3>2, <3>3
  <2>5. QED
    BY <2>1, <2>4
<1>2. ASSUME c # <<>>, Ordered(c)
      PROVE Ordered(Tail(c)) /\ \A y \in Range(Tail(c)) : Precedes(Head(c), y)
  <2>1. /\ Len(c) \in Nat /\ Len(c) >= 1 /\ Len(Tail(c)) = Len(c) - 1
        /\ DOMAIN Tail(c) = 1..(Len(c) - 1) /\ Head(c) = c[1]
    BY <1>2
  <2>2. \A j \in 1..(Len(c) - 1) : Tail(c)[j] = c[j + 1]
    BY <1>2
  <2>3. \A j \in 1..(Len(c) - 1) : j + 1 \in 1..Len(c) /\ 1 < j + 1
    BY <2>1
  <2>4. ASSUME NEW j \in 1..(Len(c) - 1), NEW k \in 1..(Len(c) - 1), j < k
        PROVE Precedes(Tail(c)[j], Tail(c)[k])
    <3>1. j + 1 < k + 1
      BY <2>1, <2>4
    <3>2. QED
      BY <1>2, <2>2, <2>3, <3>1
  <2>5. \A j \in 1..(Len(c) - 1) : Precedes(Head(c), Tail(c)[j])
    BY <1>2, <2>1, <2>2, <2>3
  <2>6. QED
    BY <2>1, <2>4, <2>5 DEF Range
<1>3. QED
  BY <1>1, <1>2


LEMMA OrderKept == TypeOK /\ OpenInv /\ KeptInv /\ OrderInv /\ [Next]_vars => OrderInv'
<1> SUFFICES ASSUME TypeOK, OpenInv, KeptInv, OrderInv, [Next]_vars PROVE OrderInv'
  OBVIOUS
<1> USE DEF TypeOK, TypeSocket, OpenInv, publisher, reader
<1>0. /\ \A s \in Sub : /\ delivered[s] \in Seq(Line) /\ priority[s] \in Seq(Line)
                        /\ ch[s] \in Seq(Line \cup {Wake}) /\ holding[s] \in Line \cup {0}
                        /\ at[s] = "write" => holding[s] \in Line
      /\ \A s \in Sub : Given(s) \subseteq Line \cup {Wake}
      /\ published \in Nat /\ Line \cup {Wake} \subseteq Nat /\ Wake \notin Line
      /\ Coord \subseteq Line /\ event \in Nat
  <2>1. \A s \in Sub : /\ delivered[s] \in Seq(Line) /\ priority[s] \in Seq(Line)
                       /\ ch[s] \in Seq(Line \cup {Wake}) /\ holding[s] \in Line \cup {0}
                       /\ at[s] = "write" => holding[s] \in Line
    BY DEF TypeChannels, TypeReaders
  <2>2. \A s \in Sub : Given(s) \subseteq Line \cup {Wake}
    BY <2>1, Members DEF Given, InHand, Ahead
  <2>3. published \in Nat /\ Line \cup {Wake} \subseteq Nat /\ Wake \notin Line /\ Coord \subseteq Line
    BY LineAssumption DEF Line, Wake
  <2>4. QED
    BY <2>1, <2>2, <2>3 DEF Wake
<1>1. (event # 0 => event = published) /\ (waking # NoSub => waking \in todo)
  BY DEF KeptInv
<1>2. \A s \in Sub : OrderOf(s)
  BY DEF OrderInv
\* A subscriber that is given nothing and reads nothing.
<1>3. ASSUME NEW s \in Sub,
             delivered'[s] = delivered[s], priority'[s] = priority[s], ch'[s] = ch[s],
             InHand(s)' = InHand(s), published' \in Nat, published <= published',
             s \in todo' /\ s # waking' => \A x \in Given(s) : x < event'
      PROVE OrderOf(s)'
  <2>1. Given(s)' = Given(s) /\ Ahead(s)' = Ahead(s)
    BY <1>3 DEF Given, Ahead
  <2>2. \A x \in Given(s) : x \in Nat /\ x <= published
    BY <1>0, <1>2 DEF OrderOf
  <2>3. \A x \in Given(s) : x <= published'
    BY <2>2, <1>3, <1>0
  <2>4. OrderOf(s)
    BY <1>2
  <2>5. QED
    BY <1>3, <2>1, <2>3, <2>4 DEF OrderOf
<1>4. ASSUME NEW s \in Sub,
             delivered'[s] = delivered[s], priority'[s] = priority[s], ch'[s] = ch[s],
             at'[s] = "write" <=> at[s] = "write", holding'[s] = holding[s],
             UNCHANGED publisher
      PROVE OrderOf(s)'
  <2>1. InHand(s)' = InHand(s)
    BY <1>4 DEF InHand
  <2>2. s \in todo' /\ s # waking' => \A x \in Given(s) : x < event'
    BY <1>2, <1>4 DEF OrderOf
  <2>3. QED
    BY <1>0, <1>3, <1>4, <2>1, <2>2
<1>5. CASE UNCHANGED vars
  <2>1. \A s \in Sub : OrderOf(s)'
    BY <1>4, <1>5 DEF vars
  <2>2. QED
    BY <1>1, <1>5, <2>1 DEF OrderInv, vars
<1>6. CASE Publish
  <2>1. /\ published' = published + 1 /\ UNCHANGED <<ch, priority, delivered, at, holding>>
        /\ event' # 0 => event' = published'
        /\ todo' # {} => event' = published'
    BY <1>6, <1>0 DEF Publish, Unlocked
  <2>2. ASSUME NEW s \in Sub PROVE OrderOf(s)'
    <3>1. \A x \in Given(s) : x \in Nat /\ x <= published
      BY <1>0, <1>2 DEF OrderOf
    <3>2. InHand(s)' = InHand(s)
      BY <2>1 DEF InHand
    <3>3. s \in todo' /\ s # waking' => \A x \in Given(s) : x < event'
      BY <2>1, <3>1, <1>0
    <3>4. QED
      BY <1>3, <1>0, <2>1, <3>2, <3>3
  <2>3. QED
    BY <2>1, <2>2 DEF OrderInv
<1>7. CASE CloseAll
  <2>1. \A s \in Sub : OrderOf(s)'
    BY <1>4, <1>7 DEF CloseAll
  <2>2. QED
    BY <1>1, <1>7, <2>1 DEF OrderInv, CloseAll
<1>8. ASSUME NEW t \in Sub, Add(t) PROVE OrderInv'
  <2>1. \A s \in Sub : at'[s] = "write" <=> at[s] = "write"
    BY <1>8 DEF Add, TypeReaders
  <2>2. \A s \in Sub : OrderOf(s)'
    BY <1>4, <1>8, <2>1 DEF Add
  <2>3. QED
    BY <1>1, <1>8, <2>2 DEF OrderInv, Add
<1>9. ASSUME NEW t \in Sub, Remove(t) PROVE OrderInv'
  <2>1. \A s \in Sub : at'[s] = "write" <=> at[s] = "write"
    BY <1>9 DEF Remove, TypeReaders
  <2>2. \A s \in Sub : OrderOf(s)'
    BY <1>4, <1>9, <2>1 DEF Remove
  <2>3. QED
    BY <1>1, <1>9, <2>2 DEF OrderInv, Remove
\* Publish is done with t: what the others were given is older than its event.
<1>10. ASSUME NEW t \in todo, Served(t), waking \in {NoSub, t}, waking' = NoSub, published' = published
       PROVE /\ event' # 0 => event' = published'
             /\ t \notin todo'
             /\ \A s \in Sub : s \in todo' /\ s # waking' => \A x \in Given(s) : x < event'
  <2>1. event' # 0 => event' = published'
    BY <1>1, <1>10 DEF Served
  <2>2. ASSUME NEW s \in Sub, s \in todo' PROVE \A x \in Given(s) : x < event'
    <3>1. s \in todo /\ s # t /\ event' = event
      BY <1>10, <2>2 DEF Served
    <3>2. s # waking
      BY <1>10, <3>1, SubAssumption
    <3>3. QED
      BY <1>2, <3>1, <3>2 DEF OrderOf
  <2>3. QED
    BY <1>10, <2>1, <2>2 DEF Served
\* A wake is no event, and dropping the oldest line keeps the others in order.
<1>11. ASSUME NEW s \in Sub,
              delivered'[s] = delivered[s], priority'[s] = priority[s], InHand(s)' = InHand(s),
              published' = published, Range(ch'[s]) \subseteq Range(ch[s]) \cup {Wake}, Ordered(ch'[s]),
              s \in todo' /\ s # waking' => event' = event /\ s \in todo /\ s # waking /\ ch'[s] = ch[s]
       PROVE OrderOf(s)'
  <2>1. Given(s)' \subseteq Given(s) \cup {Wake} /\ Ahead(s)' \subseteq Ahead(s) \cup {Wake}
    BY <1>11 DEF Given, Ahead
  <2>2. OrderOf(s)
    BY <1>2
  <2>3. s \in todo' /\ s # waking' => \A x \in Given(s)' : x < event'
    <3>1. s \in todo' /\ s # waking' => Given(s)' = Given(s)
      BY <1>11 DEF Given, Ahead
    <3>2. QED
      BY <1>11, <2>2, <3>1 DEF OrderOf
  <2>4. \A x \in Given(s)' : x <= published'
    BY <1>0, <1>11, <2>1, <2>2 DEF OrderOf, Wake
  <2>5. /\ \A x \in Range(delivered[s])' : \A y \in InHand(s)' \cup Ahead(s)' : Precedes(x, y)
        /\ \A x \in InHand(s)' : \A y \in Ahead(s)' : Precedes(x, y)
    BY <1>11, <2>1, <2>2 DEF OrderOf, Precedes
  <2>6. Range(ch'[s]) \cap Coord = {}
    BY <1>0, <1>11, <2>2 DEF OrderOf
  <2>7. QED
    BY <1>11, <2>2, <2>3, <2>4, <2>5, <2>6 DEF OrderOf
\* The list is read, or the channel, oldest first; a wake is passed over.
<1>12. ASSUME NEW t \in Sub, Check(t) PROVE OrderInv'
  <2>1. ASSUME NEW s \in Sub, s # t \/ priority[t] = <<>> PROVE OrderOf(s)'
    <3>1. at'[s] = "write" <=> at[s] = "write"
      BY <1>12, <2>1 DEF Check, TypeReaders
    <3>2. holding'[s] = holding[s] /\ priority'[s] = priority[s]
      BY <1>12, <2>1 DEF Check, TypeReaders, TypeChannels
    <3>3. QED
      BY <1>4, <1>12, <3>1, <3>2 DEF Check
  <2>2. CASE priority[t] # <<>>
    <3>1. /\ holding'[t] = Head(priority[t]) /\ priority'[t] = Tail(priority[t])
          /\ at'[t] = "write" /\ at[t] = "check" /\ UNCHANGED <<delivered, ch, publisher>>
      BY <1>12, <2>2 DEF Check, TypeReaders, TypeChannels
    <3>2. InHand(t)' = {Head(priority[t])} /\ InHand(t) = {}
      BY <3>1 DEF InHand
    <3>3. /\ Range(priority[t]) = {Head(priority[t])} \cup Range(Tail(priority[t]))
          /\ Ordered(Tail(priority[t]))
          /\ \A y \in Range(Tail(priority[t])) : Precedes(Head(priority[t]), y)
      BY <1>0, <1>2, <2>2, Members, OrderedLemma DEF OrderOf
    <3>4. Given(t)' = Given(t) /\ Ahead(t)' \subseteq Ahead(t) /\ InHand(t)' \subseteq Ahead(t)
      BY <3>1, <3>2, <3>3 DEF Given, Ahead
    <3>5. \A y \in Range(ch[t]) : Precedes(Head(priority[t]), y)
      BY <1>2, <3>3 DEF OrderOf, Precedes
    <3>6. OrderOf(t)
      BY <1>2
    <3>7. \A x \in InHand(t)' : \A y \in Ahead(t)' : Precedes(x, y)
      BY <3>1, <3>2, <3>3, <3>5 DEF Ahead
    <3>8. \A x \in Range(delivered'[t]) : \A y \in InHand(t)' \cup Ahead(t)' : Precedes(x, y)
      BY <3>1, <3>4, <3>6 DEF OrderOf
    <3>9. OrderOf(t)'
      BY <3>1, <3>3, <3>4, <3>6, <3>7, <3>8 DEF OrderOf
    <3>10. QED
      BY <1>1, <2>1, <3>1, <3>9 DEF OrderInv
  <2>3. CASE priority[t] = <<>>
    BY <1>1, <1>12, <2>1, <2>3 DEF OrderInv, Check
  <2>4. QED
    BY <2>2, <2>3
<1>13. ASSUME NEW t \in Sub, Receive(t) PROVE OrderInv'
  <2>1. ASSUME NEW s \in Sub, s # t PROVE OrderOf(s)'
    <3>1. at'[s] = at[s] /\ holding'[s] = holding[s] /\ ch'[s] = ch[s]
      BY <1>13, <2>1 DEF Receive, TypeReaders, TypeChannels
    <3>2. QED
      BY <1>4, <1>13, <3>1 DEF Receive
  <2>2. /\ ch[t] # <<>> /\ ch'[t] = Tail(ch[t]) /\ at[t] = "recv"
        /\ UNCHANGED <<delivered, priority, publisher>>
    BY <1>13 DEF Receive, TypeChannels
  <2>3. /\ Range(ch[t]) = {Head(ch[t])} \cup Range(Tail(ch[t]))
        /\ Ordered(Tail(ch[t]))
        /\ \A y \in Range(Tail(ch[t])) : Precedes(Head(ch[t]), y)
    BY <1>0, <1>2, <2>2, Members, OrderedLemma DEF OrderOf
  <2>4. InHand(t) = {} /\ InHand(t)' \subseteq {Head(ch[t])}
    BY <1>13, <2>2 DEF InHand, Receive, TypeReaders
  <2>5. Given(t)' \subseteq Given(t) /\ Ahead(t)' \subseteq Ahead(t) /\ InHand(t)' \subseteq Ahead(t)
    BY <2>2, <2>3, <2>4 DEF Given, Ahead
  <2>6. OrderOf(t)
    BY <1>2
  <2>7. \A y \in Range(priority[t]) : Precedes(Head(ch[t]), y)
    BY <1>0, <2>3, <2>6 DEF OrderOf, Precedes
  <2>8. \A x \in InHand(t)' : \A y \in Ahead(t)' : Precedes(x, y)
    BY <2>2, <2>3, <2>4, <2>7 DEF Ahead
  <2>9. \A x \in Range(delivered'[t]) : \A y \in InHand(t)' \cup Ahead(t)' : Precedes(x, y)
    BY <2>2, <2>5, <2>6 DEF OrderOf
  <2>10. OrderOf(t)'
    BY <2>2, <2>3, <2>5, <2>6, <2>8, <2>9 DEF OrderOf
  <2>11. QED
    BY <1>1, <2>1, <2>2, <2>10 DEF OrderInv
<1>14. ASSUME NEW t \in Sub, ReceiveClosed(t) PROVE OrderInv'
  <2>1. \A s \in Sub : at'[s] = "write" <=> at[s] = "write"
    BY <1>14 DEF ReceiveClosed, TypeReaders
  <2>2. \A s \in Sub : OrderOf(s)'
    BY <1>4, <1>14, <2>1 DEF ReceiveClosed
  <2>3. QED
    BY <1>1, <1>14, <2>2 DEF OrderInv, ReceiveClosed
<1>15. ASSUME NEW t \in Sub, Write(t) PROVE OrderInv'
  <2>1. ASSUME NEW s \in Sub, s # t PROVE OrderOf(s)'
    <3>1. at'[s] = at[s] /\ delivered'[s] = delivered[s]
      BY <1>15, <2>1 DEF Write, TypeReaders
    <3>2. QED
      BY <1>4, <1>15, <3>1 DEF Write
  <2>2. /\ delivered'[t] = Append(delivered[t], holding[t]) /\ at[t] = "write" /\ at'[t] = "check"
        /\ UNCHANGED <<priority, ch, publisher, holding>>
    BY <1>15 DEF Write, TypeReaders
  <2>3. InHand(t) = {holding[t]} /\ InHand(t)' = {}
    BY <2>2 DEF InHand
  <2>4. OrderOf(t)
    BY <1>2
  <2>5. /\ Range(delivered'[t]) = Range(delivered[t]) \cup {holding[t]}
        /\ Ordered(delivered'[t])
    BY <1>0, <2>2, <2>3, <2>4, Members, OrderedLemma DEF OrderOf
  <2>6. Given(t)' = Given(t) /\ Ahead(t)' = Ahead(t)
    BY <2>2, <2>3, <2>5 DEF Given, Ahead
  <2>7. \A x \in Range(delivered'[t]) : \A y \in InHand(t)' \cup Ahead(t)' : Precedes(x, y)
    BY <2>3, <2>4, <2>5, <2>6 DEF OrderOf
  <2>8. OrderOf(t)'
    BY <2>2, <2>3, <2>4, <2>5, <2>6, <2>7 DEF OrderOf
  <2>9. QED
    BY <1>1, <2>1, <2>2, <2>8 DEF OrderInv
<1>16. ASSUME NEW t \in Sub, WriteFails(t) PROVE OrderInv'
  <2>1. ASSUME NEW s \in Sub, s # t PROVE OrderOf(s)'
    BY <1>4, <1>16, <2>1 DEF WriteFails, TypeReaders
  <2>2. InHand(t)' = {} /\ Ahead(t)' = Ahead(t) /\ Given(t)' \subseteq Given(t)
    BY <1>16 DEF WriteFails, TypeReaders, InHand, Ahead, Given
  <2>3. OrderOf(t)
    BY <1>2
  <2>4. OrderOf(t)'
    BY <1>16, <2>2, <2>3 DEF OrderOf, WriteFails
  <2>5. QED
    BY <1>1, <1>16, <2>1, <2>4 DEF OrderInv, WriteFails
\* Publish.
<1>17. ASSUME NEW t \in Sub, Offer(t) PROVE OrderInv'
  <2>1. /\ t \in todo /\ waking = NoSub /\ waking' = NoSub /\ Served(t) /\ published' = published
        /\ event \notin Coord /\ UNCHANGED <<delivered, priority, at, holding>>
        /\ \A s \in Sub : s # t => ch'[s] = ch[s]
        /\ ch'[t] \in {ch[t], Append(ch[t], event)}
    BY <1>17 DEF Offer, TypeChannels
  <2>2. ASSUME NEW s \in Sub, ch'[s] = ch[s] PROVE OrderOf(s)'
    BY <1>0, <1>3, <1>10, <2>1, <2>2 DEF InHand
  <2>3. CASE ch'[t] = Append(ch[t], event)
    <3>1. Range(ch'[t]) = Range(ch[t]) \cup {event} /\ InHand(t)' = InHand(t)
      BY <1>0, <2>1, <2>3, Members DEF InHand
    <3>2. Given(t)' = Given(t) \cup {event} /\ Ahead(t)' = Ahead(t) \cup {event}
      BY <2>1, <3>1 DEF Given, Ahead
    <3>3. OrderOf(t) /\ t # waking /\ event # 0 /\ event = published
      BY <1>1, <1>2, <2>1, SubAssumption
    <3>4. \A x \in Given(t) : x < event /\ Precedes(x, event)
      BY <2>1, <3>3 DEF OrderOf, Precedes
    <3>5. Range(ch[t]) \subseteq Given(t)
      BY DEF Given, Ahead
    <3>6. Ordered(ch'[t])
      BY <1>0, <2>3, <3>3, <3>4, <3>5, OrderedLemma DEF OrderOf
    <3>7. /\ \A x \in Range(delivered'[t]) : \A y \in InHand(t)' \cup Ahead(t)' : Precedes(x, y)
          /\ \A x \in InHand(t)' : \A y \in Ahead(t)' : Precedes(x, y)
      BY <2>1, <3>1, <3>2, <3>3, <3>4 DEF OrderOf, Given
    <3>8. \A x \in Given(t)' : x <= published'
      BY <1>0, <2>1, <3>2, <3>3 DEF OrderOf
    <3>9. OrderOf(t)'
      BY <1>10, <2>1, <3>1, <3>3, <3>6, <3>7, <3>8 DEF OrderOf
    <3>10. QED
      BY <1>10, <2>1, <2>2, <3>9 DEF OrderInv
  <2>4. QED
    BY <1>10, <2>1, <2>2, <2>3 DEF OrderInv
<1>18. ASSUME NEW t \in Sub, Prioritise(t) PROVE OrderInv'
  <2>1. /\ t \in todo /\ waking = NoSub /\ waking' = t /\ UNCHANGED <<published, event, todo>>
        /\ event \in Coord /\ UNCHANGED <<delivered, ch, at, holding>>
        /\ \A s \in Sub : s # t => priority'[s] = priority[s]
        /\ priority'[t] = Append(priority[t], event)
    BY <1>18 DEF Prioritise, TypeChannels
  <2>2. ASSUME NEW s \in Sub, s # t PROVE OrderOf(s)'
    <3>1. s \in todo' /\ s # waking' => \A x \in Given(s) : x < event'
      BY <1>2, <2>1, <2>2, SubAssumption DEF OrderOf
    <3>2. QED
      BY <1>0, <1>3, <2>1, <2>2, <3>1 DEF InHand
  <2>3. Range(priority'[t]) = Range(priority[t]) \cup {event} /\ InHand(t)' = InHand(t)
    BY <1>0, <2>1, Members DEF InHand
  <2>4. Given(t)' = Given(t) \cup {event} /\ Ahead(t)' = Ahead(t) \cup {event}
    BY <2>1, <2>3 DEF Given, Ahead
  <2>5. OrderOf(t) /\ t # waking /\ event # 0 /\ event = published
    BY <1>1, <1>2, <2>1, SubAssumption
  <2>6. \A x \in Given(t) : x < event /\ Precedes(x, event)
    BY <2>1, <2>5 DEF OrderOf, Precedes
  <2>7. Range(priority[t]) \subseteq Given(t)
    BY DEF Given, Ahead
  <2>8. Ordered(priority'[t])
    BY <1>0, <2>1, <2>5, <2>6, <2>7, OrderedLemma DEF OrderOf
  <2>9. /\ \A x \in Range(delivered'[t]) : \A y \in InHand(t)' \cup Ahead(t)' : Precedes(x, y)
        /\ \A x \in InHand(t)' : \A y \in Ahead(t)' : Precedes(x, y)
    BY <2>1, <2>3, <2>4, <2>5, <2>6 DEF OrderOf, Given
  <2>10. \A x \in Given(t)' : x <= published'
    BY <1>0, <2>1, <2>4, <2>5 DEF OrderOf
  <2>11. OrderOf(t)'
    BY <2>1, <2>3, <2>5, <2>8, <2>9, <2>10 DEF OrderOf
  <2>12. QED
    BY <1>1, <2>1, <2>2, <2>11 DEF OrderInv
\* A wake sent to t, or a line dropped to make room for it.
<1>19. ASSUME NEW t \in Sub, waking = t, waking' = NoSub, Served(t), published' = published,
              UNCHANGED <<delivered, priority, at, holding>>,
              ch' = [ch EXCEPT ![t] = Append(@, Wake)]
       PROVE OrderInv'
  <2>1. t \in todo /\ UNCHANGED <<delivered, priority>> /\ \A s \in Sub : InHand(s)' = InHand(s)
    BY <1>1, <1>19, SubAssumption DEF InHand
  <2>2. ASSUME NEW s \in Sub, s # t PROVE OrderOf(s)'
    <3>1. ch'[s] = ch[s] /\ (s \in todo' /\ s # waking' => \A x \in Given(s) : x < event')
      BY <1>10, <1>19, <2>1, <2>2 DEF TypeChannels
    <3>2. QED
      BY <1>0, <1>3, <1>19, <2>1, <3>1
  <2>3. ch'[t] = Append(ch[t], Wake) /\ t \notin todo'
    BY <1>19 DEF TypeChannels, Served
  <2>4. \A y \in Range(ch[t]) : Precedes(y, Wake)
    BY DEF Precedes
  <2>5. Range(ch'[t]) = Range(ch[t]) \cup {Wake} /\ Ordered(ch'[t])
    BY <1>0, <1>2, <2>3, <2>4, Members, OrderedLemma DEF OrderOf
  <2>6. OrderOf(t)'
    BY <1>11, <1>19, <2>1, <2>3, <2>5
  <2>7. QED
    BY <2>2, <2>6 DEF OrderInv
<1>20. ASSUME NEW t \in Sub, TryWake(t) PROVE OrderInv'
  <2>1. CASE Len(ch[t]) < Buffer
    BY <1>19, <1>20, <2>1 DEF TryWake
  <2>2. CASE ~(Len(ch[t]) < Buffer)
    <3>1. /\ UNCHANGED <<delivered, priority, ch, at, holding, published, event, todo, waking>>
      BY <1>20, <2>2 DEF TryWake
    <3>2. \A s \in Sub : InHand(s)' = InHand(s)
      BY <3>1 DEF InHand
    <3>3. \A s \in Sub : s \in todo' /\ s # waking' => \A x \in Given(s) : x < event'
      BY <1>2, <3>1 DEF OrderOf
    <3>4. QED
      BY <1>0, <1>3, <3>1, <3>2, <3>3 DEF OrderInv
  <2>3. QED
    BY <2>1, <2>2
<1>21. ASSUME NEW t \in Sub, ForceWake(t) PROVE OrderInv'
  BY <1>19, <1>21 DEF ForceWake
<1>22. ASSUME NEW t \in Sub, DropOldest(t) PROVE OrderInv'
  <2>1. /\ waking = t /\ UNCHANGED <<delivered, priority, published, event, todo, waking>>
        /\ \A s \in Sub : InHand(s)' = InHand(s)
        /\ \A s \in Sub : s # t => ch'[s] = ch[s]
        /\ ch'[t] = IF ch[t] = <<>> THEN ch[t] ELSE Tail(ch[t])
    BY <1>22 DEF DropOldest, InHand, TypeChannels
  <2>2. ASSUME NEW s \in Sub, s # t PROVE OrderOf(s)'
    <3>1. s \in todo' /\ s # waking' => \A x \in Given(s) : x < event'
      BY <1>2, <2>1 DEF OrderOf
    <3>2. QED
      BY <1>0, <1>3, <2>1, <2>2, <3>1
  <2>3. Range(ch'[t]) \subseteq Range(ch[t]) /\ Ordered(ch'[t])
    <3>1. CASE ch[t] = <<>>
      BY <1>2, <2>1, <3>1 DEF OrderOf
    <3>2. CASE ch[t] # <<>>
      BY <1>0, <1>2, <2>1, <3>2, Members, OrderedLemma DEF OrderOf
    <3>3. QED
      BY <3>1, <3>2
  <2>4. OrderOf(t)'
    BY <1>11, <2>1, <2>3
  <2>5. QED
    BY <2>2, <2>4 DEF OrderInv
<1>23. QED
  BY <1>5, <1>6, <1>7, <1>8, <1>9, <1>12, <1>13, <1>14, <1>15, <1>16, <1>17, <1>18,
     <1>20, <1>21, <1>22
  DEF Next, Visit, Read

\* A subscriber sees ordinary events in the order they were published, and
\* coordination events in theirs, none twice: the mutex keeps Publish's loops
\* apart, each queue is first in first out, and each class has one queue.
THEOREM SeenInOrder == Spec => []InOrder
<1>1. Init => OpenInv /\ KeptInv
  BY DEF Init, OpenInv, KeptInv
<1>2. Init => OrderInv
  <2>1. Range(<<>>) = {}
    BY DEF Range
  <2>2. Ordered(<<>>)
    BY DEF Ordered
  <2>3. QED
    BY <2>1, <2>2 DEF Init, OrderInv, OrderOf, InHand, Ahead, Given
<1>3. TypeOK /\ OrderInv => InOrder
  <2>1. ASSUME TypeOK, OrderInv, NEW s \in Sub,
               NEW j \in 1..Len(delivered[s]), NEW k \in 1..Len(delivered[s]), j < k,
               delivered[s][j] \in Coord <=> delivered[s][k] \in Coord
        PROVE delivered[s][j] < delivered[s][k]
    <3>1. delivered[s] \in Seq(Line) /\ Wake \notin Line
      BY <2>1, LineAssumption DEF TypeOK, TypeReaders, Line, Wake
    <3>2. delivered[s][j] # Wake /\ delivered[s][k] # Wake
      BY <3>1
    <3>3. QED
      BY <2>1, <3>2 DEF OrderInv, OrderOf, Ordered, Precedes
  <2>2. QED
    BY <2>1 DEF InOrder
<1>4. QED
  BY <1>1, <1>2, <1>3, OrderKept, KeptInvKept, OpenKept, SocketTyped, PTL DEF Spec

=============================================================================
